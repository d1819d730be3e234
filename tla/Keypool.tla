------------------------------ MODULE Keypool ------------------------------
(***************************************************************************)
(* The wallet's key pool (wallet.cpp): setKeyPool, the indices of the      *)
(* pool's keys held in memory, and the pool records of the wallet file,    *)
(* each holding the public key generated for its index.  TopUpKeyPool      *)
(* refills the pool, ReserveKeyFromKeyPool hands out the oldest index,     *)
(* KeepKey erases a used index's record, ReturnKey puts an unused index    *)
(* back.                                                                   *)
(*                                                                         *)
(* Its clients here are the ones of src/: the stake thread's CReserveKey   *)
(* (miner.cpp), which it reserves once and never keeps or returns; the     *)
(* change key of the darksend command's SendMoney (rpcdarksend.cpp:        *)
(* CreateTransaction, then CommitTransaction); the keys of the outputs of  *)
(* PrepareDarksendDenominate; GetKeyFromPool when a payment to the default *)
(* key arrives (AddToWallet); GetOldestKeyPoolTime; and EncryptWallet,     *)
(* which replaces the pool.  Keys                                          *)
(* are numbered in the order GenerateNewKey makes them; 0 is the empty     *)
(* CPubKey.  The wallet's lock is one flag, locked (IsLocked()), changed   *)
(* by the user.                                                            *)
(***************************************************************************)
EXTENDS Integers, FiniteSetsExt, Functions, TLC

CONSTANTS
    KeypoolSize,   \* the -keypool argument (nTargetSize), at least 0
    MaxKeys,       \* bound on the keys GenerateNewKey makes
    MaxOutputs     \* bound on the outputs of one transaction that take a key

ASSUME KeypoolSize \in Nat /\ MaxKeys \in Nat /\ MaxOutputs \in Nat \ {0}

NoKey == [nIndex |-> -1, key |-> 0]

VARIABLES
    setKeyPool,   \* CWallet::setKeyPool
    pool,         \* the pool records of the wallet file: index -> key
    nKeys,        \* keys generated so far
    defaultKey,   \* vchDefaultKey
    encrypted,    \* IsCrypted()
    locked,       \* IsLocked()
    stakeKey,     \* the stake thread's CReserveKey: [nIndex, key]
    stakePc,      \* ThreadStakeMiner: "wait" at the lock test, "sync" at
                  \* the peer and download test, "checked" past both,
                  \* "exited" once the thread has returned
    aborted       \* an assert has failed

vars == <<setKeyPool, pool, nKeys, defaultKey, encrypted, locked, stakeKey,
          stakePc, aborted>>

-----------------------------------------------------------------------------
(* The key pool as a value w = [set, pool, next, dflt], so that a handler  *)
(* can chain the calls it makes; dflt is vchDefaultKey (0 when invalid).   *)

W == [set |-> setKeyPool, pool |-> pool, next |-> nKeys, dflt |-> defaultKey]

SetWallet(w) ==
    /\ setKeyPool' = w.set
    /\ pool' = w.pool
    /\ nKeys' = w.next
    /\ defaultKey' = w.dflt

\* Mutant: an empty pool is numbered from 0, not 1.
TopUpKeyPoolFromZero(w, isLocked) ==
    LET c == IF Cardinality(w.set) < KeypoolSize + 1
             THEN KeypoolSize + 1 - Cardinality(w.set) ELSE 0
        start == IF w.set = {} THEN 0 ELSE Max(w.set) + 1
        new == start..(start + c - 1)
    IN IF isLocked THEN w
       ELSE [w EXCEPT !.set = @ \cup new,
                      !.pool = [i \in new |-> w.next + i - start + 1] @@ @,
                      !.next = @ + c]

\* TopUpKeyPool(0): nothing while locked; otherwise keys are added until
\* the pool holds nTargetSize + 1, each at the index one above the largest
\* in setKeyPool, or at 1 when setKeyPool is empty.  WritePool overwrites
\* a record already at that index.
TopUpKeyPool(w, isLocked) ==
    LET c == IF Cardinality(w.set) < KeypoolSize + 1
             THEN KeypoolSize + 1 - Cardinality(w.set) ELSE 0
        start == IF w.set = {} THEN 1 ELSE Max(w.set) + 1
        new == start..(start + c - 1)
    IN IF isLocked THEN w
       ELSE [w EXCEPT !.set = @ \cup new,
                      !.pool = [i \in new |-> w.next + i - start + 1] @@ @,
                      !.next = @ + c]

\* ReserveKeyFromKeyPool: top up unless locked, then take the oldest
\* (smallest) index out of setKeyPool and read its record; nIndex is -1
\* when setKeyPool is empty.  A missing record throws "read failed" after
\* the index has been erased from setKeyPool and assigned to nIndex.
TakeOldest(w1, i) ==
    [w |-> [w1 EXCEPT !.set = @ \ {i}], nIndex |-> i,
     key |-> IF i \in DOMAIN w1.pool THEN w1.pool[i] ELSE 0,
     thrown |-> i \notin DOMAIN w1.pool]

ReserveFromTopped(w1) ==
    IF w1.set = {}
    THEN [w |-> w1, nIndex |-> -1, key |-> 0, thrown |-> FALSE]
    ELSE TakeOldest(w1, Min(w1.set))

ReserveKeyFromKeyPool(w, isLocked) ==
    ReserveFromTopped(TopUpKeyPool(w, isLocked))

\* KeepKey erases the index's pool record; ReturnKey puts it back into
\* setKeyPool.
KeepKey(w, i) == [w EXCEPT !.pool = Restrict(@, DOMAIN @ \ {i})]

ReturnKey(w, i) == [w EXCEPT !.set = @ \cup {i}]

\* NewKeyPool on an unlocked wallet: erase the records of setKeyPool and
\* write keys at 1..nKeys.
NewKeyPool(w) ==
    LET new == 1..KeypoolSize
    IN [w EXCEPT !.set = new,
                 !.pool = [i \in new |-> w.next + i] @@ Restrict(@, DOMAIN @ \ w.set),
                 !.next = @ + KeypoolSize]

\* GenerateNewKey: a new key, numbered after every key made before; the
\* wallet holds it (AddKeyPubKey does not fail on an unlocked wallet, the
\* only kind its callers pass).
GenerateNewKey(w) == [key |-> w.next + 1, w |-> [w EXCEPT !.next = @ + 1]]

\* GetKeyFromPool: the oldest key, kept; with the pool empty, a key from
\* GenerateNewKey, or failure while locked.
KeyFromReservation(r, isLocked) ==
       CASE r.thrown -> [w |-> r.w, ok |-> FALSE, key |-> 0, thrown |-> TRUE]
         [] r.nIndex = -1 /\ isLocked ->
              [w |-> r.w, ok |-> FALSE, key |-> 0, thrown |-> FALSE]
         [] r.nIndex = -1 ->
              [w |-> GenerateNewKey(r.w).w, ok |-> TRUE,
               key |-> GenerateNewKey(r.w).key, thrown |-> FALSE]
         [] OTHER ->
              [w |-> KeepKey(r.w, r.nIndex), ok |-> TRUE, key |-> r.key,
               thrown |-> FALSE]

GetKeyFromPool(w, isLocked) ==
    KeyFromReservation(ReserveKeyFromKeyPool(w, isLocked), isLocked)

\* AddToWallet, for a transaction with n outputs paying the default key
\* (scriptDefaultKey is computed once, before the loop): each such output
\* takes a key with GetKeyFromPool and, when it gets one, makes it the
\* default key (SetDefaultKey).  An exception ends the loop.
RECURSIVE ReplaceDefaultKey(_, _, _), ReplaceWithKey(_, _, _)
ReplaceWithKey(g, isLocked, n) ==
    IF g.thrown THEN g.w
    ELSE ReplaceDefaultKey(IF g.ok THEN [g.w EXCEPT !.dflt = g.key] ELSE g.w,
                           isLocked, n - 1)

ReplaceDefaultKey(w, isLocked, n) ==
    IF n = 0 \/ w.dflt = 0 THEN w
    ELSE ReplaceWithKey(GetKeyFromPool(w, isLocked), isLocked, n)

\* CReserveKey::GetReservedKey on a CReserveKey that holds no key: a new
\* reservation; fail when there is none (nIndex -1).  One that holds a key
\* hands it out again (the stake thread's, see StakerCreateBlock).
ReservedKey(r) ==
    [w |-> r.w, held |-> r.nIndex, fail |-> r.nIndex = -1 /\ ~r.thrown,
     thrown |-> r.thrown]

GetReservedKey(w, isLocked) == ReservedKey(ReserveKeyFromKeyPool(w, isLocked))

\* The paths of CreateTransaction that differ for the change key:
\*   "invalid"  a bad amount, a dust payee or too few coins: no reservation;
\*   "nochange" no change (nChange <= 0): ReturnKey on an empty CReserveKey;
\*   "dust"     the change key is reserved, then returned (dust change);
\*   "change"   the change key is reserved and held;
\*   "failheld" reserved, then signing, size or fee policy fails.
\* A pass of the fee loop that reuses or returns the key ends in one of
\* these.  abort: the assert on GetReservedKey fails.
CreateOutcomes == {"invalid", "nochange", "dust", "change", "failheld"}

CreateWithChangeKey(g, outcome) ==
            CASE g.fail -> [w |-> g.w, held |-> -1, ok |-> FALSE, abort |-> TRUE]
              [] g.thrown -> [w |-> g.w, held |-> g.held, ok |-> FALSE, abort |-> FALSE]
              [] outcome = "dust" ->
                   [w |-> ReturnKey(g.w, g.held), held |-> -1, ok |-> TRUE, abort |-> FALSE]
              [] OTHER ->
                   [w |-> g.w, held |-> g.held, ok |-> outcome = "change", abort |-> FALSE]

CreateTransaction(w, isLocked, outcome) ==
    IF outcome \in {"invalid", "nochange"}
    THEN [w |-> w, held |-> -1, ok |-> outcome = "nochange", abort |-> FALSE]
    ELSE CreateWithChangeKey(GetReservedKey(w, isLocked), outcome)

\* CommitTransaction: keep the change key, then AddToWallet the new
\* transaction, which pays the default key in n outputs.  A mempool
\* rejection afterwards changes nothing here.
CommitTransaction(w, held, isLocked, n) ==
    ReplaceDefaultKey(IF held # -1 THEN KeepKey(w, held) ELSE w, isLocked, n)

\* k outputs, each with a key from GetReservedKey that is then kept, as
\* PrepareDarksendDenominate makes its denominated outputs.
RECURSIVE ReserveAndKeep(_, _, _), KeepReserved(_, _, _)
KeepReserved(g, isLocked, k) ==
    CASE g.fail -> [w |-> g.w, abort |-> TRUE]
      [] g.thrown -> [w |-> g.w, abort |-> FALSE]
      [] OTHER -> ReserveAndKeep(KeepKey(g.w, g.held), isLocked, k - 1)

ReserveAndKeep(w, isLocked, k) ==
    IF k = 0 THEN [w |-> w, abort |-> FALSE]
    ELSE KeepReserved(GetReservedKey(w, isLocked), isLocked, k)

-----------------------------------------------------------------------------
(* The stake thread.  It sleeps while IsLocked(true), then while it has no *)
(* peers or is in initial download, without testing the lock again; after *)
(* a loss of sync it may go back to the lock test (fTryToSync, continue).  *)
(* Then CreateNewBlockWithKey's GetReservedKey reserves a key only while   *)
(* its CReserveKey holds none, and CreateNewBlock builds the template.  A  *)
(* NULL template makes the thread return for good, and so does the        *)
(* exception of a failed read.  On the return the CReserveKey's           *)
(* destructor (wallet.h) runs ReturnKey, which puts a held index back in  *)
(* setKeyPool.  While the thread runs the key is never kept: it signs     *)
(* proof-of-stake blocks, and CheckStake does not touch the CReserveKey.  *)

StakerCheck ==
    /\ stakePc = "wait"
    /\ ~locked
    /\ stakePc' = "sync"
    /\ UNCHANGED <<setKeyPool, pool, nKeys, defaultKey, encrypted, locked,
                   stakeKey, aborted>>

StakerSync ==
    /\ stakePc = "sync"
    /\ stakePc' \in {"wait", "checked"}
    /\ UNCHANGED <<setKeyPool, pool, nKeys, defaultKey, encrypted, locked,
                   stakeKey, aborted>>

\* CreateNewBlock with the key held: a template, or NULL when ConnectBlock
\* rejects it (a test of the mempool's transactions, left open here).  On
\* NULL, ThreadStakeMiner returns and CReserveKey::ReturnKey gives the
\* held index back to setKeyPool.
NewBlockTemplate(w, held) ==
    \/ /\ SetWallet(w)
       /\ stakePc' = "wait"
       /\ stakeKey' = held
    \/ /\ SetWallet(ReturnKey(w, held.nIndex))
       /\ stakePc' = "exited"
       /\ stakeKey' = NoKey

\* GetReservedKey for a CReserveKey that holds no key: NULL, and the thread
\* returns, when the reservation throws or finds setKeyPool empty.
StakerReserve(r) ==
    IF r.thrown \/ r.nIndex = -1
    THEN /\ SetWallet(r.w)
         /\ stakePc' = "exited"
         /\ UNCHANGED stakeKey
    ELSE NewBlockTemplate(r.w, [nIndex |-> r.nIndex, key |-> r.key])

StakerCreateBlock ==
    /\ stakePc = "checked"
    /\ IF stakeKey.nIndex # -1
       THEN NewBlockTemplate(W, stakeKey)
       ELSE StakerReserve(ReserveKeyFromKeyPool(W, locked))
    /\ UNCHANGED <<encrypted, locked, aborted>>

-----------------------------------------------------------------------------
(* Callers that run under cs_wallet (the RPC's LOCK2(cs_main, cs_wallet),  *)
(* SyncTransaction's LOCK2, the caller of PrepareDarksendDenominate that   *)
(* LockCoin asserts), so each is one step.                                 *)

\* SendMoney refuses a locked wallet, then runs CreateTransaction and
\* CommitTransaction.  If either fails it throws, and the CReserveKey's
\* destructor (wallet.h, not in the repository) runs with the key it still
\* holds: both outcomes, the key returned or not, are allowed.  n outputs
\* pay the default key (the payee may be the wallet's own default address).
SendCreated(c, n, returned) ==
    /\ aborted' = c.abort
    /\ IF c.ok
       THEN SetWallet(CommitTransaction(c.w, c.held, locked, n))
       ELSE SetWallet(IF returned /\ c.held # -1
                      THEN ReturnKey(c.w, c.held) ELSE c.w)

SendMoney(outcome, n, returned) ==
    /\ ~locked
    /\ SendCreated(CreateTransaction(W, locked, outcome), n, returned)

\* The darksend <address> <amount> command, which also refuses a locked
\* wallet.
RpcDarksend ==
    /\ ~locked
    /\ \E outcome \in CreateOutcomes, n \in 0..1, returned \in BOOLEAN :
           SendMoney(outcome, n, returned)
    /\ UNCHANGED <<encrypted, locked, stakeKey, stakePc>>

\* SendStealthMoney: the same steps as SendMoney (fWalletUnlockStakingOnly
\* is never set in src), with CreateStealthTransaction's CreateTransaction;
\* a failure returns an error string instead of throwing.  The payee is a
\* key derived for this payment, never the default key.
SendStealthMoney(outcome, returned) ==
    SendMoney(outcome, 0, returned)

\* SendStealthMoneyToDestination: its early returns (amount, balance,
\* secret derivation, narration) change nothing; then SendStealthMoney.
\* Its caller, the stealth send command, is not in the repository; it runs
\* under the RPC's LOCK2 like every wallet command.
SendStealthMoneyToDestination ==
    /\ \E outcome \in CreateOutcomes, returned \in BOOLEAN :
           SendStealthMoney(outcome, returned)
    /\ UNCHANGED <<encrypted, locked, stakeKey, stakePc>>

\* Mutant: the IsLocked() test at the top is dropped.
PrepareDarksendDenominateUnchecked ==
    /\ \E k \in 1..MaxOutputs :
           LET d == ReserveAndKeep(W, locked, k)
           IN SetWallet(d.w) /\ aborted' = d.abort
    /\ UNCHANGED <<encrypted, locked, stakeKey, stakePc>>

\* PrepareDarksendDenominate refuses a locked wallet, then makes k
\* denominated outputs, each to a key reserved and kept; a failure after
\* that (no matching denominations, change left over) keeps the keys.
PrepareDarksendDenominate ==
    /\ ~locked
    /\ \E k \in 1..MaxOutputs :
           LET d == ReserveAndKeep(W, locked, k)
           IN SetWallet(d.w) /\ aborted' = d.abort
    /\ UNCHANGED <<encrypted, locked, stakeKey, stakePc>>

\* A transaction with n outputs paying the default key reaches AddToWallet
\* (SyncTransaction), locked or not.
AddToWallet ==
    /\ \E n \in 1..MaxOutputs : SetWallet(ReplaceDefaultKey(W, locked, n))
    /\ UNCHANGED <<encrypted, locked, stakeKey, stakePc, aborted>>

\* GetOldestKeyPoolTime reserves the oldest key and returns it.
GetOldestKeyPoolTime ==
    /\ LET r == ReserveKeyFromKeyPool(W, locked)
       IN IF r.thrown \/ r.nIndex = -1 THEN SetWallet(r.w)
          ELSE SetWallet(ReturnKey(r.w, r.nIndex))
    /\ UNCHANGED <<encrypted, locked, stakeKey, stakePc, aborted>>

\* EncryptWallet: Lock, Unlock, NewKeyPool, Lock.
EncryptWallet ==
    /\ ~encrypted
    /\ SetWallet(NewKeyPool(W))
    /\ encrypted' = TRUE
    /\ locked' = TRUE
    /\ UNCHANGED <<stakeKey, stakePc, aborted>>

\* The user locks or unlocks an encrypted wallet (Lock, Unlock).
WalletLock ==
    /\ encrypted /\ ~locked
    /\ locked' = TRUE
    /\ UNCHANGED <<setKeyPool, pool, nKeys, defaultKey, encrypted, stakeKey,
                   stakePc, aborted>>

WalletUnlock ==
    /\ locked
    /\ locked' = FALSE
    /\ UNCHANGED <<setKeyPool, pool, nKeys, defaultKey, encrypted, stakeKey,
                   stakePc, aborted>>

\* ChangeWalletPassphrase: Lock() first; then, for the master key, the old
\* passphrase decrypts it (or the call returns false, the wallet now
\* locked), the key is re-encrypted under the new passphrase and written,
\* and the wallet is locked again only if it was locked before.  An
\* unencrypted wallet has no master key: Lock() fails and nothing changes.
ChangeWalletPassphrase ==
    /\ encrypted
    /\ \E oldPassphraseRight \in BOOLEAN :
          locked' = IF oldPassphraseRight THEN locked ELSE TRUE
    /\ UNCHANGED <<setKeyPool, pool, nKeys, defaultKey, encrypted, stakeKey,
                   stakePc, aborted>>

-----------------------------------------------------------------------------

\* A wallet after its first run: a new wallet's first GetKeyFromPool tops
\* the empty pool up and keeps the oldest key as the default key.  An
\* encrypted one has had its pool replaced by EncryptWallet and is locked.
FirstRun ==
    LET g == GetKeyFromPool([set |-> {}, pool |-> <<>>, next |-> 0, dflt |-> 0], FALSE)
    IN [g.w EXCEPT !.dflt = g.key]

Init ==
    \E enc \in BOOLEAN :
        LET w == IF enc THEN NewKeyPool(FirstRun) ELSE FirstRun
        IN /\ setKeyPool = w.set
           /\ pool = w.pool
           /\ nKeys = w.next
           /\ defaultKey = w.dflt
           /\ encrypted = enc
           /\ locked = enc
           /\ stakeKey = NoKey
           /\ stakePc = "wait"
           /\ aborted = FALSE

\* An assert that fails ends the process.
Next ==
    /\ ~aborted
    /\ \/ StakerCheck \/ StakerSync \/ StakerCreateBlock
       \/ RpcDarksend \/ SendStealthMoneyToDestination
       \/ PrepareDarksendDenominate \/ AddToWallet
       \/ GetOldestKeyPoolTime
       \/ EncryptWallet \/ WalletLock \/ WalletUnlock
       \/ ChangeWalletPassphrase

Spec == Init /\ [][Next]_vars

\* The state constraint bounding the keys generated.
KeyBound == nKeys <= MaxKeys

-----------------------------------------------------------------------------
(* Properties                                                              *)

TypeOK ==
    /\ setKeyPool \subseteq Int
    /\ DOMAIN pool \subseteq Nat \ {0}
    /\ defaultKey \in Nat
    /\ stakeKey \in [nIndex : Int, key : Nat]
    /\ stakePc \in {"wait", "sync", "checked", "exited"}
    /\ aborted \in BOOLEAN

\* Every index in setKeyPool has its pool record in the wallet file, so
\* ReserveKeyFromKeyPool never throws "read failed".  TLC finds this
\* violated, so no run checks it: the stake thread holds index 2,
\* EncryptWallet's NewKeyPool writes indices 1 and 2 again, two
\* reservations keep both, and the thread's NULL template returns 2 to
\* setKeyPool through CReserveKey::ReturnKey, with no record left.
PoolReadable ==
    \A i \in setKeyPool : i \in DOMAIN pool

\* The asserts on GetReservedKey in CreateTransaction and
\* PrepareDarksendDenominate ("should never fail, as we just unlocked")
\* hold: every caller tests IsLocked() under cs_wallet first, so
\* TopUpKeyPool refills the pool before the reservation, even after
\* payments to the default key emptied it while the wallet was locked.
NoAssertAbort ==
    ~aborted

\* An index the stake thread holds is neither back in setKeyPool nor
\* rewritten with another key.  TLC finds this violated (EncryptWallet's
\* NewKeyPool, or TopUpKeyPool on a pool emptied while locked, numbers
\* from 1 again), so no run checks it.
StakeKeyNotReissued ==
    stakeKey.nIndex # -1 =>
        /\ stakeKey.nIndex \notin setKeyPool
        /\ stakeKey.nIndex \in DOMAIN pool => pool[stakeKey.nIndex] = stakeKey.key

====
