-------------------------- MODULE MasternodeElection --------------------------
(***************************************************************************)
(* The payee election on top of the registry: GetPaidMasternodes (who was  *)
(* paid in the last cycle), GetCurrentMasterNode (the highest-scoring      *)
(* eligible entry), CWallet::CreateCoinStake's choice of the payee of a    *)
(* stake block, and IsValidMasternodePayment, the check a block's payment *)
(* must pass.                                                              *)
(* The payment ledger enters as its record for the height being staked,  *)
(* which CreateCoinStake pays in preference to the election.              *)
(*                                                                         *)
(* The registry evolves as in MasternodeList; the chain is the sequence of *)
(* the masternode payees of its blocks (NoPayee for a block without one).  *)
(***************************************************************************)
EXTENDS MasternodeList

CONSTANTS
    ScoreOf,        \* [Vins -> [Nat -> Scores]]: low 32 bits of CalculateScore
    MinProtocol,    \* the minProtocol argument of GetCurrentMasterNode
    ACTIVE_MIN,     \* the 24 * 60 * 60 seconds a payee must have been active
    CYCLE_MIN,      \* the 960 blocks GetPaidMasternodes scans at least
    CYCLE_MAX,      \* the 1500 blocks it scans at most
    InitHeight,     \* blocks on the chain when the model starts
    MaxHeight,      \* bound on the chain height
    LedgerPayees,   \* payees the payments master's votes can name
    NoPayee

ASSUME /\ 0 < CYCLE_MIN /\ CYCLE_MIN <= CYCLE_MAX
       /\ 0 < InitHeight /\ InitHeight <= MaxHeight

VARIABLE chain   \* masternode payee (collateral key) of every block

electionVars == <<vars, chain>>

-----------------------------------------------------------------------------
(* GetPaidMasternodes: the payees of the last count blocks, count being    *)
(* the registry size clamped to [CYCLE_MIN, CYCLE_MAX].  The walk starts   *)
(* at the tip and follows pprev.                                           *)

PaidWindow(L) ==
    LET n == Len(L)
        atLeast == IF n > CYCLE_MIN THEN n ELSE CYCLE_MIN
    IN IF atLeast < CYCLE_MAX THEN atLeast ELSE CYCLE_MAX

GetPaidMasternodes(L, ch) ==
    LET from == IF Len(ch) - PaidWindow(L) + 1 > 1 THEN Len(ch) - PaidWindow(L) + 1 ELSE 1
    IN {ch[h] : h \in from..Len(ch)} \ {NoPayee}

\* IsMasternodePaidInList, with GetScriptForDestination(pubkey.GetID())
\* modelled by the key itself.
IsMasternodePaidInList(paid, key) == key \in paid

\* CMasterNode::CalculateScore(nBlockHeight = 0) scores against the block
\* hash at the tip; only the low 32 bits are compared.
Score(mn, ch) == ScoreOf[mn.vin][Len(ch)]

ActiveSeconds(mn) == mn.lastTimeSeen - mn.now

-----------------------------------------------------------------------------
(* GetCurrentMasterNode: one pass over vecMasternodes with the position    *)
(* counter i, the best score so far and the winner's position.  Check     *)
(* runs on a copy, so its result is not stored.  The minProtocol test      *)
(* skips an entry without advancing i.                                     *)

\* Mutant: a paid entry is skipped without advancing i.
CurrentMasterNodeStepPaidDrift(paid, ch, minProtocol, acc, mn) ==
        IF IsMasternodePaidInList(paid, mn.pubkey) THEN acc
        ELSE IF ActiveSeconds(mn) < ACTIVE_MIN THEN [acc EXCEPT !.i = @ + 1]
        ELSE IF mn.protocolVersion < minProtocol THEN acc
        ELSE IF Check(mn) # ACTIVE THEN [acc EXCEPT !.i = @ + 1]
        ELSE IF Score(mn, ch) > acc.score
             THEN [i |-> acc.i + 1, score |-> Score(mn, ch), winner |-> acc.i]
        ELSE [acc EXCEPT !.i = @ + 1]

CurrentMasterNodeStep(paid, ch, minProtocol, acc, mn) ==
        IF IsMasternodePaidInList(paid, mn.pubkey) THEN [acc EXCEPT !.i = @ + 1]
        ELSE IF ActiveSeconds(mn) < ACTIVE_MIN THEN [acc EXCEPT !.i = @ + 1]
        ELSE IF mn.protocolVersion < minProtocol THEN acc
        ELSE IF Check(mn) # ACTIVE THEN [acc EXCEPT !.i = @ + 1]
        ELSE IF Score(mn, ch) > acc.score
             THEN [i |-> acc.i + 1, score |-> Score(mn, ch), winner |-> acc.i]
        ELSE [acc EXCEPT !.i = @ + 1]

\* The loop over vecMasternodes from position k on.
RECURSIVE CurrentMasterNodeLoop(_, _, _, _, _, _)
CurrentMasterNodeLoop(L, paid, ch, minProtocol, acc, k) ==
    IF k > Len(L) THEN acc
    ELSE CurrentMasterNodeLoop(L, paid, ch, minProtocol,
             CurrentMasterNodeStep(paid, ch, minProtocol, acc, L[k]), k + 1)

\* The 0-based position of the winner in vecMasternodes, or -1.
GetCurrentMasterNode(L, ch, minProtocol) ==
    CurrentMasterNodeLoop(L, GetPaidMasternodes(L, ch), ch, minProtocol,
                          [i |-> 0, score |-> 0, winner |-> -1], 1).winner

-----------------------------------------------------------------------------
(* IsValidMasternodePayment, for a block that pays the key payee: the     *)
(* first entry with that key gives activeSeconds (0 when there is none).  *)

\* Mutant: "active for at least ACTIVE_MIN" tested as "more than".
IsValidMasternodePaymentStrict(L, ch, payee) ==
    LET j == SelectInSeq(L, LAMBDA mn : mn.pubkey = payee)
        activeSeconds == IF j = 0 THEN 0 ELSE ActiveSeconds(L[j])
    IN /\ activeSeconds # 0
       /\ activeSeconds > ACTIVE_MIN
       /\ ~IsMasternodePaidInList(GetPaidMasternodes(L, ch), payee)

IsValidMasternodePayment(L, ch, payee) ==
    LET j == SelectInSeq(L, LAMBDA mn : mn.pubkey = payee)
        activeSeconds == IF j = 0 THEN 0 ELSE ActiveSeconds(L[j])
    IN /\ activeSeconds # 0
       /\ activeSeconds >= ACTIVE_MIN
       /\ ~IsMasternodePaidInList(GetPaidMasternodes(L, ch), payee)

-----------------------------------------------------------------------------
(* CWallet::CreateCoinStake on this node: pay the ledger's payee for the   *)
(* height if GetBlockPayee finds a record, else the key of                 *)
(* vecMasternodes[winner], else add no masternode output.  The record is   *)
(* an input here: whether an mnw vote for the height has been taken in,   *)
(* and which payee it names, is the payment ledger's state (PaymentLedger) *)
(* and is not read by anything else in this module.  The master picked    *)
(* the payee from its own list, so it is any key of LedgerPayees.          *)

\* Mutant: the payee script is built from the wrong field of the entry.
CreateCoinStakeVinPayee(blockPayee) ==
    LET w == GetCurrentMasterNode(mnList, chain, MIN_MN_PROTO_VERSION)
        payee == IF blockPayee # NoPayee THEN blockPayee
                 ELSE IF w >= 0 THEN mnList[w + 1].vin ELSE NoPayee
    IN /\ chain' = Append(chain, payee)
       /\ UNCHANGED vars

CreateCoinStake(blockPayee) ==
    LET w == GetCurrentMasterNode(mnList, chain, MIN_MN_PROTO_VERSION)
        payee == IF blockPayee # NoPayee THEN blockPayee
                 ELSE IF w >= 0 THEN mnList[w + 1].pubkey ELSE NoPayee
    IN /\ chain' = Append(chain, payee)
       /\ UNCHANGED vars

ElectionInit ==
    /\ Init
    /\ chain = [h \in 1..InitHeight |-> NoPayee]

ElectionNext ==
    \/ Next /\ UNCHANGED chain
    \/ \E blockPayee \in LedgerPayees \cup {NoPayee} : CreateCoinStake(blockPayee)

ElectionSpec == ElectionInit /\ [][ElectionNext]_electionVars

\* The state constraint bounding time and chain height for TLC.
ElectionBound == ClockBound /\ Len(chain) <= MaxHeight

-----------------------------------------------------------------------------
(* Properties                                                              *)

ElectionTypeOK ==
    /\ TypeOK
    /\ chain \in Seq(Keys \cup {NoPayee})

\* The reference election (spec 4.2): among the entries that are not
\* recently paid, have been active ACTIVE_MIN, meet minProtocol and pass
\* Check, the one with the largest nonzero score, the first listed on a
\* tie; -1 when there is none.
Eligible(L, ch, minProtocol) ==
    LET paid == GetPaidMasternodes(L, ch)
    IN {j \in DOMAIN L :
        /\ L[j].pubkey \notin paid
        /\ ActiveSeconds(L[j]) >= ACTIVE_MIN
        /\ L[j].protocolVersion >= minProtocol
        /\ Check(L[j]) = ACTIVE
        /\ Score(L[j], ch) > 0}

ReferenceWinner(L, ch, minProtocol) ==
    LET E == Eligible(L, ch, minProtocol)
        best == {j \in E : \A k \in E : Score(L[k], ch) <= Score(L[j], ch)}
    IN IF E = {} THEN -1 ELSE Min(best) - 1

\* GetCurrentMasterNode returns the position of the reference winner in
\* vecMasternodes, so CreateCoinStake pays the entry that won.
ElectedIsReferenceWinner ==
    GetCurrentMasterNode(mnList, chain, MinProtocol) = ReferenceWinner(mnList, chain, MinProtocol)

\* A stake block that pays the masternode this node elects passes this
\* node's own IsValidMasternodePayment.
OwnPayeeIsValid ==
    LET w == GetCurrentMasterNode(mnList, chain, MIN_MN_PROTO_VERSION)
    IN w >= 0 => IsValidMasternodePayment(mnList, chain, mnList[w + 1].pubkey)

\* Every block this node stakes passes this node's own
\* IsValidMasternodePayment: CreateCoinStake only pays a payee that has
\* been active ACTIVE_MIN and is not in the paid window, whichever of the
\* ledger and the election it took the payee from.
StakedPayeeIsValid ==
    [][(\E blockPayee \in LedgerPayees \cup {NoPayee} : CreateCoinStake(blockPayee)) =>
         LET payee == chain'[Len(chain')]
         IN payee # NoPayee => IsValidMasternodePayment(mnList, chain, payee)]_electionVars

=============================================================================
