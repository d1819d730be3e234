--------------------------- MODULE ActiveMasternode ---------------------------
(***************************************************************************)
(* CActiveMasternode on a node run with masternode=1: the status machine   *)
(* of ManageStatus, the ping Dseep, StopMasterNode and the RPC commands    *)
(* of rpcdarksend.cpp that drive them (init, kill, start, stop,            *)
(* start-alias, stop-alias, start-many, stop-many).  The node's wallet,    *)
(* chain sync and network are the environment.                             *)
(*                                                                         *)
(* Data abstraction.  The node owns one collateral output; coin says       *)
(* whether it exists and has MASTERNODE_MIN_CONFIRMATIONS.  listed says    *)
(* whether the node's own vecMasternodes holds the entry of its vin.       *)
(* sent is what the last step broadcast: an announce (dsee), a ping        *)
(* (dseep), a stop ping, or nothing.  keyOk says whether the last announce *)
(* of vin carried the key strMasterNodePrivKey now holds, the key Dseep    *)
(* signs pings with and the network checks them against.                   *)
(***************************************************************************)
EXTENDS Naturals, Sequences

CONSTANTS
    NOT_PROCESSED, SYNC_IN_PROCESS, INPUT_TOO_NEW, NOT_CAPABLE,
    IS_CAPABLE, REMOTELY_ENABLED, STOPPED,
    MaxRpc,            \* bound on the RPC commands the operator issues
    MaxRestarts,       \* bound on daemon restarts
    IbdCanReturn,      \* IsInitialBlockDownload may become true again
    AliasStopWhileRunning, \* stop-alias may be issued while this node runs
    InitWhileRunning,      \* init may be issued while this node runs
    Conf                   \* masternode.conf: <<[own, sameKey]>>, own when the
                           \* entry is this node's collateral, sameKey when its
                           \* key is strMasterNodePrivKey

Statuses == {NOT_PROCESSED, SYNC_IN_PROCESS, INPUT_TOO_NEW, NOT_CAPABLE,
             IS_CAPABLE, REMOTELY_ENABLED, STOPPED}
Running == {IS_CAPABLE, REMOTELY_ENABLED}
Sends == {"none", "dsee", "dseep", "stop"}
Coins == {"none", "young", "mature"}
ConfEntries == {Conf[i] : i \in DOMAIN Conf}
NoAlias == [own |-> FALSE, sameKey |-> FALSE, missing |-> TRUE]

\* At start-up the collaterals of masternode.conf are locked, so that only
\* start-alias and start-many, which include locked coins, find them (the
\* comment at activemasternode.cpp:385-390; the locking code, in init.cpp,
\* is not in the repository).
ConfLocked == \E e \in ConfEntries : e.own

VARIABLES
    status,        \* activeMasternode.status
    fMasterNode,   \* fMasterNode
    keyOk,         \* the last announce of vin carried strMasterNodePrivKey
    coinLocked,    \* the collateral is in the wallet's setLockedCoins
    listed,        \* the local vecMasternodes holds the entry of vin
    sent,          \* what the last step broadcast
    ibd,           \* IsInitialBlockDownload()
    walletLocked,  \* pwalletMain->IsLocked()
    reachable,     \* GetLocal / ConnectNode to the service succeed
    coin,          \* the collateral output and its age
    rpc,           \* RPC commands issued so far
    restarts       \* daemon restarts so far

nodeVars == <<status, fMasterNode, keyOk, coinLocked, listed, sent>>
envVars == <<ibd, walletLocked, reachable, coin, rpc, restarts>>
vars == <<nodeVars, envVars>>

-----------------------------------------------------------------------------
(* Dseep(vin, ..., stop): the vin's entry in the local list is refreshed   *)
(* and the ping broadcast; without an entry status becomes NOT_CAPABLE and *)
(* nothing is sent.  st is the status before the call.                     *)

DseepVin(st, isListed, isStop) ==
    IF isListed
    THEN [status |-> st, sent |-> IF isStop THEN "stop" ELSE "dseep", ok |-> TRUE]
    ELSE [status |-> NOT_CAPABLE, sent |-> "none", ok |-> FALSE]

\* Dseep(errorMessage): only a running masternode pings.
Dseep(st, isListed) ==
    IF st \in Running THEN DseepVin(st, isListed, FALSE)
    ELSE [status |-> st, sent |-> "none", ok |-> FALSE]

\* SelectCoinsMasternode(includeLocked): the collateral, if any.
SelectCoinsMasternode(includeLocked) ==
    coin # "none" /\ (includeLocked \/ ~coinLocked)

\* GetMasterNodeVin(..., strTxHash, strOutputIndex, includeLocked): among
\* the outputs SelectCoinsMasternode returns, the one the hash and index
\* name, or false when none matches; GetVinFromOutput then takes the key
\* of that output, which the wallet holds.  namesOwn: the hash and index
\* name this node's collateral.
GetMasterNodeVin(namesOwn, includeLocked) ==
    namesOwn /\ SelectCoinsMasternode(includeLocked)

-----------------------------------------------------------------------------
(* ManageStatus with the status st it starts from and the wallet lock wl:  *)
(* the status, coin lock, list membership and broadcast it leaves.  In     *)
(* the code's order: a syncing node waits; INPUT_TOO_NEW, NOT_CAPABLE and  *)
(* SYNC_IN_PROCESS start over as NOT_PROCESSED; a NOT_PROCESSED node needs *)
(* a reachable service and an unlocked wallet, then takes the first        *)
(* unlocked collateral: too young, it is INPUT_TOO_NEW; old enough, it is  *)
(* locked and Register announces it (adding it to the local list) and the  *)
(* call returns.  Every other path ends with Dseep.                        *)

\* Mutant: a NOT_CAPABLE node is not started over.
ManageStatusFromNoReset(st, wl) ==
    LET st1 == IF st \in {INPUT_TOO_NEW, SYNC_IN_PROCESS}
               THEN NOT_PROCESSED ELSE st
        Out(s, se) == [status |-> s, keyOk |-> keyOk, coinLocked |-> coinLocked,
                       listed |-> listed, sent |-> se]
        Ping(s) == Out(Dseep(s, listed).status, Dseep(s, listed).sent)
    IN IF ibd THEN Out(SYNC_IN_PROCESS, "none")
       ELSE IF st1 # NOT_PROCESSED THEN Ping(st1)
       ELSE IF ~reachable \/ wl THEN Out(NOT_CAPABLE, "none")
       ELSE IF SelectCoinsMasternode(FALSE) /\ coin = "mature"
            THEN [status |-> IS_CAPABLE, keyOk |-> TRUE, coinLocked |-> TRUE,
                  listed |-> TRUE, sent |-> "dsee"]
       ELSE IF SelectCoinsMasternode(FALSE) THEN Ping(INPUT_TOO_NEW)
       ELSE Ping(NOT_CAPABLE)

ManageStatusFrom(st, wl) ==
    LET st1 == IF st \in {INPUT_TOO_NEW, NOT_CAPABLE, SYNC_IN_PROCESS}
               THEN NOT_PROCESSED ELSE st
        Out(s, se) == [status |-> s, keyOk |-> keyOk, coinLocked |-> coinLocked,
                       listed |-> listed, sent |-> se]
        Ping(s) == Out(Dseep(s, listed).status, Dseep(s, listed).sent)
    IN IF ibd THEN Out(SYNC_IN_PROCESS, "none")
       ELSE IF st1 # NOT_PROCESSED THEN Ping(st1)
       ELSE IF ~reachable \/ wl THEN Out(NOT_CAPABLE, "none")
       ELSE IF SelectCoinsMasternode(FALSE) /\ coin = "mature"
            THEN [status |-> IS_CAPABLE, keyOk |-> TRUE, coinLocked |-> TRUE,
                  listed |-> TRUE, sent |-> "dsee"]
       ELSE IF SelectCoinsMasternode(FALSE) THEN Ping(INPUT_TOO_NEW)
       ELSE Ping(NOT_CAPABLE)

ApplyManage(m) ==
    /\ status' = m.status
    /\ keyOk' = m.keyOk
    /\ coinLocked' = m.coinLocked
    /\ listed' = m.listed
    /\ sent' = m.sent

\* The periodic call of ManageStatus; it returns at once unless fMasterNode.
ManageStatus ==
    /\ fMasterNode
    /\ ApplyManage(ManageStatusFrom(status, walletLocked))
    /\ UNCHANGED <<fMasterNode, envVars>>

-----------------------------------------------------------------------------
(* RPC commands.  Each one unlocks a locked wallet with the passphrase     *)
(* given (a wrong passphrase changes nothing and is not modelled).         *)

\* masternode start: refused unless fMasterNode.  A node that is not
\* running starts over from NOT_PROCESSED and runs ManageStatus, and the
\* wallet is locked again.
RpcStart ==
    /\ rpc < MaxRpc
    /\ rpc' = rpc + 1
    /\ fMasterNode
    /\ IF status \notin Running
       THEN /\ ApplyManage(ManageStatusFrom(NOT_PROCESSED, FALSE))
            /\ walletLocked' = TRUE
       ELSE /\ walletLocked' = FALSE
            /\ sent' = "none"
            /\ UNCHANGED <<status, keyOk, coinLocked, listed>>
    /\ UNCHANGED <<fMasterNode, ibd, reachable, coin, restarts>>

\* masternode stop: refused unless fMasterNode.  StopMasterNode(errorMessage)
\* fails unless running; otherwise status is STOPPED, the collateral is
\* unlocked and a stop ping is sent for vin.  Only a successful stop locks
\* the wallet again.
RpcStop ==
    /\ rpc < MaxRpc
    /\ rpc' = rpc + 1
    /\ fMasterNode
    /\ IF status \notin Running
       THEN /\ walletLocked' = FALSE
            /\ sent' = "none"
            /\ UNCHANGED <<status, coinLocked, listed>>
       ELSE LET d == DseepVin(STOPPED, listed, TRUE)
            IN /\ status' = d.status
               /\ coinLocked' = FALSE
               /\ sent' = d.sent
               /\ walletLocked' = ~d.ok
               /\ UNCHANGED listed
    /\ UNCHANGED <<fMasterNode, keyOk, ibd, reachable, coin, restarts>>

\* A command refused because fMasterNode is false changes nothing.
RpcRefused ==
    /\ rpc < MaxRpc
    /\ rpc' = rpc + 1
    /\ ~fMasterNode
    /\ UNCHANGED <<nodeVars, ibd, walletLocked, reachable, coin, restarts>>

\* StopMasterNode(service, key) for entries of masternode.conf passes a
\* default CTxIn as the vin, so UnlockCoin unlocks nothing and Dseep finds
\* no entry for it: it sends nothing and sets this node's status to
\* NOT_CAPABLE.  Then the wallet is locked.
StopEntries(found) ==
    /\ LET d == DseepVin(status, FALSE, TRUE)
       IN IF found THEN status' = d.status /\ sent' = d.sent
          ELSE UNCHANGED <<status, sent>>
    /\ walletLocked' = TRUE
    /\ UNCHANGED <<fMasterNode, keyOk, coinLocked, listed, ibd, reachable, coin, restarts>>

\* masternode stop-alias and stop-many do not test fMasterNode.  Unless
\* AliasStopWhileRunning, the operator issues them only while this node's
\* own masternode is not running.
RpcStopAlias ==
    /\ AliasStopWhileRunning \/ status \notin Running
    /\ rpc < MaxRpc
    /\ rpc' = rpc + 1
    /\ \E e \in ConfEntries \cup {NoAlias} : StopEntries(e # NoAlias)

RpcStopMany ==
    /\ AliasStopWhileRunning \/ status \notin Running
    /\ rpc < MaxRpc
    /\ rpc' = rpc + 1
    /\ StopEntries(Len(Conf) > 0)

\* Register(service, key, txHash, index) for the entries es of
\* masternode.conf, in order: each finds its collateral among all the
\* wallet's, locked ones included, adds it to the local list if absent and
\* announces it with the entry's key; status is left alone.  An entry for
\* another collateral of the wallet is announced too.  Of two announces of
\* vin in one call the network takes the first, the second coming within
\* MASTERNODE_MIN_DSEE_SECONDS.  Then the wallet is locked.
RegisterEntries(es) ==
    LET mine == {i \in DOMAIN es : es[i].own}
        first == CHOOSE i \in mine : \A j \in mine : i <= j
        announced == GetMasterNodeVin(mine # {}, TRUE)
    IN /\ listed' = (listed \/ announced)
       /\ keyOk' = IF announced THEN es[first].sameKey ELSE keyOk
       /\ sent' = IF announced \/ \E i \in DOMAIN es : ~es[i].own
                  THEN "dsee" ELSE "none"
       /\ walletLocked' = TRUE
       /\ UNCHANGED <<status, fMasterNode, coinLocked, ibd, reachable, coin, restarts>>

\* masternode start-alias and start-many do not test fMasterNode.
RpcStartAlias ==
    /\ rpc < MaxRpc
    /\ rpc' = rpc + 1
    /\ \/ \E e \in ConfEntries : RegisterEntries(<<e>>)
       \/ RegisterEntries(<<>>)

RpcStartMany ==
    /\ rpc < MaxRpc
    /\ rpc' = rpc + 1
    /\ RegisterEntries(Conf)

\* masternode init: strMasterNodePrivKey takes the key given, which may or
\* may not be the one the last announce carried, and fMasterNode is set.
\* Nothing is announced.  Unless InitWhileRunning, the operator issues it
\* only while this node's masternode is not running.
RpcInit ==
    /\ InitWhileRunning \/ status \notin Running
    /\ rpc < MaxRpc
    /\ rpc' = rpc + 1
    /\ fMasterNode' = TRUE
    /\ keyOk' \in BOOLEAN
    /\ UNCHANGED <<status, coinLocked, listed, sent, ibd, walletLocked, reachable, coin, restarts>>

\* masternode kill clears fMasterNode and nothing else.
RpcKill ==
    /\ rpc < MaxRpc
    /\ rpc' = rpc + 1
    /\ fMasterNode' = FALSE
    /\ UNCHANGED <<status, keyOk, coinLocked, listed, sent, ibd, walletLocked, reachable, coin, restarts>>

-----------------------------------------------------------------------------
(* The environment.                                                        *)

\* Chain sync starts or ends.
SyncChange ==
    /\ ibd' \in IF IbdCanReturn THEN BOOLEAN ELSE {FALSE}
    /\ ibd' # ibd
    /\ UNCHANGED <<nodeVars, walletLocked, reachable, coin, rpc, restarts>>

\* The operator locks or unlocks the wallet; the service becomes reachable
\* or unreachable.
WalletChange ==
    /\ walletLocked' = ~walletLocked
    /\ UNCHANGED <<nodeVars, ibd, reachable, coin, rpc, restarts>>

NetworkChange ==
    /\ reachable' = ~reachable
    /\ UNCHANGED <<nodeVars, ibd, walletLocked, coin, rpc, restarts>>

\* The collateral confirms, is spent (only while unlocked), or a new one
\* arrives.
CoinChange ==
    /\ \/ coin = "young" /\ coin' = "mature"
       \/ coin # "none" /\ ~coinLocked /\ coin' = "none"
       \/ coin = "none" /\ coin' = "young"
    /\ UNCHANGED <<nodeVars, ibd, walletLocked, reachable, rpc, restarts>>

\* CheckAll drops the node's own entry once it is spent or, with nobody
\* pinging it, expired.
EntryRemoved ==
    /\ listed
    /\ coin = "none" \/ status \notin Running
    /\ listed' = FALSE
    /\ UNCHANGED <<status, fMasterNode, keyOk, coinLocked, sent, envVars>>

\* The daemon restarts: status, coin locks and the list are in memory, and
\* start-up locks the collaterals of masternode.conf again;
\* fMasterNode and strMasterNodePrivKey are read again from the
\* configuration, whose key the last announce may not have carried.
Restart ==
    /\ restarts < MaxRestarts
    /\ restarts' = restarts + 1
    /\ status' = NOT_PROCESSED
    /\ fMasterNode' = TRUE
    /\ keyOk' \in BOOLEAN
    /\ coinLocked' = ConfLocked
    /\ listed' = FALSE
    /\ sent' = "none"
    /\ ibd' = TRUE
    /\ walletLocked' \in BOOLEAN
    /\ UNCHANGED <<reachable, coin, rpc>>

-----------------------------------------------------------------------------

Init ==
    /\ status = NOT_PROCESSED
    /\ fMasterNode = TRUE
    /\ keyOk = TRUE
    /\ coinLocked = ConfLocked
    /\ listed = FALSE
    /\ sent = "none"
    /\ ibd = TRUE
    /\ walletLocked \in BOOLEAN
    /\ reachable \in BOOLEAN
    /\ coin \in Coins
    /\ rpc = 0
    /\ restarts = 0

Next ==
    \/ ManageStatus
    \/ RpcStart \/ RpcStop \/ RpcRefused
    \/ RpcStartAlias \/ RpcStopAlias \/ RpcStartMany \/ RpcStopMany
    \/ RpcInit \/ RpcKill
    \/ SyncChange \/ WalletChange \/ NetworkChange \/ CoinChange
    \/ EntryRemoved \/ Restart

\* ManageStatus is called on a timer for as long as the daemon runs.
Spec == Init /\ [][Next]_vars /\ WF_vars(ManageStatus)

-----------------------------------------------------------------------------
(* Properties                                                              *)

\* The conditions under which ManageStatus can start a masternode:
\* fMasterNode is set, the chain is synced, the wallet unlocked, the
\* service reachable and the collateral confirmed.
Good == fMasterNode /\ ~ibd /\ ~walletLocked /\ reachable /\ coin = "mature"

\* Once the node's conditions stay good, the timer-driven ManageStatus
\* keeps the masternode sending pings the network accepts, signed with the
\* key its last announce carried, unless the operator has stopped it for
\* good.
KeepsPinging ==
    <>[]Good => ([]<>(sent = "dseep" /\ keyOk) \/ <>[](status = STOPPED))

=============================================================================
