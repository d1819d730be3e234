--------------------------- MODULE MasternodeList ---------------------------
(***************************************************************************)
(* One node's masternode registry (vecMasternodes in masternode.cpp), its  *)
(* liveness state machine (CMasterNode::Check) and the gossip handlers     *)
(* that fill and refresh it: "dsee" (announce) and "dseep" (ping), as      *)
(* ProcessMessageMasternode implements them.                               *)
(*                                                                         *)
(* The rest of the network is the environment: the operator of every      *)
(* collateral signs announces (CActiveMasternode::Register) and pings      *)
(* (CActiveMasternode::Dseep, StopMasterNode); every message ever signed   *)
(* stays in the network, so a peer may deliver it late, twice or never.   *)
(* Signatures are modelled by membership: a message is accepted as signed  *)
(* exactly when it is in announces or pings.                              *)
(***************************************************************************)
EXTENDS Integers, Sequences, SequencesExt, FiniteSets

CONSTANTS
    Vins,            \* collateral outpoints (CTxIn vin), the registry key
    Addrs,           \* service addresses (CService addr, compared as CNetAddr)
    Keys,            \* collateral public keys (CPubKey pubkey)
    CollateralKey,   \* [Vins -> Keys]: the key that controls each collateral
    OperatorAddrs,   \* [Vins -> SUBSET Addrs]: where each operator may run
    Protos,          \* protocol versions a signer may put in an announce
    OperatorProto,   \* [Vins -> Protos]: PROTOCOL_VERSION of each operator's client
    MIN_MN_PROTO_VERSION,
    MIN_DSEE,        \* MASTERNODE_MIN_DSEE_SECONDS
    MIN_DSEEP,       \* MASTERNODE_MIN_DSEEP_SECONDS
    EXPIRATION,      \* MASTERNODE_EXPIRATION_SECONDS
    REMOVAL,         \* MASTERNODE_REMOVAL_SECONDS
    FUTURE_TOL,      \* the 60 * 60 seconds of signature-time tolerance
    T0,              \* adjusted time when the model starts
    MaxTime,         \* bound on the adjusted time
    ForgeLastUpdated,\* may a peer put any value in the unsigned lastUpdated?
    AllowRestart     \* may a stopped operator register again ("masternode start")?

ASSUME /\ CollateralKey \in [Vins -> Keys]
       /\ OperatorAddrs \in [Vins -> SUBSET Addrs \ {{}}]
       /\ OperatorProto \in [Vins -> Protos] /\ MIN_MN_PROTO_VERSION \in Int
       /\ 0 < MIN_DSEE /\ 0 < MIN_DSEEP /\ 0 < FUTURE_TOL
       /\ EXPIRATION < REMOVAL
       \* time 0 (a disabled lastTimeSeen) lies beyond every window
       /\ REMOVAL <= T0 /\ T0 <= MaxTime

VARIABLES
    clock,          \* GetAdjustedTime() (and GetTime())
    mnList,         \* vecMasternodes: a sequence of entries
    spent,          \* collaterals no longer acceptable to AcceptableInputs
    askedForEntry,  \* askedForMasternodeListEntry: vin -> time to ask again
    announces,      \* signed dsee payloads present in the network
    pings,          \* signed dseep payloads present in the network
    opState,        \* per collateral: has its operator registered / stopped
    opAddr          \* per collateral: the service its operator signs with

listVars == <<mnList, askedForEntry>>
envVars  == <<clock, spent, announces, pings, opState, opAddr>>
vars     == <<listVars, envVars>>

\* Times the model can reach: ClockBound lets the clock step once past
\* MaxTime before exploration stops.
Times == 0..(MaxTime + 1)
NoAsk == 0

\* CMasterNode::enabled
ACTIVE == 1
EXPIRED == 2
SPENT == 3
REMOVED == 4

Entry == [vin: Vins, addr: Addrs, pubkey: Keys, now: Times,
          lastTimeSeen: Times, lastDseep: Times, enabled: 1..4,
          protocolVersion: Protos]

\* The signed part of a dsee: addr, sigTime, pubkey, pubkey2 and the
\* protocol version.  The vin is not covered by the signature.
Announce == [addr: Addrs, sigTime: Times, pubkey: Keys, proto: Protos]
\* The signed part of a dseep is addr, sigTime and stop; vin selects the
\* entry whose pubkey2 must verify it.
Ping == [vin: Vins, addr: Addrs, sigTime: Times, stop: BOOLEAN]

-----------------------------------------------------------------------------
(* CMasterNode                                                             *)

UpdatedWithin(mn, seconds) == clock - mn.lastTimeSeen < seconds

\* UpdateLastSeen(override): 0 means "now".
UpdateLastSeen(override) == IF override = 0 THEN clock ELSE override

\* Mutant: a withdrawn entry marked with the sentinel -1 instead of 0.
DisableSentinel(mn) == [mn EXCEPT !.lastTimeSeen = -1]

\* CMasterNode::Disable
Disable(mn) == [mn EXCEPT !.lastTimeSeen = 0]

\* CMasterNode::Check: the first failing test wins; a spent entry stays
\* spent.  unitTest is FALSE outside the unit tests.
Check(mn) ==
    IF mn.enabled = SPENT THEN SPENT
    ELSE IF ~UpdatedWithin(mn, REMOVAL) THEN REMOVED
    ELSE IF ~UpdatedWithin(mn, EXPIRATION) THEN EXPIRED
    ELSE IF mn.vin \in spent THEN SPENT
    ELSE ACTIVE

\* The CMasterNode constructor followed by UpdateLastSeen(lastUpdated).
NewEntry(v, a, lastUpdated) ==
    [vin |-> v, addr |-> a.addr, pubkey |-> a.pubkey, now |-> a.sigTime,
     lastTimeSeen |-> UpdateLastSeen(lastUpdated), lastDseep |-> 0,
     enabled |-> ACTIVE, protocolVersion |-> a.proto]

IndexOfVin(v) == SelectInSeq(mnList, LAMBDA mn : mn.vin = v)

-----------------------------------------------------------------------------
(* ProcessMessageMasternode "dsee".  The list is searched in order; the   *)
(* first entry with the same vin or the same address ends the search.     *)

DseeMatch(v, a) ==
    SelectInSeq(mnList, LAMBDA mn : mn.vin = v \/ mn.addr = a.addr)

DseeAcceptable(a) ==
    /\ a.sigTime <= clock + FUTURE_TOL
    /\ a.proto >= MIN_MN_PROTO_VERSION

\* count == -1 marks a fresh broadcast; a list sync (dseg reply) carries
\* the entry's position instead.
Counts == {-1, 0}
\* lastUpdated is unsigned.  An honest sender puts the sigTime (Register
\* and its relays) or its own lastTimeSeen for the entry (dseg replies):
\* 0 for an entry it has disabled, or a time up to now.
LastUpdatedValues(a) ==
    IF ForgeLastUpdated THEN Times ELSE {0, a.sigTime, clock}

\* An existing entry: refresh lastTimeSeen, and take the fields of the
\* announce if it is newer than the one on file.
DseeUpdate(v, a, count) ==
    LET i == DseeMatch(v, a)
        mn == mnList[i]
    IN /\ DseeAcceptable(a)
       /\ i # 0
       /\ mn.vin = v
       /\ count = -1
       /\ mn.pubkey = a.pubkey
       /\ ~UpdatedWithin(mn, MIN_DSEE)
       /\ mnList' = [mnList EXCEPT ![i] =
              IF mn.now < a.sigTime
              THEN [mn EXCEPT !.lastTimeSeen = clock, !.now = a.sigTime,
                              !.protocolVersion = a.proto, !.addr = a.addr]
              ELSE [mn EXCEPT !.lastTimeSeen = clock]]
       /\ UNCHANGED askedForEntry

\* A new vin at an unused address: IsVinAssociatedWithPubkey, then
\* AcceptableInputs (the collateral is unspent), then push_back.
DseeNew(v, a, lastUpdated) ==
    /\ DseeAcceptable(a)
    /\ DseeMatch(v, a) = 0
    /\ CollateralKey[v] = a.pubkey
    /\ v \notin spent
    /\ mnList' = Append(mnList, NewEntry(v, a, lastUpdated))
    /\ UNCHANGED askedForEntry

-----------------------------------------------------------------------------
(* ProcessMessageMasternode "dseep".                                       *)

DseepAcceptable(p) ==
    /\ p.sigTime <= clock + FUTURE_TOL
    /\ p.sigTime > clock - FUTURE_TOL

\* Mutant: a ping is not required to be newer than the last one.
DseepKnownUnordered(p) ==
    LET i == IndexOfVin(p.vin)
        mn == mnList[i]
        seen == [mn EXCEPT !.lastDseep = p.sigTime, !.lastTimeSeen = clock]
        disabled == Disable(seen)
    IN /\ DseepAcceptable(p)
       /\ i # 0
       /\ p.addr = mn.addr
       /\ mnList' = [mnList EXCEPT ![i] =
              IF UpdatedWithin(mn, MIN_DSEEP)
              THEN [mn EXCEPT !.lastDseep = p.sigTime]
              ELSE IF p.stop
                   THEN [disabled EXCEPT !.enabled = Check(disabled)]
                   ELSE seen]
       /\ UNCHANGED askedForEntry

\* A newer ping for a known entry.  Its sigTime is recorded even when the
\* entry was seen within MIN_DSEEP, in which case nothing else happens.
DseepKnown(p) ==
    LET i == IndexOfVin(p.vin)
        mn == mnList[i]
        seen == [mn EXCEPT !.lastDseep = p.sigTime, !.lastTimeSeen = clock]
        disabled == Disable(seen)
    IN /\ DseepAcceptable(p)
       /\ i # 0
       /\ mn.lastDseep < p.sigTime
       /\ p.addr = mn.addr
       /\ mnList' = [mnList EXCEPT ![i] =
              IF UpdatedWithin(mn, MIN_DSEEP)
              THEN [mn EXCEPT !.lastDseep = p.sigTime]
              ELSE IF p.stop
                   THEN [disabled EXCEPT !.enabled = Check(disabled)]
                   ELSE seen]
       /\ UNCHANGED askedForEntry

\* A ping for an unknown entry: ask the sender for it ("dseg"), at most
\* once per MIN_DSEEP.  The reply is a dsee with count # -1.
DseepUnknown(p) ==
    /\ DseepAcceptable(p)
    /\ IndexOfVin(p.vin) = 0
    /\ ~(askedForEntry[p.vin] # NoAsk /\ clock < askedForEntry[p.vin])
    /\ askedForEntry' = [askedForEntry EXCEPT ![p.vin] = clock + MIN_DSEEP]
    /\ UNCHANGED mnList

-----------------------------------------------------------------------------
(* GetMasternodeScores: walks vecMasternodes by reference and stores the  *)
(* result of Check in every entry.                                         *)

CheckAll ==
    /\ mnList' = [i \in DOMAIN mnList |-> [mnList[i] EXCEPT !.enabled = Check(mnList[i])]]
    /\ mnList' # mnList
    /\ UNCHANGED askedForEntry

-----------------------------------------------------------------------------
(* The environment.                                                        *)

\* CActiveMasternode::Register: sign an announce for the collateral at the
\* operator's service, with the current time and its PROTOCOL_VERSION.
OperatorRegister(v, addr) ==
    /\ opState[v] \in IF AllowRestart THEN {"none", "stopped"} ELSE {"none"}
    /\ announces' = announces \cup
          {[addr |-> addr, sigTime |-> clock, pubkey |-> CollateralKey[v],
            proto |-> OperatorProto[v]]}
    /\ opState' = [opState EXCEPT ![v] = "running"]
    /\ opAddr' = [opAddr EXCEPT ![v] = addr]
    /\ UNCHANGED <<clock, spent, pings>>

\* CActiveMasternode::Dseep(stop): sign a ping; a stop ends the operation.
OperatorPing(v, stop) ==
    /\ opState[v] = "running"
    /\ pings' = pings \cup
          {[vin |-> v, addr |-> opAddr[v], sigTime |-> clock, stop |-> stop]}
    /\ opState' = [opState EXCEPT ![v] = IF stop THEN "stopped" ELSE @]
    /\ UNCHANGED <<clock, spent, announces, opAddr>>

\* The owner spends the collateral.  While the masternode runs its coin is
\* locked (LockCoin in ManageStatus); StopMasterNode unlocks it.
SpendCollateral(v) ==
    /\ opState[v] = "stopped"
    /\ v \notin spent
    /\ spent' = spent \cup {v}
    /\ UNCHANGED <<clock, announces, pings, opState, opAddr>>

\* Time passes; a ping older than FUTURE_TOL can never be accepted again.
Tick ==
    /\ clock' = clock + 1
    /\ pings' = {p \in pings : p.sigTime > clock' - FUTURE_TOL}
    /\ UNCHANGED <<spent, announces, opState, opAddr>>

-----------------------------------------------------------------------------

Init ==
    /\ clock = T0
    /\ mnList = << >>
    /\ spent = {}
    /\ askedForEntry = [v \in Vins |-> NoAsk]
    /\ announces = {}
    /\ pings = {}
    /\ opState = [v \in Vins |-> "none"]
    /\ opAddr = [v \in Vins |-> CHOOSE a \in OperatorAddrs[v] : TRUE]

ListNext ==
    \/ \E v \in Vins, a \in announces, c \in Counts : DseeUpdate(v, a, c)
    \/ \E v \in Vins, a \in announces : \E lu \in LastUpdatedValues(a) : DseeNew(v, a, lu)
    \/ \E p \in pings : DseepKnown(p) \/ DseepUnknown(p)
    \/ CheckAll

EnvNext ==
    \/ \E v \in Vins : \E a \in OperatorAddrs[v] : OperatorRegister(v, a)
    \/ \E v \in Vins, s \in BOOLEAN : OperatorPing(v, s)
    \/ \E v \in Vins : SpendCollateral(v)
    \/ Tick

Next ==
    \/ ListNext /\ UNCHANGED envVars
    \/ EnvNext /\ UNCHANGED listVars

Spec == Init /\ [][Next]_vars

\* The state constraint that bounds the adjusted time for TLC.
ClockBound == clock <= MaxTime

-----------------------------------------------------------------------------
(* Properties                                                              *)

TypeOK ==
    /\ clock \in Times
    /\ mnList \in Seq(Entry)
    /\ spent \subseteq Vins
    /\ askedForEntry \in [Vins -> 0..(MaxTime + 1 + MIN_DSEEP)]
    /\ announces \subseteq Announce
    /\ pings \subseteq Ping
    /\ opState \in [Vins -> {"none", "running", "stopped"}]
    /\ opAddr \in [Vins -> Addrs]


\* The entry for vin v in a list, if there is one.
EntriesOf(L, v) == {L[i] : i \in {j \in DOMAIN L : L[j].vin = v}}

\* Replay protection of dseep: an entry disabled by a stop ping (its
\* lastTimeSeen is 0) is never brought back by a ping, replayed or late,
\* while its operator stays stopped.  This rests on lastDseep only
\* growing and on the stop ping being the operator's last.
PingReplayCannotRevive ==
    [][\A p \in pings :
         DseepKnown(p) =>
            \A mn \in EntriesOf(mnList, p.vin), mn2 \in EntriesOf(mnList', p.vin) :
               (mn.lastTimeSeen = 0 /\ opState[p.vin] = "stopped")
                  => mn2.lastTimeSeen = 0]_vars

\* An explicit withdrawal takes effect: once a node has accepted a stop
\* ping for an entry (recorded its sigTime in lastDseep), the entry is no
\* longer Active.  (The spec, 4.1: "Active can also be forced to
\* ExpiredSoft immediately by an explicit withdrawal ping".)
StopTakesEffect ==
    [][\A p \in pings :
         (p.stop /\ DseepKnown(p)) =>
            \A mn2 \in EntriesOf(mnList', p.vin) : Check(mn2) # ACTIVE]_vars

\* A withdrawn entry (lastTimeSeen reset to 0 by a stop ping) comes back
\* only by an announce newer than the one on file, never by a replay of
\* an announce the node already has.  (The spec, 8: "once ExpiredHard ...
\* an identity never returns to Active without a fresh Announce".)
WithdrawnStaysDown ==
    [][\A i \in DOMAIN mnList :
         \A mn2 \in EntriesOf(mnList', mnList[i].vin) :
            (mnList[i].lastTimeSeen = 0 /\ mn2.lastTimeSeen # 0)
               => mn2.now > mnList[i].now]_vars

\* No two entries share a service address: dsee refuses a new vin at an
\* address already listed "as they are attempting to earn payments
\* without contributing".
UniqueAddrs ==
    \A i, j \in DOMAIN mnList : i # j => mnList[i].addr # mnList[j].addr

=============================================================================
