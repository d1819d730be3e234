---------------------------- MODULE AbstractLedger ----------------------------
(***************************************************************************)
(* What the payment ledger promises (spec 3 and 4.3): each node keeps at   *)
(* most one record per block height; a vote for a height inside the       *)
(* acceptance window replaces the record only if its score is strictly     *)
(* greater; records are dropped only once they are older than the         *)
(* retention horizon.                                                      *)
(***************************************************************************)
EXTENDS Integers

CONSTANTS
    Nodes,
    Heights,      \* the heights a record can be kept for
    Recs,         \* the records a vote can leave: [vin, score]
    NoRec,
    BACK,         \* a vote may be this many blocks below the tip
    AHEAD,        \* ... or this many above
    Limit         \* the retention horizon

VARIABLES tip, winner

absVars == <<tip, winner>>

AbsInit ==
    /\ tip \in Nat
    /\ winner = [n \in Nodes |-> [h \in Heights |-> NoRec]]

\* A vote for h leaves the record r at node n.
Accept(n, h) ==
    /\ h \in (tip - BACK)..(tip + AHEAD)
    /\ \E r \in Recs :
        /\ winner[n][h] = NoRec \/ winner[n][h].score < r.score
        /\ winner' = [winner EXCEPT ![n][h] = r]
    /\ UNCHANGED tip

Prune(n, h) ==
    /\ winner[n][h] # NoRec
    /\ tip - h > Limit
    /\ winner' = [winner EXCEPT ![n][h] = NoRec]
    /\ UNCHANGED tip

Advance ==
    /\ tip' = tip + 1
    /\ UNCHANGED winner

AbsNext ==
    \/ \E n \in Nodes, h \in Heights : Accept(n, h)
    \/ \E n \in Nodes, h \in Heights : Prune(n, h)
    \/ Advance

AbsSpec == AbsInit /\ [][AbsNext]_absVars

=============================================================================
