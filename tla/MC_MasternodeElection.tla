------------------------- MODULE MC_MasternodeElection -------------------------
(* Two collaterals with their own keys, each operator at its own address. *)
(* The 24-hour activity rule is scaled to one tick, so that an entry      *)
(* becomes payable after one refresh.  The paid                            *)
(* window is the registry size clamped to [1, 3] blocks.  Scores: v1's    *)
(* alternates between 0 and 1 with the height, v2's is always 1, so ties  *)
(* and zero scores both occur.                                             *)
EXTENDS MasternodeElection, TLC

CONSTANTS v1, v2, a1, a2, k1, k2

MC_Vins == {v1, v2}
MC_Addrs == {a1, a2}
MC_Keys == {k1, k2}
MC_CollateralKey == [v \in Vins |-> IF v = v1 THEN k1 ELSE k2]
MC_SharedKey == [v \in Vins |-> k1]
MC_HomeAddrs == [v \in Vins |-> IF v = v1 THEN {a1} ELSE {a2}]
MC_Protos == {70000, 70004}
MC_OperatorProto == [v \in Vins |-> 70004]
\* The master's votes name k1 only (the ledger_payee run); the election
\* run stakes without ledger records.
MC_LedgerOne == {k1}
MC_LedgerNone == {}
MC_ScoreOf == [v \in Vins |-> [h \in 0..(MaxHeight + 1) |-> IF v = v1 THEN h % 2 ELSE 1]]

=============================================================================
