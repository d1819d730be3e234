-------------------------- MODULE MC_MasternodeList --------------------------
(* Two collaterals with their own keys, two service addresses.  The time  *)
(* constants keep the order of the code's: a dsee refresh window shorter  *)
(* than the dseep one, the signature tolerance, then expiry and removal.   *)
EXTENDS MasternodeList, TLC

CONSTANTS v1, v2, a1, a2, k1, k2

MC_Vins == {v1, v2}
MC_Addrs == {a1, a2}
MC_Keys == {k1, k2}
MC_CollateralKey == [v \in Vins |-> IF v = v1 THEN k1 ELSE k2]
MC_HomeAddrs == [v \in Vins |-> IF v = v1 THEN {a1} ELSE {a2}]
MC_OneVin == {v1}
MC_AnyAddrs == [v \in Vins |-> MC_Addrs]
MC_Protos == {70000, 70004}
MC_OperatorProto == [v \in Vins |-> 70004]

=============================================================================
