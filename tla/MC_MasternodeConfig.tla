------------------------- MODULE MC_MasternodeConfig -------------------------
EXTENDS MasternodeConfig

CONSTANTS a1, a2, a3

\* Two aliases the file may start with and a third the operator may add.
MC_Aliases == {a1, a2, a3}
=============================================================================
