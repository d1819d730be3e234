----------------------------- MODULE MC_Keypool -----------------------------
EXTENDS Keypool
=============================================================================
