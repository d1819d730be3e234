------------------------- MODULE MC_ActiveMasternode -------------------------
EXTENDS ActiveMasternode

\* masternode.conf with one entry, for another collateral of the wallet: a
\* node run with masternode=1 whose own collateral is in masternode.conf
\* has it locked at start-up, and ManageStatus never finds it.
MC_Conf == << [own |-> FALSE, sameKey |-> FALSE] >>

\* masternode.conf that also lists this node's own collateral, under the
\* key of masternodeprivkey.
MC_ConfOwn == << [own |-> TRUE, sameKey |-> TRUE], [own |-> FALSE, sameKey |-> FALSE] >>
=============================================================================
