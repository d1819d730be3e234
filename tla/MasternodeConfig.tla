--------------------------- MODULE MasternodeConfig ---------------------------
(***************************************************************************)
(* CMasternodeConfig (masternodeconfig.cpp): the vector of masternode.conf *)
(* entries the daemon holds in memory, the file on disk, and the RPC       *)
(* commands masternode addremote and removeremote (rpcdarksend.cpp) that   *)
(* rewrite both.                                                           *)
(*                                                                         *)
(* Data abstraction.  An entry is its alias; ip, key, txHash and index are *)
(* carried with it unchanged and left out.  The file is the sequence of    *)
(* its entry lines, in order; every line the code writes parses again.     *)
(* requested is a history variable: the aliases the operator's commands    *)
(* have asked masternode.conf to hold.                                     *)
(***************************************************************************)
EXTENDS Naturals, Sequences, SequencesExt

CONSTANTS
    Aliases,     \* the aliases the operator uses
    MaxLines,    \* bound on the lines of the masternode.conf the node starts with
    MaxRpc,      \* bound on the addremote / removeremote commands
    MaxRestarts  \* bound on daemon restarts

VARIABLES
    entries,     \* masternodeConfig.entries
    file,        \* the lines of masternode.conf
    up,          \* the daemon is running
    requested,   \* history: the aliases the operator has asked for
    rpc,         \* commands issued so far
    restarts     \* restarts so far

vars == <<entries, file, up, requested, rpc, restarts>>

\* The files an operator may have written, one line per alias.
ConfFiles == UNION {SetToSeqs(S) : S \in {T \in SUBSET Aliases : Cardinality(T) <= MaxLines}}

-----------------------------------------------------------------------------
\* add(alias, ...): push_back.
add(es, alias) == Append(es, alias)

\* create(alias, ...): unless entries holds alias, the file is rewritten
\* with every entry in memory and then alias, and alias is added.
CreateOutcome(es, f, alias) ==
    IF \E i \in DOMAIN es : es[i] = alias
    THEN [entries |-> es, file |-> f]
    ELSE [entries |-> add(es, alias), file |-> add(es, alias)]

\* In remove(), the loop counts i before it compares, so rIndex is the
\* 1-based position of the last entry named alias; 0 stands for the -1 of
\* no match.
rIndex(es, alias) == SelectLastInSeq(es, LAMBDA x : x = alias)

\* entries.erase(entries.begin() + r) with the 1-based r: the element at
\* 0-based r goes.  For r = Len(es) the iterator is end() and the behaviour
\* is undefined: libstdc++'s erase moves an empty range and drops the last
\* element; a checked build aborts the process instead ("crash").
EraseAt(es, r) ==
    IF r < Len(es)
    THEN {[entries |-> RemoveAt(es, r + 1), crash |-> FALSE]}
    ELSE {[entries |-> RemoveAt(es, Len(es)), crash |-> FALSE],
          [entries |-> es, crash |-> TRUE]}

\* remove(alias): the file is rewritten with every entry in memory whose
\* alias differs; then, if one matched, entries.erase at rIndex.
RemoveOutcomes(es, alias) ==
    LET f == SelectSeq(es, LAMBDA x : x # alias)
        r == rIndex(es, alias)
    IN IF r = 0 THEN {[entries |-> es, file |-> f, crash |-> FALSE]}
       ELSE {[entries |-> e.entries, file |-> f, crash |-> e.crash] : e \in EraseAt(es, r)}

-----------------------------------------------------------------------------
\* masternode addremote alias ip key hash index: create(...), and the reply
\* is "Masternode created" whatever create returned.
AddRemote ==
    /\ up
    /\ rpc < MaxRpc
    /\ rpc' = rpc + 1
    /\ \E a \in Aliases :
          /\ entries' = CreateOutcome(entries, file, a).entries
          /\ file' = CreateOutcome(entries, file, a).file
          /\ requested' = requested \cup {a}
    /\ UNCHANGED <<up, restarts>>

\* masternode removeremote alias: remove(alias); "Masternode not found" when
\* it returns false, though the file has been rewritten all the same.
RemoveRemote ==
    /\ up
    /\ rpc < MaxRpc
    /\ rpc' = rpc + 1
    /\ \E a \in Aliases :
          \E o \in RemoveOutcomes(entries, a) :
             /\ entries' = o.entries
             /\ file' = o.file
             /\ up' = ~o.crash
             /\ requested' = requested \ {a}
    /\ UNCHANGED restarts

\* The daemon stops (or has crashed) and starts again, and the start-up
\* code calls read(): entries is cleared and every line of the file is
\* added in order (the lines create and remove write always parse).
Restart ==
    /\ restarts < MaxRestarts
    /\ restarts' = restarts + 1
    /\ up' = TRUE
    /\ entries' = file
    /\ UNCHANGED <<file, requested, rpc>>

Init ==
    /\ file \in ConfFiles
    /\ entries = file
    /\ up = TRUE
    /\ requested = Range(file)
    /\ rpc = 0
    /\ restarts = 0

Next == AddRemote \/ RemoveRemote \/ Restart

Spec == Init /\ [][Next]_vars

-----------------------------------------------------------------------------
(* Properties                                                              *)

TypeOK ==
    /\ entries \in Seq(Aliases)
    /\ file \in Seq(Aliases)
    /\ up \in BOOLEAN
    /\ requested \subseteq Aliases

\* masternode.conf holds exactly the aliases the operator's addremote and
\* removeremote commands have asked for: create and remove rewrite the file
\* from the entries in memory, so this needs remove to erase from memory
\* the entry it leaves out of the file.
DiskHoldsRequested == Range(file) = requested

=============================================================================
