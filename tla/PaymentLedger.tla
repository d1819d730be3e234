---------------------------- MODULE PaymentLedger ----------------------------
(***************************************************************************)
(* CMasternodePayments on every node of a small network: the vWinning      *)
(* ledger of payment votes, the mnw handler that receives a vote, the      *)
(* payments master's ProcessBlock that casts one, CleanPaymentList, and    *)
(* the block-hash cache GetBlockHash fills on the way.                     *)
(*                                                                         *)
(* Data abstraction.  A block hash is the height of its block (the chain  *)
(* has no forks here); a collateral's prevout.hash is its transaction     *)
(* TxOf[vin]; CalculateScore(blockHash, vin) is the table                 *)
(* VoteScore[blockHash][TxOf[vin]]; the dedup key GetHash() is            *)
(* <<nBlockHeight, prevout.hash>>.  One key signs every vote, so a vote is *)
(* correctly signed exactly when the master cast it (the set votes).       *)
(***************************************************************************)
EXTENDS Integers, Sequences, SequencesExt, FiniteSets, Functions

CONSTANTS
    Nodes,
    Master,        \* the node whose SetPrivKey succeeded (enabled = true)
    Vins,
    TxOf,          \* [Vins -> Txs]: vin.prevout.hash
    Registry,      \* vecMasternodes, as the sequence of its vins
    EnabledVins,   \* the entries whose Check() leaves them enabled
    VoteScore,     \* [Hashes -> [Txs -> Nat]]: CalculateScore
    LOOKBACK,      \* the 576 blocks AddWinningMasternode looks back
    BACK,          \* the mnw window: 10 blocks below the tip ...
    AHEAD,         \* ... and 20 above
    VOTE_AHEAD,    \* ProcessBlock is called for the tip + VOTE_AHEAD
    CLEAN_MIN,     \* the 1000 of CleanPaymentList's limit
    InitTip,
    MaxTip,
    NoRec

ASSUME /\ Master \in Nodes
       /\ Len(Registry) > 0
       /\ 0 <= VOTE_AHEAD /\ VOTE_AHEAD <= AHEAD
       /\ 0 < InitTip /\ InitTip <= MaxTip

VARIABLES
    tip,          \* chainActive.Height(), the same on every node
    vWinning,     \* vWinning of each node: a sequence of [h, vin, score]
    seen,         \* mapSeenMasternodeVotes of each node (its keys)
    cache,        \* mapCacheBlockHashes of each node
    votes,        \* the signed votes some node has relayed
    delivered     \* history: the votes each node took in while in range

vars == <<tip, vWinning, seen, cache, votes, delivered>>

Heights == (InitTip - BACK)..(MaxTip + AHEAD)
Vote == [h : Heights, vin : Vins]
Rec == [h : Heights, vin : Vins, score : Nat]

\* CMasternodePaymentWinner::GetHash: the height and prevout.hash only.
GetHash(v) == <<v.h, TxOf[v.vin]>>

\* The hash of the block at height k of the active chain.
BlockAt(k) == k

InRange(h) == h >= tip - BACK /\ h <= tip + AHEAD

-----------------------------------------------------------------------------
(* GetBlockHash(hash, nBlockHeight) on node n: the outcome, the hash and   *)
(* the cache it leaves.  Height 0 means the tip's height; a cached height *)
(* is answered from the cache; otherwise the walk from the tip returns    *)
(* the block nBlocksAgo = tip + 1 - nBlockHeight back (0 back for a        *)
(* negative height), failing when it reaches the genesis block.            *)

GetBlockHash(n, nBlockHeight) ==
    LET key == IF nBlockHeight = 0 THEN tip ELSE nBlockHeight
        ago == IF key > 0 THEN (tip + 1) - key ELSE 0
        fail == [ok |-> FALSE, hash |-> 0, cache |-> cache[n]]
    IN IF key \in DOMAIN cache[n]
       THEN [ok |-> TRUE, hash |-> cache[n][key], cache |-> cache[n]]
       ELSE IF tip = 0 \/ tip + 1 < key THEN fail
       ELSE IF tip - ago > 0
            THEN [ok |-> TRUE, hash |-> BlockAt(tip - ago),
                  cache |-> (key :> BlockAt(tip - ago)) @@ cache[n]]
       ELSE fail

-----------------------------------------------------------------------------
(* AddWinningMasternode(winnerIn) on node n: the result, and the ledger,   *)
(* seen set and cache it leaves.  The score is recomputed from the block   *)
(* LOOKBACK below the vote.  The loop replaces the first record of the     *)
(* height with a strictly lower score; a height with no record is          *)
(* appended and its key marked seen.                                       *)

\* Mutant: a replacement copies the score but not the vin.
AddWinningMasternodeScoreOnly(n, w) ==
    LET g == GetBlockHash(n, w.h - LOOKBACK)
        score == VoteScore[g.hash][TxOf[w.vin]]
        L == vWinning[n]
        lower == SelectInSeq(L, LAMBDA r : r.h = w.h /\ r.score < score)
        foundBlock == \E k \in DOMAIN L : L[k].h = w.h
        rec == [h |-> w.h, vin |-> w.vin, score |-> score]
    IN IF ~g.ok THEN [ok |-> FALSE, L |-> L, seen |-> seen[n], cache |-> g.cache]
       ELSE IF lower # 0
            THEN [ok |-> TRUE, L |-> [L EXCEPT ![lower].score = score],
                  seen |-> seen[n], cache |-> g.cache]
       ELSE IF ~foundBlock
            THEN [ok |-> TRUE, L |-> Append(L, rec),
                  seen |-> seen[n] \cup {GetHash(w)}, cache |-> g.cache]
       ELSE [ok |-> FALSE, L |-> L, seen |-> seen[n], cache |-> g.cache]

AddWinningMasternode(n, w) ==
    LET g == GetBlockHash(n, w.h - LOOKBACK)
        score == VoteScore[g.hash][TxOf[w.vin]]
        L == vWinning[n]
        lower == SelectInSeq(L, LAMBDA r : r.h = w.h /\ r.score < score)
        foundBlock == \E k \in DOMAIN L : L[k].h = w.h
        rec == [h |-> w.h, vin |-> w.vin, score |-> score]
    IN IF ~g.ok THEN [ok |-> FALSE, L |-> L, seen |-> seen[n], cache |-> g.cache]
       ELSE IF lower # 0
            THEN [ok |-> TRUE, L |-> [L EXCEPT ![lower] = rec],
                  seen |-> seen[n], cache |-> g.cache]
       ELSE IF ~foundBlock
            THEN [ok |-> TRUE, L |-> Append(L, rec),
                  seen |-> seen[n] \cup {GetHash(w)}, cache |-> g.cache]
       ELSE [ok |-> FALSE, L |-> L, seen |-> seen[n], cache |-> g.cache]

\* Node n's state after an AddWinningMasternode with outcome a.
Apply(n, a) ==
    /\ vWinning' = [vWinning EXCEPT ![n] = a.L]
    /\ seen' = [seen EXCEPT ![n] = a.seen]
    /\ cache' = [cache EXCEPT ![n] = a.cache]

-----------------------------------------------------------------------------
(* The mnw handler on node n for the signed vote v.  In the code's order:  *)
(* a seen key returns; a height out of range returns; the key is marked   *)
(* seen before AddWinningMasternode runs; Relay re-announces a vote that   *)
(* is already in votes.  The nSequence and signature checks pass for every *)
(* vote in votes and for no other.                                         *)

Mnw(n, v) ==
    /\ GetHash(v) \notin seen[n]
    /\ InRange(v.h)
    /\ LET a == AddWinningMasternode(n, v)
       IN /\ vWinning' = [vWinning EXCEPT ![n] = a.L]
          /\ seen' = [seen EXCEPT ![n] = a.seen \cup {GetHash(v)}]
          /\ cache' = [cache EXCEPT ![n] = a.cache]
    /\ delivered' = [delivered EXCEPT ![n] = @ \cup {v}]
    /\ UNCHANGED <<tip, votes>>

\* A vote delivered to n that the handler drops: its key is already seen.
\* The state is unchanged apart from the history of what n took in.
MnwSeen(n, v) ==
    /\ GetHash(v) \in seen[n]
    /\ InRange(v.h)
    /\ v \notin delivered[n]
    /\ delivered' = [delivered EXCEPT ![n] = @ \cup {v}]
    /\ UNCHANGED <<tip, vWinning, seen, cache, votes>>

-----------------------------------------------------------------------------
(* ProcessBlock(nBlockHeight) on the master.  vecLastPayments holds the    *)
(* vins of the last size + 1 records of vWinning.  After random_shuffle    *)
(* the first entry not among them whose Check() leaves it enabled wins, so *)
(* any such entry can win; with none, the shuffled vecMasternodes[0], any  *)
(* entry.  Sign succeeds; the vote is relayed only if AddWinningMasternode *)
(* returns true.                                                           *)

LastPayments(L) ==
    {L[k].vin : k \in {j \in DOMAIN L : j >= Len(L) - Len(Registry)}}

PaymentCandidates(L) ==
    {v \in ToSet(Registry) : v \notin LastPayments(L) /\ v \in EnabledVins}

ProcessBlock(nBlockHeight) ==
    LET L == vWinning[Master]
        choices == IF PaymentCandidates(L) # {} THEN PaymentCandidates(L)
                   ELSE ToSet(Registry)
    IN \E vin \in choices :
        LET w == [h |-> nBlockHeight, vin |-> vin]
            a == AddWinningMasternode(Master, w)
        IN /\ Apply(Master, a)
           /\ votes' = IF a.ok THEN votes \cup {w} ELSE votes
           /\ delivered' = [delivered EXCEPT ![Master] = @ \cup {w}]
           /\ UNCHANGED tip

-----------------------------------------------------------------------------
(* CleanPaymentList on node n: the first record more than nLimit blocks    *)
(* below the tip is erased, and the loop stops there.                      *)

CleanLimit == IF 2 * Len(Registry) > CLEAN_MIN THEN 2 * Len(Registry) ELSE CLEAN_MIN

\* Mutant: a record exactly nLimit blocks old is already erased.
CleanPaymentListEarly(n) ==
    LET L == vWinning[n]
        old == SelectInSeq(L, LAMBDA r : tip - r.h >= CleanLimit)
    IN /\ old # 0
       /\ vWinning' = [vWinning EXCEPT ![n] = RemoveAt(L, old)]
       /\ UNCHANGED <<tip, seen, cache, votes, delivered>>

CleanPaymentList(n) ==
    LET L == vWinning[n]
        old == SelectInSeq(L, LAMBDA r : tip - r.h > CleanLimit)
    IN /\ old # 0
       /\ vWinning' = [vWinning EXCEPT ![n] = RemoveAt(L, old)]
       /\ UNCHANGED <<tip, seen, cache, votes, delivered>>

\* A new block extends the active chain on every node.  A vote below the
\* new window can never pass the mnw range check again, and a later
\* AddWinningMasternode never asks for a hash below the new window's
\* lowest height minus LOOKBACK, so the model drops those votes, seen
\* keys, history and cached hashes: the code keeps them, but no later
\* step reads them.
Live(h, t) == h >= t - BACK

NewBlock ==
    /\ tip < MaxTip
    /\ tip' = tip + 1
    /\ votes' = {v \in votes : Live(v.h, tip')}
    /\ seen' = [n \in Nodes |-> {k \in seen[n] : Live(k[1], tip')}]
    /\ delivered' = [n \in Nodes |-> {v \in delivered[n] : Live(v.h, tip')}]
    /\ cache' = [n \in Nodes |->
                    Restrict(cache[n], {k \in DOMAIN cache[n] :
                                        Live(k + LOOKBACK, tip')})]
    /\ UNCHANGED vWinning

-----------------------------------------------------------------------------

LedgerInit ==
    /\ tip = InitTip
    /\ vWinning = [n \in Nodes |-> << >>]
    /\ seen = [n \in Nodes |-> {}]
    /\ cache = [n \in Nodes |-> << >>]
    /\ votes = {}
    /\ delivered = [n \in Nodes |-> {}]

LedgerNext ==
    \/ \E n \in Nodes, v \in votes : Mnw(n, v) \/ MnwSeen(n, v)
    \/ ProcessBlock(tip + VOTE_AHEAD)
    \/ \E n \in Nodes : CleanPaymentList(n)
    \/ NewBlock

LedgerSpec == LedgerInit /\ [][LedgerNext]_vars

-----------------------------------------------------------------------------
(* Properties                                                              *)

Scores == UNION {Range(VoteScore[k]) : k \in DOMAIN VoteScore}

\* The record a node holds for height h: the first one with that height,
\* which is what GetBlockPayee and GetWinningMasternode return.
RecordFor(n, h) ==
    LET j == SelectInSeq(vWinning[n], LAMBDA r : r.h = h)
    IN IF j = 0 THEN NoRec
       ELSE [vin |-> vWinning[n][j].vin, score |-> vWinning[n][j].score]

\* Spec 8: the winner of a height is decided by the votes, not by the order
\* they arrive in.  Two nodes that took in the same votes for a height and
\* both hold a record for it hold the same collateral.
OrderIndependent ==
    \A n, m \in Nodes, h \in Heights :
        /\ Live(h, tip)
        /\ {v \in delivered[n] : v.h = h} = {v \in delivered[m] : v.h = h}
        /\ RecordFor(n, h) # NoRec
        /\ RecordFor(m, h) # NoRec
        => RecordFor(n, h).vin = RecordFor(m, h).vin

\* vWinning implements the abstract per-height ledger: mapped through
\* RecordFor, every mnw, ProcessBlock and CleanPaymentList step keeps or
\* raises a height's score within the window, or prunes a record past
\* CleanLimit.
Abstract == INSTANCE AbstractLedger
    WITH winner <- [n \in Nodes |-> [h \in Heights |-> RecordFor(n, h)]],
         Recs <- [vin : Vins, score : Scores],
         Limit <- CleanLimit

ImplementsAbstractLedger == Abstract!AbsSpec

=============================================================================
