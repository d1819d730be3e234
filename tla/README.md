# TLA+ models of the Metrix masternode subsystem

These modules model the masternode code of Metrix (`src/src/masternode.*`,
`src/src/activemasternode.*` and the masternode part of
`CWallet::CreateCoinStake` in `src/src/wallet.cpp`), the wallet's key pool
with the stake thread that draws on it (`src/src/miner.cpp`), and check them
with TLC.
`PROJECT.json` records every run, mutant, finding and hazard, and maps every
definition to the lines it models.

## 1. The system

| Part | Code | State | Operations |
|---|---|---|---|
| Registry | `vecMasternodes`, `CMasterNode` (masternode.h:50-140) | ordered entries: vin, addr, pubkey, pubkey2, `now` (announce sigTime), `lastTimeSeen`, `lastDseep`, `enabled` 1..4, protocolVersion, collateral | `UpdateLastSeen`, `UpdatedWithin`, `Disable`, `Check` |
| Gossip handler | `ProcessMessageMasternode` (masternode.cpp:53-410) | `askedForMasternodeListEntry`, `askedForMasternodeList`, `mapSeenMasternodeVotes` | `dsee` (announce), `dseep` (ping, stop), `dseg` (list sync), `mnget`, `mnw` (payment vote) |
| Election | `GetPaidMasternodes`, `GetCurrentMasterNode`, `GetMasternodeScores/Rank/ByRank`, `CalculateScore`, `GetBlockHash` (masternode.cpp:455-767) | `mapCacheBlockHashes` | pure scans of the registry, except that `GetMasternodeScores` stores `Check` |
| Payment validation | `IsValidMasternodePayment` (masternode.cpp:547-611) | none | reads the registry and the chain |
| Payment ledger | `CMasternodePayments` (masternode.cpp:804-1030) | `vWinning`, the signing key | `AddWinningMasternode`, `ProcessBlock`, `CleanPaymentList`, `GetBlockPayee`, `Sync`, `Relay` |
| Active masternode | `CActiveMasternode` (activemasternode.cpp) | status, vin, service | `ManageStatus`, `Register`, `Dseep`, `StopMasterNode`, `EnableHotColdMasterNode` |
| Staking | `CWallet::CreateCoinStake` (wallet.cpp:3513-3568) | the chain | choose the payee from the ledger, else from `GetCurrentMasterNode` |
| Key pool | `CWallet::setKeyPool`, the pool records of the wallet file (wallet.cpp:3936-4064) | indices and their keys | `NewKeyPool`, `TopUpKeyPool`, `ReserveKeyFromKeyPool`, `KeepKey`, `ReturnKey`, `GetKeyFromPool`, `GetOldestKeyPoolTime` |
| Stake thread | `ThreadStakeMiner` (miner.cpp:453-500) | one `CReserveKey` | waits for an unlocked wallet, reserves a key in `CreateNewBlockWithKey`, returns when no key is left |
| Masternode config | `CMasternodeConfig` (masternodeconfig.cpp), `masternode addremote`/`removeremote` (rpcdarksend.cpp:493-523) | `entries` in memory, the lines of masternode.conf | `add`, `read`, `create`, `remove` |
| Not protocol | the rest of rpc*.cpp, block assembly in miner.cpp, chainparams.h, version.h | | file parsing, RPC, block templates, constants |

How they interact. Every operator (`CActiveMasternode` on its own machine)
signs an announce (`Register`, count -1) and then pings (`Dseep`), ending with a
stop ping (`StopMasterNode`). Peers relay all of these, so a node can receive
any of them late, twice or not at all. A node's registry is filled and
refreshed by these messages. The election reads the registry and the chain;
staking writes the elected payee into the next block; and every node checks a
block's payee with `IsValidMasternodePayment` against its own registry and
chain. The payment ledger is a second route to a payee: votes are signed with
one network key and kept per height.

Hard behaviours in this code:
- messages arriving in any order, late or repeated;
- the unsigned `lastUpdated` field of `dsee`;
- two time windows (`MIN_DSEE` and `MIN_DSEEP`) that decide whether a message has any effect;
- a scan that counts positions in `vecMasternodes`, with an index read later by another function;
- `Check` results stored as a side effect of a score query;
- lookups that take the first match (by vin or address in `dsee`, by key in validation);
- a ledger pruned one record per call and a block-hash cache that is never invalidated.

## 2. Modules

### MasternodeList (registry and gossip)

The state is one node's registry as the code holds it:

| Variable | Code |
|---|---|
| `mnList` | `vecMasternodes` |
| `askedForEntry` | `askedForMasternodeListEntry` |
| `clock` | `GetAdjustedTime` |

The rest of the network is the environment:
- `announces` and `pings`: every payload an operator has signed;
- `spent`: collaterals `AcceptableInputs` no longer accepts;
- `opState` and `opAddr`: each operator's stage and service.

Signatures are modelled by membership. A message is accepted as correctly
signed exactly when it is in `announces` or `pings`. An announce is signed over
address, sigTime, keys and protocol version, not over the vin, so it may be
delivered with any vin. A ping is signed over the entry's address.

| Action | Code |
|---|---|
| `DseeUpdate` | masternode.cpp:123-147: the first entry with the same vin, count -1, same key, not updated within `MIN_DSEE`; a newer sigTime also takes addr and protocol version |
| `DseeNew` | masternode.cpp:162-214: no entry with the same vin or address, the key owns the vin, unspent; `push_back` with `UpdateLastSeen(lastUpdated)` |
| `DseepKnown` | masternode.cpp:254-282: a newer ping sets `lastDseep`; outside `MIN_DSEEP` it refreshes, and a stop disables and `Check`s |
| `DseepUnknown` | masternode.cpp:285-302: ask with `dseg`, at most once per `MIN_DSEEP` |
| `CheckAll` | masternode.cpp:669-693: `GetMasternodeScores` runs `Check` by reference on every entry |
| `OperatorRegister` | activemasternode.cpp:260-305 |
| `OperatorPing` | activemasternode.cpp:145-237 |
| `SpendCollateral` | the coin is unlocked by `StopMasterNode` (activemasternode.cpp:169) and may then be spent |
| `Tick` | time passes; pings older than the tolerance drop out because no node can accept them again |

`Check` is the nested test of masternode.cpp:769-802 in the code's order.

The `dseg` reply is not an action of its own. Its effect is that a `dsee` may
carry any `lastUpdated` an honest peer can send: 0, the sigTime, or the time
the peer last saw the entry (`LastUpdatedValues`). With `ForgeLastUpdated` set
to TRUE, a peer may send any value.

### MasternodeElection (election, staking, validation)

This module extends MasternodeList with `chain`, the masternode payee of every
block.

| Definition | Code |
|---|---|
| `GetPaidMasternodes` | masternode.cpp:460-493, with the window clamped to [`CYCLE_MIN`, `CYCLE_MAX`] |
| `CurrentMasterNodeStep` and `GetCurrentMasterNode` | a `FoldLeft` over the registry with the code's counter `i` (masternode.cpp:495-545) |
| `IsValidMasternodePayment` | masternode.cpp:547-611 |
| `CreateCoinStake` | wallet.cpp:3513-3544: the ledger's payee when `GetBlockPayee` finds a record for the height, else the key of the elected entry, else no masternode output |

Whether the ledger holds a record for the height, and which payee it names,
is an input of `CreateCoinStake` drawn from `LedgerPayees`. The ledger's own
evolution is PaymentLedger's, and nothing else in this module reads the
ledger. The master picks the payee from its own list, so the record may name
any key.

Scores are the constant table `ScoreOf`, giving the low 32 bits of
`CalculateScore` against the tip hash.

### PaymentLedger and AbstractLedger (the payment ledger)

`PaymentLedger` holds `CMasternodePayments` on every node of `Nodes` (two
nodes in the runs):

| Variable | Code |
|---|---|
| `vWinning` | `vWinning` of each node: a sequence of records [height, vin, score] |
| `seen` | the keys of `mapSeenMasternodeVotes` |
| `cache` | `mapCacheBlockHashes` |
| `tip` | `chainActive.Height()`, the same on every node |
| `votes` | the votes the master has relayed (a history of the network) |
| `delivered` | the votes each node has taken in while in range (a history, read only by properties) |

The data is abstracted as follows:
- A block hash is its height. The chain has no forks.
- A collateral's `prevout.hash` is `TxOf[vin]`.
- `CalculateScore` is the table `VoteScore[hash][tx]`.
- `GetHash` is `<<height, tx>>`, which, like the code, ignores the payee and `prevout.n`.
- Only one key signs votes (`strMainPubKey`), so a vote passes `CheckSignature` exactly when the master relayed it.

| Definition | Code |
|---|---|
| `GetBlockHash` | masternode.cpp:696-737: height 0 becomes the tip height; a cached height is answered from the cache; otherwise the block `tip + 1 - h` back, the tip for a negative height, failing at genesis |
| `AddWinningMasternode` | masternode.cpp:883-916: the score against the block `LOOKBACK` below; replace the first record of the height with a strictly lower score, else append and mark seen when the height has none |
| `Mnw`, `MnwSeen` | the `mnw` handler, masternode.cpp:369-409: seen key, range [tip-`BACK`, tip+`AHEAD`], mark seen, then add |
| `ProcessBlock` | masternode.cpp:936-990 on `Master`: skip the vins of the last size+1 records; after the shuffle any enabled candidate can win, else any entry; relay only if the add succeeds |
| `CleanPaymentList` | masternode.cpp:918-934: erase the first record more than max(2·size, `CLEAN_MIN`) below the tip, one per call |
| `RecordFor` | `GetBlockPayee` / `GetWinningMasternode`, masternode.cpp:859-881: the first record of the height |

Some parts of the code are not actions of the model:
- `Relay`, `Sync` and the `mnget` handler only resend votes that are already in `votes`. `Mnw` can deliver any vote in `votes` to any node at any time, so it covers them.
- `ProcessBlock` and `CleanPaymentList` are called from main.cpp, which is not in `src/`. The model lets them run at any time, and calls `ProcessBlock` for the height `tip + VOTE_AHEAD`.
- `NewBlock` also drops votes, seen keys, history and cached hashes that no later step can read: the votes below the window, and the hashes below the lowest key a later vote can ask for. The code keeps them. Dropping them does not change any behaviour, and it keeps the state space finite.

`AbstractLedger` is what the ledger promises:
- each node keeps at most one record per height (`winner[n][h]`);
- a record is replaced only by a strictly greater score, and only inside the window;
- a record is pruned only when it is older than the limit.

`ImplementsAbstractLedger` is `AbstractLedger!AbsSpec`, instantiated with the refinement mapping `winner <- [n |-> [h |-> RecordFor(n, h)]]`.

### ActiveMasternode (the local masternode and its RPC commands)

The status machine of `CActiveMasternode` runs on a node started with
`masternode=1`. The node's state is:

| Variable | Code |
|---|---|
| `status` | `activeMasternode.status` |
| `fMasterNode` | `fMasterNode`, set by `masternode=1`, `init` and a restart, cleared by `kill` |
| `keyOk` | the last announce of `vin` carried the key `strMasterNodePrivKey` now holds, the key `Dseep` signs pings with and peers check them against |
| `coinLocked` | the collateral is in `setLockedCoins` |
| `listed` | the local `vecMasternodes` holds the entry of `vin` |
| `sent` | what the last step broadcast: `dsee`, `dseep`, a stop, or nothing |

The environment is:
- `ibd`, `walletLocked` and `reachable` (`GetLocal`/`ConnectNode`);
- the collateral `coin` (none, young, or mature after `MASTERNODE_MIN_CONFIRMATIONS`);
- daemon restarts, which clear the in-memory status, coin locks and list.

| Definition | Code |
|---|---|
| `ManageStatusFrom`, `ManageStatus` | activemasternode.cpp:15-127 in the code's order: nothing unless `fMasterNode`; `SelectCoinsMasternode()` excludes locked coins; `Register` announces with `strMasterNodePrivKey`, so `keyOk` becomes true |
| `Dseep`, `DseepVin` | activemasternode.cpp:173-237: only a running node pings; without a local entry the status becomes `NOT_CAPABLE` |
| `RpcStart` | rpcdarksend.cpp:318-359: a node that is not running starts over from `NOT_PROCESSED`, runs `ManageStatus`, and locks the wallet again |
| `RpcStop` | rpcdarksend.cpp:136-168 with `StopMasterNode` (activemasternode.cpp:145-171): `STOPPED`, unlock the coin, stop ping; the wallet is relocked only on success |
| `RpcRefused` | `start` and `stop` return at once unless `fMasterNode` (rpcdarksend.cpp:137, 319) |
| `RpcStartAlias`, `RpcStartMany`, `RegisterEntries` | rpcdarksend.cpp:361-466 with `Register` (activemasternode.cpp:238-303): each entry of `masternode.conf` (one for `start-alias`, none if the alias is not found, all for `start-many`) announces its collateral, with the entry's key. `GetMasterNodeVin` (activemasternode.cpp:307-378) finds that collateral by hash and index among all the wallet's candidates, locked coins included. The wallet is then locked. Neither command tests `fMasterNode` |
| `RpcStopAlias`, `RpcStopMany`, `StopEntries` | rpcdarksend.cpp:170-267 with `StopMasterNode(strService, key)` (activemasternode.cpp:129-142): the vin is a default `CTxIn`, so any entry found sets the local status to `NOT_CAPABLE`; the wallet is locked |
| `RpcInit`, `RpcKill` | rpcdarksend.cpp:663-695: `init` sets `fMasterNode` and a new `strMasterNodePrivKey` without announcing it; `kill` clears `fMasterNode` |

`masternode.conf` is the constant `Conf`: a sequence of entries, each saying
whether it names this node's collateral (`own`) and whether its key is
`masternodeprivkey` (`sameKey`). Start-up locks the collaterals of
`masternode.conf` (the comment at activemasternode.cpp:385-390; the code is in
init.cpp, outside the repository), so `Init` and `Restart` set `coinLocked`
when an entry is `own` (`ConfLocked`). `ManageStatus` excludes locked coins, so
a node whose own collateral is in `masternode.conf` never starts by itself:
with `MC_ConfOwn` TLC finds `KeepsPinging` violated, which is listed as a
hazard. The active run's `masternode.conf` (`MC_Conf`) lists one other
collateral of the wallet, so the node starts through `ManageStatus` and the
commands lock its collateral. Peers
are assumed to take each announce that reaches them; the registry's own
`MIN_DSEE` rule is checked in `MasternodeList`.

`EnableHotColdMasterNode` has no caller in `src/`, so `REMOTELY_ENABLED` is
never reached.

### Keypool (the wallet's key pool and the stake thread)

State: `setKeyPool` (the indices held), `pool` (the wallet file's pool records as a
function index -> key; keys are numbered in generation order), `nKeys` (keys
generated), `defaultKey` (`vchDefaultKey`, 0 when not valid), `encrypted`,
`locked`, `aborted` (an `assert` has failed and the process has ended), and the
stake thread's `stakeKey` (its `CReserveKey`) and `stakePc` (`wait` at the
`IsLocked` test, `sync` at the peer and download test, `checked` past both,
`exited`).

The wallet calls are operators on a value `[set, pool, next, dflt]`, so that an
action chains them as the code does. `ReserveKeyFromKeyPool` tops up first. It
then takes the smallest index and erases it from `setKeyPool` before reading
its record, so a missing record throws after the erase. `TopUpKeyPool` does
nothing while locked. It numbers new indices from the largest held plus one, or
from 1 when `setKeyPool` is empty. `NewKeyPool` erases the records of the held
indices and writes 1..`-keypool`, one key fewer than a top-up keeps.
`GetKeyFromPool` generates a key when the pool is empty and the wallet is
unlocked, and fails when it is locked. `GetReservedKey` returns a failure where
the code's callers `assert`. `CreateTransaction` is reduced to its paths that
differ for the change key: no reservation, no change, dust change returned,
change held, or a later failure with the key still held. `CommitTransaction`
keeps the change key, then runs `AddToWallet` on the new transaction.
`ReplaceDefaultKey` is `AddToWallet`'s loop. `scriptDefaultKey` is computed
once, so each of n outputs to the old default key takes a key from the pool and
makes it the default.

`Init` is a wallet after its first run: the first `GetKeyFromPool` has filled the
pool and taken the default key. An encrypted wallet has, in addition, had its
pool replaced by `EncryptWallet` and is locked.

Actions, one per caller in `src/`. Each caller holds `cs_wallet` for its whole
body, so each is one step:
- `StakerCheck`, `StakerSync`, `StakerCreateBlock`: the steps of `ThreadStakeMiner`'s loop. The peer wait does not test the lock again, and `fTryToSync` may go back to the lock test. While the thread runs, the reserved key is never kept or returned (`CheckStake` does not touch it). `NewBlockTemplate` lets `CreateNewBlock` return NULL (its `ConnectBlock` test, miner.cpp:345-347, depends on the mempool and is left open). A NULL template or an exception ends the thread, and `CReserveKey`'s destructor then returns a held index to `setKeyPool`.
- `RpcDarksend` with `SendMoney` (rpcdarksend.cpp:26-104): both refuse a locked wallet, and they run under the RPC's `LOCK2(cs_main, cs_wallet)`. When the transaction fails, `SendMoney` throws. The `CReserveKey` destructor (wallet.h, not in the repository) then runs. Both outcomes are allowed: the held key returned, and the key not returned.
- `SendStealthMoneyToDestination` with `SendStealthMoney` (wallet.cpp:2961-3102): the same steps as `SendMoney`. A failure returns an error string instead of throwing. The payee is a key derived for this payment, never the default key. The stealth send command that calls it is not in `src/`.
- `PrepareDarksendDenominate`: refuses a locked wallet, then reserves and keeps a key for each of up to `MaxOutputs` outputs. `LockCoin` asserts that its caller holds `cs_wallet`.
- `AddToWallet`: a transaction paying the default key in up to `MaxOutputs` outputs arrives, locked or not.
- `GetOldestKeyPoolTime`, `EncryptWallet` (`Lock; Unlock; NewKeyPool; Lock`), `WalletLock`, `WalletUnlock`.
- `ChangeWalletPassphrase` (wallet.cpp:308-379): it calls `Lock()` before it tries the old passphrase. A wrong passphrase returns false and leaves a wallet locked even if it was unlocked before. With the right passphrase the wallet ends locked only if it was locked before. Its RPC caller is not in `src/`.

### MasternodeConfig (masternode.conf and the addremote/removeremote commands)

State: `entries` (`masternodeConfig.entries`), `file` (the lines of
masternode.conf), `up` (the daemon runs), the bounded counters `rpc` and
`restarts`, and the history variable `requested`: the aliases the operator's
commands have asked the file to hold. An entry is its alias; ip, key, txHash
and index travel with it unchanged. The start-up code that calls `read` (init.cpp)
is not in the repository; the model assumes it runs at every start, so `Init`
and `Restart` set `entries` to the file's lines.

- `AddRemote`: `create`. It looks for the alias in memory only; if absent it rewrites the file from memory plus the alias and appends the alias. The command replies "Masternode created" whatever `create` returned.
- `RemoveRemote`: `remove`. It rewrites the file with the entries in memory whose alias differs, then erases `entries.begin() + rIndex`, where `rIndex` is the 1-based position of the last match. The entry after the match goes. When the match is last, erase is given `end()`, which is undefined behaviour. Both outcomes are allowed: libstdc++ drops the last element, or a checked build aborts the daemon (`up` becomes false).
- `Restart`: the daemon (re)starts and `read` loads the file.

The file the node starts with has distinct aliases. With repeated aliases,
`remove` would also erase only one of them from memory.

## 3. Runs

| Run | cfg | Result | What it shows |
|---|---|---|---|
| registry_one | MCRegistryOne | pass, 25,876 states | one collateral with announce and ping replays and list syncs: `PingReplayCannotRevive` (a stopped entry is not revived by any ping) and `TypeOK` |
| stop_ignored | MCRegistryStop | violation | `StopTakesEffect`: a stop within `MIN_DSEEP` of a refresh is recorded but ignored (masternode.cpp:272) |
| replay_revives | MCRegistryReplay | violation | `WithdrawnStaysDown`: a replayed announce revives a withdrawn entry (masternode.cpp:132) |
| duplicate_addr | MCRegistryAddr | violation | `UniqueAddrs`: an operator restarting at another address takes a listed entry's address (masternode.cpp:141) |
| election | MCElection | pass, 346,455 states, about 2 min | two collaterals, blocks staked from the election (no ledger record): `ElectedIsReferenceWinner` and `OwnPayeeIsValid` (see below) |
| ledger_payee | MCElectionLedgerPayee | violation | `StakedPayeeIsValid`: `CreateCoinStake` pays the ledger's payee, and `IsValidMasternodePayment` rejects it because the payee is missing from this node's list, younger than 24 hours or recently paid (wallet.cpp:3519) |
| ledger | MCLedger | pass, 262,904 states, about 1 min | two nodes, two collaterals in two transactions, votes for every height delivered in any order, late or never: `OrderIndependent` |
| ledger_refines | MCLedgerRefines | pass, 17,005 states | the master's ledger from the chain's start until records are pruned: `ImplementsAbstractLedger` |
| active | MCActive | pass, 4,856 states | `KeepsPinging` under weak fairness of `ManageStatus`, over every state-changing masternode command, with `init`, `stop-alias` and `stop-many` issued only while the local node is not running |
| keypool | MCKeypool | pass, 58,555 states | the key pool under every caller in any order. `NoAssertAbort`: the `assert`s on `GetReservedKey` ("should never fail, as we just unlocked", wallet.cpp:2561, 3762, 3789) hold. Also `TypeOK` |
| config_remove | MCConfigRemove | violation | `DiskHoldsRequested`: from masternode.conf `a1 a2`, `removeremote a1` leaves `a2` on disk and `a1` in memory; `addremote a1` then writes nothing and replies "Masternode created" (masternodeconfig.cpp:112) |
| alias_stop_strands | MCActiveAliasStop | violation | `KeepsPinging`: `stop-alias` sets the running local node to `NOT_CAPABLE` while its collateral stays locked, and it never pings again (activemasternode.cpp:141) |

`ElectedIsReferenceWinner` compares `GetCurrentMasterNode` with a reference
election written from the spec (section 4.2): the eligible entry with the
largest nonzero score, with the first listed winning a tie. It checks this on
every registry the gossip can build and every chain staking can produce.

`OwnPayeeIsValid` checks that the block paying the elected entry passes this
node's own validation. It holds when every collateral has its own key. It fails
when two collaterals share one key: `IsValidMasternodePayment` takes the first
entry with the payee's key (masternode.cpp:566), and the election may have
picked the second. To see this, set `CollateralKey <- MC_SharedKey` in
MCElection.cfg and check only `OwnPayeeIsValid`. It is listed as a hazard
rather than as a run of its own.

`OrderIndependent` is spec 8's determinism for the ledger. Take two nodes that
have taken in the same votes for a height while it was in range, and both hold
a record for it. The property says the records are for the same collateral.
Three orderings threaten it:
- delivery order with ties (the replacement needs a strictly greater score);
- the seen set, keyed by height and transaction only;
- the block-hash cache.

With distinct transactions and heights past the lookback, it holds. TLC also
explored two collaterals in one transaction without a violation: the master
never relays two equal-score votes for one height, so the first vote is the
only one in circulation. That exploration is not one of the runs.

`KeepsPinging` is a liveness property. Suppose the node's conditions stay good
from some point on: `fMasterNode` set, synced, wallet unlocked, service
reachable, collateral confirmed. Then the node sends `dseep` infinitely
often, signed with the key its last announce carried (so peers accept it),
unless the operator has stopped it for good. With `InitWhileRunning` set,
TLC finds it violated: `start`, then `init` with a new key, and the node
pings forever under a key the network does not hold (rpcdarksend.cpp:669).
The same would happen if the own entry of `masternode.conf` had another key.
Neither is a run of its own; both are listed as hazards.

Every property of a passing run has a mutant in `PROJECT.json`: a plausible bug
in the mapped code that TLC detects under the run's own configuration. For
example:
- the dseep ordering guard is dropped;
- the paid skip does not advance `i`;
- `>=` becomes `>` in the 24-hour test;
- a -1 sentinel is used in `Disable`;
- `CreateCoinStake` builds the payee from the vin instead of the key.
- `AddWinningMasternode` replaces the score but not the vin.
- `CleanPaymentList` prunes a record exactly `nLimit` old.
- `TopUpKeyPool` numbers an empty pool from 0 (`nEnd = 0`).
- `PrepareDarksendDenominate` drops its `IsLocked()` test. Payments to the default key drain the pool while the wallet is locked, and the next reservation's `assert` then fails.
- `ManageStatus` no longer starts over from `NOT_CAPABLE`, or announces without the current key.

## 4. Bounds and why they are enough

Times are small integers.

- The code's windows keep their order: `MIN_DSEE` (1) < `MIN_DSEEP` (2); `EXPIRATION` (2) < `REMOVAL` (3); the signature tolerance is 1. So a refresh can be too early, in time, or expired.
- `T0` = `REMOVAL`, so a disabled `lastTimeSeen` of 0 is already expired, as real time is.
- `MaxTime` is bounded by the state constraint `ClockBound`, not by a guard, so the bound does not create deadlocks.
- Two collaterals and two addresses are the fewest that let an address clash, a list order and an election between two entries occur.
- In the election run, `ACTIVE_MIN` (24 hours in the code) is scaled to 1 tick, so an entry can become payable within the time bound. In the code the rule is longer than `REMOVAL`, so a payee must be refreshed repeatedly; here one refresh is enough. The rule's relation between `lastTimeSeen` and `now` is unchanged.
- The paid window is clamped to [1, 3] blocks instead of [960, 1500], and `MaxHeight` is 3. This lets the window both cover and miss the last payment.
- Scores alternate between 0 and 1, so ties and zero scores occur.
- Limit: a stop ping takes effect at the earliest `MIN_DSEEP` after registration, at time 5. Only registry_one (`MaxTime` 9) and the violation runs reach that time. The election run stops at `MaxTime` 4, without restarts. Two collaterals with restarts reach 3.7 million states at `MaxTime` 4 and take 12 minutes. So the election run covers withdrawal only in the sense that the operator has stopped, never as a disabled entry.
- The election run stakes without ledger records. With records naming `k1` it has 616,187 states and takes close to the 5-minute limit once coverage is collected. With records for both keys it has 2.7 million states. The ledger_payee run stakes with records naming `k1`. One key is enough for a record to agree with the election and to disagree with it. So the election run does not check a chain in which the ledger paid a key the election would not have picked.

Ledger bounds:
- `LOOKBACK` 3 > `AHEAD` 2 >= `VOTE_AHEAD` 1 and `BACK` 1 keep the code's order (576 > 20 >= 10, with 10 below). So the lookback block is always below the tip, and a vote can arrive before, inside or after its window.
- In `ledger`, the tip runs from 6 to 10, so every voted height is past the lookback.
- Votes within 576 blocks of genesis are a hazard, not a run: with `InitTip` 2 and `MaxTip` 5, where the lookback reaches genesis, TLC finds `OrderIndependent` violated, because `GetBlockHash` answers with the tip (masternode.cpp:701, 716). It concerns only the chain's first 576 blocks.
- `ledger_refines` uses one node from tip 2 to 9. With two collaterals the limit is max(2·2, 1) = 4, so the first records are pruned at tip 8 and 9. Two nodes over that span exceed 10 million states.
- Scores take the values 1 and 2, and their order flips with the hash's parity, so replacements happen.

Key pool bounds: `-keypool` is 2, so a top-up keeps 3 keys, `NewKeyPool` writes
2, and the pool can be drained by three calls; `MaxKeys` 10 (a state constraint)
allows three refills. `MaxOutputs` is 2, so one transaction can take two keys
from the pool: two outputs to the default key, or two denominated outputs.
Three payments to the default key drain a locked pool, which is what
`NoAssertAbort`'s guarding `IsLocked()` tests must survive. TLC shows three states the code
reaches (listed as hazards, not runs): `PoolReadable` is violated in nine
states (the stake thread holds index 2, `EncryptWallet`'s `NewKeyPool` writes
1 and 2 again, two reservations keep both, and a NULL template from a failed
`ConnectBlock` ends the thread, whose `CReserveKey` destructor puts 2 back in
`setKeyPool` with no record, so the next reservation of 2 throws "read failed"); `StakeKeyNotReissued` is violated (the
stake thread's index 1 is put back by `EncryptWallet`'s `NewKeyPool`), and the
stake thread exits when, after its lock and peer tests, `EncryptWallet` locks
the wallet and one payment to the default key in two outputs drains the pool
(miner.cpp:488, five steps).

Active masternode bounds: at most 3 RPC commands and 1 restart. The booleans of
the environment change freely.

- In `MasternodeConfig`: three aliases, a starting file of up to two lines, three commands and one restart. A remove of a line that is not last, followed by a command that rewrites the file, needs two lines and two commands. The third alias and the restart let an alias new to the file and a reload from disk happen too.

## 5. Fairness

`ActiveMasternode.Spec` assumes weak fairness of `ManageStatus` and nothing
else:
- `ManageStatus` runs on a timer for as long as the daemon runs. That caller, the DarkSend thread, is in main.cpp and not in `src/`.
- RPC commands, restarts and the environment get no fairness, because an operator need not act.
- `KeepsPinging` assumes good conditions only as its antecedent (`<>[]Good`).

The other modules check only safety and refinement, with no fairness. The
deadlock check is on for every run:
- time can always advance until the constraint stops exploration;
- `ProcessBlock` and `ManageStatus` are always enabled.
- in `Keypool`, `AddToWallet` and `GetOldestKeyPoolTime` are always enabled until an `assert` fails (`aborted`), which no state of the run reaches. The stake thread may stop (`exited`); the wallet does not.

## 6. Not modelled, and the plan

Modules to come, in order:

1. **Active masternode composed with the registry.** The local node's own `dsee`/`dseep` would feed `MasternodeList`, replacing its environment actions for that operator. A further hazard: if `IsInitialBlockDownload()` (main.cpp) can turn true again, a running node strands itself the way `stop-alias` makes it (setting `IbdCanReturn` shows it).
2. The unsigned `lastUpdated` (`ForgeLastUpdated`) against the 24-hour rule, and the payment amount check.

Left out, and why:
- Block assembly and `CheckStake` in miner.cpp, and the read-only RPC commands (`list`, `count`, `current`, `winners`, `debug`) are file parsing, formatting and block search. They hold no protocol state. `ActiveMasternode` models the RPC commands that change state: `init`, `kill`, `start`, `stop`, `start-alias`, `start-many`, `stop-alias`, `stop-many`.
- Ranks: `GetMasternodeByRank` has no caller in `src/`, and `GetMasternodeRank` only feeds RPC output, so no state depends on them.
- No property says the stake thread keeps running: it returns on purpose when the pool is empty (its log asks for `keypoolrefill`). `Keypool` reaches that exit; it is a hazard.
- The wallet's RPC commands (rpcwallet.cpp: `getnewaddress`, `keypoolrefill`) are not in `src/`; `RpcDarksend` and `SendStealthMoneyToDestination` are the callers of `CreateTransaction` in `src/`. `CreateCollateralTransaction` (wallet.cpp:2396) reserves with no lock test of its own, and its callers (darksend.cpp) are not in the repository; it is a hazard.
- The wallet's staking-only unlock (`Unlock(..., anonymizeOnly)`) and `IsLocked(fForMixing)` live partly in crypter.h, which is not in the repository; `walletLocked` is one flag.
- `stop` can fail and leave the wallet unlocked (rpcdarksend.cpp:157). The model records this in `walletLocked`, but no property says what an unlocked wallet exposes.
- Wallet coin selection and signatures are outside the masternode protocol.
- `GetMasternodePayment` and the mempool check behind `AcceptableInputs` are not in `src/`. The mempool check is the set `spent`.
- Chain reorganisations are not modelled for the ledger. A stale cached hash needs a reorg deeper than the 556 blocks between the `mnw` window and the lookback.
- `SetPrivKey` only decides which node is `Master`.
- No code in `src/` locks `vecMasternodes`. The message handler, the staking thread and RPC may race on it. The models take each handler as one atomic step, so a torn read is not modelled.
