# TLA+ verification of the nomic cross-chain relayer core

This directory holds TLA+ models of the relayer core in `src/`. Each one has
TLC configurations that check it on small instances and TLAPS proofs for
every value of the constants. `PROJECT.json` lists the components, the runs,
the mutants, the map from every definition to the source lines it models,
the findings, the hazards and the theorems.

## 1. Inventory

### The system

The source has three files:

* `src/src/bitcoin/relayer.rs`: the Bitcoin relayer. It holds the
  watched-script index and its file store, and three long-lived tasks that
  each loop forever and retry on error: header relay, deposit relay and
  checkpoint relay.
* `src/src/ethereum/consensus/mod.rs`: the Ethereum light-client wrapper
  around helios (`new`, `update`, `slot`, `state_root`) and the binary codec
  of its store.
* `src/src/error.rs`: the error enum. It has no state.

| Component | State | Operations | Interacts with |
|---|---|---|---|
| WatchedScripts (relayer.rs 424-491) | `scripts: script -> (addr, sigset index)`, `sigsets: index -> (sigset, Vec<addr>)` | `insert`, `get`/`has`, `remove_expired` (reads the wall clock) | owned by the store |
| WatchedScriptStore (502-581) | the index plus an append-only file of lines `addr,index` | `open` (load, drop expired, truncate, rewrite), `insert` (index, then append) | `checkpoints.all()` RPC at open; owned by the deposit task |
| DepositRelay (96-147, 186-321) | `prev_tip`, the receiving end of the announcement channel | drain the channel into the store, then `remove_expired`; read the sidechain tip; rescan at least 1100 blocks; `maybe_relay_deposit` (processed check, SPV proof, relay, dust filter) | channel from the depositor endpoint, Bitcoin RPC, sidechain client |
| HeaderRelay (58-94, 323-402) | `last_hash` (for logging only) | compare the node's tip with the sidechain's; `relay_header_batch` (height check, `common_ancestor`, `get_header_batch` of at most 25, `headers.add`) | Bitcoin RPC, sidechain client |
| CheckpointRelay (149-184) | none | every 10 s, send each completed transaction and ignore two benign errors | sidechain client, Bitcoin RPC |
| LightClient (mod.rs 33-82) | helios `LightClientStore` and `Network` | `new` (verify and apply the bootstrap), `update` (full or finality update: verify, then apply), accessors | called by an external relayer loop |
| Consensus codec (mod.rs 142-764) | none | fixed-layout encode and decode of the store, headers, committees, aggregates, keys and signatures | persistence of LightClient |

The three Bitcoin tasks run at the same time on one async runtime. They
share no memory; the sidechain application orders what they submit. The
deposit task alone owns the store. It shares only the announcement channel,
with the depositor endpoint in the same process. Every RPC call, channel
receive and sleep is a suspension point, so the full node and the sidechain
can change between any two calls of one iteration.

### What is hard

* **Crashes.** The store file is the only persistent state. It is truncated
  in place and rewritten at open. A line is written by several `write`
  calls, so a crash can leave it torn.
* **Partial failure.** The store updates the index before it appends the
  line. An RPC can fail after the announcement has been taken off the
  channel.
* **Interleaving with external chains.** A reorg on the full node, or
  headers reaching the sidechain, can happen between the RPC reads of
  `relay_header_batch` and `common_ancestor`.
* **Ordering and boundaries.** `remove_expired` stops at the first
  unexpired sigset, so it relies on timeouts that grow with the index. The
  boundary `now == timeout` counts as expired. The block count uses an
  unsigned subtraction, and the light client's slot computation subtracts
  the genesis time.
* **Idempotency by error text.** Duplicate deposits and checkpoint
  broadcasts are accepted only through substring matches on upstream
  errors. Any other error aborts the whole iteration.

### Properties that make each component correct

* WatchedScripts: `remove_expired` removes exactly the scripts of expired
  sigsets; `insert` is idempotent.
* Store: every script the running relayer watches is on disk. When open
  returns, the disk equals the index. No live entry is lost across crashes.
  A crash never stops the relayer from restarting.
* Deposit drain: every announced address is eventually watched and on disk
  unless its sigset expires first.
* HeaderRelay: every batch links to a header the sidechain has. The task
  never panics. When the node's tip stops changing, the sidechain reaches
  it.
* DepositRelay: every deposit to a watched script whose block reaches the
  sidechain is processed, unless the tip ran past it by more than the
  rescan floor first or `remove_expired` dropped its script first
  (`DepositsRelayed`). Its safety half: once
  `prev_tip` is `Some(t)`, no such deposit at or below `t` is left
  unprocessed (`ScanCovered`). `relay_deposit` is only called for a block
  the sidechain has (`RelayedBlockKnown`).
* CheckpointRelay: every completed checkpoint transaction is eventually
  confirmed, despite evictions and refusals (`CheckpointsConfirmed`).
* LightClient: the store only trusts canonical headers and honest
  committees (`StoreSound`). Encode and decode are inverses
  (`CodecRoundTrip`). The finalized header only moves forward, and never
  past the current slot (`AbsRefined`).

The hazards are listed at their lines in `PROJECT.json` (`hazards`).

## 2. Modules and status

| Module | Models | Status |
|---|---|---|
| `WatchedScripts` | the index (`insert`, `remove_expired`) | modelled |
| `ScriptStore` | EXTENDS `WatchedScripts`: the store file, crashes, `open` and its compaction, the drain of `insert_announced_addrs` | modelled |
| `HeaderRelay` | the header task against a node whose tip moves between any two RPCs | modelled |
| `DepositRelay` | EXTENDS `WatchedScripts`: `relay_deposits`, `scan_for_deposits`, `last_n_blocks`, `relevant_outputs`, `maybe_relay_deposit` | modelled |
| `CheckpointRelay` | `relay_checkpoints` against a node with a mempool | modelled |
| `Relayer` | the deposit and checkpoint tasks side by side (`Relayer::new`) | modelled |
| `LightClientSpec` | what `slot()`/`state_root()` promise | abstract |
| `LightClient` | `new`, `update`, the accessors, `flush`/`load` through the ed codec | modelled; refines `LightClientSpec` |
| `*_proofs` | the TLAPS proofs for `ScriptStore`, `HeaderRelay`, `Relayer` and `LightClient` | proved |

## 3. The modules

### `WatchedScripts.tla`

* Variables: `scripts`, the set of watched `<<addr, index>>` pairs; `sigsets`,
  a function from indices to the set of addresses pushed on that sigset's
  vector; `now`, the clock read by `time_now()`.
* `output_script` is taken as injective, as spec section 3 states. So a key
  of the map is identified with the pair it maps to.
* The vector becomes a set. It is only ever read whole by
  `remove_expired`, so its order and its duplicate pushes are not observed.
* Actions: `Insert` (`WatchedScripts::insert` of a new script; an insert
  of a present script is a no-op and needs no step), `Remove`
  (`remove_expired`) and `Tick`.
* `ExpiredPrefix` is the set of sigsets the ascending loop visits before
  its `break`. `Expired(i)` is the negation of the loop's `now < timeout`.

### `ScriptStore.tla`

This module EXTENDS `WatchedScripts`.

* `file` is a sequence of lines. A line is an entry or `TORN`, a line cut
  short by a crash.
* `phase` is `down`, `compacting` (inside `open`, after the truncation) or
  `running`.
* `pending` holds the surviving scripts still to be rewritten. It is a set
  because HashMap iteration order is arbitrary.
* `chan` is the announcement channel. `loop` is the deposit loop's
  position (drain, then scan).
* `persisted` is a history variable: every entry that has ever had a
  complete line.
* Flags choose the failures: `RpcCanFail` for `checkpoints.get`,
  `WriteCanFail` for an append, `TornWrites` for a crash inside a line.

| Action | Code |
|---|---|
| `Open` | `open` → `maybe_load`: load every line, `remove_expired`, then `File::create` truncates |
| `OpenFails` | `maybe_load` on a torn line: `items[1]` panics or the parse fails; nothing changes |
| `CompactWrite(e)`, `CompactDone` | one `Self::write` of open's rewrite loop; open returns |
| `Announce(a, i)` | the depositor endpoint sends on the channel (outside `src/`, spec section 6) |
| `ReceiveAnnounced` | one `try_recv` turn of `insert_announced_addrs` with `StoreInsert` = `WatchedScriptStore::insert` |
| `ReceiveRpcFails` | `checkpoints.get` fails and `?` ends `relay_deposits` after the pair was consumed |
| `DrainDone` | `try_recv` finds the channel empty, then `remove_expired` |
| `ScanDone` | the rest of the iteration, which does not change the index or the file |
| `Crash`, `CrashInAppend` | the process dies; a crash inside a write tears the line |

### `HeaderRelay.tla`

* The node's block tree is constant: `Blocks`, `Parent` (the
  `previous_block_hash`), `Height`, and `Ancestors`, each block's set of
  ancestors including itself. `AncestryAssumption` ties `Ancestors` to
  `Parent`: the genesis block has only itself, and any other block adds
  itself to its parent's set. The MC module computes the sets for its
  trees with a RECURSIVE operator, which only TLC reads. This keeps
  recursion out of the modules the proofs use.
* Variables: `tip`, the node's best block; `scTip`, the sidechain header
  queue's best header; `pc`, the position in `relay_headers`; and the
  locals `fnHash`, `scHash`, `a`, `b`, `start`, `cursor`, `batch`.
* A `get_block_header_info` call returns a snapshot `Info(x)`: the block,
  its `confirmations` (-1 off the best chain) and its `next_block_hash`,
  all as of the moment of the call. The loop test `a != b` compares
  snapshots because `GetBlockHeaderResult` derives `PartialEq` over all
  its fields.
* Locals that are dead get a fixed value (`Restart` at the top of the
  loop, `NoInfo` after `common_ancestor` returns). The program can never
  read those values again.
* The node moves to a block of more height (`NodeNewTip`), by extension
  only unless `NodeReorgs`. Other relayers may move the sidechain up the
  node's chain (`OtherRelayerAdds`). The queue accepts a batch whose
  first header links to its chain and that carries more work (`Accepts`).
* `rpcErrors` counts the RPC errors, up to the bound `MaxRpcErrors`.
  Work is height here, which holds for blocks of equal difficulty.

| Action | Code |
|---|---|
| `ReadBest`, `ReadSidechain` | `get_best_block_hash`, `headers.hash()` and the comparison (74-82) |
| `WaitForNewBlock` | the up-to-date report and `wait_for_new_block(3000)` (84-93) |
| `CompareHeights` | the two header infos and the syncing test (328-340) |
| `FetchA`, `FetchB`, `CAStep` | `common_ancestor`: the two fetches, then one loop turn (return, shortcut, or walk one side back with a fresh fetch) per step (383-401) |
| `BatchStart`, `BatchNext`, `BatchEnd` | `get_header_batch`: the first fetch and each turn of the 25-turn loop (358-380) |
| `EmptyBatchPanic`, `Submit` | `batch[0]` on an empty batch; `headers.add` then back to the loop (342-356) |
| `RelayRpcError` | any `?` error: `start_header_relay` sleeps and calls `relay_headers` again (58-68) |

### `DepositRelay.tla`

The deposit task, one RPC per step. It EXTENDS `WatchedScripts` and leaves
the store file to `ScriptStore`; here announcements go straight into the
index (`DrainOne`), then `DrainDone` runs `remove_expired`.

* The sidechain's header chain is linear and named by heights, so
  `common_ancestor(tip, prev)` is the lower of the two
  (`CommonAncestorHeight`). Forks are `HeaderRelay`'s part.
* A deposit is an outpoint with the height of its block, the script it pays
  and whether the sidechain refuses it as dust. `processed` is the
  sidechain's `processed_outpoints`. Other relayers relay deposits too
  (`OtherRelayerRelays`), and headers reach the sidechain in jumps
  (`HeadersAdded`).
* `eligible` is a history variable: the non-dust deposits whose block
  reached the sidechain while their script was watched.
* The wall clock `time_now()` moves on at any point (`ClockTick`), so a
  sigset can expire while a deposit to it waits to be scanned, and the
  next drain's `remove_expired` drops its script.
* A pair is announced once. The endpoint may announce it again, but that
  changes nothing the properties observe: `insert` of a present script is
  a no-op, and of an expired one is undone by the `remove_expired` that
  ends the same drain, before any scan reads the index. The growth of the
  address vector that it causes is listed as a hazard and not modelled.

| Action | Code |
|---|---|
| `DrainOne(e)`, `DrainDone` | `insert_announced_addrs` (187-203) |
| `ReadTip` | `headers.hash()`, `prev_tip.unwrap_or(tip)`, the `continue`, `common_ancestor` and `num_blocks = (end - start).max(1100)` (115-123) |
| `ScanStart`, `ScanPastGenesis` | `scan_for_deposits` re-reads the tip and fetches `num_blocks` blocks; past the genesis block `get_block` fails (131-135, 205-222) |
| `CheckOutput(o)`, `RelayDeposit` | `maybe_relay_deposit`: the `processed_outpoints.contains` check, then `relay_deposit` with the dust arm; another relayer's earlier relay makes `res?` fail (260-321) |
| `NextBlock`, `ScanEnd` | the block loop and `prev_tip = Some(tip)` (125-144) |
| `DepositRpcError`, `Restart` | any `?`: `start_deposit_relay` sleeps and calls again with `prev_tip = None` (96-106) |
| `ClockTick` | `time_now()` advancing (411-417) |

Two safety properties state what the scan guarantees:

* `ScanCovered`: while `prev_tip` is `Some(t)`, every eligible deposit at
  or below `t` is processed, unless the tip has since run `MinScan`
  blocks past it or its script has expired out of the index.
* `RelayedBlockKnown` (an action property): `relay_deposit` is called
  only for an outpoint of a block at or below the sidechain's tip, to a
  script the index watches.

No abstract specification of `processed_outpoints` is kept: the sidechain
side is not in this repository, and its guards (not processed, not dust,
a known block) would only restate `RelayDeposit`'s guards and
`RelayedBlockKnown`.

### `CheckpointRelay.tla`

Checkpoint transactions are `1..NumCheckpoints` in completion order, each
spending the one before. The node accepts tx `k` when its input is in its
mempool or chain. It answers "Transaction already in block chain" or
"bad-txns-inputs-missingorspent" otherwise, and the code lets both pass.
Miners confirm (`Mine`) and the mempool evicts with descendants (`Evict`).
`FetchCompleted`, `SendTx`, `SendDone` and `CkptRpcError` are the loop of
`relay_checkpoints` (161-183) and its restart (149-159).

### `Relayer.tla`

`Init` is `Relayer::new`'s state with both tasks at their start. `Next`
interleaves the deposit and the checkpoint task, which share nothing but
the process.

### `LightClientSpec.tla` and `LightClient.tla`

`LightClientSpec` says what `slot()` and `state_root()` promise: a
canonical header that only moves forward and never past the current slot.

`LightClient` models the helios store (`fin`, `cur`, `next`, `opt`,
`prevMax`, `curMax`) and the `Network`.

* Headers are a slot and a root that is `"canon"` or `"fake"`.
* The honest committee of period `p` is `p`. `Evil` is a committee whose
  keys the attacker holds.
* `Updates` is every update an attacker can send: any headers, any next
  committee, with or without the branch, any participation and any
  signature slot.
* `VerifyGeneric` and `ApplyWith` follow the Altair light-client algorithm
  that helios implements (not in `src/`). `Update` is the whole of
  `LightClient::update`: the expected slot from `now_seconds`, the dispatch
  on `next_sync_committee`, verify, then apply.
* The two paths differ only in whether the next committee is looked at,
  so one action with `u.next = None` for the finality path covers both.
* `UpdatePanics` is the `try_into().unwrap()` of an update with a committee
  and no branch. The process is gone.
* `FlushLoad` is `State::flush` then `State::load`: `Decode(Encode(lc))`.
  `Encode` writes one token per fixed-width field and a 0/1 `Option` tag,
  in the order of the `Encode` impl (145-162). `Decode` reads them in the
  order of the `Decode` impl (184-206).
* `AbsRefined` is `LightClientSpec`'s specification under the refinement
  mapping `finalized <- [slot |-> Slot, root |-> StateRoot]`.

## 4. Runs

The store runs are on `MC_ScriptStore`:

* Addresses `{a1, a2}`.
* Sigsets: `{0, 1}` with timeouts 1 and 2.
* The clock is bounded at the last timeout. So announcements, loads and
  drains happen before, between and at the expiries, and the `now ==
  timeout` boundary is reached.
* `MaxAnnounce = 3` lets the file hold three lines, duplicates included.
* `MaxCrash = 2` reaches a crash inside the rewrite of an open that
  followed a first crash. Losing a line that way needs two crashes.

| Run | Expect | Checks | Shows |
|---|---|---|---|
| `store_crash` | pass | `StoreTypeOK`, `MemOnDisk`, `RemoveExactlyExpired` | every watched script is on disk whenever the relayer runs, with crashes, torn lines and RPC failures; `remove_expired` removes exactly the expired scripts |
| `store_compaction` | pass | `CompactionMirrorsIndex` | when open returns, the file equals the index (spec section 8), with every failure enabled |
| `store_liveness` | pass | `AnnouncedEventuallyDurable` | with no crashes or transport errors, announced addresses end up watched and on disk |
| `store_compaction_crash` | violation | `DurableLiveWatched` | finding: the in-place rewrite loses live entries (relayer.rs:515) |
| `store_torn_line` | violation | `RestartRecovers` | finding: a torn line stops every restart (relayer.rs:549) |
| `store_append_failure` | violation | `MemOnDisk` | finding: a failed append is never retried (relayer.rs:570) |
| `store_announce_lost` | violation | `AnnouncedEventuallyDurable` | finding: a transport error drops the consumed announcement (relayer.rs:188) |

The header runs are on `MC_HeaderRelay`, which has two trees.

* `MCBlocks` has nine blocks in three branches: `b1-b2` and `b1-c2-c3`
  share `b1`, and `d1-d2-d3-d4` forks at the genesis block. So it holds a
  shallow reorg (b to c keeps `b1`), a reorg down to the genesis (to d)
  and an equal-height fork (`b1`/`d1`). With `BatchSize = 2` the d fork is
  deeper than a batch.
* `LongBlocks` is the chain `b1-...-b5` with the fork `c4-c5-c6` at `b3`.
  With `BatchSize = 3` every fork fits in a batch, while the gap from the
  genesis to `b5` still takes two batches.

Every pair of starting tips is an initial state. The node's tip moves at
most a few times, since its height only grows. `MaxRpcErrors = 1` lets an
error restart the task at each point of the loop, after which the
liveness question is asked.

| Run | Expect | Checks | Shows |
|---|---|---|---|
| `header_live` | pass | `HeaderTypeOK`, `StartIsCommonAncestor`, `Converges` | with reorgs, other relayers and an RPC error, `common_ancestor` returns an ancestor of both tips; when forks fit in a batch the sidechain settles at the node's tip unless the task panicked |
| `header_reorg_panic` | violation | `NonEmptyBatch` | finding: a reorg before `get_header_batch` gives an empty batch and `batch[0]` panics (relayer.rs:347) |
| `header_deep_reorg` | violation | `Converges` | finding: a fork deeper than a batch is never relayed (relayer.rs:362) |

The header task stops for good after a panic, so the header cfgs do not
check deadlock: the panicked state really is final.

`MC_Relayer` runs the deposit and checkpoint tasks together:

* One address on sigset 0, whose deposit timeout 1 the clock reaches
  (`MaxTime = 1`). So the script can expire before, during or after a
  scan. TLC shows that both expiry excuses are needed: without them
  `ScanCovered` and `DepositsRelayed` are violated.
* The deposits `o1` (block 1) and `o2` (block 2, dust) to its script.
* `MinScan = 2` stands for the 1100-block floor. With `MaxHeight = 3` and
  the tip starting at genesis, a scan reaches past genesis
  (`ScanPastGenesis`), the tip can jump past a deposit by more than the
  floor, and another relayer can relay `o1` first.
* One transport error per task, two checkpoints and one eviction. This
  reaches a refusal of tx 2 because tx 1 was evicted, and a send after tx 1
  was confirmed.

`MC_LightClient` has periods of 3 slots, a committee of 3 keys, a
finality lag of 1 and slots up to 6. The finalized header reaches slot 4
at most, so it crosses one period boundary and the committees rotate
once; `StoreSoundHolds` covers any number of rotations. The bootstrap is at slot
0 or 1, and `Updates` holds every header, committee and signature slot.
The client stops for good after `UpdatePanics`, so the cfg does not check
deadlock.

| Run | Expect | Checks | Shows |
|---|---|---|---|
| `relayer_live` | pass | `RelayerTypeOK`, `ScanCovered`, `RelayedBlockKnown`, `DepositsRelayed`, `CheckpointsConfirmed` | the scan leaves nothing below `prev_tip` unprocessed beyond the window's and the expiry's excuses; only deposits of known blocks are relayed; every deposit to a watched script is processed unless the tip ran more than the scan floor past it or its script expired first; every completed checkpoint ends up confirmed |
| `lightclient` | pass | `LCTypeOK`, `StoreSound`, `CodecRoundTrip`, `AbsRefined` | the store trusts only the beacon chain, flush and load are the identity, and `LightClient` implements `LightClientSpec` |

`DepositsRelayed` excuses a deposit that the tip ran at least `MinScan`
blocks past. TLC shows that the excuse is needed. Suppose a restart sets
`prev_tip` back to `None` and the tip meanwhile jumps from 0 to 3. Then
the next scan covers only blocks 2 and 3, and block 1 is never scanned.
This is the window that spec section 9 accepts.

Each property of a passing run has a mutant in `PROJECT.json`: a plausible
bug in the mapped code that TLC must catch. The mutants are:

* the `<=` off-by-one at the `break`;
* the write condition inverted;
* compaction rewriting the loaded lines instead of the survivors;
* a script derivation that ignores the sigset;
* a new sigset entry created under the wrong index;
* `get_header_batch` looping once more than `HEADER_BATCH_SIZE`;
* `common_ancestor`'s first shortcut returning the higher block;
* the syncing test of `relay_header_batch` inverted.
* `prev_tip.unwrap_or(tip)` compared without `is_some()`, so the first
  iteration never scans;
* the block loop of `scan_for_deposits` going one block past the tip;
* "Transaction already in block chain" treated as fatal;
* the full-update path verified as a finality update, ignoring the next
  committee;
* `Decode` reading the two participation counts in the wrong order;
* apply adding the update's participation instead of taking the maximum;
* apply replacing the finalized header without the "newer" check.

**Fairness.** `LiveSpec` adds weak fairness on `Open`, the rewrite steps,
`ReceiveAnnounced`, `DrainDone` and `ScanDone`. The code justifies it:

* `open` runs to its end once started;
* the deposit task loops every 2 s for ever and retries after every error;
* a dead process is restarted.

The header relay's `LiveSpec` has weak fairness on its own steps
(`RelayStep`). The header task is a loop that never blocks for ever: each
RPC returns, and `wait_for_new_block` has a 3 s timeout. The node, other
relayers and RPC errors are not fair.

The deposit and checkpoint tasks have weak fairness on their own steps
(`DepositStep`, `CheckpointStep`): each loops for ever, sleeps a bounded
time and retries after every error. Transport errors and mempool
evictions are bounded (`MaxDepositErrors`, `MaxCkptErrors`,
`MaxEvictions`), so each task eventually runs error-free. Mining is weakly
fair per transaction (`Mine(k)`): a transaction in the mempool whose input
is confirmed is eventually mined. Headers reaching the sidechain are not
fair, so a deposit whose block never reaches the sidechain is not
required to be relayed. The light-client runs check only safety, so they
need no fairness.

Announcements, crashes and the clock are not fair. Nothing forces a
depositor to announce or time to pass, so an announcement also counts as
served if its sigset expires, and a deposit counts as served if its
script expires out of the index first.

## 5. Proofs

`ScriptStore_proofs.tla` proves:

* `StoreTypeCorrect`: `Spec => []StoreTypeOK`. It is an inductive
  invariant proved action by action. It rests on the lemma `AppendLines`
  about `Append`.
* `MemOnDiskHolds`: `ASSUME ~WriteCanFail PROVE Spec => []MemOnDisk`.
  `MemOnDisk` alone is not inductive: inside `open` the file has been
  truncated while the index already holds the loaded scripts. The
  strengthening `MemOnDiskInv` adds that while compacting, `scripts` is
  contained in the complete lines plus `pending`. TLC checked it as an
  invariant before it was proved.
  * `Open` makes `pending = scripts`.
  * A rewrite step moves one entry from `pending` to the file (lemma
    `AppendFileEntries`).
  * An insert appends the line it adds.
  * `remove_expired` only shrinks `scripts`.
  * Crashes make the implication vacuous.

  The assumption `~WriteCanFail` is exactly what `store_append_failure`
  shows to be necessary.
* `RemoveExactlyExpiredHolds`: `ASSUME MonotoneTimeouts PROVE Spec =>
  RemoveExactlyExpired`. The invariant it needs is `SigsetsCover`: every
  watched script's address is on its sigset's vector. `open` builds both
  from the same lines, and `insert` adds to both. The lemma
  `RemoveIsExact` says that with monotone timeouts, the prefix
  `remove_expired` visits before its `break` is the set of expired sigsets.
  Then `SigsetsCover` makes its removal exactly the expired scripts.
  `MonotoneTimeouts` is the spec's assumption (section 9), which
  `MC_ScriptStore` also assumes.
* `CompactionMirrorsHolds`: `Spec => CompactionMirrorsIndex`, with no
  assumption. The invariant `MirrorInv` says that while compacting, the
  complete lines and `pending` together are `scripts`. `open` starts it
  with an empty file, and each rewrite moves one entry across. When `open`
  returns, `pending` is empty.

`HeaderRelay_proofs.tla` proves, for every block tree that satisfies
`TreeAssumption` and `AncestryAssumption`:

* `HeaderTypeCorrect`: `Spec => []HeaderTypeOK`. This includes that a
  batch never grows past `BatchSize`.
* `CommonAncestorSound`: `Spec => []StartIsCommonAncestor`. The block
  `common_ancestor` returns is an ancestor of both hashes, even though
  the node may reorganise between any two RPC calls.

Both rest on lemmas about the tree:

* `HeightBelow`: an ancestor is never higher than the block.
* `ParentBelow`: the parent of a non-genesis ancestor is an ancestor.

Each is proved by a minimal counterexample: take the least height at
which it fails (`WFMin` over `<` on `Nat`) and derive a lower one.

The strengthening `CAInv` says:

* the node's tip is never below `fnHash`, and equals it at equal height
  (`PastTip`);
* during the walk, `a` is an ancestor of `fnHash`, and `b` of `scHash`;
* `a` is never lower than `b`;
* each snapshot with `confirmations /= -1` was taken while some block
  `T` was the tip. `T` is at least as high as `fnHash`, and the
  snapshot's confirmations measure the distance to `T` (`SnapFromTip`).

The last conjunct is what makes the confirmation shortcut sound
(lemma `ShortcutSound`). Suppose `a` is higher than `b`, and
`b.conf - 1` is their height difference. Then the tip `T` of `b`'s
snapshot has `a`'s height, which is at most that of `fnHash`. `PastTip`
then forces `T = fnHash`, so `b` is an ancestor of `fnHash`. The
shortcut with the roles swapped cannot fire, because `a` is never lower
than `b`. TLC checked `CAInv` as an
invariant on both trees before it was proved.

`Relayer_proofs.tla` proves, for every deposit set, window, bound and
tip allowed by `DepositAssumption`, `ScanAssumption`, `IdxAssumption` and
`CheckpointAssumption`:

* `RelayerTypeCorrect`: `Spec => []RelayerTypeOK`;
* `ScanCoveredHolds`: `Spec => []ScanCovered`;
* `RelayedBlockKnownHolds`: `Spec => RelayedBlockKnown`.

`ScanCovered` is not inductive. The strengthening `IInv` conjoins:

* `DepositTypeOK` and `CheckpointTypeOK`.
* `ScriptsFresh`: the index and the channel hold only announced pairs,
  and none of the channel's pairs is in the index. An eligible deposit is
  not dust and its script has left the channel, so a drain never re-inserts
  a script whose deposits were passed over.
* `ScanBounds`: `prev_tip`, the tip read and the scan's top lie under the
  sidechain's tip. The window is at least `MinScan`. The cursor stays under
  the scan's top, the unhandled outputs are matches of the cursor's block,
  and the outpoint being relayed is one of them.
* `ScanProgress`: during a scan, an eligible deposit at or below the tip
  read, neither processed nor excused, lies ahead of the cursor or among
  the current block's unhandled outputs.

The argument:

* `ScanStart` establishes `ScanProgress`. A deposit below the window's
  first block lies at least `MinScan` below the re-read tip, so it is
  excused. This holds whatever `prev_tip` was: the `.max(1100)` floor,
  not the common ancestor, is what makes the window safe.
* `NextBlock` and `CheckOutput`/`RelayDeposit` keep `ScanProgress`.
* `ScanEnd`, with the cursor at the scan's top, turns it into
  `ScanCovered` for the new `prev_tip`.
* Every error path (`Restart`) sets `prev_tip` to `None`.
* The environment only helps: a new tip makes new deposits eligible only
  above the old tip, `remove_expired` only shrinks the index (and a
  script that leaves it excuses its deposits for good, since its pair is
  never announced again), and the clock moves nothing the invariant reads
  (`ClockTickInv`).

There is one lemma per action (`DrainOneInv` ... `ClockTickInv`),
combined in `DepNextInv`. `RelayFacts` gives the outpoint
`relay_deposit` is called with: a match of the cursor's block, below the
tip and watched. It yields `RelayedBlockKnown`. TLC checked the three
properties on `MC_Relayer` before they were proved.

`LightClient_proofs.tla` proves, for every period length, committee
size, lag, genesis time and bound allowed by `LightClientAssumption`:

* `LCTypeCorrect`: `Spec => []LCTypeOK`;
* `StoreSoundHolds`: `Spec => []StoreSound`;
* `CodecRoundTripHolds`: `Spec => []CodecRoundTrip`;
* `Refinement`: `Spec => AbsRefined`, the refinement into
  `LightClientSpec`.

The inductive invariant is `IInv == LCTypeOK /\ StoreSound`. Without the
type, a committee could be `Evil`. The argument runs in three lemmas:

* `VerifyFacts`: a sound store's committees are honest, so the signature
  check forces the attested header to be canonical and signed at a past
  slot. Its branches then force the finalized header and the next
  committee to be the beacon chain's. The signature period is the store's
  period or, when a next committee is known, the one after.
* `ApplyFacts`: in each case of apply (no majority; rotation; a newer
  header without rotation; the first next committee for the same header)
  the committee periods line up with the new finalized header. This uses
  `PeriodMono`, that `\div` by the period length is monotone. The new
  finalized header is the old one or a later one of a past slot.
* `RoundTrip`: `Decode(Encode(l)) = l` for every client of the type.
  `EncodeTokens` computes the encoding field by field from
  `ConcatProperties`, through the lemma `CatIs`.

The refinement maps each verified update to `AbsFinalize` or a stutter,
`Tick` to `AbsTick`, and `FlushLoad` (by `RoundTrip`) and the panic to
stutters. TLC checked all four properties on `MC_LightClient` first.

Out of TLAPS's reach, and left to TLC:

* the liveness properties (`AnnouncedEventuallyDurable`,
  `RestartRecovers`, `Converges`, `DepositsRelayed`,
  `CheckpointsConfirmed`), which need fairness and ENABLED;
* any property of a recursive definition for every input;
* `NonEmptyBatch`, which fails (section 4).

Every safety property of a passing run has a theorem.

## 6. Not modelled, and why

* `src/src/error.rs`: an enum and its `From` conversions, with no state.
  The models tell errors apart only by the branch the code takes on them.
* The byte layouts. The codec is modelled one token per field, so what is
  checked is the order of fields and the `Option` tag. The widths, the
  `PublicKey`, `Signature` and `SyncAggregate` codecs, the hex parsing of
  `Bytes32` and the serde wrappers are pure conversions and are not
  modelled. `SyncAggregate`'s `Vec<u8>` decode reads to the end of its
  input, which a field after it would swallow; no field follows it in a
  stored `LightClient`, so it is listed as a hazard only.
* The helios verification internals: BLS aggregation, SSZ Merkle
  branches and fork-version domains. They are abstract predicates
  (`SignatureValid`, `FinalityProofValid`, `NextCommitteeProofValid`)
  stating what a valid signature or branch can and cannot prove.
* The header relay and the deposit relay use different sidechain header
  models: a tree for the header relay, a linear chain for the deposit scan.
  Deposits in a block that a reorg removes are not modelled.
* Logging and the wording of errors. Only the substring classification
  matters, and it is modelled as the branches it selects.
* The checkpoint queue's own pruning of old checkpoints. It is outside
  `src/`, so every index of `Idx` exists and no loaded line is skipped.
