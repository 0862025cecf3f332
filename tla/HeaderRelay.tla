---------------------------- MODULE HeaderRelay ----------------------------
(***************************************************************************)
(* The header relay of src/src/bitcoin/relayer.rs: start_header_relay,    *)
(* relay_headers, relay_header_batch, common_ancestor and get_header_batch *)
(* (lines 58-94 and 323-402), racing the Bitcoin full node, whose best    *)
(* chain may change between any two RPC calls, and the sidechain's header *)
(* queue.                                                                  *)
(*                                                                         *)
(* The node's block tree is fixed (the constants Blocks, Parent, Height);  *)
(* what changes is its best tip.  A header-info RPC returns a snapshot     *)
(* [blk, conf, next] of a block taken at the moment of the call:          *)
(* `confirmations` (tip height - height + 1 on the best chain, -1 off it)  *)
(* and `next_block_hash` (the best-chain child, None off the best chain   *)
(* and at the tip).  GetBlockHeaderResult derives PartialEq, so the loop  *)
(* condition `a != b` of common_ancestor compares these snapshots, not     *)
(* only the blocks.  Each RPC is one atomic step; the header bytes and     *)
(* their re-encoding, and all logging, are left out.                       *)
(***************************************************************************)
EXTENDS Naturals, Integers, Sequences

CONSTANTS
    Blocks,         \* the blocks of the node's tree (model values)
    Genesis,        \* its root: previous_block_hash is None
    Parent,         \* Parent[b]: previous_block_hash of b /= Genesis
    Height,         \* Height[b]: the block's height
    Ancestors,      \* Ancestors[b]: b and the blocks it descends from
    None,           \* an absent next_block_hash
    BatchSize,      \* HEADER_BATCH_SIZE (25 in the code)
    NodeReorgs,     \* the node's best chain may switch branch
    OtherRelayers,  \* other relayers also submit headers
    MaxRpcErrors    \* bound on the RPC errors relay_headers meets

ASSUME TreeAssumption ==
    /\ Genesis \in Blocks /\ None \notin Blocks
    /\ Parent \in [Blocks \ {Genesis} -> Blocks]
    /\ Height \in [Blocks -> Nat] /\ Height[Genesis] = 0
    /\ \A b \in Blocks \ {Genesis} : Height[b] = Height[Parent[b]] + 1

(* Ancestors is the ancestry of the tree: the equation has one solution,  *)
(* by induction on the height.                                             *)
ASSUME AncestryAssumption ==
    /\ Ancestors \in [Blocks -> SUBSET Blocks]
    /\ Ancestors[Genesis] = {Genesis}
    /\ \A b \in Blocks \ {Genesis} :
          Ancestors[b] = {b} \cup Ancestors[Parent[b]]
ASSUME BatchSizeAssumption == BatchSize \in Nat \ {0}
ASSUME HeaderFlagsAssumption ==
    /\ {NodeReorgs, OtherRelayers} \subseteq BOOLEAN
    /\ MaxRpcErrors \in Nat

VARIABLES
    tip,        \* the full node's best block
    scTip,      \* the sidechain header queue's best header, headers.hash()
    pc,         \* where relay_headers is
    fnHash,     \* fullnode_hash
    scHash,     \* sidechain_hash
    a, b,       \* common_ancestor's two header-info snapshots
    start,      \* the block common_ancestor returned
    cursor,     \* get_header_batch's cursor snapshot
    batch,      \* the headers collected by get_header_batch
    rpcErrors   \* RPC errors so far (bounded by MaxRpcErrors)

vars == <<tip, scTip, pc, fnHash, scHash, a, b, start, cursor, batch, rpcErrors>>
relayVars == <<fnHash, scHash, a, b, start, cursor, batch>>

PCs == {"best", "sidechain", "wait", "infos", "caA", "caB", "ca",
        "batchStart", "batch", "add", "panicked"}

AncestorOf(x, y) == x \in Ancestors[y]

OnBest(x) == AncestorOf(x, tip)

(* getblockheader's `confirmations` and `nextblockhash` at this moment.    *)
Conf(x) == IF OnBest(x) THEN Height[tip] - Height[x] + 1 ELSE -1

NextOnBest(x) ==
    IF \E c \in Blocks \ {Genesis} : Parent[c] = x /\ OnBest(c)
    THEN CHOOSE c \in Blocks \ {Genesis} : Parent[c] = x /\ OnBest(c)
    ELSE None

Info(x) == [blk |-> x, conf |-> Conf(x), next |-> NextOnBest(x)]

Snapshot == [blk : Blocks, conf : Int, next : Blocks \cup {None}]

(* The value of a local that is not live (relay_headers' locals between   *)
(* iterations, common_ancestor's after it returns).                        *)
NoInfo == [blk |-> Genesis, conf |-> 0, next |-> None]

HeaderTypeOK ==
    /\ tip \in Blocks /\ scTip \in Blocks
    /\ pc \in PCs
    /\ fnHash \in Blocks /\ scHash \in Blocks
    /\ a \in Snapshot /\ b \in Snapshot
    /\ start \in Blocks /\ cursor \in Snapshot
    /\ batch \in Seq(Blocks) /\ Len(batch) <= BatchSize
    /\ rpcErrors \in 0..MaxRpcErrors

-----------------------------------------------------------------------------
(* The sidechain's header queue (orga, outside this repository): a batch  *)
(* is accepted when its first header links to a header of the queue's    *)
(* best chain and the new chain has more work (here: height).             *)
Accepts(bt) ==
    /\ AncestorOf(Parent[bt[1]], scTip)
    /\ Height[bt[Len(bt)]] > Height[scTip]

Init ==
    /\ tip \in Blocks /\ scTip \in Blocks
    /\ pc = "best"
    /\ fnHash = Genesis /\ scHash = Genesis
    /\ a = NoInfo /\ b = NoInfo
    /\ start = Genesis /\ cursor = NoInfo /\ batch = <<>>
    /\ rpcErrors = 0

(* Back at the top of relay_headers' loop (or a new call of it), with its *)
(* locals dead.                                                            *)
Restart ==
    /\ pc' = "best"
    /\ fnHash' = Genesis /\ scHash' = Genesis /\ a' = NoInfo /\ b' = NoInfo
    /\ start' = Genesis /\ cursor' = NoInfo /\ batch' = <<>>

(* fullnode_hash <- get_best_block_hash().                                 *)
ReadBest ==
    /\ pc = "best"
    /\ fnHash' = tip /\ pc' = "sidechain"
    /\ UNCHANGED <<rpcErrors, tip, scTip, scHash, a, b, start, cursor, batch>>

(* sidechain_hash <- headers.hash(); equal hashes wait for a new block,    *)
(* different ones call relay_header_batch.                                 *)
ReadSidechain ==
    /\ pc = "sidechain"
    /\ scHash' = scTip
    /\ pc' = IF fnHash = scTip THEN "wait" ELSE "infos"
    /\ UNCHANGED <<rpcErrors, tip, scTip, fnHash, a, b, start, cursor, batch>>

(* wait_for_new_block(3000) returns on a new block or on its timeout; the *)
(* up-to-date report (get_block_info) changes nothing.                     *)
WaitForNewBlock ==
    /\ pc = "wait" /\ Restart
    /\ UNCHANGED <<rpcErrors, tip, scTip>>

(* Mutant: the syncing test is inverted (`>` for `<`).                    *)
CompareHeightsInverted ==
    /\ pc = "infos"
    /\ \/ Height[fnHash] > Height[scHash] /\ Restart
       \/ ~(Height[fnHash] > Height[scHash]) /\ pc' = "caA"
          /\ UNCHANGED relayVars
    /\ UNCHANGED <<rpcErrors, tip, scTip>>

(* relay_header_batch's two header infos (heights do not change): a node  *)
(* lower than the sidechain is still syncing and the call returns Ok.      *)
CompareHeights ==
    /\ pc = "infos"
    /\ \/ Height[fnHash] < Height[scHash] /\ Restart
       \/ ~(Height[fnHash] < Height[scHash]) /\ pc' = "caA"
          /\ UNCHANGED relayVars
    /\ UNCHANGED <<rpcErrors, tip, scTip>>

(* common_ancestor's first two get_block_header_info calls.               *)
FetchA ==
    /\ pc = "caA" /\ a' = Info(fnHash) /\ pc' = "caB"
    /\ UNCHANGED <<rpcErrors, tip, scTip, fnHash, scHash, b, start, cursor, batch>>

FetchB ==
    /\ pc = "caB" /\ b' = Info(scHash) /\ pc' = "ca"
    /\ UNCHANGED <<rpcErrors, tip, scTip, fnHash, scHash, a, start, cursor, batch>>

(* common_ancestor returns snapshot x.                                     *)
CAReturn(x) ==
    /\ start' = x.blk /\ pc' = "batchStart"
    /\ a' = NoInfo /\ b' = NoInfo

(* `let prev = x.previous_block_hash.unwrap()` and the re-fetch of prev:   *)
(* at the genesis block the unwrap panics and the header task dies.       *)
WalkA ==
    IF a.blk = Genesis THEN pc' = "panicked" /\ UNCHANGED <<a, b, start>>
    ELSE a' = Info(Parent[a.blk]) /\ UNCHANGED <<pc, b, start>>

WalkB ==
    IF b.blk = Genesis THEN pc' = "panicked" /\ UNCHANGED <<a, b, start>>
    ELSE b' = Info(Parent[b.blk]) /\ UNCHANGED <<pc, a, start>>

(* `(c.confirmations - 1) as usize == d`: confirmations is -1 off the best *)
(* chain, and -2 as usize is 2^64 - 2, which no height difference equals,  *)
(* so the cast comparison is the integer one.                              *)
AncestorByConf(x, y) ==
    Height[y.blk] > Height[x.blk] /\ x.conf - 1 = Height[y.blk] - Height[x.blk]

(* Mutant: the first shortcut returns the higher snapshot.                 *)
CAStepSwapped ==
    /\ pc = "ca"
    /\ \/ a = b /\ CAReturn(a)
       \/ a /= b /\ AncestorByConf(b, a) /\ CAReturn(a)
       \/ a /= b /\ ~AncestorByConf(b, a) /\ AncestorByConf(a, b) /\ CAReturn(a)
       \/ /\ a /= b /\ ~AncestorByConf(b, a) /\ ~AncestorByConf(a, b)
          /\ IF Height[a.blk] > Height[b.blk] THEN WalkA ELSE WalkB
    /\ UNCHANGED <<rpcErrors, tip, scTip, fnHash, scHash, cursor, batch>>

(* One iteration of common_ancestor's `while a != b` loop, or its exit.    *)
CAStep ==
    /\ pc = "ca"
    /\ \/ a = b /\ CAReturn(a)
       \/ a /= b /\ AncestorByConf(b, a) /\ CAReturn(b)
       \/ a /= b /\ ~AncestorByConf(b, a) /\ AncestorByConf(a, b) /\ CAReturn(a)
       \/ /\ a /= b /\ ~AncestorByConf(b, a) /\ ~AncestorByConf(a, b)
          /\ IF Height[a.blk] > Height[b.blk] THEN WalkA ELSE WalkB
    /\ UNCHANGED <<rpcErrors, tip, scTip, fnHash, scHash, cursor, batch>>

(* get_header_batch's first get_block_header_info(from_hash).              *)
BatchStart ==
    /\ pc = "batchStart"
    /\ cursor' = Info(start) /\ batch' = <<>> /\ pc' = "batch"
    /\ UNCHANGED <<rpcErrors, tip, scTip, fnHash, scHash, a, b, start>>

(* Mutant: the loop runs once more than HEADER_BATCH_SIZE (`0..=`).        *)
BatchNextPastLimit ==
    /\ pc = "batch"
    /\ Len(batch) <= BatchSize /\ cursor.next /= None
    /\ cursor' = Info(cursor.next) /\ batch' = Append(batch, cursor.next)
    /\ UNCHANGED <<rpcErrors, tip, scTip, pc, fnHash, scHash, a, b, start>>

(* One turn of the `for _ in 0..HEADER_BATCH_SIZE` loop: follow the       *)
(* cursor's next_block_hash, fetch its info and header, push the header.  *)
BatchNext ==
    /\ pc = "batch"
    /\ Len(batch) < BatchSize /\ cursor.next /= None
    /\ cursor' = Info(cursor.next) /\ batch' = Append(batch, cursor.next)
    /\ UNCHANGED <<rpcErrors, tip, scTip, pc, fnHash, scHash, a, b, start>>

(* The loop ends: HEADER_BATCH_SIZE turns done, or `None => break`.        *)
BatchEnd ==
    /\ pc = "batch"
    /\ Len(batch) = BatchSize \/ cursor.next = None
    /\ pc' = "add" /\ cursor' = NoInfo
    /\ UNCHANGED <<rpcErrors, tip, scTip, fnHash, scHash, a, b, start, batch>>

(* `batch[0]` in the log line of relay_header_batch on an empty batch:    *)
(* index out of bounds, the header task panics.                            *)
EmptyBatchPanic ==
    /\ pc = "add" /\ batch = <<>> /\ pc' = "panicked"
    /\ UNCHANGED <<rpcErrors, tip, scTip, relayVars>>

(* headers.add(batch): the queue takes the batch or returns an error; on  *)
(* Ok relay_headers loops at once, on Err start_header_relay sleeps and   *)
(* calls it again, both back at get_best_block_hash.                      *)
Submit ==
    /\ pc = "add" /\ batch /= <<>>
    /\ scTip' = IF Accepts(batch) THEN batch[Len(batch)] ELSE scTip
    /\ Restart
    /\ UNCHANGED <<rpcErrors, tip>>

(* Any RPC of relay_headers fails (at most MaxRpcErrors times, so that   *)
(* the runs can ask what happens after the errors stop): `?` returns the error to                *)
(* start_header_relay, which sleeps and starts relay_headers again.        *)
RelayRpcError ==
    /\ rpcErrors < MaxRpcErrors
    /\ rpcErrors' = rpcErrors + 1
    /\ pc \notin {"best", "panicked"}
    /\ Restart
    /\ UNCHANGED <<tip, scTip>>

(* The node's best chain moves to a block of more work (higher); without   *)
(* NodeReorgs only by extension.                                           *)
NodeNewTip(t) ==
    /\ Height[t] > Height[tip]
    /\ NodeReorgs \/ AncestorOf(tip, t)
    /\ tip' = t
    /\ UNCHANGED <<rpcErrors, scTip, pc, relayVars>>

(* Another relayer's batch lands: the sidechain moves up the node's chain. *)
OtherRelayerAdds(t) ==
    /\ OtherRelayers
    /\ AncestorOf(t, tip) /\ Height[t] > Height[scTip]
    /\ scTip' = t
    /\ UNCHANGED <<rpcErrors, tip, pc, relayVars>>

RelayStep ==
    \/ ReadBest \/ ReadSidechain \/ WaitForNewBlock \/ CompareHeights
    \/ FetchA \/ FetchB \/ CAStep \/ BatchStart \/ BatchNext \/ BatchEnd
    \/ EmptyBatchPanic \/ Submit

Next ==
    \/ RelayStep
    \/ RelayRpcError
    \/ \E t \in Blocks : NodeNewTip(t)
    \/ \E t \in Blocks : OtherRelayerAdds(t)

Spec == Init /\ [][Next]_vars

(* The header task is one loop that never blocks for ever: every RPC       *)
(* returns, so its next step is eventually taken.                          *)
LiveSpec == Spec /\ WF_vars(RelayStep)

-----------------------------------------------------------------------------
(* common_ancestor returns a block that is an ancestor of both the node's *)
(* best hash and the sidechain's hash, whatever the node's best chain did *)
(* between its RPC calls: the batch after it links to the sidechain.      *)
StartIsCommonAncestor ==
    pc \in {"batchStart", "batch", "add"} =>
        AncestorOf(start, fnHash) /\ AncestorOf(start, scHash)

(* relay_header_batch never reaches its log line's `batch[0]` with an    *)
(* empty batch: the block common_ancestor returned has a successor on the *)
(* node's best chain when get_header_batch reads it.                       *)
NonEmptyBatch == pc = "add" => batch /= <<>>

(* Unless the header task has panicked (NonEmptyBatch's subject), the     *)
(* sidechain's header chain eventually settles at the node's best tip, or  *)
(* on a chain with as much work when the node has no more: relay_headers' *)
(* immediate `continue` drains the gap batch by batch across reorgs.      *)
Converges ==
    <>[](scTip = tip \/ Height[tip] <= Height[scTip]) \/ <>(pc = "panicked")
=============================================================================
