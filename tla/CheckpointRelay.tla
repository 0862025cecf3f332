--------------------------- MODULE CheckpointRelay ---------------------------
(***************************************************************************)
(* The checkpoint task of src/src/bitcoin/relayer.rs: relay_checkpoints    *)
(* and start_checkpoint_relay, against a Bitcoin node with a mempool.      *)
(*                                                                         *)
(* Checkpoint transactions are named 1..NumCheckpoints in the order the    *)
(* sidechain completes them; completed_txs returns the completed ones in   *)
(* that order.  Each checkpoint spends the reserve output of the one       *)
(* before it, so the node accepts tx k only when tx k-1 is in its mempool  *)
(* or its chain (tx 1 spends an output that is confirmed).  The node's    *)
(* answers to send_raw_transaction follow Bitcoin Core: a tx already in   *)
(* the mempool is accepted again, a confirmed one is refused with          *)
(* "Transaction already in block chain" (or, once the next checkpoint      *)
(* spent its outputs, "bad-txns-inputs-missingorspent"), one whose input   *)
(* is unknown with "bad-txns-inputs-missingorspent".  The node may evict   *)
(* a mempool tx with its descendants, and miners confirm mempool txs.      *)
(***************************************************************************)
EXTENDS Naturals

CONSTANTS
    NumCheckpoints,   \* checkpoints the sidechain completes in a behaviour
    MaxCkptErrors,    \* bound on transport errors of the task's RPCs
    MaxEvictions      \* bound on mempool evictions

ASSUME CheckpointAssumption ==
    /\ NumCheckpoints \in Nat \ {0}
    /\ MaxCkptErrors \in Nat /\ MaxEvictions \in Nat

VARIABLES
    completed,    \* checkpoints completed on the sidechain: 1..completed
    pool,         \* the node's mempool
    chain,        \* txs confirmed on Bitcoin
    cpc,          \* "fetch": at the top of the loop; "send": in the for loop
    txsLen,       \* the length of the list completed_txs returned
    idx,          \* the next tx of that list to send
    ckptErrors,   \* transport errors so far (bounded)
    evictions     \* evictions so far (bounded)

ckptVars == <<completed, pool, chain, cpc, txsLen, idx, ckptErrors, evictions>>

Txs == 1..NumCheckpoints

CheckpointTypeOK ==
    /\ completed \in 0..NumCheckpoints
    /\ pool \subseteq Txs /\ chain \subseteq Txs
    /\ cpc \in {"fetch", "send"}
    /\ txsLen \in 0..NumCheckpoints /\ idx \in 1..NumCheckpoints + 1
    /\ ckptErrors \in 0..MaxCkptErrors /\ evictions \in 0..MaxEvictions

(* The node knows the input tx k spends.                                   *)
InputKnown(k) == k = 1 \/ k - 1 \in pool \cup chain

CheckpointInit ==
    /\ completed = 0 /\ pool = {} /\ chain = {}
    /\ cpc = "fetch" /\ txsLen = 0 /\ idx = 1
    /\ ckptErrors = 0 /\ evictions = 0

-----------------------------------------------------------------------------
(* sleep(10), then completed_txs(): the list of completed checkpoints.     *)
FetchCompleted ==
    /\ cpc = "fetch"
    /\ txsLen' = completed
    /\ idx' = 1
    /\ cpc' = "send"
    /\ UNCHANGED <<completed, pool, chain, ckptErrors, evictions>>

(* Mutant: "Transaction already in block chain" taken as a fatal error.    *)
SendTxConfirmedFatal ==
    /\ cpc = "send"
    /\ idx <= txsLen
    /\ IF idx \in chain
         THEN cpc' = "fetch" /\ UNCHANGED <<pool, idx>>
         ELSE /\ pool' = IF InputKnown(idx) THEN pool \cup {idx} ELSE pool
              /\ idx' = idx + 1
              /\ UNCHANGED cpc
    /\ UNCHANGED <<completed, chain, txsLen, ckptErrors, evictions>>

(* send_raw_transaction of the next tx.  Ok when the node takes it (or has *)
(* it in the mempool already); the two refusals the match arm lets pass    *)
(* when it is confirmed or its input is unknown.  Either way, on to the    *)
(* next tx.                                                                *)
SendTx ==
    /\ cpc = "send"
    /\ idx <= txsLen
    /\ pool' = IF idx \notin chain /\ InputKnown(idx) THEN pool \cup {idx}
                                                       ELSE pool
    /\ idx' = idx + 1
    /\ UNCHANGED <<completed, chain, cpc, txsLen, ckptErrors, evictions>>

(* The for loop is over; the outer loop sleeps and fetches again.          *)
SendDone ==
    /\ cpc = "send"
    /\ idx > txsLen
    /\ cpc' = "fetch"
    /\ UNCHANGED <<completed, pool, chain, txsLen, idx, ckptErrors, evictions>>

(* completed_txs or send_raw_transaction fails in transport: `Err(err)?`  *)
(* ends relay_checkpoints and start_checkpoint_relay calls it again.       *)
CkptRpcError ==
    /\ ckptErrors < MaxCkptErrors
    /\ ckptErrors' = ckptErrors + 1
    /\ cpc' = "fetch"
    /\ UNCHANGED <<completed, pool, chain, txsLen, idx, evictions>>

-----------------------------------------------------------------------------
(* The environment: the sidechain completes checkpoints, miners confirm   *)
(* and the node evicts.                                                    *)

CheckpointCompleted ==
    /\ completed < NumCheckpoints
    /\ completed' = completed + 1
    /\ UNCHANGED <<pool, chain, cpc, txsLen, idx, ckptErrors, evictions>>

(* A block confirms mempool tx k, whose input is confirmed.                *)
Mine(k) ==
    /\ k \in pool
    /\ k = 1 \/ k - 1 \in chain
    /\ pool' = pool \ {k}
    /\ chain' = chain \cup {k}
    /\ UNCHANGED <<completed, cpc, txsLen, idx, ckptErrors, evictions>>

(* The mempool drops tx k and the txs spending it.                         *)
Evict(k) ==
    /\ k \in pool
    /\ evictions < MaxEvictions
    /\ evictions' = evictions + 1
    /\ pool' = {j \in pool : j < k}
    /\ UNCHANGED <<completed, chain, cpc, txsLen, idx, ckptErrors>>

CheckpointStep == FetchCompleted \/ SendTx \/ SendDone

CheckpointNext ==
    \/ CheckpointStep
    \/ CkptRpcError
    \/ CheckpointCompleted
    \/ \E k \in Txs : Mine(k) \/ Evict(k)

(* The task loops for ever; a mempool tx whose input is confirmed is      *)
(* eventually mined.                                                       *)
CheckpointFairness ==
    /\ WF_ckptVars(CheckpointStep)
    /\ \A k \in Txs : WF_ckptVars(Mine(k))

-----------------------------------------------------------------------------
(* Every completed checkpoint is eventually confirmed on Bitcoin: the task *)
(* broadcasts the whole list again every iteration, so an evicted tx, or   *)
(* one refused because its input had been evicted, is sent again, and the  *)
(* refusals of confirmed txs never stop the list.                          *)
CheckpointsConfirmed ==
    \A k \in Txs : k <= completed ~> k \in chain
====
