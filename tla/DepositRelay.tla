---------------------------- MODULE DepositRelay ----------------------------
(***************************************************************************)
(* The deposit task of src/src/bitcoin/relayer.rs: relay_deposits, its     *)
(* scan (scan_for_deposits, last_n_blocks, relevant_outputs) and           *)
(* maybe_relay_deposit, restarted by start_deposit_relay after an error.   *)
(*                                                                         *)
(* The index of watched scripts is WatchedScripts; the file behind it and  *)
(* the crashes of the process are ScriptStore's part and left out here.    *)
(* The sidechain's header chain is linear and is named by heights: block   *)
(* h is the one at height h, genesis is 0.  A fork of it is HeaderRelay's  *)
(* part; along one chain common_ancestor(tip, prev) is the lower of the    *)
(* two.  A deposit is an outpoint: the block height of its transaction,    *)
(* the watched script <<addr, index>> it pays and whether the sidechain    *)
(* rejects it as dust ("Deposit amount is below minimum", "... too small  *)
(* to pay its spending fee").  The sidechain's processed_outpoints is the  *)
(* set `processed`; other relayers relay deposits too.                     *)
(***************************************************************************)
EXTENDS WatchedScripts, FiniteSets

CONSTANTS
    Deposits,       \* outpoints paying watched scripts (model values)
    DepHeight,      \* DepHeight[o]: height of the block holding o
    DepScript,      \* DepScript[o]: the <<addr, index>> whose script o pays
    DepDust,        \* DepDust[o]: the sidechain rejects o as below dust
    MinScan,        \* the 1100 of `.max(1100)`: least blocks per scan
    MaxHeight,      \* bound on the sidechain's header chain
    InitTips,       \* heights the sidechain tip may have when the task starts
    NoTip,          \* prev_tip = None
    OtherRelayers,  \* other relayers relay deposits as well
    MaxDepositErrors \* bound on the RPC errors of the deposit task

ASSUME DepositAssumption ==
    /\ DepHeight \in [Deposits -> 1..MaxHeight]
    /\ DepScript \in [Deposits -> Entry]
    /\ DepDust \in [Deposits -> BOOLEAN]
ASSUME ScanAssumption ==
    /\ MinScan \in Nat \ {0} /\ MaxHeight \in Nat
    /\ InitTips \subseteq 0..MaxHeight /\ InitTips /= {}
    /\ NoTip \notin Nat
    /\ OtherRelayers \in BOOLEAN /\ MaxDepositErrors \in Nat

VARIABLES
    chan,       \* announced pairs not yet taken by try_recv
    announced,  \* history: pairs the depositor endpoint has sent
    scTip,      \* the sidechain's header tip (headers.hash())
    processed,  \* the sidechain's processed_outpoints
    eligible,   \* history: deposits whose block reached the sidechain
                \* while their script was watched and that are not dust
    dpc,        \* where relay_deposits is
    prevTip,    \* prev_tip
    tipL,       \* the tip relay_deposits read
    numBlocks,  \* num_blocks
    scanTop,    \* the tip scan_for_deposits read again
    cursor,     \* height of the block being scanned
    todo,       \* its matching outputs not yet handled
    cur,        \* the outpoint maybe_relay_deposit is relaying
    depErrors   \* RPC errors so far (bounded)

depVars == <<chan, announced, scTip, processed, eligible, dpc, prevTip,
             tipL, numBlocks, scanTop, cursor, todo, cur, depErrors>>
depositVars == <<idxVars, depVars>>

DepositTypeOK ==
    /\ IndexTypeOK
    /\ chan \subseteq Entry /\ announced \subseteq Entry
    /\ scTip \in 0..MaxHeight
    /\ processed \subseteq Deposits /\ eligible \subseteq Deposits
    /\ dpc \in {"drain", "tip", "range", "scan", "relay"}
    /\ prevTip \in 0..MaxHeight \cup {NoTip}
    /\ {tipL, scanTop} \subseteq 0..MaxHeight
    /\ numBlocks \in Nat /\ cursor \in 0..MaxHeight
    /\ todo \subseteq Deposits /\ cur \in Deposits \cup {NoTip}
    /\ depErrors \in 0..MaxDepositErrors

(* Rust's `a.max(b)` on usize.                                            *)
AtLeast(n, m) == IF n >= m THEN n ELSE m

(* The height of common_ancestor(x, y) for two blocks of one chain.        *)
CommonAncestorHeight(x, y) == IF x <= y THEN x ELSE y

(* relevant_outputs of block h: the outputs whose script the index holds.  *)
Matches(h) ==
    {o \in Deposits : DepHeight[o] = h /\ Has(DepScript[o][1], DepScript[o][2])}

DepositInit ==
    /\ IndexInit
    /\ chan = {} /\ announced = {}
    /\ scTip \in InitTips
    /\ processed = {} /\ eligible = {}
    /\ dpc = "drain" /\ prevTip = NoTip
    /\ tipL = 0 /\ numBlocks = 0 /\ scanTop = 0 /\ cursor = 0
    /\ todo = {} /\ cur = NoTip
    /\ depErrors = 0

-----------------------------------------------------------------------------
(* insert_announced_addrs: one `try_recv` that returns a pair; the        *)
(* checkpoint lookup succeeds (its failure is ScriptStore's) and the pair  *)
(* is inserted, a no-op when the script is present.                        *)
DrainOne(e) ==
    /\ dpc = "drain"
    /\ e \in chan
    /\ chan' = chan \ {e}
    /\ IF Has(e[1], e[2]) THEN UNCHANGED idxVars ELSE Insert(e[1], e[2])
    /\ UNCHANGED <<announced, scTip, processed, eligible, dpc, prevTip, tipL,
                   numBlocks, scanTop, cursor, todo, cur, depErrors>>

(* try_recv finds the channel empty: remove_expired, then the iteration    *)
(* goes on to read the tip.                                                *)
DrainDone ==
    /\ dpc = "drain"
    /\ chan = {}
    /\ Remove
    /\ dpc' = "tip"
    /\ UNCHANGED <<chan, announced, scTip, processed, eligible, prevTip, tipL,
                   numBlocks, scanTop, cursor, todo, cur, depErrors>>

(* Back to the top of the loop after an error: start_deposit_relay logs  *)
(* it, sleeps and calls relay_deposits again, whose prev_tip is None.      *)
Restart ==
    /\ dpc' = "drain"
    /\ prevTip' = NoTip
    /\ tipL' = 0 /\ numBlocks' = 0 /\ scanTop' = 0 /\ cursor' = 0
    /\ todo' = {} /\ cur' = NoTip

(* Mutant: `prev == tip` without `prev_tip.is_some()`; prev is           *)
(* prev_tip.unwrap_or(tip), so a fresh start always `continue`s.           *)
ReadTipNoIsSome ==
    /\ dpc = "tip"
    /\ LET prev == IF prevTip = NoTip THEN scTip ELSE prevTip
       IN  IF prev = scTip
             THEN /\ dpc' = "drain"
                  /\ UNCHANGED <<tipL, numBlocks>>
             ELSE /\ tipL' = scTip
                  /\ numBlocks' =
                        AtLeast(scTip - CommonAncestorHeight(scTip, prev), MinScan)
                  /\ dpc' = "range"
    /\ UNCHANGED <<idxVars, chan, announced, scTip, processed, eligible,
                   prevTip, scanTop, cursor, todo, cur, depErrors>>

(* sidechain_block_hash; when prev_tip is Some(tip) the loop `continue`s. *)
(* Otherwise common_ancestor(tip, prev) and get_block_header_info(tip)    *)
(* give num_blocks = (end_height - start_height).max(1100).               *)
ReadTip ==
    /\ dpc = "tip"
    /\ IF prevTip = scTip
         THEN /\ dpc' = "drain"
              /\ UNCHANGED <<tipL, numBlocks>>
         ELSE LET prev == IF prevTip = NoTip THEN scTip ELSE prevTip
              IN  /\ tipL' = scTip
                  /\ numBlocks' =
                        AtLeast(scTip - CommonAncestorHeight(scTip, prev), MinScan)
                  /\ dpc' = "range"
    /\ UNCHANGED <<idxVars, chan, announced, scTip, processed, eligible,
                   prevTip, scanTop, cursor, todo, cur, depErrors>>

(* Mutant: last_n_blocks fetches one block fewer than num_blocks, so the  *)
(* scan starts a block late.                                               *)
ScanStartOneLate ==
    /\ dpc = "range"
    /\ numBlocks <= scTip + 1
    /\ scanTop' = scTip
    /\ cursor' = scTip + 2 - numBlocks
    /\ todo' = Matches(scTip + 2 - numBlocks)
    /\ dpc' = "scan"
    /\ UNCHANGED <<idxVars, chan, announced, scTip, processed, eligible,
                   prevTip, tipL, numBlocks, cur, depErrors>>

(* scan_for_deposits reads the tip again and last_n_blocks fetches the    *)
(* num_blocks blocks ending there; the loop then visits them oldest first. *)
ScanStart ==
    /\ dpc = "range"
    /\ numBlocks <= scTip + 1
    /\ scanTop' = scTip
    /\ cursor' = scTip + 1 - numBlocks
    /\ todo' = Matches(scTip + 1 - numBlocks)
    /\ dpc' = "scan"
    /\ UNCHANGED <<idxVars, chan, announced, scTip, processed, eligible,
                   prevTip, tipL, numBlocks, cur, depErrors>>

(* last_n_blocks on a chain shorter than num_blocks: after the genesis    *)
(* block, get_block of its all-zero prev_blockhash fails.                  *)
ScanPastGenesis ==
    /\ dpc = "range"
    /\ numBlocks > scTip + 1
    /\ Restart
    /\ UNCHANGED <<idxVars, chan, announced, scTip, processed, eligible,
                   depErrors>>

(* maybe_relay_deposit: processed_outpoints.contains; a processed outpoint *)
(* is skipped.                                                             *)
CheckOutput(o) ==
    /\ dpc = "scan"
    /\ o \in todo
    /\ IF o \in processed
         THEN /\ todo' = todo \ {o}
              /\ UNCHANGED <<dpc, cur>>
         ELSE /\ cur' = o
              /\ dpc' = "relay"
              /\ UNCHANGED todo
    /\ UNCHANGED <<idxVars, chan, announced, scTip, processed, eligible,
                   prevTip, tipL, numBlocks, scanTop, cursor, depErrors>>

(* get_tx_out_proof, then relay_deposit.  The sidechain refuses an        *)
(* outpoint another relayer got in since the check; that error is not one *)
(* of the two dust messages, so `res?` ends relay_deposits.  A dust       *)
(* deposit is refused and skipped; any other is processed.                 *)
RelayDeposit ==
    /\ dpc = "relay"
    /\ \/ /\ cur \in processed
          /\ Restart
          /\ UNCHANGED processed
       \/ /\ cur \notin processed
          /\ processed' = IF DepDust[cur] THEN processed ELSE processed \cup {cur}
          /\ todo' = todo \ {cur}
          /\ cur' = NoTip
          /\ dpc' = "scan"
          /\ UNCHANGED <<prevTip, tipL, numBlocks, scanTop, cursor>>
    /\ UNCHANGED <<idxVars, chan, announced, scTip, eligible, depErrors>>

(* Mutant: the scan goes one block past the tip it read.                  *)
NextBlockPastTop ==
    /\ dpc = "scan"
    /\ todo = {}
    /\ cursor <= scanTop
    /\ cursor' = cursor + 1
    /\ todo' = Matches(cursor + 1)
    /\ UNCHANGED <<idxVars, chan, announced, scTip, processed, eligible, dpc,
                   prevTip, tipL, numBlocks, scanTop, cur, depErrors>>

(* The next block of the scan.                                             *)
NextBlock ==
    /\ dpc = "scan"
    /\ todo = {}
    /\ cursor < scanTop
    /\ cursor' = cursor + 1
    /\ todo' = Matches(cursor + 1)
    /\ UNCHANGED <<idxVars, chan, announced, scTip, processed, eligible, dpc,
                   prevTip, tipL, numBlocks, scanTop, cur, depErrors>>

(* The scan is over: prev_tip = Some(tip), the tip relay_deposits read.   *)
ScanEnd ==
    /\ dpc = "scan"
    /\ todo = {}
    /\ cursor = scanTop
    /\ prevTip' = tipL
    /\ dpc' = "drain"
    /\ tipL' = 0 /\ numBlocks' = 0 /\ scanTop' = 0 /\ cursor' = 0
    /\ UNCHANGED <<idxVars, chan, announced, scTip, processed, eligible, todo,
                   cur, depErrors>>

(* Any RPC of the iteration fails in transport.                            *)
DepositRpcError ==
    /\ dpc \in {"tip", "range", "scan", "relay"}
    /\ depErrors < MaxDepositErrors
    /\ depErrors' = depErrors + 1
    /\ Restart
    /\ UNCHANGED <<idxVars, chan, announced, scTip, processed, eligible>>

-----------------------------------------------------------------------------
(* The environment: the depositor endpoint, the header relay and other    *)
(* relayers.                                                               *)

AnnounceDeposit(e) ==
    /\ e \notin announced
    /\ chan' = chan \cup {e}
    /\ announced' = announced \cup {e}
    /\ UNCHANGED <<idxVars, scTip, processed, eligible, dpc, prevTip, tipL,
                   numBlocks, scanTop, cursor, todo, cur, depErrors>>

(* headers.add of one or more headers moves the sidechain tip to t.        *)
HeadersAdded(t) ==
    /\ scTip < t
    /\ scTip' = t
    /\ eligible' = eligible \cup
         {o \in Deposits : /\ scTip < DepHeight[o] /\ DepHeight[o] <= t
                           /\ Has(DepScript[o][1], DepScript[o][2])
                           /\ ~DepDust[o]}
    /\ UNCHANGED <<idxVars, chan, announced, processed, dpc, prevTip, tipL,
                   numBlocks, scanTop, cursor, todo, cur, depErrors>>

(* The wall clock time_now() moves on; remove_expired reads it.           *)
ClockTick ==
    /\ Tick
    /\ UNCHANGED depVars

OtherRelayerRelays(o) ==
    /\ OtherRelayers
    /\ o \notin processed /\ ~DepDust[o]
    /\ DepHeight[o] <= scTip /\ DepScript[o] \in announced
    /\ processed' = processed \cup {o}
    /\ UNCHANGED <<idxVars, chan, announced, scTip, eligible, dpc, prevTip,
                   tipL, numBlocks, scanTop, cursor, todo, cur, depErrors>>

(* The steps of the deposit task itself.                                   *)
DepositStep ==
    \/ \E e \in Entry : DrainOne(e)
    \/ DrainDone
    \/ ReadTip
    \/ ScanStart
    \/ ScanPastGenesis
    \/ \E o \in Deposits : CheckOutput(o)
    \/ RelayDeposit
    \/ NextBlock
    \/ ScanEnd

DepositNext ==
    \/ DepositStep
    \/ DepositRpcError
    \/ \E e \in Entry : AnnounceDeposit(e)
    \/ \E t \in 0..MaxHeight : HeadersAdded(t)
    \/ \E o \in Deposits : OtherRelayerRelays(o)
    \/ ClockTick

(* The task loops for ever and retries after every error.  Nothing is     *)
(* assumed of the header relay: the sidechain's tip may stop anywhere.     *)
DepositFairness == WF_depositVars(DepositStep)

-----------------------------------------------------------------------------
(* Every deposit whose block reaches the sidechain while its script is    *)
(* watched is eventually processed, unless the sidechain's tip first runs *)
(* MinScan blocks past it or remove_expired first drops its script: the   *)
(* num_blocks window, kept across iterations by prev_tip and reset by an  *)
(* error, misses nothing nearer the tip while the script is watched.       *)
DepositsRelayed ==
    \A o \in Deposits :
        o \in eligible ~>
            \/ o \in processed
            \/ DepHeight[o] + MinScan <= scTip
            \/ ~Has(DepScript[o][1], DepScript[o][2])

(* Safety of the scan window: whenever prev_tip is Some(t), every deposit *)
(* that became eligible at a height at or below t has been processed,     *)
(* unless the sidechain's tip has since run MinScan blocks past it or its *)
(* script has expired out of the index.  The scan of relay_deposits, with *)
(* the tip scan_for_deposits read again and the `.max(1100)` floor, and   *)
(* prev_tip = Some(tip) set only after a full scan, miss nothing else.    *)
ScanCovered ==
    prevTip /= NoTip =>
        \A o \in eligible :
            DepHeight[o] <= prevTip =>
                \/ o \in processed
                \/ DepHeight[o] + MinScan <= scTip
                \/ ~Has(DepScript[o][1], DepScript[o][2])

(* maybe_relay_deposit calls relay_deposit only for an outpoint of a block *)
(* the sidechain's header chain holds and whose script the index watches: *)
(* the scan never passes the tip it read, and that tip is never above the *)
(* sidechain's.                                                            *)
RelayedBlockKnown ==
    [][RelayDeposit /\ cur \notin processed =>
         /\ DepHeight[cur] <= scTip
         /\ Has(DepScript[cur][1], DepScript[cur][2])]_depositVars
====
