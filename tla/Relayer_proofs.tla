---------------------------- MODULE Relayer_proofs ----------------------------
(***************************************************************************)
(* Proofs about the relayer's deposit and checkpoint tasks (Relayer) for   *)
(* every value of the constants: the type invariant of both tasks, that    *)
(* the deposit scan misses no deposit at or below prev_tip beyond the      *)
(* excuses of the 1100-block window and of expiry (ScanCovered), and that  *)
(* relay_deposit is only called for an outpoint of a block the sidechain   *)
(* has and of a watched script (RelayedBlockKnown).                        *)
(***************************************************************************)
EXTENDS Relayer, TLAPS

(* The index watches the script deposit o pays.                            *)
Watched(o) == Has(DepScript[o][1], DepScript[o][2])

(* Every pair the index holds, and every one in the channel, came from the *)
(* depositor endpoint; none in the channel is in the index yet; an         *)
(* eligible deposit is not dust and its script was announced and has left *)
(* the channel, so it is never inserted again.                             *)
ScriptsFresh ==
    /\ scripts \subseteq announced /\ chan \subseteq announced
    /\ chan \cap scripts = {}
    /\ \A o \in eligible :
          /\ ~DepDust[o]
          /\ DepScript[o] \in announced /\ DepScript[o] \notin chan

(* The heights relay_deposits works with lie under the sidechain's tip;   *)
(* the window is at least MinScan blocks; the block being scanned lies    *)
(* under the tip scan_for_deposits read, its unhandled outputs are         *)
(* matches of it, and the outpoint being relayed is one of them.           *)
ScanBounds ==
    /\ prevTip /= NoTip => prevTip <= scTip
    /\ dpc \in {"range", "scan", "relay"} => tipL <= scTip /\ MinScan <= numBlocks
    /\ dpc \in {"scan", "relay"} =>
          /\ tipL <= scanTop /\ scanTop <= scTip /\ cursor <= scanTop
          /\ todo \subseteq Matches(cursor)
    /\ dpc = "relay" => cur \in todo

(* During a scan, every eligible deposit at or below the tip relay_deposits *)
(* read that is neither processed nor excused lies ahead of the cursor or *)
(* among the outputs of the current block still to handle.                 *)
ScanProgress ==
    dpc \in {"scan", "relay"} =>
        \A o \in eligible :
            DepHeight[o] <= tipL =>
                \/ o \in processed
                \/ DepHeight[o] + MinScan <= scTip
                \/ ~Watched(o)
                \/ cursor < DepHeight[o]
                \/ o \in todo

(* The inductive invariant of the deposit task.                            *)
DepInv == DepositTypeOK /\ ScriptsFresh /\ ScanBounds /\ ScanProgress /\ ScanCovered

USE DepositAssumption, ScanAssumption, IdxAssumption

(* An entry is the pair of its components.                                 *)
LEMMA EntryEta ==
    ASSUME NEW e \in Entry
    PROVE  <<e[1], e[2]>> = e
BY DEF Entry

(* Has of a deposit's script is membership of the script itself.           *)
LEMMA WatchedIs ==
    ASSUME NEW S, NEW o \in Deposits
    PROVE  (<<DepScript[o][1], DepScript[o][2]>> \in S) <=> (DepScript[o] \in S)
<1>1. DepScript[o] \in Entry
  OBVIOUS
<1>. QED BY <1>1, EntryEta

-----------------------------------------------------------------------------
LEMMA DepInit == DepositInit => DepInv
<1> SUFFICES ASSUME DepositInit PROVE DepInv
  OBVIOUS
<1>1. DepositTypeOK
  BY MaxTimeAssumption
     DEF DepositInit, IndexInit, DepositTypeOK, IndexTypeOK
<1>. QED BY <1>1 DEF DepInv, DepositInit, IndexInit, ScriptsFresh, ScanBounds,
                     ScanProgress, ScanCovered

LEMMA DrainOneInv ==
    ASSUME DepInv, NEW e \in Entry, DrainOne(e)
    PROVE  DepInv'
<1>1. e \in chan /\ e \in announced /\ e \notin scripts
  BY DEF DrainOne, DepInv, ScriptsFresh
<1>2. scripts' = scripts \cup {e}
  <2>1. CASE Has(e[1], e[2])
    BY <2>1, <1>1, EntryEta DEF Has
  <2>2. CASE ~Has(e[1], e[2])
    BY <2>2, EntryEta DEF DrainOne, Insert, InsertNew
  <2>. QED BY <2>1, <2>2
<1>3. IndexTypeOK'
  BY DEF DrainOne, Insert, InsertNew, idxVars, DepInv, DepositTypeOK,
         IndexTypeOK, Entry
<1>4. DepositTypeOK'
  BY <1>3 DEF DrainOne, DepInv, DepositTypeOK
<1>5. ScriptsFresh'
  BY <1>1, <1>2 DEF DrainOne, DepInv, ScriptsFresh
<1>6. \A o \in eligible : Watched(o)' <=> Watched(o)
  <2> SUFFICES ASSUME NEW o \in eligible PROVE Watched(o)' <=> Watched(o)
    OBVIOUS
  <2>1. o \in Deposits /\ DepScript[o] /= e
    BY <1>1 DEF DepInv, DepositTypeOK, ScriptsFresh
  <2>2. Watched(o)' <=> DepScript[o] \in scripts'
    BY <2>1, WatchedIs DEF Watched, Has
  <2>3. Watched(o) <=> DepScript[o] \in scripts
    BY <2>1, WatchedIs DEF Watched, Has
  <2>. QED BY <2>1, <2>2, <2>3, <1>2
<1>7. ScanCovered'
  BY <1>6 DEF DrainOne, DepInv, ScanCovered, Watched
<1>8. (ScanBounds /\ ScanProgress)'
  BY DEF DrainOne, DepInv, ScanBounds, ScanProgress
<1>. QED BY <1>4, <1>5, <1>7, <1>8 DEF DepInv

LEMMA DrainDoneInv ==
    ASSUME DepInv, DrainDone
    PROVE  DepInv'
<1>1. scripts' \subseteq scripts
  BY DEF DrainDone, Remove, RemoveExpired
<1>2. \A o \in eligible : Watched(o)' => Watched(o)
  BY <1>1 DEF Watched, Has
<1>3. DepositTypeOK'
  BY <1>1 DEF DrainDone, Remove, DepInv, DepositTypeOK, IndexTypeOK
<1>4. ScriptsFresh'
  BY <1>1 DEF DrainDone, Remove, DepInv, ScriptsFresh
<1>5. ScanCovered'
  BY <1>2 DEF DrainDone, Remove, DepInv, ScanCovered, Watched
<1>6. (ScanBounds /\ ScanProgress)'
  BY DEF DrainDone, DepInv, ScanBounds, ScanProgress
<1>. QED BY <1>3, <1>4, <1>5, <1>6 DEF DepInv

(* Every error path of the iteration ends in Restart: prev_tip is None.    *)
LEMMA RestartInv ==
    ASSUME DepInv, Restart,
           UNCHANGED <<idxVars, chan, announced, scTip, processed, eligible>>,
           depErrors' \in 0..MaxDepositErrors
    PROVE  DepInv'
<1>1. DepositTypeOK'
  BY DEF Restart, DepInv, DepositTypeOK, IndexTypeOK, idxVars
<1>2. ScriptsFresh'
  BY DEF idxVars, DepInv, ScriptsFresh
<1>. QED BY <1>1, <1>2 DEF Restart, DepInv, ScanBounds, ScanProgress,
                           ScanCovered

LEMMA ReadTipInv ==
    ASSUME DepInv, ReadTip
    PROVE  DepInv'
<1>1. CASE prevTip = scTip
  BY <1>1 DEF ReadTip, DepInv, DepositTypeOK, IndexTypeOK, ScriptsFresh,
              ScanBounds, ScanProgress, ScanCovered, Watched, Has, idxVars
<1>2. CASE prevTip /= scTip
  <2> DEFINE prev == IF prevTip = NoTip THEN scTip ELSE prevTip
  <2>1. prev \in 0..scTip
    BY DEF DepInv, DepositTypeOK, ScanBounds
  <2>2. /\ tipL' = scTip /\ dpc' = "range"
        /\ numBlocks' = AtLeast(scTip - CommonAncestorHeight(scTip, prev), MinScan)
    BY <1>2 DEF ReadTip
  <2>3. numBlocks' \in Nat /\ MinScan <= numBlocks'
    BY <2>1, <2>2 DEF DepInv, DepositTypeOK, AtLeast, CommonAncestorHeight
  <2>4. DepositTypeOK'
    BY <2>2, <2>3 DEF ReadTip, DepInv, DepositTypeOK, IndexTypeOK, idxVars
  <2>5. (ScriptsFresh /\ ScanCovered)'
    BY DEF ReadTip, DepInv, ScriptsFresh, ScanCovered, Watched, Has, idxVars
  <2>6. ScanBounds'
    BY <2>2, <2>3 DEF ReadTip, DepInv, DepositTypeOK, ScanBounds
  <2>7. ScanProgress'
    BY <2>2 DEF ScanProgress
  <2>. QED BY <2>4, <2>5, <2>6, <2>7 DEF DepInv
<1>. QED BY <1>1, <1>2

LEMMA ScanStartInv ==
    ASSUME DepInv, ScanStart
    PROVE  DepInv'
<1> DEFINE start == scTip + 1 - numBlocks
<1>1. /\ numBlocks \in Nat /\ MinScan <= numBlocks /\ tipL <= scTip
      /\ scTip \in 0..MaxHeight /\ numBlocks <= scTip + 1
  BY DEF ScanStart, DepInv, DepositTypeOK, ScanBounds
<1>2. start \in 0..scTip
  BY <1>1
<1>3. /\ cursor' = start /\ todo' = Matches(start) /\ scanTop' = scTip
      /\ dpc' = "scan"
  BY DEF ScanStart
<1>4. DepositTypeOK'
  <2>1. todo' \subseteq Deposits
    BY <1>3 DEF Matches
  <2>. QED BY <1>1, <1>2, <1>3, <2>1
           DEF ScanStart, DepInv, DepositTypeOK, IndexTypeOK, idxVars
<1>5. (ScriptsFresh /\ ScanCovered)'
  BY DEF ScanStart, DepInv, ScriptsFresh, ScanCovered, Watched, Has, idxVars
<1>6. ScanBounds'
  <2>1. Matches(start) = Matches(cursor)'
    BY <1>3 DEF ScanStart, Matches, Has, idxVars
  <2>. QED BY <1>1, <1>2, <1>3, <2>1 DEF ScanStart, DepInv, ScanBounds
<1>7. ScanProgress'
  <2> SUFFICES ASSUME NEW o \in eligible', DepHeight[o] <= tipL',
                      ~(o \in processed'), ~(DepHeight[o] + MinScan <= scTip'),
                      Watched(o)', ~(cursor' < DepHeight[o])
               PROVE  o \in todo'
    BY <1>3 DEF ScanProgress
  <2>1. o \in Deposits /\ DepHeight[o] \in Nat
    BY DEF ScanStart, DepInv, DepositTypeOK
  <2>2. DepHeight[o] = start
    BY <1>1, <1>3, <2>1 DEF ScanStart
  <2>3. Watched(o)
    BY DEF ScanStart, Watched, Has, idxVars
  <2>. QED BY <1>3, <2>1, <2>2, <2>3 DEF Matches, Watched
<1>. QED BY <1>4, <1>5, <1>6, <1>7 DEF DepInv

LEMMA CheckOutputInv ==
    ASSUME DepInv, NEW o \in Deposits, CheckOutput(o)
    PROVE  DepInv'
<1>1. (DepositTypeOK /\ ScriptsFresh /\ ScanCovered)'
  BY DEF CheckOutput, DepInv, DepositTypeOK, IndexTypeOK, ScriptsFresh,
         ScanCovered, Has, idxVars
<1>2. Matches(cursor)' = Matches(cursor)
  BY DEF CheckOutput, Matches, Has, idxVars
<1>3. CASE o \in processed
  <2>1. ScanBounds'
    BY <1>2, <1>3 DEF CheckOutput, DepInv, DepositTypeOK, ScanBounds
  <2>2. ScanProgress'
    BY <1>3 DEF CheckOutput, DepInv, ScanProgress, Watched, Has, idxVars
  <2>. QED BY <1>1, <2>1, <2>2 DEF DepInv
<1>4. CASE o \notin processed
  <2>1. ScanBounds'
    BY <1>2, <1>4 DEF CheckOutput, DepInv, DepositTypeOK, ScanBounds
  <2>2. ScanProgress'
    BY <1>4 DEF CheckOutput, DepInv, ScanProgress, Watched, Has, idxVars
  <2>. QED BY <1>1, <2>1, <2>2 DEF DepInv
<1>. QED BY <1>3, <1>4

LEMMA RelayDepositInv ==
    ASSUME DepInv, RelayDeposit
    PROVE  DepInv'
<1>1. CASE cur \in processed /\ Restart /\ UNCHANGED processed
  BY <1>1, RestartInv DEF RelayDeposit, DepInv, DepositTypeOK
<1>2. CASE /\ cur \notin processed
           /\ processed' = IF DepDust[cur] THEN processed ELSE processed \cup {cur}
           /\ todo' = todo \ {cur}
           /\ cur' = NoTip
           /\ dpc' = "scan"
           /\ UNCHANGED <<prevTip, tipL, numBlocks, scanTop, cursor>>
  <2>1. cur \in Deposits /\ cur \in todo
    BY DEF RelayDeposit, DepInv, DepositTypeOK, ScanBounds
  <2>2. processed \subseteq processed' /\ processed' \subseteq Deposits
    BY <1>2, <2>1 DEF DepInv, DepositTypeOK
  <2>3. (DepositTypeOK /\ ScriptsFresh)'
    BY <1>2, <2>2 DEF RelayDeposit, DepInv, DepositTypeOK, IndexTypeOK,
                      ScriptsFresh, idxVars
  <2>4. ScanCovered'
    BY <1>2, <2>2 DEF RelayDeposit, DepInv, ScanCovered, Has, idxVars
  <2>5. ScanBounds'
    BY <1>2, <2>1 DEF RelayDeposit, DepInv, DepositTypeOK, ScanBounds,
                      Matches, Has, idxVars
  <2>6. ScanProgress'
    <3> SUFFICES ASSUME NEW d \in eligible', DepHeight[d] <= tipL',
                        ~(d \in processed'), ~(DepHeight[d] + MinScan <= scTip'),
                        Watched(d)', ~(cursor' < DepHeight[d])
                 PROVE  d \in todo'
      BY <1>2 DEF ScanProgress
    <3>1. d \in eligible /\ d \notin processed
      BY <2>2 DEF RelayDeposit
    <3>2. d /= cur
      BY <1>2, <3>1 DEF RelayDeposit, DepInv, ScriptsFresh
    <3>3. d \in todo
      BY <1>2, <3>1 DEF RelayDeposit, DepInv, ScanProgress, Watched, Has,
                        idxVars
    <3>. QED BY <1>2, <3>2, <3>3
  <2>. QED BY <2>3, <2>4, <2>5, <2>6 DEF DepInv
<1>. QED BY <1>1, <1>2 DEF RelayDeposit

LEMMA NextBlockInv ==
    ASSUME DepInv, NextBlock
    PROVE  DepInv'
<1>1. cursor \in Nat /\ cursor < scanTop /\ scanTop <= MaxHeight
  BY DEF NextBlock, DepInv, DepositTypeOK, ScanBounds
<1>2. Matches(cursor + 1) = Matches(cursor)'
  BY DEF NextBlock, Matches, Has, idxVars
<1>3. DepositTypeOK'
  <2>1. todo' \subseteq Deposits
    BY DEF NextBlock, Matches
  <2>. QED BY <1>1, <2>1 DEF NextBlock, DepInv, DepositTypeOK, IndexTypeOK,
                             idxVars
<1>4. (ScriptsFresh /\ ScanCovered)'
  BY DEF NextBlock, DepInv, ScriptsFresh, ScanCovered, Has, idxVars
<1>5. ScanBounds'
  BY <1>1, <1>2 DEF NextBlock, DepInv, DepositTypeOK, ScanBounds
<1>6. ScanProgress'
  <2> SUFFICES ASSUME NEW o \in eligible', DepHeight[o] <= tipL',
                      ~(o \in processed'), ~(DepHeight[o] + MinScan <= scTip'),
                      Watched(o)', ~(cursor' < DepHeight[o])
               PROVE  o \in todo'
    BY DEF NextBlock, ScanProgress
  <2>1. o \in Deposits /\ DepHeight[o] \in Nat
    BY DEF NextBlock, DepInv, DepositTypeOK
  <2>2. Watched(o) /\ cursor < DepHeight[o]
    BY DEF NextBlock, DepInv, ScanProgress, Watched, Has, idxVars
  <2>3. DepHeight[o] = cursor + 1
    BY <1>1, <2>1, <2>2 DEF NextBlock
  <2>. QED BY <2>1, <2>2, <2>3 DEF NextBlock, Matches, Watched
<1>. QED BY <1>3, <1>4, <1>5, <1>6 DEF DepInv

LEMMA ScanEndInv ==
    ASSUME DepInv, ScanEnd
    PROVE  DepInv'
<1>1. tipL \in 0..MaxHeight /\ tipL <= scTip /\ tipL <= cursor
  BY DEF ScanEnd, DepInv, DepositTypeOK, ScanBounds
<1>2. DepositTypeOK'
  BY <1>1 DEF ScanEnd, DepInv, DepositTypeOK, IndexTypeOK, idxVars
<1>3. (ScriptsFresh /\ ScanBounds /\ ScanProgress)'
  BY <1>1 DEF ScanEnd, DepInv, ScriptsFresh, ScanBounds, ScanProgress, idxVars
<1>4. ScanCovered'
  <2> SUFFICES ASSUME NEW o \in eligible', DepHeight[o] <= prevTip',
                      ~(o \in processed'), ~(DepHeight[o] + MinScan <= scTip'),
                      Has(DepScript[o][1], DepScript[o][2])'
               PROVE  FALSE
    BY DEF ScanCovered
  <2>1. o \in Deposits /\ DepHeight[o] \in Nat /\ DepHeight[o] <= tipL
    BY DEF ScanEnd, DepInv, DepositTypeOK
  <2>2. /\ o \in eligible /\ o \notin processed /\ Watched(o)
        /\ ~(DepHeight[o] + MinScan <= scTip)
    BY DEF ScanEnd, Watched, Has, idxVars
  <2>3. ~(cursor < DepHeight[o]) /\ o \notin todo
    BY <1>1, <2>1 DEF ScanEnd, DepInv, DepositTypeOK
  <2>4. dpc \in {"scan", "relay"}
    BY DEF ScanEnd
  <2>. QED BY <2>1, <2>2, <2>3, <2>4 DEF DepInv, ScanProgress
<1>. QED BY <1>2, <1>3, <1>4 DEF DepInv

LEMMA AnnounceInv ==
    ASSUME DepInv, NEW e \in Entry, AnnounceDeposit(e)
    PROVE  DepInv'
<1>1. e \notin scripts /\ \A o \in eligible : DepScript[o] /= e
  BY DEF AnnounceDeposit, DepInv, ScriptsFresh
<1>2. ScriptsFresh'
  BY <1>1 DEF AnnounceDeposit, DepInv, ScriptsFresh, idxVars
<1>3. DepositTypeOK'
  BY DEF AnnounceDeposit, DepInv, DepositTypeOK, IndexTypeOK, idxVars
<1>4. (ScanBounds /\ ScanProgress /\ ScanCovered)'
  BY DEF AnnounceDeposit, DepInv, ScanBounds, ScanProgress, ScanCovered,
         Matches, Watched, Has, idxVars
<1>. QED BY <1>2, <1>3, <1>4 DEF DepInv

LEMMA HeadersAddedInv ==
    ASSUME DepInv, NEW t \in 0..MaxHeight, HeadersAdded(t)
    PROVE  DepInv'
<1> DEFINE New == eligible' \ eligible
<1>1. \A o \in New : /\ o \in Deposits /\ scTip < DepHeight[o]
                     /\ Watched(o) /\ ~DepDust[o]
  BY DEF HeadersAdded, Watched
<1>2. \A o \in New : DepScript[o] \in scripts
  BY <1>1, WatchedIs DEF Watched, Has
<1>3. scTip \in Nat /\ scTip < scTip'
  BY DEF HeadersAdded, DepInv, DepositTypeOK
<1>4. DepositTypeOK'
  BY DEF HeadersAdded, DepInv, DepositTypeOK, IndexTypeOK, idxVars
<1>5. ScriptsFresh'
  BY <1>1, <1>2 DEF HeadersAdded, DepInv, ScriptsFresh, idxVars
<1>6. ScanBounds'
  BY <1>3 DEF HeadersAdded, DepInv, DepositTypeOK, ScanBounds, Matches, Has,
              idxVars
<1>7. ScanProgress'
  <2> SUFFICES ASSUME dpc' \in {"scan", "relay"}, NEW o \in eligible',
                      DepHeight[o] <= tipL',
                      ~(o \in processed'), ~(DepHeight[o] + MinScan <= scTip'),
                      Watched(o)', ~(cursor' < DepHeight[o])
               PROVE  o \in todo'
    BY DEF ScanProgress
  <2>1. o \notin New
    BY <1>1 DEF HeadersAdded, DepInv, DepositTypeOK, ScanBounds
  <2>2. o \in Deposits /\ DepHeight[o] \in Nat
    BY DEF HeadersAdded, DepInv, DepositTypeOK
  <2>3. ~(DepHeight[o] + MinScan <= scTip)
    BY <1>3, <2>2 DEF HeadersAdded
  <2>. QED BY <2>1, <2>3 DEF HeadersAdded, DepInv, ScanProgress, Watched, Has,
                             idxVars
<1>8. ScanCovered'
  <2> SUFFICES ASSUME prevTip' /= NoTip, NEW o \in eligible',
                      DepHeight[o] <= prevTip',
                      ~(o \in processed'), ~(DepHeight[o] + MinScan <= scTip'),
                      Has(DepScript[o][1], DepScript[o][2])'
               PROVE  FALSE
    BY DEF ScanCovered
  <2>1. o \notin New
    BY <1>1 DEF HeadersAdded, DepInv, DepositTypeOK, ScanBounds
  <2>2. o \in Deposits /\ DepHeight[o] \in Nat
    BY DEF HeadersAdded, DepInv, DepositTypeOK
  <2>3. ~(DepHeight[o] + MinScan <= scTip)
    BY <1>3, <2>2 DEF HeadersAdded
  <2>. QED BY <2>1, <2>3 DEF HeadersAdded, DepInv, ScanCovered, Has, idxVars
<1>. QED BY <1>4, <1>5, <1>6, <1>7, <1>8 DEF DepInv

LEMMA OtherRelaysInv ==
    ASSUME DepInv, NEW d \in Deposits, OtherRelayerRelays(d)
    PROVE  DepInv'
<1>1. DepositTypeOK'
  BY DEF OtherRelayerRelays, DepInv, DepositTypeOK, IndexTypeOK, idxVars
<1>2. (ScriptsFresh /\ ScanBounds)'
  BY DEF OtherRelayerRelays, DepInv, ScriptsFresh, ScanBounds, Matches, Has,
         idxVars
<1>3. (ScanProgress /\ ScanCovered)'
  BY DEF OtherRelayerRelays, DepInv, ScanProgress, ScanCovered, Watched, Has,
         idxVars
<1>. QED BY <1>1, <1>2, <1>3 DEF DepInv

(* The clock moves nothing the invariant reads but its own value.          *)
LEMMA ClockTickInv ==
    ASSUME DepInv, ClockTick
    PROVE  DepInv'
<1>1. DepositTypeOK'
  BY MaxTimeAssumption DEF ClockTick, Tick, DepInv, DepositTypeOK, IndexTypeOK, depVars
<1>2. (ScriptsFresh /\ ScanBounds /\ ScanProgress /\ ScanCovered)'
  BY DEF ClockTick, Tick, DepInv, ScriptsFresh, ScanBounds, ScanProgress,
         ScanCovered, Matches, Watched, Has, depVars
<1>. QED BY <1>1, <1>2 DEF DepInv

(* DepInv is preserved by every step of the deposit task and of its        *)
(* environment.                                                            *)
LEMMA DepNextInv ==
    ASSUME DepInv, DepositNext
    PROVE  DepInv'
<1>1. CASE \E e \in Entry : DrainOne(e)
  BY <1>1, DrainOneInv
<1>2. CASE DrainDone
  BY <1>2, DrainDoneInv
<1>3. CASE ReadTip
  BY <1>3, ReadTipInv
<1>4. CASE ScanStart
  BY <1>4, ScanStartInv
<1>5. CASE ScanPastGenesis
  BY <1>5, RestartInv DEF ScanPastGenesis, DepInv, DepositTypeOK
<1>6. CASE \E o \in Deposits : CheckOutput(o)
  BY <1>6, CheckOutputInv
<1>7. CASE RelayDeposit
  BY <1>7, RelayDepositInv
<1>8. CASE NextBlock
  BY <1>8, NextBlockInv
<1>9. CASE ScanEnd
  BY <1>9, ScanEndInv
<1>10. CASE DepositRpcError
  BY <1>10, RestartInv DEF DepositRpcError, DepInv, DepositTypeOK
<1>11. CASE \E e \in Entry : AnnounceDeposit(e)
  BY <1>11, AnnounceInv
<1>12. CASE \E t \in 0..MaxHeight : HeadersAdded(t)
  BY <1>12, HeadersAddedInv
<1>13. CASE \E o \in Deposits : OtherRelayerRelays(o)
  BY <1>13, OtherRelaysInv
<1>14. CASE ClockTick
  BY <1>14, ClockTickInv
<1>. QED BY <1>1, <1>2, <1>3, <1>4, <1>5, <1>6, <1>7, <1>8, <1>9, <1>10,
            <1>11, <1>12, <1>13, <1>14 DEF DepositNext, DepositStep

-----------------------------------------------------------------------------
USE CheckpointAssumption

(* CheckpointTypeOK is preserved by every step of the checkpoint task and  *)
(* of its environment.                                                     *)
LEMMA CkptNextType ==
    ASSUME CheckpointTypeOK, CheckpointNext
    PROVE  CheckpointTypeOK'
<1>1. CASE FetchCompleted
  BY <1>1 DEF FetchCompleted, CheckpointTypeOK
<1>2. CASE SendTx
  BY <1>2 DEF SendTx, CheckpointTypeOK, Txs
<1>3. CASE SendDone
  BY <1>3 DEF SendDone, CheckpointTypeOK
<1>4. CASE CkptRpcError
  BY <1>4 DEF CkptRpcError, CheckpointTypeOK
<1>5. CASE CheckpointCompleted
  BY <1>5 DEF CheckpointCompleted, CheckpointTypeOK
<1>6. CASE \E k \in Txs : Mine(k) \/ Evict(k)
  BY <1>6 DEF Mine, Evict, CheckpointTypeOK
<1>. QED BY <1>1, <1>2, <1>3, <1>4, <1>5, <1>6 DEF CheckpointNext, CheckpointStep

(* The inductive invariant of the relayer.                                 *)
IInv == DepInv /\ CheckpointTypeOK

LEMMA InitIInv == Init => IInv
BY DepInit DEF Init, IInv, CheckpointInit, CheckpointTypeOK

LEMMA NextIInv == IInv /\ [Next]_vars => IInv'
<1> SUFFICES ASSUME IInv, [Next]_vars PROVE IInv'
  OBVIOUS
<1>1. CASE DepositNext /\ UNCHANGED ckptVars
  BY <1>1, DepNextInv DEF IInv, CheckpointTypeOK, ckptVars
<1>2. CASE UNCHANGED depositVars
  <2>1. DepInv'
    BY <1>2 DEF IInv, DepInv, DepositTypeOK, IndexTypeOK, ScriptsFresh,
                ScanBounds, ScanProgress, ScanCovered, Matches, Watched, Has,
                depositVars, depVars, idxVars
  <2>2. CheckpointTypeOK'
    <3>1. CASE CheckpointNext
      BY <3>1, CkptNextType DEF IInv
    <3>2. CASE UNCHANGED ckptVars
      BY <3>2 DEF IInv, CheckpointTypeOK, ckptVars
    <3>. QED BY <1>2, <3>1, <3>2 DEF Next, vars
  <2>. QED BY <2>1, <2>2 DEF IInv
<1>. QED BY <1>1, <1>2 DEF Next, vars

(* Both tasks keep their variables in their types (RelayerTypeOK, checked *)
(* by relayer_live) for every value of the constants.                      *)
THEOREM RelayerTypeCorrect == Spec => []RelayerTypeOK
<1>1. IInv => RelayerTypeOK
  BY DEF IInv, DepInv, RelayerTypeOK
<1>. QED BY <1>1, InitIInv, NextIInv, PTL DEF Spec

(* The deposit scan misses no deposit at or below prev_tip that is not    *)
(* processed, excused by the 1100-block window or expired (ScanCovered,    *)
(* checked by relayer_live), whatever the tip, the errors and the other   *)
(* relayers do.                                                            *)
THEOREM ScanCoveredHolds == Spec => []ScanCovered
<1>1. IInv => ScanCovered
  BY DEF IInv, DepInv
<1>. QED BY <1>1, InitIInv, NextIInv, PTL DEF Spec

(* The outpoint maybe_relay_deposit relays is a deposit of a block at or   *)
(* below the sidechain's tip, to a script the index watches.               *)
LEMMA RelayFacts ==
    ASSUME IInv, RelayDeposit
    PROVE  /\ cur \in Deposits
           /\ DepHeight[cur] <= scTip
           /\ Watched(cur)
<1>1. cur \in Matches(cursor) /\ cursor <= scanTop /\ scanTop <= scTip
  BY DEF RelayDeposit, IInv, DepInv, ScanBounds
<1>2. scTip \in Nat /\ cursor \in Nat /\ scanTop \in Nat
  BY DEF IInv, DepInv, DepositTypeOK
<1>3. cur \in Deposits /\ DepHeight[cur] <= scTip /\ Watched(cur)
  BY <1>1, <1>2 DEF Matches, Watched
<1>. QED BY <1>3

(* relay_deposit is only called for an outpoint of a block at or below the *)
(* sidechain's tip whose script the index watches (RelayedBlockKnown,      *)
(* checked by relayer_live).                                               *)
THEOREM RelayedBlockKnownHolds == Spec => RelayedBlockKnown
<1>1. IInv => [RelayDeposit /\ cur \notin processed =>
                 /\ DepHeight[cur] <= scTip
                 /\ Has(DepScript[cur][1], DepScript[cur][2])]_depositVars
  BY RelayFacts DEF Watched
<1>. QED BY <1>1, InitIInv, NextIInv, PTL DEF Spec, RelayedBlockKnown

====
