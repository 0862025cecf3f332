------------------------- MODULE ScriptStore_proofs -------------------------
(***************************************************************************)
(* Proofs about the watched-script store (ScriptStore) for every value of  *)
(* the constants: its type invariant, and that while the relayer runs      *)
(* every watched script has a complete line in the file (MemOnDisk),       *)
(* whatever crashes, torn lines and transport failures happen, provided   *)
(* appends do not fail.                                                    *)
(***************************************************************************)
EXTENDS ScriptStore, TLAPS, SequenceTheorems

(* The complete lines of a file with one more line appended.               *)
LEMMA AppendLines ==
    ASSUME NEW f \in Seq(Line), NEW l \in Line
    PROVE  {Append(f, l)[k] : k \in 1..Len(Append(f, l))}
             = {f[k] : k \in 1..Len(f)} \cup {l}
<1>1. Len(Append(f, l)) = Len(f) + 1
  OBVIOUS
<1>2. \A k \in 1..Len(f) : Append(f, l)[k] = f[k]
  OBVIOUS
<1>3. Append(f, l)[Len(f) + 1] = l
  OBVIOUS
<1>. QED BY <1>1, <1>2, <1>3

(* Appending a complete line adds its entry to FileEntries.                *)
LEMMA AppendEntry ==
    ASSUME NEW f \in Seq(Line), NEW e \in Entry
    PROVE  {Append(f, e)[k] : k \in 1..Len(Append(f, e))} \ {TORN}
             = ({f[k] : k \in 1..Len(f)} \ {TORN}) \cup {e}
BY AppendLines, TornAssumption

(* The entries of the complete lines are entries.                         *)
LEMMA FileEntriesType ==
    ASSUME NEW f \in Seq(Line)
    PROVE  {f[k] : k \in 1..Len(f)} \ {TORN} \subseteq Entry
BY DEF Line

-----------------------------------------------------------------------------
(* StoreTypeOK is inductive.                                               *)

LEMMA InitTypeOK == Init => StoreTypeOK
BY MaxTimeAssumption, StoreBoundsAssumption
   DEF Init, IndexInit, StoreTypeOK, IndexTypeOK

LEMMA NextTypeOK == StoreTypeOK /\ [Next]_vars => StoreTypeOK'
<1> SUFFICES ASSUME StoreTypeOK, [Next]_vars PROVE StoreTypeOK'
  OBVIOUS
<1> USE DEF StoreTypeOK, IndexTypeOK
<1>1. FileEntries \subseteq Entry
  BY FileEntriesType DEF FileEntries
<1>2. CASE Open
  <2>1. Survivors \subseteq Entry
    BY <1>1 DEF Survivors
  <2>2. DOMAIN LoadedSigsets \subseteq Idx /\
        \A i \in DOMAIN LoadedSigsets : LoadedSigsets[i] \subseteq Addr
    BY <1>1 DEF LoadedSigsets, Entry
  <2>. QED BY <1>2, <2>1, <2>2 DEF Open
<1>3. CASE OpenFails
  BY <1>3 DEF OpenFails, vars, idxVars, storeVars
<1>4. CASE \E e \in Entry : CompactWrite(e)
  <2>1. PICK e \in Entry : CompactWrite(e)
    BY <1>4
  <2>2. file' \in Seq(Line)
    BY <2>1 DEF CompactWrite, Line
  <2>. QED BY <2>1, <2>2 DEF CompactWrite, idxVars
<1>5. CASE CompactDone
  BY <1>5 DEF CompactDone, idxVars
<1>6. CASE \E a \in Addr, i \in Idx : Announce(a, i)
  <2>1. PICK a \in Addr, i \in Idx : Announce(a, i)
    BY <1>6
  <2>2. <<a, i>> \in Entry
    BY DEF Entry
  <2>. QED BY <2>1, <2>2, StoreBoundsAssumption DEF Announce, idxVars
<1>7. CASE ReceiveAnnounced
  <2> DEFINE e == Head(chan)
  <2>1. e \in Entry /\ e \in Line
    BY <1>7 DEF ReceiveAnnounced, Line
  <2>2. StoreInsert(e)
    BY <1>7 DEF ReceiveAnnounced
  <2>3. /\ scripts' \subseteq Entry
        /\ DOMAIN sigsets' \subseteq Idx
        /\ \A i \in DOMAIN sigsets' : sigsets'[i] \subseteq Addr
        /\ now' \in 0..MaxTime
        /\ file' \in Seq(Line)
        /\ persisted' \subseteq Entry
    <3>1. CASE Has(e[1], e[2])
      BY <2>2, <3>1 DEF StoreInsert, idxVars
    <3>2. CASE ~Has(e[1], e[2])
      <4>1. InsertNew(e[1], e[2]) /\ now' = now
        BY <2>2, <3>2 DEF StoreInsert
      <4>2. /\ scripts' \subseteq Entry
            /\ DOMAIN sigsets' \subseteq Idx
            /\ \A i \in DOMAIN sigsets' : sigsets'[i] \subseteq Addr
        BY <2>1, <4>1 DEF InsertNew, Entry
      <4>3. \/ file' = Append(file, e) /\ persisted' = persisted \cup {e}
            \/ file' = file /\ persisted' = persisted
        BY <2>2, <3>2 DEF StoreInsert
      <4>4. file' \in Seq(Line) /\ persisted' \subseteq Entry
        <5>1. Append(file, e) \in Seq(Line)
          BY <2>1, AppendProperties
        <5>. QED BY <2>1, <4>3, <5>1
      <4>. QED BY <4>1, <4>2, <4>4
    <3>. QED BY <3>1, <3>2
  <2>. QED BY <1>7, <2>3 DEF ReceiveAnnounced
<1>8. CASE ReceiveRpcFails
  BY <1>8 DEF ReceiveRpcFails, idxVars
<1>9. CASE DrainDone
  BY <1>9 DEF DrainDone, RemoveExpired
<1>10. CASE ScanDone
  BY <1>10 DEF ScanDone, idxVars
<1>11. CASE Crash
  BY <1>11, StoreBoundsAssumption DEF Crash, Line
<1>12. CASE CrashInAppend
  BY <1>12, StoreBoundsAssumption DEF CrashInAppend, Line
<1>13. CASE Tick /\ UNCHANGED storeVars
  BY <1>13, MaxTimeAssumption DEF Tick, storeVars
<1>14. CASE UNCHANGED vars
  BY <1>14 DEF vars, idxVars, storeVars
<1>. QED BY <1>2, <1>3, <1>4, <1>5, <1>6, <1>7, <1>8, <1>9, <1>10, <1>11,
            <1>12, <1>13, <1>14 DEF Next

(* The store's variables always have their types.                         *)
THEOREM StoreTypeCorrect == Spec => []StoreTypeOK
BY InitTypeOK, NextTypeOK, PTL DEF Spec

-----------------------------------------------------------------------------
(* MemOnDisk, through its inductive form MemOnDiskInv.                     *)

(* A step that appends a complete line adds its entry to FileEntries.      *)
LEMMA AppendFileEntries ==
    ASSUME StoreTypeOK, NEW e \in Entry, file' = Append(file, e)
    PROVE  FileEntries' = FileEntries \cup {e}
<1>1. file \in Seq(Line)
  BY DEF StoreTypeOK
<1>2. {Append(file, e)[k] : k \in 1..Len(Append(file, e))} \ {TORN}
        = ({file[k] : k \in 1..Len(file)} \ {TORN}) \cup {e}
  BY <1>1, AppendEntry
<1>. QED BY <1>2 DEF FileEntries

LEMMA InitMemInv == Init => MemOnDiskInv
BY InitTypeOK DEF Init, MemOnDiskInv

LEMMA NextMemInv ==
    ASSUME ~WriteCanFail
    PROVE  MemOnDiskInv /\ [Next]_vars => MemOnDiskInv'
<1> SUFFICES ASSUME MemOnDiskInv, [Next]_vars PROVE MemOnDiskInv'
  OBVIOUS
<1>0. StoreTypeOK /\ StoreTypeOK'
  BY NextTypeOK DEF MemOnDiskInv
<1> DEFINE FE(f) == {f[k] : k \in 1..Len(f)} \ {TORN}
<1>1. CASE Open
  <2>1. scripts' \subseteq pending'
    BY <1>1 DEF Open
  <2>. QED BY <1>0, <1>1, <2>1 DEF Open, MemOnDiskInv
<1>2. CASE \E e \in Entry : CompactWrite(e)
  <2>1. PICK e \in Entry : CompactWrite(e)
    BY <1>2
  <2>2. FileEntries' = FileEntries \cup {e}
    BY <1>0, <2>1, AppendFileEntries DEF CompactWrite
  <2>3. scripts' \subseteq FileEntries' \cup pending'
    BY <2>1, <2>2 DEF CompactWrite, MemOnDiskInv, idxVars
  <2>. QED BY <1>0, <2>1, <2>3 DEF CompactWrite, MemOnDiskInv
<1>3. CASE CompactDone
  BY <1>0, <1>3 DEF CompactDone, MemOnDiskInv, idxVars, FileEntries
<1>4. CASE ReceiveAnnounced
  <2>1. PICK e \in Entry : e = Head(chan)
    BY <1>0, <1>4 DEF ReceiveAnnounced, StoreTypeOK
  <2>2. StoreInsert(e) /\ phase = "running" /\ phase' = "running"
    BY <1>4, <2>1 DEF ReceiveAnnounced
  <2>3. CASE Has(e[1], e[2])
    <3>1. scripts' = scripts /\ file' = file
      BY <2>2, <2>3 DEF StoreInsert, idxVars
    <3>. QED BY <1>0, <2>2, <3>1 DEF MemOnDiskInv, FileEntries
  <2>4. CASE ~Has(e[1], e[2])
    <3>0. e = <<e[1], e[2]>>
      BY <2>1 DEF Entry
    <3>1. scripts' = scripts \cup {e}
      BY <2>2, <2>4, <3>0 DEF StoreInsert, InsertNew
    <3>2. file' = Append(file, e)
      BY <2>2, <2>4 DEF StoreInsert
    <3>3. FileEntries' = FileEntries \cup {e}
      BY <1>0, <3>2, AppendFileEntries
    <3>. QED BY <1>0, <2>2, <3>1, <3>3 DEF MemOnDiskInv
  <2>. QED BY <2>3, <2>4
<1>5. CASE DrainDone
  <2>1. scripts' \subseteq scripts
    BY <1>5 DEF DrainDone, RemoveExpired
  <2>. QED BY <1>0, <1>5, <2>1 DEF DrainDone, MemOnDiskInv, FileEntries
<1>6. CASE Crash \/ CrashInAppend \/ OpenFails
  BY <1>0, <1>6 DEF Crash, CrashInAppend, OpenFails, MemOnDiskInv, vars,
     idxVars, storeVars
<1>7. CASE \/ \E a \in Addr, i \in Idx : Announce(a, i)
           \/ ReceiveRpcFails \/ ScanDone
           \/ Tick /\ UNCHANGED storeVars
           \/ UNCHANGED vars
  BY <1>0, <1>7 DEF Announce, ReceiveRpcFails, ScanDone, Tick, MemOnDiskInv,
     vars, idxVars, storeVars, FileEntries
<1>. QED BY <1>1, <1>2, <1>3, <1>4, <1>5, <1>6, <1>7 DEF Next

(* When appends do not fail, every script the running relayer watches has *)
(* a complete line in the store file, whatever crashes happen.            *)
THEOREM MemOnDiskHolds ==
    ASSUME ~WriteCanFail
    PROVE  Spec => []MemOnDisk
<1>1. MemOnDiskInv => MemOnDisk
  BY DEF MemOnDiskInv, MemOnDisk
<1>. QED BY InitMemInv, NextMemInv, <1>1, PTL DEF Spec
-----------------------------------------------------------------------------
(* RemoveExactlyExpired, from the index's bookkeeping: every watched       *)
(* script's address is on its sigset's vector.                             *)

(* Every script of the index is listed under its signatory set.            *)
SigsetsCover ==
    \A e \in scripts : e[2] \in DOMAIN sigsets /\ e[1] \in sigsets[e[2]]

(* With timeouts that grow with the index, the prefix remove_expired      *)
(* visits before its `break` is the set of expired sigsets, and its        *)
(* removal leaves exactly the scripts of the unexpired ones.               *)
LEMMA RemoveIsExact ==
    ASSUME MonotoneTimeouts, IndexTypeOK, SigsetsCover, Remove
    PROVE  scripts' = {e \in scripts : now < Timeout[e[2]]}
<1>1. \A i \in DOMAIN sigsets : i \in ExpiredPrefix <=> Expired(i)
  <2> SUFFICES ASSUME NEW i \in DOMAIN sigsets
               PROVE  i \in ExpiredPrefix <=> Expired(i)
    OBVIOUS
  <2>1. /\ i \in Nat /\ now \in Nat /\ Timeout[i] \in Nat
        /\ \A j \in DOMAIN sigsets : j \in Nat /\ Timeout[j] \in Nat
    <3>1. i \in Idx /\ DOMAIN sigsets \subseteq Idx /\ now \in 0..MaxTime
      BY DEF IndexTypeOK
    <3>. QED BY <3>1, IdxAssumption, TimeoutAssumption, MaxTimeAssumption
  <2>2. Expired(i) => \A j \in DOMAIN sigsets : j <= i => Expired(j)
    BY <2>1 DEF MonotoneTimeouts, IndexTypeOK, Expired
  <2>3. i \in ExpiredPrefix => Expired(i)
    BY <2>1 DEF ExpiredPrefix
  <2>. QED BY <2>2, <2>3 DEF ExpiredPrefix
<1>2. \A e \in scripts :
         (/\ e \in Entry /\ e[2] \in ExpiredPrefix
          /\ e[1] \in sigsets[e[2]]) <=> ~(now < Timeout[e[2]])
  BY <1>1 DEF SigsetsCover, IndexTypeOK, Expired
<1>. QED BY <1>2 DEF Remove, RemoveExpired

LEMMA InitCover == Init => SigsetsCover
BY DEF Init, IndexInit, SigsetsCover

LEMMA NextCover == StoreTypeOK /\ SigsetsCover /\ [Next]_vars => SigsetsCover'
<1> SUFFICES ASSUME StoreTypeOK, SigsetsCover, [Next]_vars PROVE SigsetsCover'
  OBVIOUS
<1>1. CASE Open
  <2>1. scripts' \subseteq FileEntries /\ sigsets' = LoadedSigsets
    BY <1>1 DEF Open, Survivors
  <2>. QED BY <2>1 DEF SigsetsCover, LoadedSigsets
<1>2. CASE ReceiveAnnounced
  <2>1. PICK e \in Entry : e = Head(chan)
    BY <1>2 DEF ReceiveAnnounced, StoreTypeOK
  <2>2. StoreInsert(e)
    BY <1>2, <2>1 DEF ReceiveAnnounced
  <2>3. CASE Has(e[1], e[2])
    BY <2>2, <2>3 DEF StoreInsert, SigsetsCover, idxVars
  <2>4. CASE ~Has(e[1], e[2])
    <3>1. InsertNew(e[1], e[2])
      BY <2>2, <2>4 DEF StoreInsert
    <3>. QED BY <3>1 DEF InsertNew, SigsetsCover
  <2>. QED BY <2>3, <2>4
<1>3. CASE DrainDone
  BY <1>3 DEF DrainDone, RemoveExpired, SigsetsCover
<1>4. CASE Crash \/ CrashInAppend
  BY <1>4 DEF Crash, CrashInAppend, SigsetsCover
<1>5. CASE \/ OpenFails \/ (\E e \in Entry : CompactWrite(e)) \/ CompactDone
           \/ \E a \in Addr, i \in Idx : Announce(a, i)
           \/ ReceiveRpcFails \/ ScanDone
           \/ Tick /\ UNCHANGED storeVars
           \/ UNCHANGED vars
  BY <1>5 DEF OpenFails, CompactWrite, CompactDone, Announce, ReceiveRpcFails,
     ScanDone, Tick, SigsetsCover, vars, idxVars
<1>. QED BY <1>1, <1>2, <1>3, <1>4, <1>5 DEF Next

(* Under the spec's MonotoneTimeouts, every remove_expired removes exactly *)
(* the scripts whose signatory set's deposit_timeout has passed: the early *)
(* `break` skips no expired sigset (RemoveExactlyExpired, checked by       *)
(* store_crash).                                                           *)
THEOREM RemoveExactlyExpiredHolds ==
    ASSUME MonotoneTimeouts
    PROVE  Spec => RemoveExactlyExpired
<1>1. StoreTypeOK /\ SigsetsCover =>
        [Remove => scripts' = {e \in scripts : now < Timeout[e[2]]}]_idxVars
  BY RemoveIsExact DEF StoreTypeOK
<1>. QED BY <1>1, InitTypeOK, NextTypeOK, InitCover, NextCover, PTL
            DEF Spec, RemoveExactlyExpired
-----------------------------------------------------------------------------
(* CompactionMirrorsIndex: inside open, the lines rewritten so far and the *)
(* scripts still to write are together the index.                         *)

MirrorInv == phase = "compacting" => FileEntries \cup pending = scripts

LEMMA InitMirror == Init => MirrorInv
BY DEF Init, MirrorInv

LEMMA NextMirror == StoreTypeOK /\ MirrorInv /\ [Next]_vars => MirrorInv'
<1> SUFFICES ASSUME StoreTypeOK, MirrorInv, [Next]_vars PROVE MirrorInv'
  OBVIOUS
<1>1. CASE Open
  <2>1. FileEntries' = {}
    BY <1>1 DEF Open, FileEntries
  <2>. QED BY <1>1, <2>1 DEF Open, MirrorInv
<1>2. CASE \E e \in Entry : CompactWrite(e)
  <2>1. PICK e \in Entry : CompactWrite(e)
    BY <1>2
  <2>2. FileEntries' = FileEntries \cup {e}
    BY <2>1, AppendFileEntries DEF CompactWrite
  <2>. QED BY <2>1, <2>2 DEF CompactWrite, MirrorInv, idxVars
<1>3. CASE \/ ReceiveAnnounced \/ ReceiveRpcFails \/ DrainDone \/ ScanDone
           \/ CompactDone
  BY <1>3 DEF ReceiveAnnounced, ReceiveRpcFails, DrainDone, ScanDone,
     CompactDone, MirrorInv
<1>4. CASE Crash \/ CrashInAppend \/ OpenFails
  BY <1>4 DEF Crash, CrashInAppend, OpenFails, MirrorInv, vars, idxVars,
     storeVars, FileEntries
<1>5. CASE \/ \E a \in Addr, i \in Idx : Announce(a, i)
           \/ Tick /\ UNCHANGED storeVars
           \/ UNCHANGED vars
  BY <1>5 DEF Announce, Tick, MirrorInv, FileEntries, vars, idxVars, storeVars
<1>. QED BY <1>1, <1>2, <1>3, <1>4, <1>5 DEF Next

(* When open returns, the lines on disk are exactly the scripts of the     *)
(* index (CompactionMirrorsIndex, checked by store_compaction): the        *)
(* rewrite keeps every script that survived remove_expired and no other.   *)
THEOREM CompactionMirrorsHolds == Spec => CompactionMirrorsIndex
<1>1. StoreTypeOK /\ MirrorInv /\ [Next]_vars =>
        [phase = "compacting" /\ phase' = "running" =>
           FileEntries' = scripts']_vars
  <2> SUFFICES ASSUME StoreTypeOK, MirrorInv, [Next]_vars,
                      phase = "compacting", phase' = "running"
               PROVE  FileEntries' = scripts'
    OBVIOUS
  <2>1. CASE \E e \in Entry : CompactWrite(e)
    <3>1. PICK e \in Entry : CompactWrite(e)
      BY <2>1
    <3>2. FileEntries' = FileEntries \cup {e} /\ pending' = {}
      BY <3>1, AppendFileEntries DEF CompactWrite
    <3>. QED BY <3>1, <3>2 DEF CompactWrite, MirrorInv, idxVars
  <2>2. CASE CompactDone
    BY <2>2 DEF CompactDone, MirrorInv, idxVars, FileEntries
  <2>3. CASE ~(\E e \in Entry : CompactWrite(e)) /\ ~CompactDone
    BY <2>3 DEF Next, vars, storeVars, Open, OpenFails, Announce,
       ReceiveAnnounced, ReceiveRpcFails, DrainDone, ScanDone, Crash,
       CrashInAppend
  <2>. QED BY <2>1, <2>2, <2>3
<1>. QED BY <1>1, InitTypeOK, NextTypeOK, InitMirror, NextMirror, PTL
            DEF Spec, CompactionMirrorsIndex
=============================================================================
