---------------------------- MODULE ScriptStore ----------------------------
(***************************************************************************)
(* The persistent watched-script store and the part of the deposit relay  *)
(* that feeds it, in src/src/bitcoin/relayer.rs:                           *)
(*                                                                         *)
(*   WatchedScriptStore::open / maybe_load / insert / write  (502-581)     *)
(*   Relayer::insert_announced_addrs                          (186-203)    *)
(*   the drain-then-scan loop of Relayer::relay_deposits      (108-129)    *)
(*   start_deposit_relay's retry after an error               (96-106)     *)
(*                                                                         *)
(* The process can crash at any moment and is restarted; a restart runs   *)
(* `open`, which loads the file, drops expired scripts, truncates the file *)
(* with File::create and writes one line per surviving script.  A line is *)
(* written by writeln!, several write calls: a crash in the middle leaves *)
(* a torn line, the value TORN, which `open` cannot parse (items[1] out of *)
(* bounds or a failed parse).  A complete line "addr,index" is the entry   *)
(* <<addr, index>>.                                                        *)
(*                                                                         *)
(* The announcement channel is the in-process mpsc channel fed by the      *)
(* depositor endpoint; it is lost with the process.  checkpoints.get may   *)
(* fail in transport (RpcCanFail), an append may fail with an I/O error    *)
(* (WriteCanFail) and a crash may tear a line (TornWrites).               *)
(***************************************************************************)
EXTENDS WatchedScripts, Sequences

CONSTANTS
    TORN,           \* a line cut short by a crash
    MaxAnnounce,    \* bound on the announcements the depositor sends
    MaxCrash,       \* bound on the crashes
    RpcCanFail,     \* checkpoints.get may fail in transport
    WriteCanFail,   \* an append to the file may fail
    TornWrites      \* a crash in the middle of a line leaves it torn

ASSUME TornAssumption == TORN \notin Entry
ASSUME StoreBoundsAssumption == MaxAnnounce \in Nat /\ MaxCrash \in Nat
ASSUME FlagsAssumption ==
    {RpcCanFail, WriteCanFail, TornWrites} \subseteq BOOLEAN

VARIABLES
    file,       \* the lines of the store file
    phase,      \* "down", "compacting" (inside open) or "running"
    pending,    \* the surviving scripts open has still to write
    chan,       \* announced <<addr, sigset index>> pairs not yet received
    loop,       \* relay_deposits: "drain" announcements or "scan" blocks
    sent,       \* announcements sent so far (bounded)
    crashes,    \* crashes so far (bounded)
    persisted   \* history: entries that have had a complete line on disk

storeVars == <<file, phase, pending, chan, loop, sent, crashes, persisted>>
vars == <<idxVars, storeVars>>

Line == Entry \cup {TORN}

(* The entries of the complete lines of the file.                          *)
FileEntries == {file[k] : k \in 1..Len(file)} \ {TORN}

StoreTypeOK ==
    /\ IndexTypeOK
    /\ file \in Seq(Line)
    /\ phase \in {"down", "compacting", "running"}
    /\ pending \subseteq Entry
    /\ chan \in Seq(Entry)
    /\ loop \in {"drain", "scan"}
    /\ sent \in 0..MaxAnnounce
    /\ crashes \in 0..MaxCrash
    /\ persisted \subseteq Entry

Init ==
    /\ IndexInit
    /\ file = <<>>
    /\ phase = "down"
    /\ pending = {}
    /\ chan = <<>>
    /\ loop = "drain"
    /\ sent = 0
    /\ crashes = 0
    /\ persisted = {}

-----------------------------------------------------------------------------
(* Loading.  maybe_load inserts line after line into a fresh index: the    *)
(* index it builds holds each entry of the file once and lists, for every  *)
(* index, the addresses of its lines.  Every index of Idx is a checkpoint  *)
(* of the queue, so no line is skipped.                                    *)

LoadedSigsets ==
    [i \in {e[2] : e \in FileEntries} |-> {e[1] : e \in {f \in FileEntries : f[2] = i}}]

(* The prefix remove_expired visits in an index with these sigsets.        *)
PrefixOf(ss) ==
    {i \in DOMAIN ss : \A j \in DOMAIN ss : j <= i => Expired(j)}

(* The entries that survive maybe_load's closing remove_expired.           *)
Survivors ==
    FileEntries \ {e \in Entry : e[2] \in PrefixOf(LoadedSigsets) /\
                                 e[1] \in LoadedSigsets[e[2]]}

(* Mutant: open rewrites the lines it loaded rather than the scripts that *)
(* survived remove_expired.                                                *)
OpenRewritesLoaded ==
    /\ phase = "down"
    /\ TORN \notin {file[k] : k \in 1..Len(file)}
    /\ scripts' = Survivors
    /\ sigsets' = LoadedSigsets
    /\ file' = <<>>
    /\ pending' = FileEntries
    /\ phase' = "compacting"
    /\ UNCHANGED <<now, chan, loop, sent, crashes, persisted>>

(* Relayer::new -> WatchedScriptStore::open on a file whose lines all      *)
(* parse: maybe_load, then File::create truncates the file and the writes  *)
(* of the surviving scripts begin (HashMap order: `pending` is a set).     *)
(* The in-memory state of the previous run is gone (Crash cleared it).    *)
Open ==
    /\ phase = "down"
    /\ TORN \notin {file[k] : k \in 1..Len(file)}
    /\ scripts' = Survivors
    /\ sigsets' = LoadedSigsets
    /\ file' = <<>>
    /\ pending' = Survivors
    /\ phase' = "compacting"
    /\ UNCHANGED <<now, chan, loop, sent, crashes, persisted>>

(* open on a file with a torn line: `items[1]` panics on a line without a  *)
(* comma and a cut index fails to parse; the relayer does not start, and   *)
(* every restart meets the same file.                                      *)
OpenFails ==
    /\ phase = "down"
    /\ TORN \in {file[k] : k \in 1..Len(file)}
    /\ UNCHANGED vars

(* One `Self::write` of open's rewrite loop; after the last one open       *)
(* returns and the relay tasks start.                                      *)
CompactWrite(e) ==
    /\ phase = "compacting"
    /\ e \in pending
    /\ file' = Append(file, e)
    /\ pending' = pending \ {e}
    /\ persisted' = persisted \cup {e}
    /\ phase' = IF pending' = {} THEN "running" ELSE "compacting"
    /\ UNCHANGED <<idxVars, chan, loop, sent, crashes>>

(* open with nothing to rewrite returns at once.                           *)
CompactDone ==
    /\ phase = "compacting"
    /\ pending = {}
    /\ phase' = "running"
    /\ UNCHANGED <<idxVars, file, pending, chan, loop, sent, crashes, persisted>>

-----------------------------------------------------------------------------
(* The depositor service announces an address for a signatory set.        *)
Announce(a, i) ==
    /\ phase /= "down"
    /\ sent < MaxAnnounce
    /\ chan' = Append(chan, <<a, i>>)
    /\ sent' = sent + 1
    /\ UNCHANGED <<idxVars, file, phase, pending, loop, crashes, persisted>>

(* Mutant: insert writes the line when the index already had the script  *)
(* and not when it is new (`if !self.scripts.insert(..)`).                 *)
StoreInsertInverted(e) ==
    IF Has(e[1], e[2])
      THEN /\ file' = Append(file, e)
           /\ persisted' = persisted \cup {e}
           /\ UNCHANGED idxVars
      ELSE /\ InsertNew(e[1], e[2])
           /\ UNCHANGED <<now, file, persisted>>

(* WatchedScriptStore::insert: a present script is a no-op; a new one is   *)
(* inserted and its line appended, or, when the write fails, the error    *)
(* ends relay_deposits, whose caller sleeps and calls it again: the        *)
(* index keeps the script, the file does not have it.                      *)
StoreInsert(e) ==
    IF Has(e[1], e[2])
      THEN UNCHANGED <<idxVars, file, persisted>>
      ELSE /\ InsertNew(e[1], e[2])
           /\ UNCHANGED now
           /\ \/ /\ file' = Append(file, e)
                 /\ persisted' = persisted \cup {e}
              \/ /\ WriteCanFail
                 /\ UNCHANGED <<file, persisted>>

(* One turn of insert_announced_addrs' `while let Ok(..) = recv.try_recv()`: *)
(* the head of the channel is received, checkpoints.get succeeds and the  *)
(* pair goes to the store.                                                 *)
ReceiveAnnounced ==
    /\ phase = "running"
    /\ loop = "drain"
    /\ chan /= <<>>
    /\ StoreInsert(Head(chan))
    /\ chan' = Tail(chan)
    /\ UNCHANGED <<phase, pending, loop, sent, crashes>>

(* checkpoints.get fails in transport: `?` returns from relay_deposits     *)
(* with the pair already taken off the channel; the loop restarts.        *)
ReceiveRpcFails ==
    /\ RpcCanFail
    /\ phase = "running"
    /\ loop = "drain"
    /\ chan /= <<>>
    /\ chan' = Tail(chan)
    /\ UNCHANGED <<idxVars, file, phase, pending, loop, sent, crashes, persisted>>

(* try_recv finds the channel empty: remove_expired closes the drain and   *)
(* the iteration goes on to the scan.                                      *)
DrainDone ==
    /\ phase = "running"
    /\ loop = "drain"
    /\ chan = <<>>
    /\ RemoveExpired
    /\ loop' = "scan"
    /\ UNCHANGED <<sigsets, now, file, phase, pending, chan, sent, crashes, persisted>>

(* The rest of the iteration (tip, rescan, prev_tip) reads the index but  *)
(* does not change it or the file; then `sleep(2)` and the next drain.     *)
ScanDone ==
    /\ phase = "running"
    /\ loop = "scan"
    /\ loop' = "drain"
    /\ UNCHANGED <<idxVars, file, phase, pending, chan, sent, crashes, persisted>>

-----------------------------------------------------------------------------
(* The process dies: memory and channel are lost, the file stays.  A crash *)
(* inside a write tears the line being written: a line of open's rewrite, *)
(* or the line of a new script being inserted (CrashInAppend).             *)
Crash ==
    /\ phase /= "down"
    /\ crashes < MaxCrash
    /\ \/ UNCHANGED file
       \/ /\ TornWrites
          /\ phase = "compacting"
          /\ pending /= {}
          /\ file' = Append(file, TORN)
    /\ scripts' = {}
    /\ sigsets' = [i \in {} |-> {}]
    /\ phase' = "down"
    /\ pending' = {}
    /\ chan' = <<>>
    /\ loop' = "drain"
    /\ crashes' = crashes + 1
    /\ UNCHANGED <<now, sent, persisted>>

CrashInAppend ==
    /\ TornWrites
    /\ phase = "running"
    /\ loop = "drain"
    /\ chan /= <<>>
    /\ ~Has(Head(chan)[1], Head(chan)[2])
    /\ crashes < MaxCrash
    /\ file' = Append(file, TORN)
    /\ scripts' = {}
    /\ sigsets' = [i \in {} |-> {}]
    /\ phase' = "down"
    /\ chan' = <<>>
    /\ crashes' = crashes + 1
    /\ UNCHANGED <<now, pending, loop, sent, persisted>>

Next ==
    \/ Open
    \/ OpenFails
    \/ \E e \in Entry : CompactWrite(e)
    \/ CompactDone
    \/ \E a \in Addr, i \in Idx : Announce(a, i)
    \/ ReceiveAnnounced
    \/ ReceiveRpcFails
    \/ DrainDone
    \/ ScanDone
    \/ Crash
    \/ CrashInAppend
    \/ Tick /\ UNCHANGED storeVars

Spec == Init /\ [][Next]_vars

(* The relay loops never stop: open runs to its end once started, the     *)
(* deposit task drains and scans every 2 s, and a dead process is          *)
(* restarted.  Announcements, crashes and the clock are not forced.        *)
Fairness ==
    /\ WF_vars(Open)
    /\ WF_vars(\E e \in Entry : CompactWrite(e))
    /\ WF_vars(CompactDone)
    /\ WF_vars(ReceiveAnnounced)
    /\ WF_vars(DrainDone)
    /\ WF_vars(ScanDone)

LiveSpec == Spec /\ Fairness

-----------------------------------------------------------------------------
(* Properties.                                                             *)

(* While the relayer runs, every script it watches has a complete line in *)
(* the file, so a crash at any point, torn lines and crashes inside open's *)
(* rewrite included, loses no script the index holds.                      *)
MemOnDisk == phase = "running" => scripts \subseteq FileEntries

(* The inductive form of MemOnDisk: inside open, the scripts not yet      *)
(* rewritten are the pending ones.                                         *)
MemOnDiskInv ==
    /\ StoreTypeOK
    /\ phase = "running" => scripts \subseteq FileEntries
    /\ phase = "compacting" => scripts \subseteq FileEntries \cup pending

(* Spec 8: when open returns, the lines on disk are exactly the scripts    *)
(* of the index: compaction drops what remove_expired dropped and keeps   *)
(* everything else.                                                        *)
CompactionMirrorsIndex ==
    [][phase = "compacting" /\ phase' = "running" =>
         FileEntries' = scripts']_vars

(* Spec 7 (the compaction rewrite is atomic): every script that ever had a *)
(* complete line and whose sigset has not expired is watched while the     *)
(* relayer runs, across any number of restarts.                            *)
DurableLiveWatched ==
    phase = "running" =>
        \A e \in persisted : now < Timeout[e[2]] => e \in scripts

(* Spec 5 (a partially written line after a crash must be tolerated): a    *)
(* relayer that went down comes up again.                                  *)
RestartRecovers == phase = "down" ~> phase = "running"

(* An announced address is eventually watched and on disk, unless its     *)
(* signatory set expires first.                                            *)
AnnouncedEventuallyDurable ==
    \A e \in Entry :
        (\E k \in 1..Len(chan) : chan[k] = e) ~>
            (e \in scripts /\ e \in FileEntries) \/ ~(now < Timeout[e[2]])
=============================================================================
