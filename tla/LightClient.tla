----------------------------- MODULE LightClient -----------------------------
(***************************************************************************)
(* LightClient of src/src/ethereum/consensus/mod.rs: new (bootstrap),      *)
(* update (dispatch to the full or the finality path of                    *)
(* helios_consensus_core), the accessors, and the ed encoding the store    *)
(* flushes and loads it with between blocks.                               *)
(*                                                                         *)
(* helios' verify_generic_update and apply_generic_update are not in this  *)
(* repository; they are modelled from the Altair light-client algorithm    *)
(* the spec refers to.  Headers are <<slot, state root>> with the root     *)
(* "canon" (the beacon chain's) or "fake".  The honest sync committee of   *)
(* period p is p; Evil is a committee whose keys an attacker holds.  The   *)
(* honest committee signs only canonical headers at slots that have come;  *)
(* a Merkle branch from a canonical state root proves only what that state *)
(* holds; a fake state root commits to whatever its maker chose.  A        *)
(* committee of 512 keys is CommitteeSize keys here.                       *)
(***************************************************************************)
EXTENDS Naturals, Sequences

CONSTANTS
    SlotsPerPeriod,  \* slots of a sync-committee period (8192)
    CommitteeSize,   \* keys of a sync committee (512)
    Lag,             \* slots between a canonical header and its finalized one
    MaxSlot,         \* bound on the beacon chain's current slot
    BootSlots,       \* slots of the trusted bootstrap headers
    GenesisTime,     \* network.genesis_time
    Evil,            \* a committee held by an attacker (model value)
    None             \* next_sync_committee = None (model value)

ASSUME LightClientAssumption ==
    /\ SlotsPerPeriod \in Nat \ {0} /\ CommitteeSize \in Nat \ {0}
    /\ Lag \in Nat /\ MaxSlot \in Nat /\ GenesisTime \in Nat
    /\ BootSlots \subseteq 0..MaxSlot /\ BootSlots /= {}
    /\ Evil \notin Nat /\ None \notin Nat \cup {Evil}

VARIABLES
    lc,       \* the LightClient: [lcs |-> LightClientStore, network |-> Network]
    clock,    \* the beacon chain's current slot
    halted    \* a panic inside update took the process down

lcVars == <<lc, clock, halted>>

Period(s) == s \div SlotsPerPeriod

MaxPeriod == Period(MaxSlot)

Headers == [slot : 0..MaxSlot, root : {"canon", "fake"}]

Committees == (0..MaxPeriod + 1) \cup {Evil}

Canon(s) == [slot |-> s, root |-> "canon"]

(* network: genesis_vals_root, deneb_fork_version, genesis_time.           *)
Network == <<"vals_root", 4, GenesisTime>>

Stores ==
    [fin : Headers, cur : Committees, next : Committees \cup {None},
     opt : Headers, prevMax : 0..CommitteeSize, curMax : 0..CommitteeSize]

LCTypeOK ==
    /\ lc \in [lcs : Stores, network : {Network}]
    /\ clock \in 0..MaxSlot
    /\ halted \in BOOLEAN

-----------------------------------------------------------------------------
(* The ed encoding, each fixed-width field a token: encode_header writes   *)
(* slot, proposer_index, parent_root, state_root and body_root (the three  *)
(* not tracked here are left out), encode_sync_committee the 512 keys and  *)
(* the aggregate (one token: the committee), Option<()> a 0 or 1 tag.      *)

EncodeHeader(h) == <<h.slot, h.root>>

EncodeCommittee(c) == <<c>>

(* Encode for LightClient.                                                 *)
Encode(l) ==
    EncodeHeader(l.lcs.fin) \o EncodeCommittee(l.lcs.cur)
    \o (IF l.lcs.next = None THEN <<0>> ELSE <<1>> \o EncodeCommittee(l.lcs.next))
    \o EncodeHeader(l.lcs.opt)
    \o <<l.lcs.prevMax, l.lcs.curMax>> \o l.network

(* Header::decode from position i.                                         *)
DecodeHeader(b, i) == [slot |-> b[i], root |-> b[i + 1]]

(* SyncCommittee::decode from position i.                                  *)
DecodeCommittee(b, i) == b[i]

(* Mutant: the two u64 counts read in the wrong order.                     *)
DecodeSwappedMaxima(b) ==
    LET k == IF b[4] = 1 THEN 1 ELSE 0
    IN  [lcs |-> [fin |-> DecodeHeader(b, 1), cur |-> DecodeCommittee(b, 3),
                  next |-> IF b[4] = 1 THEN DecodeCommittee(b, 5) ELSE None,
                  opt |-> DecodeHeader(b, 5 + k),
                  prevMax |-> b[8 + k], curMax |-> b[7 + k]],
         network |-> <<b[9 + k], b[10 + k], b[11 + k]>>]

(* Decode for LightClient: the Option tag says whether a committee        *)
(* follows; everything after it is read k tokens further on.               *)
Decode(b) ==
    LET k == IF b[4] = 1 THEN 1 ELSE 0
    IN  [lcs |-> [fin |-> DecodeHeader(b, 1), cur |-> DecodeCommittee(b, 3),
                  next |-> IF b[4] = 1 THEN DecodeCommittee(b, 5) ELSE None,
                  opt |-> DecodeHeader(b, 5 + k),
                  prevMax |-> b[7 + k], curMax |-> b[8 + k]],
         network |-> <<b[9 + k], b[10 + k], b[11 + k]>>]

-----------------------------------------------------------------------------
(* What a Merkle branch or a signature can prove.                          *)

(* is_finality_proof_valid: fin is the finalized header att's state holds. *)
FinalityProofValid(att, fin) ==
    att.root = "canon" => fin = Canon(IF att.slot >= Lag THEN att.slot - Lag ELSE 0)

(* is_next_committee_proof_valid: c is the next committee att's state holds. *)
NextCommitteeProofValid(att, c) ==
    att.root = "canon" => c = Period(att.slot) + 1

(* The aggregate signature over att at slot sig verifies against c.       *)
SignatureValid(att, sig, c) ==
    \/ c = Evil
    \/ c \in Nat /\ att.root = "canon" /\ c = Period(sig) /\ sig <= clock

-----------------------------------------------------------------------------
(* helios' verify_generic_update (Altair validate_light_client_update):    *)
(* participation, timestamps, period, relevance, the finality branch, the *)
(* next-committee branch and the signature of the committee of the         *)
(* signature's period.                                                     *)
VerifyGeneric(s, u, expectedSlot) ==
    LET sp == Period(s.fin.slot)
        usp == Period(u.sig)
        hasNext == s.next = None /\ u.next /= None /\ Period(u.att.slot) = sp
        committee == IF usp = sp THEN s.cur ELSE s.next
    IN  /\ u.bits > 0
        /\ expectedSlot >= u.sig /\ u.sig > u.att.slot /\ u.att.slot >= u.fin.slot
        /\ IF s.next /= None THEN usp \in {sp, sp + 1} ELSE usp = sp
        /\ u.att.slot > s.fin.slot \/ hasNext
        /\ FinalityProofValid(u.att, u.fin)
        /\ u.next /= None => NextCommitteeProofValid(u.att, u.next)
        /\ SignatureValid(u.att, u.sig, committee)

AtLeast(n, m) == IF n >= m THEN n ELSE m

(* apply_generic_update given the new participation maximum and whether *)
(* the finalized header is replaced only by a newer one.                   *)
ApplyWith(s, u, curMax1, checkNewer) ==
    LET opt1 == IF u.bits > AtLeast(s.prevMax, curMax1) \div 2 /\ u.att.slot > s.opt.slot
                  THEN u.att ELSE s.opt
        sp == Period(s.fin.slot)
        ufp == Period(u.fin.slot)
        hasFinNext == s.next = None /\ u.next /= None /\ ufp = Period(u.att.slot)
        apply == u.bits * 3 >= CommitteeSize * 2 /\ (u.fin.slot > s.fin.slot \/ hasFinNext)
        rotate == apply /\ s.next /= None /\ ufp = sp + 1
        newer == apply /\ (checkNewer => u.fin.slot > s.fin.slot)
    IN  [fin |-> IF newer THEN u.fin ELSE s.fin,
         cur |-> IF rotate THEN s.next ELSE s.cur,
         next |-> IF apply /\ (s.next = None \/ rotate) THEN u.next ELSE s.next,
         opt |-> IF newer /\ u.fin.slot > opt1.slot THEN u.fin ELSE opt1,
         prevMax |-> IF rotate THEN curMax1 ELSE s.prevMax,
         curMax |-> IF rotate THEN 0 ELSE curMax1]

(* Mutant: current_max_active_participants adds the update's bits.         *)
ApplyGenericAdding(s, u) == ApplyWith(s, u, s.curMax + u.bits, TRUE)

(* Mutant: the finalized header is replaced without the newer check.       *)
ApplyGenericNoNewerCheck(s, u) == ApplyWith(s, u, AtLeast(s.curMax, u.bits), FALSE)

(* helios' apply_generic_update: the participation maximum and the        *)
(* optimistic header always; with a 2/3 majority and a newer finalized     *)
(* header (or the first next committee) the committees rotate when the     *)
(* finalized header enters the next period, and the finalized header       *)
(* moves forward.                                                          *)
ApplyGeneric(s, u) == ApplyWith(s, u, AtLeast(s.curMax, u.bits), TRUE)

-----------------------------------------------------------------------------
(* The client's operations.                                                *)

SecondsPerSlot == 12

(* The sidechain block time at which the update transaction runs.          *)
NowSeconds == GenesisTime + SecondsPerSlot * clock

(* Update records: the attested and finalized headers, the next committee *)
(* (None for a finality update), whether next_sync_committee_branch is     *)
(* present, the participation bits and the signature slot.                 *)
Updates ==
    [att : Headers, fin : Headers, next : Committees \cup {None},
     branch : BOOLEAN, bits : 1..CommitteeSize, sig : 0..MaxSlot]

(* LightClient::new: verify_bootstrap (the committee branch against the  *)
(* header, which is the trusted checkpoint), then apply_bootstrap.         *)
LightClientNew(b) ==
    [lcs |-> [fin |-> Canon(b), cur |-> Period(b), next |-> None,
              opt |-> Canon(b), prevMax |-> 0, curMax |-> 0],
     network |-> Network]

Init ==
    /\ clock \in BootSlots
    /\ \E b \in BootSlots \cap 0..clock : lc = LightClientNew(b)
    /\ halted = FALSE

(* Mutant: a full update checked with verify_finality_update, which does  *)
(* not look at the next committee, and applied with apply_update.          *)
UpdateVerifyFinalityOnly(u) ==
    LET expectedSlot == (NowSeconds - lc.network[3]) \div SecondsPerSlot
    IN  /\ ~halted
        /\ u.next /= None => u.branch
        /\ VerifyGeneric(lc.lcs, [u EXCEPT !.next = None], expectedSlot)
        /\ lc' = [lc EXCEPT !.lcs = ApplyGeneric(lc.lcs, u)]
        /\ UNCHANGED <<clock, halted>>

(* LightClient::update.  A full update (next_sync_committee present) is   *)
(* converted with try_into().unwrap(), then verify_update and              *)
(* apply_update; a finality update goes through verify_finality_update    *)
(* and apply_finality_update.  A failed verification returns Err before    *)
(* anything is applied: a stuttering step.                                 *)
Update(u) ==
    LET expectedSlot == (NowSeconds - lc.network[3]) \div SecondsPerSlot
    IN  /\ ~halted
        /\ u.next /= None => u.branch
        /\ VerifyGeneric(lc.lcs, u, expectedSlot)
        /\ lc' = [lc EXCEPT !.lcs = ApplyGeneric(lc.lcs, u)]
        /\ UNCHANGED <<clock, halted>>

(* A full update without next_sync_committee_branch: TryFrom fails and    *)
(* unwrap() panics.  If the panic is caught the transaction is reverted,   *)
(* a stuttering step; if not, the process is gone.                         *)
UpdatePanics ==
    /\ ~halted
    /\ halted' = TRUE
    /\ UNCHANGED <<lc, clock>>

(* State::flush at the end of a block and State::load at the next.         *)
FlushLoad ==
    /\ ~halted
    /\ lc' = Decode(Encode(lc))
    /\ UNCHANGED <<clock, halted>>

Tick ==
    /\ clock < MaxSlot
    /\ clock' = clock + 1
    /\ UNCHANGED <<lc, halted>>

Next ==
    \/ \E u \in Updates : Update(u)
    \/ UpdatePanics
    \/ FlushLoad
    \/ Tick

Spec == Init /\ [][Next]_lcVars

-----------------------------------------------------------------------------
(* slot() and state_root(): the finalized header.                          *)
Slot == lc.lcs.fin.slot
StateRoot == lc.lcs.fin.root

(* The store never trusts an attacker: its finalized and optimistic       *)
(* headers are canonical, its current committee is the honest committee of *)
(* the finalized header's period and its next one, if any, the honest     *)
(* committee of the period after.  It rests on verify and apply together:  *)
(* the signature period check, both Merkle branches and the rotation rule. *)
StoreSound ==
    /\ lc.lcs.fin.root = "canon" /\ lc.lcs.opt.root = "canon"
    /\ lc.lcs.cur = Period(lc.lcs.fin.slot)
    /\ lc.lcs.next \in {None, Period(lc.lcs.fin.slot) + 1}

(* Encode then decode is the identity on every state the client reaches   *)
(* (spec section 8), with and without a next committee and after           *)
(* rotations have made the two participation counts differ.                *)
CodecRoundTrip == Decode(Encode(lc)) = lc

(* slot() and state_root() behave as LightClientSpec says: a canonical    *)
(* header that only moves forward and never past the current slot.         *)
Abs == INSTANCE LightClientSpec
           WITH finalized <- [slot |-> Slot, root |-> StateRoot], clock <- clock

AbsRefined == Abs!AbsSpec
====
