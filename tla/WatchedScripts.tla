--------------------------- MODULE WatchedScripts ---------------------------
(***************************************************************************)
(* The in-memory index of watched deposit scripts, `WatchedScripts` in     *)
(* src/src/bitcoin/relayer.rs (lines 424-491).                             *)
(*                                                                         *)
(*   scripts : HashMap<Script, (Address, u32)>                             *)
(*   sigsets : BTreeMap<u32, (SignatorySet, Vec<Address>)>                 *)
(*                                                                         *)
(* A script is `sigset.output_script(addr)`.  Following the spec (no two   *)
(* indices or addresses derive the same script) the derivation is taken as *)
(* injective, so a key of `scripts` is identified with the pair            *)
(* <<addr, index>> it maps to and `scripts` is the set of those pairs.     *)
(* A signatory set is identified by its index; its only attribute the      *)
(* index uses is `deposit_timeout`, the constant function Timeout.         *)
(* A sigset's address vector is kept as the set of its addresses: the     *)
(* vector is only ever read whole, by remove_expired, so its order and its *)
(* repeated pushes (an address re-inserted after expiry) are not observed. *)
(* The clock `now` is `time_now()`: it only moves forward.                 *)
(***************************************************************************)
EXTENDS Naturals

CONSTANTS
    Addr,       \* destination addresses (model values)
    Idx,        \* signatory-set indices of the checkpoint queue
    Timeout,    \* Timeout[i]: deposit_timeout of signatory set i
    MaxTime     \* bound on the clock (modelling artifact)

ASSUME IdxAssumption == Idx \subseteq Nat
ASSUME TimeoutAssumption == Timeout \in [Idx -> Nat]
ASSUME MaxTimeAssumption == MaxTime \in Nat

(* Signatory rotations produce deposit timeouts that grow with the index;  *)
(* remove_expired's early `break` relies on it (spec section 9).           *)
MonotoneTimeouts == \A i, j \in Idx : i <= j => Timeout[i] <= Timeout[j]

VARIABLES
    scripts,    \* set of watched entries <<addr, sigset index>>
    sigsets,    \* sigsets[i]: the addresses pushed on sigset i's vector
    now         \* the wall clock read by time_now()

idxVars == <<scripts, sigsets, now>>

Entry == Addr \X Idx

IndexTypeOK ==
    /\ scripts \subseteq Entry
    /\ DOMAIN sigsets \subseteq Idx
    /\ \A i \in DOMAIN sigsets : sigsets[i] \subseteq Addr
    /\ now \in 0..MaxTime

(* Mutant: the derived script ignores the signatory set, so an address is *)
(* found present under any index.                                          *)
HasIgnoringSigset(a, i) == \E j \in Idx : <<a, j>> \in scripts

(* The index holds `script` (script already present: insert is a no-op).  *)
Has(a, i) == <<a, i>> \in scripts

(* Mutant: a new sigset entry is created under the next index.           *)
InsertNewOffByOne(a, i) ==
    /\ scripts' = scripts \cup {<<a, i>>}
    /\ sigsets' = IF i \in DOMAIN sigsets
                    THEN [sigsets EXCEPT ![i] = @ \cup {a}]
                    ELSE [j \in DOMAIN sigsets \cup {i + 1} |->
                            IF j = i + 1 THEN {a} ELSE sigsets[j]]

(* `sigset.output_script(addr)` followed by the insert proper: the map     *)
(* gains the entry and the address is pushed on the sigset's vector, the  *)
(* entry being created with an empty vector when the index is new.         *)
(* Used only when ~Has(a, i); the caller returns true.                     *)
InsertNew(a, i) ==
    /\ scripts' = scripts \cup {<<a, i>>}
    /\ sigsets' = IF i \in DOMAIN sigsets
                    THEN [sigsets EXCEPT ![i] = @ \cup {a}]
                    ELSE [j \in DOMAIN sigsets \cup {i} |->
                            IF j = i THEN {a} ELSE sigsets[j]]

(* Mutant: remove_expired breaks at a sigset whose timeout is exactly now  *)
(* (`now <= deposit_timeout()` where the code has `now < ...`).            *)
ExpiredBreaksOnEqual(i) == now > Timeout[i]

(* Signatory set i has expired: the loop does not `break` on it.           *)
Expired(i) == ~(now < Timeout[i])

(* The sigsets visited by remove_expired's ascending loop before the first *)
(* one that has not expired.                                               *)
ExpiredPrefix ==
    {i \in DOMAIN sigsets : \A j \in DOMAIN sigsets : j <= i => Expired(j)}

(* remove_expired: the scripts of every address of every sigset of the     *)
(* prefix leave the map; `sigsets` and its address vectors are untouched.  *)
RemoveExpired ==
    scripts' = scripts \ {e \in Entry :
                            e[2] \in ExpiredPrefix /\ e[1] \in sigsets[e[2]]}

-----------------------------------------------------------------------------
(* The index's operations, used by the store and the deposit relay.        *)

IndexInit ==
    /\ scripts = {}
    /\ sigsets = [i \in {} |-> {}]
    /\ now = 0

(* WatchedScripts::insert of a new script (of a present one: a no-op).    *)
Insert(a, i) ==
    /\ ~Has(a, i)
    /\ InsertNew(a, i)
    /\ UNCHANGED now

(* WatchedScripts::remove_expired.                                         *)
Remove ==
    /\ RemoveExpired
    /\ UNCHANGED <<sigsets, now>>

Tick ==
    /\ now < MaxTime
    /\ now' = now + 1
    /\ UNCHANGED <<scripts, sigsets>>

(* A call of remove_expired removes exactly the scripts whose signatory    *)
(* set's deposit_timeout has passed: the early `break` of its ascending    *)
(* loop skips no expired sigset and the derivation of each address finds   *)
(* every script inserted for it.  Needs MonotoneTimeouts.                  *)
RemoveExactlyExpired ==
    [][Remove => scripts' = {e \in scripts : now < Timeout[e[2]]}]_idxVars
=============================================================================
