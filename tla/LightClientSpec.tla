--------------------------- MODULE LightClientSpec ---------------------------
(***************************************************************************)
(* What the Ethereum light client promises its users (slot() and          *)
(* state_root() of src/src/ethereum/consensus/mod.rs): the header it       *)
(* reports as finalized is always a header of the canonical beacon chain,  *)
(* it only moves forward, and never past the current slot.  Headers are    *)
(* abstracted to their slot and to whether their state root is the         *)
(* canonical one ("canon") or one an attacker made up ("fake").            *)
(***************************************************************************)
EXTENDS Naturals

CONSTANTS
    MaxSlot,     \* bound on the beacon chain's current slot
    BootSlots    \* slots of the trusted bootstrap headers

VARIABLES
    finalized,   \* the finalized header
    clock        \* the current slot of the beacon chain

(* The canonical header of slot s.                                         *)
Canon(s) == [slot |-> s, root |-> "canon"]

AbsInit ==
    /\ clock \in BootSlots
    /\ finalized \in {Canon(b) : b \in BootSlots \cap 0..clock}

(* Time passes on the beacon chain.                                        *)
AbsTick ==
    /\ clock < MaxSlot
    /\ clock' = clock + 1
    /\ UNCHANGED finalized

(* A later canonical header, of a past slot, becomes the finalized one.   *)
AbsFinalize(s) ==
    /\ finalized.slot < s /\ s <= clock
    /\ finalized' = Canon(s)
    /\ UNCHANGED clock

AbsNext == AbsTick \/ \E s \in 0..MaxSlot : AbsFinalize(s)

AbsSpec == AbsInit /\ [][AbsNext]_<<finalized, clock>>
====
