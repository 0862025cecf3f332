------------------------------- MODULE Relayer -------------------------------
(***************************************************************************)
(* The relayer process: Relayer's deposit task and checkpoint task run     *)
(* side by side (the futures of start_deposit_relay and                    *)
(* start_checkpoint_relay joined by the relayer binary), interleaved with  *)
(* each other and with their environments.                                 *)
(***************************************************************************)
EXTENDS DepositRelay, CheckpointRelay

vars == <<depositVars, ckptVars>>

RelayerTypeOK == DepositTypeOK /\ CheckpointTypeOK

Init == DepositInit /\ CheckpointInit

Next ==
    \/ DepositNext /\ UNCHANGED ckptVars
    \/ CheckpointNext /\ UNCHANGED depositVars

Spec == Init /\ [][Next]_vars /\ DepositFairness /\ CheckpointFairness
====
