------------------------------ MODULE MC_Relayer ------------------------------
(* One address under signatory set 0 and two deposits to its script: o1  *)
(* in block 1, o2 (dust) in block 2.  The sidechain starts at genesis, so *)
(* the first scan runs past it, and grows to height 3 in steps of one or  *)
(* more, so with a window of 2 a restart can leave block 1 behind.  Two   *)
(* checkpoints, chained, with one eviction and one transport error.        *)
EXTENDS Relayer, TLC

CONSTANTS a1, o1, o2, NoTipValue

MCAddr == {a1}
MCDeposits == {o1, o2}
MCDepHeight == o1 :> 1 @@ o2 :> 2
MCDepScript == o1 :> <<a1, 0>> @@ o2 :> <<a1, 0>>
MCDepDust == o1 :> FALSE @@ o2 :> TRUE
MCTimeout == [i \in Idx |-> 1]
====
