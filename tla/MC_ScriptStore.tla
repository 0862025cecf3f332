-------------------------- MODULE MC_ScriptStore ---------------------------
(* Two addresses and two signatory sets, the first expiring at 1 and the  *)
(* second at 2, with a clock bounded at 2: loads and drains happen before, *)
(* between and after the expiries, so compaction both keeps and drops      *)
(* lines.  Three announcements fill the file with up to three lines, and   *)
(* two crashes reach a crash inside a rewrite after a first restart.       *)
EXTENDS ScriptStore, TLC

CONSTANTS a1, a2, torn

MCAddr == {a1, a2}
MCIdx == {0, 1}
MCTimeout == (0 :> 1) @@ (1 :> 2)

ASSUME MonotoneTimeouts
=============================================================================
