---------------------------- MODULE MC_LightClient ----------------------------
(* Periods of two slots and committees of three keys over five slots: the *)
(* client bootstraps in period 0, learns the next committee, rotates into  *)
(* periods 1 and 2, and meets every update an attacker holding one         *)
(* committee's keys can build.                                             *)
EXTENDS LightClient, TLC

CONSTANTS evil, none
====
