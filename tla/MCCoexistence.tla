---------------------------- MODULE MCCoexistence ----------------------------
(***************************************************************************)
(* TLC instance of CoexistenceArbiter: two protocols and two priorities, so *)
(* that a tie, a win and a loss all occur, and three grants before the      *)
(* identifiers run out, so that a preempted, an expired and a cancelled     *)
(* grant can precede the last one.                                          *)
(***************************************************************************)
EXTENDS CoexistenceArbiter, TLC

CONSTANTS wifi, ble

MCProtocols == {wifi, ble}
MCPriorities == 0..1
MCSymmetry == Permutations(MCProtocols)
=============================================================================
