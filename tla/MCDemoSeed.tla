------------------------------ MODULE MCDemoSeed ------------------------------
(***************************************************************************)
(* DemoSeed for TLC: one account and one browser, two runs of the command, *)
(* and any one of the contract's workflows.                                *)
(***************************************************************************)
EXTENDS DemoSeed, TLC

CONSTANTS first, second

MCSeeds    == {first, second}
MCSymmetry == Permutations(MCSeeds)
MCKeys     == DOMAIN InitialStatus
==============================================================================
