------------------------- MODULE MCKnowledgeIngestion -------------------------
(***************************************************************************)
(* KnowledgeIngestion for TLC: two operators, three documents, and a       *)
(* catalog of each kind: a first one, its next release (a text changed, a  *)
(* chunk fewer), one with a text no payload holds.                         *)
(***************************************************************************)
EXTENDS KnowledgeIngestion, TLC

CONSTANTS i1, i2

MCIngestions == {i1, i2}
MCDocuments  == 1..3
MCCatalogs   ==
    {(1 :> <<"p1", "p2">>) @@ (2 :> <<"r1">>),
     (1 :> <<"p1">>) @@ (2 :> <<"r2">>) @@ (3 :> <<"t1">>),
     (2 :> <<"r1", "huge">>)}
MCFilters    == {{}, {2}, {1, 3}}

\* Ingestions are told apart by nothing; the runs check invariants only.
MCSymmetry   == Permutations(MCIngestions)
=============================================================================
