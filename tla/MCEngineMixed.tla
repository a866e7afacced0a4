--------------------------- MODULE MCEngineMixed ---------------------------
(***************************************************************************)
(* Four requests of given prompts.  In the first mix two end inside a      *)
(* block, one fills a block and the fourth shares it: a decode finds no    *)
(* slot again after it has preempted for one (DecodeGiveUp).  In the       *)
(* second a long prompt takes the whole pool, several steps of prefill and *)
(* the other requests' blocks.  In the third every prompt takes several    *)
(* chunks, and all of them share their first blocks.                       *)
(***************************************************************************)
EXTENDS Engine

CONSTANTS s1, s2, s3, s4

Ones(n) == [i \in 1 .. n |-> 1]

Mixes == {s1 :> Ones(1) @@ s2 :> Ones(1) @@ s3 :> Ones(2) @@ s4 :> Ones(4),
          s1 :> Ones(3) @@ s2 :> Ones(3) @@ s3 :> Ones(2) @@ s4 :> Ones(10),
          s1 :> Ones(5) @@ s2 :> Ones(5) @@ s3 :> Ones(7) @@ s4 :> Ones(11)}

MCPrompts == {Ones(n) : n \in {1, 2, 3, 4, 5, 7, 10, 11}}

MixedInit == EngineInit /\ prompt \in Mixes

MixedSpec == MixedInit /\ [][EngineNext]_engineVars

Symmetry == Permutations({s1, s2})
=============================================================================
