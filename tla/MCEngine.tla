------------------------------ MODULE MCEngine ------------------------------
(***************************************************************************)
(* Small instances of Engine for TLC.  Token 2 stops a sequence; blocks    *)
(* hold two tokens.                                                        *)
(***************************************************************************)
EXTENDS Engine

MCPrompts == {<<1>>, <<1, 1, 1, 1, 1>>}

MCPromptsMixed == {<<1, 1>>, <<1, 1, 1>>, <<1, 1, 1, 1, 1>>, <<2, 1, 1>>}

Symmetry == Permutations(Seqs)
=============================================================================
