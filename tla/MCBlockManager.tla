--------------------------- MODULE MCBlockManager ---------------------------
(***************************************************************************)
(* Small instances of BlockManager for TLC.  Blocks of two tokens; the     *)
(* prompts share prefixes, end on and off a block boundary, and need up to *)
(* three blocks.                                                           *)
(***************************************************************************)
EXTENDS BlockManager

MCPrompts == {<<1, 1>>, <<1, 1, 1, 1>>, <<1, 1, 1, 1, 1>>, <<2, 1, 1>>}

Symmetry == Permutations(Seqs)
=============================================================================
