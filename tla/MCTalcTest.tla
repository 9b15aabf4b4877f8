---------------------------- MODULE MCTalcTest ----------------------------
(***************************************************************************)
(* Model-checking instance of TalcTest: talc_test with 8 blocks in the     *)
(* loop instead of 100, on an arena that holds nine blocks of the widest   *)
(* layout checked.                                                         *)
(***************************************************************************)
EXTENDS TalcTest

MCTestArena == Span(16, 176)
MCTestArenas == {MCTestArena}
=============================================================================
