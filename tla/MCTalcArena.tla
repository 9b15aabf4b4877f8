---------------------------- MODULE MCTalcArena ----------------------------
(***************************************************************************)
(* Model-checking instance of Talc for extend and truncate at both ends of *)
(* the arena: a chain of arenas grown downwards, then upwards, and arenas  *)
(* truncating the bottom again, with one-word requests.                    *)
(***************************************************************************)
EXTENDS Talc

\* The arena handed to init: bin array [16, 26), free tail [26, 40).
MCArenaA == Span(16, 40)
\* 8 bytes more below (the odd base aligns inwards to 8): a fresh free
\* chunk [8, 16) below the bin array.
MCArenaDown1 == Span(7, 40)
\* 6 bytes more below again: the bottom free chunk grows to [2, 16).
MCArenaDown2 == Span(1, 40)
\* Truncating to base 10 keeps a 6-byte bottom chunk [10, 16).
MCArenaCut1 == Span(9, 40)
\* Truncating to base 14 leaves 2 bytes: the bottom chunk is dropped.
MCArenaCut2 == Span(13, 40)
\* Too small for the bin array: init leaves the heap empty, and the
\* first extend initialises it afresh.
MCArenaTiny == Span(30, 40)
\* Down2 grown upwards by 12 bytes.
MCArenaUp == Span(1, 52)

MCArenas == {MCArenaA, MCArenaDown1, MCArenaDown2, MCArenaCut1, MCArenaCut2, MCArenaUp,
             MCArenaTiny}
=============================================================================
