------------------------------- MODULE MCTalc -------------------------------
(***************************************************************************)
(* Model-checking instance of Talc: a 2-byte word (MIN_CHUNK_SIZE = 6), 2  *)
(* bins per availability word (4 bins, an 8-byte bin array), and arenas a  *)
(* few chunks wide.                                                        *)
(***************************************************************************)
EXTENDS Talc

\* The arena handed to init: the bin array's chunk is [16, 26), the free
\* tail [26, 40) is one 14-byte chunk; 32 is the first 8-aligned chunk base
\* a 6-byte chunk below it leaves, so an 8-aligned request there leaves a
\* registrable gap below its tag.
MCArenaA == Span(16, 40)
\* A grown upwards by 12 bytes: what the OOM handler and extend move to.
MCArenaB == Span(16, 52)

MCArenas == {MCArenaA, MCArenaB}
=============================================================================
