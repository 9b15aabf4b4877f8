------------------------------ MODULE MCTalcOom ------------------------------
(***************************************************************************)
(* Model-checking instance of TalcOom: a chain of arenas the OOM handler   *)
(* extends through, 6 and 12 bytes above the first.                        *)
(***************************************************************************)
EXTENDS TalcOom

\* The arena handed to init: bin array [16, 26), free tail [26, 40).
MCArenaA == Span(16, 40)
\* 6 bytes (MIN_CHUNK_SIZE) more: extend drops the gain above a full heap
\* (lib.rs 763), so a malloc that needs it calls the handler again.
MCArenaB == Span(16, 46)
\* 12 bytes more than A.
MCArenaC == Span(16, 52)

MCArenas == {MCArenaA, MCArenaB, MCArenaC}
=============================================================================
