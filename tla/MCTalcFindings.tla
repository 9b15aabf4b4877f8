--------------------------- MODULE MCTalcFindings ---------------------------
(***************************************************************************)
(* Instances of Talc for the places where lib.rs and its spec part.       *)
(***************************************************************************)
EXTENDS Talc

\* init on [16, 30): the bin array's chunk is [16, 26) and the 4-byte tail
\* [26, 30) is too small to be a free chunk.
MCArenasInitTail == {Span(16, 30)}

\* [16, 40) and the same arena 6 bytes (exactly MIN_CHUNK_SIZE) higher.
MCArenasExtendByMin == {Span(16, 40), Span(16, 46)}

\* [16, 40) and [16, 52): room for a 16-byte chunk after extend.
MCArenasShrink == {Span(16, 40), Span(16, 52)}

\* [16, 40) and [30, 40), which is too small for the bin array: init on it
\* falls through after init on [16, 40) has set self.bins.
MCArenasReInit == {Span(16, 40), Span(30, 40)}
=============================================================================
