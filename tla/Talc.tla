-------------------------------- MODULE Talc --------------------------------
(***************************************************************************)
(* The heap core of the talc allocator (src/src/lib.rs, struct Talc).      *)
(*                                                                         *)
(* The allocator keeps all of its metadata inside the arena, so the model  *)
(* keeps the arena as memory: a function from word addresses to the kind   *)
(* of word stored there (an allocated-chunk tag, a tag-pointer             *)
(* indirection, a free-chunk size word, a free-list node word, a bin-array *)
(* word, or client data).  Every operation reads and writes those words in *)
(* the order lib.rs does.  A read that finds a word of a kind the code     *)
(* does not expect (a read of garbage), and every debug_assert! of the     *)
(* code, sets the flag `fault` instead of being given a meaning.           *)
(*                                                                         *)
(* Addresses are bytes; WORD is size_of::<usize>(), which is also ALIGN    *)
(* and TAG_SIZE.  The intrusive free lists (llist.rs) are abstracted to a  *)
(* sequence of node addresses per bin, in list order; the availability    *)
(* bitmaps are sets of bit indices, toggled as the code XORs them.         *)
(*                                                                         *)
(* Each public method of Talc is a pure operator from a heap record to a   *)
(* heap record, so that grow can call malloc and free, and malloc can call *)
(* the OOM handler which calls extend, exactly as the code nests them.     *)
(***************************************************************************)
EXTENDS Integers, SequencesExt

CONSTANTS
  WORD,       \* size_of::<usize>() = align_of::<usize>() = TAG_SIZE, in bytes
  HALF_BINS,  \* usize::BITS: the number of bins covered by one availability word
  ARENAS,     \* the arenas ([base, acme] spans) the client hands to init/extend/truncate
  SIZES,      \* the layout sizes the client requests
  ALIGNS,     \* the layout alignments the client requests
  MAX_LIVE,   \* bound on the number of simultaneously live allocations
  REINIT      \* whether the client may call init again on an initialised, empty heap

NULL == 0
NONE == -1

ALIGN == WORD
TAG_SIZE == WORD
NODE_SIZE == 2 * WORD
MIN_CHUNK_SIZE == NODE_SIZE + WORD
BIN_COUNT == 2 * HALF_BINS
BinIds == 0 .. BIN_COUNT - 1
BIN_ARRAY_SIZE == WORD * BIN_COUNT   \* size_of::<Bin>() * BIN_COUNT, Bin = Option<NonNull<_>>

ASSUME WORD \in {2, 4, 8} /\ HALF_BINS \in Nat \ {0} /\ MAX_LIVE \in Nat /\ REINIT \in BOOLEAN
ASSUME \A a \in ALIGNS : \E k \in 0 .. 4 : a = 2^k
ASSUME SIZES \subseteq Nat \ {0}

(***************************************************************************)
(* Spans (span.rs): half-open address intervals [base, acme).              *)
(***************************************************************************)
Span(b, a) == [base |-> b, acme |-> a]
EmptySpan == Span(NULL, NULL)
IsEmptySpan(s) == s.acme <= s.base
SpanContains(s, addr) == s.base <= addr /\ addr < s.acme
ContainsSpan(s, o) == IsEmptySpan(o) \/ (s.base <= o.base /\ o.acme <= s.acme)

\* utils.rs: align_up / align_down to ALIGN, and align_up_by to a power of two
AlignUp(a) == ((a + ALIGN - 1) \div ALIGN) * ALIGN
AlignDown(a) == (a \div ALIGN) * ALIGN
AlignUpBy(a, align) == ((a + align - 1) \div align) * align

WordAlignInward(s) == Span(AlignUp(s.base), AlignDown(s.acme))

\* utils.rs: is_chunk_size
IsChunkSize(base, acme) == acme - base >= MIN_CHUNK_SIZE

ASSUME \A s \in ARENAS : ~SpanContains(s, NULL)

(***************************************************************************)
(* The arena memory.                                                       *)
(***************************************************************************)
MemLo == Min({AlignUp(s.base) : s \in ARENAS})
MemHi == Max({s.acme : s \in ARENAS})
Words == {a \in MemLo .. MemHi - 1 : a % WORD = 0}

\* The kinds of word the allocator writes, plus client data.
TagW(acme, below_free) == [k |-> "tag", v |-> acme, bf |-> below_free]
PtrW(to) == [k |-> "ptr", v |-> to, bf |-> FALSE]
SizeW(n) == [k |-> "size", v |-> n, bf |-> FALSE]
NodeW == [k |-> "node", v |-> 0, bf |-> FALSE]
BinW == [k |-> "bin", v |-> 0, bf |-> FALSE]
DataW == [k |-> "data", v |-> 0, bf |-> FALSE]

Rd(h, a) == IF a \in DOMAIN h.mem THEN h.mem[a] ELSE DataW

Fail(h) == [h EXCEPT !.fault = TRUE]
Check(h, cond) == IF cond THEN h ELSE Fail(h)
Wr(h, a, w) == IF a \in DOMAIN h.mem THEN [h EXCEPT !.mem[a] = w] ELSE Fail(h)

\* The client writing n bytes at p: every word the bytes touch is overwritten.
ClientWrite(h, p, n) ==
  [h EXCEPT !.mem = [a \in DOMAIN h.mem |-> IF p <= a /\ a < p + n THEN DataW ELSE h.mem[a]]]

(***************************************************************************)
(* Tag (tag.rs): the word below every allocated chunk.                     *)
(***************************************************************************)
SetBelowFree(h, tag_ptr) ==
  [Check(h, Rd(h, tag_ptr).k = "tag") EXCEPT !.mem[tag_ptr].bf = TRUE]
TagClearBelowFree(h, tag_ptr) ==
  [Check(h, Rd(h, tag_ptr).k = "tag") EXCEPT !.mem[tag_ptr].bf = FALSE]
SetAcme(h, tag_ptr, acme) ==
  [Check(h, Rd(h, tag_ptr).k = "tag") EXCEPT !.mem[tag_ptr].v = acme]

\* FreeChunk: the node occupies the first two words, the low size word follows.
ChunkSizeAt(h, base) == Rd(h, base + NODE_SIZE).v

\* utils.rs chunk_ptr_from_alloc_ptr: the tag address of an allocation.
TagPtrOf(h, ptr) ==
  LET w == AlignDown(ptr - TAG_SIZE)
  IN  IF Rd(h, w).k = "ptr" THEN Rd(h, w).v ELSE w

\* The word at a tag address must be a tag; otherwise the code reads garbage.
RecoverTag(h, ptr) == Check(h, Rd(h, TagPtrOf(h, ptr)).k = "tag")

\* utils.rs identify_above: the low bit of the word at chunk_acme.
IsAboveFree(h, acme) == Rd(h, acme).k = "node"
CheckAbove(h, acme) == Check(h, Rd(h, acme).k \in {"tag", "node"})

(***************************************************************************)
(* Bins (utils.rs bin_of_size, lib.rs next_bin).                           *)
(***************************************************************************)
RECURSIVE Log2(_)
Log2(n) == IF n <= 1 THEN 0 ELSE 1 + Log2(n \div 2)

\* One bin per ALIGN step from MIN_CHUNK_SIZE for the first HALF_BINS bins,
\* then one bin per doubling, the last bin taking everything above.
BinOfSize(size) ==
  LET small_acme == MIN_CHUNK_SIZE + HALF_BINS * ALIGN
  IN  IF size < small_acme
      THEN Max({0, (size - MIN_CHUNK_SIZE) \div ALIGN})
      ELSE Min({BIN_COUNT - 1, HALF_BINS + Log2(size \div small_acme)})

Toggle(bits, i) == IF i \in bits THEN bits \ {i} ELSE bits \cup {i}

\* Seeded bug: the high word's bit is not offset by HALF_BINS.
SetAvails_NoOffset(h, b) ==
  IF b < HALF_BINS
  THEN [h EXCEPT !.availability_low = Toggle(@, b)]
  ELSE [h EXCEPT !.availability_high = Toggle(@, b)]

\* set_avails: the bit must be clear; it is flipped with XOR.
SetAvails(h, b) ==
  IF b < HALF_BINS
  THEN [Check(h, b \notin h.availability_low)
          EXCEPT !.availability_low = Toggle(@, b)]
  ELSE [Check(h, (b - HALF_BINS) \notin h.availability_high)
          EXCEPT !.availability_high = Toggle(@, b - HALF_BINS)]

\* clear_avails: the bit is flipped with XOR and must then be clear.
ClearAvails(h, b) ==
  IF b < HALF_BINS
  THEN LET h1 == [h EXCEPT !.availability_low = Toggle(@, b)]
       IN  Check(h1, b \notin h1.availability_low)
  ELSE LET h1 == [h EXCEPT !.availability_high = Toggle(@, b - HALF_BINS)]
       IN  Check(h1, (b - HALF_BINS) \notin h1.availability_high)

\* Seeded bug: a miss in the low word does not fall through to the high one.
NextBin_NoHighFallback(h, bin) ==
  IF bin < HALF_BINS
  THEN LET shifted == {x \in h.availability_low : x >= bin}
       IN  IF shifted # {} THEN Min(shifted) ELSE NONE
  ELSE IF bin < BIN_COUNT
  THEN LET shifted == {x \in h.availability_high : x >= bin - HALF_BINS}
       IN  IF shifted # {} THEN Min(shifted) + HALF_BINS ELSE NONE
  ELSE NONE

\* next_bin: the least bin >= bin whose availability bit is set, or NONE.
NextBin(h, bin) ==
  IF bin < HALF_BINS
  THEN LET shifted == {x \in h.availability_low : x >= bin}
       IN  IF shifted # {} THEN Min(shifted)
           ELSE IF h.availability_high # {} THEN Min(h.availability_high) + HALF_BINS
           ELSE NONE
  ELSE IF bin < BIN_COUNT
  THEN LET shifted == {x \in h.availability_high : x >= bin - HALF_BINS}
       IN  IF shifted # {} THEN Min(shifted) + HALF_BINS ELSE NONE
  ELSE NONE

(***************************************************************************)
(* register / deregister: the bookkeeping of free chunks.                  *)
(***************************************************************************)
Register(h, base, acme) ==
  LET size == acme - base
      b    == BinOfSize(size)
      h1   == Check(h, IsChunkSize(base, acme))
      h2   == IF h1.bins[b] = <<>> THEN SetAvails(h1, b) ELSE h1
      h3   == [h2 EXCEPT !.bins[b] = <<base>> \o @]      \* LlistNode::insert at the head
      h4   == Wr(Wr(h3, base, NodeW), base + WORD, NodeW)
  IN  Wr(Wr(h4, base + NODE_SIZE, SizeW(size)), acme - WORD, SizeW(size))

\* Seeded bug: the availability bit is left set when the bin empties.
Deregister_KeepAvail(h, node, b) ==
  [h EXCEPT !.bins = [x \in BinIds |-> Remove(h.bins[x], node)]]

\* LlistNode::remove splices the node out of whichever list holds it; `b`
\* only decides which availability bit is cleared.
Deregister(h, node, b) ==
  LET listed == \E x \in BinIds : Contains(h.bins[x], node)
      h1 == Check(h, h.bins[b] # <<>> /\ listed /\ Rd(h, node).k = "node")
      h2 == [h1 EXCEPT !.bins = [x \in BinIds |-> Remove(h1.bins[x], node)]]
  IN  IF h2.bins[b] = <<>> THEN ClearAvails(h2, b) ELSE h2

\* clear_below_free: clear the flag of the tag at chunk_acme, or is_top_free.
ClearBelowFree(h, chunk_acme) ==
  IF chunk_acme # h.allocatable_acme
  THEN TagClearBelowFree(h, chunk_acme)
  ELSE [Check(h, h.is_top_free) EXCEPT !.is_top_free = FALSE]

(***************************************************************************)
(* scan_for_errors: the debug build's assert!s (lib.rs 919-985), run at    *)
(* the end of every method.  A listed node's size words, the tag above it  *)
(* and the bitmap are read and compared; any failed assert! is a fault.    *)
(***************************************************************************)
AvailBit(h, b) ==
  IF b < HALF_BINS THEN b \in h.availability_low ELSE b - HALF_BINS \in h.availability_high

NodeScanOk(h, node) ==
  LET low_size == Rd(h, node + NODE_SIZE)
      acme == node + low_size.v
  IN  /\ low_size.k = "size"
      /\ Rd(h, acme - TAG_SIZE) = SizeW(low_size.v)
      /\ acme <= h.allocatable_acme
      /\ IF acme < h.allocatable_acme
         THEN Rd(h, acme).k = "tag" /\ Rd(h, acme).bf
         ELSE h.is_top_free

ScanOk(h) ==
  /\ h.allocatable_acme >= h.allocatable_base
  /\ ContainsSpan(h.arena, Span(h.allocatable_base, h.allocatable_acme))
  /\ IF h.bins_ptr # NULL
     THEN /\ h.allocatable_base # NULL
          /\ h.allocatable_acme # NULL
          /\ \A b \in BinIds :
               /\ AvailBit(h, b) <=> h.bins[b] # <<>>
               /\ \A node \in ToSet(h.bins[b]) : NodeScanOk(h, node)
     ELSE h.allocatable_base = NULL /\ h.allocatable_acme = NULL

ScanForErrors(h) == Check(h, ScanOk(h))

(***************************************************************************)
(* Talc::new, init and extend.                                             *)
(***************************************************************************)
New ==
  [arena             |-> EmptySpan,
   allocatable_base  |-> NULL,
   allocatable_acme  |-> NULL,
   is_top_free       |-> TRUE,
   availability_low  |-> {},
   availability_high |-> {},
   bins              |-> [b \in BinIds |-> <<>>],
   bins_ptr          |-> NULL,
   mem               |-> [a \in Words |-> DataW],
   fault             |-> FALSE]

Init_(h, arena) ==
  LET h0 == [h EXCEPT !.arena = arena, !.availability_low = {}, !.availability_high = {}]
      aligned == WordAlignInward(arena)
      base == aligned.base
      acme == aligned.acme
      metadata_ptr == AlignUp(base + TAG_SIZE)       \* BIN_ALIGNMENT = WORD
      metadata_acme == metadata_ptr + BIN_ARRAY_SIZE
      h1 == [h0 EXCEPT !.allocatable_base = base, !.allocatable_acme = acme,
                       !.bins = [b \in BinIds |-> <<>>], !.bins_ptr = metadata_ptr,
                       !.mem = [a \in DOMAIN h0.mem |->
                                 IF metadata_ptr <= a /\ a < metadata_acme
                                 THEN BinW ELSE h0.mem[a]]]
      h2 == Wr(h1, base, TagW(metadata_acme, FALSE))
  IN  ScanForErrors(
        IF ~IsEmptySpan(aligned) /\ acme - metadata_ptr > BIN_ARRAY_SIZE
        THEN IF IsChunkSize(metadata_acme, acme)
             THEN [Register(h2, metadata_acme, acme) EXCEPT !.is_top_free = TRUE]
             ELSE [h2 EXCEPT !.is_top_free = FALSE]
        \* the fall-through (683-685) leaves self.bins as it was
        ELSE [h0 EXCEPT !.allocatable_base = NULL, !.allocatable_acme = NULL,
                        !.is_top_free = FALSE])

\* Talc::with_arena: Talc::new() followed by init(arena).
WithArena(arena) == Init_(New, arena)

\* Seeded bug: the grown top free chunk is registered up to the old acme.
ExtendTop_OldAcme(h, old_alloc_acme) ==
  IF h.is_top_free
  THEN LET top_size == Rd(h, old_alloc_acme - WORD).v
           top_base == old_alloc_acme - top_size
           h1 == Check(h, Rd(h, old_alloc_acme - WORD).k = "size")
       IN  Register(Deregister(h1, top_base, BinOfSize(top_size)), top_base, old_alloc_acme)
  ELSE IF h.allocatable_acme - old_alloc_acme > MIN_CHUNK_SIZE
  THEN [Register(h, old_alloc_acme, h.allocatable_acme) EXCEPT !.is_top_free = TRUE]
  ELSE [h EXCEPT !.allocatable_acme = old_alloc_acme]

\* The top half of extend: grow the top free chunk or add one above.
ExtendTop(h, old_alloc_acme) ==
  IF h.is_top_free
  THEN LET top_size == Rd(h, old_alloc_acme - WORD).v
           top_base == old_alloc_acme - top_size
           h1 == Check(h, Rd(h, old_alloc_acme - WORD).k = "size")
       IN  Register(Deregister(h1, top_base, BinOfSize(top_size)), top_base, h.allocatable_acme)
  ELSE IF h.allocatable_acme - old_alloc_acme > MIN_CHUNK_SIZE
  THEN [Register(h, old_alloc_acme, h.allocatable_acme) EXCEPT !.is_top_free = TRUE]
  ELSE [h EXCEPT !.allocatable_acme = old_alloc_acme]

\* Seeded bug: the bottom chunk is taken to be free without looking.
ExtendBottom_Unchecked(h, old_alloc_base) ==
  LET bottom_size == ChunkSizeAt(h, old_alloc_base)
  IN  Register(Deregister(h, old_alloc_base, BinOfSize(bottom_size)),
               h.allocatable_base, old_alloc_base + bottom_size)

\* The bottom half of extend: grow the bottom free chunk or add one below.
ExtendBottom(h, old_alloc_base) ==
  IF Rd(h, old_alloc_base).k # "tag"
  THEN LET bottom_size == ChunkSizeAt(h, old_alloc_base)
           h1 == Check(h, Rd(h, old_alloc_base + NODE_SIZE).k = "size")
       IN  Register(Deregister(h1, old_alloc_base, BinOfSize(bottom_size)),
                    h.allocatable_base, old_alloc_base + bottom_size)
  ELSE IF old_alloc_base - h.allocatable_base > MIN_CHUNK_SIZE
  THEN SetBelowFree(Register(h, h.allocatable_base, old_alloc_base), old_alloc_base)
  ELSE [h EXCEPT !.allocatable_base = old_alloc_base]

Extend(h, new_arena) ==
  IF ~IsChunkSize(h.allocatable_base, h.allocatable_acme)
  THEN Init_(h, new_arena)
  ELSE LET aligned == WordAlignInward(new_arena)
           h1 == [h EXCEPT !.arena = new_arena,
                           !.allocatable_base = aligned.base,
                           !.allocatable_acme = aligned.acme]
           h2 == Check(h1, aligned.acme - aligned.base >= MIN_CHUNK_SIZE)  \* unreachable!()
       IN  ScanForErrors(ExtendBottom(ExtendTop(h2, h.allocatable_acme), h.allocatable_base))

(***************************************************************************)
(* malloc and the chunk search.                                            *)
(***************************************************************************)
RequiredChunkSize(size) ==
  IF size <= MIN_CHUNK_SIZE - TAG_SIZE THEN MIN_CHUNK_SIZE
  ELSE AlignUp(size + TAG_SIZE)

\* Seeded bug: the allocation's size is left out of the required acme.
RequiredAcme_NoSize(alloc_base, size, tag_ptr) ==
  Max({AlignUp(alloc_base), tag_ptr + MIN_CHUNK_SIZE})

\* utils.rs required_acme: the chunk acme an allocation needs, never less
\* than a minimum chunk above its tag (the same rule grow and shrink use).
RequiredAcme(alloc_base, size, tag_ptr) ==
  Max({AlignUp(alloc_base + size), tag_ptr + MIN_CHUNK_SIZE})

\* Both loops of get_sufficient_chunk: the fast one (align <= ALIGN) takes
\* any chunk of the required size; the over-aligned one also needs the
\* aligned pointer's allocation to end below the chunk acme.
Accepts(h, base, layout) ==
  LET size == ChunkSizeAt(h, base)
  IN  /\ size >= RequiredChunkSize(layout.size)
      /\ layout.align > ALIGN =>
           AlignUpBy(base + TAG_SIZE, layout.align) + layout.size <= base + size

\* Seeded bug: the over-aligned path returns the fast path's pointer.
AllocBase_NoAlign(base, layout) == base + TAG_SIZE

AllocBase(base, layout) ==
  IF layout.align <= ALIGN THEN base + TAG_SIZE
  ELSE AlignUpBy(base + TAG_SIZE, layout.align)

\* Walk the bins from `bin` upwards (by next_bin) and each list in order;
\* the first accepted chunk wins.
RECURSIVE SearchBins(_, _, _)
SearchBins(h, bin, layout) ==
  IF bin = NONE THEN [bin |-> NONE, base |-> NULL]
  ELSE LET list == h.bins[bin]
           hits == {i \in 1 .. Len(list) : Accepts(h, list[i], layout)}
       IN  IF hits # {} THEN [bin |-> bin, base |-> list[Min(hits)]]
           ELSE SearchBins(h, NextBin(h, bin + 1), layout)

FirstFit(h, layout) ==
  SearchBins(h, NextBin(h, BinOfSize(RequiredChunkSize(layout.size))), layout)

\* get_sufficient_chunk: returns the heap with the chosen chunk `r`
\* deregistered, or None.
TakeChunk(h, r, layout) ==
  IF r.bin = NONE
  THEN [found |-> FALSE, h |-> h, base |-> NULL, acme |-> NULL, alloc |-> NULL]
  ELSE [found |-> TRUE,
        h     |-> Deregister(h, r.base, r.bin),
        base  |-> r.base,
        acme  |-> r.base + ChunkSizeAt(h, r.base),
        alloc |-> AllocBase(r.base, layout)]

GetSufficientChunk(h, layout) == TakeChunk(h, FirstFit(h, layout), layout)

\* The loop of malloc around the OOM handler.  `oom` is what the handler
\* does when it is first called: OomFails (alloc_error: return Err) or an
\* arena it passes to extend before returning Ok.  Called again, it fails.
OomFails == Span(NONE, NONE)

\* `r` is the first search's result; the handler's Ok is followed by a retry.
OomRetry(h, r, layout, oom) ==
  IF r.found \/ oom = OomFails THEN r
  ELSE GetSufficientChunk(Extend(h, oom), layout)

MallocChunk(h, layout, oom) == OomRetry(h, GetSufficientChunk(h, layout), layout, oom)

\* malloc after the chunk is found: carve the low remainder, place the tag
\* (and the tag pointer below the allocation), carve the high remainder.
\* The high end of malloc: register the space above req_acme, or hand the
\* whole chunk out and clear the flag above it; then write the tag.
\* Seeded bug: the tag is written without the is_below_free flag.
CarveHigh_NoBelowFree(h, tag_ptr, is_below_free, req_acme, chunk_acme) ==
  IF IsChunkSize(req_acme, chunk_acme)
  THEN Wr(Register(h, req_acme, chunk_acme), tag_ptr, TagW(req_acme, FALSE))
  ELSE Wr(ClearBelowFree(h, chunk_acme), tag_ptr, TagW(chunk_acme, FALSE))

CarveHigh(h, tag_ptr, is_below_free, req_acme, chunk_acme) ==
  IF IsChunkSize(req_acme, chunk_acme)
  THEN Wr(Register(h, req_acme, chunk_acme), tag_ptr, TagW(req_acme, is_below_free))
  ELSE Wr(ClearBelowFree(h, chunk_acme), tag_ptr, TagW(chunk_acme, is_below_free))

MallocCarve(h, chunk_base, chunk_acme, alloc_base, size) ==
  LET pre_alloc_ptr == AlignDown(alloc_base - TAG_SIZE)
      tag0 == Min({chunk_acme - MIN_CHUNK_SIZE, pre_alloc_ptr})
      is_below_free == IsChunkSize(chunk_base, tag0)
      tag_ptr == IF is_below_free THEN tag0 ELSE chunk_base
      h1 == IF is_below_free THEN Register(h, chunk_base, tag0) ELSE h
  IN  CarveHigh(IF tag_ptr # pre_alloc_ptr THEN Wr(h1, pre_alloc_ptr, PtrW(tag_ptr)) ELSE h1,
                tag_ptr, is_below_free, RequiredAcme(alloc_base, size, tag_ptr), chunk_acme)

\* malloc after the search `r`: the heap afterwards and the pointer
\* returned (NULL for AllocError).
MallocReturn(r, size) ==
  IF ~r.found THEN [h |-> r.h, ptr |-> NULL]
  ELSE [h |-> ScanForErrors(MallocCarve(r.h, r.base, r.acme, r.alloc, size)), ptr |-> r.alloc]

Malloc(h, layout, oom) == MallocReturn(MallocChunk(h, layout, oom), layout.size)

(***************************************************************************)
(* free, grow, shrink.                                                     *)
(***************************************************************************)
\* The upward half of free and shrink, for a chunk ending at acme0: tell the
\* allocated chunk above that its lower neighbour is free, or take the free
\* chunk above out of its bin, or (at the top of the heap) set is_top_free.
AboveIsFree(h, acme0) == acme0 # h.allocatable_acme /\ IsAboveFree(h, acme0)

\* Seeded bug: an allocated chunk above is not told its neighbour is free.
CoalesceAbove_NoFlag(h, acme0) ==
  IF acme0 # h.allocatable_acme
  THEN IF IsAboveFree(h, acme0)
       THEN Deregister(h, acme0, BinOfSize(ChunkSizeAt(h, acme0)))
       ELSE CheckAbove(h, acme0)
  ELSE [Check(h, ~h.is_top_free) EXCEPT !.is_top_free = TRUE]

CoalesceAbove(h, acme0) ==
  IF acme0 # h.allocatable_acme
  THEN IF IsAboveFree(h, acme0)
       THEN Deregister(h, acme0, BinOfSize(ChunkSizeAt(h, acme0)))
       ELSE SetBelowFree(CheckAbove(h, acme0), acme0)
  ELSE [Check(h, ~h.is_top_free) EXCEPT !.is_top_free = TRUE]

\* Seeded bug: the free chunk above is taken out of its bin but not merged.
CoalescedAcme_NoMerge(h, acme0) == acme0

CoalescedAcme(h, acme0) ==
  IF AboveIsFree(h, acme0) THEN acme0 + ChunkSizeAt(h, acme0) ELSE acme0

\* Seeded bug: the lower neighbour's size is read at the tag, not below it.
FreeBelow_LowSizeAtTag(h, chunk_ptr, is_below_free, chunk_acme) ==
  LET low_size == Rd(h, chunk_ptr).v
      base == IF is_below_free THEN chunk_ptr - low_size ELSE chunk_ptr
  IN  Register(IF is_below_free
               THEN Deregister(Check(h, Rd(h, chunk_ptr).k = "size"),
                               base, BinOfSize(low_size))
               ELSE h,
               base, chunk_acme)

\* The downward half of free: if the tag said the chunk below is free, read
\* its size from the word under the tag and take it out of its bin; then
\* register the whole coalesced chunk.
FreeBelow(h, chunk_ptr, is_below_free, chunk_acme) ==
  LET low_size == Rd(h, chunk_ptr - WORD).v
      base == IF is_below_free THEN chunk_ptr - low_size ELSE chunk_ptr
  IN  Register(IF is_below_free
               THEN Deregister(Check(h, Rd(h, chunk_ptr - WORD).k = "size"),
                               base, BinOfSize(low_size))
               ELSE h,
               base, chunk_acme)

\* free: `tag` is the copy read before any write; the upward half decides
\* chunk_acme from the memory as it was on entry.
Free(h, ptr) ==
  LET chunk_ptr == TagPtrOf(h, ptr)
      tag == Rd(h, chunk_ptr)
  IN  ScanForErrors(
        FreeBelow(CoalesceAbove(Check(RecoverTag(h, ptr), IsChunkSize(chunk_ptr, tag.v)), tag.v),
                  chunk_ptr, tag.bf, CoalescedAcme(h, tag.v)))

\* The in-place branch of grow: the free chunk above reaches new_req_acme;
\* split it if the rest is a chunk, else absorb all of it.
GrowInPlace(h, chunk_ptr, chunk_acme, above_acme, new_req_acme) ==
  LET h1 == Deregister(h, chunk_acme, BinOfSize(above_acme - chunk_acme))
  IN  IF IsChunkSize(new_req_acme, above_acme)
      THEN SetAcme(Register(h1, new_req_acme, above_acme), chunk_ptr, new_req_acme)
      ELSE SetAcme(ClearBelowFree(h1, above_acme), chunk_ptr, above_acme)

\* Seeded bug: the old block is not freed after the copy.
GrowMoved_NoFree(moved, ptr, layout) ==
  IF moved.ptr = NULL THEN [h |-> moved.h, ptr |-> NULL]
  ELSE [h |-> ScanForErrors(ClientWrite(moved.h, moved.ptr, layout.size)),
        ptr |-> moved.ptr]

\* The reallocating branch of grow, after malloc returned `moved`: copy the
\* old contents and free the old block, or return the error.
GrowMoved(moved, ptr, layout) ==
  IF moved.ptr = NULL THEN [h |-> moved.h, ptr |-> NULL]
  ELSE [h |-> ScanForErrors(Free(ClientWrite(moved.h, moved.ptr, layout.size), ptr)),
        ptr |-> moved.ptr]

\* grow: the heap afterwards and the pointer returned (NULL for AllocError).
Grow(h, ptr, layout, new_size, oom) ==
  LET chunk_ptr == TagPtrOf(h, ptr)
      chunk_acme == Rd(h, chunk_ptr).v
      h0 == Check(RecoverTag(h, ptr), IsChunkSize(chunk_ptr, chunk_acme))
      new_req_acme == Max({AlignUp(ptr + new_size), chunk_ptr + MIN_CHUNK_SIZE})
      above_acme == chunk_acme + ChunkSizeAt(h, chunk_acme)
      h1 == IF chunk_acme # h.allocatable_acme THEN CheckAbove(h0, chunk_acme) ELSE h0
  IN  CASE new_req_acme <= chunk_acme -> [h |-> h0, ptr |-> ptr]
        [] AboveIsFree(h, chunk_acme) /\ above_acme >= new_req_acme ->
             [h |-> ScanForErrors(GrowInPlace(h1, chunk_ptr, chunk_acme, above_acme, new_req_acme)),
              ptr |-> ptr]
        [] OTHER ->
             GrowMoved(Malloc(ScanForErrors(h1), [size |-> new_size, align |-> layout.align], oom),
                       ptr, layout)

\* shrink: lib.rs:480 computes the required acme from layout.size(), the
\* OLD size, and not from new_size.
Shrink(h, ptr, layout, new_size) ==
  LET chunk_ptr == TagPtrOf(h, ptr)
      acme0 == Rd(h, chunk_ptr).v
      h0 == Check(RecoverTag(h, ptr), IsChunkSize(chunk_ptr, acme0))
      new_req_acme == Max({AlignUp(ptr + layout.size), chunk_ptr + MIN_CHUNK_SIZE})
      h1 == CoalesceAbove(h0, acme0)
  IN  ScanForErrors(
        IF IsChunkSize(new_req_acme, acme0)
        THEN SetAcme(Register(h1, new_req_acme, CoalescedAcme(h0, acme0)), chunk_ptr, new_req_acme)
        ELSE h0)

(***************************************************************************)
(* get_allocated_span and truncate.                                        *)
(***************************************************************************)
\* Seeded bug: the top chunk is shaved off without looking at is_top_free.
GetAllocatedSpan_NoTopFlag(h) ==
  LET base == h.allocatable_base
      acme == h.allocatable_acme
  IN  IF MIN_CHUNK_SIZE > acme - base THEN EmptySpan
      ELSE Span(IF Rd(h, base).k # "tag" THEN base + ChunkSizeAt(h, base) ELSE base,
                acme - Rd(h, acme - WORD).v)

\* Seeded bug: the bottom chunk is shaved off by the top chunk's size.
GetAllocatedSpan_TopForBottom(h) ==
  LET base == h.allocatable_base
      acme == h.allocatable_acme
  IN  IF MIN_CHUNK_SIZE > acme - base THEN EmptySpan
      ELSE Span(IF Rd(h, base).k # "tag" THEN base + Rd(h, acme - WORD).v ELSE base,
                IF h.is_top_free THEN acme - Rd(h, acme - WORD).v ELSE acme)

\* get_allocatable_span: the span in which allocations may be placed.
GetAllocatableSpan(h) == Span(h.allocatable_base, h.allocatable_acme)

GetAllocatedSpan(h) ==
  LET base == h.allocatable_base
      acme == h.allocatable_acme
  IN  IF MIN_CHUNK_SIZE > acme - base THEN EmptySpan
      ELSE Span(IF Rd(h, base).k # "tag" THEN base + ChunkSizeAt(h, base) ELSE base,
                IF h.is_top_free THEN acme - Rd(h, acme - WORD).v ELSE acme)

TruncateTop(h, new_alloc_acme) ==
  IF new_alloc_acme >= h.allocatable_acme THEN h
  ELSE LET top_word == Rd(h, h.allocatable_acme - WORD)
           top_base == h.allocatable_acme - top_word.v
           h1 == Deregister(Check(h, h.is_top_free /\ top_word.k = "size"),
                            top_base, BinOfSize(top_word.v))
       IN  IF IsChunkSize(top_base, new_alloc_acme)
           THEN Register([h1 EXCEPT !.allocatable_acme = new_alloc_acme], top_base, new_alloc_acme)
           ELSE [h1 EXCEPT !.allocatable_acme = top_base, !.is_top_free = FALSE]

\* Seeded bug: the new bottom chunk keeps its is_below_free flag when the
\* free chunk below it is dropped.
TruncateBottom_NoClear(h, new_alloc_base) ==
  IF new_alloc_base <= h.allocatable_base THEN h
  ELSE LET base_size == ChunkSizeAt(h, h.allocatable_base)
           base_acme == h.allocatable_base + base_size
           h1 == Deregister(Check(h, Rd(h, h.allocatable_base + NODE_SIZE).k = "size"),
                            h.allocatable_base, BinOfSize(base_size))
       IN  IF IsChunkSize(new_alloc_base, base_acme)
           THEN Register([h1 EXCEPT !.allocatable_base = new_alloc_base], new_alloc_base, base_acme)
           ELSE Check([h1 EXCEPT !.allocatable_base = base_acme],
                      base_acme # h1.allocatable_acme)

\* Seeded bug: the old bottom chunk stays registered when it is cut down.
TruncateBottom_KeepOld(h, new_alloc_base) ==
  IF new_alloc_base <= h.allocatable_base THEN h
  ELSE LET base_size == ChunkSizeAt(h, h.allocatable_base)
           base_acme == h.allocatable_base + base_size
           h0 == Check(h, Rd(h, h.allocatable_base + NODE_SIZE).k = "size")
           h1 == Deregister(h0, h.allocatable_base, BinOfSize(base_size))
       IN  IF IsChunkSize(new_alloc_base, base_acme)
           THEN Register([h0 EXCEPT !.allocatable_base = new_alloc_base], new_alloc_base, base_acme)
           ELSE TagClearBelowFree(Check([h1 EXCEPT !.allocatable_base = base_acme],
                                        base_acme # h1.allocatable_acme), base_acme)

TruncateBottom(h, new_alloc_base) ==
  IF new_alloc_base <= h.allocatable_base THEN h
  ELSE LET base_size == ChunkSizeAt(h, h.allocatable_base)
           base_acme == h.allocatable_base + base_size
           h1 == Deregister(Check(h, Rd(h, h.allocatable_base + NODE_SIZE).k = "size"),
                            h.allocatable_base, BinOfSize(base_size))
       IN  IF IsChunkSize(new_alloc_base, base_acme)
           THEN Register([h1 EXCEPT !.allocatable_base = new_alloc_base], new_alloc_base, base_acme)
           ELSE TagClearBelowFree(Check([h1 EXCEPT !.allocatable_base = base_acme],
                                        base_acme # h1.allocatable_acme), base_acme)

Truncate(h, new_arena) ==
  LET s == WordAlignInward(new_arena)
  IN  IF h.allocatable_base = NULL \/ h.allocatable_acme = NULL
         \/ IsEmptySpan(s) \/ ~IsChunkSize(s.base, s.acme)
      THEN Init_(h, new_arena)
      ELSE ScanForErrors(TruncateBottom(TruncateTop([h EXCEPT !.arena = new_arena], s.acme), s.base))

(***************************************************************************)
(* The client: a single thread calling the public methods with layouts     *)
(* from SIZES x ALIGNS, honouring every documented precondition (a method  *)
(* whose assert! would panic is not called), and writing the whole of      *)
(* every block it is handed.  `live` holds the blocks it owns.              *)
(***************************************************************************)
VARIABLES h, live

vars == <<h, live>>

Layouts == [size : SIZES, align : ALIGNS]
Block(p, l) == [ptr |-> p, size |-> l.size, align |-> l.align]

\* What the OOM handler may do when it is called: fail, or extend to an
\* arena containing the current one.
OomChoices == {OomFails} \cup {a \in ARENAS : ContainsSpan(a, h.arena) /\ a # h.arena}

Init == h = New /\ live = {}

\* A heap on which the code has read garbage or failed a debug_assert! is
\* in a state lib.rs gives no meaning to; the client makes no further call.
Usable == ~h.fault

\* init, on the heap Talc::new() built or, where REINIT holds, again on an
\* initialised heap the client holds no block of (a block of the old arena
\* would be invalidated, so a client holding one has no reason to call it).
InitHeap(arena) ==
  /\ Usable
  /\ h.arena = EmptySpan \/ (REINIT /\ live = {})
  /\ h' = Init_(h, arena)
  /\ UNCHANGED live

\* The client receiving `r` for its request of layout l: on success it
\* owns the block and writes all of it.
Receive(r, l) ==
  IF r.ptr = NULL
  THEN h' = r.h /\ UNCHANGED live
  ELSE /\ h' = ClientWrite(r.h, r.ptr, l.size)
       /\ live' = live \cup {Block(r.ptr, l)}

DoMalloc(l, oom) ==
  /\ Usable
  /\ Cardinality(live) < MAX_LIVE
  /\ Receive(Malloc(h, l, oom), l)

DoFree(b) ==
  /\ Usable
  /\ h' = Free(h, b.ptr)
  /\ live' = live \ {b}

\* The client receiving `r` for growing b: on success b is replaced by the
\* grown block, which it writes all of; on AllocError it still owns b.
ReceiveGrown(r, b, new_size) ==
  IF r.ptr = NULL
  THEN h' = r.h /\ UNCHANGED live
  ELSE /\ h' = ClientWrite(r.h, r.ptr, new_size)
       /\ live' = (live \ {b}) \cup {[b EXCEPT !.ptr = r.ptr, !.size = new_size]}

DoGrow(b, new_size, oom) ==
  /\ Usable
  /\ new_size >= b.size
  /\ ReceiveGrown(Grow(h, b.ptr, b, new_size, oom), b, new_size)

DoShrink(b, new_size) ==
  /\ Usable
  /\ new_size <= b.size
  /\ h' = Shrink(h, b.ptr, b, new_size)
  /\ live' = (live \ {b}) \cup {[b EXCEPT !.size = new_size]}

\* extend: assert!s that the new arena contains the old one and not null.
DoExtend(arena) ==
  /\ Usable
  /\ ContainsSpan(arena, h.arena)
  /\ h' = Extend(h, arena)
  /\ UNCHANGED live

\* Seeded bug: the assert! that the new arena covers get_allocated_span()
\* is missing.
DoTruncate_NoSpanAssert(arena) ==
  /\ Usable
  /\ ContainsSpan(h.arena, arena)
  /\ h' = Truncate(h, arena)
  /\ UNCHANGED live

\* truncate: assert!s that the old arena contains the new one and that the
\* new one contains get_allocated_span().
DoTruncate(arena) ==
  /\ Usable
  /\ ContainsSpan(h.arena, arena)
  /\ ContainsSpan(WordAlignInward(arena), GetAllocatedSpan(h))
  /\ h' = Truncate(h, arena)
  /\ UNCHANGED live

Next ==
  \/ \E a \in ARENAS : InitHeap(a)
  \/ \E l \in Layouts, oom \in OomChoices : DoMalloc(l, oom)
  \/ \E b \in live : DoFree(b)
  \/ \E b \in live, n \in SIZES, oom \in OomChoices : DoGrow(b, n, oom)
  \/ \E b \in live, n \in SIZES : DoShrink(b, n)
  \/ \E a \in ARENAS : DoExtend(a)
  \/ \E a \in ARENAS : DoTruncate(a)

Spec == Init /\ [][Next]_vars

(***************************************************************************)
(* The chunks of the heap, read from memory: from allocatable_base, an     *)
(* allocated chunk ends at its tag's acme, a free chunk at base + size.    *)
(* A word that is neither, or an acme outside the heap, ends the walk with *)
(* a chunk marked not ok.                                                  *)
(***************************************************************************)
RECURSIVE WalkFrom(_, _)
WalkFrom(hp, a) ==
  IF a >= hp.allocatable_acme THEN <<>>
  ELSE LET w   == Rd(hp, a)
           nxt == CASE w.k = "tag"  -> w.v
                    [] w.k = "node" -> a + ChunkSizeAt(hp, a)
                    [] OTHER        -> a
       IN  IF nxt <= a \/ nxt > hp.allocatable_acme
           THEN <<[base |-> a, acme |-> a, free |-> FALSE, ok |-> FALSE]>>
           ELSE <<[base |-> a, acme |-> nxt, free |-> w.k = "node", ok |-> TRUE]>>
                  \o WalkFrom(hp, nxt)

Chunks(hp) == IF hp.allocatable_acme = NULL THEN <<>> ELSE WalkFrom(hp, hp.allocatable_base)

FreeChunks(hp) == {c \in ToSet(Chunks(hp)) : c.free}

\* A free chunk can hold a layout iff some pointer aligned to the layout
\* lies a tag above its base with the whole allocation below its acme.
CanHost(c, l) ==
  \E p \in c.base + TAG_SIZE .. c.acme - l.size :
     p % Max({l.align, ALIGN}) = 0

(***************************************************************************)
(* Properties.                                                             *)
(***************************************************************************)
MemWord == [k : {"tag", "ptr", "size", "node", "bin", "data"}, v : 0 .. MemHi, bf : BOOLEAN]

TypeOK ==
  /\ h.arena \in ARENAS \cup {EmptySpan}
  /\ h.allocatable_base \in 0 .. MemHi /\ h.allocatable_acme \in 0 .. MemHi
  /\ h.is_top_free \in BOOLEAN
  /\ h.availability_low \subseteq 0 .. HALF_BINS - 1
  /\ h.availability_high \subseteq 0 .. HALF_BINS - 1
  /\ h.bins \in [BinIds -> Seq(Words)]
  /\ h.bins_ptr \in Words \cup {NULL}
  /\ h.mem \in [Words -> MemWord]
  /\ h.fault \in BOOLEAN
  /\ live \subseteq [ptr : Words, size : SIZES, align : ALIGNS]

\* Every read the code makes of in-arena metadata (tags, tag pointers, size
\* words, list nodes, the word above a chunk) finds the kind of word it
\* assumes, and no debug_assert! of lib.rs fails, whatever sequence of
\* malloc/free/grow/shrink/extend/truncate calls the client makes.
NoFault == ~h.fault

\* Spec I1 and I2: the heap between allocatable_base and allocatable_acme is
\* tiled by chunks of at least MIN_CHUNK_SIZE bytes, found by following tag
\* acmes and free-chunk sizes, and no two neighbouring chunks are free
\* (free, shrink and malloc's remainders always coalesce).
HeapTiled ==
  LET c == Chunks(h)
  IN  \A i \in 1 .. Len(c) :
        /\ c[i].ok
        /\ IsChunkSize(c[i].base, c[i].acme)
        /\ i < Len(c) => ~(c[i].free /\ c[i + 1].free)

\* Spec I5 and I6: an allocated chunk's is_below_free flag is set exactly
\* when the chunk below it is free, and is_top_free exactly when the top
\* chunk is free.  free's downward coalescing trusts the flag, malloc,
\* grow and truncate must clear it, extend must set it.
TagFlagsConsistent ==
  LET c == Chunks(h)
  IN  /\ \A i \in 1 .. Len(c) :
           ~c[i].free => (Rd(h, c[i].base).bf <=> (i > 1 /\ c[i - 1].free))
      /\ Len(c) > 0 => (h.is_top_free <=> c[Len(c)].free)

\* Spec I3 and I4: the bins list exactly the free chunks, each once and in
\* the bin of its size, both boundary size words of a free chunk equal its
\* size, and an availability bit is set exactly when its bin is non-empty.
BinsIndexFreeChunks ==
  LET fc == FreeChunks(h)
      listed == UNION {ToSet(h.bins[b]) : b \in BinIds}
  IN  /\ \A b \in BinIds : Len(h.bins[b]) = Cardinality(ToSet(h.bins[b]))
      /\ \A b1, b2 \in BinIds : b1 # b2 => ToSet(h.bins[b1]) \cap ToSet(h.bins[b2]) = {}
      /\ listed = {c.base : c \in fc}
      /\ \A c \in fc :
           /\ Contains(h.bins[BinOfSize(c.acme - c.base)], c.base)
           /\ Rd(h, c.acme - WORD) = SizeW(c.acme - c.base)
           /\ Rd(h, c.base + WORD) = NodeW
      /\ \A b \in 0 .. HALF_BINS - 1 :
           /\ b \in h.availability_low <=> h.bins[b] # <<>>
           /\ b \in h.availability_high <=> h.bins[b + HALF_BINS] # <<>>

\* Spec I7 and the ownership contract: every live block is aligned to
\* max(align, ALIGN), its tag (found through the tag pointer, as free and
\* grow find it) heads an allocated chunk holding the whole block, no two
\* blocks share a chunk, and no word of a live block has been written by
\* the allocator since the client wrote it.
LiveBlocksIntact ==
  LET c == Chunks(h)
  IN  /\ \A b \in live :
           /\ b.ptr % Max({b.align, ALIGN}) = 0
           /\ \A a \in Words : b.ptr <= a /\ a < b.ptr + b.size => h.mem[a] = DataW
           /\ \E i \in 1 .. Len(c) :
                /\ ~c[i].free
                /\ c[i].base = TagPtrOf(h, b.ptr)
                /\ c[i].base + TAG_SIZE <= b.ptr
                /\ b.ptr + b.size <= c[i].acme
      /\ \A b1, b2 \in live : b1 # b2 => TagPtrOf(h, b1.ptr) # TagPtrOf(h, b2.ptr)

\* First fit through bin_of_size, next_bin and the bin lists misses nothing:
\* whenever get_sufficient_chunk would find no chunk for a layout (and malloc
\* would call the OOM handler), no free chunk in the heap could hold it.
SearchComplete ==
  \A l \in Layouts :
     FirstFit(h, l).bin = NONE => \A c \in FreeChunks(h) : ~CanHost(c, l)

\* get_allocated_span covers every allocated chunk, the bin array's
\* included: truncate trusts it to decide what may be cut off.
AllocatedSpanCovers ==
  LET s == GetAllocatedSpan(h)
      c == Chunks(h)
  IN  \A i \in 1 .. Len(c) : ~c[i].free => s.base <= c[i].base /\ c[i].acme <= s.acme

\* Spec 4.8 (and the comment at lib.rs:485): shrink gives back the tail of
\* a block's chunk once it is at least MIN_CHUNK_SIZE long, so no live
\* block's chunk reaches MIN_CHUNK_SIZE or more beyond what the block needs,
\* max(align_up(ptr + size), chunk_base + MIN_CHUNK_SIZE).
ShrinkReleasesTail ==
  \A b \in live :
    LET t == TagPtrOf(h, b.ptr)
    IN  Rd(h, t).v - Max({AlignUp(b.ptr + b.size), t + MIN_CHUNK_SIZE}) < MIN_CHUNK_SIZE

\* Spec 4.9 and 4.10: extend turns a gain of at least MIN_CHUNK_SIZE at
\* either end into a free chunk and truncate absorbs at most
\* MIN_CHUNK_SIZE - 1 bytes, so an initialised heap leaves less than
\* MIN_CHUNK_SIZE bytes of the word-aligned arena unused at each end.
ArenaSlackBounded ==
  h.allocatable_acme # NULL =>
    LET a == WordAlignInward(h.arena)
    IN  /\ a.acme - h.allocatable_acme < MIN_CHUNK_SIZE
        /\ h.allocatable_base - a.base < MIN_CHUNK_SIZE

\* No allocated chunk is leaked: every allocated chunk except the one that
\* holds the bin array is the chunk of a live block.  grow's reallocation
\* must free the old chunk (lib.rs 453), free must release the whole chunk
\* it was given, and malloc's remainders must go back to the bins.
AllocatedChunksOwned ==
  \A c \in ToSet(Chunks(h)) :
     ~c.free /\ c.base + TAG_SIZE # h.bins_ptr =>
        \E b \in live : TagPtrOf(h, b.ptr) = c.base

\* The metadata spec L1 compares: the chunk sequence, the tag of every
\* allocated chunk and the two size words of every free chunk, the bins as
\* sets (list order aside), the bitmap, is_top_free and the bounds.
Metadata(hp) ==
  LET c == Chunks(hp)
  IN  [chunks |-> c,
       words  |-> [i \in 1 .. Len(c) |->
                     IF c[i].free
                     THEN <<Rd(hp, c[i].base + NODE_SIZE), Rd(hp, c[i].acme - WORD)>>
                     ELSE <<Rd(hp, c[i].base)>>],
       bins   |-> [b \in BinIds |-> ToSet(hp.bins[b])],
       avail  |-> <<hp.availability_low, hp.availability_high>>,
       top    |-> hp.is_top_free,
       span   |-> Span(hp.allocatable_base, hp.allocatable_acme),
       fault  |-> hp.fault]

\* The heap after the client writes the block malloc returned in r, of
\* layout l, and frees it (the heap malloc left if it failed).
FreeAfter(hp, r, l) ==
  IF r.ptr = NULL THEN hp ELSE Free(ClientWrite(r.h, r.ptr, l.size), r.ptr)

\* Spec L1: malloc(l) then free of the pointer returns the heap to the same
\* metadata, up to bin list order, from every reachable heap and for every
\* layout: the low remainder of an over-aligned request, the tag pointer
\* word, the high remainder and the flag of the chunk above are all undone.
MallocFreeRestores ==
  \A l \in Layouts : Metadata(FreeAfter(h, Malloc(h, l, OomFails), l)) = Metadata(h)

\* Whether heap ht keeps every live block of hp where it was: the same tag
\* pointer, the same tag word (acme and is_below_free), the data untouched.
KeepsLive(hp, ht) ==
  \A b \in live :
     /\ TagPtrOf(ht, b.ptr) = TagPtrOf(hp, b.ptr)
     /\ Rd(ht, TagPtrOf(hp, b.ptr)) = Rd(hp, TagPtrOf(hp, b.ptr))
     /\ \A a \in Words : b.ptr <= a /\ a < b.ptr + b.size => ht.mem[a] = DataW

\* hp extended to he, then truncated back to hp's arena: truncate's assert!
\* on get_allocated_span holds, and the result keeps the allocated span and
\* every live block of hp.
TruncatedBack(hp, he) ==
  /\ ContainsSpan(WordAlignInward(hp.arena), GetAllocatedSpan(he))
  /\ LET ht == Truncate(he, hp.arena)
     IN  /\ ~ht.fault
         /\ GetAllocatedSpan(ht) = GetAllocatedSpan(hp)
         /\ KeepsLive(hp, ht)

\* Spec L5 and S6: from every reachable initialised heap, extend to any
\* strictly larger arena followed by truncate back to the old arena is allowed, and
\* leaves get_allocated_span() and every live allocation as they were.
\* extend registers or grows a free chunk at each end and sets the flag of
\* the chunk above a new bottom chunk; truncate (lib.rs 843-887) must cut
\* or drop exactly those chunks and clear that flag again.
ExtendTruncateRestores ==
  h.allocatable_base # NULL =>
     \A a \in ARENAS : ContainsSpan(a, h.arena) /\ a # h.arena => TruncatedBack(h, Extend(h, a))

\* Talc implements AbstractHeap: with the client's blocks as the abstract
\* blocks and get_allocatable_span() as the span, every call
\* is a step the abstract allocator allows (malloc returns an aligned block
\* in the heap disjoint from every live block, grow by reallocation one
\* disjoint from the old block too, truncate keeps every block).
Abs == INSTANCE AbstractHeap
         WITH blocks <- live,
              span   <- GetAllocatableSpan(h)

AbsSpec == Abs!Spec

====
