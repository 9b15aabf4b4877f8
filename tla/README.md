# TLA+ model of the talc allocator

These modules model the heap of `talc` (`src/src/lib.rs`). talc is a boundary-tagged, segregated-fit allocator. All its metadata lives inside the arena it manages. TLC checks the model: every sequence of public calls keeps the heap structure consistent and implements an abstract allocator. Three places where the code and `spec.md` disagree, one assertion the code itself fails, and a bitmap that breaks on 32-bit targets are shown as counterexamples. The repository's own `talc_test` is run on the model for every layout.

## 1. The system

| Part | Where | State | Operations |
|---|---|---|---|
| Heap core `Talc` | `lib.rs` 75-891 | `arena`, `allocatable_base/acme`, `is_top_free`, the `availability_low/high` bitmap, the `bins` array (inside the arena) | `new`, `init`, `malloc`, `free`, `grow`, `shrink`, `extend`, `truncate`, the query `get_allocated_span`, and the helpers `register`, `deregister`, `set_avails`, `clear_avails`, `clear_below_free`, `get_sufficient_chunk`, `next_bin` |
| OOM handler | `lib.rs` 64-69, 216-221 | a function pointer | called by `malloc` when no chunk fits, again after every `Ok`; it may call `extend` and return `Ok` to retry |
| `scan_for_errors` | `lib.rs` 915-987 | none | debug-build `assert!`s over the header, every bin's nodes and the bitmap, at the end of every method |
| Tag, tag pointer | `tag.rs`, `utils.rs` (not in `src/`) | one word at each allocated chunk's base: the acme plus the flags `is_allocated` and `is_below_free` | `Tag::new`, `set_below_free`, `clear_below_free`, `set_acme`, `chunk_ptr_from_alloc_ptr` |
| Free list | `llist.rs` (not in `src/`) | two pointer words at each free chunk's base | `insert` at the head, `remove` by splicing |
| Size classes | `utils.rs` (not in `src/`) | none | `bin_of_size`, `required_acme`, `is_chunk_size` |
| Span | `span.rs` (not in `src/`) | none | `contains`, `contains_span`, `word_align_inward` |
| Tests | `lib.rs` 990-1080 | none | `align_ptr_test` (alignment helpers), `talc_test` (init, 101 mallocs, frees in two orders) |
| `Talck` | `talck.rs` (not in `src/`) | a `spin::Mutex<Talc>` | `GlobalAlloc` / `Allocator`; every call takes the lock |

How the parts interact:
- `malloc` searches the bins through the bitmap (`next_bin`). It deregisters the chosen chunk, then registers the low remainder (for over-aligned layouts) and the high remainder. It writes the tag, plus a tag pointer word when the tag is not right below the allocation.
- `free` coalesces with the free chunk above, which it finds by the word at the chunk's acme. It coalesces with the free chunk below, which it finds through `is_below_free` and the size word under its tag.
- `grow` absorbs the free chunk above when that is enough. Otherwise it calls `malloc`, which can run the OOM handler and so `extend`, then copies the data and calls `free`.
- `extend` and `truncate` move the ends of the heap, which touches the top and bottom chunks, `is_top_free` and tag flags.

Where nothing shows a part is not needed, the model keeps it. Only `Talck` and `align_ptr_test` are left out. Its lock serialises every call, so a single client thread calling `Talc` directly covers every order in which locked calls can happen.

## 2. Modules

- **`Talc.tla`** models the heap core.
  - The `Talc` struct is one record variable `h`. Its field `mem` maps each word address of the arena to an abstract word: `tag` (acme and `is_below_free`), `ptr` (a tag pointer), `size`, `node`, `bin` (the bin array) or `data`.
  - A read that finds an unexpected word kind, and any `debug_assert!` of `lib.rs` that fails, sets `h.fault`. Those are the reads the code makes with no check. In a release build they are undefined behaviour.
  - Every method is a pure operator from heap to heap, named after the method: `Malloc`, `Free`, `Grow`, `Shrink`, `Init_`, `Extend`, `Truncate`, `Register`, `Deregister`, `SetAvails`, `NextBin`, `GetSufficientChunk`, and so on. Each one includes every call the method makes, so `Grow` contains `Malloc` and `Free`, and `Malloc` contains the OOM handler and `Extend`.
  - A method with several phases is split into step operators that take the heap as a parameter: `TakeChunk`, `OomRetry`, `MallocReturn` and `CarveHigh` for `malloc`; `FreeBelow` for `free`; `GrowInPlace` and `GrowMoved` for `grow`. The method is the nesting of its steps in the code's order, so each intermediate heap is computed once.
  - The variable `live` is the client: the blocks it owns.
  - `ScanForErrors` is `scan_for_errors`: its `assert!`s (`ScanOk`, `NodeScanOk`) are checked at each point `lib.rs` calls it, and a failure sets `fault`. To check the `assert!` at line 925, the header keeps the bin array pointer `bins_ptr` (`self.bins`), which `init`'s fall-through leaves as it was.
  - Every action is guarded by `Usable` (no fault yet): once the code has read garbage, `lib.rs` gives the heap no meaning, and no further call is modelled.
  - `InitHeap` is `init` on a fresh heap or, where the constant `REINIT` holds, again on an initialised heap that holds no live block.
  - The OOM handler in `Talc.tla` extends at most once per call of `malloc` and fails when called again, so `malloc` and `grow` stay single steps. `TalcOom.tla` lifts that restriction for `malloc`.
  - The actions are `InitHeap`, `DoMalloc`, `DoFree`, `DoGrow`, `DoShrink`, `DoExtend` and `DoTruncate`. Each takes its inputs from small sets. Its guards are the `assert!`s and documented preconditions of the call (for example, `truncate`'s new arena must contain `get_allocated_span()`). The client writes a `data` word over every byte it receives, so a metadata write into a live block is visible.
  - `WalkFrom` and `Chunks` read the chunk sequence back out of memory, the way `scan_for_errors` walks it. The invariants are stated over that sequence.
- **`TalcOom.tla`** extends `Talc` and takes `malloc`'s loop (216-221) apart:
  - `MallocCall` is the call.
  - `MallocSearch` is one turn of the loop: `get_sufficient_chunk`, then either the rest of `malloc` (it carves the chunk and returns) or the call of the handler.
  - `OomErr` is the handler returning `Err`, which `?` propagates.
  - `OomExtend(a)` is the handler calling `extend(a)` and returning `Ok`.
  - `pc` says where the call is.
  - The handler always passes `extend` a strictly larger arena, as its contract asks.
- **`BinIndex.tla`** models the availability bitmap at word level: `set_avails`, `clear_avails` (131-157) and `next_bin` (319-344).
  - `low` and `high` are `availability_low` and `availability_high` as numbers below `2^WORD_BITS`. They change by XOR with a shifted 1, and `next_bin` uses shifts and `TrailingZeros` as the code does.
  - `Talc.tla` uses one constant, `HALF_BINS`, for two numbers the code keeps apart. `BIN_COUNT` and `next_bin`'s first test use `usize::BITS`, and the other branches use the literal `64`. Here `WORD_BITS` is `usize::BITS` and `SPLIT` is the literal.
  - Shifts and subtractions wrap as in a release build (`SubW`, `Shl1`, `ShrW`). A shift overflow, an underflow, or a failed `debug_assert!` sets the history flag `debug_panic`, because a debug build panics there.
  - `Register(b)` is `register` into an empty bin, and `Deregister(b)` is `deregister` of a bin's last node. The set `nonempty` records which bins hold chunks. The other calls of `register` and `deregister` leave the bitmap alone.
  - `RefNextBin` is the reference definition that `next_bin` is checked against: the least non-empty bin at or above `b`.
- **`TalcTest.tla`** is the unit test `talc_test` (1026-1078) run on the heap of `Talc.tla`. Each statement is an action: `InitArena` (`new`, `init`, the layout), `MallocA`, `MallocX` (one turn of the malloc loop), `FreeLow` and `FreeHigh` (one turn of each free loop) and `FreeA`. A failed `assert!` goes to `phase = "panicked"`. The test's one layout becomes any layout of the model, chosen once as the test chooses it. `MCTalcTest.tla` gives it an arena for nine blocks and `N = 8`.
- **`AbstractHeap.tla`** is what the API promises. A set of blocks lives inside a span. Each block is aligned to `max(align, ALIGN)`, lies inside the span, and is disjoint from every other block. `malloc`, a `grow` that moves the block, and `extend` may widen the span. `truncate` must keep every block inside it. `Talc!AbsSpec` instantiates it with `blocks <- live` and `span <- GetAllocatableSpan(h)` (`get_allocatable_span`, `[allocatable_base, allocatable_acme)`).
- **`MCTalc.tla`, `MCTalcArena.tla`, `MCTalcFindings.tla`, `MCTalcOom.tla`** give the constants: the arenas as spans.

Scaling. `WORD = 2`, and addresses are small integers. `HALF_BINS = 2` stands for 64, so there are 4 bins instead of 128. `bin_of_size` keeps its shape: one bin per `ALIGN` step for the first half, then one bin per doubling, with the last bin unbounded. With these values `MIN_CHUNK_SIZE` is 6 and the bin array takes 8 bytes plus its tag. This keeps every case of the code reachable: small and large bins, both bitmap words, and both search loops (align 1 uses the fast loop; align 4 and 8 use the aligned loop, with a low remainder and a tag pointer word).

Spec-modelled definitions (marked `spec_modelled` in `PROJECT.json`):
- `span.rs`, `tag.rs`, `llist.rs` and `utils.rs` are not in the repository's `src/`.
- Their operations follow spec sections 3.1-3.3 and 4.1-4.3: `Span`, `AlignUp`, `IsChunkSize`, `BinOfSize`, `RequiredAcme`, `TagPtrOf`, `SetBelowFree` and the like.
- `RequiredAcme` follows the rule `grow` and `shrink` spell out in `lib.rs`: `max(align_up(ptr + size), tag + MIN_CHUNK_SIZE)`.

## 3. Runs

| Run | Module / cfg | Expect | What it shows |
|---|---|---|---|
| `heap` | `MCTalc` / `MCTalc.cfg` | pass | Arenas [16,40) and [16,52); sizes 1 and 5; alignments 1, 4 and 8; at most 2 live blocks. Covers `malloc` with both loops and both remainders, the tag pointer word, `free` coalescing both ways, `grow` in place (splitting or absorbing) and by reallocation, `shrink`, the OOM handler extending mid-`malloc` and mid-`grow`, `extend`, `truncate` at the top, and re-`init` of an empty heap. About 46,000 states, about 2.5 minutes. |
| `arena` | `MCTalcArena` / `MCTalcArena.cfg` | pass | Seven arenas that extend downwards (by 9 and 15 bytes), upwards, truncate at the bottom to cut or drop the free bottom chunk, and one arena too small for the bin array (init falls through). Up to 3 one-byte blocks. About 161,000 states, about 3 minutes. |
| `init_tail` | `MCTalcFindings` / `InitTail.cfg` | violation | `HeapTiled`: `init` on [16,30) leaves [26,30) outside every chunk. |
| `extend_by_min` | `MCTalcFindings` / `ExtendByMin.cfg` | violation | `ArenaSlackBounded`: extending a full heap by exactly `MIN_CHUNK_SIZE` discards the gain. |
| `shrink_tail` | `MCTalcFindings` / `ShrinkTail.cfg` | violation | `ShrinkReleasesTail`: `malloc(13)` then `shrink` to 1 byte keeps the whole 16-byte chunk. |
| `reinit_small` | `MCTalcFindings` / `ReInitSmall.cfg` | violation | `NoFault`: `init([16,40))`, then `init([30,40))` fails the `assert!` at line 925. |
| `oom` | `MCTalcOom` / `MCTalcOom.cfg` | pass | `malloc`'s OOM loop with arenas [16,40), [16,46) and [16,52), sizes 1 and 5, and up to two live blocks. The handler returns `Err` or extends to a strictly larger arena. `NoFault` holds, with `extend` running between two searches of one `malloc`. About 2,400 states, seconds. |
| `bin_index` | `BinIndex` / `BinIndex64.cfg` | pass | `WORD_BITS = SPLIT = 4` is the 64-bit case, scaled, with 8 bins. Every set of non-empty bins is reached (256 states). `next_bin(b)` is the least non-empty bin `>= b` for every `b` up to `BIN_COUNT`, and nothing panics. |
| `bin_index_32` | `BinIndex` / `BinIndex32.cfg` | violation | `NextBinFindsLeast` with `WORD_BITS = 2`, `SPLIT = 4` (the 32-bit case). Registering bin 2 sets bit 0, so `next_bin(0)` answers the empty bin 0. |
| `talc_test` | `MCTalcTest` / `MCTalcTest.cfg` | pass | `talc_test` with 8 blocks, for each of 8 layouts (sizes 1 and 5; alignments 1, 2, 4 and 8). About 150 states, seconds. |

The properties of the passing runs:
- `NoFault`: no unchecked read finds the wrong kind of word, and no `debug_assert!` fails.
- `HeapTiled`: spec I1 and I2. Chunks tile the heap, and no two free chunks are adjacent.
- `TagFlagsConsistent`: spec I5 and I6. Each `is_below_free` flag and `is_top_free` match the chunk below.
- `BinsIndexFreeChunks`: spec I3 and I4. The bins list exactly the free chunks, each once and in the bin of its size. The boundary size words are right, and each bitmap bit is set exactly when its bin is non-empty.
- `LiveBlocksIntact`: every live block is aligned and untouched by the allocator, and its tag heads an allocated chunk that contains it.
- `SearchComplete`: when first fit finds nothing, no free chunk could hold the layout.
- `AllocatedSpanCovers`: `get_allocated_span` covers every allocated chunk, which is what `truncate` trusts.
- `AllocatedChunksOwned`: no leak. Every allocated chunk except the bin array's holds a live block.
- `MallocFreeRestores`: spec L1. From every reachable heap and for every layout, `malloc` followed by `free` of the pointer restores the metadata: the chunks, tags, size words, bins as sets, bitmap, `is_top_free` and bounds.
- `ExtendTruncateRestores` (run `arena`): spec L5 and S6. Extend to a strictly larger arena, then truncate back, keeps `get_allocated_span()` and every live block's tag and data, and truncate's `assert!` holds. It is checked from each reachable heap over every arena, as `MallocFreeRestores` is over every layout.
- `TestRestoresInit` (run `talc_test`): spec S1 and S2. Every `assert!` of `talc_test` passes. After the last `free`, the metadata equals that of the freshly initialised heap.
- `AbsSpec`: the refinement of `AbstractHeap`.
- `TypeOK` (run `heap`): the type invariant.

Mutants. Each property of each passing run has a seeded bug, defined right before the operator it replaces, in that operator's module (the `_NoOffset`, `_NoMerge`, `_KeepAvail`, ... operators). With the bug in place, TLC finds that property violated under the run's own cfg. Examples:
- a missing `- 64` in `set_avails`;
- `free` reading the lower size word at the tag;
- `next_bin` not falling through to the high word;
- the over-aligned path returning the unaligned pointer;
- `truncate` not clearing `is_below_free`.

Bounds. Two live blocks and two arenas are enough for every branch of `free` and `grow`:
- a free neighbour above, below, or both;
- the top of the heap;
- the OOM path.

The `oom` run needs three arenas in a chain, with the middle one exactly `MIN_CHUNK_SIZE` above the first. That gives a handler call that adds no chunk, then one that does, then none left, so every way out of the loop happens.

`BinIndex` keeps the one ratio that matters, `SPLIT` against `WORD_BITS`: equal in the 64-bit case, twice it in the 32-bit case. With 8 bins, it explores every bitmap the bins can produce, and every `next_bin` query on each.

`talc_test` uses 8 blocks, so each free loop frees 4. The first block freed has no free neighbour. Each later block of the lower loop coalesces with the free chunk below it. The upper loop starts at the block under the free top chunk and coalesces above. Its last block has free chunks on both sides. `a` then coalesces with the single free chunk above it. `N = 100` adds only repetitions of the same steps.

Alignment 8 with `WORD = 2` is what produces a low remainder and a tag pointer word. The `arena` run keeps sizes at 1 so that it can afford seven arenas. Larger sizes there made the state space grow past what TLC explores in minutes. Together the passing runs fire every action and every branch of the operators.

Fairness. None is assumed. A `Talc` is driven by its caller, and nothing in the library makes a call happen. Inside `malloc`, the loop at 216-221 ends only when the handler returns `Err` or adds enough memory. The code leaves that to the handler by design, so `TalcOom.tla` states no termination property either.

## 4. Findings

Findings 1-4 do not break memory safety: every safety invariant holds in the passing runs. Finding 5 is about the 32-bit case, which those runs do not cover.
1. **`init` loses the tail.** `lib.rs:654` and 667-672: when the room above the bin array is smaller than `MIN_CHUNK_SIZE`, it belongs to no chunk. Spec 4.4 says the header chunk absorbs it.
2. **`extend` drops a gain of exactly `MIN_CHUNK_SIZE`.** `lib.rs:747`, `763` use `>` where spec 4.9 (and `is_chunk_size`) use `>=`.
3. **`shrink` frees nothing of the tail it was asked to release.** `lib.rs:480` computes the required acme from `layout.size()`, the old size, and not from `new_size`. The branch at 487-505 therefore only runs on slack the chunk already had. Spec 4.8 and the comment at line 485 say the tail beyond the new size is freed. A later `shrink` that passes the reduced layout as the old one does free it.
4. **Re-`init` with a too-small arena fails a debug assertion.** `lib.rs:683-687`: the fall-through sets `allocatable_base` and `allocatable_acme` to null but leaves `self.bins` at the previous arena's bin array. `scan_for_errors` then panics at line 925. The documentation at 602-604 says `init` will not fail on a small arena. Release builds are unaffected: the bitmap is cleared, so nothing reads the stale pointer.
5. **The bitmap breaks on 32-bit targets.** `lib.rs:134-139`, `150-155` and `328-334` split the bins between the bitmap words at the literal `64`, but `BIN_COUNT` (line 61) is `2 * usize::BITS`. With a 32-bit `usize`, bins 32-63 go to the low word, where `1 << b` overflows.
   - A debug build panics.
   - A release build masks the shift. It sets the bit of bin `b - 32`, so `next_bin` answers an empty bin (`bin_index_32`), and a second bin with the same bit clears it.
   - `scan_for_errors` (933-936, 965-968) has the same literal.
   - Spec 3.3 says the two words track bins `0..WORD_BITS` and `WORD_BITS..2*WORD_BITS`.

## 5. Not modelled, and what is left

- **`Talck`, the lock wrapper** (see §1). A model of it would only show the lock's mutual exclusion. The `GlobalAlloc::realloc` choice between `grow` and `shrink` is out of `src/`.
- **The `usize` width of addresses** (outside `BinIndex.tla`). `required_chunk_size` at `lib.rs:114` cannot overflow for a valid `Layout`. `init`'s overflow guard at 632 is not reachable with small addresses.
- **`Debug`.** It only formats the header.
- **Accessors and constructors with no step of their own.** `get_bin_ptr` (117-125) indexes `bins`; in the model that is the function `h.bins`. `get_arena` (559-562) reads a field. `mov` (892-902) moves the struct, and `spin_lock` (904-911) wraps it in a `Talck`. None of these changes the heap. `with_oom_handler` and `with_arena_and_oom_handler` (525-557) are `new` and `with_arena` with a handler. In the model the handler is a parameter of `Malloc`, not a field, so `WithArena` (`Init_(New, arena)`) stands for both.
- **A re-`init` of a heap that holds live blocks.** It would invalidate them, so a client holding one has no reason to call it.
- **`grow`'s `malloc` with a repeated handler.** `grow` keeps the single-step `malloc` of `Talc.tla`. The loop itself is checked in `TalcOom.tla`.
- **`align_ptr_test`** (998-1022). It tests `align_up`, `align_down` and `align_up_overflows` of `utils.rs` next to the top of the address space. The model's addresses have no width there.
- **`talc_test`'s timing and printing** (1047, 1069-1070) and the freeing of the arena (1076-1078) do not touch the heap.
- **Next steps:**
  - `bin_of_size` against a reference definition over a larger bin count (`bin_of_size` is spec-modelled, since `utils.rs` is not in `src/`);
  - a `grow`-heavy run with three sizes.
