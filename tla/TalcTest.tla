------------------------------ MODULE TalcTest ------------------------------
(***************************************************************************)
(* The unit test talc_test (lib.rs 1026-1078), step by step, on the heap   *)
(* of Talc.tla: init on one arena; malloc `a` and write it; malloc N more  *)
(* blocks of the same layout, writing each; free the lower half in order   *)
(* and the upper half in reverse; free `a`.  The test fixes one layout     *)
(* (1243 bytes, align 8 = ALIGN); here it is any layout of SIZES x ALIGNS, *)
(* over-aligned ones included, chosen once as the test chooses it.  The    *)
(* test's timing and printing are left out.                                *)
(***************************************************************************)
EXTENDS Talc

CONSTANTS
  TEST_ARENA,  \* the arena of the test (a leaked 10 MB vector)
  N            \* the number of blocks of the loop (100), even

ASSUME N \in Nat /\ N % 2 = 0 /\ N > 0

\* phase: the statement the test is at.  layout: the test's Layout.
\* a: the pointer of the first malloc.  x: the pointers of the loop, in
\* order.  i: the index of the free loops.
VARIABLES phase, layout, a, x, i

test_vars == <<h, live, phase, layout, a, x, i>>

TestInit ==
  /\ Init
  /\ phase = "init" /\ layout = [size |-> 1, align |-> 1]
  /\ a = NULL /\ x = <<>> /\ i = 1

\* Talc::new() then talc.init(arena), and the layout built after them.
InitArena ==
  /\ phase = "init"
  /\ h' = Init_(h, TEST_ARENA)
  /\ \E l \in Layouts : layout' = l
  /\ phase' = "a"
  /\ UNCHANGED <<live, a, x, i>>

\* assert!(a.is_ok()) failing: the test panics and stops.
Panic == phase' = "panicked" /\ UNCHANGED <<h, live, layout, a, x, i>>

\* malloc returned r: on Ok the test writes layout.size bytes at the pointer.
Written(r) == h' = ClientWrite(r.h, r.ptr, layout.size)

TakeA(r) ==
  IF r.ptr = NULL THEN Panic
  ELSE Written(r) /\ a' = r.ptr /\ phase' = "fill" /\ UNCHANGED <<live, layout, x, i>>

\* let a = talc.malloc(layout); assert!(a.is_ok()); write_bytes(255, ..).
MallocA == phase = "a" /\ TakeA(Malloc(h, layout, OomFails))

TakeX(r) ==
  IF r.ptr = NULL THEN Panic
  ELSE /\ Written(r)
       /\ x' = Append(x, r.ptr)
       /\ phase' = IF Len(x) + 1 = N THEN "free_low" ELSE "fill"
       /\ UNCHANGED <<live, layout, a, i>>

\* One turn of the first loop: malloc, assert!, write_bytes(0xab, ..),
\* x[i] = allocation.
MallocX == phase = "fill" /\ TakeX(Malloc(h, layout, OomFails))

\* One turn of `for i in 0..50 { talc.free(x[i], layout) }`.
FreeLow ==
  /\ phase = "free_low"
  /\ h' = Free(h, x[i])
  /\ i' = IF i = N \div 2 THEN N ELSE i + 1
  /\ phase' = IF i = N \div 2 THEN "free_high" ELSE "free_low"
  /\ UNCHANGED <<live, layout, a, x>>

\* One turn of `for i in (50..100).rev() { talc.free(x[i], layout) }`.
FreeHigh ==
  /\ phase = "free_high"
  /\ h' = Free(h, x[i])
  /\ i' = i - 1
  /\ phase' = IF i = N \div 2 + 1 THEN "free_a" ELSE "free_high"
  /\ UNCHANGED <<live, layout, a, x>>

\* talc.free(a.unwrap(), layout).
FreeA ==
  /\ phase = "free_a"
  /\ h' = Free(h, a)
  /\ phase' = "done"
  /\ UNCHANGED <<live, layout, a, x, i>>

TestNext == InitArena \/ MallocA \/ MallocX \/ FreeLow \/ FreeHigh \/ FreeA

\* The test runs to its end on one thread; it then stops.
TestSpec == TestInit /\ [][TestNext]_test_vars

(***************************************************************************)
(* Properties.                                                             *)
(***************************************************************************)

\* Spec S1 and S2, for every layout: every assert! of the test passes, no
\* read of garbage or debug_assert! fails on the way, and once all N + 1
\* blocks are freed (the lower half in order, the upper half in reverse,
\* which makes free coalesce with the chunk below, the chunk above and
\* both), the heap's metadata is that of the freshly initialised heap:
\* one bin-array chunk and one free chunk over the rest, as with_arena
\* builds it.
TestRestoresInit ==
  /\ phase # "panicked"
  /\ ~h.fault
  /\ phase = "done" => Metadata(h) = Metadata(WithArena(TEST_ARENA))

====
