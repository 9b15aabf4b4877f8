---------------------------- MODULE AbstractHeap ----------------------------
(***************************************************************************)
(* What an allocator promises its single client, whatever its data         *)
(* structures: the blocks it has handed out and not taken back are aligned *)
(* to max(align, ALIGN), lie inside the allocatable span and never overlap *)
(* one another (spec section 6, invariant I7).  Each step is one public     *)
(* call of Talc seen from outside:                                         *)
(*   Alloc    malloc succeeding (the OOM handler may have extended first);  *)
(*   Release  free;                                                        *)
(*   Resize   shrink, or grow in place: same pointer, new size;            *)
(*   Move     grow by reallocation: a new block disjoint from every block,  *)
(*            the old one included, replaces the old one;                  *)
(*   Rearena  init, extend, truncate, or a malloc/grow that failed after   *)
(*            the OOM handler extended: the span changes, every block stays *)
(*            inside it.                                                   *)
(***************************************************************************)
EXTENDS Integers

CONSTANT ALIGN

VARIABLES blocks, span

vars == <<blocks, span>>

\* The byte ranges [ptr, ptr + size) of two blocks do not meet.
Disjoint(b1, b2) == b1.ptr + b1.size <= b2.ptr \/ b2.ptr + b2.size <= b1.ptr

Inside(b, s) == s.base <= b.ptr /\ b.ptr + b.size <= s.acme

\* b may be handed out in span s next to the blocks in others.
Placeable(b, s, others) ==
  /\ b.ptr % (IF b.align > ALIGN THEN b.align ELSE ALIGN) = 0
  /\ Inside(b, s)
  /\ \A o \in others : Disjoint(b, o)

\* t contains s (an empty span is contained by every span).
Widens(s, t) == s.acme <= s.base \/ (t.base <= s.base /\ s.acme <= t.acme)

Init == blocks = {} /\ span.acme <= span.base

Alloc ==
  \E b \in blocks' :
    /\ blocks' = blocks \cup {b}
    /\ b \notin blocks
    /\ Widens(span, span')
    /\ Placeable(b, span', blocks)

Release ==
  \E b \in blocks : blocks' = blocks \ {b} /\ span' = span

Resize ==
  \E b \in blocks, b2 \in blocks' :
    /\ blocks' = (blocks \ {b}) \cup {b2}
    /\ b2.ptr = b.ptr /\ b2.align = b.align
    /\ span' = span
    /\ Placeable(b2, span', blocks \ {b})

Move ==
  \E b \in blocks, b2 \in blocks' :
    /\ blocks' = (blocks \ {b}) \cup {b2}
    /\ b2.ptr # b.ptr /\ b2.align = b.align /\ b2.size >= b.size
    /\ Widens(span, span')
    /\ Placeable(b2, span', blocks)

Rearena ==
  /\ blocks' = blocks
  /\ \A b \in blocks : Inside(b, span')

Next == Alloc \/ Release \/ Resize \/ Move \/ Rearena

Spec == Init /\ [][Next]_vars
=============================================================================
