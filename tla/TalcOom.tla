------------------------------- MODULE TalcOom -------------------------------
(***************************************************************************)
(* malloc's loop around the OOM handler (lib.rs 216-221), one iteration at *)
(* a time.  Talc.tla runs malloc as one step with a handler that extends   *)
(* at most once; here the search, the handler's return and the retry are   *)
(* separate steps, so that the handler can be called any number of times   *)
(* and extend runs between two searches of one malloc.                     *)
(*                                                                         *)
(* The handler is user code (an OomHandler, lib.rs 65): it either returns  *)
(* Err (alloc_error, lib.rs 67-69) or calls extend with a larger arena and *)
(* returns Ok.  Whether the loop ends is left to the handler by design, so *)
(* no fairness is assumed and no termination is stated.                    *)
(***************************************************************************)
EXTENDS Talc

\* pc: where the client's malloc is.  "idle": no call in progress;
\* "search": at get_sufficient_chunk (217); "handler": in the handler (219).
\* req: the layout of the malloc in progress.
VARIABLES pc, req

oom_vars == <<h, live, pc, req>>

\* The arenas the handler may pass to extend.  extend assert!s that the new
\* arena contains the old one (lib.rs 713); the handler passes a larger one.
HandlerArenas == {a \in ARENAS : ContainsSpan(a, h.arena) /\ a # h.arena}

OomInit == Init /\ pc = "idle" /\ req = [size |-> 1, align |-> 1]

\* The client calls malloc (210); no check that the heap is initialised.
MallocCall(l) ==
  /\ Usable
  /\ pc = "idle"
  /\ Cardinality(live) < MAX_LIVE
  /\ pc' = "search" /\ req' = l
  /\ UNCHANGED <<h, live>>

\* One turn of the loop: get_sufficient_chunk found a chunk (218), and the
\* rest of malloc carves it and returns the pointer; or it found none and
\* the handler is called (219).
SearchStep(r) ==
  IF r.found
  THEN /\ Receive(MallocReturn(r, req.size), req)
       /\ pc' = "idle" /\ UNCHANGED req
  ELSE /\ pc' = "handler" /\ UNCHANGED <<h, live, req>>

MallocSearch ==
  /\ Usable
  /\ pc = "search"
  /\ SearchStep(GetSufficientChunk(h, req))

\* The handler returns Err: `?` makes malloc return AllocError.
OomErr ==
  /\ pc = "handler"
  /\ pc' = "idle"
  /\ UNCHANGED <<h, live, req>>

\* The handler calls extend (712-771) on the heap it is given and returns
\* Ok: the loop searches again.
OomExtend(a) ==
  /\ Usable
  /\ pc = "handler"
  /\ a \in HandlerArenas
  /\ h' = Extend(h, a)
  /\ pc' = "search"
  /\ UNCHANGED <<live, req>>

\* Between mallocs the client may init the heap and free its blocks.
OomInitHeap(a) == pc = "idle" /\ InitHeap(a) /\ UNCHANGED <<pc, req>>

OomFree(b) == pc = "idle" /\ DoFree(b) /\ UNCHANGED <<pc, req>>

OomNext ==
  \/ \E a \in ARENAS : OomInitHeap(a)
  \/ \E l \in Layouts : MallocCall(l)
  \/ MallocSearch
  \/ OomErr
  \/ \E a \in ARENAS : OomExtend(a)
  \/ \E b \in live : OomFree(b)

\* A client thread calling malloc between inits and frees.
OomSpec == OomInit /\ [][OomNext]_oom_vars

====
