------------------------------- MODULE Driver -------------------------------
(***************************************************************************)
(* mymalloc/mdriver.c and validator.h: the driver evaluates one trace      *)
(* after the other, and each of them several times (for validity, for      *)
(* utilization, for speed), in one process.  Before each evaluation it     *)
(* resets the break and calls my_init again, which leaves bins[1] and all  *)
(* bins above as the last evaluation left them.                            *)
(***************************************************************************)
EXTENDS MyChecker

(* A header from before the reset can still be read as long as a bin or    *)
(* the victim leads to it.                                                 *)
StaleChunks ==
  ((UNION {arena.bins[n] : n \in BinIndex}) \cup {arena.victim}) \ {NULL, HEAP_LO}

reset_and_init ==
  [arena EXCEPT !.heap = WriteHeader(Restrict(@, StaleChunks), HEAP_LO,
                                     my_init.heap[HEAP_LO]),
                !.end = HEAP_LO, !.brk = my_init.brk]

Reevaluate == arena' = reset_and_init /\ live' = << >>

(* A trace of the repository ends with all its blocks freed.               *)
ReevaluateFreed == DOMAIN live = {} /\ Reevaluate

(* The validator rejects a trace at its first NULL and returns; main goes  *)
(* on to evaluate the next trace.                                          *)
ReevaluateAfterNull ==
  /\ \/ \E size \in Sizes \ {0} : my_malloc(arena, size) = {}
     \/ \E c \in DOMAIN live, size \in Sizes : my_realloc(arena, c, size) = {}
  /\ Reevaluate

(* Traces that the simulated heap is large enough for.                     *)
DriverNext == GrowingNext \/ ReevaluateFreed
DriverSpec == Init /\ [][DriverNext]_vars

(* Traces that may ask for more than the simulated heap can give.  A call  *)
(* that a chunk of an abandoned heap has served leaves chunks that are no  *)
(* heap any more, and what later calls read are no headers: the model      *)
(* follows the program up to there.                                        *)
ExhaustingNext ==
  /\ DOMAIN live = {} \/ (HeapTiled /\ ChunksAccountedFor)
  /\ DriverNext \/ ReevaluateAfterNull
ExhaustingSpec == Init /\ [][ExhaustingNext]_vars

(* validator.h:141: an evaluation starts on the heap the first one started *)
(* on, although my_init clears no bin: none of its results can depend on   *)
(* the evaluations before it.                                              *)
EvaluationsIndependent == [][ReevaluateFreed => arena' = my_init]_vars

(* validator.h:72-79: the payloads of a trace's blocks lie inside the heap *)
(* and do not overlap.                                                     *)
PayloadsValid ==
  \A c \in DOMAIN live :
    /\ Payload(c) \subseteq HEAP_LO .. arena.brk - 1
    /\ \A d \in DOMAIN live \ {c} : Payload(c) \cap Payload(d) = {}
=============================================================================
