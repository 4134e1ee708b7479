----------------------------- MODULE MyChecker -----------------------------
(***************************************************************************)
(* mymalloc/my_checker.c: the walk through the heap that my_check offers.  *)
(* Each conjunct is one of its assertions; those about the pointers of a   *)
(* circular list or a tree are not about the arena, where a bin is a set.  *)
(***************************************************************************)
EXTENDS Allocator

(* chunk and everything the walk meets from there on, by address.          *)
is_valid_chunk_pointer(a, c) == c \in DOMAIN a.heap

(* A free chunk that is not the victim is linked into the bin of its size. *)
ValidBinnedChunk(a, c) ==
  /\ c \in a.bins[BinOf(CHUNK_SIZE(a.heap, c))]
  /\ \A d \in a.bins[BinOf(CHUNK_SIZE(a.heap, c))] : is_valid_chunk_pointer(a, d)

my_checker(a) ==
  /\ \A c \in DOMAIN a.heap \ {a.end} :
       LET next == NEXT_HEAP_CHUNK(a.heap, c)
       IN  /\ IS_CURRENT_FREE(a.heap, c) /\ c # a.victim => ValidBinnedChunk(a, c)
           /\ IS_CURRENT_FREE(a.heap, c) =>
                /\ c = PREVIOUS_HEAP_CHUNK(a.heap, next)
                /\ CHUNK_SIZE(a.heap, c) = a.heap[next].prevSize
                /\ IS_PREVIOUS_FREE(a.heap, next)
           /\ IS_CURRENT_INUSE(a.heap, c) => IS_PREVIOUS_INUSE(a.heap, next)
           /\ CHUNK_SIZE(a.heap, c) > 0
  /\ IS_PREVIOUS_INUSE(a.heap, a.end)

(* my_checker.c:93-124: after every call of the client the walk finds all  *)
(* tags of neighbours in agreement and the chunk below the end in use.     *)
MyCheckerPasses == my_checker(arena)
=============================================================================
