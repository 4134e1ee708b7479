----------------------------- MODULE Allocator -----------------------------
(***************************************************************************)
(* mymalloc/allocator.c: the bins, the victim, the growing end of the heap *)
(* and the three entry points my_malloc, my_free and my_realloc, called    *)
(* one after the other by a client that frees and resizes only blocks it   *)
(* holds, as the traces of the driver do.                                  *)
(*                                                                         *)
(* A bin is the set of its chunks.  Which of several suitable chunks a     *)
(* search returns depends on the order of a circular list or the shape of  *)
(* a tree, and is a free choice among those the search may reach.          *)
(*                                                                         *)
(* A handler of the code is an operator on the arena that returns the set  *)
(* of its outcomes; the empty set stands for the result NULL, which every  *)
(* handler returns with the arena as it found it.                          *)
(***************************************************************************)
EXTENDS BoundaryTags, FiniteSets

CONSTANTS
  INITIAL_CHUNK_SIZE,    \* words of the chunk that my_init asks for
  EXTENSION_SIZE,        \* words asked for above the request at the end of heap
  MAX_HEAP,              \* words that mem_sbrk can hand out
  SMALL_BIN_SEARCH_MAX,  \* how far small_malloc looks for a larger small bin
  LARGE_BIN_SEARCH_MAX,  \* how many large bins a search visits
  LARGE_LOG,             \* LARGE_CHUNK_CUTOFF: 2^LARGE_LOG words and more are large
  HUGE_LOG,              \* HUGE_CHUNK_CUTOFF: 2^HUGE_LOG words and more are huge
  Sizes                  \* the sizes in bytes that the client asks for

VARIABLES
  arena,  \* [heap, end, victim, bins, brk]: the heap and the pointers of bins[]
  live    \* the blocks the client holds: the bytes it asked for, by chunk

vars == <<arena, live>>

LARGE_MIN == 2 ^ LARGE_LOG
HUGE_MIN == 2 ^ HUGE_LOG

(* bins[0] and bins[1] are the fields end and victim of the arena.         *)
HUGE_BIN == 2
NUM_OF_BINS == LARGE_MIN + 2 * (HUGE_LOG - LARGE_LOG)
BinIndex == {HUGE_BIN} \cup (SMALLEST_MALLOC .. NUM_OF_BINS - 1)

(* Word sizes of at least 2^LARGE_LOG, and three bins below the small ones.*)
ASSUME CutoffAssumption ==
  /\ LARGE_LOG \in Nat /\ HUGE_LOG \in Nat /\ LARGE_LOG <= HUGE_LOG
  /\ LARGE_MIN \in Nat /\ HUGE_MIN \in Nat
  /\ SMALLEST_MALLOC < LARGE_MIN /\ LARGE_MIN <= HUGE_MIN

(* The tuner varies these; no relation between them is checked in the code.*)
ASSUME ParameterAssumption ==
  /\ INITIAL_CHUNK_SIZE \in Nat /\ INITIAL_CHUNK_SIZE >= SMALLEST_MALLOC
  /\ EXTENSION_SIZE \in Nat
  /\ MAX_HEAP \in Nat /\ MAX_HEAP >= INITIAL_CHUNK_SIZE + 2
  /\ SMALL_BIN_SEARCH_MAX \in Nat /\ LARGE_BIN_SEARCH_MAX \in Nat
  /\ Sizes \subseteq Nat

-----------------------------------------------------------------------------
(* Sizes and indices.                                                      *)

(* ALIGN, then MAX with SMALLEST_MALLOC: bytes to words.                   *)
Request(size) ==
  LET aligned_size == (size + 7) \div 8
  IN  IF aligned_size < SMALLEST_MALLOC THEN SMALLEST_MALLOC ELSE aligned_size

IS_LARGE_SIZE(size) == size >= LARGE_MIN
IS_HUGE_SIZE(size) == size >= HUGE_MIN

(* The position of the highest bit of a large size that is not huge.       *)
FAST_LOG2(size) ==
  LARGE_LOG + Cardinality({l \in LARGE_LOG + 1 .. HUGE_LOG - 1 : 2 ^ l <= size})

(* Two bins to each power of two, told apart by the bit below the highest. *)
large_request_index(size) ==
  LET l == FAST_LOG2(size)
  IN  LARGE_MIN + 2 * (l - LARGE_LOG) + (IF 2 * size >= 3 * 2 ^ l THEN 1 ELSE 0)

small_request_index(size) == size

BinOf(size) ==
  IF IS_HUGE_SIZE(size) THEN HUGE_BIN
  ELSE IF IS_LARGE_SIZE(size) THEN large_request_index(size)
  ELSE small_request_index(size)

-----------------------------------------------------------------------------
(* Bins.                                                                   *)

insert_chunk(a, c) ==
  [a EXCEPT !.bins[BinOf(CHUNK_SIZE(a.heap, c))] = @ \cup {c}]

remove_chunk(a, c) ==
  [a EXCEPT !.bins[BinOf(CHUNK_SIZE(a.heap, c))] = @ \ {c}]

(* A slip: the victim is taken for a chunk of a bin.                       *)
remove_chunk_never_victim(a, c) == remove_chunk(a, c)

remove_chunk_or_victim(a, c) ==
  IF c = a.victim THEN [a EXCEPT !.victim = NULL] ELSE remove_chunk(a, c)

(* The second set of outcomes counts only when the first one is NULL.      *)
OrElse(first, second) == IF first # {} THEN first ELSE second

(* The chunks of the first bin of B that is not empty.                     *)
FirstNonEmpty(a, B) ==
  UNION {a.bins[n] : n \in {m \in B : \A k \in B : k < m => a.bins[k] = {}}}

Smallest(a, chunks) ==
  {c \in chunks : \A d \in chunks : CHUNK_SIZE(a.heap, c) <= CHUNK_SIZE(a.heap, d)}

-----------------------------------------------------------------------------
(* malloc: the arena afterwards and the chunk taken out of it.             *)

Outcome(a, c) == [arena |-> a, chunk |-> c]

(* A slip: the old victim is forgotten instead of binned.                  *)
split_and_drop_victim(a, c, request) ==
  [a EXCEPT !.heap = split_chunk(@, c, request), !.victim = Remainder(c, request)]

(* The rest of c becomes the victim, and the old victim goes to its bin.   *)
split_to_victim(a, c, request) ==
  LET kept == IF a.victim = NULL THEN a ELSE insert_chunk(a, a.victim)
  IN  [kept EXCEPT !.heap = split_chunk(@, c, request),
                   !.victim = Remainder(c, request)]

split_if_possible(a, c, request) ==
  Outcome(IF CAN_SPLIT_CHUNK(a.heap, c, request)
            THEN split_to_victim(a, c, request) ELSE a, c)

(* A slip: the victim serves requests it is too small for.                 *)
take_any_victim(a, request) ==
  IF a.victim # NULL
    THEN {split_if_possible([a EXCEPT !.victim = NULL], a.victim, request)}
    ELSE {}

take_victim(a, request) ==
  IF a.victim # NULL /\ CHUNK_SIZE(a.heap, a.victim) >= request
    THEN {split_if_possible([a EXCEPT !.victim = NULL], a.victim, request)}
    ELSE {}

take_binned(a, chunks, request) ==
  {split_if_possible(remove_chunk(a, c), c, request) : c \in chunks}

small_malloc(a, request) ==
  LET i == small_request_index(request)
      exact == {Outcome(remove_chunk(a, c), c) : c \in a.bins[i]}
      small == {j \in i + 1 .. LARGE_MIN - 1 : j - i < SMALL_BIN_SEARCH_MAX}
      large == {n \in LARGE_MIN .. NUM_OF_BINS - 1 :
                  n < LARGE_MIN + LARGE_BIN_SEARCH_MAX}
  IN  OrElse(exact,
      OrElse(take_victim(a, request),
      OrElse(take_binned(a, FirstNonEmpty(a, small), request),
             take_binned(a, Smallest(a, FirstNonEmpty(a, large)), request))))

(* The indices that the search beyond bin n reads.  The loop's bound lets  *)
(* it read the word after the array, which the repository's build lays out *)
(* as a NULL pointer; the operator below looks at the bins among them.     *)
BinsRead(n) == n + 1 .. (IF n + LARGE_BIN_SEARCH_MAX < NUM_OF_BINS
                           THEN n + LARGE_BIN_SEARCH_MAX ELSE NUM_OF_BINS)

find_best_chunk(a, request) ==
  LET n == large_request_index(request)
      fit == {c \in a.bins[n] : CHUNK_SIZE(a.heap, c) >= request}
      exact == {c \in fit : CHUNK_SIZE(a.heap, c) = request}
  IN  OrElse(exact, OrElse(fit,
        Smallest(a, FirstNonEmpty(a, BinsRead(n) \cap BinIndex))))

(* The best fit among the huge chunks; it is handed out whole.             *)
huge_malloc(a, request) ==
  LET fit == {c \in a.bins[HUGE_BIN] : CHUNK_SIZE(a.heap, c) >= request}
  IN  {Outcome(remove_chunk(a, c), c) : c \in Smallest(a, fit)}

large_malloc(a, request) ==
  IF IS_HUGE_SIZE(request) THEN huge_malloc(a, request)
  ELSE OrElse(take_victim(a, request),
              take_binned(a, find_best_chunk(a, request), request))

(* A slip: the break may pass the end of the memory.                       *)
CanAlwaysSbrk(a, incr) == incr >= 0 /\ a.brk + incr \in Nat

(* The break may not pass the end of the memory behind the simulated heap. *)
CanSbrk(a, incr) == incr >= 0 /\ a.brk + incr <= HEAP_LO + MAX_HEAP

end_of_heap_malloc(a, request) ==
  LET result == a.end
      fits == CAN_SPLIT_CHUNK(a.heap, result, request)
      incr == IF fits THEN 0
              ELSE request - CHUNK_SIZE(a.heap, result) + EXTENSION_SIZE
      grown == [a.heap EXCEPT ![result].size = @ + incr]
  IN  IF fits \/ CanSbrk(a, incr)
        THEN {Outcome([a EXCEPT !.brk = @ + incr,
                                !.heap = split_chunk(grown, result, request),
                                !.end = Remainder(result, request)], result)}
        ELSE {}

my_malloc(a, size) ==
  LET request == Request(size)
      found == OrElse(IF IS_LARGE_SIZE(request) THEN large_malloc(a, request)
                                                ELSE small_malloc(a, request),
                      end_of_heap_malloc(a, request))
  IN  IF size = 0 THEN {}
      ELSE {Outcome([r.arena EXCEPT !.heap = mark_used(@, r.chunk)], r.chunk) : r \in found}

-----------------------------------------------------------------------------
(* free and the coalescing of neighbours.                                  *)

combine_chunks(a, left, right) ==
  [a EXCEPT !.heap = combine(@, left, right),
            !.victim = IF @ \in {left, right} THEN NULL ELSE @]

CAN_COMBINE_PREVIOUS(a, c) == IS_PREVIOUS_FREE(a.heap, c)

(* A slip: the end of heap is not combined with the chunk below it.        *)
CAN_COMBINE_NEXT_NOT_END(a, c) ==
  LET next_chunk == NEXT_HEAP_CHUNK(a.heap, c)
  IN  c # a.end /\ next_chunk # a.end /\ IS_CURRENT_FREE(a.heap, next_chunk)

CAN_COMBINE_NEXT(a, c) ==
  c # a.end /\ IS_CURRENT_FREE(a.heap, NEXT_HEAP_CHUNK(a.heap, c))

(* A slip: a freed chunk goes to its bin without its upper neighbour.      *)
release_alone(a, c) == insert_chunk(a, c)

(* How my_free and realloc_chunk_is_smaller end: the free chunk c takes in *)
(* the chunk above it, and is the end of heap or goes to its bin.          *)
release(a, c) ==
  LET next_chunk == NEXT_HEAP_CHUNK(a.heap, c)
  IN  IF ~ CAN_COMBINE_NEXT(a, c) THEN insert_chunk(a, c)
      ELSE IF next_chunk = a.end
        THEN [combine_chunks(a, c, next_chunk) EXCEPT !.end = c]
        ELSE insert_chunk(combine_chunks(remove_chunk_or_victim(a, next_chunk),
                                         c, next_chunk), c)

(* A slip: a freed chunk is not combined with its lower neighbour.         *)
my_free_upward_only(a, c) == release([a EXCEPT !.heap = mark_free(@, c)], c)

my_free(a, c) ==
  LET freed == [a EXCEPT !.heap = mark_free(@, c)]
      prev_chunk == PREVIOUS_HEAP_CHUNK(freed.heap, c)
  IN  IF CAN_COMBINE_PREVIOUS(freed, c)
        THEN release(combine_chunks(remove_chunk_or_victim(freed, prev_chunk),
                                    prev_chunk, c), prev_chunk)
        ELSE release(freed, c)

-----------------------------------------------------------------------------
(* realloc.                                                                *)

realloc_chunk_is_smaller(a, c, request) ==
  {Outcome(IF CAN_SPLIT_CHUNK(a.heap, c, request)
             THEN release([a EXCEPT !.heap = split_mallocd_chunk(@, c, request)],
                          Remainder(c, request))
             ELSE a, c)}

(* base extends over new_size words, of which request are kept.            *)
resize_chunk_and_split(a, base, new_size, request) ==
  LET resized == Resized(a.heap, base, new_size)
      above == NEXT_HEAP_CHUNK(resized, base)
  IN  IF CAN_SPLIT_CHUNK(resized, base, request)
        THEN insert_chunk([a EXCEPT !.heap = CutAndTagged(resized, base, request, above)],
                          Remainder(base, request))
        ELSE [a EXCEPT !.heap = mark_used(resized, base)]

realloc_chunk_and_after(a, c, request) ==
  LET next_chunk == NEXT_HEAP_CHUNK(a.heap, c)
      new_size == COMBINED_SIZES(a.heap, c, next_chunk)
  IN  IF new_size < request \/ next_chunk = a.end THEN {}
      ELSE {Outcome(resize_chunk_and_split(remove_chunk_or_victim(a, next_chunk),
                                           c, new_size, request), c)}

realloc_chunk_and_before(a, c, request) ==
  LET prev_chunk == PREVIOUS_HEAP_CHUNK(a.heap, c)
      new_size == COMBINED_SIZES(a.heap, prev_chunk, c)
  IN  IF new_size < request THEN {}
      ELSE {Outcome(resize_chunk_and_split(remove_chunk_or_victim(a, prev_chunk),
                                           prev_chunk, new_size, request), prev_chunk)}

realloc_chunk_before_and_after(a, c, request) ==
  LET prev_chunk == PREVIOUS_HEAP_CHUNK(a.heap, c)
      next_chunk == NEXT_HEAP_CHUNK(a.heap, c)
      new_size == COMBINED_SIZES(a.heap, prev_chunk, c)
                    + CHUNK_SIZE(a.heap, next_chunk) + 1
      unbinned == remove_chunk_or_victim(remove_chunk_or_victim(a, next_chunk), prev_chunk)
  IN  IF new_size < request \/ next_chunk = a.end THEN {}
      ELSE {Outcome(resize_chunk_and_split(unbinned, prev_chunk, new_size, request),
                    prev_chunk)}

realloc_chunk_after_extend_heap(a, c, request) ==
  LET next_chunk == NEXT_HEAP_CHUNK(a.heap, c)
      new_size == COMBINED_SIZES(a.heap, c, next_chunk)
      fits == request + SMALLEST_CHUNK <= new_size
      difference == IF fits THEN 0
                    ELSE request + SMALLEST_CHUNK + EXTENSION_SIZE - new_size
      merged == Extended(a.heap, c, new_size + difference)
  IN  IF fits \/ CanSbrk(a, difference)
        THEN {Outcome([a EXCEPT !.brk = @ + difference,
                                !.heap = split_mallocd_chunk(merged, c, request),
                                !.end = Remainder(c, request)], c)}
        ELSE {}

(* request is larger than the chunk, so the early return is never taken.   *)
default_realloc(a, c, request) ==
  {Outcome(my_free(r.arena, c), r.chunk) : r \in my_malloc(a, 8 * request)}

realloc_chunk_is_larger(a, c, request) ==
  LET prev_free == CAN_COMBINE_PREVIOUS(a, c)
      next_free == CAN_COMBINE_NEXT(a, c)
      below_end == NEXT_HEAP_CHUNK(a.heap, c) = a.end
      When(guard, outcomes) == IF guard THEN outcomes ELSE {}
  IN  OrElse(When(next_free, realloc_chunk_and_after(a, c, request)),
      OrElse(When(prev_free /\ next_free, realloc_chunk_before_and_after(a, c, request)),
      OrElse(When(prev_free /\ ~below_end, realloc_chunk_and_before(a, c, request)),
      OrElse(When(next_free /\ below_end, realloc_chunk_after_extend_heap(a, c, request)),
             default_realloc(a, c, request)))))

my_realloc(a, c, size) ==
  IF Request(size) <= CHUNK_SIZE(a.heap, c)
    THEN realloc_chunk_is_smaller(a, c, Request(size))
    ELSE realloc_chunk_is_larger(a, c, Request(size))

-----------------------------------------------------------------------------
(* The client.                                                             *)

my_init ==
  [heap |-> [c \in {HEAP_LO} |-> [size |-> INITIAL_CHUNK_SIZE, cur |-> FALSE,
                                  prev |-> TRUE, prevSize |-> CLOBBERED]],
   end |-> HEAP_LO, victim |-> NULL,
   bins |-> [n \in BinIndex |-> {}],
   brk |-> HEAP_LO + INITIAL_CHUNK_SIZE + 2]

Init == arena = my_init /\ live = << >>

(* The block at old, if any, is given up for one of size bytes at new.     *)
Holding(olds, new, size) == [c \in (DOMAIN live \ olds) \cup {new} |->
                               IF c = new THEN size ELSE live[c]]

Malloc(size) ==
  \E r \in my_malloc(arena, size) :
    arena' = r.arena /\ live' = Holding({}, r.chunk, size)

MallocFails(size) == my_malloc(arena, size) = {} /\ UNCHANGED vars

Free(c) ==
  /\ arena' = my_free(arena, c)
  /\ live' = Restrict(live, DOMAIN live \ {c})

Realloc(c, size) ==
  \E r \in my_realloc(arena, c, size) :
    arena' = r.arena /\ live' = Holding({c}, r.chunk, size)

ReallocFails(c, size) == my_realloc(arena, c, size) = {} /\ UNCHANGED vars

Next ==
  \/ \E size \in Sizes : Malloc(size) \/ MallocFails(size)
  \/ \E c \in DOMAIN live : Free(c)
  \/ \E c \in DOMAIN live, size \in Sizes : Realloc(c, size) \/ ReallocFails(c, size)

Spec == Init /\ [][Next]_vars

(* A client whose reallocs never leave enough of a chunk over to cut it:   *)
(* the clients of the repository's traces, none of which shrinks a block.  *)
Cuts(c, size) == CAN_SPLIT_CHUNK(arena.heap, c, Request(size))

GrowingNext ==
  \/ \E size \in Sizes : Malloc(size) \/ MallocFails(size)
  \/ \E c \in DOMAIN live : Free(c)
  \/ \E c \in DOMAIN live, size \in Sizes :
       ~ Cuts(c, size) /\ (Realloc(c, size) \/ ReallocFails(c, size))

GrowingSpec == Init /\ [][GrowingNext]_vars

-----------------------------------------------------------------------------
(* Properties.                                                             *)

Chunks == DOMAIN arena.heap
FreeChunks == {c \in Chunks : IS_CURRENT_FREE(arena.heap, c)}
Size(c) == CHUNK_SIZE(arena.heap, c)
Above(c) == NEXT_HEAP_CHUNK(arena.heap, c)

(* The arena is a heap of tagged chunks with an end, perhaps a victim, and *)
(* bins of chunks; the client's blocks are chunks with sizes it asked for. *)
TypeOK ==
  /\ arena.heap \in [Chunks -> Header]
  /\ Chunks \subseteq HEAP_LO .. arena.brk
  /\ arena.brk \in HEAP_LO .. HEAP_LO + MAX_HEAP
  /\ arena.end \in Chunks
  /\ arena.victim \in {NULL} \cup Chunks
  /\ arena.bins \in [BinIndex -> SUBSET Chunks]
  /\ live \in [DOMAIN live -> Sizes] /\ DOMAIN live \subseteq Chunks

(* The chunks cover the heap from its first word to the break without gap  *)
(* or overlap: every size written by a split, a combination, an extension  *)
(* or a resize agrees with the headers that the same handler left behind.  *)
HeapTiled ==
  /\ HEAP_LO \in Chunks
  /\ \A c \in Chunks \ {arena.end} : Above(c) \in Chunks
  /\ \A c, d \in Chunks : c < d => Above(c) <= d
  /\ Above(arena.end) + 1 = arena.brk

(* What the allocator may trust: the chunk above a block says that its     *)
(* lower neighbour is in use, and where the flag says that it is free,     *)
(* previous_size leads to a free chunk that ends there.                    *)
TagsSound ==
  /\ \A c \in DOMAIN live : IS_PREVIOUS_INUSE(arena.heap, Above(c))
  /\ \A d \in Chunks : IS_PREVIOUS_FREE(arena.heap, d) =>
       LET below == PREVIOUS_HEAP_CHUNK(arena.heap, d)
       IN  below \in FreeChunks /\ Above(below) = d

(* No chunk is lost and none is handed out twice: a chunk is a block of    *)
(* the client, the end of heap, the victim, or in the one bin for its size.*)
ChunksAccountedFor ==
  /\ DOMAIN live = Chunks \ FreeChunks
  /\ \A n \in BinIndex : arena.bins[n] =
       {c \in FreeChunks \ {arena.end, arena.victim} : BinOf(Size(c)) = n}
  /\ arena.end \in FreeChunks
  /\ arena.victim # NULL => arena.victim \in FreeChunks \ {arena.end}

(* The words of a block that its client may write.                         *)
Payload(c) == c + 2 .. c + 1 + Request(live[c])

(* Every word the allocator may read or write outside its handlers for c:  *)
(* headers, the links and sizes inside free chunks.                        *)
Metadata == {c + 1 : c \in Chunks} \cup UNION {c + 2 .. Above(c) : c \in FreeChunks}

(* my_malloc and my_realloc give out memory inside the heap that no other  *)
(* block overlaps, and of which the allocator uses no word until the block *)
(* is given back, wherever cutting, moving and growing in place put it.    *)
BlocksBelongToClient ==
  \A c \in DOMAIN live :
    /\ Payload(c) \subseteq HEAP_LO .. arena.brk - 1
    /\ Payload(c) \cap Metadata = {}
    /\ \A d \in DOMAIN live \ {c} : Payload(c) \cap Payload(d) = {}

(* previous_size of the chunk above a block is a word the client may have  *)
(* filled: no call writes into it, not for another block, and not when it  *)
(* cuts, grows or moves the block it is part of.                           *)
LastWordIsClients ==
  \A c \in DOMAIN live : arena.heap[Above(c)].prevSize = CLOBBERED

(* allocator.c:876: no two free chunks are next to each other.  The victim *)
(* is coalesced like any other chunk, and so is the end of heap.           *)
NoAdjacentFree ==
  \A c \in FreeChunks \ {arena.end} : Above(c) \notin FreeChunks

(* Freeing everything coalesces everything: the heap is one chunk again,   *)
(* and neither a bin nor the victim is left over to serve a heap that      *)
(* my_init builds anew (it resets the end of heap only).                   *)
FreedHeapIsOneChunk ==
  DOMAIN live = {} =>
    /\ Chunks = {HEAP_LO} /\ arena.end = HEAP_LO
    /\ arena.victim = NULL /\ \A n \in BinIndex : arena.bins[n] = {}

(* allocator.c:483: every cut leaves room for a chunk that can be linked   *)
(* into a bin, also the cut at the end of heap after its extension.        *)
CutsLeaveAChunk == \A c \in Chunks : Size(c) >= SMALLEST_MALLOC

(* allocator.c:922: realloc tries the chunk below on its own only if the   *)
(* chunk above is in use.                                                  *)
BeforeOnlyBelowUsed ==
  \A c \in DOMAIN live, size \in Sizes :
    LET request == Request(size)
    IN  /\ request > Size(c)
        /\ CAN_COMBINE_PREVIOUS(arena, c)
        /\ Above(c) # arena.end
        /\ CAN_COMBINE_NEXT(arena, c) =>
             /\ realloc_chunk_and_after(arena, c, request) = {}
             /\ realloc_chunk_before_and_after(arena, c, request) = {}
        => IS_CURRENT_INUSE(arena.heap, Above(c))

(* allocator.c:64 declares bins[NUM_OF_BINS]: a search that finds nothing  *)
(* reads no bin past the last one.                                         *)
SearchStaysInBins ==
  [][\A size \in Sizes :
       LET request == Request(size)
       IN  /\ Malloc(size)
           /\ IS_LARGE_SIZE(request) /\ ~ IS_HUGE_SIZE(request)
           /\ take_victim(arena, request) = {}
           /\ find_best_chunk(arena, request) = {}
           => BinsRead(large_request_index(request)) \subseteq BinIndex]_vars
=============================================================================
