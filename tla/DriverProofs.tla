----------------------------- MODULE DriverProofs -----------------------------
(***************************************************************************)
(* Complete coalescing under the clients of the repository's traces, which *)
(* never cut a block in place: no two free chunks are neighbours, so the   *)
(* walk of my_checker passes, freeing everything leaves one chunk, and the *)
(* driver's evaluations do not depend on each other.  Then the refinement: *)
(* the allocator implements the validator's range list.                    *)
(***************************************************************************)
EXTENDS AllocatorProofs, Driver, Refinement

-----------------------------------------------------------------------------
(* malloc and free keep the heap coalesced.                                *)

(* One heap is tidied after the other.                                     *)
LEMMA TidiesTwice ==
  ASSUME NEW h, NEW P, NEW g, NEW Q, NEW k, NEW R, Tidies(h, P, g, Q), Tidies(g, Q, k, R)
  PROVE  Tidies(h, P, k, R)
BY DEF Tidies

(* The chunk my_malloc takes is the only one it leaves beside a free one,  *)
(* and it hands it out.                                                    *)
LEMMA MallocTidies ==
  ASSUME ExtensionLeavesAChunk, NEW a, ArenaInv(a, {}), NEW size \in Nat,
         NEW r \in my_malloc(a, size)
  PROVE  Tidies(a.heap, {}, r.arena.heap, {})
<1> DEFINE request == Request(size)
           found == OrElse(IF IS_LARGE_SIZE(request) THEN large_malloc(a, request)
                                                     ELSE small_malloc(a, request),
                           end_of_heap_malloc(a, request))
<1>1. PICK f \in found :
        r = Outcome([f.arena EXCEPT !.heap = mark_used(@, f.chunk)], f.chunk)
  BY DEF my_malloc
<1>2. request \in Nat /\ request >= SMALLEST_MALLOC /\ LARGE_MIN \in Nat
  BY RequestFacts, CutoffAssumption
<1>3. \/ request >= LARGE_MIN /\ f \in large_malloc(a, request)
      \/ request < LARGE_MIN /\ f \in small_malloc(a, request)
      \/ f \in end_of_heap_malloc(a, request)
  BY <1>2 DEF OrElse, IS_LARGE_SIZE
<1> HIDE DEF request, found
<1>4. Found(a, f, request)
  BY <1>2, <1>3, SmallMalloc, LargeMalloc, EndOfHeapMalloc
<1> DEFINE h == f.arena.heap
           c == f.chunk
           g == mark_used(h, c)
<1>5. /\ HeapInv(h, f.arena.end) /\ c \in DOMAIN h /\ ~ h[c].cur /\ c # f.arena.end
      /\ Tidies(a.heap, {}, h, {c}) /\ IsArena(f.arena)
  BY <1>4 DEF Found, ArenaInv, FreeIn
<1>6. r.arena.heap = g
  BY <1>1, <1>5 DEF Outcome, IsArena
<1>7. g = mark_used(h, c)
  OBVIOUS
<1> HIDE DEF h, c, g
<1>8. Tidies(h, {c}, g, {})
  BY <1>5, <1>7, MarkUsedTidies
<1> QED
  BY <1>5, <1>6, <1>8, TidiesTwice

(* Of two neighbours in hand, the lower one stays in hand.                 *)
LEMMA CombineChunksTidies ==
  ASSUME NEW a, NEW F, ArenaInv(a, F), NEW left, NEW right, FreeIn(a.heap, left),
         FreeIn(a.heap, right), right = NEXT_HEAP_CHUNK(a.heap, left),
         NEW b, b = combine_chunks(a, left, right)
  PROVE  /\ Tidies(a.heap, {left, right}, b.heap, {left})
         /\ Tidies(a.heap, {left}, b.heap, {})
<1> DEFINE h == a.heap
           g == combine(h, left, right)
<1>1. b.heap = g
  BY DEF combine_chunks, ArenaInv, IsArena
<1>2. HeapInv(h, a.end) /\ left \in DOMAIN h /\ right \in DOMAIN h /\ ~ h[left].cur /\ ~ h[right].cur
  BY DEF ArenaInv, FreeIn
<1>3. right = NEXT_HEAP_CHUNK(h, left) /\ g = combine(h, left, right) /\ h = a.heap
  OBVIOUS
<1> HIDE DEF h, g
<1>4. Tidies(h, {left, right}, g, {left}) /\ Tidies(h, {left}, g, {})
  BY <1>2, <1>3, CombineTidies
<1> QED
  BY <1>1, <1>3, <1>4

(* release leaves no free chunk beside the one it was given.               *)
LEMMA ReleaseTidies ==
  ASSUME NEW a, NEW c, ArenaInv(a, {c}), NEW b, b = release(a, c)
  PROVE  Tidies(a.heap, {c}, b.heap, {})
<1> DEFINE above == NEXT_HEAP_CHUNK(a.heap, c)
<1>1. FreeIn(a.heap, c) /\ c # a.end /\ above \in DOMAIN a.heap /\ above # c
  BY ChunkFacts DEF ArenaInv, FreeIn
<1> HIDE DEF above
<1>2. CASE ~ CAN_COMBINE_NEXT(a, c)
  <2>1. b = insert_chunk(a, c)
    BY <1>2 DEF release
  <2>2. b.heap = a.heap
    BY <2>1 DEF insert_chunk, ArenaInv, IsArena
  <2>3. a.heap[NEXT_HEAP_CHUNK(a.heap, c)].cur
    BY <1>1, <1>2 DEF CAN_COMBINE_NEXT, IS_CURRENT_FREE
  <2> QED
    BY <2>2, <2>3, AloneTidies
<1>3. ASSUME CAN_COMBINE_NEXT(a, c)
      PROVE  FreeIn(a.heap, above)
  BY <1>1, <1>3 DEF CAN_COMBINE_NEXT, IS_CURRENT_FREE, above, FreeIn
<1>4. CASE CAN_COMBINE_NEXT(a, c) /\ above = a.end
  <2> DEFINE m == combine_chunks(a, c, above)
  <2>1. b = [m EXCEPT !.end = c]
    BY <1>4 DEF release, above
  <2>2. b.heap = m.heap
    BY <2>1 DEF combine_chunks, ArenaInv, IsArena
  <2> HIDE DEF m
  <2>3. Tidies(a.heap, {c}, m.heap, {})
    BY <1>1, <1>3, <1>4, CombineChunksTidies DEF above, m
  <2> QED
    BY <2>2, <2>3
<1>5. CASE CAN_COMBINE_NEXT(a, c) /\ above # a.end
  <2> DEFINE k == remove_chunk_or_victim(a, above)
             m == combine_chunks(k, c, above)
  <2>1. b = insert_chunk(m, c)
    BY <1>5 DEF release, above
  <2>2. ArenaInv(k, {c} \cup {above}) /\ k.heap = a.heap
    BY <1>1, <1>3, <1>5, RemoveOrVictim
  <2>3. {c} \cup {above} = {c, above}
    OBVIOUS
  <2> HIDE DEF k
  <2>7. FreeIn(k.heap, c) /\ FreeIn(k.heap, above) /\ above = NEXT_HEAP_CHUNK(k.heap, c)
    BY <1>1, <1>3, <1>5, <2>2 DEF above
  <2>4. ArenaInv(m, {c})
    BY <1>1, <2>7, <2>2, <2>3, CombineArena
  <2>5. Tidies(k.heap, {c}, m.heap, {})
    BY <1>1, <1>3, <1>5, <2>2, CombineChunksTidies DEF above
  <2> HIDE DEF m
  <2>6. b.heap = m.heap
    BY <2>1, <2>4 DEF insert_chunk, ArenaInv, IsArena
  <2> QED
    BY <2>2, <2>5, <2>6
<1> QED
  BY <1>2, <1>4, <1>5

(* my_free combines the block with both neighbours that are free.          *)
LEMMA FreeTidies ==
  ASSUME NEW a, ArenaInv(a, {}), NEW c, UsedIn(a.heap, c), NEW b, b = my_free(a, c)
  PROVE  Tidies(a.heap, {}, b.heap, {})
<1> SUFFICES ASSUME Coalesced(a.heap, {})
             PROVE  Coalesced(b.heap, {})
  BY DEF Tidies
<1> DEFINE f == [a EXCEPT !.heap = mark_free(@, c)]
           below == PREVIOUS_HEAP_CHUNK(f.heap, c)
           h == a.heap
           g == mark_free(h, c)
<1>1. ArenaInv(f, {c}) /\ f.heap = g
  BY MarkFreeArena DEF ArenaInv, IsArena
<1>2. b = IF CAN_COMBINE_PREVIOUS(f, c)
            THEN release(combine_chunks(remove_chunk_or_victim(f, below), below, c), below)
            ELSE release(f, c)
  BY DEF my_free
<1>3. HeapInv(h, a.end) /\ c \in DOMAIN h /\ h[c].cur /\ g = mark_free(h, c) /\ h = a.heap
  BY DEF ArenaInv, UsedIn
<1>4. FreeIn(f.heap, c) /\ c # f.end
  BY <1>1 DEF ArenaInv
<1> HIDE DEF f, below, h, g
<1>5. DOMAIN g = DOMAIN h /\ \A x \in DOMAIN h : g[x].size = h[x].size
  BY <1>3, MarkFreeKeepsHeap
<1>6. g[c].prev <=> h[c].prev
  <2>1. Replaces(h, g, c, NEXT_HEAP_CHUNK(h, c), {c})
    BY <1>3, MarkFreeReplaces
  <2> QED
    BY <2>1 DEF Replaces, RegionOf
<1>7. Coalesced(g, {c} \cup FreeBelow(h, c))
  <2>1. Tidies(h, {}, g, {c} \cup FreeBelow(h, c))
    BY <1>3, MarkFreeTidies
  <2> QED
    BY <2>1, <1>3 DEF Tidies
<1>8. CASE ~ CAN_COMBINE_PREVIOUS(f, c)
  <2>1. h[c].prev
    BY <1>1, <1>6, <1>8 DEF CAN_COMBINE_PREVIOUS, IS_PREVIOUS_FREE
  <2>2. FreeBelow(h, c) = {}
    BY <2>1, <1>3 DEF FreeBelow, Coalesced
  <2>3. {c} \cup FreeBelow(h, c) = {c}
    BY <2>2
  <2>4. Coalesced(f.heap, {c})
    BY <1>1, <1>7, <2>3
  <2>5. Tidies(f.heap, {c}, b.heap, {})
    BY <1>1, <1>2, <1>8, ReleaseTidies
  <2> QED
    BY <2>4, <2>5 DEF Tidies
<1>9. CASE CAN_COMBINE_PREVIOUS(f, c)
  <2> DEFINE k == remove_chunk_or_victim(f, below)
             m == combine_chunks(k, below, c)
  <2>1. b = release(m, below)
    BY <1>2, <1>9
  <2>2. FreeIn(f.heap, below) /\ NEXT_HEAP_CHUNK(f.heap, below) = c
    BY <1>1, <1>4, <1>9 DEF CAN_COMBINE_PREVIOUS, ArenaInv, HeapInv, Tagged, LeadsToFree,
                            IS_CURRENT_FREE, FreeIn, below
  <2>3. HeapInv(f.heap, f.end) /\ below \in DOMAIN f.heap /\ c \in DOMAIN f.heap
    BY <1>1, <1>4, <2>2 DEF ArenaInv, FreeIn
  <2>4. below # c /\ below # f.end /\ below \in Nat /\ c \in Nat /\ below < c
    <3>1. c \in Nat /\ f.end \in Nat /\ below \in Nat /\ below < c /\ c <= f.end
      BY <2>2, <2>3, ChunkFacts
    <3> QED
      BY <3>1
  <2>5. FreeBelow(h, c) \subseteq {below}
    <3> SUFFICES ASSUME NEW x \in FreeBelow(h, c)
                 PROVE  x = below
      OBVIOUS
    <3>1. x \in DOMAIN f.heap /\ NEXT_HEAP_CHUNK(f.heap, x) = c
      BY <1>1, <1>5 DEF FreeBelow, NEXT_HEAP_CHUNK
    <3>2. x \in Nat /\ x < c
      BY <2>3, <3>1, ChunkFacts
    <3>3. (x < below => c <= below) /\ (below < x => c <= x)
      BY <2>2, <2>3, <3>1 DEF HeapInv, Tiled
    <3> QED
      BY <2>4, <3>2, <3>3
  <2>6. Coalesced(f.heap, {below, c})
    <3>1. {c} \cup FreeBelow(h, c) \subseteq {below, c}
      BY <2>5
    <3> QED
      BY <1>1, <1>7, <3>1, CoalescedFewer
  <2>7. ArenaInv(k, {c} \cup {below}) /\ k.heap = f.heap
    BY <1>1, <2>2, <2>4, RemoveOrVictim
  <2>8. {c} \cup {below} = {below, c}
    OBVIOUS
  <2> HIDE DEF k
  <2>9. ArenaInv(m, {below})
    BY <2>2, <2>4, <2>7, <2>8, CombineArena
  <2>10. Tidies(k.heap, {below, c}, m.heap, {below})
    BY <1>4, <2>2, <2>7, CombineChunksTidies
  <2> HIDE DEF m
  <2>11. Tidies(m.heap, {below}, b.heap, {})
    BY <2>1, <2>9, ReleaseTidies
  <2> QED
    BY <2>6, <2>7, <2>10, <2>11 DEF Tidies
<1> QED
  BY <1>8, <1>9

-----------------------------------------------------------------------------
(* realloc keeps the heap coalesced, as long as it does not cut the block. *)

(* realloc by a new block and the release of the old one.                  *)
LEMMA DefaultTidies ==
  ASSUME ExtensionLeavesAChunk, NEW a, ArenaInv(a, {}), NEW c, UsedIn(a.heap, c),
         NEW request \in Nat, request >= SMALLEST_MALLOC,
         NEW r \in default_realloc(a, c, request)
  PROVE  Tidies(a.heap, {}, r.arena.heap, {})
<1>1. PICK m \in my_malloc(a, 8 * request) : r = Outcome(my_free(m.arena, c), m.chunk)
  BY DEF default_realloc
<1> DEFINE b == my_free(m.arena, c)
<1>2. 8 * request \in Nat
  BY RequestOfWords
<1>3. Served(a, m, {}, Request(8 * request)) /\ Tidies(a.heap, {}, m.arena.heap, {})
  BY <1>2, MallocServes, MallocTidies
<1>4. ArenaInv(m.arena, {}) /\ UsedIn(m.arena.heap, c)
  BY <1>3 DEF Served, SameUsed
<1>5. r.arena = b
  BY <1>1 DEF Outcome
<1>6. Tidies(m.arena.heap, {}, b.heap, {})
  BY <1>4, FreeTidies
<1> QED
  BY <1>3, <1>5, <1>6, TidiesTwice

(* realloc takes the chunk below on its own only if the one above is in    *)
(* use: with both it would have enough if it has with the one below.       *)
LEMMA BeforeOnlyBelowUsedChunk ==
  ASSUME NEW a, ArenaInv(a, {}), NEW c, UsedIn(a.heap, c),
         NEW request \in Nat, NEXT_HEAP_CHUNK(a.heap, c) # a.end, CAN_COMBINE_PREVIOUS(a, c),
         NEW r \in realloc_chunk_and_before(a, c, request),
         CAN_COMBINE_NEXT(a, c) => realloc_chunk_before_and_after(a, c, request) = {}
  PROVE  a.heap[NEXT_HEAP_CHUNK(a.heap, c)].cur
<1> DEFINE p == PREVIOUS_HEAP_CHUNK(a.heap, c)
           d == NEXT_HEAP_CHUNK(a.heap, c)
<1> SUFFICES ASSUME ~ a.heap[d].cur
             PROVE  FALSE
  OBVIOUS
<1>1. c \in DOMAIN a.heap /\ c # a.end /\ d \in DOMAIN a.heap
  BY ChunkAbove
<1>2. CAN_COMBINE_NEXT(a, c)
  BY <1>1 DEF CAN_COMBINE_NEXT, IS_CURRENT_FREE
<1>3. COMBINED_SIZES(a.heap, p, c) + CHUNK_SIZE(a.heap, d) + 1 < request
  BY <1>2 DEF realloc_chunk_before_and_after
<1>4. ~ (COMBINED_SIZES(a.heap, p, c) < request)
  BY DEF realloc_chunk_and_before
<1>5. p \in DOMAIN a.heap
  BY ChunkBelow DEF FreeIn
<1>6. a.heap[p].size \in Nat /\ a.heap[c].size \in Nat /\ a.heap[d].size \in Nat
  BY <1>1, <1>5, ArenaFacts
<1> HIDE DEF p, d
<1> QED
  BY <1>3, <1>4, <1>6 DEF COMBINED_SIZES, CHUNK_SIZE

(* Whichever way realloc takes, unless it cuts the block where it is.      *)
LEMMA ReallocTidies ==
  ASSUME ExtensionLeavesAChunk, NEW a, ArenaInv(a, {}), NEW c, UsedIn(a.heap, c),
         NEW size \in Nat, ~ CAN_SPLIT_CHUNK(a.heap, c, Request(size)),
         NEW r \in my_realloc(a, c, size)
  PROVE  Tidies(a.heap, {}, r.arena.heap, {})
<1> DEFINE request == Request(size)
<1>1. /\ request \in Nat /\ request >= SMALLEST_MALLOC /\ request = Request(size)
      /\ ~ CAN_SPLIT_CHUNK(a.heap, c, request)
  BY RequestFacts
<1> HIDE DEF request
<1>2. CASE request <= CHUNK_SIZE(a.heap, c)
  <2>1. r \in realloc_chunk_is_smaller(a, c, request)
    BY <1>1, <1>2 DEF my_realloc
  <2>2. r.arena = a
    BY <1>1, <2>1 DEF realloc_chunk_is_smaller, Outcome
  <2> QED
    BY <2>2 DEF Tidies
<1>3. CASE ~ (request <= CHUNK_SIZE(a.heap, c))
  <2> DEFINE after == realloc_chunk_and_after(a, c, request)
             both == realloc_chunk_before_and_after(a, c, request)
             before == realloc_chunk_and_before(a, c, request)
             extended == realloc_chunk_after_extend_heap(a, c, request)
             default == default_realloc(a, c, request)
  <2>1. r \in realloc_chunk_is_larger(a, c, request)
    BY <1>1, <1>3 DEF my_realloc
  <2>2. \/ CAN_COMBINE_NEXT(a, c) /\ r \in after
        \/ CAN_COMBINE_PREVIOUS(a, c) /\ CAN_COMBINE_NEXT(a, c) /\ r \in both
        \/ /\ CAN_COMBINE_PREVIOUS(a, c) /\ NEXT_HEAP_CHUNK(a.heap, c) # a.end /\ r \in before
           /\ CAN_COMBINE_NEXT(a, c) => both = {}
        \/ NEXT_HEAP_CHUNK(a.heap, c) = a.end /\ r \in extended
        \/ r \in default
    <3> HIDE DEF after, both, before, extended, default
    <3> QED
      BY <2>1 DEF realloc_chunk_is_larger, OrElse, after, both, before, extended, default
  <2>3. ASSUME CAN_COMBINE_PREVIOUS(a, c), NEXT_HEAP_CHUNK(a.heap, c) # a.end, r \in before,
               CAN_COMBINE_NEXT(a, c) => both = {}
        PROVE  Tidies(a.heap, {}, r.arena.heap, {})
    <3>1. a.heap[NEXT_HEAP_CHUNK(a.heap, c)].cur
      BY <1>1, <2>3, BeforeOnlyBelowUsedChunk
    <3> QED
      BY <1>1, <2>3, <3>1, BeforeServes
  <2> QED
    BY <1>1, <2>2, <2>3, AfterServes, BeforeAndAfterServes, ExtendServes, DefaultTidies
<1> QED
  BY <1>2, <1>3

-----------------------------------------------------------------------------
(* What the driver may rely on between two calls.                          *)

DriverInv == Inv /\ Coalesced(arena.heap, {})

(* my_init's heap is one chunk, with none above it.                        *)
LEMMA InitDriverInv ==
  ASSUME Init
  PROVE  DriverInv
<1>1. Inv
  BY InitInv
<1>2. DOMAIN arena.heap = {HEAP_LO} /\ HEAP_LO = 1
  BY DEF Init, my_init, HEAP_LO
<1>3. NEXT_HEAP_CHUNK(arena.heap, 1) \notin DOMAIN arena.heap
  <2>1. HeapInv(arena.heap, arena.end) /\ 1 \in DOMAIN arena.heap
    BY <1>1, <1>2 DEF Inv, ArenaInv
  <2>2. NEXT_HEAP_CHUNK(arena.heap, 1) \in Nat /\ 1 < NEXT_HEAP_CHUNK(arena.heap, 1)
    BY <2>1, ChunkFacts
  <2> QED
    BY <1>2, <2>2
<1> QED
  BY <1>1, <1>2, <1>3 DEF DriverInv, Coalesced

(* A free chunk is the end of heap, or the chunk above it is in use.       *)
LEMMA DriverInvNoAdjacentFree ==
  ASSUME DriverInv
  PROVE  NoAdjacentFree
<1> SUFFICES ASSUME NEW c \in FreeChunks \ {arena.end}
             PROVE  Above(c) \notin FreeChunks
  BY DEF NoAdjacentFree
<1>1. c \in Chunks /\ Above(c) \in Chunks
  BY InvFacts DEF DriverInv, FreeChunks
<1>2. arena.heap[Above(c)].cur
  BY <1>1 DEF DriverInv, Coalesced, FreeChunks, IS_CURRENT_FREE, Chunks, Above
<1> QED
  BY <1>2 DEF FreeChunks, IS_CURRENT_FREE

(* Without a block there is only the end of heap.                          *)
LEMMA DriverInvFreedHeapIsOneChunk ==
  ASSUME DriverInv
  PROVE  FreedHeapIsOneChunk
<1> SUFFICES ASSUME DOMAIN live = {}
             PROVE  /\ Chunks = {HEAP_LO} /\ arena.end = HEAP_LO
                    /\ arena.victim = NULL /\ \A n \in BinIndex : arena.bins[n] = {}
  BY DEF FreedHeapIsOneChunk
<1>1. \A c \in Chunks : c \in FreeChunks
  BY DEF DriverInv, Inv, UsedIn, FreeChunks, IS_CURRENT_FREE, Chunks
<1>2. arena.end = HEAP_LO
  <2>1. HEAP_LO # arena.end => Above(HEAP_LO) \in Chunks
    BY InvFacts DEF DriverInv
  <2>2. HEAP_LO \in FreeChunks
    BY <1>1, InvFacts DEF DriverInv
  <2> QED
    BY <1>1, <2>1, <2>2, DriverInvNoAdjacentFree DEF NoAdjacentFree
<1>3. Chunks = {HEAP_LO}
  <2>1. HEAP_LO = 1
    BY DEF HEAP_LO
  <2>2. \A c \in Chunks : c \in Nat \ {0} /\ c <= arena.end
    BY InvFacts DEF DriverInv
  <2>3. \A c \in Chunks : c = 1
    BY <1>2, <2>1, <2>2
  <2> QED
    BY <2>1, <2>3, InvFacts DEF DriverInv
<1>4. \A c : ~ (FreeIn(arena.heap, c) /\ c # arena.end)
  BY <1>2, <1>3 DEF FreeIn, Chunks
<1>5. arena.victim = NULL
  BY <1>4 DEF DriverInv, Inv, ArenaInv, VictimInv
<1>6. \A n \in BinIndex : arena.bins[n] = {}
  <2>1. \A n \in BinIndex : \A c : c \notin arena.bins[n]
    BY <1>4 DEF DriverInv, Inv, ArenaInv, BinsExact, Filed
  <2> QED
    BY <2>1
<1> QED
  BY <1>2, <1>3, <1>5, <1>6

(* The walk of my_checker finds all tags in agreement.                     *)
LEMMA DriverInvMyCheckerPasses ==
  ASSUME DriverInv
  PROVE  MyCheckerPasses
<1> DEFINE h == arena.heap
           end == arena.end
<1>1. /\ ArenaInv(arena, {}) /\ HeapInv(h, end) /\ Tagged(h) /\ Coalesced(h, {})
      /\ end \in DOMAIN h /\ ~ h[end].cur
  <2>1. ArenaInv(arena, {})
    BY DEF DriverInv, Inv
  <2> QED
    BY <2>1, ArenaFacts DEF DriverInv, HeapInv, FreeIn
<1>2. ASSUME NEW d \in DOMAIN h, ~ h[d].prev
      PROVE  \E b \in DOMAIN h : /\ ~ h[b].cur /\ NEXT_HEAP_CHUNK(h, b) = d
                                 /\ b = d - h[d].prevSize - 1
  BY <1>1, <1>2 DEF Tagged, LeadsToFree, IS_CURRENT_FREE, IS_PREVIOUS_FREE, PREVIOUS_HEAP_CHUNK
<1>3. h[end].prev
  <2> SUFFICES ASSUME ~ h[end].prev
               PROVE  FALSE
    OBVIOUS
  <2>1. PICK b \in DOMAIN h : ~ h[b].cur /\ NEXT_HEAP_CHUNK(h, b) = end
    BY <1>1, <1>2
  <2> QED
    BY <1>1, <2>1 DEF Coalesced
<1>4. ASSUME NEW c \in DOMAIN h, c # end
      PROVE  LET next == NEXT_HEAP_CHUNK(h, c)
             IN  /\ ~ h[c].cur /\ c # arena.victim => ValidBinnedChunk(arena, c)
                 /\ ~ h[c].cur => /\ c = PREVIOUS_HEAP_CHUNK(h, next)
                                  /\ h[c].size = h[next].prevSize /\ ~ h[next].prev
                 /\ h[c].cur => h[next].prev
                 /\ h[c].size > 0
  <2> DEFINE next == NEXT_HEAP_CHUNK(h, c)
  <2>1. /\ c \in Nat /\ h[c].size \in Nat /\ h[c].size >= 3 /\ next = c + h[c].size + 1
        /\ next \in DOMAIN h /\ DOMAIN h \subseteq Nat
    BY <1>1, <1>4, ChunkFacts
  <2>2. h[c].cur => h[next].prev
    BY <1>1 DEF Tagged, IS_CURRENT_INUSE, IS_PREVIOUS_INUSE
  <2>3. ASSUME ~ h[c].cur
        PROVE  /\ c = PREVIOUS_HEAP_CHUNK(h, next)
               /\ h[c].size = h[next].prevSize /\ ~ h[next].prev
    <3>1. ~ h[next].prev
      BY <1>1, <2>1, <2>3 DEF Coalesced
    <3>2. PICK b \in DOMAIN h : NEXT_HEAP_CHUNK(h, b) = next /\ b = next - h[next].prevSize - 1
      BY <1>2, <2>1, <3>1
    <3>3. h[next].prevSize \in Nat /\ b \in Nat
      BY <1>1, <2>1 DEF HeapInv, HeapTyped, Header
    <3>4. b = c
      <4>1. b < next /\ c < next /\ (b < c => next <= c) /\ (c < b => next <= b)
        BY <1>1, <2>1, <3>2, ChunkFacts DEF HeapInv, Tiled
      <4> QED
        BY <2>1, <3>3, <4>1
    <3> HIDE DEF next
    <3> QED
      BY <2>1, <3>1, <3>2, <3>3, <3>4 DEF PREVIOUS_HEAP_CHUNK
  <2>4. ASSUME ~ h[c].cur, c # arena.victim
        PROVE  ValidBinnedChunk(arena, c)
    <3> DEFINE n == BinOf(h[c].size)
    <3>1. n \in BinIndex
      BY <2>1, BinFacts DEF SMALLEST_MALLOC
    <3>2. Filed(arena, {}, c)
      BY <1>4, <2>4 DEF Filed, FreeIn
    <3>3. c \in arena.bins[n] /\ \A d \in arena.bins[n] : d \in DOMAIN h
      BY <1>1, <3>1, <3>2 DEF ArenaInv, BinsExact, Filed, FreeIn
    <3> QED
      BY <3>3 DEF ValidBinnedChunk, is_valid_chunk_pointer, CHUNK_SIZE
  <2> QED
    BY <2>1, <2>2, <2>3, <2>4
<1> QED
  BY <1>1, <1>3, <1>4
     DEF MyCheckerPasses, my_checker, IS_CURRENT_FREE, IS_CURRENT_INUSE, IS_PREVIOUS_FREE,
         IS_PREVIOUS_INUSE, CHUNK_SIZE

-----------------------------------------------------------------------------
(* DriverInv is inductive.                                                 *)

(* Nothing leads to a stale header, so the new heap is that of my_init.    *)
LEMMA ReevaluateFreedResets ==
  ASSUME DriverInv, ReevaluateFreed
  PROVE  Init'
<1>1. /\ arena.victim = NULL /\ \A n \in BinIndex : arena.bins[n] = {}
      /\ DOMAIN live = {}
  BY DriverInvFreedHeapIsOneChunk DEF FreedHeapIsOneChunk, ReevaluateFreed
<1>2. IsArena(arena) /\ arena.bins = [n \in BinIndex |-> {}]
  <2>1. arena.bins \in [BinIndex -> SUBSET Nat] /\ IsArena(arena)
    BY ArenaFacts DEF DriverInv, Inv
  <2> QED
    BY <1>1, <2>1
<1>3. StaleChunks = {}
  BY <1>1 DEF StaleChunks
<1> DEFINE header == my_init.heap[HEAP_LO]
           heap == WriteHeader(Restrict(arena.heap, StaleChunks), HEAP_LO, header)
<1>4. heap = my_init.heap
  <2>1. my_init.heap = [c \in {HEAP_LO} |-> header]
    BY DEF my_init
  <2>2. heap = [c \in {HEAP_LO} |-> header]
    <3> HIDE DEF header
    <3> QED
      BY <1>3 DEF WriteHeader, Restrict
  <2> QED
    BY <2>1, <2>2
<1>5. arena' = [arena EXCEPT !.heap = heap, !.end = HEAP_LO, !.brk = my_init.brk]
      /\ live' = << >>
  BY DEF ReevaluateFreed, Reevaluate, reset_and_init
<1> HIDE DEF heap
<1>6. arena' = [heap |-> my_init.heap, end |-> HEAP_LO, victim |-> NULL,
                bins |-> [n \in BinIndex |-> {}], brk |-> my_init.brk]
  BY <1>1, <1>2, <1>4, <1>5 DEF IsArena
<1>7. arena' = my_init
  BY <1>6 DEF my_init
<1> QED
  BY <1>5, <1>7 DEF Init

(* The calls of the driver's clients, none of which cuts a block in place. *)
LEMMA GrowingNextTidies ==
  ASSUME ExtensionLeavesAChunk, DriverInv, GrowingNext
  PROVE  Coalesced(arena'.heap, {})
<1>1. ArenaInv(arena, {}) /\ Coalesced(arena.heap, {})
  BY DEF DriverInv, Inv
<1>2. ASSUME NEW size \in Sizes, Malloc(size)
      PROVE  Coalesced(arena'.heap, {})
  <2>1. PICK r \in my_malloc(arena, size) : arena' = r.arena
    BY <1>2 DEF Malloc
  <2>2. size \in Nat
    BY ParameterAssumption
  <2> QED
    BY <1>1, <2>1, <2>2, MallocTidies DEF Tidies
<1>3. ASSUME NEW c \in DOMAIN live, Free(c)
      PROVE  Coalesced(arena'.heap, {})
  <2>1. UsedIn(arena.heap, c) /\ arena' = my_free(arena, c)
    BY <1>3 DEF DriverInv, Inv, Free
  <2> QED
    BY <1>1, <2>1, FreeTidies DEF Tidies
<1>4. ASSUME NEW c \in DOMAIN live, NEW size \in Sizes, ~ Cuts(c, size), Realloc(c, size)
      PROVE  Coalesced(arena'.heap, {})
  <2>1. PICK r \in my_realloc(arena, c, size) : arena' = r.arena
    BY <1>4 DEF Realloc
  <2>2. size \in Nat /\ UsedIn(arena.heap, c) /\ ~ CAN_SPLIT_CHUNK(arena.heap, c, Request(size))
    BY <1>4, ParameterAssumption DEF DriverInv, Inv, Cuts
  <2> QED
    BY <1>1, <2>1, <2>2, ReallocTidies DEF Tidies
<1>5. ASSUME UNCHANGED vars
      PROVE  Coalesced(arena'.heap, {})
  BY <1>1, <1>5 DEF vars
<1> QED
  BY <1>2, <1>3, <1>4, <1>5 DEF GrowingNext, MallocFails, ReallocFails

(* Every call, and the reset between two evaluations.                      *)
THEOREM DriverInvHolds ==
  ASSUME ExtensionLeavesAChunk
  PROVE  DriverSpec => []DriverInv
<1>1. Init => DriverInv
  BY InitDriverInv
<1>2. Init' => DriverInv'
  BY <1>1, PTL
<1>3. ASSUME DriverInv, [DriverNext]_vars
      PROVE  DriverInv'
  <2>1. CASE UNCHANGED vars
    BY <1>3, <2>1 DEF vars, DriverInv, Inv
  <2>2. CASE GrowingNext
    <3>1. Next
      BY <2>2 DEF GrowingNext, Next
    <3>2. Inv'
      BY <1>3, <3>1, NextInv DEF DriverInv
    <3>3. Coalesced(arena'.heap, {})
      BY <1>3, <2>2, GrowingNextTidies
    <3> QED
      BY <3>2, <3>3 DEF DriverInv
  <2>3. CASE ReevaluateFreed
    <3>1. Init'
      BY <1>3, <2>3, ReevaluateFreedResets
    <3> QED
      BY <1>2, <3>1
  <2> QED
    BY <1>3, <2>1, <2>2, <2>3 DEF DriverNext
<1> QED
  BY <1>1, <1>3, PTL DEF DriverSpec

-----------------------------------------------------------------------------
(* The theorems, under ExtensionLeavesAChunk.                              *)

(* allocator.c:876, for a client that cuts no block in place: free and     *)
(* realloc leave no two free chunks next to each other.                    *)
THEOREM NoFreeNeighbours ==
  ASSUME ExtensionLeavesAChunk
  PROVE  DriverSpec => []NoAdjacentFree
BY DriverInvHolds, DriverInvNoAdjacentFree, PTL

(* Once such a client has freed everything, the heap is the end of heap,   *)
(* and neither a bin nor the victim leads anywhere.                        *)
THEOREM FreedHeapIsAlwaysOneChunk ==
  ASSUME ExtensionLeavesAChunk
  PROVE  DriverSpec => []FreedHeapIsOneChunk
BY DriverInvHolds, DriverInvFreedHeapIsOneChunk, PTL

(* The assertions of my_checker.c:93-124 hold between any two calls.       *)
THEOREM MyCheckerAlwaysPasses ==
  ASSUME ExtensionLeavesAChunk
  PROVE  DriverSpec => []MyCheckerPasses
BY DriverInvHolds, DriverInvMyCheckerPasses, PTL

(* validator.h:141: every evaluation of a trace that frees its blocks      *)
(* leaves the next one the heap that my_init would build from nothing.     *)
THEOREM EvaluationsAreIndependent ==
  ASSUME ExtensionLeavesAChunk
  PROVE  DriverSpec => EvaluationsIndependent
<1>1. DriverInv /\ [DriverNext]_vars => [ReevaluateFreed => arena' = my_init]_vars
  BY ReevaluateFreedResets DEF Init
<1> QED
  BY <1>1, DriverInvHolds, PTL DEF DriverSpec, EvaluationsIndependent

-----------------------------------------------------------------------------
(* The allocator implements the validator's specification of a malloc      *)
(* package, for every heap size, every tuning and every set of sizes.      *)

(* The break moves up or stays.                                            *)

(* A handler that only reorders chunks leaves the break alone.             *)
SameBreak(a, b) == IsArena(b) /\ b.brk = a.brk

(* A field other than the break is overwritten.                            *)
LEMMA OtherField ==
  ASSUME NEW a, IsArena(a), NEW x, NEW b,
         \/ b = [a EXCEPT !.heap = x] \/ b = [a EXCEPT !.end = x]
         \/ b = [a EXCEPT !.victim = x] \/ b = [a EXCEPT !.bins = x]
  PROVE  SameBreak(a, b)
<1>1. CASE b = [a EXCEPT !.heap = x]
  BY <1>1 DEF IsArena, SameBreak
<1>2. CASE b = [a EXCEPT !.end = x]
  BY <1>2 DEF IsArena, SameBreak
<1>3. CASE b = [a EXCEPT !.victim = x]
  BY <1>3 DEF IsArena, SameBreak
<1>4. CASE b = [a EXCEPT !.bins = x]
  BY <1>4 DEF IsArena, SameBreak
<1> QED
  BY <1>1, <1>2, <1>3, <1>4

(* Inserting, removing and combining chunks leave the break alone.         *)
LEMMA BinsKeepBreak ==
  ASSUME NEW a, IsArena(a), NEW c, NEW d
  PROVE  /\ SameBreak(a, insert_chunk(a, c)) /\ SameBreak(a, remove_chunk(a, c))
         /\ SameBreak(a, remove_chunk_or_victim(a, c))
         /\ SameBreak(a, combine_chunks(a, c, d))
<1>1. SameBreak(a, insert_chunk(a, c))
  <2> DEFINE bins == [a.bins EXCEPT ![BinOf(CHUNK_SIZE(a.heap, c))] = @ \cup {c}]
  <2>1. insert_chunk(a, c) = [a EXCEPT !.bins = bins]
    BY DEF insert_chunk
  <2> HIDE DEF bins
  <2> QED
    BY <2>1, OtherField
<1>2. SameBreak(a, remove_chunk(a, c))
  <2> DEFINE bins == [a.bins EXCEPT ![BinOf(CHUNK_SIZE(a.heap, c))] = @ \ {c}]
  <2>1. remove_chunk(a, c) = [a EXCEPT !.bins = bins]
    BY DEF remove_chunk
  <2> HIDE DEF bins
  <2> QED
    BY <2>1, OtherField
<1>3. SameBreak(a, remove_chunk_or_victim(a, c))
  BY <1>2, OtherField DEF remove_chunk_or_victim
<1>4. SameBreak(a, combine_chunks(a, c, d))
  <2> DEFINE v == IF a.victim \in {c, d} THEN NULL ELSE a.victim
             h == combine(a.heap, c, d)
             g == [a EXCEPT !.heap = h]
             b == [g EXCEPT !.victim = v]
  <2>1. SameBreak(a, g)
    BY OtherField
  <2>2. SameBreak(g, b)
    <3> HIDE DEF g, v
    <3> QED
      BY <2>1, OtherField DEF SameBreak
  <2>3. combine_chunks(a, c, d) = [a EXCEPT !.heap = h, !.victim = v]
    BY DEF combine_chunks
  <2>4. combine_chunks(a, c, d) = b
    <3> HIDE DEF h, v
    <3> QED
      BY <2>3
  <2> QED
    BY <2>1, <2>2, <2>4 DEF SameBreak
<1> QED
  BY <1>1, <1>2, <1>3, <1>4

(* Giving a free chunk to its bin or to the end of heap.                   *)
LEMMA ReleaseKeepsBreak ==
  ASSUME NEW a, IsArena(a), NEW c
  PROVE  SameBreak(a, release(a, c))
<1> DEFINE n == NEXT_HEAP_CHUNK(a.heap, c)
           merged == combine_chunks(a, c, n)
           atEnd == [merged EXCEPT !.end = c]
           taken == remove_chunk_or_victim(a, n)
           joined == combine_chunks(taken, c, n)
           filed == insert_chunk(joined, c)
<1>1. release(a, c) \in {insert_chunk(a, c), atEnd, filed}
  BY DEF release
<1>2. SameBreak(a, insert_chunk(a, c)) /\ SameBreak(a, merged) /\ SameBreak(a, taken)
  BY BinsKeepBreak
<1> HIDE DEF n, merged, taken
<1>3. SameBreak(merged, atEnd)
  BY <1>2, OtherField DEF SameBreak
<1>4. SameBreak(taken, joined)
  BY <1>2, BinsKeepBreak DEF SameBreak
<1> HIDE DEF atEnd, joined
<1>5. SameBreak(joined, filed)
  BY <1>4, BinsKeepBreak DEF SameBreak
<1> QED
  BY <1>1, <1>2, <1>3, <1>4, <1>5 DEF SameBreak

(* my_free leaves the break alone: memory never goes back to mem_sbrk.     *)
LEMMA FreeKeepsBreak ==
  ASSUME NEW a, IsArena(a), NEW c
  PROVE  SameBreak(a, my_free(a, c))
<1> DEFINE freed == [a EXCEPT !.heap = mark_free(@, c)]
           p == PREVIOUS_HEAP_CHUNK(freed.heap, c)
           taken == remove_chunk_or_victim(freed, p)
           joined == combine_chunks(taken, p, c)
<1>1. my_free(a, c) \in {release(joined, p), release(freed, c)}
  BY DEF my_free
<1>2. SameBreak(a, freed)
  BY OtherField
<1> HIDE DEF freed
<1>3. SameBreak(freed, taken)
  BY <1>2, BinsKeepBreak DEF SameBreak
<1> HIDE DEF taken, p
<1>4. SameBreak(taken, joined)
  BY <1>3, BinsKeepBreak DEF SameBreak
<1> HIDE DEF joined
<1>5. SameBreak(joined, release(joined, p)) /\ SameBreak(freed, release(freed, c))
  BY <1>2, <1>4, ReleaseKeepsBreak DEF SameBreak
<1> QED
  BY <1>1, <1>2, <1>3, <1>4, <1>5 DEF SameBreak

(* The break of the arena b is at or above that of a.                      *)
BreakGrows(a, b) == IsArena(b) /\ b.brk >= a.brk

(* A chunk taken out of the victim or a bin leaves the break alone.        *)
LEMMA SplitKeepsBreak ==
  ASSUME NEW a, IsArena(a), NEW c, NEW request
  PROVE  SameBreak(a, split_if_possible(a, c, request).arena)
<1> DEFINE kept == IF a.victim = NULL THEN a ELSE insert_chunk(a, a.victim)
           cut == [kept EXCEPT !.heap = split_chunk(@, c, request)]
           b == [cut EXCEPT !.victim = Remainder(c, request)]
<1>1. SameBreak(a, kept)
  BY BinsKeepBreak DEF SameBreak
<1>2. split_to_victim(a, c, request) = b
  BY DEF split_to_victim
<1> HIDE DEF kept
<1>3. SameBreak(kept, cut)
  BY <1>1, OtherField DEF SameBreak
<1> HIDE DEF cut
<1>4. SameBreak(cut, b)
  BY <1>3, OtherField DEF SameBreak
<1>5. SameBreak(a, split_to_victim(a, c, request))
  BY <1>1, <1>2, <1>3, <1>4 DEF SameBreak
<1> QED
  BY <1>5 DEF split_if_possible, Outcome, SameBreak

(* So do all searches of the bins and the victim.                          *)
LEMMA BinnedKeepsBreak ==
  ASSUME NEW a, IsArena(a), NEW request,
         NEW r \in small_malloc(a, request) \cup large_malloc(a, request)
  PROVE  SameBreak(a, r.arena)
<1>1. \/ \E c : r = Outcome(remove_chunk(a, c), c)
      \/ \E c : r = split_if_possible(remove_chunk(a, c), c, request)
      \/ r = split_if_possible([a EXCEPT !.victim = NULL], a.victim, request)
  BY DEF small_malloc, large_malloc, huge_malloc, OrElse, take_victim, take_binned
<1>2. ASSUME NEW c, r = Outcome(remove_chunk(a, c), c)
      PROVE  SameBreak(a, r.arena)
  BY <1>2, BinsKeepBreak DEF Outcome
<1>3. ASSUME NEW c, r = split_if_possible(remove_chunk(a, c), c, request)
      PROVE  SameBreak(a, r.arena)
  <2>1. SameBreak(a, remove_chunk(a, c))
    BY BinsKeepBreak
  <2> QED
    BY <1>3, <2>1, SplitKeepsBreak DEF SameBreak
<1>4. CASE r = split_if_possible([a EXCEPT !.victim = NULL], a.victim, request)
  <2> DEFINE b == [a EXCEPT !.victim = NULL]
             v == a.victim
  <2>1. SameBreak(a, b)
    BY OtherField
  <2>2. r = split_if_possible(b, v, request)
    BY <1>4
  <2> HIDE DEF b, v
  <2>3. SameBreak(b, r.arena)
    BY <2>1, <2>2, SplitKeepsBreak DEF SameBreak
  <2> QED
    BY <2>1, <2>3 DEF SameBreak
<1> QED
  BY <1>1, <1>2, <1>3, <1>4

(* my_malloc leaves the break alone or, at the end of heap, moves it up.   *)
LEMMA MallocGrowsBreak ==
  ASSUME NEW a, ArenaInv(a, {}), NEW size \in Nat, NEW r \in my_malloc(a, size)
  PROVE  BreakGrows(a, r.arena)
<1> DEFINE request == Request(size)
           found == OrElse(IF IS_LARGE_SIZE(request) THEN large_malloc(a, request)
                                                     ELSE small_malloc(a, request),
                           end_of_heap_malloc(a, request))
<1>1. PICK f \in found :
        r = Outcome([f.arena EXCEPT !.heap = mark_used(@, f.chunk)], f.chunk)
  BY DEF my_malloc
<1>2. IsArena(a) /\ a.brk \in Nat /\ request \in Nat
  BY ArenaFacts, RequestFacts
<1>3. \/ f \in small_malloc(a, request) \cup large_malloc(a, request)
      \/ f \in end_of_heap_malloc(a, request)
  BY DEF OrElse
<1> HIDE DEF request, found
<1>4. ASSUME f \in small_malloc(a, request) \cup large_malloc(a, request)
      PROVE  BreakGrows(a, f.arena)
  BY <1>2, <1>4, BinnedKeepsBreak DEF SameBreak, BreakGrows
<1>5. ASSUME f \in end_of_heap_malloc(a, request)
      PROVE  BreakGrows(a, f.arena)
  <2> DEFINE incr == IF CAN_SPLIT_CHUNK(a.heap, a.end, request) THEN 0
                     ELSE request - CHUNK_SIZE(a.heap, a.end) + EXTENSION_SIZE
             grown == [a.heap EXCEPT ![a.end].size = @ + incr]
             b == [a EXCEPT !.brk = @ + incr, !.heap = split_chunk(grown, a.end, request),
                            !.end = Remainder(a.end, request)]
  <2>1. f.arena = b /\ (incr = 0 \/ incr >= 0)
    BY <1>5 DEF end_of_heap_malloc, Outcome, CanSbrk
  <2>2. incr \in Int
    BY <1>2, ArenaFacts, ParameterAssumption DEF CHUNK_SIZE, FreeIn
  <2> DEFINE n == a.brk + incr
             g == split_chunk(grown, a.end, request)
             e == Remainder(a.end, request)
  <2> HIDE DEF incr, grown
  <2>4. b = [a EXCEPT !.brk = n, !.heap = g, !.end = e]
    OBVIOUS
  <2>5. n = a.brk + incr
    OBVIOUS
  <2> HIDE DEF b, n, g, e
  <2>3. IsArena(b) /\ b.brk = n
    BY <1>2, <2>4 DEF IsArena
  <2> QED
    BY <1>2, <2>1, <2>2, <2>3, <2>5 DEF BreakGrows
<1>6. IsArena(f.arena) /\ BreakGrows(a, f.arena)
  BY <1>3, <1>4, <1>5 DEF BreakGrows
<1>7. SameBreak(f.arena, r.arena)
  <2> DEFINE g == mark_used(f.arena.heap, f.chunk)
  <2>1. r.arena = [f.arena EXCEPT !.heap = g]
    BY <1>1 DEF Outcome
  <2> HIDE DEF g
  <2> QED
    BY <1>6, <2>1, OtherField
<1> QED
  BY <1>6, <1>7 DEF SameBreak, BreakGrows

(* Cutting a resized block and filing the rest leave the break alone.      *)
LEMMA ResizeKeepsBreak ==
  ASSUME NEW a, IsArena(a), NEW base, NEW new_size, NEW request
  PROVE  SameBreak(a, resize_chunk_and_split(a, base, new_size, request))
<1> DEFINE resized == Resized(a.heap, base, new_size)
           cut == CutAndTagged(resized, base, request, NEXT_HEAP_CHUNK(resized, base))
           b == [a EXCEPT !.heap = cut]
           used == mark_used(resized, base)
           d == [a EXCEPT !.heap = used]
           rest == Remainder(base, request)
<1>1. resize_chunk_and_split(a, base, new_size, request) \in {insert_chunk(b, rest), d}
  BY DEF resize_chunk_and_split
<1> HIDE DEF cut, used, rest
<1>2. SameBreak(a, b) /\ SameBreak(a, d)
  BY OtherField
<1> HIDE DEF b, d
<1>3. SameBreak(b, insert_chunk(b, rest))
  BY <1>2, BinsKeepBreak DEF SameBreak
<1> QED
  BY <1>1, <1>2, <1>3 DEF SameBreak

(* So do the ways to resize a block in place that need no more memory.     *)
LEMMA InPlaceKeepsBreak ==
  ASSUME NEW a, IsArena(a), NEW c, NEW request,
         NEW r \in realloc_chunk_is_smaller(a, c, request)
                     \cup realloc_chunk_and_after(a, c, request)
                     \cup realloc_chunk_and_before(a, c, request)
                     \cup realloc_chunk_before_and_after(a, c, request)
  PROVE  SameBreak(a, r.arena)
<1> DEFINE Cut == \E h, d : r.arena = release([a EXCEPT !.heap = h], d)
           One == \E x, d, n : r.arena =
             resize_chunk_and_split(remove_chunk_or_victim(a, x), d, n, request)
           Two == \E x, y, d, n : r.arena =
             resize_chunk_and_split(remove_chunk_or_victim(remove_chunk_or_victim(a, x), y),
                                    d, n, request)
<1>1. r = Outcome(a, c) \/ Cut \/ One \/ Two
  <2>1. CASE r \in realloc_chunk_is_smaller(a, c, request)
    <3> DEFINE h == split_mallocd_chunk(a.heap, c, request)
               cut == release([a EXCEPT !.heap = h], Remainder(c, request))
    <3>1. r = Outcome(IF CAN_SPLIT_CHUNK(a.heap, c, request) THEN cut ELSE a, c)
      BY <2>1 DEF realloc_chunk_is_smaller
    <3>2. ASSUME r = Outcome(cut, c)
          PROVE  Cut
      <4>1. r.arena = cut
        <5> HIDE DEF cut
        <5> QED
          BY <3>2 DEF Outcome
      <4> QED
        BY <4>1, Zenon
    <3> QED
      BY <3>1, <3>2
  <2>2. CASE r \in realloc_chunk_and_after(a, c, request)
    BY <2>2 DEF realloc_chunk_and_after, Outcome
  <2>3. CASE r \in realloc_chunk_and_before(a, c, request)
    BY <2>3 DEF realloc_chunk_and_before, Outcome
  <2>4. CASE r \in realloc_chunk_before_and_after(a, c, request)
    <3>1. PICK x, y, d, n, o : r = Outcome(resize_chunk_and_split(
            remove_chunk_or_victim(remove_chunk_or_victim(a, x), y), d, n, request), o)
      BY <2>4 DEF realloc_chunk_before_and_after
    <3> QED
      BY <3>1 DEF Outcome
  <2> QED
    BY <2>1, <2>2, <2>3, <2>4
<1>2. ASSUME NEW x
      PROVE  SameBreak(a, remove_chunk_or_victim(a, x))
  BY BinsKeepBreak
<1>3. CASE r = Outcome(a, c)
  BY <1>3 DEF Outcome, SameBreak
<1>4. ASSUME NEW h, NEW d, r.arena = release([a EXCEPT !.heap = h], d)
      PROVE  SameBreak(a, r.arena)
  <2> DEFINE b == [a EXCEPT !.heap = h]
  <2>1. SameBreak(a, b) /\ r.arena = release(b, d)
    BY <1>4, OtherField
  <2> HIDE DEF b
  <2> QED
    BY <2>1, ReleaseKeepsBreak DEF SameBreak
<1>5. ASSUME NEW x, NEW d, NEW n,
             r.arena = resize_chunk_and_split(remove_chunk_or_victim(a, x), d, n, request)
      PROVE  SameBreak(a, r.arena)
  BY <1>2, <1>5, ResizeKeepsBreak DEF SameBreak
<1>6. ASSUME NEW x, NEW y, NEW d, NEW n,
             r.arena = resize_chunk_and_split(
                         remove_chunk_or_victim(remove_chunk_or_victim(a, x), y), d, n, request)
      PROVE  SameBreak(a, r.arena)
  <2> DEFINE b == remove_chunk_or_victim(a, x)
             e == remove_chunk_or_victim(b, y)
  <2>1. SameBreak(a, b)
    BY <1>2
  <2> HIDE DEF b
  <2>2. SameBreak(b, e)
    BY <2>1, BinsKeepBreak DEF SameBreak
  <2>3. r.arena = resize_chunk_and_split(e, d, n, request)
    BY <1>6 DEF b
  <2> HIDE DEF e
  <2>4. SameBreak(e, r.arena)
    BY <2>2, <2>3, ResizeKeepsBreak DEF SameBreak
  <2> QED
    BY <2>1, <2>2, <2>4 DEF SameBreak
<1> QED
  BY <1>1, <1>3, <1>4, <1>5, <1>6

(* my_realloc leaves the break alone or, below the end of heap, moves it up.*)
LEMMA ReallocGrowsBreak ==
  ASSUME NEW a, ArenaInv(a, {}), NEW c, UsedIn(a.heap, c), NEW size \in Nat,
         NEW r \in my_realloc(a, c, size)
  PROVE  BreakGrows(a, r.arena)
<1> DEFINE request == Request(size)
<1>1. IsArena(a) /\ a.brk \in Nat /\ request \in Nat /\ 8 * request \in Nat
  BY ArenaFacts, RequestFacts
<1>2. \/ r \in realloc_chunk_is_smaller(a, c, request)
               \cup realloc_chunk_and_after(a, c, request)
               \cup realloc_chunk_and_before(a, c, request)
               \cup realloc_chunk_before_and_after(a, c, request)
      \/ r \in realloc_chunk_after_extend_heap(a, c, request)
            /\ CAN_COMBINE_NEXT(a, c) /\ NEXT_HEAP_CHUNK(a.heap, c) = a.end
      \/ r \in default_realloc(a, c, request)
  BY DEF my_realloc, realloc_chunk_is_larger, OrElse
<1> HIDE DEF request
<1>3. CASE r \in realloc_chunk_is_smaller(a, c, request)
               \cup realloc_chunk_and_after(a, c, request)
               \cup realloc_chunk_and_before(a, c, request)
               \cup realloc_chunk_before_and_after(a, c, request)
  BY <1>1, <1>3, InPlaceKeepsBreak DEF SameBreak, BreakGrows
<1>4. CASE r \in realloc_chunk_after_extend_heap(a, c, request)
             /\ CAN_COMBINE_NEXT(a, c) /\ NEXT_HEAP_CHUNK(a.heap, c) = a.end
  <2> DEFINE new_size == COMBINED_SIZES(a.heap, c, a.end)
             difference == IF request + SMALLEST_CHUNK <= new_size THEN 0
                           ELSE request + SMALLEST_CHUNK + EXTENSION_SIZE - new_size
             g == split_mallocd_chunk(Extended(a.heap, c, new_size + difference), c, request)
             e == Remainder(c, request)
             n == a.brk + difference
             b == [a EXCEPT !.brk = @ + difference, !.heap = g, !.end = e]
  <2>1. r.arena = b /\ (difference = 0 \/ difference >= 0)
    BY <1>4 DEF realloc_chunk_after_extend_heap, Outcome, CanSbrk
  <2>2. new_size \in Int
    BY ArenaFacts DEF COMBINED_SIZES, CHUNK_SIZE, FreeIn, UsedIn
  <2>3. difference \in Int
    <3> HIDE DEF new_size
    <3> QED
      BY <1>1, <2>2, ParameterAssumption DEF SMALLEST_CHUNK, SMALLEST_MALLOC
  <2>4. b = [a EXCEPT !.brk = n, !.heap = g, !.end = e] /\ n = a.brk + difference
    OBVIOUS
  <2> HIDE DEF b, n, g, e, difference
  <2>5. IsArena(b) /\ b.brk = n
    BY <1>1, <2>4 DEF IsArena
  <2> QED
    BY <1>1, <2>1, <2>3, <2>4, <2>5 DEF BreakGrows
<1>5. CASE r \in default_realloc(a, c, request)
  <2>1. PICK m \in my_malloc(a, 8 * request) : r = Outcome(my_free(m.arena, c), m.chunk)
    BY <1>5 DEF default_realloc
  <2>2. BreakGrows(a, m.arena)
    BY <1>1, MallocGrowsBreak
  <2>3. SameBreak(m.arena, r.arena)
    BY <2>1, <2>2, FreeKeepsBreak DEF BreakGrows, Outcome
  <2> QED
    BY <2>2, <2>3 DEF SameBreak, BreakGrows
<1> QED
  BY <1>2, <1>3, <1>4, <1>5

-----------------------------------------------------------------------------
(* Extents.                                                                *)

(* The payloads in bytes lie between the first word and the break, and the *)
(* payload of a lower block ends below that of a higher one.               *)
ExtentsApart ==
  /\ arena.brk \in Nat /\ arena.brk <= HEAP_LO + MAX_HEAP
  /\ \A c \in DOMAIN live :
       /\ c \in Nat /\ c >= HEAP_LO /\ live[c] \in Nat /\ c + 2 < arena.brk
       /\ 8 * (c + 2) + live[c] <= 8 * arena.brk
       /\ \A d \in DOMAIN live : c < d => 8 * (c + 2) + live[c] <= 8 * (d + 2)

(* A request in words is at least the bytes asked for.                     *)
LEMMA RequestCovers ==
  ASSUME NEW size \in Nat
  PROVE  size <= 8 * Request(size)
BY DEF Request, SMALLEST_MALLOC

(* Inv keeps the extents apart.                                            *)
LEMMA InvExtents == Inv => ExtentsApart
<1> SUFFICES ASSUME Inv
             PROVE  ExtentsApart
  OBVIOUS
<1>1. arena.brk \in Nat /\ arena.brk <= HEAP_LO + MAX_HEAP
  BY InvFacts
<1>2. ASSUME NEW c \in DOMAIN live
      PROVE  /\ c \in Chunks /\ c # arena.end /\ c \in Nat /\ c >= HEAP_LO
             /\ Size(c) \in Nat /\ Size(c) >= 3 /\ Above(c) = c + Size(c) + 1
             /\ live[c] \in Nat /\ live[c] <= 8 * Size(c)
  <2>1. /\ c \in Chunks /\ c # arena.end /\ arena.heap[c].size >= Request(live[c])
        /\ live[c] \in Nat
    BY InvFacts, ArenaFacts, ParameterAssumption DEF Inv, UsedIn, FreeIn, Chunks
  <2>2. /\ c \in Nat /\ c # 0 /\ Size(c) \in Nat /\ Size(c) >= 3
        /\ Above(c) = c + Size(c) + 1
    BY <2>1, InvFacts DEF SMALLEST_MALLOC
  <2>3. Request(live[c]) \in Nat /\ live[c] <= 8 * Request(live[c])
    BY <2>1, RequestCovers, RequestFacts
  <2> QED
    BY <2>1, <2>2, <2>3 DEF Size, CHUNK_SIZE, HEAP_LO
<1>3. ASSUME NEW c \in DOMAIN live
      PROVE  c + 2 < arena.brk /\ 8 * (c + 2) + live[c] <= 8 * arena.brk
  <2>1. /\ Above(c) \in Nat /\ Above(c) <= arena.end /\ arena.end \in Nat
        /\ arena.end < Above(arena.end) /\ Above(arena.end) \in Nat
        /\ Above(arena.end) + 1 = arena.brk
    <3>1. Above(c) \in Chunks /\ arena.end \in Chunks
      BY <1>2, InvFacts
    <3> QED
      BY <3>1, InvFacts DEF SMALLEST_MALLOC
  <2> QED
    BY <1>2, <2>1
<1>4. ASSUME NEW c \in DOMAIN live, NEW d \in DOMAIN live, c < d
      PROVE  8 * (c + 2) + live[c] <= 8 * (d + 2)
  <2>1. d \in Nat /\ (d <= c \/ d >= Above(c))
    BY <1>2, InvFacts
  <2> QED
    BY <1>2, <1>4, <2>1
<1> QED
  BY <1>1, <1>2, <1>3, <1>4 DEF ExtentsApart

(* So do the steps that keep Inv.                                          *)
LEMMA InvExtentsNext == Inv' => ExtentsApart'
BY InvExtents, PTL

(* The range list as the validator sees it.                                *)
Extents == {Extent(c) : c \in DOMAIN live}

(* A trace asks for a byte or more, which add_range asserts.                *)
SizesPositive == 0 \notin Sizes

(* A call that hands out a block in place of those of olds.                *)
LEMMA HandOutRefines ==
  ASSUME ExtentsApart, ExtentsApart', BreakGrows(arena, arena'),
         NEW olds, olds \subseteq DOMAIN live, NEW size \in Nat \ {0},
         NEW new, new \notin DOMAIN live \ olds, live' = Holding(olds, new, size)
  PROVE  Validator!Replace({Extent(c) : c \in olds}, size)
<1> DEFINE old == {Extent(c) : c \in olds}
           lo == UserPointer(new)
           r == Validator!Range(lo, size)
<1>1. /\ DOMAIN live' = (DOMAIN live \ olds) \cup {new} /\ live'[new] = size
      /\ \A x \in DOMAIN live \ olds : live'[x] = live[x]
  BY DEF Holding
<1>2. /\ new \in Nat /\ new >= HEAP_LO /\ new + 2 < arena'.brk
      /\ 8 * (new + 2) + size <= 8 * arena'.brk
      /\ arena'.brk \in Nat /\ arena'.brk <= HEAP_LO + MAX_HEAP
      /\ arena.brk \in Nat /\ arena'.brk >= arena.brk
  BY <1>1 DEF ExtentsApart, BreakGrows
<1>3. Validator!HeapGrows
  BY <1>2, ParameterAssumption DEF Validator!HeapGrows, ALIGNMENT, HEAP_LO
<1>4. r.lo \in Nat /\ r.lo = lo /\ r = Validator!Range(r.lo, size)
  <2>1. lo = 8 * (new + 2) /\ r.lo = lo
    BY DEF UserPointer, ALIGNMENT, Validator!Range
  <2> QED
    BY <1>2, <2>1
<1>5. \A c, d \in DOMAIN live : Extent(c) = Extent(d) => c = d
  BY DEF Extent, UserPointer, ALIGNMENT, ExtentsApart
<1>6. \A c \in DOMAIN live : Extent(c) \in old => c \in olds
  BY <1>5
<1>7. Validator!CanAdd(Extents \ old, r)
  <2>1. /\ r.lo = 8 * (new + 2) /\ r.hi = 8 * (new + 2) + size - 1
    BY DEF Validator!Range, UserPointer, ALIGNMENT
  <2>2. /\ r.lo % 8 = 0 /\ r.lo >= 8 * HEAP_LO /\ r.hi <= 8 * arena'.brk - 1
        /\ r.hi >= r.lo
    BY <1>2, <2>1 DEF HEAP_LO
  <2>3. ASSUME NEW p \in Extents \ old
        PROVE  ~ Validator!do_ranges_overlap(p, r)
    <3>1. PICK c \in DOMAIN live : p = Extent(c)
      BY DEF Extents
    <3>2. c \in DOMAIN live \ olds /\ c # new
      BY <3>1, <2>3
    <3>3. c \in DOMAIN live' /\ new \in DOMAIN live' /\ live'[c] = live[c]
      BY <3>2, <1>1
    <3>4. /\ c \in Nat /\ live[c] \in Nat
          /\ c < new => 8 * (c + 2) + live[c] <= 8 * (new + 2)
          /\ new < c => 8 * (new + 2) + size <= 8 * (c + 2)
      BY <3>3, <1>1 DEF ExtentsApart
    <3>5. p.lo = 8 * (c + 2) /\ p.hi = 8 * (c + 2) + live[c] - 1
      BY <3>1 DEF Extent, UserPointer, ALIGNMENT
    <3> QED
      BY <1>2, <2>1, <3>2, <3>4, <3>5 DEF Validator!do_ranges_overlap
  <2> QED
    BY <2>2, <2>3 DEF Validator!CanAdd, ALIGNMENT
<1>8. Extents' = (Extents \ old) \cup {r}
  <2>1. \A c \in DOMAIN live \ olds : c # new => Extent(c)' = Extent(c)
    BY <1>1 DEF Extent
  <2>2. (new \in DOMAIN live')
    BY <1>1
  <2> QED
    BY <1>1, <1>6, <2>1, <2>2 DEF Extents, Extent, Validator!Range
<1> QED
  BY <1>3, <1>4, <1>7, <1>8 DEF Validator!Replace, Extents

(* Every call of the client is a step of the validator's specification, or *)
(* fails and is a stutter of it.                                           *)
LEMMA StepRefines ==
  ASSUME ExtensionLeavesAChunk, SizesPositive, Inv, Inv', [Next]_vars
  PROVE  [Validator!Next]_Validator!vars
<1>1. ExtentsApart /\ ExtentsApart'
  BY InvExtents, InvExtentsNext
<1>2. CASE UNCHANGED vars
  BY <1>2 DEF vars, Validator!vars, Extent, UserPointer
<1>3. ASSUME NEW size \in Sizes, Malloc(size)
      PROVE  Validator!Next
  <2>1. PICK r \in my_malloc(arena, size) :
          arena' = r.arena /\ live' = Holding({}, r.chunk, size)
    BY <1>3 DEF Malloc
  <2>2. size \in Nat \ {0} /\ ArenaInv(arena, {})
    BY ParameterAssumption DEF Inv, SizesPositive
  <2>3. BreakGrows(arena, arena')
    BY <2>1, <2>2, MallocGrowsBreak
  <2>4. r.chunk \notin DOMAIN live
    BY <2>1, <2>2, MallocServes DEF Served, Inv
  <2>5. Validator!Replace({Extent(c) : c \in {}}, size)
    <3>1. {} \subseteq DOMAIN live /\ r.chunk \notin DOMAIN live \ {}
      BY <2>4
    <3> QED
      BY <1>1, <2>1, <2>2, <2>3, <3>1, HandOutRefines
  <2>6. {Extent(c) : c \in {}} = {}
    OBVIOUS
  <2>7. Validator!Alloc(size)
    BY <2>5, <2>6 DEF Validator!Alloc
  <2> QED
    BY <2>7 DEF Validator!Next
<1>4. ASSUME NEW c \in DOMAIN live, Free(c)
      PROVE  Validator!Next
  <2>1. arena' = my_free(arena, c) /\ IsArena(arena)
    BY <1>4, ArenaFacts DEF Free, Inv
  <2>2. arena'.brk = arena.brk
    BY <2>1, FreeKeepsBreak DEF SameBreak
  <2>3. /\ DOMAIN live' = DOMAIN live \ {c}
        /\ \A x \in DOMAIN live \ {c} : live'[x] = live[x]
    BY <1>4 DEF Free, Restrict
  <2>4. \A x, y \in DOMAIN live : Extent(x) = Extent(y) => x = y
    BY <1>1 DEF Extent, UserPointer, ALIGNMENT, ExtentsApart
  <2>5. \A x \in DOMAIN live \ {c} : Extent(x)' = Extent(x)
    BY <2>3 DEF Extent
  <2>6. Extents' = Extents \ {Extent(c)}
    BY <2>3, <2>4, <2>5 DEF Extents
  <2>7. Validator!Free(Extent(c)) /\ Extent(c) \in Extents
    BY <2>2, <2>6 DEF Validator!Free, Extents
  <2> QED
    BY <2>7 DEF Validator!Next, Extents
<1>5. ASSUME NEW c \in DOMAIN live, NEW size \in Sizes, Realloc(c, size)
      PROVE  Validator!Next
  <2>1. PICK r \in my_realloc(arena, c, size) :
          arena' = r.arena /\ live' = Holding({c}, r.chunk, size)
    BY <1>5 DEF Realloc
  <2>2. size \in Nat \ {0} /\ ArenaInv(arena, {}) /\ UsedIn(arena.heap, c)
    BY <1>5, ParameterAssumption DEF Inv, SizesPositive
  <2>3. BreakGrows(arena, arena')
    BY <2>1, <2>2, ReallocGrowsBreak
  <2>4. {c} \subseteq DOMAIN live /\ r.chunk \notin DOMAIN live \ {c}
    <3>1. Served(arena, r, {c}, Request(size))
      BY <2>2, ReallocServes
    <3> QED
      BY <3>1, <1>5 DEF Served, Inv
  <2>5. Validator!Replace({Extent(x) : x \in {c}}, size)
    BY <1>1, <2>1, <2>2, <2>3, <2>4, HandOutRefines
  <2>6. {Extent(x) : x \in {c}} = {Extent(c)}
    OBVIOUS
  <2>7. Validator!Realloc(Extent(c), size) /\ Extent(c) \in Extents
    BY <2>5, <2>6 DEF Validator!Realloc, Extents
  <2> QED
    BY <2>7 DEF Validator!Next, Extents
<1>6. ASSUME NEW c, NEW size, MallocFails(size) \/ ReallocFails(c, size)
      PROVE  UNCHANGED vars
  BY <1>6 DEF MallocFails, ReallocFails
<1> QED
  BY <1>2, <1>3, <1>4, <1>5, <1>6 DEF Next

(* The new heap is a heap of the validator without a block.                *)
LEMMA InitRefines ==
  ASSUME Init
  PROVE  Validator!Init
<1>1. live = << >> /\ arena.brk = HEAP_LO + INITIAL_CHUNK_SIZE + 2
  BY DEF Init, my_init
<1>2. {Extent(c) : c \in DOMAIN live} = {}
  BY <1>1
<1>3. 8 * arena.brk - 1 \in 8 * HEAP_LO .. 8 * (HEAP_LO + MAX_HEAP) - 1
  BY <1>1, ParameterAssumption DEF HEAP_LO
<1> QED
  BY <1>2, <1>3 DEF Validator!Init, ALIGNMENT

(* The allocator is a malloc package: every pointer that malloc or realloc *)
(* returns is one that the validator accepts, and free only takes a block  *)
(* off its list.                                                           *)
THEOREM AllocatorIsMallocPackage ==
  ASSUME ExtensionLeavesAChunk, SizesPositive
  PROVE  Spec => ImplementsRangeList
<1>1. Init => Validator!Init
  BY InitRefines
<1>2. Inv /\ Inv' /\ [Next]_vars => [Validator!Next]_Validator!vars
  BY StepRefines
<1> QED
  BY <1>1, <1>2, InvHolds, PTL DEF Spec, ImplementsRangeList, Validator!Spec
=============================================================================
