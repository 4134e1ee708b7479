--------------------------- MODULE AllocatorProofs ---------------------------
(***************************************************************************)
(* The arena stays consistent through every helper of the allocator.       *)
(* Between two helpers a handler holds chunks that are free and yet in no  *)
(* bin, because it is about to hand them out, combine them or bin them:    *)
(* the invariant ArenaInv(a, F) of a handler names them, as the set F.     *)
(*                                                                         *)
(* Then: what my_malloc, my_free and my_realloc promise to their client,   *)
(* and the invariants of every sequence of their calls that follow.        *)
(***************************************************************************)
EXTENDS Allocator, HeapProofs, FiniteSetTheorems

FreeIn(h, c) == c \in DOMAIN h /\ ~ h[c].cur
UsedIn(h, c) == c \in DOMAIN h /\ h[c].cur

IsArena(a) == a = [heap |-> a.heap, end |-> a.end, victim |-> a.victim,
                   bins |-> a.bins, brk |-> a.brk]

(* The chunks that must be in a bin while a handler holds those of F.      *)
Filed(a, F, c) == FreeIn(a.heap, c) /\ c \notin {a.end, a.victim} \cup F

BinsExact(a, F) ==
  /\ a.bins \in [BinIndex -> SUBSET Nat]
  /\ \A n \in BinIndex : \A c :
       c \in a.bins[n] <=> Filed(a, F, c) /\ BinOf(a.heap[c].size) = n

BreakInv(a) ==
  a.brk \in Nat /\ NEXT_HEAP_CHUNK(a.heap, a.end) + 1 = a.brk /\ a.brk <= HEAP_LO + MAX_HEAP

VictimInv(a, F) ==
  a.victim # NULL => FreeIn(a.heap, a.victim) /\ a.victim # a.end /\ a.victim \notin F

ArenaInv(a, F) ==
  /\ IsArena(a) /\ HeapInv(a.heap, a.end) /\ BreakInv(a) /\ VictimInv(a, F)
  /\ \A f \in F : FreeIn(a.heap, f) /\ f # a.end
  /\ BinsExact(a, F)

(* The blocks in use stay where they are and keep their sizes, save C.     *)
SameUsed(h, g, C) ==
  \A x : x \notin C => /\ UsedIn(h, x) <=> UsedIn(g, x)
                       /\ UsedIn(h, x) => g[x].size = h[x].size

-----------------------------------------------------------------------------
(* Sizes and bins.                                                         *)

(* A request is at least the smallest chunk, and at least what was asked.  *)
LEMMA RequestFacts ==
  ASSUME NEW size \in Nat
  PROVE  Request(size) \in Nat /\ Request(size) >= SMALLEST_MALLOC
BY DEF Request, SMALLEST_MALLOC

(* default_realloc asks malloc for the bytes of a request in words.        *)
LEMMA RequestOfWords ==
  ASSUME NEW r \in Nat, r >= SMALLEST_MALLOC
  PROVE  Request(8 * r) = r /\ 8 * r \in Nat /\ 8 * r # 0
BY DEF Request, SMALLEST_MALLOC

(* The position of the highest bit grows with the size, below the huge.    *)
LEMMA LogFacts ==
  ASSUME NEW s \in Nat, NEW t \in Nat, s <= t
  PROVE  /\ FAST_LOG2(s) \in Nat /\ FAST_LOG2(t) \in Nat
         /\ LARGE_LOG <= FAST_LOG2(s) /\ FAST_LOG2(s) <= FAST_LOG2(t)
         /\ LARGE_LOG < HUGE_LOG => FAST_LOG2(t) <= HUGE_LOG - 1
<1> DEFINE range == LARGE_LOG + 1 .. HUGE_LOG - 1
           Bits(x) == {l \in range : 2 ^ l <= x}
<1>1. LARGE_LOG \in Nat /\ HUGE_LOG \in Nat
  BY CutoffAssumption
<1>2. IsFiniteSet(range) /\ (LARGE_LOG < HUGE_LOG => Cardinality(range) = HUGE_LOG - 1 - LARGE_LOG)
  BY <1>1, FS_Interval
<1>3. \A l \in range : 2 ^ l \in Int
  BY <1>1
<1>4. Bits(s) \subseteq Bits(t) /\ Bits(t) \subseteq range
  BY <1>3
<1> HIDE DEF range
<1>5. /\ IsFiniteSet(Bits(s)) /\ IsFiniteSet(Bits(t))
      /\ Cardinality(Bits(s)) \in Nat /\ Cardinality(Bits(t)) \in Nat
      /\ Cardinality(Bits(s)) <= Cardinality(Bits(t))
      /\ Cardinality(Bits(t)) <= Cardinality(range)
  <2> HIDE DEF Bits
  <2> QED
    BY <1>2, <1>4, FS_Subset, FS_CardinalityType
<1>6. FAST_LOG2(s) = LARGE_LOG + Cardinality(Bits(s)) /\ FAST_LOG2(t) = LARGE_LOG + Cardinality(Bits(t))
  BY DEF FAST_LOG2, range
<1> HIDE DEF Bits
<1> QED
  BY <1>1, <1>2, <1>5, <1>6

(* A large bin further up holds larger chunks.                             *)
LEMMA LargeIndexFacts ==
  ASSUME NEW s \in Nat, NEW t \in Nat, s <= t
  PROVE  /\ large_request_index(s) \in Nat /\ large_request_index(s) >= LARGE_MIN
         /\ large_request_index(s) <= large_request_index(t)
         /\ LARGE_LOG < HUGE_LOG => large_request_index(t) <= NUM_OF_BINS - 1
<1> DEFINE l == FAST_LOG2(s)
           m == FAST_LOG2(t)
           Half(x, k) == IF 2 * x >= 3 * 2 ^ k THEN 1 ELSE 0
<1>1. /\ l \in Nat /\ m \in Nat /\ LARGE_LOG <= l /\ l <= m
      /\ LARGE_LOG < HUGE_LOG => m <= HUGE_LOG - 1
  BY LogFacts
<1>2. LARGE_LOG \in Nat /\ HUGE_LOG \in Nat /\ LARGE_MIN \in Nat
  BY CutoffAssumption
<1>3. /\ large_request_index(s) = LARGE_MIN + 2 * (l - LARGE_LOG) + Half(s, l)
      /\ large_request_index(t) = LARGE_MIN + 2 * (m - LARGE_LOG) + Half(t, m)
  BY DEF large_request_index
<1> HIDE DEF l, m
<1>4. 2 ^ l \in Int
  BY <1>1
<1>5. l = m => Half(s, l) <= Half(t, m)
  BY <1>4
<1>6. Half(s, l) \in {0, 1} /\ Half(t, m) \in {0, 1}
  OBVIOUS
<1> HIDE DEF Half
<1> QED
  BY <1>1, <1>2, <1>3, <1>5, <1>6 DEF NUM_OF_BINS

(* Every size has a bin, and the bin tells what kind of size it is.        *)
LEMMA BinFacts ==
  ASSUME NEW s \in Nat, s >= SMALLEST_MALLOC
  PROVE  /\ BinOf(s) \in BinIndex
         /\ BinOf(s) \in SMALLEST_MALLOC .. LARGE_MIN - 1 => BinOf(s) = s
         /\ BinOf(s) >= LARGE_MIN => s >= LARGE_MIN /\ BinOf(s) = large_request_index(s)
<1>1. /\ LARGE_LOG \in Nat /\ HUGE_LOG \in Nat /\ LARGE_LOG <= HUGE_LOG
      /\ LARGE_MIN \in Nat /\ HUGE_MIN \in Nat /\ 3 < LARGE_MIN
  BY CutoffAssumption DEF SMALLEST_MALLOC
<1>2. CASE s >= HUGE_MIN
  BY <1>1, <1>2 DEF BinOf, IS_HUGE_SIZE, HUGE_BIN, BinIndex, SMALLEST_MALLOC
<1>3. CASE s < HUGE_MIN /\ s >= LARGE_MIN
  <2>1. BinOf(s) = large_request_index(s)
    BY <1>1, <1>3 DEF BinOf, IS_HUGE_SIZE, IS_LARGE_SIZE
  <2>2. LARGE_LOG # HUGE_LOG
    BY <1>1, <1>3 DEF LARGE_MIN, HUGE_MIN
  <2>3. large_request_index(s) \in LARGE_MIN .. NUM_OF_BINS - 1 /\ NUM_OF_BINS \in Nat
    BY <1>1, <2>2, LargeIndexFacts DEF NUM_OF_BINS
  <2> QED
    BY <1>1, <1>3, <2>1, <2>3 DEF BinIndex, SMALLEST_MALLOC
<1>4. CASE s < HUGE_MIN /\ s < LARGE_MIN
  BY <1>1, <1>4 DEF BinOf, IS_HUGE_SIZE, IS_LARGE_SIZE, small_request_index, BinIndex,
                    NUM_OF_BINS, SMALLEST_MALLOC
<1> QED
  BY <1>1, <1>2, <1>3, <1>4

-----------------------------------------------------------------------------
(* Chunks move in and out of the bins.                                     *)

(* Which chunks are where, when one more of them, or one less, is held.    *)
Refiled(a, F, b, G) ==
  \A c : /\ Filed(a, F, c) <=> Filed(b, G, c)
         /\ Filed(a, F, c) => b.heap[c].size = a.heap[c].size

(* The bins stay exact when the chunks in them stay as they are.           *)
LEMMA Rebook ==
  ASSUME NEW a, NEW F, ArenaInv(a, F), NEW b, NEW G, b.bins = a.bins, Refiled(a, F, b, G)
  PROVE  BinsExact(b, G)
BY DEF ArenaInv, BinsExact, Refiled

(* What is most often needed of a consistent arena.                        *)
LEMMA ArenaFacts ==
  ASSUME NEW a, NEW F, ArenaInv(a, F)
  PROVE  /\ IsArena(a) /\ HeapInv(a.heap, a.end) /\ FreeIn(a.heap, a.end)
         /\ a.heap \in [DOMAIN a.heap -> Header] /\ DOMAIN a.heap \subseteq Nat \ {NULL}
         /\ a.end \in Nat /\ a.brk \in Nat /\ a.bins \in [BinIndex -> SUBSET Nat]
         /\ \A c \in DOMAIN a.heap : a.heap[c].size \in Nat /\ a.heap[c].size >= SMALLEST_MALLOC
BY DEF ArenaInv, HeapInv, HeapTyped, FreeIn, IS_CURRENT_FREE, Header, BreakInv, BinsExact,
       CHUNK_SIZE, NULL

(* A chunk that is held goes to its bin.                                   *)
LEMMA InsertChunk ==
  ASSUME NEW a, NEW F, ArenaInv(a, F), NEW c \in F,
         NEW b, b = insert_chunk(a, c)
  PROVE  /\ ArenaInv(b, F \ {c})
         /\ b.heap = a.heap /\ b.end = a.end /\ b.victim = a.victim /\ b.brk = a.brk
<1> DEFINE n == BinOf(a.heap[c].size)
<1>1. /\ FreeIn(a.heap, c) /\ c # a.end /\ c # a.victim /\ c \in Nat
      /\ n \in BinIndex /\ a.bins \in [BinIndex -> SUBSET Nat]
  <2>1. FreeIn(a.heap, c) /\ c # a.end /\ c # a.victim /\ c \in Nat
    BY ArenaFacts DEF ArenaInv, VictimInv, FreeIn, NULL
  <2> QED
    BY <2>1, ArenaFacts, BinFacts DEF FreeIn
<1>2. /\ b.heap = a.heap /\ b.end = a.end /\ b.victim = a.victim /\ b.brk = a.brk
      /\ b.bins = [a.bins EXCEPT ![n] = @ \cup {c}] /\ IsArena(b)
  BY DEF insert_chunk, CHUNK_SIZE, ArenaInv, IsArena
<1> HIDE DEF n
<1>3. b.bins \in [BinIndex -> SUBSET Nat]
  BY <1>1, <1>2
<1>4. ASSUME NEW k \in BinIndex, NEW x
      PROVE  x \in b.bins[k] <=> Filed(b, F \ {c}, x) /\ BinOf(b.heap[x].size) = k
  <2>1. x \in a.bins[k] <=> Filed(a, F, x) /\ BinOf(a.heap[x].size) = k
    BY DEF ArenaInv, BinsExact
  <2>2. x \in b.bins[k] <=> x \in a.bins[k] \/ (k = n /\ x = c)
    BY <1>1, <1>2
  <2>3. CASE x = c
    BY <2>1, <2>2, <2>3, <1>1, <1>2 DEF Filed, n
  <2>4. CASE x # c
    BY <2>1, <2>2, <2>4, <1>1, <1>2 DEF Filed
  <2> QED
    BY <2>3, <2>4
<1>5. BinsExact(b, F \ {c})
  BY <1>3, <1>4 DEF BinsExact
<1> QED
  BY <1>2, <1>5 DEF ArenaInv, BreakInv, VictimInv

(* A chunk that is in a bin is taken out of it.                            *)
LEMMA RemoveChunk ==
  ASSUME NEW a, NEW F, ArenaInv(a, F), NEW c, Filed(a, F, c),
         NEW b, b = remove_chunk(a, c)
  PROVE  /\ ArenaInv(b, F \cup {c})
         /\ b.heap = a.heap /\ b.end = a.end /\ b.victim = a.victim /\ b.brk = a.brk
<1> DEFINE n == BinOf(a.heap[c].size)
<1>1. /\ FreeIn(a.heap, c) /\ c # a.end /\ c # a.victim /\ c \notin F
      /\ n \in BinIndex /\ a.bins \in [BinIndex -> SUBSET Nat]
  <2>1. FreeIn(a.heap, c) /\ c # a.end /\ c # a.victim /\ c \notin F
    BY DEF Filed
  <2> QED
    BY <2>1, ArenaFacts, BinFacts DEF FreeIn
<1>2. /\ b.heap = a.heap /\ b.end = a.end /\ b.victim = a.victim /\ b.brk = a.brk
      /\ b.bins = [a.bins EXCEPT ![n] = @ \ {c}] /\ IsArena(b)
  BY DEF remove_chunk, CHUNK_SIZE, ArenaInv, IsArena
<1> HIDE DEF n
<1>3. b.bins \in [BinIndex -> SUBSET Nat]
  BY <1>1, <1>2
<1>4. ASSUME NEW k \in BinIndex, NEW x
      PROVE  x \in b.bins[k] <=> Filed(b, F \cup {c}, x) /\ BinOf(b.heap[x].size) = k
  <2>1. x \in a.bins[k] <=> Filed(a, F, x) /\ BinOf(a.heap[x].size) = k
    BY DEF ArenaInv, BinsExact
  <2>2. x \in b.bins[k] <=> x \in a.bins[k] /\ ~ (k = n /\ x = c)
    BY <1>1, <1>2
  <2>3. CASE x = c
    BY <2>1, <2>2, <2>3, <1>1, <1>2 DEF Filed, n
  <2>4. CASE x # c
    BY <2>1, <2>2, <2>4, <1>1, <1>2 DEF Filed
  <2> QED
    BY <2>3, <2>4
<1>5. BinsExact(b, F \cup {c})
  BY <1>3, <1>4 DEF BinsExact
<1> QED
  BY <1>1, <1>2, <1>5 DEF ArenaInv, BreakInv, VictimInv

(* The victim is given up and held instead.                                *)
LEMMA ForgetVictim ==
  ASSUME NEW a, NEW F, ArenaInv(a, F), a.victim # NULL,
         NEW b, b = [a EXCEPT !.victim = NULL]
  PROVE  /\ ArenaInv(b, F \cup {a.victim})
         /\ b.heap = a.heap /\ b.end = a.end /\ b.victim = NULL /\ b.brk = a.brk
<1>1. /\ b.heap = a.heap /\ b.end = a.end /\ b.victim = NULL /\ b.brk = a.brk
      /\ b.bins = a.bins /\ IsArena(b)
  BY DEF ArenaInv, IsArena
<1>2. Refiled(a, F, b, F \cup {a.victim})
  <2>1. ~ FreeIn(a.heap, NULL)
    BY ArenaFacts DEF FreeIn
  <2> QED
    BY <2>1, <1>1 DEF Refiled, Filed
<1>3. BinsExact(b, F \cup {a.victim})
  BY <1>1, <1>2, Rebook
<1> QED
  BY <1>1, <1>3 DEF ArenaInv, BreakInv, VictimInv

(* Any other free chunk below the end of heap is taken into the hand.      *)
LEMMA RemoveOrVictim ==
  ASSUME NEW a, NEW F, ArenaInv(a, F), NEW c, FreeIn(a.heap, c), c # a.end, c \notin F,
         NEW b, b = remove_chunk_or_victim(a, c)
  PROVE  /\ ArenaInv(b, F \cup {c})
         /\ b.heap = a.heap /\ b.end = a.end /\ b.brk = a.brk
         /\ b.victim # NULL => b.victim = a.victim /\ b.victim # c
<1>1. CASE c = a.victim
  <2>1. c # NULL
    BY ArenaFacts DEF FreeIn
  <2> QED
    BY <1>1, <2>1, ForgetVictim DEF remove_chunk_or_victim
<1>2. CASE c # a.victim
  <2>1. Filed(a, F, c) /\ b = remove_chunk(a, c)
    BY <1>2 DEF Filed, remove_chunk_or_victim
  <2> QED
    BY <1>2, <2>1, RemoveChunk
<1> QED
  BY <1>1, <1>2

-----------------------------------------------------------------------------
(* What malloc takes out of the arena.                                     *)

(* The outcome r hands out a chunk that was free, and moves no other block.*)
Found(a, r, request) ==
  /\ ArenaInv(r.arena, {r.chunk}) /\ r.arena.heap[r.chunk].size >= request
  /\ SameUsed(a.heap, r.arena.heap, {})
  /\ Tidies(a.heap, {}, r.arena.heap, {r.chunk})

(* A chunk that is handed out as it is may have any chunk above it.        *)
LEMMA TakenTidies ==
  ASSUME NEW h, NEW c
  PROVE  Tidies(h, {}, h, {c})
BY CoalescedFewer DEF Tidies

(* What the handlers need to know of a chunk that was cut.                 *)
LEMMA SplitSummary ==
  ASSUME NEW h, NEW end, HeapInv(h, end), NEW c \in DOMAIN h, NEW request \in Nat,
         request >= SMALLEST_MALLOC, CAN_SPLIT_CHUNK(h, c, request), ~ h[c].cur,
         NEW g, g = split_chunk(h, c, request), NEW rest, rest = Remainder(c, request)
  PROVE  /\ HeapInv(g, IF c = end THEN rest ELSE end)
         /\ rest \notin DOMAIN h /\ rest # NULL /\ rest # c /\ rest \in Nat
         /\ DOMAIN g = DOMAIN h \cup {rest}
         /\ ~ g[c].cur /\ g[c].size = request /\ ~ g[rest].cur
         /\ NEXT_HEAP_CHUNK(g, rest) = NEXT_HEAP_CHUNK(h, c)
         /\ \A x \in DOMAIN h \ {c} : g[x].size = h[x].size /\ (g[x].cur <=> h[x].cur)
<1> DEFINE e == NEXT_HEAP_CHUNK(h, c)
<1>1. SplitInTwo(h, g, c, rest, e, request)
  BY SplitFields
<1>2. HeapInv(g, IF c = end THEN rest ELSE end)
  BY SplitKeepsHeap
<1>3. NEXT_HEAP_CHUNK(g, rest) = e
  <2> HIDE DEF e
  <2> QED
    BY <1>1 DEF SplitInTwo, NEXT_HEAP_CHUNK
<1>4. rest # NULL /\ rest # c
  <2> HIDE DEF e
  <2>1. c \in Nat
    BY ChunkFacts
  <2> QED
    BY <1>1, <2>1 DEF SplitInTwo, NULL
<1>5. \A x \in DOMAIN h \ {c} : g[x].size = h[x].size /\ (g[x].cur <=> h[x].cur)
  <2> HIDE DEF e
  <2> QED
    BY <1>1 DEF SplitInTwo
<1> HIDE DEF e
<1> QED
  BY <1>1, <1>2, <1>3, <1>4, <1>5 DEF SplitInTwo, e

(* In b the chunk in hand has been cut to request words.                   *)
IsSplitArena(a, b, c, request) ==
  /\ ArenaInv(b, {c}) /\ b.heap[c].size = request
  /\ SameUsed(a.heap, b.heap, {}) /\ Tidies(a.heap, {}, b.heap, {c})

(* A held chunk is cut while there is no victim: the rest becomes it.      *)
LEMMA SplitToNewVictim ==
  ASSUME NEW a, NEW c, ArenaInv(a, {c}), a.victim = NULL,
         NEW request \in Nat, request >= SMALLEST_MALLOC, CAN_SPLIT_CHUNK(a.heap, c, request),
         NEW b, b = [a EXCEPT !.heap = split_chunk(@, c, request),
                              !.victim = Remainder(c, request)]
  PROVE  IsSplitArena(a, b, c, request)
<1> DEFINE h == a.heap
           g == split_chunk(h, c, request)
           rest == Remainder(c, request)
<1>1. b.heap = g /\ b.victim = rest /\ b.end = a.end /\ b.brk = a.brk /\ b.bins = a.bins
      /\ IsArena(b)
  BY DEF ArenaInv, IsArena
<1>2. /\ HeapInv(h, a.end) /\ c \in DOMAIN h /\ ~ h[c].cur /\ c # a.end
      /\ a.end \in DOMAIN h
  BY ArenaFacts DEF ArenaInv, FreeIn
<1>3. g = split_chunk(h, c, request) /\ rest = Remainder(c, request)
  OBVIOUS
<1> HIDE DEF h, g, rest
<1>4. /\ HeapInv(g, a.end) /\ rest \notin DOMAIN h /\ rest # NULL /\ rest # c
      /\ DOMAIN g = DOMAIN h \cup {rest}
      /\ ~ g[c].cur /\ g[c].size = request /\ ~ g[rest].cur
      /\ \A x \in DOMAIN h \ {c} : g[x].size = h[x].size /\ (g[x].cur <=> h[x].cur)
  <2>1. CAN_SPLIT_CHUNK(h, c, request)
    BY DEF h
  <2> QED
    BY <1>2, <1>3, <2>1, SplitSummary
<1>5. BreakInv(b)
  BY <1>1, <1>2, <1>4 DEF ArenaInv, BreakInv, NEXT_HEAP_CHUNK, h
<1>6. VictimInv(b, {c})
  BY <1>1, <1>2, <1>4 DEF VictimInv, FreeIn
<1>7. NULL \notin DOMAIN h
  BY ArenaFacts DEF h
<1>8. Refiled(a, {c}, b, {c})
  <2>1. a.heap = h
    BY DEF h
  <2> QED
    BY <2>1, <1>1, <1>2, <1>4, <1>7 DEF Refiled, Filed, FreeIn
<1>9. BinsExact(b, {c})
  BY <1>1, <1>8, Rebook
<1>10. SameUsed(a.heap, b.heap, {})
  <2>1. a.heap = h
    BY DEF h
  <2> QED
    BY <2>1, <1>1, <1>2, <1>4 DEF SameUsed, UsedIn
<1>11. Tidies(a.heap, {}, b.heap, {c})
  <2>1. a.heap = h /\ CAN_SPLIT_CHUNK(h, c, request)
    BY DEF h
  <2>2. Tidies(h, {}, g, {c})
    BY <2>1, <1>2, <1>3, SplitTidies
  <2> QED
    BY <2>1, <2>2, <1>1
<1> QED
  BY <1>1, <1>2, <1>4, <1>5, <1>6, <1>9, <1>10, <1>11 DEF ArenaInv, FreeIn, IsSplitArena

(* The same with an old victim, which goes to its bin first.               *)
LEMMA SplitIfPossible ==
  ASSUME NEW a, NEW c, ArenaInv(a, {c}), NEW request \in Nat, request >= SMALLEST_MALLOC,
         a.heap[c].size >= request, NEW r, r = split_if_possible(a, c, request)
  PROVE  Found(a, r, request)
<1>1. CASE ~ CAN_SPLIT_CHUNK(a.heap, c, request)
  BY <1>1, TakenTidies DEF split_if_possible, Outcome, Found, SameUsed
<1>2. CASE CAN_SPLIT_CHUNK(a.heap, c, request)
  <2> DEFINE kept == IF a.victim = NULL THEN a ELSE insert_chunk(a, a.victim)
             k == [kept EXCEPT !.victim = NULL]
             b == [k EXCEPT !.heap = split_chunk(@, c, request),
                            !.victim = Remainder(c, request)]
  <2>1. ArenaInv(k, {c}) /\ k.heap = a.heap /\ k.victim = NULL /\ IsArena(kept)
    <3>1. CASE a.victim = NULL
      <4>1. k = a
        BY <3>1 DEF ArenaInv, IsArena
      <4> QED
        BY <4>1, <3>1 DEF ArenaInv
    <3>2. CASE a.victim # NULL
      <4> DEFINE v == a.victim
                 a0 == [a EXCEPT !.victim = NULL]
                 b0 == insert_chunk(a0, v)
      <4>1. ArenaInv(a0, {c} \cup {v}) /\ a0.heap = a.heap /\ a0.victim = NULL
        BY <3>2, ForgetVictim
      <4>2. ArenaInv(b0, ({c} \cup {v}) \ {v}) /\ b0.heap = a0.heap /\ b0.victim = NULL
        <5> HIDE DEF a0, v
        <5> QED
          BY <4>1, InsertChunk
      <4>3. c # v
        BY <3>2 DEF ArenaInv, VictimInv
      <4>4. ({c} \cup {v}) \ {v} = {c}
        BY <4>3
      <4>5. k = b0 /\ IsArena(kept)
        BY <3>2 DEF insert_chunk, ArenaInv, IsArena
      <4> QED
        BY <4>1, <4>2, <4>4, <4>5
    <3> QED
      BY <3>1, <3>2
  <2>2. r = Outcome(b, c)
    BY <1>2, <2>1 DEF split_if_possible, split_to_victim, IsArena
  <2> HIDE DEF kept, k
  <2>3. IsSplitArena(k, b, c, request)
    <3>1. CAN_SPLIT_CHUNK(k.heap, c, request)
      BY <1>2, <2>1
    <3> QED
      BY <3>1, <2>1, SplitToNewVictim
  <2> HIDE DEF b
  <2> QED
    BY <2>1, <2>2, <2>3 DEF Found, Outcome, IsSplitArena
<1> QED
  BY <1>1, <1>2

(* Chunks that a search may choose from.                                   *)
Suitable(a, chunks, request) ==
  \A c \in chunks : Filed(a, {}, c) /\ a.heap[c].size >= request

(* A victim that is large enough serves the request.                       *)
LEMMA TakeVictim ==
  ASSUME NEW a, ArenaInv(a, {}), NEW request \in Nat, request >= SMALLEST_MALLOC,
         NEW r \in take_victim(a, request)
  PROVE  Found(a, r, request)
<1> DEFINE v == a.victim
           b == [a EXCEPT !.victim = NULL]
<1>1. v # NULL /\ CHUNK_SIZE(a.heap, v) >= request /\ r = split_if_possible(b, v, request)
  BY DEF take_victim
<1>2. ArenaInv(b, {v}) /\ b.heap = a.heap
  BY <1>1, ForgetVictim
<1> HIDE DEF b, v
<1>3. Found(b, r, request)
  BY <1>1, <1>2, SplitIfPossible DEF CHUNK_SIZE
<1> QED
  BY <1>2, <1>3 DEF Found

(* Any chunk of a suitable bin serves the request, cut if it can be.       *)
LEMMA TakeBinned ==
  ASSUME NEW a, ArenaInv(a, {}), NEW request \in Nat, request >= SMALLEST_MALLOC,
         NEW chunks, Suitable(a, chunks, request), NEW r \in take_binned(a, chunks, request)
  PROVE  Found(a, r, request)
<1>1. PICK c \in chunks : r = split_if_possible(remove_chunk(a, c), c, request)
  BY DEF take_binned
<1> DEFINE b == remove_chunk(a, c)
<1>2. Filed(a, {}, c) /\ a.heap[c].size >= request
  BY DEF Suitable
<1>3. ArenaInv(b, {c}) /\ b.heap = a.heap
  BY <1>2, RemoveChunk
<1> HIDE DEF b
<1>4. Found(b, r, request)
  BY <1>1, <1>2, <1>3, SplitIfPossible DEF b
<1> QED
  BY <1>3, <1>4 DEF Found

(* A chunk that is handed out whole.                                       *)
LEMMA TakeWhole ==
  ASSUME NEW a, ArenaInv(a, {}), NEW request \in Nat, NEW c, Filed(a, {}, c),
         a.heap[c].size >= request, NEW r, r = Outcome(remove_chunk(a, c), c)
  PROVE  Found(a, r, request)
<1> DEFINE b == remove_chunk(a, c)
<1>1. ArenaInv(b, {c}) /\ b.heap = a.heap
  BY RemoveChunk
<1> QED
  BY <1>1, TakenTidies DEF Found, Outcome, SameUsed

(* A chunk of a bin is free, in no other place, and of the bin's size.     *)
LEMMA BinnedChunk ==
  ASSUME NEW a, ArenaInv(a, {}), NEW n \in BinIndex, NEW c \in a.bins[n]
  PROVE  /\ Filed(a, {}, c) /\ BinOf(a.heap[c].size) = n
         /\ a.heap[c].size \in Nat /\ a.heap[c].size >= SMALLEST_MALLOC
<1>1. Filed(a, {}, c) /\ BinOf(a.heap[c].size) = n
  BY DEF ArenaInv, BinsExact
<1> QED
  BY <1>1, ArenaFacts DEF Filed, FreeIn

(* A search returns chunks of the bins it visits.                          *)
LEMMA Searches ==
  ASSUME NEW a, NEW B, NEW chunks
  PROVE  /\ \A c \in FirstNonEmpty(a, B) : \E n \in B : c \in a.bins[n]
         /\ Smallest(a, chunks) \subseteq chunks
BY DEF FirstNonEmpty, Smallest

(* The bins of a small request, and those above it, hold enough.           *)
LEMMA SmallBins ==
  ASSUME NEW a, ArenaInv(a, {}), NEW request \in Nat, request >= SMALLEST_MALLOC,
         request < LARGE_MIN, NEW n \in request .. NUM_OF_BINS - 1
  PROVE  n \in BinIndex /\ Suitable(a, a.bins[n], request)
<1>1. LARGE_MIN \in Nat /\ NUM_OF_BINS \in Nat /\ NUM_OF_BINS >= LARGE_MIN
  BY CutoffAssumption DEF NUM_OF_BINS
<1>2. n \in BinIndex /\ n \in Nat
  BY <1>1 DEF BinIndex, SMALLEST_MALLOC
<1>3. ASSUME NEW c \in a.bins[n]
      PROVE  Filed(a, {}, c) /\ a.heap[c].size >= request
  <2>1. /\ Filed(a, {}, c) /\ BinOf(a.heap[c].size) = n
        /\ a.heap[c].size \in Nat /\ a.heap[c].size >= SMALLEST_MALLOC
    BY <1>2, BinnedChunk
  <2>2. CASE n < LARGE_MIN
    BY <2>1, <2>2, <1>1, BinFacts DEF SMALLEST_MALLOC
  <2>3. CASE n >= LARGE_MIN
    BY <2>1, <2>3, <1>1, BinFacts
  <2> QED
    BY <2>2, <2>3, <1>1
<1> QED
  BY <1>2, <1>3 DEF Suitable

(* Every way small_malloc finds a chunk serves the request.                *)
LEMMA SmallMalloc ==
  ASSUME NEW a, ArenaInv(a, {}), NEW request \in Nat, request >= SMALLEST_MALLOC,
         request < LARGE_MIN, NEW r \in small_malloc(a, request)
  PROVE  Found(a, r, request)
<1> DEFINE exact == {Outcome(remove_chunk(a, c), c) : c \in a.bins[request]}
           small == {j \in request + 1 .. LARGE_MIN - 1 : j - request < SMALL_BIN_SEARCH_MAX}
           large == {n \in LARGE_MIN .. NUM_OF_BINS - 1 : n < LARGE_MIN + LARGE_BIN_SEARCH_MAX}
           next == FirstNonEmpty(a, small)
           best == Smallest(a, FirstNonEmpty(a, large))
<1>1. \/ r \in exact \/ r \in take_victim(a, request)
      \/ r \in take_binned(a, next, request) \/ r \in take_binned(a, best, request)
  BY DEF small_malloc, OrElse, small_request_index
<1>2. LARGE_MIN \in Nat /\ NUM_OF_BINS \in Nat /\ NUM_OF_BINS >= LARGE_MIN
  BY CutoffAssumption DEF NUM_OF_BINS
<1>3. CASE r \in exact
  <2>1. PICK c \in a.bins[request] : r = Outcome(remove_chunk(a, c), c)
    BY <1>3
  <2>2. Suitable(a, a.bins[request], request)
    BY <1>2, SmallBins
  <2> QED
    BY <2>1, <2>2, TakeWhole DEF Suitable
<1>4. CASE r \in take_binned(a, next, request)
  <2>1. Suitable(a, next, request)
    <3>1. small \subseteq request .. NUM_OF_BINS - 1
      BY <1>2
    <3> HIDE DEF small
    <3> QED
      BY <3>1, SmallBins, Searches DEF Suitable
  <2> HIDE DEF next
  <2> QED
    BY <2>1, <1>4, TakeBinned
<1>5. CASE r \in take_binned(a, best, request)
  <2>1. Suitable(a, best, request)
    <3>1. large \subseteq request .. NUM_OF_BINS - 1
      BY <1>2
    <3> HIDE DEF large
    <3>2. \A c \in best : c \in FirstNonEmpty(a, large)
      BY Searches
    <3> HIDE DEF best
    <3> QED
      BY <3>1, <3>2, SmallBins, Searches DEF Suitable
  <2> HIDE DEF best
  <2> QED
    BY <2>1, <1>5, TakeBinned
<1> QED
  BY <1>1, <1>3, <1>4, <1>5, TakeVictim

(* Every bin beyond that of a large request holds larger chunks.           *)
LEMMA FindBestChunk ==
  ASSUME NEW a, ArenaInv(a, {}), NEW request \in Nat, request >= LARGE_MIN,
         request < HUGE_MIN
  PROVE  Suitable(a, find_best_chunk(a, request), request)
<1> DEFINE n == large_request_index(request)
           fit == {c \in a.bins[n] : CHUNK_SIZE(a.heap, c) >= request}
           exact == {c \in fit : CHUNK_SIZE(a.heap, c) = request}
           best == Smallest(a, FirstNonEmpty(a, BinsRead(n) \cap BinIndex))
<1>1. find_best_chunk(a, request) \subseteq fit \cup best
  BY DEF find_best_chunk, OrElse
<1>2. /\ LARGE_MIN \in Nat /\ HUGE_MIN \in Nat /\ 3 < LARGE_MIN /\ NUM_OF_BINS \in Nat
      /\ LARGE_LOG \in Nat /\ HUGE_LOG \in Nat /\ LARGE_LOG <= HUGE_LOG
  BY CutoffAssumption DEF NUM_OF_BINS, SMALLEST_MALLOC
<1>3. LARGE_LOG < HUGE_LOG
  <2>1. LARGE_LOG # HUGE_LOG
    BY <1>2 DEF LARGE_MIN, HUGE_MIN
  <2> QED
    BY <2>1, <1>2
<1>4. n \in Nat /\ n >= LARGE_MIN /\ n <= NUM_OF_BINS - 1
  BY <1>3, LargeIndexFacts
<1> HIDE DEF n
<1>5. n \in BinIndex
  BY <1>2, <1>4 DEF BinIndex, SMALLEST_MALLOC
<1>6. Suitable(a, fit, request)
  BY <1>5, BinnedChunk DEF Suitable, CHUNK_SIZE
<1>7. Suitable(a, best, request)
  <2>1. SUFFICES ASSUME NEW c \in best
                 PROVE  Filed(a, {}, c) /\ a.heap[c].size >= request
    BY DEF Suitable
  <2>2. c \in FirstNonEmpty(a, BinsRead(n) \cap BinIndex)
    BY <2>1, Searches
  <2>3. PICK m \in BinsRead(n) \cap BinIndex : c \in a.bins[m]
    BY <2>2, Searches
  <2>4. m \in Nat /\ m > n
    BY <2>3, <1>2, <1>4, ParameterAssumption DEF BinsRead
  <2>5. /\ Filed(a, {}, c) /\ BinOf(a.heap[c].size) = m
        /\ a.heap[c].size \in Nat /\ a.heap[c].size >= SMALLEST_MALLOC
    BY <2>3, BinnedChunk
  <2>6. large_request_index(a.heap[c].size) = m
    BY <2>4, <2>5, <1>2, <1>4, BinFacts
  <2> DEFINE size == a.heap[c].size
  <2>7. size <= request => m <= n
    BY <2>5, <2>6, LargeIndexFacts DEF n
  <2> QED
    BY <2>4, <2>5, <2>7, <1>4
<1> QED
  BY <1>1, <1>6, <1>7 DEF Suitable

(* Every way large_malloc finds a chunk serves the request.                *)
LEMMA LargeMalloc ==
  ASSUME NEW a, ArenaInv(a, {}), NEW request \in Nat, request >= LARGE_MIN,
         request >= SMALLEST_MALLOC, NEW r \in large_malloc(a, request)
  PROVE  Found(a, r, request)
<1>1. LARGE_MIN \in Nat /\ HUGE_MIN \in Nat
  BY CutoffAssumption
<1>2. CASE request >= HUGE_MIN
  <2> DEFINE fit == {c \in a.bins[HUGE_BIN] : CHUNK_SIZE(a.heap, c) >= request}
  <2>1. r \in {Outcome(remove_chunk(a, c), c) : c \in Smallest(a, fit)}
    BY <1>2 DEF large_malloc, huge_malloc, IS_HUGE_SIZE
  <2>2. PICK c \in Smallest(a, fit) : r = Outcome(remove_chunk(a, c), c)
    BY <2>1
  <2>3. c \in a.bins[HUGE_BIN] /\ a.heap[c].size >= request
    <3>1. c \in fit
      BY <2>2, Searches
    <3> QED
      BY <3>1 DEF CHUNK_SIZE
  <2>4. Filed(a, {}, c)
    BY <2>3, BinnedChunk DEF BinIndex
  <2> QED
    BY <2>2, <2>3, <2>4, TakeWhole
<1>3. CASE request < HUGE_MIN
  <2>1. \/ r \in take_victim(a, request)
        \/ r \in take_binned(a, find_best_chunk(a, request), request)
    BY <1>1, <1>3 DEF large_malloc, IS_HUGE_SIZE, OrElse
  <2>2. Suitable(a, find_best_chunk(a, request), request)
    BY <1>3, FindBestChunk
  <2> QED
    BY <2>1, <2>2, TakeVictim, TakeBinned
<1> QED
  BY <1>1, <1>2, <1>3

(* The tuner's parameter leaves room for a chunk above every request.      *)
ExtensionLeavesAChunk == EXTENSION_SIZE >= SMALLEST_CHUNK

(* The end of heap is extended if need be, and cut: the rest is the end.   *)
LEMMA EndOfHeapMalloc ==
  ASSUME ExtensionLeavesAChunk,
         NEW a, ArenaInv(a, {}), NEW request \in Nat, request >= SMALLEST_MALLOC,
         NEW r \in end_of_heap_malloc(a, request)
  PROVE  Found(a, r, request)
<1> DEFINE h == a.heap
           c == a.end
           fits == CAN_SPLIT_CHUNK(h, c, request)
           incr == IF fits THEN 0 ELSE request - CHUNK_SIZE(h, c) + EXTENSION_SIZE
           grown == [h EXCEPT ![c].size = @ + incr]
           g == split_chunk(grown, c, request)
           rest == Remainder(c, request)
           b == [a EXCEPT !.brk = @ + incr, !.heap = g, !.end = rest]
<1>1. r = Outcome(b, c) /\ (fits \/ CanSbrk(a, incr))
  BY DEF end_of_heap_malloc
<1>2. /\ HeapInv(h, c) /\ c \in DOMAIN h /\ ~ h[c].cur /\ h[c].size \in Nat /\ c \in Nat
      /\ a.brk \in Nat /\ c + h[c].size + 2 = a.brk /\ NULL \notin DOMAIN h
      /\ a.brk <= HEAP_LO + MAX_HEAP
  BY ArenaFacts DEF ArenaInv, BreakInv, FreeIn, NEXT_HEAP_CHUNK
<1>3. /\ incr \in Nat /\ h[c].size + incr >= request + SMALLEST_CHUNK
      /\ a.brk + incr <= HEAP_LO + MAX_HEAP
  BY <1>1, <1>2, ParameterAssumption
     DEF ExtensionLeavesAChunk, CAN_SPLIT_CHUNK, CHUNK_SIZE, CanSbrk, SMALLEST_CHUNK,
         SMALLEST_MALLOC, HEAP_LO
<1>4. b.heap = g /\ b.victim = a.victim /\ b.end = rest /\ b.brk = a.brk + incr
      /\ b.bins = a.bins /\ IsArena(b)
  <2> HIDE DEF incr, g, rest
  <2>1. b = [a EXCEPT !.brk = a.brk + incr, !.heap = g, !.end = rest]
    OBVIOUS
  <2> HIDE DEF b
  <2> QED
    BY <2>1 DEF ArenaInv, IsArena
<1> HIDE DEF fits, incr, b
<1>5. /\ HeapInv(grown, c) /\ DOMAIN grown = DOMAIN h /\ grown[c].size = h[c].size + incr
      /\ \A x \in DOMAIN h : (grown[x].cur <=> h[x].cur) /\ (x # c => grown[x].size = h[x].size)
      /\ Tidies(h, {}, grown, {})
  <2>1. grown = Grown(h, c, incr)
    BY DEF Grown
  <2> HIDE DEF grown, h, c
  <2>2. HeapInv(h, c) /\ incr \in Nat
    BY <1>2, <1>3
  <2>3. Tidies(h, {}, grown, {})
    BY <2>1, <2>2, GrowTidies
  <2> QED
    BY <2>1, <2>2, <2>3, GrowKeepsHeap
<1> HIDE DEF grown, h
<1>6. /\ HeapInv(g, rest) /\ rest \notin DOMAIN grown /\ rest # NULL /\ rest # c /\ rest \in Nat
      /\ DOMAIN g = DOMAIN grown \cup {rest} /\ ~ g[c].cur /\ g[c].size = request
      /\ ~ g[rest].cur /\ NEXT_HEAP_CHUNK(g, rest) = NEXT_HEAP_CHUNK(grown, c)
      /\ \A x \in DOMAIN grown \ {c} : g[x].size = grown[x].size /\ (g[x].cur <=> grown[x].cur)
      /\ Tidies(grown, {}, g, {c})
  <2>1. CAN_SPLIT_CHUNK(grown, c, request)
    BY <1>3, <1>5 DEF CAN_SPLIT_CHUNK, CHUNK_SIZE
  <2>2. g = split_chunk(grown, c, request) /\ rest = Remainder(c, request)
    OBVIOUS
  <2> HIDE DEF g, rest, c
  <2>3. HeapInv(grown, c) /\ c \in DOMAIN grown /\ ~ grown[c].cur
    BY <1>2, <1>5
  <2>4. Tidies(grown, {}, g, {c})
    BY <2>1, <2>2, <2>3, SplitTidies
  <2> QED
    BY <2>1, <2>2, <2>3, <2>4, SplitSummary
<1> HIDE DEF g, rest
<1>7. a.heap = h /\ c = a.end
  BY DEF h
<1> HIDE DEF c
<1>8. /\ DOMAIN g = DOMAIN h \cup {rest} /\ rest \notin DOMAIN h
      /\ c \in DOMAIN h /\ ~ h[c].cur /\ ~ g[c].cur /\ ~ g[rest].cur
      /\ \A x \in DOMAIN h \ {c} : g[x].size = h[x].size /\ (g[x].cur <=> h[x].cur)
  BY <1>2, <1>5, <1>6
<1>9. BreakInv(b)
  BY <1>2, <1>3, <1>4, <1>5, <1>6 DEF BreakInv, NEXT_HEAP_CHUNK, HEAP_LO
<1>10. VictimInv(b, {c})
  BY <1>4, <1>7, <1>8 DEF ArenaInv, VictimInv, FreeIn
<1>11. Refiled(a, {}, b, {c})
  BY <1>4, <1>7, <1>8 DEF Refiled, Filed, FreeIn
<1>12. BinsExact(b, {c})
  BY <1>4, <1>11, Rebook
<1>13. SameUsed(a.heap, b.heap, {})
  BY <1>4, <1>7, <1>8 DEF SameUsed, UsedIn
<1>14. FreeIn(b.heap, c) /\ c # b.end
  BY <1>2, <1>4, <1>6, <1>8 DEF FreeIn
<1>15. Tidies(a.heap, {}, b.heap, {c})
  BY <1>4, <1>5, <1>6, <1>7 DEF Tidies
<1> QED
  BY <1>1, <1>4, <1>6, <1>9, <1>10, <1>12, <1>13, <1>14, <1>15 DEF ArenaInv, Found, Outcome

-----------------------------------------------------------------------------
(* What the calls promise.                                                 *)

(* The outcome r of a call that gives up the blocks of C hands out a block *)
(* of request words, touches no other block, and leaves no chunk in hand.  *)
Served(a, r, C, request) ==
  /\ ArenaInv(r.arena, {})
  /\ UsedIn(r.arena.heap, r.chunk) /\ r.arena.heap[r.chunk].size >= request
  /\ UsedIn(a.heap, r.chunk) => r.chunk \in C
  /\ \A c \in C : c # r.chunk => ~ UsedIn(r.arena.heap, c)
  /\ SameUsed(a.heap, r.arena.heap, C \cup {r.chunk})

(* A chunk in hand is marked as in use.                                    *)
LEMMA MarkUsedArena ==
  ASSUME NEW a, NEW c, ArenaInv(a, {c}), NEW b, b = [a EXCEPT !.heap = mark_used(@, c)]
  PROVE  /\ ArenaInv(b, {}) /\ UsedIn(b.heap, c) /\ b.heap[c].size = a.heap[c].size
         /\ SameUsed(a.heap, b.heap, {c})
<1> DEFINE h == a.heap
           g == mark_used(h, c)
<1>1. b.heap = g /\ b.victim = a.victim /\ b.end = a.end /\ b.brk = a.brk /\ b.bins = a.bins
      /\ IsArena(b)
  BY DEF ArenaInv, IsArena
<1>2. HeapInv(h, a.end) /\ c \in DOMAIN h /\ ~ h[c].cur /\ c # a.end /\ a.end \in DOMAIN h
  BY ArenaFacts DEF ArenaInv, FreeIn
<1>3. h = a.heap /\ g = mark_used(h, c)
  OBVIOUS
<1> HIDE DEF h, g
<1>4. /\ HeapInv(g, a.end) /\ DOMAIN g = DOMAIN h /\ g[c].cur
      /\ \A x \in DOMAIN h : g[x].size = h[x].size /\ (x # c => (g[x].cur <=> h[x].cur))
  BY <1>2, <1>3, MarkUsedKeepsHeap
<1>5. BreakInv(b)
  BY <1>1, <1>2, <1>3, <1>4 DEF ArenaInv, BreakInv, NEXT_HEAP_CHUNK
<1>6. VictimInv(b, {})
  BY <1>1, <1>3, <1>4 DEF ArenaInv, VictimInv, FreeIn
<1>7. Refiled(a, {c}, b, {})
  BY <1>1, <1>2, <1>3, <1>4 DEF Refiled, Filed, FreeIn
<1>8. BinsExact(b, {})
  BY <1>1, <1>7, Rebook
<1>9. SameUsed(a.heap, b.heap, {c})
  BY <1>1, <1>3, <1>4 DEF SameUsed, UsedIn
<1> QED
  BY <1>1, <1>2, <1>3, <1>4, <1>5, <1>6, <1>8, <1>9 DEF ArenaInv, UsedIn

(* my_malloc hands out a chunk that nobody held.                           *)
LEMMA MallocServes ==
  ASSUME ExtensionLeavesAChunk, NEW a, ArenaInv(a, {}), NEW size \in Nat,
         NEW r \in my_malloc(a, size)
  PROVE  Served(a, r, {}, Request(size))
<1> DEFINE request == Request(size)
           found == OrElse(IF IS_LARGE_SIZE(request) THEN large_malloc(a, request)
                                                     ELSE small_malloc(a, request),
                           end_of_heap_malloc(a, request))
<1>1. PICK f \in found :
        r = Outcome([f.arena EXCEPT !.heap = mark_used(@, f.chunk)], f.chunk)
  BY DEF my_malloc
<1>2. request \in Nat /\ request >= SMALLEST_MALLOC /\ LARGE_MIN \in Nat
  BY RequestFacts, CutoffAssumption
<1>3. \/ request >= LARGE_MIN /\ f \in large_malloc(a, request)
      \/ request < LARGE_MIN /\ f \in small_malloc(a, request)
      \/ f \in end_of_heap_malloc(a, request)
  BY <1>2 DEF OrElse, IS_LARGE_SIZE
<1> HIDE DEF request, found
<1>4. Found(a, f, request)
  BY <1>2, <1>3, SmallMalloc, LargeMalloc, EndOfHeapMalloc
<1> DEFINE b == [f.arena EXCEPT !.heap = mark_used(@, f.chunk)]
<1>5. /\ ArenaInv(b, {}) /\ UsedIn(b.heap, f.chunk)
      /\ b.heap[f.chunk].size = f.arena.heap[f.chunk].size
      /\ SameUsed(f.arena.heap, b.heap, {f.chunk})
  BY <1>4, MarkUsedArena DEF Found
<1>6. r.arena = b /\ r.chunk = f.chunk
  BY <1>1 DEF Outcome
<1> HIDE DEF b
<1>7. ~ UsedIn(a.heap, f.chunk)
  <2>1. ~ UsedIn(f.arena.heap, f.chunk)
    BY <1>4 DEF Found, ArenaInv, FreeIn, UsedIn
  <2> QED
    BY <2>1, <1>4 DEF Found, SameUsed
<1>8. SameUsed(a.heap, b.heap, {f.chunk})
  BY <1>4, <1>5 DEF Found, SameUsed
<1> QED
  BY <1>4, <1>5, <1>6, <1>7, <1>8 DEF Served, Found, request

-----------------------------------------------------------------------------
(* my_free.                                                                *)

(* Two neighbours in hand become one chunk in hand.                        *)
LEMMA CombineArena ==
  ASSUME NEW a, NEW left, NEW right, ArenaInv(a, {left, right}),
         right = NEXT_HEAP_CHUNK(a.heap, left), left # right,
         NEW b, b = combine_chunks(a, left, right)
  PROVE  ArenaInv(b, {left}) /\ SameUsed(a.heap, b.heap, {}) /\ b.end = a.end
<1> DEFINE h == a.heap
           g == combine(h, left, right)
<1>1. b.heap = g /\ b.victim = a.victim /\ b.end = a.end /\ b.brk = a.brk /\ b.bins = a.bins
      /\ IsArena(b)
  <2>1. a.victim \notin {left, right}
    BY ArenaFacts DEF ArenaInv, VictimInv, FreeIn
  <2> HIDE DEF g
  <2>2. b = [a EXCEPT !.heap = g]
    BY <2>1 DEF combine_chunks, ArenaInv, IsArena, g
  <2> QED
    BY <2>2 DEF ArenaInv, IsArena
<1>2. /\ HeapInv(h, a.end) /\ left \in DOMAIN h /\ right \in DOMAIN h
      /\ ~ h[left].cur /\ ~ h[right].cur /\ left # a.end /\ right # a.end /\ a.end \in DOMAIN h
  BY ArenaFacts DEF ArenaInv, FreeIn
<1>3. h = a.heap /\ g = combine(h, left, right)
  OBVIOUS
<1> HIDE DEF h, g
<1>4. /\ HeapInv(g, a.end) /\ DOMAIN g = DOMAIN h \ {right} /\ ~ g[left].cur
      /\ \A x \in DOMAIN g : (g[x].cur <=> h[x].cur) /\ (x # left => g[x].size = h[x].size)
  BY <1>2, <1>3, CombineKeepsHeap
<1>5. BreakInv(b)
  <2>1. BreakInv(a)
    BY DEF ArenaInv
  <2>2. a.end \in DOMAIN g /\ g[a.end].size = h[a.end].size
    <3>1. a.end \in DOMAIN g
      BY <1>2, <1>4
    <3> QED
      BY <3>1, <1>2, <1>4
  <2>3. NEXT_HEAP_CHUNK(g, a.end) = NEXT_HEAP_CHUNK(h, a.end)
    BY <2>2 DEF NEXT_HEAP_CHUNK
  <2> QED
    BY <1>1, <1>3, <2>1, <2>3 DEF BreakInv
<1>6. VictimInv(b, {left})
  BY <1>1, <1>3, <1>4 DEF ArenaInv, VictimInv, FreeIn
<1>7. Refiled(a, {left, right}, b, {left})
  BY <1>1, <1>2, <1>3, <1>4 DEF Refiled, Filed, FreeIn
<1>8. BinsExact(b, {left})
  BY <1>1, <1>7, Rebook
<1>9. SameUsed(a.heap, b.heap, {})
  BY <1>1, <1>2, <1>3, <1>4 DEF SameUsed, UsedIn
<1> QED
  BY <1>1, <1>2, <1>4, <1>5, <1>6, <1>8, <1>9 DEF ArenaInv, FreeIn

(* The chunk below the end of heap becomes the end of heap.                *)
LEMMA CombineWithEnd ==
  ASSUME NEW a, NEW c, ArenaInv(a, {c}), a.end = NEXT_HEAP_CHUNK(a.heap, c),
         NEW b, b = [combine_chunks(a, c, a.end) EXCEPT !.end = c]
  PROVE  ArenaInv(b, {}) /\ SameUsed(a.heap, b.heap, {})
<1> DEFINE h == a.heap
           end == a.end
           g == combine(h, c, end)
<1>1. b.heap = g /\ b.victim = a.victim /\ b.end = c /\ b.brk = a.brk /\ b.bins = a.bins
      /\ IsArena(b)
  <2>1. a.victim \notin {c, end}
    BY ArenaFacts DEF ArenaInv, VictimInv, FreeIn
  <2> HIDE DEF g, end
  <2>2. b = [a EXCEPT !.heap = g, !.end = c]
    BY <2>1 DEF combine_chunks, ArenaInv, IsArena, g, end
  <2> QED
    BY <2>2 DEF ArenaInv, IsArena
<1>2. /\ HeapInv(h, end) /\ c \in DOMAIN h /\ end \in DOMAIN h /\ ~ h[c].cur /\ ~ h[end].cur
      /\ c # end /\ h[c].size \in Nat /\ h[end].size \in Nat /\ c \in Nat
      /\ end = c + h[c].size + 1 /\ NULL \notin DOMAIN h
  BY ArenaFacts DEF ArenaInv, FreeIn, NEXT_HEAP_CHUNK
<1>3. h = a.heap /\ end = a.end /\ g = combine(h, c, end)
  OBVIOUS
<1> HIDE DEF h, g, end
<1>4. /\ HeapInv(g, c) /\ DOMAIN g = DOMAIN h \ {end} /\ ~ g[c].cur
      /\ g[c].size = h[c].size + h[end].size + 1
      /\ \A x \in DOMAIN g : (g[x].cur <=> h[x].cur) /\ (x # c => g[x].size = h[x].size)
  <2>1. end = NEXT_HEAP_CHUNK(h, c)
    BY <1>2 DEF NEXT_HEAP_CHUNK
  <2> QED
    BY <1>2, <1>3, <2>1, CombineKeepsHeap
<1>5. BreakInv(b)
  <2>1. BreakInv(a)
    BY DEF ArenaInv
  <2>2. NEXT_HEAP_CHUNK(g, c) = NEXT_HEAP_CHUNK(h, end)
    BY <1>2, <1>4 DEF NEXT_HEAP_CHUNK
  <2> QED
    BY <1>1, <1>3, <2>1, <2>2 DEF BreakInv
<1>6. VictimInv(b, {})
  BY <1>1, <1>3, <1>4 DEF ArenaInv, VictimInv, FreeIn
<1>7. Refiled(a, {c}, b, {})
  BY <1>1, <1>2, <1>3, <1>4 DEF Refiled, Filed, FreeIn
<1>8. BinsExact(b, {})
  BY <1>1, <1>7, Rebook
<1>9. SameUsed(a.heap, b.heap, {})
  BY <1>1, <1>2, <1>3, <1>4 DEF SameUsed, UsedIn
<1> QED
  BY <1>1, <1>2, <1>4, <1>5, <1>6, <1>8, <1>9 DEF ArenaInv, FreeIn

(* A chunk in hand takes in the chunk above it and finds its place.        *)
LEMMA Release ==
  ASSUME NEW a, NEW c, ArenaInv(a, {c}), NEW b, b = release(a, c)
  PROVE  ArenaInv(b, {}) /\ SameUsed(a.heap, b.heap, {})
<1> DEFINE above == NEXT_HEAP_CHUNK(a.heap, c)
<1>1. FreeIn(a.heap, c) /\ c # a.end /\ above \in DOMAIN a.heap /\ above # c
  BY ChunkFacts DEF ArenaInv, FreeIn
<1> HIDE DEF above
<1>2. CASE ~ CAN_COMBINE_NEXT(a, c)
  <2>1. b = insert_chunk(a, c)
    BY <1>2 DEF release
  <2>2. ArenaInv(b, {c} \ {c}) /\ b.heap = a.heap
    BY <2>1, InsertChunk
  <2>3. {c} \ {c} = {}
    OBVIOUS
  <2> QED
    BY <2>2, <2>3 DEF SameUsed
<1>3. CASE CAN_COMBINE_NEXT(a, c) /\ above = a.end
  <2>1. b = [combine_chunks(a, c, a.end) EXCEPT !.end = c]
    BY <1>3 DEF release, above
  <2> QED
    BY <2>1, <1>3, CombineWithEnd DEF above
<1>4. CASE CAN_COMBINE_NEXT(a, c) /\ above # a.end
  <2> DEFINE k == remove_chunk_or_victim(a, above)
             m == combine_chunks(k, c, above)
  <2>1. b = insert_chunk(m, c)
    BY <1>4 DEF release, above
  <2>2. FreeIn(a.heap, above)
    BY <1>1, <1>4 DEF CAN_COMBINE_NEXT, IS_CURRENT_FREE, above, FreeIn
  <2>3. ArenaInv(k, {c} \cup {above}) /\ k.heap = a.heap
    BY <1>1, <1>4, <2>2, RemoveOrVictim
  <2>4. {c} \cup {above} = {c, above}
    OBVIOUS
  <2> HIDE DEF k
  <2>5. ArenaInv(m, {c}) /\ SameUsed(k.heap, m.heap, {})
    BY <1>1, <2>3, <2>4, CombineArena DEF above
  <2> HIDE DEF m
  <2>6. ArenaInv(b, {c} \ {c}) /\ b.heap = m.heap
    BY <2>1, <2>5, InsertChunk
  <2>7. {c} \ {c} = {}
    OBVIOUS
  <2> QED
    BY <2>3, <2>5, <2>6, <2>7
<1> QED
  BY <1>2, <1>3, <1>4

(* The flags of a block that is given back put it in hand.                 *)
LEMMA MarkFreeArena ==
  ASSUME NEW a, ArenaInv(a, {}), NEW c, UsedIn(a.heap, c),
         NEW b, b = [a EXCEPT !.heap = mark_free(@, c)]
  PROVE  /\ ArenaInv(b, {c}) /\ b.end = a.end
         /\ SameUsed(a.heap, b.heap, {c})
<1> DEFINE h == a.heap
           g == mark_free(h, c)
<1>1. b.heap = g /\ b.victim = a.victim /\ b.end = a.end /\ b.brk = a.brk /\ b.bins = a.bins
      /\ IsArena(b)
  BY DEF ArenaInv, IsArena
<1>2. HeapInv(h, a.end) /\ c \in DOMAIN h /\ h[c].cur /\ a.end \in DOMAIN h /\ ~ h[a.end].cur
  BY ArenaFacts DEF UsedIn, FreeIn
<1>3. h = a.heap /\ g = mark_free(h, c)
  OBVIOUS
<1> HIDE DEF h, g
<1>4. /\ HeapInv(g, a.end) /\ DOMAIN g = DOMAIN h /\ ~ g[c].cur
      /\ \A x \in DOMAIN h : g[x].size = h[x].size /\ (x # c => (g[x].cur <=> h[x].cur))
  BY <1>2, <1>3, MarkFreeKeepsHeap
<1>5. BreakInv(b)
  BY <1>1, <1>2, <1>3, <1>4 DEF ArenaInv, BreakInv, NEXT_HEAP_CHUNK
<1>6. VictimInv(b, {c})
  BY <1>1, <1>2, <1>3, <1>4 DEF ArenaInv, VictimInv, FreeIn
<1>7. Refiled(a, {}, b, {c})
  BY <1>1, <1>2, <1>3, <1>4 DEF Refiled, Filed, FreeIn
<1>8. BinsExact(b, {c})
  BY <1>1, <1>7, Rebook
<1>9. SameUsed(a.heap, b.heap, {c})
  BY <1>1, <1>3, <1>4 DEF SameUsed, UsedIn
<1> QED
  BY <1>1, <1>2, <1>3, <1>4, <1>5, <1>6, <1>8, <1>9 DEF ArenaInv, FreeIn

(* my_free takes the block back, and no other.                             *)
LEMMA FreeReleases ==
  ASSUME NEW a, ArenaInv(a, {}), NEW c, UsedIn(a.heap, c), NEW b, b = my_free(a, c)
  PROVE  /\ ArenaInv(b, {}) /\ ~ UsedIn(b.heap, c) /\ SameUsed(a.heap, b.heap, {c})
<1> DEFINE f == [a EXCEPT !.heap = mark_free(@, c)]
           below == PREVIOUS_HEAP_CHUNK(f.heap, c)
<1>1. ArenaInv(f, {c}) /\ SameUsed(a.heap, f.heap, {c})
  BY MarkFreeArena
<1>2. FreeIn(f.heap, c) /\ c # f.end
  BY <1>1 DEF ArenaInv
<1>3. b = IF CAN_COMBINE_PREVIOUS(f, c)
            THEN release(combine_chunks(remove_chunk_or_victim(f, below), below, c), below)
            ELSE release(f, c)
  BY DEF my_free
<1> HIDE DEF f, below
<1>4. ArenaInv(b, {}) /\ SameUsed(f.heap, b.heap, {})
  <2>1. CASE ~ CAN_COMBINE_PREVIOUS(f, c)
    BY <1>1, <1>3, <2>1, Release
  <2>2. CASE CAN_COMBINE_PREVIOUS(f, c)
    <3> DEFINE k == remove_chunk_or_victim(f, below)
               m == combine_chunks(k, below, c)
    <3>1. b = release(m, below)
      BY <1>3, <2>2
    <3>2. FreeIn(f.heap, below) /\ NEXT_HEAP_CHUNK(f.heap, below) = c
      BY <1>1, <1>2, <2>2 DEF CAN_COMBINE_PREVIOUS, ArenaInv, HeapInv, Tagged, LeadsToFree,
                              IS_CURRENT_FREE, FreeIn, below
    <3>3. below # c /\ below # f.end
      <4>1. HeapInv(f.heap, f.end) /\ below \in DOMAIN f.heap /\ c \in DOMAIN f.heap
        BY <1>1, <1>2, <3>2 DEF ArenaInv, FreeIn
      <4>2. c \in Nat /\ f.end \in Nat /\ below \in Nat /\ below < c /\ c <= f.end
        BY <4>1, <3>2, ChunkFacts
      <4> QED
        BY <4>2
    <3>4. ArenaInv(k, {c} \cup {below}) /\ k.heap = f.heap
      BY <1>1, <3>2, <3>3, RemoveOrVictim
    <3>5. {c} \cup {below} = {below, c}
      OBVIOUS
    <3> HIDE DEF k
    <3>6. ArenaInv(m, {below}) /\ SameUsed(k.heap, m.heap, {})
      BY <3>2, <3>3, <3>4, <3>5, CombineArena
    <3> HIDE DEF m
    <3>7. ArenaInv(b, {}) /\ SameUsed(m.heap, b.heap, {})
      BY <3>1, <3>6, Release
    <3> QED
      BY <3>4, <3>6, <3>7 DEF SameUsed
  <2> QED
    BY <2>1, <2>2
<1>5. ~ UsedIn(f.heap, c)
  BY <1>2 DEF FreeIn, UsedIn
<1> QED
  BY <1>1, <1>4, <1>5 DEF SameUsed

-----------------------------------------------------------------------------
(* my_realloc.                                                             *)

(* A block is cut in place; what is left over is in hand.                  *)
LEMMA CutArena ==
  ASSUME NEW a, ArenaInv(a, {}), NEW c, UsedIn(a.heap, c),
         NEW request \in Nat, request >= SMALLEST_MALLOC, CAN_SPLIT_CHUNK(a.heap, c, request),
         NEW rest, rest = Remainder(c, request),
         NEW b, b = [a EXCEPT !.heap = split_mallocd_chunk(@, c, request)]
  PROVE  /\ ArenaInv(b, {rest}) /\ UsedIn(b.heap, c) /\ b.heap[c].size = request
         /\ SameUsed(a.heap, b.heap, {c})
<1> DEFINE h == a.heap
           g == split_mallocd_chunk(h, c, request)
<1>1. b.heap = g /\ b.victim = a.victim /\ b.end = a.end /\ b.brk = a.brk /\ b.bins = a.bins
      /\ IsArena(b)
  BY DEF ArenaInv, IsArena
<1>2. /\ HeapInv(h, a.end) /\ c \in DOMAIN h /\ h[c].cur /\ a.end \in DOMAIN h /\ a.end \in Nat
      /\ ~ h[a.end].cur
  BY ArenaFacts DEF UsedIn, FreeIn
<1>3. h = a.heap /\ g = split_mallocd_chunk(h, c, request) /\ CAN_SPLIT_CHUNK(h, c, request)
  OBVIOUS
<1> HIDE DEF h, g
<1>4. /\ HeapInv(g, a.end) /\ DOMAIN g = DOMAIN h \cup {rest} /\ rest \notin DOMAIN h
      /\ g[c].size = request /\ g[c].cur /\ ~ g[rest].cur /\ rest < a.end
      /\ \A x \in DOMAIN h \ {c} : g[x].size = h[x].size /\ (g[x].cur <=> h[x].cur)
  <2>1. IsCut(h, g, a.end, c, rest, request)
    BY <1>2, <1>3, CutInUseKeepsHeap
  <2> QED
    BY <2>1 DEF IsCut
<1>5. BreakInv(b)
  BY <1>1, <1>2, <1>3, <1>4 DEF ArenaInv, BreakInv, NEXT_HEAP_CHUNK
<1>6. VictimInv(b, {rest})
  BY <1>1, <1>2, <1>3, <1>4 DEF ArenaInv, VictimInv, FreeIn
<1>7. Refiled(a, {}, b, {rest})
  BY <1>1, <1>2, <1>3, <1>4 DEF Refiled, Filed, FreeIn
<1>8. BinsExact(b, {rest})
  BY <1>1, <1>7, Rebook
<1>9. SameUsed(a.heap, b.heap, {c})
  BY <1>1, <1>3, <1>4 DEF SameUsed, UsedIn
<1>10. rest # a.end
  BY <1>2, <1>4
<1> QED
  BY <1>1, <1>2, <1>3, <1>4, <1>5, <1>6, <1>8, <1>9, <1>10 DEF ArenaInv, FreeIn, UsedIn

(* realloc of a block that is large enough: it stays, perhaps cut.         *)
LEMMA SmallerServes ==
  ASSUME NEW a, ArenaInv(a, {}), NEW c, UsedIn(a.heap, c),
         NEW request \in Nat, request >= SMALLEST_MALLOC, a.heap[c].size >= request,
         NEW r \in realloc_chunk_is_smaller(a, c, request)
  PROVE  Served(a, r, {c}, request)
<1> DEFINE rest == Remainder(c, request)
           b == [a EXCEPT !.heap = split_mallocd_chunk(@, c, request)]
<1>1. CASE ~ CAN_SPLIT_CHUNK(a.heap, c, request)
  BY <1>1 DEF realloc_chunk_is_smaller, Outcome, Served, SameUsed
<1>2. CASE CAN_SPLIT_CHUNK(a.heap, c, request)
  <2>1. r = Outcome(release(b, rest), c)
    BY <1>2 DEF realloc_chunk_is_smaller
  <2>2. /\ ArenaInv(b, {rest}) /\ UsedIn(b.heap, c) /\ b.heap[c].size = request
        /\ SameUsed(a.heap, b.heap, {c})
    BY <1>2, CutArena
  <2> HIDE DEF b, rest
  <2> DEFINE k == release(b, rest)
  <2>3. ArenaInv(k, {}) /\ SameUsed(b.heap, k.heap, {})
    BY <2>2, Release
  <2> HIDE DEF k
  <2>4. UsedIn(k.heap, c) /\ k.heap[c].size >= request /\ SameUsed(a.heap, k.heap, {c})
    BY <2>2, <2>3 DEF SameUsed
  <2>5. r.arena = k /\ r.chunk = c
    BY <2>1 DEF Outcome, k
  <2> QED
    BY <2>3, <2>4, <2>5 DEF Served
<1> QED
  BY <1>1, <1>2

(* The region from base to e is c and the chunks in hand.                  *)
InHand(a, F, c, base, e) ==
  /\ base \in DOMAIN a.heap /\ e \in DOMAIN a.heap /\ base < e
  /\ UsedIn(a.heap, c) /\ base <= c /\ c < e
  /\ \A x \in DOMAIN a.heap : base <= x /\ x < e => x = c \/ x \in F
  /\ \A x \in F : base <= x /\ x < e

(* In g the region is the block base and, if that was cut, the rest in G.  *)
Reshaped(h, g, end, base, e, G) ==
  /\ HeapInv(g, end) /\ SameOutside(h, g, base, e) /\ g[base].cur
  /\ DOMAIN g = Outside(h, base, e) \cup {base} \cup G
  /\ \A x \in G : x \in Nat /\ base < x /\ x < e /\ ~ g[x].cur

(* b is a with the heap g, in which the chunks of G are in hand.           *)
Reformed(a, b, g, G, c, base) ==
  /\ b = [a EXCEPT !.heap = g] /\ b.heap = g /\ ArenaInv(b, G)
  /\ SameUsed(a.heap, g, {c, base})
  /\ c # base => ~ UsedIn(g, c)

(* The block and the chunks in hand become one block and the chunks of G.  *)
LEMMA RegionArena ==
  ASSUME NEW a, NEW F, ArenaInv(a, F), NEW c, NEW base, NEW e, InHand(a, F, c, base, e),
         NEW g, NEW G, Reshaped(a.heap, g, a.end, base, e, G)
  PROVE  \E b : Reformed(a, b, g, G, c, base)
<1> USE DEF InHand, Reshaped
<1> DEFINE b == [a EXCEPT !.heap = g]
<1> DEFINE h == a.heap
           end == a.end
<1>1. b.heap = g /\ b.victim = a.victim /\ b.end = end /\ b.brk = a.brk /\ b.bins = a.bins
      /\ IsArena(b)
  BY DEF ArenaInv, IsArena
<1>2. /\ HeapInv(h, end) /\ DOMAIN h \subseteq Nat /\ base \in Nat /\ e \in Nat /\ end \in Nat
      /\ end \in DOMAIN h /\ ~ h[end].cur /\ c \in DOMAIN h /\ h[c].cur
  BY ArenaFacts DEF UsedIn, FreeIn
<1>3. e <= end
  BY <1>2, ChunkFacts
<1>4. h = a.heap /\ end = a.end
  OBVIOUS
<1> HIDE DEF h, end
<1>5. ASSUME NEW x \in DOMAIN h, x < base \/ x >= e
      PROVE  x \in DOMAIN g /\ g[x].size = h[x].size /\ (g[x].cur <=> h[x].cur) /\ x # base
             /\ x \notin G
  BY <1>2, <1>4, <1>5 DEF SameOutside
<1>6. ASSUME NEW x \in DOMAIN g
      PROVE  x = base \/ x \in G \/ (x \in DOMAIN h /\ (x < base \/ x >= e))
  BY <1>4, <1>6 DEF Outside
<1>7. \A x \in DOMAIN h : x < base \/ x >= e \/ x = c \/ x \in F
  BY <1>2, <1>4
<1>8. \A x \in F : ~ (x < base \/ x >= e)
  <2>1. \A x \in F : x \in Nat
    BY <1>2, <1>4 DEF ArenaInv, FreeIn
  <2> QED
    BY <2>1, <1>2
<1>9. ~ (c < base \/ c >= e) /\ end \notin G /\ base # end
  BY <1>2, <1>3
<1>10. BreakInv(b)
  BY <1>1, <1>2, <1>3, <1>4, <1>5 DEF ArenaInv, BreakInv, NEXT_HEAP_CHUNK
<1>11. VictimInv(b, G)
  BY <1>1, <1>2, <1>4, <1>5, <1>7 DEF ArenaInv, VictimInv, FreeIn
<1>12. Refiled(a, F, b, G)
  <2>1. ASSUME NEW x, Filed(a, F, x)
        PROVE  Filed(b, G, x) /\ b.heap[x].size = a.heap[x].size
    <3>1. x \in DOMAIN h /\ ~ h[x].cur /\ x # c /\ x \notin F
      BY <2>1, <1>2, <1>4 DEF Filed, FreeIn
    <3>2. x < base \/ x >= e
      BY <3>1, <1>7
    <3> QED
      BY <3>1, <3>2, <2>1, <1>1, <1>4, <1>5 DEF Filed, FreeIn
  <2>2. ASSUME NEW x, Filed(b, G, x)
        PROVE  Filed(a, F, x)
    <3>1. x \in DOMAIN h /\ (x < base \/ x >= e) /\ ~ g[x].cur
      BY <2>2, <1>1, <1>6 DEF Filed, FreeIn
    <3> QED
      BY <3>1, <2>2, <1>1, <1>4, <1>5, <1>8 DEF Filed, FreeIn
  <2> QED
    BY <2>1, <2>2 DEF Refiled
<1>13. BinsExact(b, G)
  BY <1>1, <1>12, Rebook
<1>14. \A f \in G : FreeIn(b.heap, f) /\ f # b.end
  BY <1>1, <1>9 DEF FreeIn
<1>15. SameUsed(a.heap, g, {c, base})
  <2>1. \A x \in F : ~ h[x].cur
    BY <1>4 DEF ArenaInv, FreeIn
  <2> QED
    BY <2>1, <1>4, <1>5, <1>6, <1>7 DEF SameUsed, UsedIn
<1>16. c # base => ~ UsedIn(g, c)
  BY <1>6, <1>9 DEF UsedIn
<1>17. ArenaInv(b, G)
  BY <1>1, <1>10, <1>11, <1>13, <1>14 DEF ArenaInv
<1>18. b = [a EXCEPT !.heap = g]
  OBVIOUS
<1> HIDE DEF b
<1> QED
  BY <1>1, <1>15, <1>16, <1>17, <1>18 DEF Reformed

(* The block c has moved to base, which holds request words.               *)
Resettled(a, b, c, base, request) ==
  /\ ArenaInv(b, {}) /\ UsedIn(b.heap, base) /\ b.heap[base].size >= request
  /\ c # base => ~ UsedIn(b.heap, c)
  /\ SameUsed(a.heap, b.heap, {c, base})

(* The region becomes one block of n words, cut if it is too large.        *)
LEMMA ResizeServes ==
  ASSUME NEW a, NEW F, ArenaInv(a, F), NEW c, NEW base, NEW e, InHand(a, F, c, base, e),
         NEW n \in Nat, n >= 3, e = base + n + 1,
         NEW request \in Nat, request >= SMALLEST_MALLOC, n >= request,
         NEW b, b = resize_chunk_and_split(a, base, n, request)
  PROVE  Resettled(a, b, c, base, request)
<1> DEFINE h == a.heap
           end == a.end
           s == Resized(h, base, n)
           rest == Remainder(base, request)
<1>1. HeapInv(h, end) /\ base \in DOMAIN h /\ e \in DOMAIN h
  BY DEF ArenaInv, InHand
<1>2. s = Resized(h, base, n) /\ rest = Remainder(base, request)
  OBVIOUS
<1>3. s[base].size = n
  <2> HIDE DEF s, h, end
  <2>1. IsResized(h, s, base, e, n)
    BY <1>1, <1>2, ResizedFields
  <2> QED
    BY <2>1 DEF IsResized
<1>4. NEXT_HEAP_CHUNK(s, base) = e
  BY <1>3 DEF NEXT_HEAP_CHUNK
<1>5. b = IF CAN_SPLIT_CHUNK(s, base, request)
            THEN insert_chunk([a EXCEPT !.heap = CutAndTagged(s, base, request, e)], rest)
            ELSE [a EXCEPT !.heap = mark_used(s, base)]
  BY <1>4 DEF resize_chunk_and_split
<1> HIDE DEF s, h, end, rest
<1>6. CASE ~ CAN_SPLIT_CHUNK(s, base, request)
  <2> DEFINE g == mark_used(s, base)
  <2>1. g = mark_used(s, base) /\ b = [a EXCEPT !.heap = g]
    BY <1>5, <1>6
  <2> HIDE DEF g
  <2>2. /\ HeapInv(g, end) /\ g[base].cur /\ g[base].size = n
        /\ DOMAIN g = Outside(h, base, e) \cup {base} /\ SameOutside(h, g, base, e)
    BY <1>1, <1>2, <2>1, ResizeKeepsHeap
  <2>3. Reshaped(a.heap, g, a.end, base, e, {})
    BY <2>2 DEF Reshaped, h, end
  <2>4. Reformed(a, b, g, {}, c, base)
    <3>1. PICK k : Reformed(a, k, g, {}, c, base)
      BY <2>3, RegionArena
    <3> QED
      BY <3>1, <2>1 DEF Reformed
  <2> QED
    BY <2>2, <2>4 DEF UsedIn, Reformed, Resettled
<1>7. CASE CAN_SPLIT_CHUNK(s, base, request)
  <2> DEFINE g == CutAndTagged(s, base, request, e)
             k == [a EXCEPT !.heap = g]
  <2>1. g = CutAndTagged(s, base, request, e) /\ b = insert_chunk(k, rest)
    BY <1>5, <1>7
  <2> HIDE DEF g
  <2>2. /\ HeapInv(g, end) /\ rest \in Nat /\ base < rest /\ rest < e
        /\ DOMAIN g = Outside(h, base, e) \cup {base, rest}
        /\ g[base].cur /\ g[base].size = request /\ ~ g[rest].cur
        /\ SameOutside(h, g, base, e)
    <3>1. IsRecut(h, g, end, base, rest, e, request)
      BY <1>1, <1>2, <1>7, <2>1, ResizeAndCutKeepsHeap
    <3> QED
      BY <3>1 DEF IsRecut
  <2>3. Reshaped(a.heap, g, a.end, base, e, {rest})
    BY <2>2 DEF Reshaped, h, end
  <2>4. Reformed(a, k, g, {rest}, c, base)
    <3>1. PICK l : Reformed(a, l, g, {rest}, c, base)
      BY <2>3, RegionArena
    <3> QED
      BY <3>1 DEF Reformed
  <2> HIDE DEF k
  <2>5. /\ ArenaInv(k, {rest}) /\ k.heap = g /\ SameUsed(a.heap, g, {c, base})
        /\ (c # base => ~ UsedIn(g, c))
    BY <2>4 DEF Reformed
  <2>6. ArenaInv(b, {rest} \ {rest}) /\ b.heap = k.heap
    BY <2>1, <2>5, InsertChunk
  <2>7. {rest} \ {rest} = {}
    OBVIOUS
  <2>8. base \in DOMAIN g /\ g[base].size >= request
    BY <2>2
  <2> QED
    BY <2>2, <2>5, <2>6, <2>7, <2>8 DEF UsedIn, Resettled
<1> QED
  BY <1>6, <1>7

(* A region below a block in use becomes a block, perhaps cut.             *)
LEMMA ResizedArenaTidies ==
  ASSUME NEW a, NEW F, ArenaInv(a, F), NEW c, NEW base, NEW e, InHand(a, F, c, base, e),
         NEW n \in Nat, n >= 3, e = base + n + 1, a.heap[e].cur,
         NEW request \in Nat, request >= SMALLEST_MALLOC,
         NEW b, b = resize_chunk_and_split(a, base, n, request)
  PROVE  Tidies(a.heap, {}, b.heap, {})
<1> DEFINE h == a.heap
           end == a.end
           s == Resized(h, base, n)
           rest == Remainder(base, request)
<1>1. HeapInv(h, end) /\ base \in DOMAIN h /\ e \in DOMAIN h /\ h[e].cur /\ h = a.heap
  BY DEF ArenaInv, InHand
<1>2. s = Resized(h, base, n) /\ rest = Remainder(base, request)
  OBVIOUS
<1>3. s[base].size = n
  <2> HIDE DEF s, h, end
  <2>1. IsResized(h, s, base, e, n)
    BY <1>1, <1>2, ResizedFields
  <2> QED
    BY <2>1 DEF IsResized
<1>4. NEXT_HEAP_CHUNK(s, base) = e
  BY <1>3 DEF NEXT_HEAP_CHUNK
<1>5. b = IF CAN_SPLIT_CHUNK(s, base, request)
            THEN insert_chunk([a EXCEPT !.heap = CutAndTagged(s, base, request, e)], rest)
            ELSE [a EXCEPT !.heap = mark_used(s, base)]
  BY <1>4 DEF resize_chunk_and_split
<1> HIDE DEF s, h, end, rest
<1>6. CASE ~ CAN_SPLIT_CHUNK(s, base, request)
  <2> DEFINE g == mark_used(s, base)
  <2>1. b.heap = g /\ g = mark_used(s, base)
    BY <1>5, <1>6 DEF ArenaInv, IsArena
  <2> HIDE DEF g
  <2>2. Tidies(h, {}, g, {})
    BY <1>1, <1>2, <2>1, ResizeTidies
  <2> QED
    BY <1>1, <2>1, <2>2
<1>7. CASE CAN_SPLIT_CHUNK(s, base, request)
  <2> DEFINE g == CutAndTagged(s, base, request, e)
  <2>1. b.heap = g /\ g = CutAndTagged(s, base, request, e)
    BY <1>5, <1>7 DEF insert_chunk, ArenaInv, IsArena
  <2> HIDE DEF g
  <2>2. Tidies(h, {}, g, {})
    BY <1>1, <1>2, <1>7, <2>1, ResizeAndCutTidies
  <2> QED
    BY <1>1, <2>1, <2>2
<1> QED
  BY <1>6, <1>7

(* Resizing the chunks in hand with the block serves the realloc.          *)
LEMMA InPlaceServes ==
  ASSUME NEW a, NEW c, NEW k, NEW F, ArenaInv(k, F), k.heap = a.heap,
         NEW base, NEW e, InHand(k, F, c, base, e),
         NEW n \in Nat, n >= 3, e = base + n + 1,
         NEW request \in Nat, request >= SMALLEST_MALLOC, n >= request,
         NEW r, r = Outcome(resize_chunk_and_split(k, base, n, request), base)
  PROVE  Served(a, r, {c}, request) /\ (a.heap[e].cur => Tidies(a.heap, {}, r.arena.heap, {}))
<1> DEFINE b == resize_chunk_and_split(k, base, n, request)
<1>1. Resettled(k, b, c, base, request)
  BY ResizeServes
<1>2. r.arena = b /\ r.chunk = base
  BY DEF Outcome
<1> HIDE DEF b
<1>3. UsedIn(a.heap, base) => base \in {c}
  <2>1. base \in DOMAIN k.heap /\ base \in Nat
    BY ArenaFacts DEF InHand
  <2>2. base = c \/ base \in F
    BY <2>1 DEF InHand
  <2> QED
    BY <2>2 DEF ArenaInv, FreeIn, UsedIn
<1>4. {c} \cup {base} = {c, base}
  OBVIOUS
<1>5. a.heap[e].cur => Tidies(a.heap, {}, b.heap, {})
  BY ResizedArenaTidies DEF b
<1> QED
  BY <1>1, <1>2, <1>3, <1>4, <1>5 DEF Served, Resettled

(* Two chunks that follow each other, and the chunk above them.            *)
LEMMA TwoChunks ==
  ASSUME NEW h, NEW end, HeapInv(h, end), NEW c \in DOMAIN h, c # end,
         NEW d, d = NEXT_HEAP_CHUNK(h, c), d # end,
         NEW n, n = COMBINED_SIZES(h, c, d), NEW e, e = NEXT_HEAP_CHUNK(h, d)
  PROVE  /\ d \in DOMAIN h /\ e \in DOMAIN h /\ c < d /\ d < e /\ c < e
         /\ c \in Nat /\ d \in Nat /\ e \in Nat /\ n \in Nat /\ n >= 3 /\ e = c + n + 1
         /\ \A x \in DOMAIN h : c <= x /\ x < e => x = c \/ x = d
<1>1. /\ d \in DOMAIN h /\ c \in Nat /\ h[c].size \in Nat /\ h[c].size >= 3
      /\ d = c + h[c].size + 1 /\ DOMAIN h \subseteq Nat
      /\ \A x \in DOMAIN h : x <= c \/ x >= d
  BY ChunkFacts
<1>2. /\ e \in DOMAIN h /\ h[d].size \in Nat /\ h[d].size >= 3
      /\ e = d + h[d].size + 1
      /\ \A x \in DOMAIN h : x <= d \/ x >= e
  BY <1>1, ChunkFacts
<1>3. n = h[c].size + h[d].size + 1
  BY DEF COMBINED_SIZES, CHUNK_SIZE
<1>4. \A x \in DOMAIN h : x \in Nat
  BY <1>1
<1> QED
  BY <1>1, <1>2, <1>3, <1>4

(* A flag that says free is followed to a free chunk, below the end.       *)
LEMMA ChunkBelow ==
  ASSUME NEW a, ArenaInv(a, {}), NEW c, UsedIn(a.heap, c), CAN_COMBINE_PREVIOUS(a, c),
         NEW below, below = PREVIOUS_HEAP_CHUNK(a.heap, c)
  PROVE  /\ FreeIn(a.heap, below) /\ NEXT_HEAP_CHUNK(a.heap, below) = c
         /\ below # a.end /\ below # c
<1>1. FreeIn(a.heap, below) /\ NEXT_HEAP_CHUNK(a.heap, below) = c
  BY DEF CAN_COMBINE_PREVIOUS, ArenaInv, HeapInv, Tagged, LeadsToFree,
         IS_CURRENT_FREE, FreeIn, UsedIn
<1>2. HeapInv(a.heap, a.end) /\ below \in DOMAIN a.heap /\ c \in DOMAIN a.heap
  BY <1>1 DEF ArenaInv, FreeIn, UsedIn
<1>3. c \in Nat /\ a.end \in Nat /\ below \in Nat /\ below < c /\ c <= a.end
  BY <1>1, <1>2, ChunkFacts
<1> QED
  BY <1>1, <1>3

(* A block is never the end of heap, and a chunk lies above it.            *)
LEMMA ChunkAbove ==
  ASSUME NEW a, ArenaInv(a, {}), NEW c, UsedIn(a.heap, c)
  PROVE  /\ HeapInv(a.heap, a.end) /\ c \in DOMAIN a.heap /\ c # a.end
         /\ NEXT_HEAP_CHUNK(a.heap, c) \in DOMAIN a.heap /\ c # NEXT_HEAP_CHUNK(a.heap, c)
<1>1. HeapInv(a.heap, a.end) /\ c \in DOMAIN a.heap /\ a.heap[c].cur
  BY DEF ArenaInv, UsedIn
<1>2. c # a.end
  BY <1>1, ChunkFacts
<1>3. /\ NEXT_HEAP_CHUNK(a.heap, c) \in DOMAIN a.heap /\ c < NEXT_HEAP_CHUNK(a.heap, c)
      /\ c \in Nat
  BY <1>1, <1>2, ChunkFacts
<1> QED
  BY <1>1, <1>2, <1>3

(* realloc into the chunk above.                                           *)
LEMMA AfterServes ==
  ASSUME NEW a, ArenaInv(a, {}), NEW c, UsedIn(a.heap, c), CAN_COMBINE_NEXT(a, c),
         NEW request \in Nat, request >= SMALLEST_MALLOC,
         NEW r \in realloc_chunk_and_after(a, c, request)
  PROVE  Served(a, r, {c}, request) /\ Tidies(a.heap, {}, r.arena.heap, {})
<1> DEFINE d == NEXT_HEAP_CHUNK(a.heap, c)
           e == NEXT_HEAP_CHUNK(a.heap, d)
           n == COMBINED_SIZES(a.heap, c, d)
           k == remove_chunk_or_victim(a, d)
<1>1. /\ ~ (n < request) /\ d # a.end
      /\ r = Outcome(resize_chunk_and_split(k, c, n, request), c)
  BY DEF realloc_chunk_and_after
<1>2. /\ d = NEXT_HEAP_CHUNK(a.heap, c) /\ n = COMBINED_SIZES(a.heap, c, d)
      /\ e = NEXT_HEAP_CHUNK(a.heap, d) /\ k = remove_chunk_or_victim(a, d)
      /\ ~ a.heap[d].cur
  BY DEF CAN_COMBINE_NEXT, IS_CURRENT_FREE
<1> HIDE DEF d, e, n, k
<1>3. /\ HeapInv(a.heap, a.end) /\ c \in DOMAIN a.heap /\ c # a.end /\ d \in DOMAIN a.heap
  BY <1>2, ChunkAbove
<1>4. /\ e \in DOMAIN a.heap /\ c < d /\ d < e /\ c < e
      /\ c \in Nat /\ d \in Nat /\ e \in Nat /\ n \in Nat /\ n >= 3 /\ e = c + n + 1
      /\ \A x \in DOMAIN a.heap : c <= x /\ x < e => x = c \/ x = d
  BY <1>1, <1>2, <1>3, TwoChunks
<1>5. ArenaInv(k, {d}) /\ k.heap = a.heap
  <2>1. FreeIn(a.heap, d)
    BY <1>2, <1>3 DEF FreeIn
  <2>2. ArenaInv(k, {} \cup {d}) /\ k.heap = a.heap
    BY <1>1, <1>2, <2>1, RemoveOrVictim
  <2> QED
    BY <2>2
<1>6. InHand(k, {d}, c, c, e)
  BY <1>3, <1>4, <1>5 DEF InHand
<1>7. Served(a, r, {c}, request) /\ (a.heap[e].cur => Tidies(a.heap, {}, r.arena.heap, {}))
  BY <1>1, <1>4, <1>5, <1>6, InPlaceServes
<1>8. Coalesced(a.heap, {}) => a.heap[e].cur
  BY <1>2, <1>3, <1>4 DEF Coalesced
<1> QED
  BY <1>7, <1>8 DEF Tidies

(* realloc into the chunk below.                                           *)
LEMMA BeforeServes ==
  ASSUME NEW a, ArenaInv(a, {}), NEW c, UsedIn(a.heap, c), CAN_COMBINE_PREVIOUS(a, c),
         NEW request \in Nat, request >= SMALLEST_MALLOC,
         NEW r \in realloc_chunk_and_before(a, c, request)
  PROVE  /\ Served(a, r, {c}, request)
         /\ a.heap[NEXT_HEAP_CHUNK(a.heap, c)].cur => Tidies(a.heap, {}, r.arena.heap, {})
<1> DEFINE p == PREVIOUS_HEAP_CHUNK(a.heap, c)
           e == NEXT_HEAP_CHUNK(a.heap, c)
           n == COMBINED_SIZES(a.heap, p, c)
           k == remove_chunk_or_victim(a, p)
<1>1. /\ ~ (n < request)
      /\ r = Outcome(resize_chunk_and_split(k, p, n, request), p)
  BY DEF realloc_chunk_and_before
<1>2. /\ p = PREVIOUS_HEAP_CHUNK(a.heap, c) /\ n = COMBINED_SIZES(a.heap, p, c)
      /\ e = NEXT_HEAP_CHUNK(a.heap, c) /\ k = remove_chunk_or_victim(a, p)
  OBVIOUS
<1> HIDE DEF p, e, n, k
<1>3. FreeIn(a.heap, p) /\ c = NEXT_HEAP_CHUNK(a.heap, p) /\ p # a.end /\ p # c
  BY <1>2, ChunkBelow
<1>4. HeapInv(a.heap, a.end) /\ c # a.end /\ p \in DOMAIN a.heap
  BY <1>3, ChunkAbove DEF FreeIn
<1>5. /\ c \in DOMAIN a.heap /\ e \in DOMAIN a.heap /\ p < c /\ c < e /\ p < e
      /\ p \in Nat /\ c \in Nat /\ e \in Nat /\ n \in Nat /\ n >= 3 /\ e = p + n + 1
      /\ \A x \in DOMAIN a.heap : p <= x /\ x < e => x = p \/ x = c
  BY <1>2, <1>3, <1>4, TwoChunks
<1>6. ArenaInv(k, {p}) /\ k.heap = a.heap
  <2>1. ArenaInv(k, {} \cup {p}) /\ k.heap = a.heap
    BY <1>2, <1>3, RemoveOrVictim
  <2> QED
    BY <2>1
<1>7. InHand(k, {p}, c, p, e)
  BY <1>4, <1>5, <1>6 DEF InHand
<1>8. Served(a, r, {c}, request) /\ (a.heap[e].cur => Tidies(a.heap, {}, r.arena.heap, {}))
  BY <1>1, <1>5, <1>6, <1>7, InPlaceServes
<1> QED
  BY <1>2, <1>8

(* realloc into the chunks below and above.                                *)
LEMMA BeforeAndAfterServes ==
  ASSUME NEW a, ArenaInv(a, {}), NEW c, UsedIn(a.heap, c), CAN_COMBINE_PREVIOUS(a, c),
         CAN_COMBINE_NEXT(a, c), NEW request \in Nat, request >= SMALLEST_MALLOC,
         NEW r \in realloc_chunk_before_and_after(a, c, request)
  PROVE  Served(a, r, {c}, request) /\ Tidies(a.heap, {}, r.arena.heap, {})
<1> DEFINE p == PREVIOUS_HEAP_CHUNK(a.heap, c)
           d == NEXT_HEAP_CHUNK(a.heap, c)
           e == NEXT_HEAP_CHUNK(a.heap, d)
           n == COMBINED_SIZES(a.heap, p, c) + CHUNK_SIZE(a.heap, d) + 1
           j == remove_chunk_or_victim(a, d)
           k == remove_chunk_or_victim(j, p)
<1>1. /\ ~ (n < request) /\ d # a.end
      /\ r = Outcome(resize_chunk_and_split(k, p, n, request), p)
  BY DEF realloc_chunk_before_and_after
<1>2. /\ p = PREVIOUS_HEAP_CHUNK(a.heap, c) /\ d = NEXT_HEAP_CHUNK(a.heap, c)
      /\ n = COMBINED_SIZES(a.heap, p, c) + CHUNK_SIZE(a.heap, d) + 1
      /\ e = NEXT_HEAP_CHUNK(a.heap, d) /\ j = remove_chunk_or_victim(a, d)
      /\ k = remove_chunk_or_victim(j, p) /\ ~ a.heap[d].cur
  BY DEF CAN_COMBINE_NEXT, IS_CURRENT_FREE
<1> HIDE DEF p, d, e, n, j, k
<1>3. FreeIn(a.heap, p) /\ c = NEXT_HEAP_CHUNK(a.heap, p) /\ p # a.end /\ p # c
  BY <1>2, ChunkBelow
<1>4. /\ HeapInv(a.heap, a.end) /\ c # a.end /\ p \in DOMAIN a.heap /\ c \in DOMAIN a.heap
      /\ d \in DOMAIN a.heap
  BY <1>2, <1>3, ChunkAbove DEF FreeIn
<1>5. /\ p \in Nat /\ c \in Nat /\ p < c /\ c = p + a.heap[p].size + 1 /\ a.heap[p].size \in Nat
      /\ DOMAIN a.heap \subseteq Nat /\ \A x \in DOMAIN a.heap : x <= p \/ x >= c
  BY <1>3, <1>4, ChunkFacts
<1> DEFINE m == COMBINED_SIZES(a.heap, c, d)
<1>6. /\ e \in DOMAIN a.heap /\ c < d /\ d < e /\ c < e
      /\ c \in Nat /\ d \in Nat /\ e \in Nat /\ m \in Nat /\ m >= 3 /\ e = c + m + 1
      /\ \A x \in DOMAIN a.heap : c <= x /\ x < e => x = c \/ x = d
  BY <1>1, <1>2, <1>4, TwoChunks
<1>7. n = a.heap[p].size + m + 1
  <2>1. a.heap[c].size \in Nat /\ a.heap[d].size \in Nat
    BY <1>4, ArenaFacts
  <2>2. m = a.heap[c].size + a.heap[d].size + 1
    BY DEF COMBINED_SIZES, CHUNK_SIZE
  <2>3. n = (a.heap[p].size + a.heap[c].size + 1) + a.heap[d].size + 1
    BY <1>2 DEF COMBINED_SIZES, CHUNK_SIZE
  <2> HIDE DEF m
  <2> QED
    BY <1>5, <2>1, <2>2, <2>3
<1> HIDE DEF m
<1>8. /\ n \in Nat /\ n >= 3 /\ e = p + n + 1 /\ p < e /\ p <= c /\ p <= d
      /\ \A x \in DOMAIN a.heap : p <= x /\ x < e => x = p \/ x = c \/ x = d
  BY <1>5, <1>6, <1>7
<1>9. ArenaInv(k, {d, p}) /\ k.heap = a.heap
  <2>1. FreeIn(a.heap, d) /\ p \notin {d}
    <3>1. p # d
      BY <1>5, <1>6
    <3>2. FreeIn(a.heap, d)
      BY <1>2, <1>4 DEF FreeIn
    <3> QED
      BY <3>1, <3>2
  <2>2. ArenaInv(j, {} \cup {d}) /\ j.heap = a.heap /\ j.end = a.end
    BY <1>1, <1>2, <2>1, RemoveOrVictim
  <2>3. {} \cup {d} = {d} /\ {d} \cup {p} = {d, p}
    OBVIOUS
  <2>4. ArenaInv(k, {d} \cup {p}) /\ k.heap = j.heap
    BY <1>2, <1>3, <2>1, <2>2, <2>3, RemoveOrVictim
  <2> QED
    BY <2>2, <2>3, <2>4
<1>10. InHand(k, {d, p}, c, p, e)
  <2>1. \A x \in {d, p} : p <= x /\ x < e
    BY <1>5, <1>6, <1>8
  <2>2. \A x \in DOMAIN a.heap : p <= x /\ x < e => x = c \/ x \in {d, p}
    BY <1>8
  <2>3. p \in DOMAIN a.heap /\ e \in DOMAIN a.heap /\ p < e /\ p <= c /\ c < e
    BY <1>4, <1>6, <1>8
  <2> QED
    BY <2>1, <2>2, <2>3, <1>9 DEF InHand
<1>11. n >= request
  BY <1>1, <1>8
<1>12. Served(a, r, {c}, request) /\ (a.heap[e].cur => Tidies(a.heap, {}, r.arena.heap, {}))
  BY <1>1, <1>8, <1>9, <1>10, <1>11, InPlaceServes
<1>13. Coalesced(a.heap, {}) => a.heap[e].cur
  BY <1>2, <1>4, <1>6 DEF Coalesced
<1> QED
  BY <1>12, <1>13 DEF Tidies

(* realloc into the end of heap, which is extended if need be and cut.     *)
LEMMA ExtendServes ==
  ASSUME NEW a, ArenaInv(a, {}), NEW c, UsedIn(a.heap, c), NEXT_HEAP_CHUNK(a.heap, c) = a.end,
         NEW request \in Nat, request >= SMALLEST_MALLOC,
         NEW r \in realloc_chunk_after_extend_heap(a, c, request)
  PROVE  Served(a, r, {c}, request) /\ Tidies(a.heap, {}, r.arena.heap, {})
<1> DEFINE h == a.heap
           end == a.end
           combined == COMBINED_SIZES(h, c, end)
           fits == request + SMALLEST_CHUNK <= combined
           difference == IF fits THEN 0
                         ELSE request + SMALLEST_CHUNK + EXTENSION_SIZE - combined
           n == combined + difference
           s == Extended(h, c, n)
           g == split_mallocd_chunk(s, c, request)
           rest == Remainder(c, request)
           b == [a EXCEPT !.brk = @ + difference, !.heap = g, !.end = rest]
<1>1. r = Outcome(b, c) /\ (fits \/ CanSbrk(a, difference))
  BY DEF realloc_chunk_after_extend_heap
<1>2. /\ HeapInv(h, end) /\ c \in DOMAIN h /\ h[c].cur /\ c # end /\ end = NEXT_HEAP_CHUNK(h, c)
      /\ ~ h[end].cur /\ end \in DOMAIN h
  BY ChunkAbove, ArenaFacts DEF UsedIn, FreeIn
<1>3. /\ end = c + h[c].size + 1 /\ c \in Nat /\ h[c].size \in Nat /\ h[end].size \in Nat
      /\ a.brk \in Nat /\ end + h[end].size + 2 = a.brk /\ a.brk <= HEAP_LO + MAX_HEAP
  BY <1>2, ArenaFacts DEF ArenaInv, BreakInv, NEXT_HEAP_CHUNK
<1>4. /\ combined \in Nat /\ combined = h[c].size + h[end].size + 1
      /\ difference \in Nat /\ n \in Nat /\ n >= request + SMALLEST_CHUNK /\ n >= combined
      /\ n = combined + difference /\ a.brk + difference <= HEAP_LO + MAX_HEAP
  <2>1. combined = h[c].size + h[end].size + 1
    BY DEF COMBINED_SIZES, CHUNK_SIZE
  <2> DEFINE wanted == request + SMALLEST_CHUNK
  <2>2. wanted \in Nat /\ wanted = request + SMALLEST_CHUNK
    BY DEF SMALLEST_CHUNK, SMALLEST_MALLOC
  <2>3. EXTENSION_SIZE \in Nat
    BY ParameterAssumption
  <2>4. /\ fits <=> wanted <= combined
        /\ difference = IF fits THEN 0 ELSE wanted + EXTENSION_SIZE - combined
        /\ n = combined + difference
    OBVIOUS
  <2>5. fits \/ a.brk + difference <= HEAP_LO + MAX_HEAP
    BY <1>1 DEF CanSbrk
  <2> HIDE DEF wanted, n, difference, fits, combined, h, end
  <2>6. combined \in Nat
    BY <1>3, <2>1
  <2>7. CASE fits
    <3>1. difference = 0 /\ n = combined /\ combined >= wanted
      BY <2>4, <2>6, <2>7, <2>2
    <3> QED
      BY <3>1, <2>1, <2>2, <2>6, <1>3
  <2>8. CASE ~ fits
    <3>1. /\ difference = wanted + EXTENSION_SIZE - combined /\ ~ (wanted <= combined)
          /\ n = combined + difference
      BY <2>4, <2>8
    <3>2. difference \in Nat /\ n = wanted + EXTENSION_SIZE /\ n >= combined
      BY <3>1, <2>2, <2>3, <2>6
    <3>3. n \in Nat /\ n >= wanted
      BY <3>2, <2>2, <2>3
    <3> QED
      BY <3>1, <3>2, <3>3, <2>1, <2>2, <2>5, <2>6, <2>8
  <2> QED
    BY <2>7, <2>8
<1>5. /\ b.heap = g /\ b.victim = a.victim /\ b.end = rest /\ b.brk = a.brk + difference
      /\ b.bins = a.bins /\ IsArena(b)
  <2> HIDE DEF difference, g, rest
  <2>1. b = [a EXCEPT !.brk = a.brk + difference, !.heap = g, !.end = rest]
    OBVIOUS
  <2> HIDE DEF b
  <2> QED
    BY <2>1 DEF ArenaInv, IsArena
<1>6. /\ s = Extended(h, c, n) /\ g = split_mallocd_chunk(s, c, request)
      /\ rest = Remainder(c, request) /\ h = a.heap /\ end = a.end
  OBVIOUS
<1> HIDE DEF b, g, rest, s, n, difference, fits, combined, h, end
<1>7. CAN_SPLIT_CHUNK(s, c, request)
  <2> DEFINE t == Swallow(h, c, n)
  <2>1. c \in DOMAIN t
    BY <1>2, <1>3 DEF Swallow, Restrict
  <2>2. s = [t EXCEPT ![c].size = n]
    BY <1>6 DEF Extended
  <2>3. t[c] = h[c] /\ h[c] \in Header
    BY <1>2, <1>3, ChunkFacts DEF Swallow, Restrict
  <2> HIDE DEF t
  <2>4. s[c] = [h[c] EXCEPT !.size = n]
    BY <2>1, <2>2, <2>3
  <2>5. s[c].size = n
    BY <2>3, <2>4 DEF Header
  <2> QED
    BY <2>5, <1>4 DEF CAN_SPLIT_CHUNK, CHUNK_SIZE
<1>8. /\ HeapInv(g, rest) /\ rest \in Nat /\ c < rest
      /\ DOMAIN g = (DOMAIN h \ {end}) \cup {rest}
      /\ g[c].cur /\ g[c].size = request /\ ~ g[rest].cur
      /\ NEXT_HEAP_CHUNK(g, rest) = c + n + 1
      /\ \A x \in DOMAIN h \ {c, end} :
           x \in DOMAIN g /\ x # rest /\ g[x].size = h[x].size /\ (g[x].cur <=> h[x].cur)
      /\ Tidies(h, {}, g, {})
  <2>1. n >= h[c].size + h[end].size + 1
    BY <1>4
  <2>2. IsExtended(h, g, c, n, end, rest, request)
    BY <1>2, <1>4, <1>6, <1>7, <2>1, ExtendKeepsHeap
  <2>3. Tidies(h, {}, g, {})
    BY <1>2, <1>4, <2>2, ExtendTidies
  <2> QED
    BY <2>2, <2>3 DEF IsExtended
<1>9. BreakInv(b)
  <2>1. NEXT_HEAP_CHUNK(b.heap, b.end) = c + n + 1
    BY <1>5, <1>8
  <2>2. c + n + 2 = a.brk + difference
    BY <1>3, <1>4
  <2>3. b.brk = a.brk + difference /\ b.brk \in Nat /\ b.brk <= HEAP_LO + MAX_HEAP
    BY <1>3, <1>4, <1>5
  <2> QED
    BY <1>3, <1>4, <2>1, <2>2, <2>3 DEF BreakInv
<1>10. c # rest
  BY <1>3, <1>8
<1>11. VictimInv(b, {})
  BY <1>2, <1>5, <1>6, <1>8 DEF ArenaInv, VictimInv, FreeIn
<1>12. Refiled(a, {}, b, {})
  BY <1>2, <1>5, <1>6, <1>8 DEF Refiled, Filed, FreeIn
<1>13. BinsExact(b, {})
  BY <1>5, <1>12, Rebook
<1>14. ArenaInv(b, {})
  BY <1>5, <1>8, <1>9, <1>11, <1>13 DEF ArenaInv
<1>15. SameUsed(a.heap, b.heap, {c})
  BY <1>2, <1>5, <1>6, <1>8 DEF SameUsed, UsedIn
<1>16. UsedIn(b.heap, c) /\ b.heap[c].size >= request
  BY <1>2, <1>5, <1>8 DEF UsedIn
<1>17. r.arena = b /\ r.chunk = c
  BY <1>1 DEF Outcome
<1>18. Tidies(a.heap, {}, b.heap, {})
  BY <1>5, <1>6, <1>8
<1> QED
  BY <1>14, <1>15, <1>16, <1>17, <1>18 DEF Served

(* realloc by a new block and the release of the old one.                  *)
LEMMA DefaultServes ==
  ASSUME ExtensionLeavesAChunk, NEW a, ArenaInv(a, {}), NEW c, UsedIn(a.heap, c),
         NEW request \in Nat, request >= SMALLEST_MALLOC,
         NEW r \in default_realloc(a, c, request)
  PROVE  Served(a, r, {c}, request)
<1>1. PICK m \in my_malloc(a, 8 * request) : r = Outcome(my_free(m.arena, c), m.chunk)
  BY DEF default_realloc
<1>2. Served(a, m, {}, request)
  <2>1. Request(8 * request) = request /\ 8 * request \in Nat
    BY RequestOfWords
  <2>2. Served(a, m, {}, Request(8 * request))
    BY <2>1, MallocServes
  <2> QED
    BY <2>1, <2>2
<1> DEFINE b == my_free(m.arena, c)
<1>3. UsedIn(m.arena.heap, c) /\ m.chunk # c
  BY <1>2 DEF Served, SameUsed
<1>4. ArenaInv(b, {}) /\ ~ UsedIn(b.heap, c) /\ SameUsed(m.arena.heap, b.heap, {c})
  BY <1>2, <1>3, FreeReleases DEF Served
<1>5. r.arena = b /\ r.chunk = m.chunk
  BY <1>1 DEF Outcome
<1> HIDE DEF b
<1>6. UsedIn(b.heap, m.chunk) /\ b.heap[m.chunk].size >= request
  BY <1>2, <1>3, <1>4 DEF Served, SameUsed
<1>7. SameUsed(a.heap, b.heap, {c, m.chunk})
  BY <1>2, <1>4 DEF Served, SameUsed
<1>8. ~ UsedIn(a.heap, m.chunk)
  BY <1>2 DEF Served
<1>9. {c} \cup {m.chunk} = {c, m.chunk}
  OBVIOUS
<1> QED
  BY <1>4, <1>5, <1>6, <1>7, <1>8, <1>9 DEF Served

(* Whichever way realloc takes, the block is served.                       *)
LEMMA ReallocServes ==
  ASSUME ExtensionLeavesAChunk, NEW a, ArenaInv(a, {}), NEW c, UsedIn(a.heap, c),
         NEW size \in Nat, NEW r \in my_realloc(a, c, size)
  PROVE  Served(a, r, {c}, Request(size))
<1> DEFINE request == Request(size)
<1>1. request \in Nat /\ request >= SMALLEST_MALLOC /\ request = Request(size)
  BY RequestFacts
<1> HIDE DEF request
<1>2. CASE request <= CHUNK_SIZE(a.heap, c)
  <2>1. r \in realloc_chunk_is_smaller(a, c, request)
    BY <1>1, <1>2 DEF my_realloc
  <2>2. a.heap[c].size >= request
    <3>1. a.heap[c].size \in Nat
      BY ArenaFacts DEF UsedIn
    <3> QED
      BY <3>1, <1>1, <1>2 DEF CHUNK_SIZE
  <2> QED
    BY <1>1, <2>1, <2>2, SmallerServes
<1>3. CASE ~ (request <= CHUNK_SIZE(a.heap, c))
  <2>1. r \in realloc_chunk_is_larger(a, c, request)
    BY <1>1, <1>3 DEF my_realloc
  <2>2. \/ CAN_COMBINE_NEXT(a, c) /\ r \in realloc_chunk_and_after(a, c, request)
        \/ CAN_COMBINE_PREVIOUS(a, c) /\ CAN_COMBINE_NEXT(a, c)
             /\ r \in realloc_chunk_before_and_after(a, c, request)
        \/ CAN_COMBINE_PREVIOUS(a, c) /\ r \in realloc_chunk_and_before(a, c, request)
        \/ NEXT_HEAP_CHUNK(a.heap, c) = a.end
             /\ r \in realloc_chunk_after_extend_heap(a, c, request)
        \/ r \in default_realloc(a, c, request)
    BY <2>1 DEF realloc_chunk_is_larger, OrElse
  <2> QED
    BY <1>1, <2>2, AfterServes, BeforeAndAfterServes, BeforeServes, ExtendServes, DefaultServes
<1> QED
  BY <1>2, <1>3

-----------------------------------------------------------------------------
(* The invariants, for every heap size, every tuning of the bins and every *)
(* set of sizes, whatever the client does with the blocks it holds.        *)

(* What every call may rely on when it begins: the arena is consistent, no *)
(* chunk is in hand, and the chunks in use are the blocks of the client.   *)
Inv ==
  /\ ArenaInv(arena, {})
  /\ live \in [DOMAIN live -> Sizes]
  /\ \A x : x \in DOMAIN live <=> UsedIn(arena.heap, x)
  /\ \A x \in DOMAIN live : arena.heap[x].size >= Request(live[x])

-----------------------------------------------------------------------------
(* Inv is inductive.                                                       *)

(* my_init leaves one free chunk, the end of heap, and empty bins.         *)
LEMMA InitInv ==
  ASSUME Init
  PROVE  Inv
<1> DEFINE h == arena.heap
           header == [size |-> INITIAL_CHUNK_SIZE, cur |-> FALSE,
                      prev |-> TRUE, prevSize |-> CLOBBERED]
<1>1. /\ h = [c \in {HEAP_LO} |-> header] /\ arena.end = HEAP_LO /\ arena.victim = NULL
      /\ arena.bins = [n \in BinIndex |-> {}] /\ IsArena(arena)
      /\ arena.brk = HEAP_LO + INITIAL_CHUNK_SIZE + 2 /\ live = << >>
  BY DEF Init, my_init, IsArena
<1>2. DOMAIN h = {1} /\ h[1] = header /\ INITIAL_CHUNK_SIZE \in Nat /\ INITIAL_CHUNK_SIZE >= 3
  BY <1>1, ParameterAssumption DEF HEAP_LO, SMALLEST_MALLOC
<1>3. /\ h[1] \in Header /\ h[1].size = INITIAL_CHUNK_SIZE /\ ~ h[1].cur /\ h[1].prev
  BY <1>2 DEF Header, CLOBBERED
<1>4. h \in [DOMAIN h -> Header]
  BY <1>1, <1>2, <1>3 DEF HEAP_LO
<1> HIDE DEF h
<1>5. HeapInv(h, 1)
  <2>1. HeapTyped(h, 1)
    BY <1>2, <1>3, <1>4 DEF HeapTyped, HEAP_LO, NULL, IS_CURRENT_FREE, CHUNK_SIZE,
                            SMALLEST_MALLOC
  <2>2. Tiled(h, 1)
    BY <1>2 DEF Tiled
  <2>3. Tagged(h)
    BY <1>2, <1>3 DEF Tagged, IS_CURRENT_INUSE, IS_PREVIOUS_FREE
  <2> QED
    BY <2>1, <2>2, <2>3 DEF HeapInv
<1>6. BreakInv(arena)
  BY <1>1, <1>2, <1>3, ParameterAssumption DEF BreakInv, NEXT_HEAP_CHUNK, HEAP_LO, h
<1>7. BinsExact(arena, {})
  BY <1>1, <1>2 DEF BinsExact, Filed, FreeIn, HEAP_LO, h
<1>8. ArenaInv(arena, {})
  BY <1>1, <1>5, <1>6, <1>7 DEF ArenaInv, VictimInv, HEAP_LO, h
<1>9. DOMAIN live = {} /\ live \in [DOMAIN live -> Sizes]
  BY <1>1
<1>10. \A x : ~ UsedIn(arena.heap, x)
  BY <1>2, <1>3 DEF UsedIn, h
<1> QED
  BY <1>8, <1>9, <1>10 DEF Inv

(* A call that hands out a block in place of those of C.                   *)
LEMMA HandOutInv ==
  ASSUME Inv, NEW C, \A c \in C : c \in DOMAIN live, NEW size \in Sizes, NEW r,
         Served(arena, r, C, Request(size)),
         arena' = r.arena, live' = Holding(C, r.chunk, size)
  PROVE  Inv'
<1> DEFINE new == r.chunk
<1>1. /\ DOMAIN live' = (DOMAIN live \ C) \cup {new} /\ live'[new] = size
      /\ \A x \in DOMAIN live \ C : x # new => live'[x] = live[x]
  BY DEF Holding
<1>2. live' \in [DOMAIN live' -> Sizes]
  BY DEF Holding, Inv
<1> HIDE DEF new
<1>3. /\ ArenaInv(arena', {}) /\ UsedIn(arena'.heap, new) /\ arena'.heap[new].size >= Request(size)
      /\ \A c \in C : c # new => ~ UsedIn(arena'.heap, c)
      /\ SameUsed(arena.heap, arena'.heap, C \cup {new})
  BY DEF Served, new
<1>4. ASSUME NEW x, x # new
      PROVE  /\ x \in DOMAIN live' <=> UsedIn(arena'.heap, x)
             /\ x \in DOMAIN live' => arena'.heap[x].size >= Request(live'[x])
  <2>1. CASE x \in C
    BY <2>1, <1>1, <1>3, <1>4
  <2>2. CASE x \notin C
    <3>1. x \in DOMAIN live' <=> x \in DOMAIN live
      BY <2>2, <1>1, <1>4
    <3>2. /\ UsedIn(arena.heap, x) <=> UsedIn(arena'.heap, x)
          /\ UsedIn(arena.heap, x) => arena'.heap[x].size = arena.heap[x].size
      BY <2>2, <1>3, <1>4 DEF SameUsed
    <3>3. x \in DOMAIN live => live'[x] = live[x]
      BY <2>2, <1>1, <1>4
    <3> QED
      BY <3>1, <3>2, <3>3 DEF Inv
  <2> QED
    BY <2>1, <2>2
<1>5. \A x : x \in DOMAIN live' <=> UsedIn(arena'.heap, x)
  BY <1>1, <1>3, <1>4
<1>6. \A x \in DOMAIN live' : arena'.heap[x].size >= Request(live'[x])
  BY <1>1, <1>3, <1>4
<1> QED
  BY <1>2, <1>3, <1>5, <1>6 DEF Inv

(* A call that takes the block c back.                                     *)
LEMMA TakeBackInv ==
  ASSUME Inv, NEW c \in DOMAIN live, Free(c)
  PROVE  Inv'
<1>1. UsedIn(arena.heap, c) /\ ArenaInv(arena, {}) /\ arena' = my_free(arena, c)
  BY DEF Inv, Free
<1>2. /\ ArenaInv(arena', {}) /\ ~ UsedIn(arena'.heap, c)
      /\ SameUsed(arena.heap, arena'.heap, {c})
  BY <1>1, FreeReleases
<1>3. /\ DOMAIN live' = DOMAIN live \ {c} /\ \A x \in DOMAIN live \ {c} : live'[x] = live[x]
      /\ live' \in [DOMAIN live' -> Sizes]
  BY DEF Free, Restrict, Inv
<1>4. \A x : x \in DOMAIN live' <=> UsedIn(arena'.heap, x)
  BY <1>2, <1>3 DEF Inv, SameUsed
<1>5. \A x \in DOMAIN live' : arena'.heap[x].size >= Request(live'[x])
  BY <1>2, <1>3 DEF Inv, SameUsed
<1> QED
  BY <1>2, <1>3, <1>4, <1>5 DEF Inv

(* One step per action; the calls that fail leave everything as it was.    *)
LEMMA NextInv ==
  ASSUME ExtensionLeavesAChunk, Inv, [Next]_vars
  PROVE  Inv'
<1>1. CASE UNCHANGED vars
  BY <1>1 DEF vars, Inv
<1>2. ASSUME NEW size \in Sizes, Malloc(size)
      PROVE  Inv'
  <2>1. PICK r \in my_malloc(arena, size) :
          arena' = r.arena /\ live' = Holding({}, r.chunk, size)
    BY <1>2 DEF Malloc
  <2>2. size \in Nat
    BY ParameterAssumption
  <2>3. Served(arena, r, {}, Request(size))
    BY <2>2, MallocServes DEF Inv
  <2> QED
    BY <2>1, <2>3, HandOutInv
<1>3. ASSUME NEW size \in Sizes, MallocFails(size)
      PROVE  Inv'
  BY <1>3, <1>1 DEF MallocFails
<1>4. ASSUME NEW c \in DOMAIN live, Free(c)
      PROVE  Inv'
  BY <1>4, TakeBackInv
<1>5. ASSUME NEW c \in DOMAIN live, NEW size \in Sizes, Realloc(c, size)
      PROVE  Inv'
  <2>1. PICK r \in my_realloc(arena, c, size) :
          arena' = r.arena /\ live' = Holding({c}, r.chunk, size)
    BY <1>5 DEF Realloc
  <2>2. size \in Nat /\ UsedIn(arena.heap, c)
    BY <1>5, ParameterAssumption DEF Inv
  <2>3. Served(arena, r, {c}, Request(size))
    BY <2>2, ReallocServes DEF Inv
  <2>4. \A x \in {c} : x \in DOMAIN live
    BY <1>5
  <2> QED
    BY <2>1, <2>3, <2>4, <1>5, HandOutInv
<1>6. ASSUME NEW c \in DOMAIN live, NEW size \in Sizes, ReallocFails(c, size)
      PROVE  Inv'
  BY <1>6, <1>1 DEF ReallocFails
<1> QED
  BY <1>1, <1>2, <1>3, <1>4, <1>5, <1>6 DEF Next

(* Inv holds before and after every call.                                  *)
THEOREM InvHolds ==
  ASSUME ExtensionLeavesAChunk
  PROVE  Spec => []Inv
<1>1. Init => Inv
  BY InitInv
<1>2. Inv /\ [Next]_vars => Inv'
  BY NextInv
<1> QED
  BY <1>1, <1>2, PTL DEF Spec

-----------------------------------------------------------------------------
(* What follows from Inv.                                                  *)

(* The facts about the chunks of the heap that the properties are about.   *)
LEMMA InvFacts ==
  ASSUME Inv
  PROVE  /\ HeapInv(arena.heap, arena.end) /\ arena.end \in Chunks
         /\ arena.heap \in [Chunks -> Header] /\ Chunks \subseteq Nat \ {0}
         /\ HEAP_LO \in Chunks /\ arena.brk \in Nat /\ Above(arena.end) + 1 = arena.brk
         /\ arena.brk <= HEAP_LO + MAX_HEAP
         /\ \A c \in Chunks : /\ c \in Nat /\ Size(c) \in Nat /\ Size(c) >= SMALLEST_MALLOC
                              /\ Above(c) = c + Size(c) + 1 /\ c <= arena.end
                              /\ c # arena.end => Above(c) \in Chunks
                              /\ \A x \in Chunks : x <= c \/ x >= Above(c)
         /\ \A c : c \in FreeChunks <=> FreeIn(arena.heap, c)
         /\ \A c : c \in DOMAIN live <=> UsedIn(arena.heap, c)
<1>1. HeapInv(arena.heap, arena.end) /\ BreakInv(arena)
  BY DEF Inv, ArenaInv
<1>2. \A c \in Chunks : /\ c \in Nat /\ Size(c) \in Nat /\ Size(c) >= SMALLEST_MALLOC
                        /\ Above(c) = c + Size(c) + 1 /\ c <= arena.end
                        /\ c # arena.end => Above(c) \in Chunks
                        /\ \A x \in Chunks : x <= c \/ x >= Above(c)
  BY <1>1, ChunkFacts DEF Chunks, Size, Above, CHUNK_SIZE, SMALLEST_MALLOC
<1>3. /\ arena.end \in Chunks /\ arena.heap \in [Chunks -> Header] /\ Chunks \subseteq Nat \ {0}
      /\ HEAP_LO \in Chunks
  BY <1>1 DEF HeapInv, HeapTyped, Chunks, NULL
<1>4. /\ arena.brk \in Nat /\ Above(arena.end) + 1 = arena.brk
      /\ arena.brk <= HEAP_LO + MAX_HEAP
  BY <1>1 DEF BreakInv, Above
<1>5. /\ \A c : c \in FreeChunks <=> FreeIn(arena.heap, c)
      /\ \A c : c \in DOMAIN live <=> UsedIn(arena.heap, c)
  BY DEF FreeChunks, FreeIn, IS_CURRENT_FREE, Chunks, Inv
<1> QED
  BY <1>1, <1>2, <1>3, <1>4, <1>5

(* Inv contains what TypeOK says of the two variables.                     *)
LEMMA InvTypeOK ==
  ASSUME Inv
  PROVE  TypeOK
<1>1. \A c \in Chunks : c \in HEAP_LO .. arena.brk
  BY InvFacts DEF HEAP_LO, SMALLEST_MALLOC
<1>2. arena.brk \in HEAP_LO .. HEAP_LO + MAX_HEAP
  BY InvFacts, ParameterAssumption DEF HEAP_LO, SMALLEST_MALLOC
<1>3. arena.victim \in {NULL} \cup Chunks
  BY DEF Inv, ArenaInv, VictimInv, FreeIn, Chunks
<1>4. arena.bins \in [BinIndex -> SUBSET Chunks]
  <2>1. \A n \in BinIndex : arena.bins[n] \subseteq Chunks
    BY DEF Inv, ArenaInv, BinsExact, Filed, FreeIn, Chunks
  <2>2. arena.bins \in [BinIndex -> SUBSET Nat]
    BY DEF Inv, ArenaInv, BinsExact
  <2> QED
    BY <2>1, <2>2
<1>5. live \in [DOMAIN live -> Sizes] /\ DOMAIN live \subseteq Chunks
  BY DEF Inv, UsedIn, Chunks
<1> QED
  BY <1>1, <1>2, <1>3, <1>4, <1>5, InvFacts DEF TypeOK

(* The chunks of a consistent heap tile it.                                *)
LEMMA InvHeapTiled ==
  ASSUME Inv
  PROVE  HeapTiled
<1>1. \A c, d \in Chunks : c < d => Above(c) <= d
  <2> SUFFICES ASSUME NEW c \in Chunks, NEW d \in Chunks, c < d
               PROVE  Above(c) <= d
    OBVIOUS
  <2>1. c \in Nat /\ d \in Nat /\ Above(c) = c + Size(c) + 1 /\ Size(c) \in Nat
        /\ (d <= c \/ d >= Above(c))
    BY InvFacts
  <2> QED
    BY <2>1
<1> QED
  BY <1>1, InvFacts DEF HeapTiled

(* The flag above a block, and what a flag that says free leads to.        *)
LEMMA InvTagsSound ==
  ASSUME Inv
  PROVE  TagsSound
<1>1. Tagged(arena.heap)
  BY DEF Inv, ArenaInv, HeapInv
<1>2. ASSUME NEW c \in DOMAIN live
      PROVE  IS_PREVIOUS_INUSE(arena.heap, Above(c))
  <2>1. UsedIn(arena.heap, c)
    BY DEF Inv
  <2> QED
    BY <1>1, <2>1 DEF Tagged, UsedIn, IS_CURRENT_INUSE, Above
<1>3. ASSUME NEW d \in Chunks, IS_PREVIOUS_FREE(arena.heap, d)
      PROVE  LET below == PREVIOUS_HEAP_CHUNK(arena.heap, d)
             IN  below \in FreeChunks /\ Above(below) = d
  BY <1>1, <1>3 DEF Tagged, LeadsToFree, FreeChunks, Chunks, Above
<1> QED
  BY <1>2, <1>3 DEF TagsSound

(* previous_size above a block holds what the client may have put there.   *)
LEMMA InvLastWordIsClients ==
  ASSUME Inv
  PROVE  LastWordIsClients
<1> SUFFICES ASSUME NEW c \in DOMAIN live
             PROVE  arena.heap[Above(c)].prevSize = CLOBBERED
  BY DEF LastWordIsClients
<1>1. Tagged(arena.heap)
  BY DEF Inv, ArenaInv, HeapInv
<1>2. UsedIn(arena.heap, c)
  BY DEF Inv
<1> QED
  BY <1>1, <1>2 DEF Tagged, UsedIn, IS_CURRENT_INUSE, Above

(* With no chunk in hand, every free chunk is the end, the victim or filed.*)
LEMMA InvChunksAccountedFor ==
  ASSUME Inv
  PROVE  ChunksAccountedFor
<1>1. DOMAIN live = Chunks \ FreeChunks
  BY InvFacts DEF UsedIn, FreeIn, Chunks
<1>2. \A n \in BinIndex : arena.bins[n] =
        {c \in FreeChunks \ {arena.end, arena.victim} : BinOf(Size(c)) = n}
  <2> SUFFICES ASSUME NEW n \in BinIndex, NEW c
               PROVE  c \in arena.bins[n] <=>
                        c \in FreeChunks \ {arena.end, arena.victim} /\ BinOf(Size(c)) = n
    BY InvTypeOK DEF TypeOK
  <2>1. c \in arena.bins[n] <=> Filed(arena, {}, c) /\ BinOf(arena.heap[c].size) = n
    BY DEF Inv, ArenaInv, BinsExact
  <2>2. c \in FreeChunks <=> FreeIn(arena.heap, c)
    BY InvFacts
  <2> QED
    BY <2>1, <2>2 DEF Filed, Size, CHUNK_SIZE
<1>3. arena.end \in FreeChunks
  BY InvFacts, ArenaFacts DEF Inv
<1>4. arena.victim # NULL => arena.victim \in FreeChunks \ {arena.end}
  BY InvFacts DEF Inv, ArenaInv, VictimInv
<1> QED
  BY <1>1, <1>2, <1>3, <1>4 DEF ChunksAccountedFor

(* The payload of a block ends where the chunk above it begins at latest.  *)
LEMMA InvBlocksBelongToClient ==
  ASSUME Inv
  PROVE  BlocksBelongToClient
<1> SUFFICES ASSUME NEW c \in DOMAIN live
             PROVE  /\ Payload(c) \subseteq HEAP_LO .. arena.brk - 1
                    /\ Payload(c) \cap Metadata = {}
                    /\ \A d \in DOMAIN live \ {c} : Payload(c) \cap Payload(d) = {}
  BY DEF BlocksBelongToClient
<1>1. ASSUME NEW x \in DOMAIN live
      PROVE  /\ x \in Chunks /\ x \notin FreeChunks /\ x # arena.end /\ Request(live[x]) \in Nat
             /\ \A w \in Payload(x) : w \in Int /\ x + 2 <= w /\ w <= Above(x)
  <2>1. /\ x \in Chunks /\ x \notin FreeChunks /\ x # arena.end
        /\ arena.heap[x].size >= Request(live[x])
    BY InvFacts, ArenaFacts DEF Inv, UsedIn, FreeIn, Chunks
  <2>2. Request(live[x]) \in Nat
    BY RequestFacts, ParameterAssumption DEF Inv
  <2>3. x \in Nat /\ Above(x) = x + arena.heap[x].size + 1 /\ arena.heap[x].size \in Nat
    BY <2>1, InvFacts DEF Size, CHUNK_SIZE
  <2> QED
    BY <2>1, <2>2, <2>3 DEF Payload
<1>2. /\ c \in Nat /\ c >= 1 /\ Above(c) \in Nat /\ arena.end \in Nat /\ Above(c) <= arena.end
      /\ Above(arena.end) \in Nat /\ arena.end < Above(arena.end)
      /\ arena.brk = Above(arena.end) + 1
  <2>1. c \in Nat /\ c # 0 /\ Above(c) \in Nat
    BY <1>1, InvFacts
  <2>2. Above(c) \in Chunks /\ arena.end \in Chunks
    BY <1>1, InvFacts
  <2> QED
    BY <2>1, <2>2, InvFacts
<1>3. Payload(c) \subseteq HEAP_LO .. arena.brk - 1
  BY <1>1, <1>2 DEF HEAP_LO
<1>4. ASSUME NEW x \in Chunks, x # c
      PROVE  x \in Nat /\ Above(x) \in Nat /\ (Above(x) <= c \/ Above(c) <= x)
  <2>1. /\ x \in Nat /\ Above(x) \in Nat /\ (c <= x \/ c >= Above(x))
        /\ (x <= c \/ x >= Above(c))
    BY <1>1, <1>4, InvFacts
  <2> QED
    BY <2>1, <1>2, <1>4
<1>5. Payload(c) \cap Metadata = {}
  <2> SUFFICES ASSUME NEW w \in Payload(c), w \in Metadata
               PROVE  FALSE
    OBVIOUS
  <2>1. w \in Int /\ c + 2 <= w /\ w <= Above(c)
    BY <1>1
  <2>2. CASE w \in {x + 1 : x \in Chunks}
    <3>1. PICK x \in Chunks : w = x + 1
      BY <2>2
    <3>2. x # c
      BY <3>1, <2>1, <1>2
    <3> QED
      BY <3>1, <3>2, <2>1, <1>2, <1>4, InvFacts
  <2>3. CASE w \in UNION {x + 2 .. Above(x) : x \in FreeChunks}
    <3>1. PICK x \in FreeChunks : w \in x + 2 .. Above(x)
      BY <2>3
    <3>2. x \in Chunks /\ x # c
      BY <3>1, <1>1 DEF FreeChunks
    <3> QED
      BY <3>1, <3>2, <2>1, <1>2, <1>4
  <2> QED
    BY <2>2, <2>3 DEF Metadata
<1>6. ASSUME NEW d \in DOMAIN live \ {c}
      PROVE  Payload(c) \cap Payload(d) = {}
  <2>1. d \in Chunks /\ d # c /\ \A w \in Payload(d) : w \in Int /\ d + 2 <= w /\ w <= Above(d)
    BY <1>1
  <2>2. \A w \in Payload(c) : w \in Int /\ c + 2 <= w /\ w <= Above(c)
    BY <1>1
  <2> QED
    BY <2>1, <2>2, <1>2, <1>4
<1> QED
  BY <1>3, <1>5, <1>6

-----------------------------------------------------------------------------
(* The theorems, under the one assumption on the tuning that the code      *)
(* needs and does not check: EXTENSION_SIZE leaves room for a chunk.       *)

(* The arena and the client's table keep their types through every call.   *)
THEOREM TypeCorrect ==
  ASSUME ExtensionLeavesAChunk
  PROVE  Spec => []TypeOK
BY InvHolds, InvTypeOK, PTL

(* malloc, free and realloc never leave a gap or an overlap in the heap.   *)
THEOREM HeapAlwaysTiled ==
  ASSUME ExtensionLeavesAChunk
  PROVE  Spec => []HeapTiled
BY InvHolds, InvHeapTiled, PTL

(* A boundary tag that free or realloc acts upon is true, although split   *)
(* and realloc leave others behind that are not.                           *)
THEOREM TagsAlwaysSound ==
  ASSUME ExtensionLeavesAChunk
  PROVE  Spec => []TagsSound
BY InvHolds, InvTagsSound, PTL

(* No handler loses a chunk, bins it twice or bins it under a wrong size.  *)
THEOREM NoChunkIsLost ==
  ASSUME ExtensionLeavesAChunk
  PROVE  Spec => []ChunksAccountedFor
BY InvHolds, InvChunksAccountedFor, PTL

(* The memory handed out is inside the heap, apart from all other blocks,  *)
(* and none of its words is used by the allocator.                         *)
THEOREM BlocksAreExclusive ==
  ASSUME ExtensionLeavesAChunk
  PROVE  Spec => []BlocksBelongToClient
BY InvHolds, InvBlocksBelongToClient, PTL

(* No call writes into the last word of a payload, which is previous_size  *)
(* of the chunk above it: not malloc, free or realloc of another block,    *)
(* and not realloc when it cuts, grows or moves this one.                  *)
THEOREM LastWordStaysClients ==
  ASSUME ExtensionLeavesAChunk
  PROVE  Spec => []LastWordIsClients
BY InvHolds, InvLastWordIsClients, PTL

(* Every cut leaves a chunk that can be linked into a bin (the assertion   *)
(* of allocator.c:483), which without the assumption is false.             *)
THEOREM CutsAlwaysLeaveAChunk ==
  ASSUME ExtensionLeavesAChunk
  PROVE  Spec => []CutsLeaveAChunk
<1>1. Inv => CutsLeaveAChunk
  BY InvFacts DEF CutsLeaveAChunk
<1> QED
  BY <1>1, InvHolds, PTL
=============================================================================
