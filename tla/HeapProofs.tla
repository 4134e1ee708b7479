----------------------------- MODULE HeapProofs -----------------------------
(***************************************************************************)
(* Cutting, combining, resizing and marking chunks keep a heap a heap.     *)
(* All of them replace the chunks of one region of the heap, which begins  *)
(* at the chunk c and ends below the address e, by one or two new chunks,  *)
(* and rewrite the tags of e: the lemma Retile covers them all.            *)
(***************************************************************************)
EXTENDS BoundaryTags, TLAPS

(* The chunks of h below the address c and from the address e on.          *)
Outside(h, c, e) == {x \in DOMAIN h : x < c \/ x >= e}

(* g differs from h only in the region from c to e and in the tags of e.   *)
SameOutside(h, g, c, e) ==
  \A x \in DOMAIN h : x < c \/ x >= e =>
    /\ x \in DOMAIN g /\ g[x].size = h[x].size /\ (g[x].cur <=> h[x].cur)
    /\ x # e => (g[x].prev <=> h[x].prev) /\ g[x].prevSize = h[x].prevSize

(* The chunks new tile the region, and their tags and those of e agree.    *)
RegionOf(h, g, c, e, new) ==
  /\ c \in new /\ new \subseteq c .. e - 1
  /\ DOMAIN g = Outside(h, c, e) \cup new
  /\ g \in [DOMAIN g -> Header]
  /\ \A x \in new : g[x].size >= SMALLEST_MALLOC /\ NEXT_HEAP_CHUNK(g, x) \in new \cup {e}
  /\ \A x, y \in new : x < y => NEXT_HEAP_CHUNK(g, x) <= y
  /\ (g[c].prev <=> h[c].prev) /\ g[c].prevSize = h[c].prevSize
  /\ \A x \in new : g[x].cur => g[NEXT_HEAP_CHUNK(g, x)].prev
  /\ \A x \in new : g[x].cur => g[NEXT_HEAP_CHUNK(g, x)].prevSize = CLOBBERED
  /\ \A y \in (new \ {c}) \cup {e} : y \in DOMAIN g /\ ~ g[y].prev => LeadsToFree(g, y)

(* In g the region holds the chunks of new, and nothing else has changed.  *)
Replaces(h, g, c, e, new) == SameOutside(h, g, c, e) /\ RegionOf(h, g, c, e, new)

(* The region lies below the end of heap, or it reaches to its top.        *)
EndMoves(h, g, c, e, new, end, top) ==
  \/ e \in DOMAIN h /\ e <= end /\ top = end
  \/ /\ c <= end /\ \A x \in DOMAIN h : x < e
     /\ top \in new /\ NEXT_HEAP_CHUNK(g, top) = e /\ ~ g[top].cur

(* Replacing the chunks of a region by others that tile it, with tags that *)
(* agree at both borders, keeps the heap a heap.                           *)
LEMMA Retile ==
  ASSUME NEW h, NEW g, NEW end, NEW top, NEW c \in DOMAIN h, NEW e \in Nat, NEW new,
         HeapInv(h, end), SameOutside(h, g, c, e), RegionOf(h, g, c, e, new),
         EndMoves(h, g, c, e, new, end, top)
  PROVE  HeapInv(g, top)
<1> USE DEF CHUNK_SIZE, NEXT_HEAP_CHUNK, PREVIOUS_HEAP_CHUNK, Outside, IS_CURRENT_FREE,
            IS_CURRENT_INUSE, IS_PREVIOUS_FREE, IS_PREVIOUS_INUSE, SMALLEST_MALLOC,
            HEAP_LO, NULL
<1>1. /\ h \in [DOMAIN h -> Header] /\ DOMAIN h \subseteq Nat \ {0}
      /\ \A x \in DOMAIN h : h[x].size \in Nat /\ h[x].prevSize \in Nat
  BY DEF HeapInv, HeapTyped, Header
<1>2. \A x \in DOMAIN g : g[x].size \in Nat /\ g[x].prevSize \in Nat
  BY DEF RegionOf, Header
<1>3. c \in Nat /\ c < e /\ new \subseteq Nat /\ DOMAIN g \subseteq Nat \ {0}
  BY <1>1 DEF RegionOf
<1>4. HeapTyped(g, top)
  <2>1. HEAP_LO \in DOMAIN g
    BY <1>1, <1>3 DEF HeapInv, HeapTyped, RegionOf
  <2>2. top \in DOMAIN g /\ ~ g[top].cur
    BY <1>1, <1>3 DEF HeapInv, HeapTyped, EndMoves, RegionOf, SameOutside
  <2>3. \A x \in DOMAIN g : g[x].size >= 3
    BY <1>1, <1>3 DEF HeapInv, HeapTyped, RegionOf, SameOutside
  <2> QED
    BY <1>3, <2>1, <2>2, <2>3 DEF HeapTyped, RegionOf
<1>5. Tiled(g, top)
  <2>1. ASSUME NEW x \in DOMAIN g, x # top
        PROVE  x + g[x].size + 1 \in DOMAIN g
    <3>1. CASE x < c
      <4>1. x \in DOMAIN h /\ g[x].size = h[x].size /\ x # end
        BY <3>1, <1>1, <1>3 DEF HeapInv, HeapTyped, EndMoves, RegionOf, SameOutside
      <4> DEFINE y == x + h[x].size + 1
      <4>2. y \in DOMAIN h /\ y <= c
        BY <4>1, <3>1 DEF HeapInv, Tiled
      <4>3. y \in DOMAIN g
        <5>1. DOMAIN g = Outside(h, c, e) \cup new /\ c \in new
          BY DEF RegionOf
        <5> HIDE DEF y
        <5> QED
          BY <4>2, <5>1, <1>1, <1>3
      <4> QED
        BY <4>1, <4>3
    <3>2. CASE x \in new
      BY <3>2, <2>1, <1>2, <1>3 DEF EndMoves, RegionOf
    <3>3. CASE x \in DOMAIN h /\ x >= e
      BY <3>3, <2>1, <1>1, <1>3 DEF HeapInv, HeapTyped, Tiled, EndMoves, RegionOf, SameOutside
    <3> QED
      BY <3>1, <3>2, <3>3 DEF RegionOf
  <2>2. ASSUME NEW x \in DOMAIN g, NEW y \in DOMAIN g, x < y
        PROVE  x + g[x].size + 1 <= y
    <3>1. CASE x \in new
      BY <3>1, <2>2, <1>2, <1>3 DEF RegionOf
    <3>2. CASE x \notin new /\ y \notin new
      BY <3>2, <2>2, <1>1, <1>3 DEF HeapInv, Tiled, RegionOf, SameOutside
    <3>3. CASE x \notin new /\ y \in new
      BY <3>3, <2>2, <1>1, <1>3 DEF HeapInv, Tiled, RegionOf, SameOutside
    <3> QED
      BY <3>1, <3>2, <3>3
  <2>3. ASSUME NEW x \in DOMAIN g
        PROVE  x <= top
    <3>1. CASE e \in DOMAIN h
      <4>1. e <= end /\ top = end /\ end \in Nat
        BY <3>1, <1>1 DEF HeapInv, HeapTyped, EndMoves
      <4>2. CASE x \in new
        BY <4>1, <4>2, <1>3 DEF RegionOf
      <4>3. CASE x \in DOMAIN h
        BY <4>1, <4>3 DEF HeapInv, Tiled
      <4> QED
        BY <4>2, <4>3 DEF RegionOf
    <3>2. CASE e \notin DOMAIN h
      <4>1. top \in new /\ top + g[top].size + 1 = e /\ x < e
        BY <3>2, <1>1, <1>3 DEF EndMoves, RegionOf
      <4>2. top \in DOMAIN g
        BY <4>1 DEF RegionOf
      <4> QED
        BY <4>1, <4>2, <2>2, <1>2, <1>3
    <3> QED
      BY <3>1, <3>2
  <2> QED
    BY <2>1, <2>2, <2>3 DEF Tiled
<1>6. Tagged(g)
  <2>1. ASSUME NEW x \in DOMAIN g, g[x].cur
        PROVE  g[x + g[x].size + 1].prev /\ g[x + g[x].size + 1].prevSize = CLOBBERED
    <3>1. CASE x \in new
      BY <3>1, <2>1 DEF RegionOf
    <3>2. CASE x \notin new
      <4>1. x \in DOMAIN h /\ h[x].cur /\ g[x].size = h[x].size /\ (x < c \/ x >= e)
        BY <3>2, <2>1 DEF RegionOf, SameOutside
      <4> DEFINE y == x + h[x].size + 1
      <4>2. y \in DOMAIN h /\ h[y].prev /\ h[y].prevSize = CLOBBERED
        BY <4>1 DEF HeapInv, HeapTyped, Tiled, Tagged
      <4>3. y <= c \/ y > e
        BY <4>1, <4>2, <1>1, <1>3 DEF HeapInv, Tiled
      <4> HIDE DEF y
      <4>4. CASE y = c
        BY <4>4, <4>1, <4>2 DEF RegionOf, y
      <4>5. CASE y < c \/ y > e
        <5>1. (g[y].prev <=> h[y].prev) /\ g[y].prevSize = h[y].prevSize
          BY <4>5, <4>2, <1>1, <1>3 DEF SameOutside
        <5> QED
          BY <5>1, <4>1, <4>2 DEF y
      <4> QED
        BY <4>2, <4>3, <4>4, <4>5, <1>1
    <3> QED
      BY <3>1, <3>2
  <2>2. ASSUME NEW y \in DOMAIN g, ~ g[y].prev
        PROVE  LeadsToFree(g, y)
    <3>1. CASE y \in (new \ {c}) \cup {e}
      BY <3>1, <2>2 DEF RegionOf
    <3>2. CASE y \notin (new \ {c}) \cup {e}
      <4>1. y \in DOMAIN h /\ ~ h[y].prev /\ g[y].prevSize = h[y].prevSize
                /\ (y <= c \/ y > e)
        BY <3>2, <2>2, <1>1, <1>3 DEF RegionOf, SameOutside
      <4> DEFINE b == y - h[y].prevSize - 1
      <4>2. b \in DOMAIN h /\ ~ h[b].cur /\ b + h[b].size + 1 = y
        BY <4>1, <2>2 DEF HeapInv, Tagged, LeadsToFree
      <4>3. b < c \/ b >= e
        BY <4>1, <4>2, <1>1, <1>3 DEF HeapInv, Tiled, EndMoves
      <4>4. b \in DOMAIN g /\ ~ g[b].cur /\ g[b].size = h[b].size
        BY <4>2, <4>3 DEF SameOutside
      <4> QED
        BY <4>1, <4>2, <4>4 DEF LeadsToFree
    <3> QED
      BY <3>1, <3>2
  <2> QED
    BY <2>1, <2>2 DEF Tagged
<1> QED
  BY <1>4, <1>5, <1>6 DEF HeapInv

-----------------------------------------------------------------------------
(* What the operators of BoundaryTags leave behind, field by field.        *)

(* A chunk is cut in two free ones; e is the address above them.           *)
SplitInTwo(h, g, c, rest, e, request) ==
  /\ rest \in Nat /\ e \in Nat /\ c < rest /\ rest < e /\ rest \notin DOMAIN h
  /\ DOMAIN g = DOMAIN h \cup {rest} /\ g \in [DOMAIN g -> Header]
  /\ g[c].size = request /\ ~ g[c].cur
  /\ (g[c].prev <=> h[c].prev) /\ g[c].prevSize = h[c].prevSize
  /\ g[rest].size = e - rest - 1 /\ ~ g[rest].cur
  /\ ~ g[rest].prev /\ g[rest].prevSize = request
  /\ e \in DOMAIN h =>
       /\ g[e].size = h[e].size /\ (g[e].cur <=> h[e].cur)
       /\ (g[e].prev <=> h[e].prev) /\ g[e].prevSize = e - rest - 1
  /\ \A x \in DOMAIN h \ {c, e} : g[x] = h[x]

(* What split_chunk writes, field by field.                                *)
LEMMA SplitFields ==
  ASSUME NEW h, NEW end, HeapInv(h, end), NEW c \in DOMAIN h, NEW request \in Nat,
         CAN_SPLIT_CHUNK(h, c, request),
         NEW g, g = split_chunk(h, c, request),
         NEW rest, rest = Remainder(c, request), NEW e, e = NEXT_HEAP_CHUNK(h, c)
  PROVE  SplitInTwo(h, g, c, rest, e, request)
<1>1. /\ h \in [DOMAIN h -> Header] /\ DOMAIN h \subseteq Nat /\ h[c].size \in Nat
      /\ c \in Nat /\ h[c].size >= request + 4 /\ e = c + h[c].size + 1
      /\ rest = c + request + 1
  BY DEF HeapInv, HeapTyped, Header, CAN_SPLIT_CHUNK, CHUNK_SIZE, SMALLEST_CHUNK,
         SMALLEST_MALLOC, NEXT_HEAP_CHUNK, Remainder
<1>2. rest \notin DOMAIN h
  BY <1>1 DEF HeapInv, Tiled, NEXT_HEAP_CHUNK
<1> DEFINE leftover == h[c].size - request - 1
           cut == [h EXCEPT ![c].size = request, ![c].cur = FALSE]
           header == [size |-> leftover, cur |-> FALSE, prev |-> FALSE, prevSize |-> request]
           w == WriteHeader(cut, rest, header)
<1>3. leftover \in Nat /\ e = rest + leftover + 1 /\ g = SetPreviousSize(w, e, leftover)
  BY <1>1 DEF split_chunk, CHUNK_SIZE
<1>4. /\ DOMAIN cut = DOMAIN h /\ cut \in [DOMAIN h -> Header]
      /\ cut[c].size = request /\ ~ cut[c].cur /\ cut[c].prev = h[c].prev
      /\ cut[c].prevSize = h[c].prevSize /\ \A x \in DOMAIN h \ {c} : cut[x] = h[x]
  BY <1>1 DEF Header
<1>5. header \in Header
  BY <1>3 DEF Header
<1> HIDE DEF cut, header, leftover
<1>6. /\ DOMAIN w = DOMAIN h \cup {rest} /\ w \in [DOMAIN w -> Header]
      /\ w[rest] = header /\ \A x \in DOMAIN h : w[x] = cut[x]
  BY <1>2, <1>4, <1>5 DEF WriteHeader
<1> HIDE DEF w
<1>7. CASE e \in DOMAIN h
  <2>1. g = [w EXCEPT ![e].prevSize = leftover]
    BY <1>3, <1>6, <1>7 DEF SetPreviousSize
  <2>2. /\ DOMAIN g = DOMAIN w /\ g \in [DOMAIN w -> Header]
        /\ g[e].prevSize = leftover /\ g[e].prev = w[e].prev /\ g[e].size = w[e].size
        /\ g[e].cur = w[e].cur /\ \A x \in DOMAIN w \ {e} : g[x] = w[x]
    BY <2>1, <1>3, <1>6, <1>7 DEF Header
  <2> QED
    BY <2>2, <1>1, <1>2, <1>3, <1>4, <1>6, <1>7 DEF header, SplitInTwo
<1>8. CASE e \notin DOMAIN h
  <2>1. g = w
    BY <1>1, <1>3, <1>6, <1>8 DEF SetPreviousSize
  <2> QED
    BY <2>1, <1>1, <1>2, <1>3, <1>4, <1>6, <1>8 DEF header, SplitInTwo
<1> QED
  BY <1>7, <1>8

-----------------------------------------------------------------------------
(* The same operators keep a heap a heap.                                  *)

(* A free chunk is cut: the rest may be the new end of heap.               *)
LEMMA SplitKeepsHeap ==
  ASSUME NEW h, NEW end, HeapInv(h, end), NEW c \in DOMAIN h, NEW request \in Nat,
         request >= SMALLEST_MALLOC, CAN_SPLIT_CHUNK(h, c, request), ~ h[c].cur,
         NEW g, g = split_chunk(h, c, request),
         NEW rest, rest = Remainder(c, request), NEW e, e = NEXT_HEAP_CHUNK(h, c)
  PROVE  /\ HeapInv(g, IF c = end THEN rest ELSE end)
         /\ SameOutside(h, g, c, e) /\ RegionOf(h, g, c, e, {c, rest})
<1>1. /\ h \in [DOMAIN h -> Header] /\ DOMAIN h \subseteq Nat /\ h[c].size \in Nat
      /\ c \in Nat /\ h[c].size >= request + 4 /\ e = c + h[c].size + 1
      /\ rest = c + request + 1
  BY DEF HeapInv, HeapTyped, Header, CAN_SPLIT_CHUNK, CHUNK_SIZE, SMALLEST_CHUNK,
         SMALLEST_MALLOC, NEXT_HEAP_CHUNK, Remainder
<1>2. SplitInTwo(h, g, c, rest, e, request)
  BY SplitFields
<1> USE DEF SplitInTwo
<1>3. \A x \in DOMAIN h : x <= c \/ x >= e
  BY <1>1 DEF HeapInv, Tiled, NEXT_HEAP_CHUNK
<1>4. SameOutside(h, g, c, e)
  BY <1>1, <1>2 DEF SameOutside
<1> DEFINE new == {c, rest}
           top == IF c = end THEN rest ELSE end
<1>5. NEXT_HEAP_CHUNK(g, c) = rest /\ NEXT_HEAP_CHUNK(g, rest) = e
  BY <1>1, <1>2 DEF NEXT_HEAP_CHUNK
<1>6. LeadsToFree(g, rest)
  BY <1>1, <1>2, <1>5 DEF LeadsToFree, PREVIOUS_HEAP_CHUNK, IS_CURRENT_FREE
<1>7. e \in DOMAIN h => LeadsToFree(g, e)
  BY <1>1, <1>2, <1>5 DEF LeadsToFree, PREVIOUS_HEAP_CHUNK, IS_CURRENT_FREE
<1>8. RegionOf(h, g, c, e, new)
  BY <1>1, <1>2, <1>3, <1>5, <1>6, <1>7 DEF RegionOf, SMALLEST_MALLOC, Outside
<1>9. EndMoves(h, g, c, e, new, end, top)
  <2>1. CASE c = end
    <3>1. \A x \in DOMAIN h : x < e
      BY <2>1, <1>1, <1>3 DEF HeapInv, HeapTyped, Tiled, NEXT_HEAP_CHUNK, CHUNK_SIZE, SMALLEST_MALLOC
    <3> QED
      BY <2>1, <3>1, <1>1, <1>2, <1>5 DEF EndMoves
  <2>2. CASE c # end
    BY <2>2, <1>1, <1>3 DEF EndMoves, HeapInv, HeapTyped, Tiled, NEXT_HEAP_CHUNK
  <2> QED
    BY <2>1, <2>2
<1> HIDE DEF new
<1>10. HeapInv(g, top)
  BY <1>2, <1>4, <1>8, <1>9, Retile
<1> QED
  BY <1>4, <1>8, <1>10 DEF new

(* What the heap's invariant says of one of its chunks.                    *)
LEMMA ChunkFacts ==
  ASSUME NEW h, NEW end, HeapInv(h, end), NEW c \in DOMAIN h
  PROVE  /\ h \in [DOMAIN h -> Header] /\ DOMAIN h \subseteq Nat \ {0}
         /\ c \in Nat /\ end \in Nat /\ c <= end
         /\ h[c] \in Header /\ h[c].size \in Nat /\ h[c].size >= 3
         /\ h[c].prevSize \in Nat
         /\ NEXT_HEAP_CHUNK(h, c) = c + h[c].size + 1
         /\ NEXT_HEAP_CHUNK(h, c) \in Nat /\ c < NEXT_HEAP_CHUNK(h, c)
         /\ c # end => NEXT_HEAP_CHUNK(h, c) \in DOMAIN h
         /\ \A x \in DOMAIN h : x <= c \/ x >= NEXT_HEAP_CHUNK(h, c)
         /\ h[c].cur => c # end /\ h[NEXT_HEAP_CHUNK(h, c)].prev
BY DEF HeapInv, HeapTyped, Tiled, Tagged, Header, CHUNK_SIZE, NEXT_HEAP_CHUNK, NULL,
       SMALLEST_MALLOC, IS_CURRENT_FREE, IS_CURRENT_INUSE, IS_PREVIOUS_INUSE

(* A region that is one chunk already.                                     *)
LEMMA OneChunkRegion ==
  ASSUME NEW h, DOMAIN h \subseteq Nat, NEW c \in DOMAIN h, NEW e \in Nat,
         \A x \in DOMAIN h : x <= c \/ x >= e
  PROVE  DOMAIN h = Outside(h, c, e) \cup {c}
<1>1. \A x \in DOMAIN h : x < c \/ x >= e \/ x = c
  OBVIOUS
<1> QED
  BY <1>1 DEF Outside

(* A region that becomes one chunk.                                        *)
LEMMA OneChunk ==
  ASSUME NEW h, NEW g, NEW c \in Nat, NEW e \in Nat, c < e,
         DOMAIN g = Outside(h, c, e) \cup {c},
         g \in [DOMAIN g -> Header],
         g[c].size >= 3, NEXT_HEAP_CHUNK(g, c) = e,
         g[c].prev <=> h[c].prev, g[c].prevSize = h[c].prevSize,
         g[c].cur => g[e].prev, g[c].cur => g[e].prevSize = CLOBBERED,
         e \in DOMAIN g /\ ~ g[e].prev => LeadsToFree(g, e)
  PROVE  RegionOf(h, g, c, e, {c})
<1>1. c \in c .. e - 1
  OBVIOUS
<1>2. \A x, y \in {c} : ~ (x < y)
  OBVIOUS
<1> QED
  BY <1>1, <1>2, Zenon DEF RegionOf, SMALLEST_MALLOC

Grown(h, end, incr) == [h EXCEPT ![end].size = @ + incr]

(* The end of heap is extended upwards.                                    *)
LEMMA GrowKeepsHeap ==
  ASSUME NEW h, NEW end, HeapInv(h, end), NEW incr \in Nat,
         NEW g, g = Grown(h, end, incr)
  PROVE  /\ HeapInv(g, end) /\ DOMAIN g = DOMAIN h
         /\ g[end].size = h[end].size + incr
         /\ \A x \in DOMAIN h : /\ (g[x].cur <=> h[x].cur) /\ (g[x].prev <=> h[x].prev)
                                /\ x # end => g[x].size = h[x].size
<1>1. end \in DOMAIN h /\ ~ h[end].cur
  BY DEF HeapInv, HeapTyped, IS_CURRENT_FREE
<1> DEFINE e == end + h[end].size + incr + 1
<1>2. /\ h \in [DOMAIN h -> Header] /\ end \in Nat /\ h[end].size \in Nat /\ h[end].size >= 3
      /\ e \in Nat /\ \A x \in DOMAIN h : x \in Nat /\ x <= end /\ x < e
  BY <1>1, ChunkFacts
<1>3. /\ DOMAIN g = DOMAIN h /\ g \in [DOMAIN g -> Header]
      /\ g[end].size = h[end].size + incr
      /\ \A x \in DOMAIN h : /\ (g[x].cur <=> h[x].cur) /\ (g[x].prev <=> h[x].prev)
                             /\ g[x].prevSize = h[x].prevSize
                             /\ (x # end => g[x].size = h[x].size)
  BY <1>1, <1>2 DEF Header, Grown
<1> HIDE DEF e
<1>4. SameOutside(h, g, end, e)
  BY <1>1, <1>2, <1>3 DEF SameOutside
<1>5. NEXT_HEAP_CHUNK(g, end) = e
  BY <1>2, <1>3 DEF NEXT_HEAP_CHUNK, e
<1>6. RegionOf(h, g, end, e, {end})
  <2>1. DOMAIN g = Outside(h, end, e) \cup {end}
    <3>1. DOMAIN h = Outside(h, end, e) \cup {end}
      BY <1>1, <1>2, OneChunkRegion
    <3> QED
      BY <3>1, <1>3
  <2>2. e \notin DOMAIN g /\ end < e
    BY <1>1, <1>2, <1>3
  <2>3. g[end].size >= 3
    <3>1. g[end].size = h[end].size + incr
      BY <1>3
    <3> QED
      BY <3>1, <1>2
  <2>4. ~ g[end].cur /\ (g[end].prev <=> h[end].prev) /\ g[end].prevSize = h[end].prevSize
    BY <1>1, <1>3, Zenon
  <2> QED
    BY <2>1, <2>2, <2>3, <2>4, <1>2, <1>3, <1>5, OneChunk
<1>7. EndMoves(h, g, end, e, {end}, end, end)
  BY <1>1, <1>2, <1>3, <1>5 DEF EndMoves
<1> QED
  BY <1>1, <1>2, <1>3, <1>4, <1>6, <1>7, Retile

(* A free chunk is handed out.                                             *)
LEMMA MarkUsedReplaces ==
  ASSUME NEW h, NEW end, HeapInv(h, end), NEW c \in DOMAIN h, c # end, ~ h[c].cur,
         NEW g, g = mark_used(h, c)
  PROVE  /\ HeapInv(g, end) /\ DOMAIN g = DOMAIN h /\ g[c].cur
         /\ \A x \in DOMAIN h : g[x].size = h[x].size /\ (x # c => (g[x].cur <=> h[x].cur))
         /\ Replaces(h, g, c, NEXT_HEAP_CHUNK(h, c), {c})
<1> DEFINE e == NEXT_HEAP_CHUNK(h, c)
<1>1. /\ h \in [DOMAIN h -> Header] /\ c \in Nat /\ e \in DOMAIN h /\ e \in Nat /\ c < e
      /\ e <= end /\ DOMAIN h \subseteq Nat /\ h[c].size >= 3 /\ h[c].size \in Nat
      /\ e = c + h[c].size + 1 /\ \A x \in DOMAIN h : x <= c \/ x >= e
  BY ChunkFacts
<1>2. g = [h EXCEPT ![c].cur = TRUE, ![e].prev = TRUE, ![e].prevSize = CLOBBERED]
      /\ CLOBBERED \in Nat
  BY DEF mark_used, CLOBBERED
<1> HIDE DEF e
<1>3. /\ DOMAIN g = DOMAIN h /\ g \in [DOMAIN g -> Header] /\ g[c].cur /\ g[e].prev
      /\ g[e].prevSize = CLOBBERED
      /\ g[c].size = h[c].size /\ (g[c].prev <=> h[c].prev) /\ g[c].prevSize = h[c].prevSize
      /\ g[e].size = h[e].size /\ (g[e].cur <=> h[e].cur)
      /\ \A x \in DOMAIN h \ {c, e} : g[x] = h[x]
  <2>1. c # e
    BY <1>1
  <2>2. h[c] \in Header /\ h[e] \in Header
    BY <1>1
  <2>3. DOMAIN g = DOMAIN h /\ \A x \in DOMAIN h \ {c, e} : g[x] = h[x]
    BY <1>1, <1>2
  <2>4. g[c] = [h[c] EXCEPT !.cur = TRUE] /\ g[e] = [h[e] EXCEPT !.prev = TRUE, !.prevSize = CLOBBERED]
    BY <2>1, <1>1, <1>2
  <2>5. g[c] \in Header
    BY <2>2, <2>4 DEF Header
  <2>6. g[e] \in Header
    BY <2>2, <2>4, <1>2 DEF Header
  <2>7. g \in [DOMAIN g -> Header]
    BY <2>3, <2>5, <2>6, <1>1, <1>2
  <2> QED
    BY <2>2, <2>3, <2>4, <2>7 DEF Header
<1>4. SameOutside(h, g, c, e)
  BY <1>1, <1>3 DEF SameOutside
<1>5. NEXT_HEAP_CHUNK(g, c) = e
  BY <1>1, <1>3 DEF NEXT_HEAP_CHUNK
<1>6. RegionOf(h, g, c, e, {c})
  <2>1. DOMAIN h = Outside(h, c, e) \cup {c}
    BY <1>1, OneChunkRegion
  <2>2. DOMAIN g = Outside(h, c, e) \cup {c}
    BY <2>1, <1>3
  <2>3. /\ g \in [DOMAIN g -> Header] /\ g[c].size >= 3 /\ (g[c].prev <=> h[c].prev)
        /\ g[c].prevSize = h[c].prevSize
    BY <1>1, <1>3
  <2>4. (g[c].cur => g[e].prev) /\ (g[c].cur => g[e].prevSize = CLOBBERED)
    BY <1>3
  <2>5. ~ (e \in DOMAIN g /\ ~ g[e].prev)
    BY <1>3
  <2>6. c \in Nat /\ e \in Nat /\ c < e
    BY <1>1
  <2> QED
    BY <2>2, <2>3, <2>4, <2>5, <2>6, <1>5, OneChunk
<1>7. EndMoves(h, g, c, e, {c}, end, end)
  BY <1>1 DEF EndMoves
<1>8. HeapInv(g, end)
  BY <1>1, <1>4, <1>6, <1>7, Retile
<1> QED
  BY <1>1, <1>3, <1>4, <1>6, <1>8 DEF Replaces, e

(* The heap stays one.                                                    *)
LEMMA MarkUsedKeepsHeap ==
  ASSUME NEW h, NEW end, HeapInv(h, end), NEW c \in DOMAIN h, c # end, ~ h[c].cur,
         NEW g, g = mark_used(h, c)
  PROVE  /\ HeapInv(g, end) /\ DOMAIN g = DOMAIN h /\ g[c].cur
         /\ \A x \in DOMAIN h : g[x].size = h[x].size /\ (x # c => (g[x].cur <=> h[x].cur))
<1>1. Replaces(h, g, c, NEXT_HEAP_CHUNK(h, c), {c})
  BY MarkUsedReplaces
<1> QED
  BY <1>1, MarkUsedReplaces

(* A chunk in use is given back.                                           *)
LEMMA MarkFreeReplaces ==
  ASSUME NEW h, NEW end, HeapInv(h, end), NEW c \in DOMAIN h, h[c].cur,
         NEW g, g = mark_free(h, c)
  PROVE  /\ HeapInv(g, end) /\ DOMAIN g = DOMAIN h /\ ~ g[c].cur
         /\ \A x \in DOMAIN h : g[x].size = h[x].size /\ (x # c => (g[x].cur <=> h[x].cur))
         /\ Replaces(h, g, c, NEXT_HEAP_CHUNK(h, c), {c})
         /\ ~ g[NEXT_HEAP_CHUNK(h, c)].prev
<1> DEFINE e == NEXT_HEAP_CHUNK(h, c)
<1>1. /\ h \in [DOMAIN h -> Header] /\ c \in Nat /\ e \in DOMAIN h /\ e \in Nat /\ c < e
      /\ e <= end /\ DOMAIN h \subseteq Nat /\ h[c].size >= 3 /\ h[c].size \in Nat
      /\ e = c + h[c].size + 1 /\ \A x \in DOMAIN h : x <= c \/ x >= e
  BY ChunkFacts
<1>2. g = [h EXCEPT ![c].cur = FALSE, ![e].prev = FALSE, ![e].prevSize = h[c].size]
  BY DEF mark_free, CHUNK_SIZE
<1> HIDE DEF e
<1>3. /\ DOMAIN g = DOMAIN h /\ g \in [DOMAIN g -> Header] /\ ~ g[c].cur
      /\ g[e].prevSize = h[c].size /\ ~ g[e].prev
      /\ g[c].size = h[c].size /\ (g[c].prev <=> h[c].prev) /\ g[c].prevSize = h[c].prevSize
      /\ g[e].size = h[e].size /\ (g[e].cur <=> h[e].cur)
      /\ \A x \in DOMAIN h \ {c, e} : g[x] = h[x]
  <2>1. c # e
    BY <1>1
  <2>2. h[c] \in Header /\ h[e] \in Header
    BY <1>1
  <2>3. DOMAIN g = DOMAIN h /\ \A x \in DOMAIN h \ {c, e} : g[x] = h[x]
    BY <1>1, <1>2
  <2>4. g[c] = [h[c] EXCEPT !.cur = FALSE] /\ g[e] = [h[e] EXCEPT !.prev = FALSE, !.prevSize = h[c].size]
    BY <2>1, <1>1, <1>2
  <2>5. g[c] \in Header /\ g[e] \in Header
    BY <2>2, <2>4, <1>1 DEF Header
  <2>6. g \in [DOMAIN g -> Header]
    BY <2>3, <2>5, <1>1, <1>2
  <2> QED
    BY <2>2, <2>3, <2>4, <2>6 DEF Header
<1>4. SameOutside(h, g, c, e)
  BY <1>1, <1>3 DEF SameOutside
<1>5. NEXT_HEAP_CHUNK(g, c) = e
  BY <1>1, <1>3 DEF NEXT_HEAP_CHUNK
<1>6. LeadsToFree(g, e)
  BY <1>1, <1>3, <1>5 DEF LeadsToFree, PREVIOUS_HEAP_CHUNK, IS_CURRENT_FREE
<1>7. RegionOf(h, g, c, e, {c})
  <2>1. DOMAIN h = Outside(h, c, e) \cup {c}
    BY <1>1, OneChunkRegion
  <2> QED
    BY <2>1, <1>1, <1>3, <1>5, <1>6, OneChunk
<1>8. EndMoves(h, g, c, e, {c}, end, end)
  BY <1>1 DEF EndMoves
<1>9. HeapInv(g, end)
  BY <1>1, <1>4, <1>7, <1>8, Retile
<1> QED
  BY <1>1, <1>3, <1>4, <1>7, <1>9 DEF Replaces, e

(* The heap stays one.                                                    *)
LEMMA MarkFreeKeepsHeap ==
  ASSUME NEW h, NEW end, HeapInv(h, end), NEW c \in DOMAIN h, h[c].cur,
         NEW g, g = mark_free(h, c)
  PROVE  /\ HeapInv(g, end) /\ DOMAIN g = DOMAIN h /\ ~ g[c].cur
         /\ \A x \in DOMAIN h : g[x].size = h[x].size /\ (x # c => (g[x].cur <=> h[x].cur))
<1>1. Replaces(h, g, c, NEXT_HEAP_CHUNK(h, c), {c})
  BY MarkFreeReplaces
<1> QED
  BY <1>1, MarkFreeReplaces

(* In g, left has taken in right.                                           *)
IsCombined(h, g, end, left, right) ==
  /\ HeapInv(g, IF right = end THEN left ELSE end)
  /\ DOMAIN g = DOMAIN h \ {right} /\ ~ g[left].cur
  /\ g[left].size = h[left].size + h[right].size + 1
  /\ \A x \in DOMAIN g : (g[x].cur <=> h[x].cur) /\ (x # left => g[x].size = h[x].size)
  /\ Replaces(h, g, left, NEXT_HEAP_CHUNK(h, right), {left})
  /\ NEXT_HEAP_CHUNK(g, left) = NEXT_HEAP_CHUNK(h, right)
  /\ \A x \in DOMAIN g : g[x].prev <=> h[x].prev

(* Two free neighbours become one, which may be the end of heap.           *)
LEMMA CombineReplaces ==
  ASSUME NEW h, NEW end, HeapInv(h, end), NEW left \in DOMAIN h, NEW right \in DOMAIN h,
         ~ h[left].cur, ~ h[right].cur, right = NEXT_HEAP_CHUNK(h, left),
         NEW g, g = combine(h, left, right)
  PROVE  IsCombined(h, g, end, left, right)
<1> DEFINE e == NEXT_HEAP_CHUNK(h, right)
           combined == COMBINED_SIZES(h, left, right)
           tagged == SetPreviousSize(h, e, combined)
<1>1. /\ h \in [DOMAIN h -> Header] /\ DOMAIN h \subseteq Nat /\ left \in Nat /\ right \in Nat
      /\ h[left].size \in Nat /\ h[right].size \in Nat /\ h[left].size >= 3
      /\ right = left + h[left].size + 1 /\ e = right + h[right].size + 1 /\ e \in Nat
      /\ combined = h[left].size + h[right].size + 1 /\ left # end
      /\ \A x \in DOMAIN h : (x <= left \/ x >= right) /\ (x <= right \/ x >= e)
      /\ right # end => e \in DOMAIN h /\ e <= end
      /\ right = end => \A x \in DOMAIN h : x < e
  <2>1. \A x \in DOMAIN h : x \in Nat /\ x <= end
    BY ChunkFacts
  <2>2. left # end
    BY <2>1, ChunkFacts
  <2> QED
    BY <2>1, <2>2, ChunkFacts DEF COMBINED_SIZES, CHUNK_SIZE
<1>2. combined \in Nat /\ left < right /\ right < e /\ e = left + combined + 1
  BY <1>1
<1> HIDE DEF e, combined
<1>3. /\ DOMAIN tagged = DOMAIN h /\ tagged \in [DOMAIN h -> Header]
      /\ \A x \in DOMAIN h \ {e} : tagged[x] = h[x]
      /\ e \in DOMAIN h =>
           /\ tagged[e].prevSize = combined /\ tagged[e].size = h[e].size
           /\ (tagged[e].cur <=> h[e].cur) /\ (tagged[e].prev <=> h[e].prev)
  BY <1>1, <1>2 DEF SetPreviousSize, Header
<1> HIDE DEF tagged
<1>4. /\ g = [x \in DOMAIN h \ {right} |->
               [tagged EXCEPT ![left].size = combined, ![left].cur = FALSE][x]]
  BY DEF combine, Restrict, tagged, combined, e
<1>5. /\ DOMAIN g = DOMAIN h \ {right} /\ g \in [DOMAIN g -> Header]
      /\ g[left].size = combined /\ ~ g[left].cur /\ (g[left].prev <=> h[left].prev)
      /\ g[left].prevSize = h[left].prevSize
      /\ \A x \in DOMAIN g \ {left} : g[x] = tagged[x]
  <2> DEFINE t == [tagged EXCEPT ![left].size = combined, ![left].cur = FALSE]
  <2>1. /\ t \in [DOMAIN h -> Header] /\ t[left].size = combined /\ ~ t[left].cur
        /\ (t[left].prev <=> tagged[left].prev) /\ t[left].prevSize = tagged[left].prevSize
        /\ \A x \in DOMAIN h \ {left} : t[x] = tagged[x]
    BY <1>2, <1>3 DEF Header
  <2>2. left # right /\ left # e /\ tagged[left] = h[left]
    BY <1>1, <1>2, <1>3
  <2> HIDE DEF t
  <2>3. g = [x \in DOMAIN h \ {right} |-> t[x]]
    BY <1>4 DEF t
  <2> QED
    BY <2>1, <2>2, <2>3
<1>6. SameOutside(h, g, left, e)
  BY <1>1, <1>2, <1>3, <1>5 DEF SameOutside
<1>7. NEXT_HEAP_CHUNK(g, left) = e
  BY <1>1, <1>2, <1>5 DEF NEXT_HEAP_CHUNK
<1>8. e \in DOMAIN g => LeadsToFree(g, e)
  <2>1. SUFFICES ASSUME e \in DOMAIN g
                 PROVE  LeadsToFree(g, e)
    OBVIOUS
  <2>2. g[e].prevSize = combined
    BY <2>1, <1>1, <1>2, <1>3, <1>5
  <2>3. e - combined - 1 = left
    BY <1>1, <1>2
  <2> QED
    BY <2>2, <2>3, <1>1, <1>2, <1>5, <1>7 DEF LeadsToFree, PREVIOUS_HEAP_CHUNK, IS_CURRENT_FREE
<1>9. RegionOf(h, g, left, e, {left})
  <2>1. DOMAIN g = Outside(h, left, e) \cup {left}
    <3>1. \A x \in DOMAIN h : x < left \/ x >= e \/ x = left \/ x = right
      BY <1>1, <1>2
    <3>2. ~ (right < left) /\ ~ (right >= e) /\ right # left
      BY <1>1, <1>2
    <3>3. DOMAIN g = DOMAIN h \ {right}
      BY <1>5
    <3> QED
      BY <3>1, <3>2, <3>3, Zenon DEF Outside
  <2>2. g[left].size >= 3
    BY <1>1, <1>2, <1>5
  <2> QED
    BY <2>1, <2>2, <1>1, <1>2, <1>5, <1>7, <1>8, OneChunk
<1>10. EndMoves(h, g, left, e, {left}, end, IF right = end THEN left ELSE end)
  BY <1>1, <1>2, <1>5, <1>7, ChunkFacts DEF EndMoves
<1>11. HeapInv(g, IF right = end THEN left ELSE end)
  BY <1>1, <1>6, <1>9, <1>10, Retile
<1>12. \A x \in DOMAIN g : (g[x].cur <=> h[x].cur) /\ (x # left => g[x].size = h[x].size)
  BY <1>1, <1>2, <1>5, <1>6 DEF SameOutside
<1>13. \A x \in DOMAIN g : g[x].prev <=> h[x].prev
  BY <1>1, <1>2, <1>3, <1>5
<1> QED
  BY <1>1, <1>5, <1>6, <1>7, <1>9, <1>11, <1>12, <1>13 DEF IsCombined, Replaces, e

(* The heap stays one.                                                    *)
LEMMA CombineKeepsHeap ==
  ASSUME NEW h, NEW end, HeapInv(h, end), NEW left \in DOMAIN h, NEW right \in DOMAIN h,
         ~ h[left].cur, ~ h[right].cur, right = NEXT_HEAP_CHUNK(h, left),
         NEW g, g = combine(h, left, right)
  PROVE  /\ HeapInv(g, IF right = end THEN left ELSE end)
         /\ DOMAIN g = DOMAIN h \ {right} /\ ~ g[left].cur
         /\ g[left].size = h[left].size + h[right].size + 1
         /\ \A x \in DOMAIN g : (g[x].cur <=> h[x].cur) /\ (x # left => g[x].size = h[x].size)
<1>1. IsCombined(h, g, end, left, right)
  BY CombineReplaces
<1> QED
  BY <1>1 DEF IsCombined

-----------------------------------------------------------------------------
(* Chunks that stay in use while they are cut, resized or extended.        *)

(* A chunk is cut in one in use and a free one below the address e.        *)
CutInUse(h, g, c, rest, e, request) ==
  /\ rest \in Nat /\ e \in Nat /\ c < rest /\ rest < e
  /\ DOMAIN g = DOMAIN h \cup {rest} /\ g \in [DOMAIN g -> Header]
  /\ g[c].size = request /\ g[c].cur
  /\ (g[c].prev <=> h[c].prev) /\ g[c].prevSize = h[c].prevSize
  /\ g[rest].size = e - rest - 1 /\ ~ g[rest].cur
  /\ g[rest].prev /\ g[rest].prevSize = CLOBBERED
  /\ e \in DOMAIN h =>
       /\ g[e].size = h[e].size /\ (g[e].cur <=> h[e].cur) /\ (g[e].prev <=> h[e].prev)
       /\ g[e].prevSize = e - rest - 1
  /\ \A x \in DOMAIN h \ {c, e} : g[x] = h[x]

(* What split_mallocd_chunk writes, field by field.                        *)
LEMMA CutInUseFields ==
  ASSUME NEW h, h \in [DOMAIN h -> Header], DOMAIN h \subseteq Nat,
         NEW c \in DOMAIN h, NEW request \in Nat, CAN_SPLIT_CHUNK(h, c, request),
         NEW g, g = split_mallocd_chunk(h, c, request),
         NEW rest, rest = Remainder(c, request), rest \notin DOMAIN h,
         NEW e, e = NEXT_HEAP_CHUNK(h, c)
  PROVE  CutInUse(h, g, c, rest, e, request)
<1>1. /\ h[c].size \in Nat /\ c \in Nat /\ h[c].size >= request + 4
      /\ e = c + h[c].size + 1 /\ rest = c + request + 1
  BY DEF Header, CAN_SPLIT_CHUNK, CHUNK_SIZE, SMALLEST_CHUNK, SMALLEST_MALLOC,
         NEXT_HEAP_CHUNK, Remainder
<1> DEFINE leftover == h[c].size - request - 1
           cut == [h EXCEPT ![c].size = request, ![c].cur = TRUE]
           header == [size |-> leftover, cur |-> FALSE, prev |-> TRUE, prevSize |-> CLOBBERED]
           w == WriteHeader(cut, rest, header)
<1>3. /\ leftover \in Nat /\ e = rest + leftover + 1 /\ g = SetPreviousSize(w, e, leftover)
      /\ CLOBBERED \in Nat
  BY <1>1 DEF split_mallocd_chunk, CHUNK_SIZE, CLOBBERED
<1>4. /\ DOMAIN cut = DOMAIN h /\ cut \in [DOMAIN h -> Header]
      /\ cut[c].size = request /\ cut[c].cur /\ cut[c].prev = h[c].prev
      /\ cut[c].prevSize = h[c].prevSize /\ \A x \in DOMAIN h \ {c} : cut[x] = h[x]
  BY <1>1 DEF Header
<1>5. header \in Header
  BY <1>3 DEF Header
<1> HIDE DEF cut, header, leftover
<1>6. /\ DOMAIN w = DOMAIN h \cup {rest} /\ w \in [DOMAIN w -> Header]
      /\ w[rest] = header /\ \A x \in DOMAIN h : w[x] = cut[x]
  BY <1>4, <1>5 DEF WriteHeader
<1> HIDE DEF w
<1>7. CASE e \in DOMAIN h
  <2>1. g = [w EXCEPT ![e].prevSize = leftover]
    BY <1>3, <1>6, <1>7 DEF SetPreviousSize
  <2>2. /\ DOMAIN g = DOMAIN w /\ g \in [DOMAIN w -> Header]
        /\ g[e].prevSize = leftover /\ g[e].prev = w[e].prev /\ g[e].size = w[e].size
        /\ g[e].cur = w[e].cur /\ \A x \in DOMAIN w \ {e} : g[x] = w[x]
    BY <2>1, <1>3, <1>6, <1>7 DEF Header
  <2> QED
    BY <2>2, <1>1, <1>3, <1>4, <1>6, <1>7 DEF header, CutInUse
<1>8. CASE e \notin DOMAIN h
  <2>1. g = w
    BY <1>1, <1>3, <1>6, <1>8 DEF SetPreviousSize
  <2> QED
    BY <2>1, <1>1, <1>3, <1>4, <1>6, <1>8 DEF header, CutInUse
<1> QED
  BY <1>7, <1>8

(* A region that becomes a chunk in use and a free one above it.           *)
LEMMA CutRegion ==
  ASSUME NEW h, NEW g, NEW c \in Nat, NEW rest \in Nat, NEW e \in Nat, NEW request \in Nat,
         rest = c + request + 1, e >= rest + 4, request >= 3,
         DOMAIN g = Outside(h, c, e) \cup {c, rest},
         g \in [DOMAIN g -> Header],
         g[c].size = request, g[rest].size = e - rest - 1, ~ g[rest].cur,
         g[rest].prev, g[rest].prevSize = CLOBBERED,
         g[c].prev <=> h[c].prev, g[c].prevSize = h[c].prevSize,
         e \in DOMAIN g /\ ~ g[e].prev => LeadsToFree(g, e)
  PROVE  RegionOf(h, g, c, e, {c, rest}) /\ NEXT_HEAP_CHUNK(g, rest) = e
<1>1. NEXT_HEAP_CHUNK(g, c) = rest /\ NEXT_HEAP_CHUNK(g, rest) = e
  BY DEF NEXT_HEAP_CHUNK
<1>2. c < rest /\ rest < e /\ g[c].size >= 3 /\ g[rest].size >= 3
  BY <1>1
<1> QED
  BY <1>1, <1>2 DEF RegionOf, SMALLEST_MALLOC

(* What is left of a chunk in use becomes a free chunk.  The flag of the   *)
(* chunk above it still says in use, which is safe but not exact.          *)
IsCut(h, g, end, c, rest, request) ==
  /\ HeapInv(g, end) /\ DOMAIN g = DOMAIN h \cup {rest} /\ rest \notin DOMAIN h
  /\ g[c].size = request /\ g[c].cur /\ ~ g[rest].cur /\ rest < end
  /\ \A x \in DOMAIN h \ {c} : g[x].size = h[x].size /\ (g[x].cur <=> h[x].cur)

(* A block that is cut keeps its first words; the rest is a free chunk.    *)
LEMMA CutInUseKeepsHeap ==
  ASSUME NEW h, NEW end, HeapInv(h, end), NEW c \in DOMAIN h, h[c].cur,
         NEW request \in Nat, request >= SMALLEST_MALLOC, CAN_SPLIT_CHUNK(h, c, request),
         NEW g, g = split_mallocd_chunk(h, c, request),
         NEW rest, rest = Remainder(c, request)
  PROVE  IsCut(h, g, end, c, rest, request)
<1> DEFINE e == NEXT_HEAP_CHUNK(h, c)
<1>1. /\ h \in [DOMAIN h -> Header] /\ DOMAIN h \subseteq Nat /\ c \in Nat /\ h[c].size \in Nat
      /\ e = c + h[c].size + 1 /\ e \in DOMAIN h /\ e \in Nat /\ e <= end /\ h[e].prev
      /\ \A x \in DOMAIN h : x <= c \/ x >= e
      /\ h[c].size >= request + 4 /\ request >= 3 /\ rest = c + request + 1
  BY ChunkFacts DEF CAN_SPLIT_CHUNK, CHUNK_SIZE, SMALLEST_CHUNK, SMALLEST_MALLOC, Remainder
<1> HIDE DEF e
<1>2. rest \notin DOMAIN h /\ rest \in Nat /\ e >= rest + 4 /\ rest < e /\ c < rest
  BY <1>1
<1>3. CutInUse(h, g, c, rest, e, request)
  BY <1>1, <1>2, CutInUseFields DEF e
<1> USE DEF CutInUse
<1>4. SameOutside(h, g, c, e)
  BY <1>1, <1>3 DEF SameOutside
<1>5. RegionOf(h, g, c, e, {c, rest})
  <2>1. DOMAIN h = Outside(h, c, e) \cup {c}
    BY <1>1, OneChunkRegion
  <2>2. DOMAIN g = Outside(h, c, e) \cup {c, rest}
    BY <2>1, <1>3
  <2>3. g[e].prev
    BY <1>1, <1>3
  <2> QED
    BY <2>2, <2>3, <1>1, <1>2, <1>3, CutRegion
<1>6. EndMoves(h, g, c, e, {c, rest}, end, end)
  BY <1>1 DEF EndMoves
<1>7. HeapInv(g, end)
  BY <1>1, <1>4, <1>5, <1>6, Retile
<1>8. \A x \in DOMAIN h \ {c} : g[x].size = h[x].size /\ (g[x].cur <=> h[x].cur)
  BY <1>1, <1>3
<1>9. rest < end
  BY <1>1, <1>2, ChunkFacts
<1> QED
  BY <1>2, <1>3, <1>7, <1>8, <1>9 DEF IsCut

(* base extends over n words: the headers up to the address e are gone.    *)
Swallowed(h, base, e, s) ==
  /\ DOMAIN s = Outside(h, base, e) \cup {base}
  /\ s \in [DOMAIN s -> Header] /\ \A x \in DOMAIN s : s[x] = h[x]

(* Swallowing drops the headers of the region and no other.                *)
LEMMA SwallowFields ==
  ASSUME NEW h, h \in [DOMAIN h -> Header], DOMAIN h \subseteq Nat, NEW base \in DOMAIN h,
         NEW n \in Nat, NEW e \in Nat, e = base + n + 1, NEW s, s = Swallow(h, base, n)
  PROVE  Swallowed(h, base, e, s)
<1> DEFINE kept == {x \in DOMAIN h : x <= base \/ x > base + n}
<1>1. \A x \in DOMAIN h : (x <= base <=> x < base \/ x = base) /\ (x > base + n <=> x >= e)
  OBVIOUS
<1>2. kept = Outside(h, base, e) \cup {base}
  BY <1>1 DEF Outside
<1>3. s = [x \in kept |-> h[x]] /\ kept \subseteq DOMAIN h
  BY DEF Swallow, Restrict
<1> HIDE DEF kept
<1> QED
  BY <1>2, <1>3 DEF Swallowed

(* s is h with base extended up to e.                                      *)
IsResized(h, s, base, e, n) ==
  /\ NEXT_HEAP_CHUNK(s, base) = e /\ s[base].size = n /\ s[base].cur
  /\ DOMAIN s = Outside(h, base, e) \cup {base}
  /\ s \in [DOMAIN s -> Header] /\ DOMAIN s \subseteq Nat
  /\ (s[base].prev <=> h[base].prev) /\ s[base].prevSize = h[base].prevSize
  /\ \A x \in DOMAIN s \ {base} : s[x] = h[x]
  /\ base \in DOMAIN s /\ e \in DOMAIN s /\ base \in Nat /\ e \in Nat /\ base < e

(* What resize_chunk_and_split writes first, field by field.               *)
LEMMA ResizedFields ==
  ASSUME NEW h, NEW end, HeapInv(h, end), NEW base \in DOMAIN h, NEW n \in Nat,
         NEW e \in DOMAIN h, e = base + n + 1, NEW s, s = Resized(h, base, n)
  PROVE  IsResized(h, s, base, e, n)
<1>1. /\ h \in [DOMAIN h -> Header] /\ DOMAIN h \subseteq Nat /\ base \in Nat
      /\ e \in Nat /\ base < e
  <2>1. /\ h \in [DOMAIN h -> Header] /\ DOMAIN h \subseteq Nat /\ base \in Nat /\ e \in Nat
    BY ChunkFacts, Zenon
  <2> QED
    BY <2>1
<1> DEFINE t == Swallow(h, base, n)
<1>2. t = Swallow(h, base, n)
  OBVIOUS
<1> HIDE DEF t
<1>3. Swallowed(h, base, e, t)
  BY <1>1, <1>2, SwallowFields
<1>4. /\ DOMAIN t = Outside(h, base, e) \cup {base} /\ base \in DOMAIN t
      /\ t \in [DOMAIN t -> Header] /\ \A x \in DOMAIN t : t[x] = h[x]
  BY <1>3 DEF Swallowed
<1>5. s = [t EXCEPT ![base].size = n, ![base].cur = TRUE]
  BY <1>2 DEF Resized
<1>6. /\ DOMAIN s = DOMAIN t /\ s \in [DOMAIN t -> Header] /\ s[base].size = n /\ s[base].cur
      /\ (s[base].prev <=> t[base].prev) /\ s[base].prevSize = t[base].prevSize
      /\ \A x \in DOMAIN t \ {base} : s[x] = t[x]
  <2>1. /\ s[base] = [t[base] EXCEPT !.size = n, !.cur = TRUE] /\ DOMAIN s = DOMAIN t
        /\ \A x \in DOMAIN t \ {base} : s[x] = t[x]
    BY <1>4, <1>5
  <2>2. t[base] \in Header
    BY <1>4
  <2>3. /\ s[base] \in Header /\ s[base].size = n /\ s[base].cur
        /\ (s[base].prev <=> t[base].prev) /\ s[base].prevSize = t[base].prevSize
    BY <2>1, <2>2 DEF Header
  <2>4. s = [x \in DOMAIN s |-> s[x]]
    BY <1>5
  <2> QED
    BY <2>1, <2>3, <2>4, <1>4
<1>7. NEXT_HEAP_CHUNK(s, base) = e
  BY <1>6 DEF NEXT_HEAP_CHUNK
<1>8. DOMAIN s \subseteq Nat /\ e \in DOMAIN s
  BY <1>1, <1>4, <1>6 DEF Outside
<1> QED
  BY <1>1, <1>4, <1>6, <1>7, <1>8 DEF IsResized

(* In g, the region from base to e is one block.                           *)
IsResettled(h, g, end, base, e, n) ==
  /\ HeapInv(g, end) /\ g[base].cur /\ g[base].size = n
  /\ DOMAIN g = Outside(h, base, e) \cup {base}
  /\ Replaces(h, g, base, e, {base})

(* The chunks of the region are swallowed by base, which is then in use.   *)
LEMMA ResizeReplaces ==
  ASSUME NEW h, NEW end, HeapInv(h, end), NEW base \in DOMAIN h, NEW n \in Nat, n >= 3,
         NEW e \in DOMAIN h, e = base + n + 1,
         NEW s, s = Resized(h, base, n),
         NEW g, g = mark_used(s, base)
  PROVE  IsResettled(h, g, end, base, e, n)
<1>1. IsResized(h, s, base, e, n)
  BY ResizedFields
<1>2. base \in DOMAIN h /\ e \in DOMAIN h /\ e <= end
  BY ChunkFacts
<1> USE DEF IsResized
<1>5. g = [s EXCEPT ![base].cur = TRUE, ![e].prev = TRUE, ![e].prevSize = CLOBBERED]
      /\ CLOBBERED \in Nat
  BY <1>1 DEF mark_used, CLOBBERED
<1>6. /\ DOMAIN g = DOMAIN s /\ g \in [DOMAIN g -> Header] /\ g[base].cur /\ g[e].prev
      /\ g[e].prevSize = CLOBBERED
      /\ g[base].size = n /\ (g[base].prev <=> h[base].prev)
      /\ g[base].prevSize = h[base].prevSize
      /\ g[e].size = h[e].size /\ (g[e].cur <=> h[e].cur)
      /\ \A x \in DOMAIN s \ {base, e} : g[x] = h[x]
  <2>1. s[base] \in Header /\ s[e] \in Header /\ s[e] = h[e] /\ base # e
    BY <1>1
  <2>2. DOMAIN g = DOMAIN s /\ \A x \in DOMAIN s \ {base, e} : g[x] = s[x]
    BY <1>1, <1>5
  <2>3. g[base] = [s[base] EXCEPT !.cur = TRUE] /\ g[e] = [s[e] EXCEPT !.prev = TRUE, !.prevSize = CLOBBERED]
    BY <2>1, <1>1, <1>5
  <2>4. g[base] \in Header
    BY <2>1, <2>3 DEF Header
  <2>5. g[e] \in Header
    BY <2>1, <2>3, <1>5 DEF Header
  <2>6. g \in [DOMAIN g -> Header]
    BY <2>2, <2>4, <2>5, <1>1, <1>5
  <2> QED
    BY <2>1, <2>2, <2>3, <2>6, <1>1 DEF Header
<1>7. SameOutside(h, g, base, e)
  <2>1. ASSUME NEW x \in DOMAIN h, x < base \/ x >= e
        PROVE  x \in DOMAIN s /\ x # base
    BY <2>1, <1>1 DEF Outside
  <2> QED
    BY <2>1, <1>1, <1>6 DEF SameOutside
<1>8. NEXT_HEAP_CHUNK(g, base) = e
  BY <1>1, <1>6 DEF NEXT_HEAP_CHUNK
<1>9. DOMAIN g = Outside(h, base, e) \cup {base}
  BY <1>1, <1>6
<1>10. RegionOf(h, g, base, e, {base})
  BY <1>1, <1>6, <1>8, <1>9, OneChunk
<1>11. EndMoves(h, g, base, e, {base}, end, end)
  BY <1>2 DEF EndMoves
<1>12. HeapInv(g, end)
  BY <1>1, <1>7, <1>10, <1>11, Retile
<1> QED
  BY <1>6, <1>7, <1>9, <1>10, <1>12 DEF IsResettled, Replaces

(* The heap stays one.                                                    *)
LEMMA ResizeKeepsHeap ==
  ASSUME NEW h, NEW end, HeapInv(h, end), NEW base \in DOMAIN h, NEW n \in Nat, n >= 3,
         NEW e \in DOMAIN h, e = base + n + 1,
         NEW s, s = Resized(h, base, n),
         NEW g, g = mark_used(s, base)
  PROVE  /\ HeapInv(g, end) /\ g[base].cur /\ g[base].size = n
         /\ DOMAIN g = Outside(h, base, e) \cup {base} /\ SameOutside(h, g, base, e)
<1>1. IsResettled(h, g, end, base, e, n)
  BY ResizeReplaces
<1> QED
  BY <1>1 DEF IsResettled, Replaces

(* In g, the region from base to e is a block and the chunk left over.     *)
IsRecut(h, g, end, base, rest, e, request) ==
  /\ HeapInv(g, end) /\ rest \in Nat /\ base < rest /\ rest < e
  /\ DOMAIN g = Outside(h, base, e) \cup {base, rest}
  /\ g[base].cur /\ g[base].size = request /\ ~ g[rest].cur
  /\ SameOutside(h, g, base, e) /\ RegionOf(h, g, base, e, {base, rest})
  /\ NEXT_HEAP_CHUNK(g, rest) = e /\ ~ g[e].prev

(* The same, when enough is left over to cut base again.                   *)
LEMMA ResizeAndCutKeepsHeap ==
  ASSUME NEW h, NEW end, HeapInv(h, end), NEW base \in DOMAIN h, NEW n \in Nat, n >= 3,
         NEW e \in DOMAIN h, e = base + n + 1,
         NEW s, s = Resized(h, base, n),
         NEW request \in Nat, request >= SMALLEST_MALLOC, CAN_SPLIT_CHUNK(s, base, request),
         NEW rest, rest = Remainder(base, request),
         NEW g, g = CutAndTagged(s, base, request, e)
  PROVE  IsRecut(h, g, end, base, rest, e, request)
<1>1. /\ h \in [DOMAIN h -> Header] /\ DOMAIN h \subseteq Nat /\ base \in Nat
      /\ e \in Nat /\ base < e /\ e <= end
  <2>1. /\ h \in [DOMAIN h -> Header] /\ DOMAIN h \subseteq Nat
        /\ base \in Nat /\ e \in Nat /\ e <= end
    BY ChunkFacts, Zenon
  <2> QED
    BY <2>1
<1>2. IsResized(h, s, base, e, n)
  BY ResizedFields
<1> USE DEF IsResized
<1>3. /\ n >= request + 4 /\ request >= 3 /\ rest = base + request + 1 /\ rest \in Nat
      /\ base < rest /\ rest < e /\ e >= rest + 4 /\ base \in DOMAIN s /\ e \in DOMAIN s
  BY <1>1, <1>2 DEF CAN_SPLIT_CHUNK, CHUNK_SIZE, SMALLEST_CHUNK, SMALLEST_MALLOC, Remainder
<1>4. rest \notin DOMAIN s
  BY <1>1, <1>2, <1>3 DEF Outside
<1> DEFINE cut == split_mallocd_chunk(s, base, request)
<1>5. CutInUse(s, cut, base, rest, e, request)
  <2>1. cut = split_mallocd_chunk(s, base, request)
    OBVIOUS
  <2> HIDE DEF cut
  <2> QED
    BY <2>1, <1>2, <1>3, <1>4, CutInUseFields
<1>6. g = [cut EXCEPT ![e].prev = FALSE, ![e].prevSize = CHUNK_SIZE(cut, rest)]
  BY DEF CutAndTagged
<1> HIDE DEF cut
<1>7. CHUNK_SIZE(cut, rest) = e - rest - 1 /\ e - rest - 1 \in Nat
  BY <1>3, <1>5 DEF CutInUse, CHUNK_SIZE
<1>8. /\ DOMAIN g = DOMAIN cut /\ g \in [DOMAIN g -> Header]
      /\ ~ g[e].prev /\ g[e].prevSize = e - rest - 1 /\ g[e].size = cut[e].size
      /\ (g[e].cur <=> cut[e].cur) /\ \A x \in DOMAIN cut \ {e} : g[x] = cut[x]
  <2>1. e \in DOMAIN cut /\ cut \in [DOMAIN cut -> Header]
    BY <1>3, <1>5 DEF CutInUse
  <2>2. /\ DOMAIN g = DOMAIN cut /\ \A x \in DOMAIN cut \ {e} : g[x] = cut[x]
        /\ g[e] = [cut[e] EXCEPT !.prev = FALSE, !.prevSize = e - rest - 1]
    <3> DEFINE leftover == CHUNK_SIZE(cut, rest)
    <3>1. g = [cut EXCEPT ![e].prev = FALSE, ![e].prevSize = leftover]
      BY <1>6
    <3> HIDE DEF leftover
    <3>2. /\ DOMAIN g = DOMAIN cut /\ \A x \in DOMAIN cut \ {e} : g[x] = cut[x]
          /\ g[e] = [cut[e] EXCEPT !.prev = FALSE, !.prevSize = leftover]
      BY <3>1, <2>1
    <3> QED
      BY <3>2, <1>7 DEF leftover
  <2>3. cut[e] \in Header
    BY <2>1
  <2>4. g[e] \in Header
    BY <2>2, <2>3, <1>7 DEF Header
  <2>5. g \in [DOMAIN g -> Header]
    BY <2>1, <2>2, <2>4, <1>6
  <2> QED
    BY <2>2, <2>3, <2>5 DEF Header
<1>9. /\ DOMAIN g = DOMAIN s \cup {rest} /\ base # e /\ rest # e /\ base # rest
      /\ g[base] = cut[base] /\ g[rest] = cut[rest]
      /\ \A x \in DOMAIN s \ {base, e} : g[x] = h[x]
  BY <1>1, <1>2, <1>3, <1>4, <1>5, <1>8 DEF CutInUse
<1>10. /\ g[base].size = request /\ g[base].cur /\ (g[base].prev <=> h[base].prev)
       /\ g[base].prevSize = h[base].prevSize
       /\ g[rest].size = e - rest - 1 /\ ~ g[rest].cur
       /\ g[rest].prev /\ g[rest].prevSize = CLOBBERED
       /\ g[e].size = h[e].size /\ (g[e].cur <=> h[e].cur)
  BY <1>2, <1>3, <1>5, <1>8, <1>9 DEF CutInUse
<1>11. SameOutside(h, g, base, e)
  <2>1. ASSUME NEW x \in DOMAIN h, x < base \/ x >= e
        PROVE  x \in DOMAIN s /\ x # base
    BY <2>1, <1>1, <1>2 DEF Outside
  <2> QED
    BY <2>1, <1>9, <1>10 DEF SameOutside
<1>12. DOMAIN g = Outside(h, base, e) \cup {base, rest}
  BY <1>2, <1>9
<1>13. RegionOf(h, g, base, e, {base, rest}) /\ NEXT_HEAP_CHUNK(g, rest) = e
  <2>1. e - (e - rest - 1) - 1 = rest /\ rest + (e - rest - 1) + 1 = e
    BY <1>1, <1>3
  <2>2. PREVIOUS_HEAP_CHUNK(g, e) = rest /\ NEXT_HEAP_CHUNK(g, rest) = e
    BY <2>1, <1>8, <1>10 DEF PREVIOUS_HEAP_CHUNK, NEXT_HEAP_CHUNK
  <2>3. LeadsToFree(g, e)
    BY <2>2, <1>9, <1>10 DEF LeadsToFree, IS_CURRENT_FREE
  <2> QED
    BY <2>3, <1>1, <1>3, <1>8, <1>10, <1>12, CutRegion
<1>14. EndMoves(h, g, base, e, {base, rest}, end, end)
  BY <1>1 DEF EndMoves
<1>15. HeapInv(g, end)
  BY <1>1, <1>11, <1>13, <1>14, Retile
<1> QED
  BY <1>3, <1>8, <1>10, <1>11, <1>12, <1>13, <1>15 DEF IsRecut

(* In g, c has taken in the end of heap and more, and rest is the new end. *)
IsExtended(h, g, c, n, end, rest, request) ==
  /\ HeapInv(g, rest) /\ rest \in Nat /\ c < rest
  /\ DOMAIN g = (DOMAIN h \ {end}) \cup {rest}
  /\ g[c].cur /\ g[c].size = request /\ ~ g[rest].cur
  /\ NEXT_HEAP_CHUNK(g, rest) = c + n + 1 /\ c + n + 1 \notin DOMAIN g
  /\ SameOutside(h, g, c, c + n + 1) /\ RegionOf(h, g, c, c + n + 1, {c, rest})
  /\ \A x \in DOMAIN h \ {c, end} :
       x \in DOMAIN g /\ x # rest /\ g[x].size = h[x].size /\ (g[x].cur <=> h[x].cur)

(* The chunk below the end of heap takes it in and is cut: the rest is the *)
(* new end of heap.                                                        *)
LEMMA ExtendKeepsHeap ==
  ASSUME NEW h, NEW end, HeapInv(h, end), NEW c \in DOMAIN h, h[c].cur,
         end = NEXT_HEAP_CHUNK(h, c), NEW n \in Nat, n >= h[c].size + h[end].size + 1,
         NEW s, s = Extended(h, c, n),
         NEW request \in Nat, request >= SMALLEST_MALLOC, CAN_SPLIT_CHUNK(s, c, request),
         NEW rest, rest = Remainder(c, request),
         NEW g, g = split_mallocd_chunk(s, c, request)
  PROVE  IsExtended(h, g, c, n, end, rest, request)
<1> DEFINE e == c + n + 1
<1>1. /\ h \in [DOMAIN h -> Header] /\ DOMAIN h \subseteq Nat /\ c \in Nat /\ end \in Nat
      /\ h[c].size \in Nat /\ h[end].size \in Nat /\ end = c + h[c].size + 1
      /\ e \in Nat /\ end < e /\ c < end /\ e = c + n + 1
      /\ \A x \in DOMAIN h : x <= end /\ (x < c \/ x = c \/ x = end)
  <2>1. end \in DOMAIN h
    BY DEF HeapInv, HeapTyped
  <2>2. \A x \in DOMAIN h : x \in Nat /\ x <= end
    BY ChunkFacts
  <2> QED
    BY <2>1, <2>2, ChunkFacts
<1> DEFINE t == Swallow(h, c, n)
<1>2. t = Swallow(h, c, n) /\ s = [t EXCEPT ![c].size = n]
  BY DEF Extended
<1> HIDE DEF t, e
<1>3. Swallowed(h, c, e, t)
  BY <1>1, <1>2, SwallowFields
<1>4. /\ DOMAIN t = DOMAIN h \ {end}
      /\ t \in [DOMAIN t -> Header] /\ \A x \in DOMAIN t : t[x] = h[x]
  <2>1. DOMAIN t = Outside(h, c, e) \cup {c}
    BY <1>3 DEF Swallowed
  <2>2. \A x \in DOMAIN h : (x < c \/ x >= e \/ x = c) <=> x # end
    BY <1>1
  <2> QED
    BY <2>1, <2>2, <1>3 DEF Swallowed, Outside
<1>5. /\ c \in DOMAIN t /\ DOMAIN s = DOMAIN t /\ s \in [DOMAIN t -> Header] /\ s[c].size = n
      /\ s[c].prev = h[c].prev /\ s[c].prevSize = h[c].prevSize
      /\ \A x \in DOMAIN t \ {c} : s[x] = h[x]
  BY <1>1, <1>2, <1>4 DEF Header
<1>6. /\ n >= request + 4 /\ request >= 3 /\ rest = c + request + 1 /\ rest \in Nat
      /\ c < rest /\ rest < e /\ e >= rest + 4 /\ NEXT_HEAP_CHUNK(s, c) = e
  BY <1>1, <1>5 DEF CAN_SPLIT_CHUNK, CHUNK_SIZE, SMALLEST_CHUNK, SMALLEST_MALLOC, Remainder,
                    NEXT_HEAP_CHUNK
<1>7. rest \notin DOMAIN s /\ e \notin DOMAIN s /\ DOMAIN s \subseteq Nat /\ c \in DOMAIN s
      /\ e \notin DOMAIN h
  BY <1>1, <1>4, <1>5, <1>6
<1>8. s \in [DOMAIN s -> Header]
  BY <1>5
<1>9. CutInUse(s, g, c, rest, e, request)
  <2> HIDE DEF t
  <2> QED
    BY <1>6, <1>7, <1>8, CutInUseFields
<1> USE DEF CutInUse
<1>10. /\ DOMAIN g = (DOMAIN h \ {end}) \cup {rest} /\ g \in [DOMAIN g -> Header]
       /\ \A x \in DOMAIN h \ {c, end} : x # rest /\ g[x] = h[x]
       /\ (g[c].prev <=> h[c].prev) /\ g[c].prevSize = h[c].prevSize
  <2>1. DOMAIN g = (DOMAIN h \ {end}) \cup {rest} /\ g \in [DOMAIN g -> Header]
    BY <1>4, <1>5, <1>9
  <2>2. ASSUME NEW x \in DOMAIN h \ {c, end}
        PROVE  x # rest /\ g[x] = h[x]
    <3>1. x \in DOMAIN s \ {c, e} /\ s[x] = h[x]
      BY <2>2, <1>4, <1>5, <1>7
    <3> QED
      BY <3>1, <1>7, <1>9
  <2>3. (g[c].prev <=> h[c].prev) /\ g[c].prevSize = h[c].prevSize
    BY <1>5, <1>9
  <2> QED
    BY <2>1, <2>2, <2>3
<1>11. SameOutside(h, g, c, e)
  <2>1. \A x \in DOMAIN h : x < c \/ x >= e => x \in DOMAIN h \ {c, end}
    BY <1>1
  <2> QED
    BY <2>1, <1>10 DEF SameOutside
<1>12. RegionOf(h, g, c, e, {c, rest}) /\ NEXT_HEAP_CHUNK(g, rest) = e
  <2>1. DOMAIN g = Outside(h, c, e) \cup {c, rest}
    <3>1. \A x \in DOMAIN h : (x < c \/ x >= e \/ x = c) <=> x # end
      BY <1>1
    <3>2. Outside(h, c, e) \cup {c} = DOMAIN h \ {end}
      BY <3>1 DEF Outside
    <3> QED
      BY <3>2, <1>10
  <2>2. e \notin DOMAIN g
    BY <1>6, <1>7, <1>10
  <2>3. /\ g[c].size = request /\ g[rest].size = e - rest - 1 /\ ~ g[rest].cur
        /\ g[rest].prev /\ g[rest].prevSize = CLOBBERED
    BY <1>9
  <2>4. c \in Nat /\ e \in Nat /\ g \in [DOMAIN g -> Header]
    BY <1>1, <1>10
  <2>5. RegionOf(h, g, c, e, {c, rest})
    BY <2>1, <2>2, <2>3, <2>4, <1>6, <1>10, CutRegion, Zenon
  <2>6. NEXT_HEAP_CHUNK(g, rest) = e
    BY <2>3, <2>4, <1>6 DEF NEXT_HEAP_CHUNK
  <2> QED
    BY <2>5, <2>6
<1>13. EndMoves(h, g, c, e, {c, rest}, end, rest)
  BY <1>1, <1>9, <1>12 DEF EndMoves
<1>14. HeapInv(g, rest)
  BY <1>1, <1>11, <1>12, <1>13, Retile
<1>15. e \notin DOMAIN g
  BY <1>6, <1>7, <1>10
<1> QED
  BY <1>1, <1>6, <1>9, <1>10, <1>11, <1>12, <1>14, <1>15 DEF IsExtended
-----------------------------------------------------------------------------
(* Complete coalescing: what a heap keeps as long as no block in use is    *)
(* cut in place.                                                           *)

(* The chunk above a free chunk knows that it is free, and is in use; it   *)
(* may be free only above the chunks of P, which a handler has in hand.    *)
Coalesced(h, P) ==
  \A c \in DOMAIN h : ~ h[c].cur /\ NEXT_HEAP_CHUNK(h, c) \in DOMAIN h =>
    /\ ~ h[NEXT_HEAP_CHUNK(h, c)].prev
    /\ c \notin P => h[NEXT_HEAP_CHUNK(h, c)].cur

(* A heap that is coalesced but for P becomes one that is but for Q.       *)
Tidies(h, P, g, Q) == Coalesced(h, P) => Coalesced(g, Q)

(* The free chunk below c, if there is one.                                *)
FreeBelow(h, c) == {x \in DOMAIN h : ~ h[x].cur /\ NEXT_HEAP_CHUNK(h, x) = c}

(* The chunks new of a region are coalesced, but for Q.                    *)
RegionCoalesced(g, new, Q) ==
  \A x \in new : ~ g[x].cur /\ NEXT_HEAP_CHUNK(g, x) \in DOMAIN g =>
    /\ ~ g[NEXT_HEAP_CHUNK(g, x)].prev
    /\ x \notin Q => g[NEXT_HEAP_CHUNK(g, x)].cur

(* A heap stays coalesced when the new chunks of a region are, and when    *)
(* the region does not become free above a chunk that is.                  *)
LEMMA RetileCoalesced ==
  ASSUME NEW h, NEW end, HeapInv(h, end), NEW c \in DOMAIN h, NEW e \in Nat,
         NEW g, NEW new, SameOutside(h, g, c, e), RegionOf(h, g, c, e, new),
         NEW P, NEW Q, Coalesced(h, P), RegionCoalesced(g, new, Q),
         h[c].cur => g[c].cur \/ FreeBelow(h, c) \subseteq Q,
         \A x \in Outside(h, c, e) : x \in P => x \in Q
  PROVE  Coalesced(g, Q)
<1>1. /\ DOMAIN h \subseteq Nat /\ c \in Nat /\ new \subseteq Nat
      /\ \A x \in DOMAIN h : x \in Nat /\ h[x].size \in Nat
  BY ChunkFacts DEF RegionOf
<1>2. DOMAIN g = Outside(h, c, e) \cup new /\ c < e /\ \A x \in new : c <= x /\ x < e
  BY <1>1 DEF RegionOf
<1> SUFFICES ASSUME NEW x \in DOMAIN g, ~ g[x].cur, NEXT_HEAP_CHUNK(g, x) \in DOMAIN g
             PROVE  /\ ~ g[NEXT_HEAP_CHUNK(g, x)].prev
                    /\ x \notin Q => g[NEXT_HEAP_CHUNK(g, x)].cur
  BY DEF Coalesced
<1>3. CASE x \in new
  BY <1>3 DEF RegionCoalesced
<1>4. CASE x \in Outside(h, c, e)
  <2> DEFINE d == NEXT_HEAP_CHUNK(h, x)
  <2>1. x \in DOMAIN h /\ (x < c \/ x >= e) /\ ~ h[x].cur /\ g[x].size = h[x].size
    BY <1>4 DEF Outside, SameOutside
  <2>2. d = x + h[x].size + 1 /\ NEXT_HEAP_CHUNK(g, x) = d /\ d \in Nat /\ d \in DOMAIN g
    BY <1>1, <2>1 DEF NEXT_HEAP_CHUNK
  <2>3. x < c => d <= c
    BY <2>1 DEF HeapInv, Tiled
  <2> HIDE DEF d
  <2>4. d = c \/ (d \in DOMAIN h /\ d # e /\ (d < c \/ d >= e))
    <3>1. d > x /\ x \in Nat
      BY <1>1, <2>1, <2>2
    <3>2. d # e /\ (d <= c \/ d > e)
      BY <1>1, <1>2, <2>1, <2>2, <2>3, <3>1
    <3>3. d \in new => d = c
      BY <1>1, <1>2, <2>2, <3>2
    <3>4. d \in Outside(h, c, e) => d \in DOMAIN h
      BY DEF Outside
    <3> QED
      BY <1>1, <1>2, <2>2, <3>2, <3>3, <3>4
  <2>5. d \in DOMAIN h
    BY <2>4
  <2>6. ~ h[d].prev /\ (x \notin P => h[d].cur)
    BY <2>1, <2>5 DEF Coalesced, d
  <2>7. x \notin Q => x \notin P
    BY <1>4
  <2>8. CASE d = c
    <3>1. ~ g[d].prev
      BY <2>6, <2>8 DEF RegionOf
    <3>2. x \in FreeBelow(h, c)
      BY <2>1, <2>8 DEF FreeBelow, d
    <3>3. x \notin Q => g[d].cur
      BY <2>6, <2>7, <2>8, <3>2
    <3> QED
      BY <2>2, <3>1, <3>3
  <2>9. CASE d \in DOMAIN h /\ d # e /\ (d < c \/ d >= e)
    <3>1. (g[d].prev <=> h[d].prev) /\ (g[d].cur <=> h[d].cur)
      BY <2>9 DEF SameOutside
    <3> QED
      BY <2>2, <2>6, <2>7, <3>1
  <2> QED
    BY <2>4, <2>8, <2>9
<1> QED
  BY <1>2, <1>3, <1>4

(* A chunk may always be counted among those in hand.                      *)
LEMMA CoalescedFewer ==
  ASSUME NEW h, NEW P, NEW Q, Coalesced(h, P), P \subseteq Q
  PROVE  Coalesced(h, Q)
BY DEF Coalesced

(* Growing the end of heap changes no flag, and there is no chunk above it.*)
LEMMA GrowTidies ==
  ASSUME NEW h, NEW end, HeapInv(h, end), NEW incr \in Nat, NEW g, g = Grown(h, end, incr)
  PROVE  Tidies(h, {}, g, {})
<1>1. /\ HeapInv(g, end) /\ DOMAIN g = DOMAIN h
      /\ \A x \in DOMAIN h : /\ (g[x].cur <=> h[x].cur) /\ (g[x].prev <=> h[x].prev)
                             /\ x # end => g[x].size = h[x].size
  BY GrowKeepsHeap
<1>2. NEXT_HEAP_CHUNK(g, end) \notin DOMAIN g
  <2>1. end \in DOMAIN g
    BY <1>1 DEF HeapInv, HeapTyped
  <2>2. /\ end < NEXT_HEAP_CHUNK(g, end) /\ end \in Nat /\ NEXT_HEAP_CHUNK(g, end) \in Nat
        /\ \A x \in DOMAIN g : x <= end /\ x \in Nat
    BY <1>1, <2>1, ChunkFacts
  <2> QED
    BY <2>2
<1>3. \A x \in DOMAIN h : x # end => NEXT_HEAP_CHUNK(g, x) = NEXT_HEAP_CHUNK(h, x)
  BY <1>1 DEF NEXT_HEAP_CHUNK
<1> QED
  BY <1>1, <1>2, <1>3 DEF Tidies, Coalesced

(* A free chunk is cut: only the part in hand has a free chunk above it.   *)
LEMMA SplitTidies ==
  ASSUME NEW h, NEW end, HeapInv(h, end), NEW c \in DOMAIN h, NEW request \in Nat,
         request >= SMALLEST_MALLOC, CAN_SPLIT_CHUNK(h, c, request), ~ h[c].cur,
         NEW g, g = split_chunk(h, c, request)
  PROVE  Tidies(h, {}, g, {c})
<1> SUFFICES ASSUME Coalesced(h, {})
             PROVE  Coalesced(g, {c})
  BY DEF Tidies
<1> DEFINE rest == Remainder(c, request)
           e == NEXT_HEAP_CHUNK(h, c)
<1>1. e \in Nat /\ e > c /\ c \in Nat /\ e = NEXT_HEAP_CHUNK(h, c) /\ rest = Remainder(c, request)
  BY ChunkFacts
<1> HIDE DEF rest, e
<1>2. SplitInTwo(h, g, c, rest, e, request)
  BY <1>1, SplitFields
<1>3. SameOutside(h, g, c, e) /\ RegionOf(h, g, c, e, {c, rest})
  BY <1>1, SplitKeepsHeap
<1>4. NEXT_HEAP_CHUNK(g, c) = rest /\ NEXT_HEAP_CHUNK(g, rest) = e
  BY <1>1, <1>2 DEF SplitInTwo, NEXT_HEAP_CHUNK, Remainder, rest
<1>5. e \in DOMAIN g => ~ g[e].prev /\ g[e].cur
  <2>1. e \in DOMAIN g => e \in DOMAIN h
    BY <1>2 DEF SplitInTwo
  <2>2. e \in DOMAIN h => ~ h[e].prev /\ h[e].cur
    BY <1>1 DEF Coalesced
  <2> QED
    BY <1>2, <2>1, <2>2 DEF SplitInTwo
<1>6. RegionCoalesced(g, {c, rest}, {c})
  BY <1>2, <1>4, <1>5 DEF RegionCoalesced, SplitInTwo
<1> QED
  BY <1>1, <1>3, <1>6, RetileCoalesced

(* The chunk in hand is handed out.                                        *)
LEMMA MarkUsedTidies ==
  ASSUME NEW h, NEW end, HeapInv(h, end), NEW c \in DOMAIN h, c # end, ~ h[c].cur,
         NEW g, g = mark_used(h, c)
  PROVE  Tidies(h, {c}, g, {})
<1> SUFFICES ASSUME Coalesced(h, {c})
             PROVE  Coalesced(g, {})
  BY DEF Tidies
<1> DEFINE e == NEXT_HEAP_CHUNK(h, c)
<1>1. e \in Nat /\ c \in Nat /\ c < e
  BY ChunkFacts
<1>2. g[c].cur /\ SameOutside(h, g, c, e) /\ RegionOf(h, g, c, e, {c})
  BY MarkUsedReplaces DEF Replaces
<1> HIDE DEF e
<1>3. RegionCoalesced(g, {c}, {})
  BY <1>2 DEF RegionCoalesced
<1>4. \A x \in Outside(h, c, e) : x \in {c} => x \in {}
  BY <1>1 DEF Outside
<1> QED
  BY <1>1, <1>2, <1>3, <1>4, RetileCoalesced

(* A block is given back: it and a free chunk below it have free ones      *)
(* above them, perhaps.                                                    *)
LEMMA MarkFreeTidies ==
  ASSUME NEW h, NEW end, HeapInv(h, end), NEW c \in DOMAIN h, h[c].cur,
         NEW g, g = mark_free(h, c)
  PROVE  Tidies(h, {}, g, {c} \cup FreeBelow(h, c))
<1> SUFFICES ASSUME Coalesced(h, {})
             PROVE  Coalesced(g, {c} \cup FreeBelow(h, c))
  BY DEF Tidies
<1> DEFINE e == NEXT_HEAP_CHUNK(h, c)
<1>1. e \in Nat /\ c \in Nat /\ c < e /\ h[c].size \in Nat
  BY ChunkFacts
<1>2. /\ g[c].size = h[c].size /\ ~ g[e].prev /\ SameOutside(h, g, c, e)
      /\ RegionOf(h, g, c, e, {c})
  BY MarkFreeReplaces DEF Replaces
<1>3. NEXT_HEAP_CHUNK(g, c) = e
  BY <1>2 DEF NEXT_HEAP_CHUNK
<1> HIDE DEF e
<1>4. RegionCoalesced(g, {c}, {c} \cup FreeBelow(h, c))
  BY <1>2, <1>3 DEF RegionCoalesced
<1> QED
  BY <1>1, <1>2, <1>4, RetileCoalesced

(* Two neighbours become one, in hand as long as the upper one was.        *)
LEMMA CombineTidies ==
  ASSUME NEW h, NEW end, HeapInv(h, end), NEW left \in DOMAIN h, NEW right \in DOMAIN h,
         ~ h[left].cur, ~ h[right].cur, right = NEXT_HEAP_CHUNK(h, left),
         NEW g, g = combine(h, left, right)
  PROVE  Tidies(h, {left, right}, g, {left}) /\ Tidies(h, {left}, g, {})
<1> DEFINE e == NEXT_HEAP_CHUNK(h, right)
<1>1. /\ e \in Nat /\ left \in Nat /\ right \in Nat /\ left < right /\ right < e
      /\ e = NEXT_HEAP_CHUNK(h, right)
      /\ \A x \in DOMAIN h : x \in Nat /\ (x <= left \/ x >= right) /\ (x <= right \/ x >= e)
  BY ChunkFacts
<1>2. /\ DOMAIN g = DOMAIN h \ {right} /\ NEXT_HEAP_CHUNK(g, left) = e
      /\ SameOutside(h, g, left, e) /\ RegionOf(h, g, left, e, {left})
      /\ \A x \in DOMAIN g : (g[x].cur <=> h[x].cur) /\ (g[x].prev <=> h[x].prev)
  BY CombineReplaces DEF IsCombined, Replaces
<1> HIDE DEF e
<1>3. \A x \in Outside(h, left, e) : x # left /\ x # right
  BY <1>1 DEF Outside
<1>4. ASSUME NEW P, P \subseteq {left, right}, NEW Q, Coalesced(h, P),
             right \in P => left \in Q
      PROVE  Coalesced(g, Q)
  <2>1. e \in DOMAIN g => ~ g[e].prev /\ (right \notin P => g[e].cur)
    BY <1>1, <1>2, <1>4 DEF Coalesced
  <2>2. RegionCoalesced(g, {left}, Q)
    BY <1>2, <1>4, <2>1 DEF RegionCoalesced
  <2>3. \A x \in Outside(h, left, e) : x \in P => x \in Q
    BY <1>3, <1>4
  <2> QED
    BY <1>1, <1>2, <1>4, <2>2, <2>3, RetileCoalesced
<1>5. left # right
  BY <1>1
<1>6. Tidies(h, {left, right}, g, {left})
  BY <1>4 DEF Tidies
<1>7. Tidies(h, {left}, g, {})
  BY <1>4, <1>5 DEF Tidies
<1> QED
  BY <1>6, <1>7

(* A free chunk without a free chunk above it is in hand no longer.        *)
LEMMA AloneTidies ==
  ASSUME NEW h, NEW c, NEXT_HEAP_CHUNK(h, c) \in DOMAIN h => h[NEXT_HEAP_CHUNK(h, c)].cur
  PROVE  Tidies(h, {c}, h, {})
BY DEF Tidies, Coalesced

(* A region becomes one block.                                             *)
LEMMA ResizeTidies ==
  ASSUME NEW h, NEW end, HeapInv(h, end), NEW base \in DOMAIN h, NEW n \in Nat, n >= 3,
         NEW e \in DOMAIN h, e = base + n + 1,
         NEW s, s = Resized(h, base, n),
         NEW g, g = mark_used(s, base)
  PROVE  Tidies(h, {}, g, {})
<1> SUFFICES ASSUME Coalesced(h, {})
             PROVE  Coalesced(g, {})
  BY DEF Tidies
<1>1. g[base].cur /\ SameOutside(h, g, base, e) /\ RegionOf(h, g, base, e, {base})
  BY ResizeReplaces DEF IsResettled, Replaces
<1>2. RegionCoalesced(g, {base}, {}) /\ e \in Nat
  BY <1>1, ChunkFacts DEF RegionCoalesced
<1> QED
  BY <1>1, <1>2, RetileCoalesced

(* A region becomes a block and a free chunk, below a block.               *)
LEMMA ResizeAndCutTidies ==
  ASSUME NEW h, NEW end, HeapInv(h, end), NEW base \in DOMAIN h, NEW n \in Nat, n >= 3,
         NEW e \in DOMAIN h, e = base + n + 1, h[e].cur,
         NEW s, s = Resized(h, base, n),
         NEW request \in Nat, request >= SMALLEST_MALLOC, CAN_SPLIT_CHUNK(s, base, request),
         NEW rest, rest = Remainder(base, request),
         NEW g, g = CutAndTagged(s, base, request, e)
  PROVE  Tidies(h, {}, g, {})
<1> SUFFICES ASSUME Coalesced(h, {})
             PROVE  Coalesced(g, {})
  BY DEF Tidies
<1>1. /\ g[base].cur /\ SameOutside(h, g, base, e) /\ RegionOf(h, g, base, e, {base, rest})
      /\ NEXT_HEAP_CHUNK(g, rest) = e /\ ~ g[e].prev
  <2>1. IsRecut(h, g, end, base, rest, e, request)
    BY ResizeAndCutKeepsHeap
  <2> QED
    BY <2>1 DEF IsRecut
<1>2. e \in Nat /\ base \in Nat
  BY ChunkFacts
<1>3. g[e].cur
  BY <1>1, <1>2 DEF SameOutside
<1>4. RegionCoalesced(g, {base, rest}, {})
  BY <1>1, <1>3 DEF RegionCoalesced
<1> QED
  BY <1>1, <1>2, <1>4, RetileCoalesced

(* A block takes in the end of heap, and what is left becomes the end.     *)
LEMMA ExtendTidies ==
  ASSUME NEW h, NEW end, HeapInv(h, end), NEW c \in DOMAIN h,
         NEW g, NEW n \in Nat, NEW rest, NEW request, IsExtended(h, g, c, n, end, rest, request)
  PROVE  Tidies(h, {}, g, {})
<1> SUFFICES ASSUME Coalesced(h, {})
             PROVE  Coalesced(g, {})
  BY DEF Tidies
<1> DEFINE e == c + n + 1
<1>1. e \in Nat
  BY ChunkFacts
<1>2. /\ g[c].cur /\ NEXT_HEAP_CHUNK(g, rest) = e /\ e \notin DOMAIN g
      /\ SameOutside(h, g, c, e) /\ RegionOf(h, g, c, e, {c, rest})
  BY DEF IsExtended
<1> HIDE DEF e
<1>3. RegionCoalesced(g, {c, rest}, {})
  BY <1>2 DEF RegionCoalesced
<1> QED
  BY <1>1, <1>2, <1>3, RetileCoalesced
=============================================================================
