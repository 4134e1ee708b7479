---------------------------- MODULE CircularBin ----------------------------
(* allocator.c: the bins whose chunks are linked in a circle, through words *)
(* of their payloads: those of small chunks, and that of huge chunks.       *)
(*                                                                          *)
(* A memory is a record: bins, the array of pointers to chunks; size, next, *)
(* prev, parent, children and shift, the fields of the chunks.  Operators   *)
(* return the memory after the statements they stand for, in their order.   *)
EXTENDS Integers, FiniteSets

CONSTANT Chunk  \* the addresses of chunks

NULL == 0
ASSUME ChunkAssumption == Chunk \subseteq Nat \ {NULL} /\ IsFiniteSet(Chunk)

CIRCULAR_LIST_IS_LENGTH_ONE(m, c) == m.next[c] = c /\ m.prev[c] = c

(* c comes before head.                                                    *)
link(m, c, head) ==
  LET m1 == [m EXCEPT !.next[c] = head, !.prev[c] = m.prev[head]]
      m2 == [m1 EXCEPT !.next[m1.prev[c]] = c]
  IN  [m2 EXCEPT !.prev[m2.next[c]] = c]

alone(m, c) == [m EXCEPT !.next[c] = c, !.prev[c] = c]

(* A slip: only the link of one neighbour is mended.                       *)
unlink_one_way(m, c) == [m EXCEPT !.next[m.prev[c]] = m.next[c]]

unlink(m, c) ==
  LET m1 == [m EXCEPT !.prev[m.next[c]] = m.prev[c]]
  IN  [m1 EXCEPT !.next[m1.prev[c]] = m1.next[c]]

insert_circular(m, n, c) ==
  [(IF m.bins[n] = NULL THEN alone(m, c) ELSE link(m, c, m.bins[n])) EXCEPT !.bins[n] = c]

(* A slip: the bin goes on pointing at the chunk removed.                  *)
remove_circular_not_head(m, n, c) ==
  IF CIRCULAR_LIST_IS_LENGTH_ONE(m, c) THEN [m EXCEPT !.bins[n] = NULL] ELSE unlink(m, c)

remove_circular(m, n, c) ==
  IF CIRCULAR_LIST_IS_LENGTH_ONE(m, c)
    THEN [m EXCEPT !.bins[n] = NULL]
    ELSE unlink([m EXCEPT !.bins[n] = IF @ = c THEN m.next[c] ELSE @], c)

(* What pointers lead to from the members of S.                            *)
Reached(pointers, S) ==
  LET level[k \in 0 .. Cardinality(Chunk)] ==
        IF k = 0 THEN S
        ELSE level[k - 1] \cup UNION {pointers[c] : c \in level[k - 1] \cap Chunk}
  IN  level[Cardinality(Chunk)]

(* What the links lead to, in either direction.                            *)
Follow(field, c) == Reached([d \in Chunk |-> {field[d]}], {c})
Circle(m, c) == IF c = NULL THEN {} ELSE Follow(m.next, c)

(* The statements of huge_malloc's loop, from the head of the circle on:    *)
(* the first of the smallest chunks that are large enough.                 *)
huge_best_fit(m, start, request) ==
  LET Better(c, best) ==
        m.size[c] >= request /\ (best = NULL \/ m.size[c] < m.size[best])
      scan[k \in 0 .. Cardinality(Chunk)] ==
        IF k = 0 THEN [current |-> start, best |-> NULL]
        ELSE LET s == scan[k - 1]
             IN  [current |-> m.next[s.current],
                  best |-> IF Better(s.current, s.best) THEN s.current ELSE s.best]
      rounds == Cardinality(Circle(m, start))
  IN  IF start = NULL THEN NULL ELSE scan[rounds].best
=============================================================================
