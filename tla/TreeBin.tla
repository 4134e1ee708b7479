------------------------------ MODULE TreeBin ------------------------------
(* allocator.c: the bins of large chunks.  The chunks of one size are       *)
(* linked in a circle, and one of them is a node of a binary tree, which    *)
(* goes left or right by one bit of the size at each level.                *)
EXTENDS CircularBin, Powers

CONSTANTS
  LARGE_LOG,  \* large chunks have at least 2 ^ LARGE_LOG bytes; the code's is 8
  HUGE_LOG    \* huge chunks have at least 2 ^ HUGE_LOG bytes; the code's is 24

ASSUME LogAssumption ==
  LARGE_LOG \in Nat /\ HUGE_LOG \in Nat /\ 6 <= LARGE_LOG /\ LARGE_LOG <= HUGE_LOG

NO_PARENT_CIRCLE_NODE == NULL
NO_PARENT_ROOT_NODE == -1

HUGE_BIN == 2
IS_LARGE_SIZE(size) == size >= PowerOf2[LARGE_LOG]
IS_HUGE_SIZE(size) == size >= PowerOf2[HUGE_LOG]
FAST_LOG2(size) ==
  CHOOSE l \in LARGE_LOG .. HUGE_LOG - 1 : PowerOf2[l] <= size /\ size < PowerOf2[l + 1]
Bit(size, shift) == (size \div PowerOf2[shift]) % 2

small_request_index(size) == size \div 8
FirstLargeBin == PowerOf2[LARGE_LOG] \div 8
large_request_index(size) ==
  LET l == FAST_LOG2(size)
  IN  FirstLargeBin + 2 * (l - LARGE_LOG) + Bit(size, l - 1)
LargeBins == FirstLargeBin .. FirstLargeBin + 2 * (HUGE_LOG - LARGE_LOG) - 1
BinIndex == {HUGE_BIN} \cup 3 .. FirstLargeBin - 1 \cup LargeBins

-----------------------------------------------------------------------------
(* new_child takes c's place below c's parent.                             *)
link_chunk_with_parent(m, c, new_child) ==
  LET m1 == IF m.parent[c] = NO_PARENT_ROOT_NODE
              THEN [m EXCEPT !.bins[large_request_index(m.size[c])] = new_child]
              ELSE [m EXCEPT !.children[m.parent[c]] =
                      [side \in 0 .. 1 |-> IF @[side] = c THEN new_child ELSE @[side]]]
      m2 == IF new_child = NULL THEN m1 ELSE [m1 EXCEPT !.parent[new_child] = m1.parent[c]]
  IN  [m2 EXCEPT !.parent[c] = NULL]

(* replacement takes c's place above c's children.                         *)
link_children_with_parent(m, c, replacement) ==
  LET m1 == [m EXCEPT !.children[replacement] = m.children[c]]
      kids == {m1.children[c][0], m1.children[c][1]} \ {NULL}
  IN  [m1 EXCEPT !.parent = [d \in Chunk |-> IF d \in kids THEN replacement ELSE @[d]]]

(* A loop that goes from x to step[x] until that changes nothing.  Loops    *)
(* that go down a tree take no more turns than there are chunks.           *)
Loop(step, x) ==
  LET turn[k \in 0 .. Cardinality(Chunk) + 1] == IF k = 0 THEN x ELSE step[turn[k - 1]]
  IN  turn[Cardinality(Chunk) + 1]

(* The leaf that one comes to from c, going to the given side if possible. *)
Leaf(m, side, c) ==
  Loop([d \in Chunk |-> IF m.children[d][side] # NULL THEN m.children[d][side]
                        ELSE IF m.children[d][1 - side] # NULL THEN m.children[d][1 - side]
                        ELSE d],
       c)

find_replacement_for_large_chunk(m, c) ==
  IF m.children[c][0] # NULL THEN Leaf(m, 1, m.children[c][0])
  ELSE IF m.children[c][1] # NULL THEN Leaf(m, 0, m.children[c][1]) ELSE NULL

(* A slip: only the first chunk of the circle gets the shift of its node.   *)
remove_large_single_chunk_one_shift(m, c) ==
  LET r == find_replacement_for_large_chunk(m, c)
      m1 == link_chunk_with_parent(m, r, NULL)
      m2 == [m1 EXCEPT !.shift[r] = m1.shift[c], !.parent[r] = m1.parent[c]]
  IN  IF r = NULL THEN link_chunk_with_parent(m, c, NULL)
      ELSE link_chunk_with_parent(link_children_with_parent(m2, c, r), c, r)

remove_large_single_chunk(m, c) ==
  LET r == find_replacement_for_large_chunk(m, c)
      m1 == link_chunk_with_parent(m, r, NULL)
      m2 == [m1 EXCEPT !.shift = [d \in Chunk |-> IF d \in Circle(m1, r) THEN @[c] ELSE @[d]],
                       !.parent[r] = m1.parent[c]]
  IN  IF r = NULL THEN link_chunk_with_parent(m, c, NULL)
      ELSE link_chunk_with_parent(link_children_with_parent(m2, c, r), c, r)

remove_large_linked_list_chunk(m, c) ==
  LET r == m.next[c]
      m1 == unlink(m, c)
  IN  IF m1.parent[c] = NO_PARENT_CIRCLE_NODE THEN m1
      ELSE link_chunk_with_parent(link_children_with_parent(m1, c, r), c, r)

remove_large_chunk(m, c) ==
  IF IS_HUGE_SIZE(m.size[c]) THEN remove_circular(m, HUGE_BIN, c)
  ELSE IF CIRCULAR_LIST_IS_LENGTH_ONE(m, c) THEN remove_large_single_chunk(m, c)
                                            ELSE remove_large_linked_list_chunk(m, c)

(* The node that insertion comes to: of the same size, or without a child  *)
(* on the side of the size.                                                *)
Place(m, root, size) ==
  Loop([d \in Chunk |-> LET child == m.children[d][Bit(size, m.shift[d])]
                        IN  IF m.size[d] = size \/ child = NULL THEN d ELSE child],
       root)

insert_large_chunk(m, c) ==
  LET size == m.size[c]
      n == large_request_index(size)
      cleared == [m EXCEPT !.children[c] = [side \in 0 .. 1 |-> NULL], !.parent[c] = NULL]
      at == Place(m, m.bins[n], size)
  IN  IF IS_HUGE_SIZE(size) THEN insert_circular(m, HUGE_BIN, c)
      ELSE IF m.bins[n] = NULL
        THEN [alone(cleared, c) EXCEPT !.parent[c] = NO_PARENT_ROOT_NODE,
                                       !.shift[c] = FAST_LOG2(size) - 2, !.bins[n] = c]
      ELSE IF m.size[at] = size
        THEN [link(cleared, c, at) EXCEPT !.parent[c] = NO_PARENT_CIRCLE_NODE,
                                          !.shift[c] = m.shift[at]]
      ELSE [alone(cleared, c) EXCEPT !.parent[c] = at, !.shift[c] = m.shift[at] - 1,
                                     !.children[at][Bit(size, m.shift[at])] = c]

-----------------------------------------------------------------------------
(* The searches, each a loop down one path of a tree.                      *)

(* Where a search is, and the best chunk it has come by.                   *)
Search == [current : Chunk \cup {NULL}, best : Chunk \cup {NULL}]

(* The search in the bin of the request: larger chunks on the path, and    *)
(* right children where the path goes left.                                *)
find_in_bin(m, root, request) ==
  LET Size(best) == IF best = NULL THEN 2 * request ELSE m.size[best]
      Better(c, best) == IF c # NULL /\ m.size[c] < Size(best) THEN c ELSE best
      Down(c, best) ==
        LET decision == Bit(request, m.shift[c])
            better == IF m.size[c] > request THEN Better(c, best) ELSE best
        IN  [current |-> m.children[c][decision],
             best |-> IF decision = 0 THEN Better(m.children[c][1], better) ELSE better]
      step == [s \in Search |->
                 IF s.current = NULL THEN s
                 ELSE IF m.size[s.current] = request THEN [s EXCEPT !.best = s.current]
                 ELSE Down(s.current, s.best)]
  IN  Loop(step, [current |-> root, best |-> NULL]).best

Smaller(m, c, d) == IF m.size[c] < m.size[d] THEN c ELSE d
(* A slip: the path goes right.                                            *)
find_smallest_to_the_right(m, root) ==
  LET step == [s \in Search |->
                 IF s.current = NULL THEN s
                 ELSE LET kids == m.children[s.current]
                      IN  [current |-> IF kids[1] # NULL THEN kids[1] ELSE kids[0],
                           best |-> Smaller(m, s.current, s.best)]]
  IN  Loop(step, [current |-> root, best |-> root]).best

(* The search in another bin: the smallest chunk, down the left side.      *)
find_smallest(m, root) ==
  LET step == [s \in Search |->
                 IF s.current = NULL THEN s
                 ELSE LET kids == m.children[s.current]
                      IN  [current |-> IF kids[0] # NULL THEN kids[0] ELSE kids[1],
                           best |-> Smaller(m, s.current, s.best)]]
  IN  Loop(step, [current |-> root, best |-> root]).best
=============================================================================
