-------------------------------- MODULE Bins --------------------------------
(* allocator.c: all bins together.  A chunk that becomes free is filed by   *)
(* its size; a chunk that is taken out belongs to the client, who may write *)
(* into every word that was a link.                                        *)
EXTENDS TreeBin

CONSTANT Sizings  \* the sizes of the chunks, in bytes: [Chunk -> Nat]

SMALLEST_MALLOC == 24
ASSUME SizingsAssumption ==
  \A size \in Sizings : size \in [Chunk -> Nat] /\ \A c \in Chunk : size[c] >= SMALLEST_MALLOC

VARIABLES
  memory,  \* as in CircularBin
  filed    \* the chunks that are in a bin (history)

vars == <<memory, filed>>

DATA == -2  \* what a client has written, never used as an address

insert_small_chunk(m, c) == insert_circular(m, small_request_index(m.size[c]), c)
remove_small_chunk(m, c) == remove_circular(m, small_request_index(m.size[c]), c)

BinOf(size) ==
  IF IS_HUGE_SIZE(size) THEN HUGE_BIN
  ELSE IF IS_LARGE_SIZE(size) THEN large_request_index(size) ELSE small_request_index(size)

insert_chunk(m, c) ==
  IF IS_LARGE_SIZE(m.size[c]) THEN insert_large_chunk(m, c) ELSE insert_small_chunk(m, c)

remove_chunk(m, c) ==
  IF IS_LARGE_SIZE(m.size[c]) THEN remove_large_chunk(m, c) ELSE remove_small_chunk(m, c)

(* The client's writes into a block.                                       *)
Written(m, c) ==
  [m EXCEPT !.next[c] = DATA, !.prev[c] = DATA, !.parent[c] = DATA, !.shift[c] = DATA,
            !.children[c] = [side \in 0 .. 1 |-> DATA]]

Init ==
  /\ \E size \in Sizings :
       memory = [bins |-> [n \in BinIndex |-> NULL], size |-> size,
                 next |-> [c \in Chunk |-> DATA], prev |-> [c \in Chunk |-> DATA],
                 parent |-> [c \in Chunk |-> DATA], shift |-> [c \in Chunk |-> DATA],
                 children |-> [c \in Chunk |-> [side \in 0 .. 1 |-> DATA]]]
  /\ filed = {}

Insert(c) ==
  /\ c \notin filed
  /\ memory' = insert_chunk(memory, c)
  /\ filed' = filed \cup {c}

Remove(c) ==
  /\ c \in filed
  /\ memory' = Written(remove_chunk(memory, c), c)
  /\ filed' = filed \ {c}

Next == \E c \in Chunk : Insert(c) \/ Remove(c)
Spec == Init /\ [][Next]_vars

-----------------------------------------------------------------------------
(* What the pointers lead to from a bin: a circle, or the circles of the    *)
(* nodes of a tree.                                                        *)
Children(m) == [c \in Chunk |-> {m.children[c][0], m.children[c][1]} \ {NULL}]
Nodes(m, n) == Reached(Children(m), {m.bins[n]} \ {NULL})
Below(m, c) == Reached(Children(m), {c})
Contents(m, n) ==
  IF n \in LargeBins THEN UNION {Circle(m, c) : c \in Nodes(m, n)} ELSE Circle(m, m.bins[n])

(* insert_chunk and remove_chunk: the pointers lead to the chunks that were *)
(* filed and not taken out, each in one bin; none is lost when the chunk    *)
(* that links it to the bin goes.                                          *)
Sets == INSTANCE BinSets WITH
  Filable <- Chunk,
  bin_of <- [c \in Chunk |-> BinOf(memory.size[c])],
  contents <- [n \in BinIndex |-> Contents(memory, n)]
ImplementsBinSets == Sets!Spec

(* is_circularly_linked_list: from every chunk in a bin the links lead back *)
(* to it in both directions, over the same chunks, and never to memory that *)
(* a client has written.                                                   *)
ListsCircular ==
  \A c \in filed :
    /\ Follow(memory.next, c) = Follow(memory.prev, c) /\ Follow(memory.next, c) \subseteq filed
    /\ memory.prev[memory.next[c]] = c /\ memory.next[memory.prev[c]] = c

(* is_valid_pointer_tree and IS_VALID_LARGE_CHUNK, and what makes a search  *)
(* right: what is below a child has the bit of its side, nodes have         *)
(* distinct sizes, and all chunks of a node have its shift.                *)
TreesValid ==
  \A n \in LargeBins :
    /\ memory.bins[n] # NULL => memory.parent[memory.bins[n]] = NO_PARENT_ROOT_NODE
    /\ \A c \in Nodes(memory, n) :
         /\ large_request_index(memory.size[c]) = n
         /\ \A side \in 0 .. 1 : memory.children[c][side] # NULL =>
              /\ memory.parent[memory.children[c][side]] = c
              /\ memory.shift[memory.children[c][side]] = memory.shift[c] - 1
              /\ \A d \in Below(memory, memory.children[c][side]) :
                   /\ memory.size[d] # memory.size[c]
                   /\ Bit(memory.size[d], memory.shift[c]) = side
         /\ \A d \in Circle(memory, c) \ {c} :
              /\ memory.size[d] = memory.size[c] /\ memory.shift[d] = memory.shift[c]
              /\ memory.parent[d] = NO_PARENT_CIRCLE_NODE

(* Requests are sizes that chunks can have.                                *)
Requests == UNION {{size[c] : c \in Chunk} : size \in Sizings}
Smallest(S) == {c \in S : \A d \in S : memory.size[c] <= memory.size[d]}

(* find_best_chunk, small_malloc and huge_malloc look at a few chunks only. *)
(* They find a chunk that fits if the bin has one, one of the very size if  *)
(* it has one, and the smallest where they look for that.                  *)
SearchesFind ==
  /\ \A request \in {r \in Requests : IS_LARGE_SIZE(r) /\ ~ IS_HUGE_SIZE(r)} :
       LET n == large_request_index(request)
           fit == {c \in Contents(memory, n) : memory.size[c] >= request}
           found == find_in_bin(memory, memory.bins[n], request)
       IN  IF fit = {} THEN found = NULL
           ELSE found \in fit /\ (memory.size[found] = request
                                    <=> \E c \in fit : memory.size[c] = request)
  /\ \A n \in LargeBins : memory.bins[n] # NULL =>
       find_smallest(memory, memory.bins[n]) \in Smallest(Contents(memory, n))
  /\ \A request \in {r \in Requests : IS_HUGE_SIZE(r)} :
       LET fit == {c \in Contents(memory, HUGE_BIN) : memory.size[c] >= request}
           found == huge_best_fit(memory, memory.bins[HUGE_BIN], request)
       IN  IF fit = {} THEN found = NULL ELSE found \in Smallest(fit)
=============================================================================
