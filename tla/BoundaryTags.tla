---------------------------- MODULE BoundaryTags ----------------------------
(***************************************************************************)
(* The boundary tags of mymalloc/allocator_helper.h: what the allocator    *)
(* keeps in memory before, and at the end of, every chunk of its heap.     *)
(*                                                                         *)
(* Addresses and sizes are counted in words of 8 bytes, the size of a      *)
(* size_int and of ALIGNMENT, so a chunk size has no low bits to mask and  *)
(* the two flags that share current_size with it are fields of their own:  *)
(*                                                                         *)
(*   h[c].size      CHUNK_SIZE(c), the usable words of chunk c             *)
(*   h[c].cur       the CURRENT_CHUNK_INUSE bit                            *)
(*   h[c].prev      the PREVIOUS_CHUNK_INUSE bit                           *)
(*   h[c].prevSize  previous_size: a word that belongs to the payload of   *)
(*                  the chunk below c while that chunk is in use           *)
(*                                                                         *)
(* A heap h is a function on the set of chunk addresses.  A header that is *)
(* swallowed by a neighbour leaves the domain, so reading a stale header   *)
(* is an error that TLC reports instead of a value.                        *)
(***************************************************************************)
EXTENDS Integers, Functions

(* The null pointer, and the least address of the simulated heap.          *)
NULL == 0
HEAP_LO == 1

(* Two pointers and a size_int; with the size_int of its own header.       *)
SMALLEST_MALLOC == 3
SMALLEST_CHUNK == SMALLEST_MALLOC + 1

(* What a client that owns the word previous_size may have left in it.  No *)
(* chunk is this small, so a step that trusted the word would miss every   *)
(* chunk.                                                                  *)
CLOBBERED == 0

CHUNK_SIZE(h, c) == h[c].size
NEXT_HEAP_CHUNK(h, c) == c + h[c].size + 1
PREVIOUS_HEAP_CHUNK(h, c) == c - h[c].prevSize - 1

IS_CURRENT_INUSE(h, c) == h[c].cur
IS_CURRENT_FREE(h, c) == ~h[c].cur
IS_PREVIOUS_INUSE(h, c) == h[c].prev
IS_PREVIOUS_FREE(h, c) == ~h[c].prev

(* A slip: room for the links of the rest, but not for its header.         *)
CAN_SPLIT_WITHOUT_HEADER(h, c, size) == CHUNK_SIZE(h, c) >= size + SMALLEST_MALLOC

CAN_SPLIT_CHUNK(h, c, size) == CHUNK_SIZE(h, c) >= size + SMALLEST_CHUNK
COMBINED_SIZES(h, left, right) == CHUNK_SIZE(h, left) + CHUNK_SIZE(h, right) + 1

(* A store to NEXT_HEAP_CHUNK(c)->previous_size.  Above the end of heap    *)
(* there is no chunk: the word is then the last one of its own payload.    *)
SetPreviousSize(h, c, size) ==
  IF c \in DOMAIN h THEN [h EXCEPT ![c].prevSize = size] ELSE h

WriteHeader(h, c, header) ==
  [x \in DOMAIN h \cup {c} |-> IF x = c THEN header ELSE h[x]]

(* The part of the heap left once base extends over size words.            *)
Swallow(h, base, size) ==
  Restrict(h, {x \in DOMAIN h : x <= base \/ x > base + size})

(* The address at which a chunk cut after request words leaves its rest.   *)
Remainder(c, request) == c + request + 1

(* A slip: a remainder that counts the word of its own header as usable.   *)
split_chunk_without_header(h, c, request) ==
  LET leftover == CHUNK_SIZE(h, c) - request
  IN  WriteHeader([h EXCEPT ![c].size = request, ![c].cur = FALSE],
                  Remainder(c, request),
                  [size |-> leftover, cur |-> FALSE, prev |-> FALSE, prevSize |-> request])

(* split_chunk: the words after request become a free chunk of their own.  *)
split_chunk(h, c, request) ==
  LET leftover == CHUNK_SIZE(h, c) - request - 1
      next_chunk == Remainder(c, request)
      cut == WriteHeader([h EXCEPT ![c].size = request, ![c].cur = FALSE],
                         next_chunk,
                         [size |-> leftover, cur |-> FALSE,
                          prev |-> FALSE, prevSize |-> request])
  IN  SetPreviousSize(cut, next_chunk + leftover + 1, leftover)

(* A slip: the size of c is written above it as by split_chunk, although   *)
(* that word is the last one of the block that stays in use.               *)
split_mallocd_chunk_with_size(h, c, request) ==
  LET leftover == CHUNK_SIZE(h, c) - request - 1
      new_chunk == Remainder(c, request)
  IN  WriteHeader([h EXCEPT ![c].size = request, ![c].cur = TRUE],
                  new_chunk,
                  [size |-> leftover, cur |-> FALSE, prev |-> TRUE, prevSize |-> request])

(* split_mallocd_chunk: the same cut of a chunk that stays in use.  The    *)
(* flags of the chunk above the remainder are not touched.                 *)
split_mallocd_chunk(h, c, request) ==
  LET leftover == CHUNK_SIZE(h, c) - request - 1
      new_chunk == Remainder(c, request)
      cut == WriteHeader([h EXCEPT ![c].size = request, ![c].cur = TRUE],
                         new_chunk,
                         [size |-> leftover, cur |-> FALSE,
                          prev |-> TRUE, prevSize |-> CLOBBERED])
  IN  SetPreviousSize(cut, new_chunk + leftover + 1, leftover)

(* A slip: the chunk above still leads back to right, which is gone.       *)
combine_without_previous_size(h, left, right) ==
  Restrict([h EXCEPT ![left].size = COMBINED_SIZES(h, left, right), ![left].cur = FALSE],
           DOMAIN h \ {right})

(* combine_chunks: left takes over right and the header between them.      *)
combine(h, left, right) ==
  LET combined == COMBINED_SIZES(h, left, right)
      tagged == SetPreviousSize(h, NEXT_HEAP_CHUNK(h, right), combined)
  IN  Restrict([tagged EXCEPT ![left].size = combined, ![left].cur = FALSE],
               DOMAIN h \ {right})

(* The tail of my_malloc: c and the flag above it say that c is in use.    *)
(* From here on the client may write previous_size of the chunk above.     *)
mark_used(h, c) ==
  LET above == NEXT_HEAP_CHUNK(h, c)
  IN  [h EXCEPT ![c].cur = TRUE,
                ![above].prev = TRUE, ![above].prevSize = CLOBBERED]

(* A slip: the flag above is cleared, the size above is left to the client.*)
mark_free_without_size(h, c) ==
  [h EXCEPT ![c].cur = FALSE, ![NEXT_HEAP_CHUNK(h, c)].prev = FALSE]

(* The head of my_free: the flags, and the size word the client gives back.*)
mark_free(h, c) ==
  LET above == NEXT_HEAP_CHUNK(h, c)
  IN  [h EXCEPT ![c].cur = FALSE,
                ![above].prev = FALSE, ![above].prevSize = CHUNK_SIZE(h, c)]

(* base extends over n words and is in use.                                *)
Resized(h, base, n) == [Swallow(h, base, n) EXCEPT ![base].size = n, ![base].cur = TRUE]

(* base, which extends over n words, is cut; the chunk above is told.      *)
CutAndTagged(h, base, request, above) ==
  LET cut == split_mallocd_chunk(h, base, request)
  IN  [cut EXCEPT ![above].prev = FALSE,
                  ![above].prevSize = CHUNK_SIZE(cut, Remainder(base, request))]

(* c extends over n words, into or past the end of heap.                   *)
Extended(h, c, n) == [Swallow(h, c, n) EXCEPT ![c].size = n]

-----------------------------------------------------------------------------
(* What makes a heap of a function on chunk addresses.                     *)

Header == [size : Nat, cur : BOOLEAN, prev : BOOLEAN, prevSize : Nat]

HeapTyped(h, end) ==
  /\ h \in [DOMAIN h -> Header]
  /\ DOMAIN h \subseteq Nat \ {NULL}
  /\ HEAP_LO \in DOMAIN h
  /\ end \in DOMAIN h /\ IS_CURRENT_FREE(h, end)
  /\ \A c \in DOMAIN h : CHUNK_SIZE(h, c) >= SMALLEST_MALLOC

(* Every chunk but the first begins where the one below it ends.           *)
Tiled(h, end) ==
  /\ \A c \in DOMAIN h : c <= end
  /\ \A c \in DOMAIN h \ {end} : NEXT_HEAP_CHUNK(h, c) \in DOMAIN h
  /\ \A c, d \in DOMAIN h : c < d => NEXT_HEAP_CHUNK(h, c) <= d

(* previous_size of d leads to a free chunk that ends at d.                *)
LeadsToFree(h, d) ==
  LET below == PREVIOUS_HEAP_CHUNK(h, d)
  IN  below \in DOMAIN h /\ IS_CURRENT_FREE(h, below) /\ NEXT_HEAP_CHUNK(h, below) = d

(* The flag of d can be trusted where it says that the chunk below is free.*)
(* Where it says in use, the chunk below may be either; above a chunk that *)
(* is in use previous_size is part of the payload.                         *)
Tagged(h) ==
  /\ \A c \in DOMAIN h : IS_CURRENT_INUSE(h, c) => IS_PREVIOUS_INUSE(h, NEXT_HEAP_CHUNK(h, c))
  /\ \A c \in DOMAIN h : IS_CURRENT_INUSE(h, c) => h[NEXT_HEAP_CHUNK(h, c)].prevSize = CLOBBERED
  /\ \A d \in DOMAIN h : IS_PREVIOUS_FREE(h, d) => LeadsToFree(h, d)

HeapInv(h, end) == HeapTyped(h, end) /\ Tiled(h, end) /\ Tagged(h)
=============================================================================
