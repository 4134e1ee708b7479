----------------------------- MODULE RangeList -----------------------------
(***************************************************************************)
(* mymalloc/validator.h: what the driver asks of a malloc package.  The    *)
(* validator keeps the extent of the payload of every block that the trace *)
(* holds and checks each pointer that malloc or realloc returns against    *)
(* it.  Read the other way round, the checks say which pointers a package  *)
(* may return, and nothing of how it finds them: any allocator whose       *)
(* steps are steps of this specification passes eval_mm_valid's checks.    *)
(*                                                                         *)
(* Addresses and sizes are in bytes.                                       *)
(***************************************************************************)
EXTENDS Integers

CONSTANTS
  R_ALIGNMENT,  \* the alignment that every payload must have
  HeapLo,       \* mem_heap_lo()
  HeapMax,      \* the first byte that the heap can never include
  TraceSizes    \* the sizes a trace asks for

VARIABLES
  ranges,  \* the extents [lo, hi] of the payloads of the trace's blocks
  heapHi   \* mem_heap_hi(), which a call of the package may move up

vars == <<ranges, heapHi>>

Range(lo, size) == [lo |-> lo, hi |-> lo + size - 1]

do_ranges_overlap(r1, r2) == ~ (r2.lo > r1.hi \/ r1.lo > r2.hi)

(* add_range: of a byte or more, aligned, inside the heap, apart from all   *)
(* payloads in others.                                                     *)
CanAdd(others, r) ==
  /\ r.hi >= r.lo
  /\ r.lo % R_ALIGNMENT = 0
  /\ r.lo >= HeapLo /\ r.hi <= heapHi'
  /\ \A p \in others : ~ do_ranges_overlap(p, r)

HeapGrows == heapHi' >= heapHi /\ heapHi' < HeapMax

Init == ranges = {} /\ heapHi \in HeapLo .. HeapMax - 1

(* A block of size bytes, at r, for old, an empty set for a new block.     *)
Replace(old, size) ==
  /\ HeapGrows
  /\ \E r \in ranges' :
       /\ r.lo \in Nat /\ r = Range(r.lo, size)
       /\ CanAdd(ranges \ old, r)
       /\ ranges' = (ranges \ old) \cup {r}

Alloc(size) == Replace({}, size)

Realloc(r, size) == Replace({r}, size)

Free(r) == ranges' = ranges \ {r} /\ UNCHANGED heapHi

Next ==
  \/ \E size \in TraceSizes : Alloc(size)
  \/ \E r \in ranges : Free(r)
  \/ \E r \in ranges, size \in TraceSizes : Realloc(r, size)

Spec == Init /\ [][Next]_vars
=============================================================================
