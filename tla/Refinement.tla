----------------------------- MODULE Refinement -----------------------------
(***************************************************************************)
(* The allocator is a malloc package in the validator's sense: seen        *)
(* through the payloads of its blocks, in bytes, every call of its client  *)
(* is a step of RangeList or leaves the range list as it is.               *)
(***************************************************************************)
EXTENDS Allocator

ALIGNMENT == 8

(* CHUNK_TO_USER_POINTER, as a byte address.                               *)
UserPointer(c) == ALIGNMENT * (c + 2)

Extent(c) == [lo |-> UserPointer(c), hi |-> UserPointer(c) + live[c] - 1]

Validator == INSTANCE RangeList WITH
  R_ALIGNMENT <- ALIGNMENT,
  HeapLo <- ALIGNMENT * HEAP_LO,
  HeapMax <- ALIGNMENT * (HEAP_LO + MAX_HEAP),
  TraceSizes <- Sizes,
  ranges <- {Extent(c) : c \in DOMAIN live},
  heapHi <- ALIGNMENT * arena.brk - 1

(* allocator_interface.h: my_impl is one of the packages the driver may    *)
(* validate; each of its calls gives the validator nothing to reject.      *)
ImplementsRangeList == Validator!Spec
=============================================================================
