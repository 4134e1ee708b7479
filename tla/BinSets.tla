------------------------------ MODULE BinSets ------------------------------
(* What the bins promise: each holds the chunks of its sizes that were      *)
(* filed and not yet taken out.  This is the view that Allocator has.       *)
CONSTANTS
  Filable,  \* the chunks that can be filed
  BinIndex  \* the indices of the bins

VARIABLES
  bin_of,   \* the bin that the size of each chunk selects
  contents  \* [BinIndex -> sets of chunks]

Init ==
  /\ bin_of \in [Filable -> BinIndex]
  /\ contents = [n \in BinIndex |-> {}]

File(c) ==
  /\ c \notin contents[bin_of[c]]
  /\ contents' = [contents EXCEPT ![bin_of[c]] = @ \cup {c}]

Take(c) ==
  /\ c \in contents[bin_of[c]]
  /\ contents' = [contents EXCEPT ![bin_of[c]] = @ \ {c}]

Next == UNCHANGED bin_of /\ \E c \in Filable : File(c) \/ Take(c)

Spec == Init /\ [][Next]_<<bin_of, contents>>
=============================================================================
