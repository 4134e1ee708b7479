---------------------------- MODULE IncludeOrder ----------------------------
(* clint.py, CheckIncludeLine and _IncludeState: headers of a file come in  *)
(* sections, its own first, then those of C, those of C++ and all others,   *)
(* and in alphabetical order within a section.                              *)
(*                                                                         *)
(* A header is known by its path, the rank of its canonical name in the     *)
(* alphabet, and what _ClassifyInclude asks of it.  The error about a name  *)
(* without a directory (clint.py:2426-2428) is told from one line, changes  *)
(* nothing else, and is left out.                                          *)
EXTENDS Naturals, Sequences

VARIABLES
  include_state,  \* the paths included so far
  section,        \* _section
  last_header,    \* _last_header: the rank, 0 for the empty string
  orders,         \* the lines with an error of category build/include_order
  alphas,         \* those with one of build/include_alpha
  duplicates      \* those with one of build/include

includeVars == <<include_state, section, last_header, orders, alphas, duplicates>>

_INITIAL_SECTION == 0
_MY_H_SECTION == 1
_C_SECTION == 2
_CPP_SECTION == 3
_OTHER_H_SECTION == 4

(* A base name that is the file's, in its directory or in public beside it, *)
(* makes a header likely to be its own; a common first component possibly.  *)
_ClassifyInclude(h) ==
  CASE h.system /\ h.stl -> "_CPP_SYS_HEADER"
    [] h.system /\ ~ h.stl -> "_C_SYS_HEADER"
    [] ~ h.system /\ h.same_base /\ h.same_dir -> "_LIKELY_MY_HEADER"
    [] ~ h.system /\ ~ (h.same_base /\ h.same_dir) /\ h.same_first -> "_POSSIBLE_MY_HEADER"
    [] OTHER -> "_OTHER_HEADER"

(* CheckNextIncludeOrder: the next section, and whether it is an error.     *)
SectionOf(type) ==
  CASE type = "_C_SYS_HEADER" -> _C_SECTION
    [] type = "_CPP_SYS_HEADER" -> _CPP_SECTION
    [] type \in {"_LIKELY_MY_HEADER", "_POSSIBLE_MY_HEADER"} -> _MY_H_SECTION
    [] OTHER -> _OTHER_H_SECTION

(* Only a header of the system can be out of order.                        *)
OutOfOrder(type) ==
  type \in {"_C_SYS_HEADER", "_CPP_SYS_HEADER"} /\ section > SectionOf(type)

(* As NextSection, for one that goes back to the section of the header, or  *)
(* on to the section after this one.                                       *)
NextSectionBack(type) == SectionOf(type)
NextSectionOn(type) == section + 1
NextSection(type) ==
  CASE OutOfOrder(type) -> section
    [] ~ OutOfOrder(type) /\ section <= SectionOf(type) -> SectionOf(type)
    [] OTHER -> _OTHER_H_SECTION

(* _last_header is forgotten when the section changes and after an error.   *)
LastBefore(type) ==
  IF OutOfOrder(type) \/ NextSection(type) # section THEN 0 ELSE last_header
(* IsInAlphabeticalOrder keeps the rank that a header is out of order with. *)
RankOfHeader(last, h) == h.rank
RankAfter(last, h) == IF last > h.rank THEN last ELSE h.rank

CheckIncludeLine(h, n) ==
  IF h.path \in include_state
    THEN /\ duplicates' = duplicates \cup {n}
         /\ UNCHANGED <<include_state, section, last_header, orders, alphas>>
    ELSE LET type == _ClassifyInclude(h)
             last == LastBefore(type)
         IN  /\ include_state' = include_state \cup {h.path}
             /\ section' = NextSection(type)
             /\ orders' = IF OutOfOrder(type) THEN orders \cup {n} ELSE orders
             /\ alphas' = IF last > h.rank THEN alphas \cup {n} ELSE alphas
             /\ last_header' = RankAfter(last, h)
             /\ UNCHANGED duplicates
=============================================================================
