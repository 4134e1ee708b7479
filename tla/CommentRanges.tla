--------------------------- MODULE CommentRanges ---------------------------
(* clint.py, RemoveMultiLineComments: the loop that clears the lines of     *)
(* multi-line comments before anything else looks at them.  A line is known *)
(* by a sketch of it; lines 0 and last are clint's own markers.             *)
EXTENDS Naturals, FiniteSetsExt

VARIABLES
  lines,      \* the lines of the file; cleared ones are "//"
  lineix,     \* the loop's variable
  comments,   \* "looking", or what the loop ended with: "done", "unclosed"
  unclosed    \* the line of 'Could not find end of multi-line comment', or 0

commentVars == <<lines, lineix, comments, unclosed>>

Opens(line) == line.is = "/*"             \* begins with it and has no */
OpensAfter(line) == line.is \in {"x; /*", "/* */ /*"}   \* begins otherwise
Closes(line) == line.is \in {"*/", "/* */"}    \* ends with */
ClosesWithin(line) == line.is = "*/ x;"   \* has it, and code after it

Dummy == [is |-> "//"]
LineCount == Cardinality(DOMAIN lines)

FindNextMultiLineCommentStart(i) ==
  Min({j \in i .. LineCount - 1 : Opens(lines[j])} \cup {LineCount})
FindNextMultiLineCommentEnd(i) ==
  Min({j \in i .. LineCount - 1 : Closes(lines[j])} \cup {LineCount})

(* As RemoveMultiLineCommentsFromRange, for a range that ends too early.    *)
ClearedAllButLast(begin, end) == [l \in DOMAIN lines |-> IF l \in begin .. end - 1 THEN Dummy ELSE lines[l]]
Cleared(begin, end) == [l \in DOMAIN lines |-> IF l \in begin .. end THEN Dummy ELSE lines[l]]

(* As RemoveMultiLineComments, for a loop that goes on after its error.     *)
RemoveWithoutReturn ==
  LET begin == FindNextMultiLineCommentStart(lineix)
      end == FindNextMultiLineCommentEnd(begin)
  IN  /\ comments = "looking"
      /\ IF end = LineCount
           THEN /\ comments' = IF begin = LineCount THEN "done" ELSE comments
                /\ UNCHANGED <<lines, lineix, unclosed>>
           ELSE /\ lines' = Cleared(begin, end)
                /\ lineix' = end + 1
                /\ UNCHANGED <<comments, unclosed>>

(* One turn of the loop.                                                   *)
RemoveMultiLineComments ==
  LET begin == FindNextMultiLineCommentStart(lineix)
      end == FindNextMultiLineCommentEnd(begin)
  IN  /\ comments = "looking"
      /\ \/ /\ begin = LineCount
            /\ comments' = "done"
            /\ UNCHANGED <<lines, lineix, unclosed>>
         \/ /\ begin < LineCount /\ end = LineCount
            /\ comments' = "unclosed" /\ unclosed' = begin + 1
            /\ UNCHANGED <<lines, lineix>>
         \/ /\ begin < LineCount /\ end < LineCount
            /\ lines' = Cleared(begin, end)
            /\ lineix' = end + 1
            /\ UNCHANGED <<comments, unclosed>>
=============================================================================
