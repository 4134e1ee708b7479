--------------------------- MODULE LintFileProofs ---------------------------
(* Proofs about clint.py's checks of a file: whatever its lines, the        *)
(* comments that are cleared, the bodies of functions that are reported,    *)
(* the order of the includes and the headers that are missing.              *)
EXTENDS LintFile, InductionLemmas, FiniteSetTheorems, TLAPS

(* The lines, with the two markers of clint, are cleared or as they were.   *)
LinesInv ==
  /\ LineCount \in Nat /\ LineCount >= 2
  /\ lines = [l \in 0 .. LineCount - 1 |-> lines[l]]
  /\ original = [l \in 0 .. LineCount - 1 |-> original[l]]
  /\ \A l \in 0 .. LineCount - 1 : lines[l] \in {original[l], Dummy}
  /\ original[0] = Dummy /\ original[LineCount - 1] = Dummy
  /\ \A l \in 0 .. LineCount - 1 :
       /\ IsLine(original[l])
       /\ original[l].is = "#include" => original[l].header.rank \in Nat

(* Where the phases of a file are.                                         *)
PhaseInv ==
  /\ phase \in {"comments", "lines", "joining", "includes", "linted", "crashed"}
  /\ n \in 0 .. LineCount /\ lineix \in 0 .. LineCount
  /\ comments \in {"looking", "done", "unclosed"}
  /\ phase = "comments" <=> comments = "looking"
  /\ phase = "comments" => n = 0
  /\ phase \in {"joining", "crashed"} => n < LineCount
  /\ phase \in {"includes", "linted"} => n = LineCount

-----------------------------------------------------------------------------
(* Lines.                                                                  *)

(* The number of lines that are numbered from 0.                            *)
LEMMA CountOfLines ==
  ASSUME NEW k \in Nat, DOMAIN lines = 0 .. k
  PROVE  LineCount = k + 1
<1>1. Cardinality(0 .. k) = k + 1
  BY FS_Interval
<1> QED
  BY <1>1 DEF LineCount

(* See CountOfLines.                                                       *)
LEMMA CountOfLinesNext ==
  ASSUME NEW k \in Nat, DOMAIN lines' = 0 .. k
  PROVE  LineCount' = k + 1
<1>1. Cardinality(0 .. k) = k + 1
  BY FS_Interval
<1> QED
  BY <1>1 DEF LineCount

(* The comment ranges that are looked for.                                 *)
LEMMA NextStart ==
  ASSUME LineCount \in Nat, NEW i \in 0 .. LineCount
  PROVE  LET begin == FindNextMultiLineCommentStart(i)
         IN  /\ begin \in i .. LineCount
             /\ begin < LineCount => Opens(lines[begin])
             /\ \A l \in i .. LineCount - 1 : l < begin => ~ Opens(lines[l])
<1> DEFINE S == {j \in i .. LineCount - 1 : Opens(lines[j])} \cup {LineCount}
<1>1. S \subseteq Nat /\ S # {}
  OBVIOUS
<1>2. Min(S) \in S /\ \A x \in S : Min(S) <= x
  <2> HIDE DEF S
  <2> QED
    BY <1>1, MinIsLeast
<1>3. FindNextMultiLineCommentStart(i) = Min(S)
  BY DEF FindNextMultiLineCommentStart
<1>4. \A l \in i .. LineCount - 1 : l < Min(S) => ~ Opens(lines[l])
  BY <1>2
<1> QED
  BY <1>2, <1>3, <1>4

(* See NextStart.                                                          *)
LEMMA NextEnd ==
  ASSUME LineCount \in Nat, NEW i \in 0 .. LineCount
  PROVE  LET end == FindNextMultiLineCommentEnd(i)
         IN  /\ end \in i .. LineCount
             /\ end < LineCount => Closes(lines[end])
             /\ \A l \in i .. LineCount - 1 : l < end => ~ Closes(lines[l])
<1> DEFINE S == {j \in i .. LineCount - 1 : Closes(lines[j])} \cup {LineCount}
<1>1. S \subseteq Nat /\ S # {}
  OBVIOUS
<1>2. Min(S) \in S /\ \A x \in S : Min(S) <= x
  <2> HIDE DEF S
  <2> QED
    BY <1>1, MinIsLeast
<1>3. FindNextMultiLineCommentEnd(i) = Min(S)
  BY DEF FindNextMultiLineCommentEnd
<1>4. \A l \in i .. LineCount - 1 : l < Min(S) => ~ Closes(lines[l])
  BY <1>2
<1> QED
  BY <1>2, <1>3, <1>4

(* A line that is cleared has no tokens.                                    *)
LEMMA TokensOfDummy == Tokens(Dummy) = <<>> /\ IsLine(Dummy)
<1>1. Tokens(Dummy) = TokensOf["//"]
  BY DEF Tokens, Dummy
<1>2. "//" \in Sketches
  BY DEF Sketches
<1>3. TokensOf["//"] = <<>>
  BY <1>2 DEF TokensOf
<1>4. IsLine(Dummy)
  BY <1>2 DEF IsLine, Dummy
<1> QED
  BY <1>1, <1>3, <1>4

(* The sequences that sketches stand for.                                  *)
LEMMA ShortSequences ==
  ASSUME NEW T
  PROVE  /\ <<>> \in Seq(T)
         /\ \A a \in T : <<a>> \in Seq(T)
         /\ \A a, b \in T : <<a, b>> \in Seq(T)
         /\ \A a, b, c \in T : <<a, b, c>> \in Seq(T)
<1> QED
  OBVIOUS

(* Lines are lists of tokens.                                              *)
LEMMA TokensOfLine ==
  ASSUME NEW line, IsLine(line)
  PROVE  Tokens(line) \in Seq(Words)
<1>1. CASE line.is = "code"
  BY <1>1 DEF IsLine, Tokens, Sketches
<1>2. CASE line.is # "code"
  <2>1. line.is \in Sketches /\ Tokens(line) = TokensOf[line.is]
    BY <1>2 DEF IsLine, Tokens
  <2>2. ASSUME NEW s \in Sketches
        PROVE  TokensOf[s] \in Seq(Words)
    <3> DEFINE V == {<<>>, <<"{">>, <<"}">>, <<"x", ";">>, <<"x", "{">>, <<"x", "{", "}">>,
                     <<"}", ";">>, <<"class", ";">>, <<"class">>, <<"class", "{">>,
                     <<"class", ":", "{">>, <<":", "{">>, <<"x", ":">>, <<"x">>, <<"x", ";", "x">>}
    <3>1. <<>> \in V /\ <<"{">> \in V /\ <<"}">> \in V /\ <<"x", ";">> \in V /\ <<"x", "{">> \in V
          /\ <<"x", "{", "}">> \in V /\ <<"}", ";">> \in V /\ <<"class", ";">> \in V
          /\ <<"class">> \in V /\ <<"class", "{">> \in V /\ <<"class", ":", "{">> \in V
          /\ <<":", "{">> \in V /\ <<"x", ":">> \in V /\ <<"x">> \in V /\ <<"x", ";", "x">> \in V
      BY Zenon
    <3>2. V \subseteq Seq(Words)
      <4> SUFFICES ASSUME NEW v \in V
                   PROVE  v \in Seq(Words)
        OBVIOUS
      <4>1. "x" \in Words /\ "{" \in Words /\ "}" \in Words /\ ";" \in Words
            /\ "class" \in Words /\ ":" \in Words
        BY DEF Words
      <4>2. /\ <<>> \in Seq(Words)
            /\ \A a \in Words : <<a>> \in Seq(Words)
            /\ \A a, b \in Words : <<a, b>> \in Seq(Words)
            /\ \A a, b, c \in Words : <<a, b, c>> \in Seq(Words)
        BY ShortSequences, Zenon
      <4> QED
        BY <4>1, <4>2, Zenon DEF V
    <3> HIDE DEF V
    <3>3. TokensOf[s] \in V
      BY <3>1 DEF TokensOf, Sketches
    <3> QED
      BY <3>2, <3>3
  <2> QED
    BY <2>1, <2>2
<1> QED
  BY <1>1, <1>2

(* The first lines of a file.                                              *)
LEMMA InitLines ==
  ASSUME Init
  PROVE  LinesInv /\ PhaseInv
<1>1. PICK profile \in Profiles : \E length \in 0 .. profile.max_lines :
        \E ls \in [1 .. length -> profile.alphabet] :
          original = [l \in 0 .. length + 1 |-> IF l \in DOMAIN ls THEN ls[l] ELSE Dummy]
  BY DEF Init
<1>2. PICK length \in 0 .. profile.max_lines : \E ls \in [1 .. length -> profile.alphabet] :
          original = [l \in 0 .. length + 1 |-> IF l \in DOMAIN ls THEN ls[l] ELSE Dummy]
  BY <1>1
<1>3. PICK ls \in [1 .. length -> profile.alphabet] :
          original = [l \in 0 .. length + 1 |-> IF l \in DOMAIN ls THEN ls[l] ELSE Dummy]
  BY <1>2
<1>4. length \in Nat
  BY ProfilesAssumption
<1>5. lines = original /\ DOMAIN lines = 0 .. length + 1
  BY <1>3 DEF Init
<1>6. LineCount = length + 2
  BY <1>4, <1>5, CountOfLines
<1>7. original = [l \in 0 .. LineCount - 1 |-> original[l]]
  BY <1>3, <1>4, <1>6
<1>8. original[0] = Dummy /\ original[LineCount - 1] = Dummy
  BY <1>3, <1>4, <1>6
<1>9. ASSUME NEW l \in 0 .. LineCount - 1, original[l].is = "#include"
      PROVE  original[l].header.rank \in Nat
  <2>1. Dummy.is # "#include"
    BY DEF Dummy
  <2>2. l \in 1 .. length /\ original[l] = ls[l] /\ ls[l] \in profile.alphabet
    BY <1>3, <1>4, <1>6, <1>9, <2>1
  <2> QED
    BY <1>9, <2>2, ProfilesAssumption
<1>10. ASSUME NEW l \in 0 .. LineCount - 1
       PROVE  IsLine(original[l])
  <2>1. CASE l \in 1 .. length
    <3>1. original[l] = ls[l] /\ ls[l] \in profile.alphabet
      BY <1>3, <1>4, <1>6, <2>1
    <3> QED
      BY <3>1, ProfilesAssumption
  <2>2. CASE l \notin 1 .. length
    <3>1. original[l] = Dummy
      BY <1>3, <1>4, <1>6, <2>2
    <3> QED
      BY <3>1, TokensOfDummy
  <2> QED
    BY <2>1, <2>2
<1>11. LinesInv
  BY <1>4, <1>5, <1>6, <1>7, <1>8, <1>9, <1>10 DEF LinesInv
<1>12. PhaseInv
  BY <1>4, <1>6 DEF Init, PhaseInv
<1> QED
  BY <1>11, <1>12

(* Only comments are cleared.                                              *)
LEMMA LinesStep ==
  ASSUME LinesInv, PhaseInv, [Next]_vars
  PROVE  LinesInv' /\ LineCount' = LineCount
<1>1. CASE lines' = lines /\ original' = original
  BY <1>1 DEF LinesInv, LineCount
<1>2. CASE ClearComments /\ lines' # lines
  <2> DEFINE begin == FindNextMultiLineCommentStart(lineix)
             end == FindNextMultiLineCommentEnd(begin)
  <2>1. lines' = Cleared(begin, end) /\ original' = original
    BY <1>2 DEF ClearComments, RemoveMultiLineComments, constantVars
  <2>2. LineCount \in Nat /\ LineCount >= 2 /\ DOMAIN lines = 0 .. LineCount - 1
    BY DEF LinesInv
  <2>3. lines' = [l \in 0 .. LineCount - 1 |-> IF l \in begin .. end THEN Dummy ELSE lines[l]]
    BY <2>1, <2>2 DEF Cleared
  <2>4. LineCount' = LineCount
    BY <2>2, <2>3, CountOfLinesNext
  <2> HIDE DEF begin, end
  <2>5. \A l \in 0 .. LineCount - 1 : lines'[l] \in {lines[l], Dummy}
    BY <2>3
  <2>6. lines' = [l \in 0 .. LineCount - 1 |-> lines'[l]]
    BY <2>3
  <2> QED
    BY <2>1, <2>4, <2>5, <2>6 DEF LinesInv
<1>3. CASE ~ ClearComments
  <2>1. lines' = lines /\ original' = original
    BY <1>3 DEF Next, ProcessFileData, ProcessLine, Crash, BeginJoining, JoinPreviousLine,
      FinishLine, EndLines, CheckForIncludeWhatYouUse, Ended, vars, constantVars, commentVars
  <2> QED
    BY <1>1, <2>1
<1> QED
  BY <1>1, <1>2, <1>3 DEF ClearComments, constantVars

(* The phases of a file.                                                   *)
LEMMA PhaseStep ==
  ASSUME LinesInv, PhaseInv, [Next]_vars
  PROVE  PhaseInv'
<1>0. /\ LineCount' = LineCount /\ LineCount \in Nat /\ LineCount >= 2
      /\ DOMAIN lines = 0 .. LineCount - 1
      /\ n \in 0 .. LineCount /\ lineix \in 0 .. LineCount
      /\ comments \in {"looking", "done", "unclosed"}
      /\ phase = "comments" <=> comments = "looking"
  BY LinesStep DEF LinesInv, PhaseInv
<1>1. CASE UNCHANGED vars
  BY <1>0, <1>1 DEF vars, commentVars, PhaseInv
<1>2. CASE ClearComments
  <2> DEFINE begin == FindNextMultiLineCommentStart(lineix)
             end == FindNextMultiLineCommentEnd(begin)
  <2>1. n' = n /\ n = 0
    BY <1>2 DEF ClearComments, PhaseInv
  <2>2. comments' \in {"looking", "done", "unclosed"}
        /\ phase' = IF comments' = "looking" THEN "comments" ELSE "lines"
    BY <1>0, <1>2 DEF ClearComments, RemoveMultiLineComments
  <2>3. begin \in 0 .. LineCount /\ end \in begin .. LineCount
    BY <1>0, NextStart, NextEnd
  <2>4. lineix' \in 0 .. LineCount
    <3>1. lineix' = lineix \/ (end < LineCount /\ lineix' = end + 1)
      BY <1>2 DEF ClearComments, RemoveMultiLineComments
    <3> HIDE DEF begin, end
    <3> QED
      BY <1>0, <2>3, <3>1
  <2> QED
    BY <1>0, <2>1, <2>2, <2>4 DEF PhaseInv
<1>3. CASE ProcessLine \/ Crash \/ BeginJoining \/ JoinPreviousLine \/ FinishLine \/ EndLines
           \/ CheckForIncludeWhatYouUse
  <2>1. lineix' = lineix /\ comments' = comments /\ phase # "comments"
    BY <1>3 DEF ProcessLine, Crash, BeginJoining, JoinPreviousLine, FinishLine, EndLines,
      CheckForIncludeWhatYouUse, commentVars
  <2>2. CASE ProcessLine
    BY <1>0, <2>1, <2>2 DEF ProcessLine, RestOfLine, PhaseInv
  <2>3. CASE Crash \/ BeginJoining
    BY <1>0, <2>1, <2>3 DEF Crash, BeginJoining, PhaseInv
  <2>4. CASE JoinPreviousLine
    BY <1>0, <2>1, <2>4 DEF JoinPreviousLine, PhaseInv
  <2>5. CASE FinishLine
    BY <1>0, <2>1, <2>5 DEF FinishLine, RestOfLine, PhaseInv
  <2>6. CASE EndLines
    BY <1>0, <2>1, <2>6 DEF EndLines, PhaseInv
  <2>7. CASE CheckForIncludeWhatYouUse
    BY <1>0, <2>1, <2>7 DEF CheckForIncludeWhatYouUse, PhaseInv
  <2> QED
    BY <1>3, <2>2, <2>3, <2>4, <2>5, <2>6, <2>7
<1> QED
  BY <1>1, <1>2, <1>3 DEF Next, ProcessFileData, Ended

(* What is added up, line by line.                                         *)
LEMMA SumsRead ==
  ASSUME NEW N \in Nat, NEW added, DOMAIN added = 0 .. N - 1,
         \A l \in 0 .. N - 1 : added[l] \in Int
  PROVE  /\ \A l \in 0 .. N : SumsBefore(added)[l] \in Int
         /\ \A l \in 0 .. N - 1 : SumsBefore(added)[l + 1] = SumsBefore(added)[l] + added[l]
<1> DEFINE Added(l) == IF l \in 1 .. N THEN added[l - 1] ELSE 0
           Loop(f) == f = [l \in 0 .. N |-> IF l = 0 THEN 0 ELSE f[l - 1] + added[l - 1]]
           step == [p \in Nat \X Int |-> p[2] + Added(p[1])]
<1>1. Cardinality(DOMAIN added) = N
  <2>1. Cardinality(0 .. N - 1) = N
    BY FS_Interval
  <2> QED
    BY <2>1
<1>2. \A l \in Nat : Added(l) \in Int
  OBVIOUS
<1>3. step \in [Nat \X Int -> Int]
  <2> HIDE DEF Added
  <2> QED
    BY <1>2
<1>4. PICK g \in [0 .. N -> Int] : g[0] = 0 /\ \A i \in 1 .. N : g[i] = step[<<i, g[i - 1]>>]
  <2> DEFINE base == 0
             V == Int
  <2>1. base \in V /\ step \in [Nat \X V -> V]
    BY <1>3
  <2> HIDE DEF step, base, V
  <2>2. \E g : Recursive(g, V, base, step, N)
    BY <2>1, RecursionExists, Zenon
  <2> QED
    BY <2>2, Zenon DEF base, V, Recursive
<1>5. Loop(g)
  <2>1. ASSUME NEW i \in 1 .. N
        PROVE  g[i] = g[i - 1] + added[i - 1]
    <3>1. i \in Nat /\ i - 1 \in 0 .. N
      OBVIOUS
    <3> DEFINE b == g[i - 1]
    <3>2. b \in Int /\ g[i] = step[<<i, b>>]
      BY <1>4, <3>1
    <3>3. <<i, b>> \in Nat \X Int
      BY <3>1, <3>2
    <3> HIDE DEF Added, b
    <3>4. step[<<i, b>>] = b + Added(i)
      BY <3>3
    <3>5. Added(i) = added[i - 1]
      BY DEF Added
    <3> QED
      BY <3>2, <3>4, <3>5 DEF b
  <2>2. g = [i \in 0 .. N |-> g[i]]
    BY <1>4
  <2>3. \A i \in 0 .. N : i # 0 => i \in 1 .. N
    OBVIOUS
  <2> HIDE DEF step
  <2>4. ASSUME NEW i \in 0 .. N
        PROVE  g[i] = IF i = 0 THEN 0 ELSE g[i - 1] + added[i - 1]
    BY <1>4, <2>1, <2>3, Zenon
  <2> QED
    BY <2>2, <2>4, Zenon
<1> DEFINE f == CHOOSE h : Loop(h)
<1>6. Loop(f)
  <2> HIDE DEF Loop
  <2> QED
    BY <1>5, Zenon
<1>7. SumsBefore(added) = f
  BY <1>1, Zenon DEF SumsBefore
<1> HIDE DEF f
<1>8. f[0] = 0
  BY <1>6
<1>9. ASSUME NEW l \in 0 .. N - 1
      PROVE  f[l + 1] = f[l] + added[l]
  <2>1. l + 1 \in 0 .. N /\ l + 1 # 0 /\ l + 1 - 1 = l
    OBVIOUS
  <2>2. ASSUME NEW i \in 0 .. N, i # 0
        PROVE  f[i] = f[i - 1] + added[i - 1]
    BY <1>6, <2>2, Zenon
  <2> QED
    BY <2>1, <2>2
<1>10. \A l \in 0 .. N : f[l] \in Int
  <2> DEFINE S == {l \in Nat : l <= N => f[l] \in Int}
  <2>1. 0 \in S
    BY <1>8
  <2>2. ASSUME NEW l \in Nat, l \in S
        PROVE  l + 1 \in S
    <3> SUFFICES ASSUME l + 1 <= N
                 PROVE  f[l + 1] \in Int
      OBVIOUS
    <3>1. l \in 0 .. N - 1 /\ f[l] \in Int
      BY <2>2
    <3> QED
      BY <1>9, <3>1
  <2> HIDE DEF S
  <2>3. \A l \in Nat : l \in S
    BY <2>1, <2>2, SetInduction
  <2> QED
    BY <2>3 DEF S
<1> QED
  BY <1>7, <1>9, <1>10

-----------------------------------------------------------------------------
(* The headers that are missing.                                           *)

(* found is what the headers looked at so far include, and header_found     *)
(* says whether one of them is the header of the module.                    *)
Looked == include_state \ header_keys
FoundInv ==
  /\ phase \notin {"includes", "linted"} => header_found = FALSE
  /\ phase \in {"includes", "linted"} =>
       /\ header_keys \subseteq include_state
       /\ found = include_state
                    \cup UNION {Loads(source, h) : h \in {k \in Looked : CanLoad(source, k)}}
       /\ header_found <=> \E h \in Looked : CanLoad(source, h)
  /\ phase = "linted" =>
       /\ header_keys = {}
       /\ missing = IF Last(source) = ".c" /\ ~ header_found THEN {} ELSE Required \ found

(* A turn of the loop over the headers.                                     *)
LEMMA HeaderLooked ==
  ASSUME phase = "includes", FoundInv, UpdateIncludeState(source), phase' = phase,
         source' = source, include_state' = include_state
  PROVE  FoundInv'
<1>1. PICK h \in header_keys :
        /\ header_keys' = header_keys \ {h}
        /\ IF CanLoad(source, h)
             THEN found' = found \cup Loads(source, h) /\ header_found' = TRUE
             ELSE UNCHANGED <<found, header_found>>
  BY DEF UpdateIncludeState
<1>2. /\ header_keys \subseteq include_state
      /\ found = include_state
                   \cup UNION {Loads(source, g) : g \in {k \in Looked : CanLoad(source, k)}}
      /\ header_found <=> \E g \in Looked : CanLoad(source, g)
  BY DEF FoundInv
<1>3. Looked' = Looked \cup {h}
  BY <1>1, <1>2 DEF Looked
<1>4. found' = include_state
                 \cup UNION {Loads(source, g) : g \in {k \in Looked' : CanLoad(source, k)}}
  <2>1. CASE CanLoad(source, h)
    <3>1. {k \in Looked' : CanLoad(source, k)} = {k \in Looked : CanLoad(source, k)} \cup {h}
      BY <1>3, <2>1
    <3> QED
      BY <1>1, <1>2, <2>1, <3>1
  <2>2. CASE ~ CanLoad(source, h)
    <3>1. {k \in Looked' : CanLoad(source, k)} = {k \in Looked : CanLoad(source, k)}
      BY <1>3, <2>2
    <3> QED
      BY <1>1, <1>2, <2>2, <3>1
  <2> QED
    BY <2>1, <2>2
<1>5. header_found' <=> \E g \in Looked' : CanLoad(source, g)
  BY <1>1, <1>2, <1>3
<1>6. header_keys' \subseteq include_state
  BY <1>1, <1>2
<1> QED
  BY <1>4, <1>5, <1>6 DEF FoundInv

(* Nothing else disturbs what the headers include.                         *)
LEMMA FoundStep ==
  ASSUME LinesInv, PhaseInv, FoundInv, [Next]_vars
  PROVE  FoundInv'
<1>1. CASE UNCHANGED <<phase, found, header_keys, header_found, missing, include_state, source, lines>>
  BY <1>1 DEF FoundInv, Looked, Required
<1>2. CASE ClearComments \/ ProcessLine \/ Crash \/ BeginJoining \/ JoinPreviousLine \/ FinishLine
  <2>1. phase' \notin {"includes", "linted"} /\ phase \notin {"includes", "linted"}
        /\ header_found' = header_found
    BY <1>2 DEF ClearComments, ProcessLine, Crash, BeginJoining, JoinPreviousLine, FinishLine,
      iwyuVars
  <2> QED
    BY <2>1 DEF FoundInv
<1>3. CASE EndLines
  <2>1. phase' = "includes" /\ include_state' = include_state /\ header_keys' = include_state
        /\ found' = include_state /\ header_found' = header_found /\ phase = "lines"
    BY <1>3 DEF EndLines, includeVars
  <2>2. Looked' = {}
    BY <2>1 DEF Looked
  <2> QED
    BY <2>1, <2>2 DEF FoundInv
<1>4. CASE CheckForIncludeWhatYouUse
  <2>1. phase = "includes" /\ source' = source /\ include_state' = include_state /\ lines' = lines
    BY <1>4 DEF CheckForIncludeWhatYouUse, constantVars, includeVars, commentVars
  <2>2. CASE UpdateIncludeState(source) /\ phase' = phase
    BY <2>1, <2>2, HeaderLooked
  <2>3. CASE ReportMissing(source, Required) /\ phase' = "linted"
    <3>1. header_keys = {} /\ UNCHANGED <<found, header_keys, header_found>>
          /\ missing' = IF Last(source) = ".c" /\ ~ header_found THEN {} ELSE Required \ found
      BY <2>3 DEF ReportMissing
    <3> QED
      BY <2>1, <2>3, <3>1 DEF FoundInv, Looked, Required
  <2> QED
    BY <1>4, <2>2, <2>3 DEF CheckForIncludeWhatYouUse
<1> QED
  BY <1>1, <1>2, <1>3, <1>4 DEF Next, ProcessFileData, Ended, vars, iwyuVars, includeVars, commentVars

(* What is missing in the end is what the property says.                    *)
LEMMA MissingOfFound ==
  ASSUME FoundInv
  PROVE  MissingIsDetermined
<1> SUFFICES ASSUME phase = "linted"
             PROVE  MissingIsDetermined
  BY DEF MissingIsDetermined
<1>1. Looked = include_state
  BY DEF FoundInv, Looked
<1>2. header_found <=> {h \in include_state : CanLoad(source, h)} # {}
  BY <1>1 DEF FoundInv
<1>3. found = include_state \cup UNION {Loads(source, h) : h \in {k \in include_state : CanLoad(source, k)}}
  BY <1>1 DEF FoundInv
<1>4. missing = IF Last(source) = ".c" /\ ~ header_found THEN {} ELSE Required \ found
  BY DEF FoundInv
<1> QED
  BY <1>2, <1>3, <1>4 DEF MissingIsDetermined

-----------------------------------------------------------------------------
(* The order of the includes.                                              *)

Before(m) == {l \in 0 .. m - 1 : Included(l)}
Rank(l) == lines[l].header.rank

(* The section s is the last one that a header before line m belongs to.    *)
InSections(m, s) ==
  /\ \A k \in Before(m) : Place(k) <= s
  /\ s # 0 => \E k \in Before(m) : Place(k) = s

(* The headers before line m that the next one is compared with, and the    *)
(* highest rank r among them.                                              *)
Compared(m) == {k \in Before(m) : \A j \in Before(m) : k < j => Continues(j)}
Ranked(m, r) ==
  /\ \A k \in Compared(m) : Rank(k) <= r
  /\ r # 0 => \E k \in Compared(m) : Rank(k) = r

(* A header after one of a later section, and one that has a higher rank    *)
(* than the header of line l, among those that it is compared with.         *)
Late(l) == \E k \in Before(l) : Place(k) > Place(l)
Misplaced(l) ==
  \E k \in Before(l) : Rank(k) > Rank(l) /\ \A j \in Before(l + 1) : k < j => Continues(j)

IncludesInv ==
  /\ section \in 0 .. 4 /\ last_header \in Nat
  /\ duplicates \subseteq {l \in 1 .. LineCount - 2 : l < n}
  /\ include_state = {lines[k].header.path : k \in {j \in 0 .. n - 1 : lines[j].is = "#include"}}
  /\ InSections(n, section) /\ Ranked(n, last_header)
  /\ orders = {l \in Before(n) : Late(l)}
  /\ alphas = {l \in Before(n) : Misplaced(l)}

(* One more line.                                                          *)
LEMMA BeforeNext ==
  ASSUME NEW m \in Nat
  PROVE  Before(m + 1) = IF Included(m) THEN Before(m) \cup {m} ELSE Before(m)
<1>1. 0 .. (m + 1) - 1 = (0 .. m - 1) \cup {m}
  OBVIOUS
<1> QED
  BY <1>1 DEF Before

(* The headers are those before the line after the last.                    *)
LEMMA HeadersBefore ==
  ASSUME LinesInv, NEW m \in 0 .. LineCount
  PROVE  Before(m) = {k \in Headers : k < m}
<1>1. DOMAIN lines = 0 .. LineCount - 1 /\ LineCount \in Nat
  BY DEF LinesInv
<1>2. \A k : k \in 0 .. m - 1 <=> k \in 0 .. LineCount - 1 /\ k < m
  BY <1>1
<1> QED
  BY <1>1, <1>2 DEF Before, Headers

(* A header is on a line of the file that has a rank.                       *)
LEMMA HeaderHasRank ==
  ASSUME LinesInv, NEW m \in 0 .. LineCount - 1, lines[m].is = "#include"
  PROVE  m \in 1 .. LineCount - 2 /\ Rank(m) \in Nat
<1>1. Dummy.is # "#include"
  BY DEF Dummy
<1>2. lines[m] = original[m] /\ m # 0 /\ m # LineCount - 1
  BY <1>1 DEF LinesInv
<1> QED
  BY <1>2 DEF LinesInv, Rank

(* What is included before line m.                                         *)
LEMMA BeforeLine ==
  ASSUME LinesInv, NEW m \in 0 .. LineCount, NEW k \in Before(m)
  PROVE  k \in 1 .. LineCount - 2 /\ k < m /\ Rank(k) \in Nat
<1>1. k \in 0 .. LineCount - 1 /\ k < m /\ lines[k].is = "#include"
  BY DEF Before, Included, LinesInv
<1> QED
  BY <1>1, HeaderHasRank

(* The types of a header.                                                  *)
LEMMA Types ==
  ASSUME NEW l
  PROVE  TypeAt(l) \in {"_C_SYS_HEADER", "_CPP_SYS_HEADER", "_OTHER_HEADER"} \cup Mine
BY DEF TypeAt, _ClassifyInclude, Mine

(* They are different.                                                     *)
LEMMA TypesDiffer ==
  /\ "_C_SYS_HEADER" \notin Mine /\ "_CPP_SYS_HEADER" \notin Mine /\ "_OTHER_HEADER" \notin Mine
  /\ "_C_SYS_HEADER" # "_OTHER_HEADER" /\ "_CPP_SYS_HEADER" # "_OTHER_HEADER"
  /\ "_C_SYS_HEADER" # "_CPP_SYS_HEADER"
BY DEF Mine

(* The section that a header belongs to.                                   *)
LEMMA PlaceIs ==
  ASSUME LinesInv, NEW m \in 0 .. LineCount
  PROVE  LET own == \A k \in Before(m) : TypeAt(k) \in Mine
         IN  /\ Place(m) \in 1 .. 4
             /\ TypeAt(m) = "_C_SYS_HEADER" => Place(m) = 2
             /\ TypeAt(m) = "_CPP_SYS_HEADER" => Place(m) = 3
             /\ TypeAt(m) \in Mine /\ own => Place(m) = 1
             /\ TypeAt(m) \in Mine /\ ~ own => Place(m) = 4
             /\ TypeAt(m) \notin Mine \cup {"_C_SYS_HEADER", "_CPP_SYS_HEADER"} => Place(m) = 4
<1> DEFINE own == \A k \in Before(m) : TypeAt(k) \in Mine
<1>1. (\A k \in Headers : k < m => TypeAt(k) \in Mine) <=> own
  BY HeadersBefore
<1> HIDE DEF own
<1>2. Place(m) = CASE TypeAt(m) = "_C_SYS_HEADER" -> 2
                   [] TypeAt(m) = "_CPP_SYS_HEADER" -> 3
                   [] TypeAt(m) \in Mine /\ own -> 1
                   [] OTHER -> 4
  BY <1>1 DEF Place, _C_SECTION, _CPP_SECTION, _MY_H_SECTION, _OTHER_H_SECTION
<1>3. CASE TypeAt(m) = "_C_SYS_HEADER"
  BY <1>2, <1>3, TypesDiffer DEF own
<1>4. CASE TypeAt(m) = "_CPP_SYS_HEADER"
  BY <1>2, <1>4, TypesDiffer DEF own
<1>5. CASE TypeAt(m) \notin {"_C_SYS_HEADER", "_CPP_SYS_HEADER"}
  <2>1. Place(m) = IF TypeAt(m) \in Mine /\ own THEN 1 ELSE 4
    BY <1>2, <1>5
  <2> QED
    BY <1>5, <2>1 DEF own
<1> QED
  BY <1>3, <1>4, <1>5

(* As long as the file's own headers come first, no other section begins.   *)
LEMMA OwnFirst ==
  ASSUME LinesInv, NEW m \in 0 .. LineCount, NEW s \in 0 .. 4, InSections(m, s)
  PROVE  (\A k \in Before(m) : TypeAt(k) \in Mine) <=> s <= 1
<1>1. ASSUME NEW k \in Before(m)
      PROVE  /\ k \in 0 .. LineCount /\ Before(k) \subseteq Before(m) /\ Place(k) <= s
  <2>1. k \in 1 .. LineCount - 2 /\ k < m
    BY BeforeLine
  <2>2. Before(k) \subseteq Before(m)
    BY <2>1 DEF Before, LinesInv
  <2> QED
    BY <2>1, <2>2 DEF LinesInv, InSections
<1>2. ASSUME \A k \in Before(m) : TypeAt(k) \in Mine
      PROVE  s <= 1
  <2>1. CASE s = 0
    BY <2>1
  <2>2. CASE s # 0
    <3>1. PICK k \in Before(m) : Place(k) = s
      BY <2>2 DEF InSections
    <3>2. \A j \in Before(k) : TypeAt(j) \in Mine
      BY <1>1, <1>2
    <3>3. Place(k) = 1
      BY <1>1, <1>2, <3>2, PlaceIs
    <3> QED
      BY <3>1, <3>3
  <2> QED
    BY <2>1, <2>2
<1>3. ASSUME s <= 1, NEW k \in Before(m)
      PROVE  TypeAt(k) \in Mine
  <2>1. Place(k) <= 1 /\ Place(k) \in 1 .. 4
    BY <1>1, <1>3, PlaceIs
  <2>2. TypeAt(k) \notin Mine => Place(k) \in {2, 3, 4}
    BY <1>1, PlaceIs
  <2> QED
    BY <2>1, <2>2
<1> QED
  BY <1>2, <1>3

(* CheckNextIncludeOrder, for a header that comes too late: the section      *)
(* stays.                                                                  *)
LEMMA SectionOfError ==
  ASSUME section \in 0 .. 4, NEW type, OutOfOrder(type)
  PROVE  /\ NextSection(type) = section
         /\ \/ type = "_C_SYS_HEADER" /\ section \in {3, 4}
            \/ type = "_CPP_SYS_HEADER" /\ section = 4
<1>1. NextSection(type) = section
  BY DEF NextSection
<1>2. type \in {"_C_SYS_HEADER", "_CPP_SYS_HEADER"} /\ section > SectionOf(type)
  BY DEF OutOfOrder
<1>3. CASE type = "_C_SYS_HEADER"
  <2>1. section > 2
    BY <1>2, <1>3 DEF SectionOf, _C_SECTION
  <2> QED
    BY <1>1, <1>3, <2>1
<1>4. CASE type = "_CPP_SYS_HEADER"
  <2>1. section > 3
    BY <1>2, <1>4 DEF SectionOf, _CPP_SECTION
  <2> QED
    BY <1>1, <1>4, <2>1
<1> QED
  BY <1>2, <1>3, <1>4

(* CheckNextIncludeOrder, for any other header.                            *)
LEMMA SectionInOrder ==
  ASSUME section \in 0 .. 4, NEW type, ~ OutOfOrder(type)
  PROVE  \/ type = "_C_SYS_HEADER" /\ section <= 2 /\ NextSection(type) = 2
         \/ type = "_CPP_SYS_HEADER" /\ section <= 3 /\ NextSection(type) = 3
         \/ type \in Mine /\ section <= 1 /\ NextSection(type) = 1
         \/ type \in Mine /\ section > 1 /\ NextSection(type) = 4
         \/ type \notin Mine \cup {"_C_SYS_HEADER", "_CPP_SYS_HEADER"} /\ NextSection(type) = 4
<1>1. CASE type = "_C_SYS_HEADER"
  <2>1. SectionOf(type) = 2
    BY <1>1 DEF SectionOf, _C_SECTION
  <2>2. ~ (section > 2)
    BY <1>1, <2>1 DEF OutOfOrder
  <2>3. section <= 2
    BY <2>2
  <2>4. NextSection(type) = 2
    BY <2>1, <2>3 DEF NextSection
  <2> QED
    BY <1>1, <2>3, <2>4
<1>2. CASE type = "_CPP_SYS_HEADER"
  <2>1. SectionOf(type) = 3
    BY <1>2 DEF SectionOf, _CPP_SECTION
  <2>2. ~ (section > 3)
    BY <1>2, <2>1 DEF OutOfOrder
  <2>3. section <= 3
    BY <2>2
  <2>4. NextSection(type) = 3
    BY <2>1, <2>3 DEF NextSection
  <2> QED
    BY <1>2, <2>3, <2>4
<1>3. CASE type \in Mine
  <2>1. SectionOf(type) = 1
    BY <1>3 DEF SectionOf, Mine, _MY_H_SECTION
  <2>2. CASE section <= 1
    <3>1. NextSection(type) = 1
      BY <2>1, <2>2 DEF NextSection
    <3> QED
      BY <1>3, <2>2, <3>1
  <2>3. CASE ~ section <= 1
    <3>1. NextSection(type) = 4
      BY <2>1, <2>3 DEF NextSection, _OTHER_H_SECTION
    <3>2. section > 1
      BY <2>3
    <3> QED
      BY <1>3, <3>1, <3>2
  <2> QED
    BY <2>2, <2>3
<1>4. CASE type \notin Mine \cup {"_C_SYS_HEADER", "_CPP_SYS_HEADER"}
  <2>1. SectionOf(type) = 4
    BY <1>4 DEF SectionOf, Mine, _OTHER_H_SECTION
  <2>2. section <= 4
    OBVIOUS
  <2>3. NextSection(type) = 4
    BY <2>1, <2>2 DEF NextSection
  <2> QED
    BY <1>4, <2>3
<1> QED
  BY <1>1, <1>2, <1>3, <1>4

(* The section never moves back, and stays after an error.                  *)
(* CheckNextIncludeOrder: a header is out of order after one of a later      *)
(* section, and leads to its own section unless it is.                      *)
LEMMA NextPlace ==
  ASSUME LinesInv, NEW m \in 0 .. LineCount, section \in 0 .. 4, InSections(m, section)
  PROVE  /\ OutOfOrder(TypeAt(m)) <=> Late(m)
         /\ OutOfOrder(TypeAt(m)) => NextSection(TypeAt(m)) = section
         /\ ~ OutOfOrder(TypeAt(m)) => NextSection(TypeAt(m)) = Place(m) /\ section <= Place(m)
<1>1. \A k \in Before(m) : Place(k) <= section /\ Place(k) \in Int
  <2>1. \A k \in Before(m) : k \in 0 .. LineCount
    BY BeforeLine DEF LinesInv
  <2> QED
    BY <2>1, PlaceIs DEF InSections
<1>2. Place(m) \in 1 .. 4
  BY PlaceIs
<1>3. CASE OutOfOrder(TypeAt(m))
  <2>1. /\ NextSection(TypeAt(m)) = section
        /\ \/ TypeAt(m) = "_C_SYS_HEADER" /\ section \in {3, 4}
           \/ TypeAt(m) = "_CPP_SYS_HEADER" /\ section = 4
    BY <1>3, SectionOfError
  <2>2. section > Place(m)
    BY <2>1, PlaceIs
  <2>3. \E k \in Before(m) : Place(k) = section
    BY <2>1 DEF InSections
  <2> QED
    BY <1>3, <2>1, <2>2, <2>3 DEF Late
<1>4. CASE ~ OutOfOrder(TypeAt(m))
  <2>1. \/ TypeAt(m) = "_C_SYS_HEADER" /\ section <= 2 /\ NextSection(TypeAt(m)) = 2
        \/ TypeAt(m) = "_CPP_SYS_HEADER" /\ section <= 3 /\ NextSection(TypeAt(m)) = 3
        \/ TypeAt(m) \in Mine /\ section <= 1 /\ NextSection(TypeAt(m)) = 1
        \/ TypeAt(m) \in Mine /\ section > 1 /\ NextSection(TypeAt(m)) = 4
        \/ /\ TypeAt(m) \notin Mine \cup {"_C_SYS_HEADER", "_CPP_SYS_HEADER"}
           /\ NextSection(TypeAt(m)) = 4
    BY <1>4, SectionInOrder
  <2>2. (\A k \in Before(m) : TypeAt(k) \in Mine) <=> section <= 1
    BY OwnFirst
  <2>3. NextSection(TypeAt(m)) = Place(m) /\ section <= Place(m)
    BY <2>1, <2>2, PlaceIs
  <2>4. ~ Late(m)
    BY <1>1, <1>2, <2>3 DEF Late
  <2> QED
    BY <1>4, <2>3, <2>4
<1> QED
  BY <1>3, <1>4

(* _last_header is kept for a header that follows one of its own section    *)
(* and none of a later one.                                                *)
LEMMA LastKept ==
  ASSUME LinesInv, NEW m \in 0 .. LineCount, section \in 0 .. 4, InSections(m, section)
  PROVE  LastBefore(TypeAt(m)) = IF Continues(m) THEN last_header ELSE 0
<1>1. Continues(m) <=> (\E k \in Before(m) : Place(k) = Place(m)) /\ ~ Late(m)
  <2>1. Before(m) = {k \in Headers : k < m}
    BY HeadersBefore
  <2>2. \A k \in Before(m) : Place(k) \in Int
    <3>1. \A k \in Before(m) : k \in 0 .. LineCount
      BY BeforeLine DEF LinesInv
    <3> QED
      BY <3>1, PlaceIs
  <2>3. Place(m) \in 1 .. 4
    BY PlaceIs
  <2>4. (\A k \in Before(m) : Place(k) <= Place(m)) <=> ~ Late(m)
    BY <2>2, <2>3 DEF Late
  <2>5. (\E k \in Before(m) : Place(k) = Place(m)) <=> \E k \in Headers : k < m /\ Place(k) = Place(m)
    BY <2>1
  <2>6. (\A k \in Before(m) : Place(k) <= Place(m)) <=> \A k \in Headers : k < m => Place(k) <= Place(m)
    BY <2>1
  <2> QED
    BY <2>4, <2>5, <2>6 DEF Continues
<1>2. LastBefore(TypeAt(m)) =
        IF OutOfOrder(TypeAt(m)) \/ NextSection(TypeAt(m)) # section THEN 0 ELSE last_header
  BY DEF LastBefore
<1>3. CASE Late(m)
  BY <1>1, <1>2, <1>3, NextPlace
<1>4. CASE ~ Late(m)
  <2>1. NextSection(TypeAt(m)) = Place(m) /\ section <= Place(m) /\ ~ OutOfOrder(TypeAt(m))
    BY <1>4, NextPlace
  <2>2. Place(m) \in 1 .. 4
    BY PlaceIs
  <2>3. Place(m) = section => \E k \in Before(m) : Place(k) = Place(m)
    BY <2>2 DEF InSections
  <2>4. (\E k \in Before(m) : Place(k) = Place(m)) => Place(m) = section
    BY <2>1, <2>2 DEF InSections
  <2> QED
    BY <1>1, <1>2, <1>4, <2>1, <2>3, <2>4
<1> QED
  BY <1>3, <1>4

(* The headers that the next one is compared with, after one more.          *)
LEMMA ComparedNext ==
  ASSUME LinesInv, NEW m \in 0 .. LineCount
  PROVE  /\ ~ Included(m) => Compared(m + 1) = Compared(m)
         /\ Included(m) /\ Continues(m) => Compared(m + 1) = Compared(m) \cup {m}
         /\ Included(m) /\ ~ Continues(m) => Compared(m + 1) = {m}
         /\ Included(m) =>
              (Misplaced(m) <=> Continues(m) /\ \E k \in Compared(m) : Rank(k) > Rank(m))
<1>0. m \in Nat
  BY DEF LinesInv
<1>1. m \in Nat /\ Before(m + 1) = IF Included(m) THEN Before(m) \cup {m} ELSE Before(m)
  BY <1>0, BeforeNext
<1>2. \A k \in Before(m) : k < m /\ k \in Nat
  BY BeforeLine DEF LinesInv
<1>3. CASE ~ Included(m)
  BY <1>1, <1>3 DEF Compared
<1>4. CASE Included(m)
  <2>1. Before(m + 1) = Before(m) \cup {m} /\ ~ (m < m)
    BY <1>1, <1>4
  <2>2. \A k \in Before(m) : (\A j \in Before(m + 1) : k < j => Continues(j))
          <=> Continues(m) /\ \A j \in Before(m) : k < j => Continues(j)
    BY <1>2, <2>1
  <2>3. \A j \in Before(m + 1) : m < j => Continues(j)
    BY <1>1, <1>2, <2>1
  <2>4. Compared(m + 1) = {m} \cup {k \in Compared(m) : Continues(m)}
    BY <2>1, <2>2, <2>3 DEF Compared
  <2>5. Misplaced(m) <=> Continues(m) /\ \E k \in Compared(m) : Rank(k) > Rank(m)
    BY <2>2 DEF Compared, Misplaced
  <2> QED
    BY <1>4, <2>4, <2>5
<1> QED
  BY <1>3, <1>4

(* What lines alone say stays while they do.                                *)
LEMMA SameHeaders ==
  ASSUME lines' = lines
  PROVE  /\ \A l : (Included(l)' <=> Included(l)) /\ Before(l)' = Before(l) /\ Rank(l)' = Rank(l)
         /\ \A l : Place(l)' = Place(l) /\ (Continues(l)' <=> Continues(l))
         /\ \A l : (Late(l)' <=> Late(l)) /\ (Misplaced(l)' <=> Misplaced(l))
         /\ \A l : Compared(l)' = Compared(l)
         /\ \A l, s : (InSections(l, s)' <=> InSections(l, s)) /\ (Ranked(l, s)' <=> Ranked(l, s))
<1>1. \A l : (Included(l)' <=> Included(l)) /\ TypeAt(l)' = TypeAt(l) /\ Rank(l)' = Rank(l)
  BY DEF Included, TypeAt, Rank
<1>2. (\A l : Before(l)' = Before(l)) /\ Headers' = Headers
  BY <1>1 DEF Before, Headers
<1>3. \A l : Place(l)' = Place(l)
  BY <1>1, <1>2 DEF Place
<1>4. \A l : Continues(l)' <=> Continues(l)
  BY <1>2, <1>3 DEF Continues
<1>5. \A l : (Late(l)' <=> Late(l)) /\ (Misplaced(l)' <=> Misplaced(l)) /\ Compared(l)' = Compared(l)
  BY <1>1, <1>2, <1>3, <1>4 DEF Late, Misplaced, Compared
<1>6. \A l, s : (InSections(l, s)' <=> InSections(l, s)) /\ (Ranked(l, s)' <=> Ranked(l, s))
  BY <1>1, <1>2, <1>3, <1>5 DEF InSections, Ranked
<1> QED
  BY <1>1, <1>2, <1>3, <1>4, <1>5, <1>6

(* CheckIncludeLine for the line, if it includes anything.                  *)
IncludeLine ==
  IF lines[n].is = "#include" THEN CheckIncludeLine(lines[n].header, n) ELSE UNCHANGED includeVars

(* A line that includes a header for the first time, and any other.        *)
LEMMA HeaderOfLine ==
  ASSUME LinesInv, IncludesInv, n \in 0 .. LineCount - 1, IncludeLine
  PROVE  /\ include_state' = include_state
              \cup {lines[k].header.path : k \in {j \in {n} : lines[j].is = "#include"}}
         /\ Included(n) =>
              /\ n \in 1 .. LineCount - 2 /\ Rank(n) \in Nat
              /\ section' = NextSection(TypeAt(n))
              /\ orders' = IF OutOfOrder(TypeAt(n)) THEN orders \cup {n} ELSE orders
              /\ alphas' = IF LastBefore(TypeAt(n)) > Rank(n) THEN alphas \cup {n} ELSE alphas
              /\ duplicates' = duplicates
              /\ last_header' = IF LastBefore(TypeAt(n)) > Rank(n) THEN LastBefore(TypeAt(n)) ELSE Rank(n)
         /\ ~ Included(n) =>
              /\ UNCHANGED <<section, orders, alphas, last_header>>
              /\ \/ duplicates' = duplicates
                 \/ n \in 1 .. LineCount - 2 /\ duplicates' = duplicates \cup {n}
<1>1. CASE lines[n].is # "#include"
  BY <1>1 DEF IncludeLine, Included, includeVars
<1>2. CASE lines[n].is = "#include"
  <2>1. n \in 1 .. LineCount - 2 /\ Rank(n) \in Nat
    BY <1>2, HeaderHasRank
  <2>2. CheckIncludeLine(lines[n].header, n)
    BY <1>2 DEF IncludeLine
  <2>3. Included(n) <=> lines[n].header.path \notin include_state
    BY <1>2 DEF Included, IncludesInv
  <2>4. {lines[k].header.path : k \in {j \in {n} : lines[j].is = "#include"}} = {lines[n].header.path}
    BY <1>2
  <2>5. CASE Included(n)
    BY <2>1, <2>2, <2>3, <2>4, <2>5 DEF CheckIncludeLine, TypeAt, Rank, RankAfter
  <2>6. CASE ~ Included(n)
    <3>1. duplicates' = duplicates \cup {n} /\ UNCHANGED <<include_state, section, last_header, orders, alphas>>
      BY <2>2, <2>3, <2>6 DEF CheckIncludeLine
    <3>2. lines[n].header.path \in include_state
      BY <2>3, <2>6
    <3> QED
      BY <2>1, <2>4, <2>6, <3>1, <3>2
  <2> QED
    BY <2>5, <2>6
<1> QED
  BY <1>1, <1>2

(* One more header: its section, and those that the next is compared with.  *)
LEMMA HeaderAdvance ==
  ASSUME LinesInv, IncludesInv, n \in 0 .. LineCount - 1, IncludeLine, Included(n)
  PROVE  /\ section' \in 0 .. 4 /\ InSections(n + 1, section')
         /\ last_header' \in Nat /\ Ranked(n + 1, last_header')
         /\ orders' = {l \in Before(n + 1) : Late(l)}
         /\ alphas' = {l \in Before(n + 1) : Misplaced(l)}
<1> DEFINE last == LastBefore(TypeAt(n))
<1>1. /\ Rank(n) \in Nat /\ section' = NextSection(TypeAt(n))
      /\ orders' = IF OutOfOrder(TypeAt(n)) THEN orders \cup {n} ELSE orders
      /\ alphas' = IF last > Rank(n) THEN alphas \cup {n} ELSE alphas
      /\ last_header' = IF last > Rank(n) THEN last ELSE Rank(n)
  BY HeaderOfLine
<1>2. /\ section \in 0 .. 4 /\ InSections(n, section) /\ last_header \in Nat /\ Ranked(n, last_header)
      /\ orders = {l \in Before(n) : Late(l)} /\ alphas = {l \in Before(n) : Misplaced(l)}
  BY DEF IncludesInv
<1>3. n \in 0 .. LineCount /\ n \in Nat /\ LineCount \in Nat
  BY DEF LinesInv
<1>4. Before(n + 1) = Before(n) \cup {n}
  BY <1>3, BeforeNext
<1>5. last = IF Continues(n) THEN last_header ELSE 0
  BY <1>2, <1>3, LastKept
<1>6. \A k \in Before(n) : k \in 0 .. LineCount /\ Rank(k) \in Nat
  BY <1>3, BeforeLine DEF LinesInv
<1>7. section' \in 0 .. 4 /\ InSections(n + 1, section')
  <2>1. Place(n) \in 1 .. 4 /\ \A k \in Before(n) : Place(k) \in 1 .. 4
    BY <1>3, <1>6, PlaceIs
  <2>2. CASE OutOfOrder(TypeAt(n))
    <3>1. section' = section /\ section > 0 /\ Late(n)
      BY <1>1, <1>2, <1>3, <2>2, NextPlace, SectionOfError
    <3>2. \A k \in Before(n) : Place(k) <= section
      BY <1>2 DEF InSections
    <3>3. PICK k \in Before(n) : Place(k) > Place(n)
      BY <3>1 DEF Late
    <3>4. Place(n) <= section
      BY <1>2, <2>1, <3>2, <3>3
    <3> QED
      BY <1>2, <1>4, <3>1, <3>4 DEF InSections
  <2>3. CASE ~ OutOfOrder(TypeAt(n))
    <3>1. section' = Place(n) /\ section <= Place(n)
      BY <1>1, <1>2, <1>3, <2>3, NextPlace
    <3>2. \A k \in Before(n) : Place(k) <= Place(n)
      BY <1>2, <2>1, <3>1 DEF InSections
    <3> QED
      BY <1>4, <2>1, <3>1, <3>2 DEF InSections
  <2> QED
    BY <2>2, <2>3
<1>8. orders' = {l \in Before(n + 1) : Late(l)}
  <2>1. OutOfOrder(TypeAt(n)) <=> Late(n)
    BY <1>2, <1>3, NextPlace
  <2> QED
    BY <1>1, <1>2, <1>4, <2>1
<1>9. /\ Continues(n) => Compared(n + 1) = Compared(n) \cup {n}
      /\ ~ Continues(n) => Compared(n + 1) = {n}
      /\ Misplaced(n) <=> (Continues(n) /\ \E k \in Compared(n) : Rank(k) > Rank(n))
  BY <1>3, ComparedNext
<1>10. \A k \in Compared(n) : Rank(k) \in Nat /\ Rank(k) <= last_header
  BY <1>2, <1>6 DEF Ranked, Compared
<1>11. last > Rank(n) <=> Misplaced(n)
  <2>1. CASE Continues(n)
    <3>1. last = last_header
      BY <1>5, <2>1
    <3>2. last_header > Rank(n) <=> \E k \in Compared(n) : Rank(k) > Rank(n)
      BY <1>1, <1>2, <1>10 DEF Ranked
    <3> QED
      BY <1>9, <2>1, <3>1, <3>2
  <2>2. CASE ~ Continues(n)
    BY <1>1, <1>5, <1>9, <2>2
  <2> QED
    BY <2>1, <2>2
<1>12. alphas' = {l \in Before(n + 1) : Misplaced(l)}
  BY <1>1, <1>2, <1>4, <1>11
<1>13. last_header' \in Nat /\ Ranked(n + 1, last_header')
  <2>1. CASE Continues(n)
    <3>1. last = last_header /\ Compared(n + 1) = Compared(n) \cup {n}
      BY <1>5, <1>9, <2>1
    <3>2. CASE last > Rank(n)
      <4>1. last_header' = last_header /\ \E k \in Compared(n) : Rank(k) = last_header
        BY <1>1, <1>2, <3>1, <3>2 DEF Ranked
      <4> QED
        BY <1>1, <1>2, <1>10, <3>1, <3>2, <4>1 DEF Ranked
    <3>3. CASE ~ last > Rank(n)
      <4>1. last_header' = Rank(n)
        BY <1>1, <3>3
      <4>2. \A k \in Compared(n) : Rank(k) <= Rank(n)
        BY <1>1, <1>2, <1>10, <3>1, <3>3
      <4> QED
        BY <1>1, <3>1, <4>1, <4>2 DEF Ranked
    <3> QED
      BY <3>2, <3>3
  <2>2. CASE ~ Continues(n)
    <3>1. last_header' = Rank(n) /\ Compared(n + 1) = {n}
      BY <1>1, <1>5, <1>9, <2>2
    <3> QED
      BY <1>1, <3>1 DEF Ranked
  <2> QED
    BY <2>1, <2>2
<1> QED
  BY <1>7, <1>8, <1>12, <1>13

(* A line more keeps what is known of the includes.                         *)
LEMMA IncludesAdvance ==
  ASSUME LinesInv, IncludesInv, n \in 0 .. LineCount - 1, IncludeLine,
         n' = n + 1, lines' = lines, LineCount' = LineCount
  PROVE  IncludesInv'
<1>1. LineCount \in Nat /\ n \in Nat /\ n \in 0 .. LineCount
  BY DEF LinesInv
<1>2. PICK k, s, r : k \in Nat /\ k = n + 1 /\ s = section' /\ r = last_header'
  BY <1>1
<1>3. /\ s \in 0 .. 4 /\ r \in Nat /\ InSections(k, s) /\ Ranked(k, r)
      /\ orders' = {l \in Before(k) : Late(l)} /\ alphas' = {l \in Before(k) : Misplaced(l)}
  <2>1. CASE Included(n)
    BY <1>2, <2>1, HeaderAdvance
  <2>2. CASE ~ Included(n)
    <3>1. Before(k) = Before(n) /\ Compared(k) = Compared(n)
      BY <1>1, <1>2, <2>2, BeforeNext, ComparedNext
    <3>2. UNCHANGED <<section, orders, alphas, last_header>>
      BY <2>2, HeaderOfLine
    <3> QED
      BY <1>2, <3>1, <3>2 DEF IncludesInv, InSections, Ranked
  <2> QED
    BY <2>1, <2>2
<1>4. duplicates' \subseteq {l \in 1 .. LineCount - 2 : l < n + 1}
  <2>1. duplicates \subseteq {l \in 1 .. LineCount - 2 : l < n}
    BY DEF IncludesInv
  <2>2. \/ duplicates' = duplicates
        \/ n \in 1 .. LineCount - 2 /\ duplicates' = duplicates \cup {n}
    BY HeaderOfLine
  <2>3. \A l \in duplicates' : l \in duplicates \/ (l = n /\ n \in 1 .. LineCount - 2)
    BY <2>2
  <2>4. ASSUME NEW l \in duplicates'
        PROVE  l \in 1 .. LineCount - 2 /\ l < n + 1
    <3>1. l \in duplicates => l \in 1 .. LineCount - 2 /\ l < n
      BY <2>1
    <3>2. l \in 1 .. LineCount - 2 /\ (l < n \/ l = n)
      BY <2>3, <3>1
    <3> QED
      BY <1>1, <3>2
  <2> QED
    BY <2>4
<1>5. include_state' = {lines[i].header.path : i \in {j \in 0 .. k - 1 : lines[j].is = "#include"}}
  <2>1. 0 .. k - 1 = (0 .. n - 1) \cup {n}
    BY <1>1, <1>2
  <2>2. include_state = {lines[i].header.path : i \in {j \in 0 .. n - 1 : lines[j].is = "#include"}}
    BY DEF IncludesInv
  <2>3. include_state' = include_state
          \cup {lines[i].header.path : i \in {j \in {n} : lines[j].is = "#include"}}
    BY HeaderOfLine
  <2> QED
    BY <2>1, <2>2, <2>3
<1>6. n' = k /\ section' = s /\ last_header' = r
  BY <1>2
<1>7. InSections(n, section)' /\ Ranked(n, last_header)' /\ Before(n)' = Before(k)
  BY <1>3, <1>6, SameHeaders DEF InSections, Ranked, Before, Compared
<1> QED
  BY <1>2, <1>3, <1>4, <1>5, <1>6, <1>7, SameHeaders DEF IncludesInv

(* Before the first line there is nothing to know.                          *)
LEMMA NothingBefore ==
  ASSUME n = 0
  PROVE  IncludesInv <=> /\ section = 0 /\ last_header = 0 /\ include_state = {}
                         /\ orders = {} /\ alphas = {} /\ duplicates = {}
<1>1. Before(n) = {} /\ Compared(n) = {} /\ 0 .. n - 1 = {}
  BY DEF Before, Compared
<1>2. InSections(n, section) <=> section = 0
  BY <1>1 DEF InSections
<1>3. Ranked(n, last_header) <=> last_header = 0
  BY <1>1 DEF Ranked
<1>4. {l \in 1 .. LineCount - 2 : l < n} = {}
  <2> SUFFICES ASSUME NEW l \in 1 .. LineCount - 2, l < n
               PROVE  FALSE
    OBVIOUS
  <2>1. l \in Int /\ l >= 1
    OBVIOUS
  <2> QED
    BY <2>1
<1>5. {lines[k].header.path : k \in {j \in 0 .. n - 1 : lines[j].is = "#include"}} = {}
  BY <1>1
<1> QED
  BY <1>1, <1>2, <1>3, <1>4, <1>5 DEF IncludesInv

(* Only ProcessLine and FinishLine look at an include.                      *)
LEMMA IncludesStep ==
  ASSUME LinesInv, PhaseInv, IncludesInv, [Next]_vars
  PROVE  IncludesInv'
<1>1. LineCount' = LineCount /\ LineCount \in Nat
  BY LinesStep DEF LinesInv
<1>2. CASE UNCHANGED <<n, includeVars, lines>>
  <2>1. PICK k, s, r : k = n /\ s = section /\ r = last_header
    OBVIOUS
  <2>2. n' = k /\ section' = s /\ last_header' = r /\ lines' = lines
    BY <1>2, <2>1 DEF includeVars
  <2>3. InSections(n, section)' /\ Ranked(n, last_header)' /\ Before(n)' = Before(k)
    <3>1. InSections(k, s) /\ Ranked(k, r)
      BY <2>1 DEF IncludesInv
    <3> QED
      BY <2>2, <3>1, SameHeaders DEF InSections, Ranked, Before, Compared
  <2> QED
    BY <1>1, <1>2, <2>1, <2>2, <2>3, SameHeaders DEF IncludesInv, includeVars
<1>3. CASE ClearComments
  <2>1. n = 0 /\ n' = 0 /\ UNCHANGED includeVars
    BY <1>3 DEF ClearComments, PhaseInv
  <2>2. /\ section' = 0 /\ last_header' = 0 /\ include_state' = {}
        /\ orders' = {} /\ alphas' = {} /\ duplicates' = {}
    BY <2>1, NothingBefore DEF includeVars
  <2>3. (n = 0 => (IncludesInv <=> /\ section = 0 /\ last_header = 0 /\ include_state = {}
                                   /\ orders = {} /\ alphas = {} /\ duplicates = {}))'
    BY NothingBefore, PTL
  <2> QED
    BY <2>1, <2>2, <2>3
<1>4. CASE ProcessLine \/ FinishLine
  <2>1. n \in 0 .. LineCount - 1
    BY <1>1, <1>4 DEF ProcessLine, FinishLine, PhaseInv, LinesInv
  <2>2. IncludeLine /\ n' = n + 1 /\ lines' = lines
    BY <1>4 DEF ProcessLine, FinishLine, RestOfLine, IncludeLine, commentVars
  <2> QED
    BY <1>1, <2>1, <2>2, IncludesAdvance
<1>5. CASE Crash \/ BeginJoining \/ JoinPreviousLine \/ EndLines \/ CheckForIncludeWhatYouUse
           \/ UNCHANGED vars
  <2>1. UNCHANGED <<n, includeVars, lines>>
    BY <1>5 DEF Crash, BeginJoining, JoinPreviousLine, EndLines, CheckForIncludeWhatYouUse, vars,
      commentVars
  <2> QED
    BY <1>2, <2>1
<1> QED
  BY <1>3, <1>4, <1>5 DEF Next, ProcessFileData, Ended

(* The first state.                                                        *)
LEMMA InitIncludes ==
  ASSUME Init
  PROVE  IncludesInv
BY NothingBefore DEF Init, _INITIAL_SECTION

(* When the file is linted, all its headers have been looked at.            *)
LEMMA IncludesOfFile ==
  ASSUME LinesInv, PhaseInv, IncludesInv, phase = "linted"
  PROVE  /\ orders = {l \in Headers : \E k \in Headers : k < l /\ Place(k) > Place(l)}
         /\ alphas = {l \in Headers :
                        \E k \in Headers :
                          /\ k < l /\ Rank(k) > Rank(l)
                          /\ \A m \in Headers : k < m /\ m <= l => Continues(m)}
<1>1. n = LineCount /\ n \in 0 .. LineCount /\ LineCount \in Nat
  BY DEF PhaseInv, LinesInv
<1>2. \A l \in Headers : l \in 0 .. LineCount - 1
  BY DEF Headers, LinesInv
<1>3. Before(n) = Headers
  <2>1. Before(n) = {k \in Headers : k < n}
    BY <1>1, HeadersBefore
  <2> QED
    BY <1>1, <1>2, <2>1
<1>4. ASSUME NEW l \in Headers
      PROVE  /\ Late(l) <=> \E k \in Headers : k < l /\ Place(k) > Place(l)
             /\ Misplaced(l) <=> \E k \in Headers :
                                   /\ k < l /\ Rank(k) > Rank(l)
                                   /\ \A m \in Headers : k < m /\ m <= l => Continues(m)
  <2>1. l \in 0 .. LineCount /\ l + 1 \in 0 .. LineCount /\ l \in Nat
    BY <1>1, <1>2
  <2>2. Before(l) = {k \in Headers : k < l}
    BY <2>1, HeadersBefore
  <2>3. Before(l + 1) = {k \in Headers : k < l + 1}
    BY <2>1, HeadersBefore
  <2>4. \A m \in Headers : m < l + 1 <=> m <= l
    BY <1>1, <1>2, <2>1
  <2> QED
    BY <2>2, <2>3, <2>4 DEF Late, Misplaced
<1> QED
  BY <1>3, <1>4 DEF IncludesInv

-----------------------------------------------------------------------------
(* The lengths of functions.                                               *)

(* CheckForFunctionLengths has seen the lines before this one.              *)
Seen == IF phase \in {"joining", "crashed"} THEN n + 1 ELSE n

(* The lines that count.                                                   *)
Counted(l) == ~ Blank(lines[l]) /\ ~ StartsFunction(lines[l])
(* No function begins or ends from line k to line m - 1.                    *)
Quiet(k, m) == (k .. m - 1) \cap (Starts \cup Ends) = {}

(* In a function, the state counts its lines.                               *)
Counting(m) ==
  \A b \in Starts :
    b < m /\ Quiet(b + 1, m) =>
      /\ function.in_a_function = TRUE /\ function.test = IsTest(lines[b])
      /\ function.lines_in_function = Size(b, m)

(* The functions that end before line m are judged.                         *)
Judged(m) ==
  \A b \in Starts, e \in Ends :
    e < m /\ IsBody(b, e) =>
      (Size(b, e) > Trigger(IsTest(lines[b]), verbosity) <=> \E r \in sizes : r.line = e)

LengthsInv ==
  /\ function \in [in_a_function : BOOLEAN, lines_in_function : 0 .. Seen, test : BOOLEAN]
  /\ \A r \in sizes : r.line \in 1 .. LineCount - 2 /\ r.line < Seen
  /\ Counting(Seen)
  /\ Judged(Seen)

(* The lines of the file that begin and end functions.                      *)
LEMMA FunctionLines ==
  ASSUME LinesInv
  PROVE  /\ Starts \subseteq 1 .. LineCount - 2 /\ Ends \subseteq 1 .. LineCount - 2
         /\ \A b \in Starts : StartsFunction(lines[b]) /\ lines[b].is # "}"
         /\ \A e \in Ends : lines[e].is = "}" /\ ~ StartsFunction(lines[e])
         /\ \A l \in 0 .. LineCount - 1 :
              StartsFunction(lines[l]) \/ lines[l].is = "}" => l \in 1 .. LineCount - 2
<1>1. DOMAIN lines = 0 .. LineCount - 1 /\ LineCount \in Nat
  BY DEF LinesInv
<1>2. \A line : ~ (StartsFunction(line) /\ line.is = "}")
  BY DEF StartsFunction
<1>3. ~ StartsFunction(Dummy) /\ Dummy.is # "}"
  BY DEF StartsFunction, Dummy
<1>4. ASSUME NEW l \in 0 .. LineCount - 1, StartsFunction(lines[l]) \/ lines[l].is = "}"
      PROVE  l \in 1 .. LineCount - 2
  <2>1. lines[0] = Dummy /\ lines[LineCount - 1] = Dummy
    BY DEF LinesInv
  <2>2. l # 0 /\ l # LineCount - 1
    BY <1>3, <1>4, <2>1
  <2> QED
    BY <1>1, <2>2
<1> QED
  BY <1>1, <1>2, <1>4 DEF Starts, Ends

(* The lines of a body are finitely many, and a line more is counted.       *)
LEMMA SizeOfBody ==
  ASSUME LinesInv, NEW b \in Nat, NEW m \in Nat
  PROVE  /\ Size(b, m) \in Nat
         /\ b < m => Size(b, m + 1) = IF Counted(m) THEN Size(b, m) + 1 ELSE Size(b, m)
         /\ Size(b, b + 1) = 0
<1> DEFINE S(k) == {l \in b + 1 .. k - 1 : ~ Blank(lines[l]) /\ ~ StartsFunction(lines[l])}
<1>1. \A k \in Nat : IsFiniteSet(S(k)) /\ Cardinality(S(k)) \in Nat
  <2>1. \A k \in Nat : IsFiniteSet(b + 1 .. k - 1)
    BY FS_Interval
  <2>2. \A k \in Nat : IsFiniteSet(S(k))
    BY <2>1, FS_Subset
  <2> QED
    BY <2>2, FS_CardinalityType
<1>2. ASSUME b < m
      PROVE  Cardinality(S(m + 1)) = IF Counted(m) THEN Cardinality(S(m)) + 1 ELSE Cardinality(S(m))
  <2>1. b + 1 .. (m + 1) - 1 = (b + 1 .. m - 1) \cup {m}
    BY <1>2
  <2>2. S(m + 1) = IF Counted(m) THEN S(m) \cup {m} ELSE S(m)
    BY <2>1 DEF Counted
  <2>3. m \notin S(m)
    OBVIOUS
  <2> HIDE DEF S
  <2> QED
    BY <1>1, <2>2, <2>3, FS_AddElement
<1>3. S(b + 1) = {}
  <2>1. b + 1 .. (b + 1) - 1 = {}
    OBVIOUS
  <2> QED
    BY <2>1
<1>4. \A k : Size(b, k) = Cardinality(S(k))
  BY DEF Size
<1> HIDE DEF S
<1> QED
  BY <1>1, <1>2, <1>3, <1>4, FS_EmptySet

(* What CheckForFunctionLengths makes of the state of a function.           *)
LEMMA FunctionAtLine ==
  ASSUME LinesInv, LengthsInv, n \in 0 .. LineCount - 1, Seen = n,
         CheckForFunctionLengths(lines, n, verbosity)
  PROVE  /\ n \in Starts => function' = [in_a_function |-> TRUE, lines_in_function |-> 0,
                                          test |-> IsTest(lines[n])]
         /\ n \notin Starts /\ n \notin Ends /\ ~ (Counted(n) /\ function.in_a_function) =>
              function' = function
         /\ n \notin Starts /\ n \notin Ends /\ Counted(n) /\ function.in_a_function =>
              function' = [function EXCEPT !.lines_in_function = @ + 1]
         /\ n \in Ends => function' = [function EXCEPT !.in_a_function = FALSE]
<1>1. n \in DOMAIN lines
  BY DEF LinesInv
<1>2. CASE StartsFunction(lines[n])
  <2>1. lines[n].is # "}" /\ n \notin Ends /\ ~ Counted(n)
    BY <1>2 DEF StartsFunction, Ends, Counted
  <2>2. n \in Starts <=> LookAhead(lines, n) = "body"
    BY <1>1, <1>2 DEF Starts
  <2>3. IF LookAhead(lines, n) = "body" THEN Begin(lines[n]) ELSE UNCHANGED function
    BY <1>2, <2>1 DEF CheckForFunctionLengths
  <2> QED
    BY <2>1, <2>2, <2>3 DEF Begin
<1>3. CASE lines[n].is = "}"
  <2>1. n \in Ends /\ n \notin Starts
    BY <1>1, <1>3 DEF StartsFunction, Ends, Starts
  <2> QED
    BY <1>3, <2>1 DEF CheckForFunctionLengths, StartsFunction, End
<1>4. CASE ~ StartsFunction(lines[n]) /\ lines[n].is # "}"
  <2>1. n \notin Starts /\ n \notin Ends
    BY <1>4 DEF Starts, Ends
  <2>2. IF Blank(lines[n]) THEN UNCHANGED function ELSE Count
    BY <1>4 DEF CheckForFunctionLengths
  <2> QED
    BY <1>4, <2>1, <2>2 DEF Counted, Count
<1> QED
  BY <1>2, <1>3, <1>4

(* The errors of CheckForFunctionLengths.                                   *)
LEMMA SizesAtLine ==
  ASSUME LinesInv, LengthsInv, n \in 0 .. LineCount - 1, Seen = n,
         CheckForFunctionLengths(lines, n, verbosity)
  PROVE  /\ n \notin Ends => \/ sizes' = sizes
                             \/ \E r : r.line = n /\ n \in 1 .. LineCount - 2 /\ sizes' = sizes \cup {r}
         /\ n \in Ends =>
              IF function.lines_in_function > Trigger(function.test, verbosity)
                THEN \E r : r.line = n /\ sizes' = sizes \cup {r}
                ELSE sizes' = sizes
<1>1. n \in DOMAIN lines
  BY DEF LinesInv
<1>2. CASE StartsFunction(lines[n])
  <2>1. lines[n].is # "}" /\ n \notin Ends
    BY <1>2 DEF StartsFunction, Ends
  <2>2. n \in 1 .. LineCount - 2
    BY <1>2, FunctionLines
  <2>3. sizes' = IF LookAhead(lines, n) = "nothing"
                   THEN sizes \cup {[line |-> n, level |-> 5]} ELSE sizes
    BY <1>2, <2>1 DEF CheckForFunctionLengths
  <2>4. [line |-> n, level |-> 5].line = n
    OBVIOUS
  <2> QED
    BY <2>1, <2>2, <2>3, <2>4
<1>3. CASE lines[n].is = "}"
  <2>1. n \in Ends
    BY <1>1, <1>3 DEF Ends
  <2>2. Check(n, verbosity)
    BY <1>3 DEF CheckForFunctionLengths, StartsFunction
  <2>3. [line |-> n, level |-> ErrorLevel(verbosity)].line = n
    OBVIOUS
  <2> QED
    BY <2>1, <2>2, <2>3 DEF Check
<1>4. CASE ~ StartsFunction(lines[n]) /\ lines[n].is # "}"
  <2>1. n \notin Ends
    BY <1>4 DEF Ends
  <2> QED
    BY <1>4, <2>1 DEF CheckForFunctionLengths
<1> QED
  BY <1>2, <1>3, <1>4

(* The lines of a function are counted on at line n.                        *)
LEMMA CountingAdvance ==
  ASSUME LinesInv, LengthsInv, n \in 0 .. LineCount - 1, Seen = n,
         CheckForFunctionLengths(lines, n, verbosity),
         NEW b \in Starts, b < n + 1, Quiet(b + 1, n + 1)
  PROVE  /\ function'.in_a_function = TRUE /\ function'.test = IsTest(lines[b])
         /\ function'.lines_in_function = Size(b, n + 1)
<1>1. n \in Nat /\ b \in Nat
  <2>1. LineCount \in Nat
    BY DEF LinesInv
  <2>2. b \in 1 .. LineCount - 2
    BY FunctionLines
  <2> QED
    BY <2>1, <2>2
<1>2. /\ function \in [in_a_function : BOOLEAN, lines_in_function : 0 .. n, test : BOOLEAN]
      /\ Counting(n)
  BY DEF LengthsInv
<1>3. CASE b = n
  <2>1. function' = [in_a_function |-> TRUE, lines_in_function |-> 0, test |-> IsTest(lines[n])]
    BY <1>3, FunctionAtLine
  <2>2. Size(b, n + 1) = 0
    BY <1>1, <1>3, SizeOfBody
  <2> QED
    BY <1>3, <2>1, <2>2
<1>4. CASE b < n
  <2>1. b + 1 .. (n + 1) - 1 = (b + 1 .. n - 1) \cup {n}
    BY <1>1, <1>4
  <2>2. Quiet(b + 1, n) /\ n \notin Starts /\ n \notin Ends
    BY <2>1 DEF Quiet
  <2>3. /\ function.in_a_function = TRUE /\ function.test = IsTest(lines[b])
        /\ function.lines_in_function = Size(b, n)
    BY <1>2, <1>4, <2>2 DEF Counting
  <2>4. Size(b, n + 1) = IF Counted(n) THEN Size(b, n) + 1 ELSE Size(b, n)
    BY <1>1, <1>4, SizeOfBody
  <2>5. CASE Counted(n)
    <3>1. function' = [function EXCEPT !.lines_in_function = @ + 1]
      BY <2>2, <2>3, <2>5, FunctionAtLine
    <3>2. /\ function'.in_a_function = function.in_a_function /\ function'.test = function.test
          /\ function'.lines_in_function = function.lines_in_function + 1
      BY <1>2, <3>1
    <3> QED
      BY <2>3, <2>4, <2>5, <3>2
  <2>6. CASE ~ Counted(n)
    <3>1. function' = function
      BY <2>2, <2>6, FunctionAtLine
    <3> QED
      BY <2>3, <2>4, <2>6, <3>1
  <2> QED
    BY <2>5, <2>6
<1>5. b = n \/ b < n
  BY <1>1
<1> QED
  BY <1>3, <1>4, <1>5

(* The function that ends at line n is judged, and no other.                *)
LEMMA JudgedAdvance ==
  ASSUME LinesInv, LengthsInv, n \in 0 .. LineCount - 1, Seen = n,
         CheckForFunctionLengths(lines, n, verbosity),
         NEW b \in Starts, NEW e \in Ends, e < n + 1, IsBody(b, e)
  PROVE  Size(b, e) > Trigger(IsTest(lines[b]), verbosity) <=> \E r \in sizes' : r.line = e
<1>1. n \in Nat /\ b \in Nat /\ e \in Nat
  <2>1. LineCount \in Nat
    BY DEF LinesInv
  <2>2. b \in 1 .. LineCount - 2 /\ e \in 1 .. LineCount - 2
    BY FunctionLines
  <2> QED
    BY <2>1, <2>2
<1>2. Counting(n) /\ Judged(n) /\ \A r \in sizes : r.line \in Nat /\ r.line < n
  BY DEF LengthsInv
<1>3. CASE e < n
  <2>1. Size(b, e) > Trigger(IsTest(lines[b]), verbosity) <=> \E r \in sizes : r.line = e
    BY <1>2, <1>3 DEF Judged
  <2>2. sizes' = sizes \/ \E r : r.line = n /\ sizes' = sizes \cup {r}
    BY SizesAtLine
  <2>3. (\E r \in sizes' : r.line = e) <=> (\E r \in sizes : r.line = e)
    BY <1>1, <1>3, <2>2
  <2> QED
    BY <2>1, <2>3
<1>4. CASE e = n
  <2>1. b < n /\ Quiet(b + 1, n)
    BY <1>4 DEF IsBody, Quiet
  <2>2. function.test = IsTest(lines[b]) /\ function.lines_in_function = Size(b, n)
    BY <1>2, <2>1 DEF Counting
  <2>3. IF Size(b, n) > Trigger(IsTest(lines[b]), verbosity)
          THEN \E r : r.line = n /\ sizes' = sizes \cup {r}
          ELSE sizes' = sizes
    BY <1>4, <2>2, SizesAtLine
  <2>4. ~ \E r \in sizes : r.line = n
    BY <1>1, <1>2
  <2> QED
    BY <1>4, <2>3, <2>4
<1> QED
  BY <1>1, <1>3, <1>4

(* CheckForFunctionLengths goes on by a line.                               *)
LEMMA LengthsAdvance ==
  ASSUME LinesInv, LengthsInv, n \in 0 .. LineCount - 1, Seen = n,
         CheckForFunctionLengths(lines, n, verbosity),
         Seen' = n + 1, lines' = lines, LineCount' = LineCount, verbosity' = verbosity
  PROVE  LengthsInv'
<1>1. n \in Nat /\ LineCount \in Nat
  BY DEF LinesInv
<1>2. function \in [in_a_function : BOOLEAN, lines_in_function : 0 .. n, test : BOOLEAN]
      /\ \A r \in sizes : r.line \in 1 .. LineCount - 2 /\ r.line < n
  BY DEF LengthsInv
<1>3. function' \in [in_a_function : BOOLEAN, lines_in_function : 0 .. n + 1, test : BOOLEAN]
  <2>1. CASE n \in Starts
    <3>1. function' = [in_a_function |-> TRUE, lines_in_function |-> 0, test |-> IsTest(lines[n])]
      BY <2>1, FunctionAtLine
    <3>2. IsTest(lines[n]) \in BOOLEAN /\ TRUE \in BOOLEAN
      BY DEF IsTest
    <3>3. 0 \in 0 .. n + 1
      BY <1>1
    <3> QED
      BY <3>1, <3>2, <3>3
  <2>2. CASE n \notin Starts /\ n \notin Ends /\ Counted(n) /\ function.in_a_function
    <3>1. function' = [function EXCEPT !.lines_in_function = @ + 1]
      BY <2>2, FunctionAtLine
    <3> QED
      BY <1>1, <1>2, <3>1
  <2>3. CASE n \in Ends
    <3>1. function' = [function EXCEPT !.in_a_function = FALSE]
      BY <2>3, FunctionAtLine
    <3>2. function' = [in_a_function |-> FALSE, lines_in_function |-> function.lines_in_function,
                       test |-> function.test]
      BY <1>2, <3>1
    <3>3. function.lines_in_function \in 0 .. n + 1
      BY <1>1, <1>2
    <3> QED
      BY <1>2, <3>2, <3>3
  <2>4. CASE n \notin Starts /\ n \notin Ends /\ ~ (Counted(n) /\ function.in_a_function)
    <3>1. function' = function
      BY <2>4, FunctionAtLine
    <3> QED
      BY <1>1, <1>2, <3>1
  <2> QED
    BY <2>1, <2>2, <2>3, <2>4
<1>4. \A r \in sizes' : r.line \in 1 .. LineCount - 2 /\ r.line < n + 1
  <2>1. \/ sizes' = sizes
        \/ \E r : r.line = n /\ n \in 1 .. LineCount - 2 /\ sizes' = sizes \cup {r}
    <3>1. n \in Ends => n \in 1 .. LineCount - 2
      BY FunctionLines
    <3> QED
      BY <3>1, SizesAtLine
  <2> QED
    BY <1>1, <1>2, <2>1
<1>5. Starts' = Starts /\ Ends' = Ends
  BY DEF Starts, Ends
<1>6. Counting(Seen)'
  <2>1. \A b \in Starts : b < n + 1 /\ Quiet(b + 1, n + 1) =>
          /\ function'.in_a_function = TRUE /\ function'.test = IsTest(lines[b])
          /\ function'.lines_in_function = Size(b, n + 1)
    BY CountingAdvance
  <2> QED
    BY <1>5, <2>1 DEF Counting, Quiet, Size
<1>7. Judged(Seen)'
  <2>1. \A b \in Starts, e \in Ends : e < n + 1 /\ IsBody(b, e) =>
          (Size(b, e) > Trigger(IsTest(lines[b]), verbosity) <=> \E r \in sizes' : r.line = e)
    BY JudgedAdvance
  <2> QED
    BY <1>5, <2>1 DEF Judged, IsBody, Size
<1> QED
  BY <1>3, <1>4, <1>6, <1>7 DEF LengthsInv

(* Only the lines before a function matter, and none come before line 0.    *)
LEMMA LengthsOfComments ==
  ASSUME LinesInv', LengthsInv, LinesInv, Seen = 0, Seen' = 0, LineCount' = LineCount,
         UNCHANGED <<function, sizes>>
  PROVE  LengthsInv'
<1>1. \A r \in sizes : FALSE
  <2>1. \A r \in sizes : r.line \in 1 .. LineCount - 2 /\ r.line < 0
    BY DEF LengthsInv
  <2>2. \A l \in 1 .. LineCount - 2 : ~ (l < 0)
    BY DEF LinesInv
  <2> QED
    BY <2>1, <2>2
<1>2. \A l \in DOMAIN lines' : ~ (l < 0)
  BY DEF LinesInv
<1>3. Counting(Seen)'
  BY <1>2 DEF Counting, Starts
<1>4. Judged(Seen)'
  BY <1>2 DEF Judged, Ends
<1>5. function' \in [in_a_function : BOOLEAN, lines_in_function : 0 .. Seen', test : BOOLEAN]
  BY DEF LengthsInv
<1> QED
  BY <1>1, <1>3, <1>4, <1>5 DEF LengthsInv

(* Nothing else disturbs what is known of the lengths.                      *)
LEMMA LengthsStep ==
  ASSUME LinesInv, PhaseInv, LengthsInv, [Next]_vars
  PROVE  LengthsInv'
<1>1. LinesInv' /\ LineCount' = LineCount /\ LineCount \in Nat /\ n \in Nat
  BY LinesStep DEF LinesInv, PhaseInv
<1>2. CASE UNCHANGED <<Seen, function, sizes, lines, verbosity>>
  <2>1. Starts' = Starts /\ Ends' = Ends
    BY <1>2 DEF Starts, Ends
  <2> QED
    BY <1>1, <1>2, <2>1 DEF LengthsInv, Counting, Judged, Quiet, IsBody, Size
<1>3. CASE ClearComments
  <2>1. n = 0 /\ n' = 0 /\ phase = "comments" /\ phase' \in {"comments", "lines"}
        /\ UNCHANGED <<function, sizes>>
    BY <1>3 DEF ClearComments, PhaseInv
  <2> QED
    BY <1>1, <2>1, LengthsOfComments DEF Seen
<1>4. CASE ProcessLine \/ Crash \/ BeginJoining
  <2>1. /\ n \in 0 .. LineCount - 1 /\ Seen = n /\ Seen' = n + 1
        /\ UNCHANGED <<lines, verbosity>>
        /\ CheckForFunctionLengths(lines, n, verbosity)
    BY <1>1, <1>4 DEF ProcessLine, Crash, BeginJoining, RestOfLine, Seen, LinesInv, constantVars,
      commentVars
  <2> QED
    BY <1>1, <2>1, LengthsAdvance
<1>5. CASE JoinPreviousLine \/ FinishLine \/ EndLines \/ CheckForIncludeWhatYouUse \/ UNCHANGED vars
  <2>1. UNCHANGED <<Seen, function, sizes, lines, verbosity>>
    BY <1>5 DEF JoinPreviousLine, FinishLine, RestOfLine, EndLines, CheckForIncludeWhatYouUse, vars,
      Seen, constantVars, commentVars
  <2> QED
    BY <1>2, <2>1
<1> QED
  BY <1>3, <1>4, <1>5 DEF Next, ProcessFileData, Ended

(* The first state.                                                        *)
LEMMA InitLengths ==
  ASSUME Init, LinesInv
  PROVE  LengthsInv
<1>1. Seen = 0 /\ sizes = {} /\ function = [in_a_function |-> FALSE, lines_in_function |-> 0, test |-> FALSE]
  BY DEF Init, Seen, _FunctionState
<1>2. \A l \in DOMAIN lines : ~ (l < 0)
  BY DEF LinesInv
<1>3. Counting(Seen) /\ Judged(Seen)
  BY <1>1, <1>2 DEF Counting, Judged, Starts, Ends
<1>4. function \in [in_a_function : BOOLEAN, lines_in_function : 0 .. Seen, test : BOOLEAN]
  BY <1>1
<1> QED
  BY <1>1, <1>3, <1>4 DEF LengthsInv

(* The functions that end before line n are judged.                         *)
LEMMA LengthsOfFunctions ==
  ASSUME LinesInv, PhaseInv, LengthsInv
  PROVE  LongBodiesReported
<1>1. ASSUME NEW e \in Ends, e < n
      PROVE  e < Seen
  <2>1. e \in 0 .. LineCount - 1 /\ LineCount \in Nat /\ n \in 0 .. LineCount
    BY DEF Ends, LinesInv, PhaseInv
  <2>2. Seen \in {n, n + 1}
    BY DEF Seen
  <2> QED
    BY <1>1, <2>1, <2>2
<1> QED
  BY <1>1 DEF LongBodiesReported, LengthsInv, Judged

-----------------------------------------------------------------------------
(* The levels of the errors about lengths.                                  *)

(* "Specify a number 0-5": above that, errors of the highest level are not  *)
(* printed.                                                                *)
VerbositiesDocumented == \A p \in Profiles : p.verbosities \subseteq 0 .. 5

LevelsInv == verbosity \in Nat /\ \A r \in sizes : r.level \in Nat /\ (verbosity <= 5 => r.level >= verbosity)

(* int(math.log(n, 2)), at most 5, is at least v if n is at least 1 << v.    *)
LEMMA LevelAtLeast ==
  ASSUME NEW q \in Nat, NEW v \in Nat, PowerOf2[v] <= q
  PROVE  Level(q) \in Nat /\ (v <= 5 => Level(q) >= v)
<1> DEFINE K == {k \in 0 .. q : PowerOf2[k] <= q}
           top == Max(K)
<1>1. v \in K
  <2>1. PowerOf2[v] \in Nat /\ PowerOf2[v] > v
    BY PowerFacts
  <2> QED
    BY <2>1
<1>2. top \in K /\ \A x \in K : x <= top
  <2>1. K \subseteq 0 .. q /\ K # {}
    BY <1>1
  <2> HIDE DEF K
  <2> QED
    BY <2>1, MaxIsGreatest
<1>3. top \in Nat /\ top >= v
  BY <1>1, <1>2
<1> HIDE DEF K, top
<1>4. Min({5, top}) \in {5, top}
  BY <1>3, MinIsLeast
<1>5. Level(q) = Min({5, top})
  BY DEF Level, K, top
<1> QED
  BY <1>3, <1>4, <1>5

(* What is longer than the trigger has a level of at least the verbosity.   *)
LEMMA LevelOfError ==
  ASSUME NEW test \in BOOLEAN, NEW v \in Nat, NEW size \in Nat, size > Trigger(test, v)
  PROVE  Level(size \div Base(test)) \in Nat /\ (v <= 5 => Level(size \div Base(test)) >= v)
<1> DEFINE b == Base(test)
           p == PowerOf2[v]
           q == size \div b
           r == size % b
<1>1. b \in Nat /\ b > 0
  BY TriggerAssumption DEF Base
<1>2. p \in Nat /\ size > b * p
  BY PowerFacts DEF Trigger
<1>3. q \in Nat /\ r \in Nat /\ r < b /\ size = b * q + r
  BY <1>1
<1> HIDE DEF b, p, q, r
<1>4. p <= q
  <2> SUFFICES ASSUME q + 1 <= p
               PROVE  FALSE
    BY <1>2, <1>3
  <2>1. b * (q + 1) <= b * p
    BY <1>1, <1>2, <1>3
  <2> QED
    BY <1>1, <1>2, <1>3, <2>1
<1>5. PowerOf2[v] <= q
  BY <1>4 DEF p
<1>6. Level(q) \in Nat /\ (v <= 5 => Level(q) >= v)
  BY <1>3, <1>5, LevelAtLeast
<1> QED
  BY <1>6 DEF q, b

(* The levels of CheckForFunctionLengths.                                   *)
LEMMA LevelsAtLine ==
  ASSUME LengthsInv, LevelsInv, Seen \in Nat, CheckForFunctionLengths(lines, n, verbosity),
         NEW r \in sizes'
  PROVE  r.level \in Nat /\ (verbosity <= 5 => r.level >= verbosity)
<1>1. CASE r \in sizes
  BY <1>1 DEF LevelsInv
<1>2. CASE r = [line |-> n, level |-> 5]
  BY <1>2 DEF LevelsInv
<1>3. CASE r = [line |-> n, level |-> ErrorLevel(verbosity)]
           /\ function.lines_in_function > Trigger(function.test, verbosity)
  <2>1. function.test \in BOOLEAN /\ function.lines_in_function \in Nat
    BY DEF LengthsInv
  <2>2. r.level = Level(function.lines_in_function \div Base(function.test))
    BY <1>3 DEF ErrorLevel
  <2> QED
    BY <1>3, <2>1, <2>2, LevelOfError DEF LevelsInv
<1> QED
  BY <1>1, <1>2, <1>3 DEF CheckForFunctionLengths, Check

(* The levels of all steps.                                                *)
LEMMA LevelsStep ==
  ASSUME LinesInv, PhaseInv, LengthsInv, LevelsInv, [Next]_vars
  PROVE  LevelsInv'
<1>1. verbosity' = verbosity
  BY DEF Next, ProcessFileData, ClearComments, ProcessLine, Crash, BeginJoining, JoinPreviousLine,
    FinishLine, EndLines, CheckForIncludeWhatYouUse, Ended, vars, constantVars
<1>2. CASE ProcessLine \/ Crash \/ BeginJoining
  <2>1. CheckForFunctionLengths(lines, n, verbosity) /\ Seen \in Nat
    BY <1>2 DEF ProcessLine, Crash, BeginJoining, Seen, PhaseInv, LinesInv
  <2>2. \A r \in sizes' : r.level \in Nat /\ (verbosity <= 5 => r.level >= verbosity)
    BY <2>1, LevelsAtLine
  <2> QED
    BY <1>1, <2>2 DEF LevelsInv
<1>3. CASE sizes' = sizes
  BY <1>1, <1>3 DEF LevelsInv
<1> QED
  BY <1>2, <1>3 DEF Next, ProcessFileData, ClearComments, JoinPreviousLine, FinishLine, EndLines,
    CheckForIncludeWhatYouUse, Ended, vars

-----------------------------------------------------------------------------
(* Braces before semicolons.                                               *)

(* The lines are lists of tokens.                                          *)
LEMMA TokensOfLines ==
  ASSUME LinesInv
  PROVE  \A l \in 0 .. LineCount - 1 : Tokens(lines[l]) \in Seq(Words)
<1> SUFFICES ASSUME NEW l \in 0 .. LineCount - 1
             PROVE  Tokens(lines[l]) \in Seq(Words)
  OBVIOUS
<1>1. IsLine(lines[l])
  BY TokensOfDummy DEF LinesInv
<1> QED
  BY <1>1, TokensOfLine

(* The definition of FlattenSeq by recursion means what it says.            *)
LEMMA FlattenTurns ==
  ASSUME NEW T, NEW s \in Seq(Seq(T)), Len(s) >= 1
  PROVE  \E f \in [1 .. Len(s) -> Seq(T)] :
           /\ f[1] = s[1] /\ \A i \in 2 .. Len(s) : f[i] = f[i - 1] \o s[i]
           /\ FlattenSeq(s) = f[Len(s)]
<1> DEFINE V == Seq(T)
           step == [p \in Nat \X V |-> IF p[1] + 1 \in DOMAIN s THEN p[2] \o s[p[1] + 1] ELSE p[2]]
           Turned(f) == f = [i \in 1 .. Len(s) |-> IF i = 1 THEN s[i] ELSE f[i - 1] \o s[i]]
           g == CHOOSE f : Turned(f)
<1>1. Len(s) \in Nat /\ DOMAIN s = 1 .. Len(s) /\ \A i \in 1 .. Len(s) : s[i] \in V
  OBVIOUS
<1>2. step \in [Nat \X V -> V]
  <2>1. ASSUME NEW p \in Nat \X V
        PROVE  (IF p[1] + 1 \in DOMAIN s THEN p[2] \o s[p[1] + 1] ELSE p[2]) \in V
    <3>1. p[2] \in Seq(T)
      OBVIOUS
    <3>2. CASE p[1] + 1 \in DOMAIN s
      <4>1. s[p[1] + 1] \in Seq(T)
        BY <1>1, <3>2
      <4> QED
        BY <3>1, <3>2, <4>1
    <3> QED
      BY <3>1, <3>2
  <2> QED
    BY <2>1
<1>3. \A i \in Nat, v \in V : i + 1 \in DOMAIN s => step[<<i, v>>] = v \o s[i + 1]
  OBVIOUS
<1>4. s[1] \in V /\ Len(s) - 1 \in Nat
  BY <1>1
<1> HIDE DEF V, step
<1>5. PICK h : Recursive(h, V, s[1], step, Len(s) - 1)
  BY <1>2, <1>4, RecursionExists
<1> DEFINE f == [i \in 1 .. Len(s) |-> h[i - 1]]
<1>6. f \in [1 .. Len(s) -> V] /\ f[1] = s[1]
  BY <1>1, <1>4, <1>5 DEF Recursive
<1>7. ASSUME NEW i \in 2 .. Len(s)
      PROVE  f[i] = f[i - 1] \o s[i]
  <2>1. /\ i - 1 \in 1 .. Len(s) - 1 /\ i - 1 - 1 \in 0 .. Len(s) - 1 /\ i - 1 \in Nat
        /\ i \in 1 .. Len(s) /\ i - 1 \in 1 .. Len(s) /\ i - 1 + 1 = i
    BY <1>1
  <2>2. h[i - 1] = step[<<i - 1, h[i - 1 - 1]>>] /\ h[i - 1 - 1] \in V
    BY <1>5, <2>1 DEF Recursive
  <2>3. h[i - 1] = h[i - 1 - 1] \o s[i]
    BY <1>1, <1>3, <2>1, <2>2
  <2> QED
    BY <2>1, <2>3
<1>8. Turned(f)
  <2>1. \A i \in 1 .. Len(s) : f[i] = IF i = 1 THEN s[i] ELSE f[i - 1] \o s[i]
    <3>1. \A i \in 1 .. Len(s) : i = 1 \/ i \in 2 .. Len(s)
      BY <1>1
    <3> HIDE DEF f
    <3> QED
      BY <1>6, <1>7, <3>1
  <2>2. f = [i \in 1 .. Len(s) |-> f[i]]
    OBVIOUS
  <2> HIDE DEF f
  <2> QED
    BY <2>1, <2>2
<1>9. Turned(g)
  <2> HIDE DEF Turned, f
  <2> QED
    BY <1>8, Zenon
<1>10. FlattenSeq(s) = g[Len(s)]
  BY <1>1 DEF FlattenSeq
<1>11. g = f
  <2> HIDE DEF g, f
  <2> DEFINE S == {i \in Nat : i + 1 \in 1 .. Len(s) => g[i + 1] = f[i + 1]}
  <2>1. 0 \in S
    BY <1>1, <1>8, <1>9
  <2>2. ASSUME NEW i \in Nat, i \in S
        PROVE  i + 1 \in S
    <3> SUFFICES ASSUME i + 1 + 1 \in 1 .. Len(s)
                 PROVE  g[i + 1 + 1] = f[i + 1 + 1]
      OBVIOUS
    <3>1. i + 1 \in 1 .. Len(s) /\ i + 1 + 1 # 1 /\ i + 1 + 1 - 1 = i + 1
      BY <1>1
    <3>2. g[i + 1] = f[i + 1]
      BY <2>2, <3>1
    <3>3. \A x : Turned(x) => x[i + 1 + 1] = x[i + 1] \o s[i + 1 + 1]
      <4> DEFINE j == i + 1 + 1
      <4>1. j \in 1 .. Len(s) /\ j # 1 /\ j - 1 = i + 1
        BY <3>1
      <4> HIDE DEF j
      <4>2. ASSUME NEW x, Turned(x)
            PROVE  x[j] = x[i + 1] \o s[j]
        <5> DEFINE e(k) == IF k = 1 THEN s[k] ELSE x[k - 1] \o s[k]
        <5>1. x = [k \in 1 .. Len(s) |-> e(k)]
          BY <4>2
        <5>2. e(j) = x[i + 1] \o s[j]
          BY <4>1
        <5> HIDE DEF e
        <5>3. x[j] = e(j)
          BY <4>1, <5>1
        <5> QED
          BY <5>2, <5>3
      <4> HIDE DEF Turned
      <4> QED
        BY <4>2, Zenon DEF j
    <3> HIDE DEF Turned
    <3>4. g[i + 1 + 1] = g[i + 1] \o s[i + 1 + 1] /\ f[i + 1 + 1] = f[i + 1] \o s[i + 1 + 1]
      BY <1>8, <1>9, <3>3
    <3> QED
      BY <3>1, <3>2, <3>4
  <2>3. \A i \in Nat : i \in S
    <3> HIDE DEF S
    <3> QED
      BY <2>1, <2>2, SetInduction
  <2>4. ASSUME NEW i \in 1 .. Len(s)
        PROVE  g[i] = f[i]
    <3>1. i - 1 \in Nat /\ i - 1 + 1 = i
      BY <1>1
    <3>2. i - 1 \in S
      BY <2>3, <3>1
    <3> QED
      BY <3>1, <3>2
  <2>5. g = [i \in 1 .. Len(s) |-> g[i]] /\ f = [i \in 1 .. Len(s) |-> f[i]]
    <3>1. \A x : x = [i \in 1 .. Len(s) |-> IF i = 1 THEN s[i] ELSE x[i - 1] \o s[i]] =>
            x = [i \in 1 .. Len(s) |-> x[i]]
      OBVIOUS
    <3> QED
      BY <1>8, <1>9, <3>1
  <2> QED
    BY <2>4, <2>5
<1>12. FlattenSeq(s) = f[Len(s)]
  BY <1>10, <1>11
<1> HIDE DEF f
<1> QED
  BY <1>6, <1>7, <1>12 DEF V

(* Max of two integers.                                                    *)
LEMMA MaxOfTwo ==
  ASSUME NEW a \in Int, NEW b \in Int
  PROVE  Max({a, b}) = IF a >= b THEN a ELSE b
<1>1. \E x \in {a, b} : \A y \in {a, b} : x >= y
  OBVIOUS
<1>2. Max({a, b}) \in {a, b} /\ \A y \in {a, b} : Max({a, b}) >= y
  BY <1>1 DEF Max
<1> QED
  BY <1>2

(* The lines that the loop of CheckBraces has joined end with line n.       *)
LEMMA TextEnds ==
  ASSUME LinesInv, n \in 0 .. LineCount - 1, NEW p \in -1 .. n
  PROVE  \E front \in Seq(Words) : Text(lines, p, n) = front \o Tokens(lines[n])
<1>0. LineCount \in Nat /\ n \in Nat /\ p \in Int
  BY DEF LinesInv
<1>1. \A l \in 0 .. n : Tokens(lines[l]) \in Seq(Words)
  BY <1>0, TokensOfLines
<1>2. CASE p = n
  <2>1. <<>> \in Seq(Words) /\ Tokens(lines[n]) = <<>> \o Tokens(lines[n])
    BY <1>0, <1>1
  <2> QED
    BY <1>2, <2>1 DEF Text
<1>3. CASE p # n
  <2> DEFINE first == Max({p, 0})
             k == n - first + 1
             s == [i \in 1 .. k |-> Tokens(lines[first + i - 1])]
  <2>1. first \in 0 .. n
    BY <1>0, <1>3, MaxOfTwo
  <2>2. Text(lines, p, n) = FlattenSeq(s)
    BY <1>3 DEF Text
  <2> HIDE DEF first
  <2>3. k \in Nat /\ k >= 1 /\ first + k - 1 = n
    BY <1>0, <2>1
  <2>4. ASSUME NEW i \in 1 .. k
        PROVE  Tokens(lines[first + i - 1]) \in Seq(Words)
    <3>1. first + i - 1 \in 0 .. n
      BY <1>0, <2>1
    <3> QED
      BY <1>1, <3>1
  <2> HIDE DEF k
  <2>5. s \in Seq(Seq(Words)) /\ Len(s) = k
    BY <2>3, <2>4
  <2>6. s[k] = Tokens(lines[n])
    BY <2>3
  <2> HIDE DEF s
  <2>7. PICK f \in [1 .. Len(s) -> Seq(Words)] :
          /\ f[1] = s[1] /\ \A i \in 2 .. Len(s) : f[i] = f[i - 1] \o s[i]
          /\ FlattenSeq(s) = f[Len(s)]
    BY <2>3, <2>5, FlattenTurns
  <2>8. CASE k = 1
    <3>1. FlattenSeq(s) = Tokens(lines[n])
      BY <2>5, <2>6, <2>7, <2>8
    <3>2. <<>> \in Seq(Words) /\ Tokens(lines[n]) = <<>> \o Tokens(lines[n])
      BY <1>0, <1>1
    <3> QED
      BY <2>2, <3>1, <3>2
  <2>9. CASE k # 1
    <3>1. k \in 2 .. k /\ k - 1 \in 1 .. k
      BY <2>3, <2>9
    <3>2. f[k] = f[k - 1] \o s[k] /\ f[k - 1] \in Seq(Words)
      BY <2>5, <2>7, <3>1
    <3> QED
      BY <2>2, <2>5, <2>6, <2>7, <3>2
  <2> QED
    BY <2>8, <2>9
<1> QED
  BY <1>2, <1>3

(* A block that the last line ends ends in all the text.                    *)
LEMMA BlockOfText ==
  ASSUME LinesInv, n \in 0 .. LineCount - 1, NEW p \in -1 .. n, IsBlock(lines, n, n)
  PROVE  EndsBlock(Text(lines, p, n), 1)
<1> DEFINE t == Tokens(lines[n])
           text == Text(lines, p, n)
<1>1. t \in Seq(Words)
  BY TokensOfLines
<1>2. EndsBlock(t, 1)
  BY DEF IsBlock, Text
<1>3. PICK j \in 1 + 1 .. Len(t) - 1 : t[j] = "}" /\ t[j + 1] = ";"
  BY <1>2, Zenon DEF EndsBlock
<1>4. PICK front \in Seq(Words) : text = front \o t
  BY TextEnds
<1> HIDE DEF t, text
<1> DEFINE i == Len(front) + j
<1>5. /\ i \in 1 + 1 .. Len(text) - 1 /\ j \in Nat /\ Len(front) \in Nat
      /\ text[i] = t[j] /\ text[i + 1] = t[j + 1]
  <2>1. Len(front) \in Nat /\ Len(t) \in Nat /\ Len(text) = Len(front) + Len(t)
    BY <1>1, <1>4
  <2>2. j \in Nat /\ 2 <= j /\ j < Len(t) /\ j \in 1 .. Len(t) /\ j + 1 \in 1 .. Len(t)
    <3>1. j \in Int /\ 1 + 1 <= j /\ j <= Len(t) - 1
      BY <2>1
    <3> QED
      BY <2>1, <3>1
  <2>3. i + 1 = Len(front) + (j + 1)
    BY <2>1, <2>2
  <2>4. \A x \in 1 .. Len(t) : (front \o t)[Len(front) + x] = t[x]
    BY <1>1
  <2>5. text[i] = t[j] /\ text[i + 1] = t[j + 1]
    BY <1>4, <2>2, <2>3, <2>4
  <2>6. i \in 1 + 1 .. Len(text) - 1
    BY <2>1, <2>2
  <2> QED
    BY <2>1, <2>2, <2>5, <2>6
<1>6. text[i] = "}" /\ text[i + 1] = ";"
  BY <1>3, <1>5
<1> HIDE DEF i
<1> QED
  BY <1>5, <1>6, Zenon DEF EndsBlock, text

(* GetPreviousNonBlankLine.                                                 *)
LEMMA PreviousLine ==
  ASSUME NEW p \in Nat
  PROVE  LET q == GetPreviousNonBlankLine(lines, p)
         IN  \/ q = -1 /\ \A l \in 0 .. p - 1 : Blank(lines[l])
             \/ /\ q \in 0 .. p - 1 /\ ~ Blank(lines[q])
                /\ \A l \in q + 1 .. p - 1 : Blank(lines[l])
<1> DEFINE T == {l \in 0 .. p - 1 : ~ Blank(lines[l])}
           q == Max(T \cup {-1})
<1>1. GetPreviousNonBlankLine(lines, p) = q
  BY DEF GetPreviousNonBlankLine
<1>2. CASE T = {}
  <2>1. T \cup {-1} = {-1, -1}
    BY <1>2
  <2>2. q = -1
    BY <2>1, MaxOfTwo
  <2> QED
    BY <1>1, <1>2, <2>2
<1>3. CASE T # {}
  <2>1. T \subseteq 0 .. p
    OBVIOUS
  <2>2. PICK m \in T : \A x \in T : x <= m
    <3> HIDE DEF T
    <3> QED
      BY <1>3, <2>1, GreatestElement
  <2>3. \E x \in T \cup {-1} : \A y \in T \cup {-1} : x >= y
    <3>1. m \in T \cup {-1} /\ \A y \in T \cup {-1} : m >= y
      BY <2>1, <2>2
    <3> QED
      BY <3>1
  <2>4. q \in T \cup {-1} /\ \A y \in T \cup {-1} : q >= y
    BY <2>3 DEF Max
  <2> HIDE DEF q
  <2>5. q \in T
    BY <2>1, <2>2, <2>4
  <2>6. \A l \in q + 1 .. p - 1 : Blank(lines[l])
    BY <2>4, <2>5
  <2> QED
    BY <1>1, <2>5, <2>6
<1> QED
  BY <1>2, <1>3

Semicolon(l) == [line |-> l, error |-> "semicolon"]

(* Whether there is an error of a semicolon on line l depends on its        *)
(* statement.                                                              *)
SemicolonJudged(l) == Semicolon(l) \in braces <=> ErrorOfSemicolon(lines, Statement(l), l) # {}

(* The lines from line p to line n, at which the loop of CheckBraces is.     *)
Joined(p) ==
  /\ IsBlock(lines, n, n) /\ p \in -1 .. n
  /\ p = -1 => \A l \in 0 .. n : Blank(lines[l]) \/ GoesOn(l)
  /\ p # -1 => ~ Blank(lines[p]) /\ BeginsStatement(p, n)

SemicolonsInv ==
  /\ \A l \in DOMAIN lines : Semicolon(l) \in braces => l < n
  /\ \A l \in 0 .. n - 1 : SemicolonJudged(l)
  /\ phase = "joining" => Joined(prevlinenum)

(* A line that ends a block begins one or goes on with a list of blocks.     *)
LEMMA BlockLine ==
  ASSUME n \in Nat, IsBlock(lines, n, n)
  PROVE  GoesOn(n) /\ ~ Blank(lines[n])
<1>1. FirstLine(lines, n, n) = lines[n] /\ Text(lines, n, n) = Tokens(lines[n])
  BY DEF FirstLine, Text
<1>2. /\ lines[n].is = "code" /\ Head(lines[n].tokens) = "{"
      /\ EndsBlock(Tokens(lines[n]), 1)
  BY <1>1 DEF IsBlock
<1>3. Tokens(lines[n]) # <<>>
  <2>1. ~ \E j \in 1 + 1 .. Len(<<>>) - 1 : TRUE
    OBVIOUS
  <2>2. ~ EndsBlock(<<>>, 1)
    BY <2>1, Zenon DEF EndsBlock
  <2> QED
    BY <1>2, <2>2
<1> QED
  BY <1>2, <1>3 DEF GoesOn, Blank, Tokens

(* Nothing comes before the first line.                                     *)
LEMMA NothingBeforeFirst == TokensAt(lines, GetPreviousNonBlankLine(lines, -1)) = <<>>
<1>1. {l \in 0 .. -1 - 1 : ~ Blank(lines[l])} \cup {-1} = {-1, -1}
  OBVIOUS
<1>2. GetPreviousNonBlankLine(lines, -1) = -1
  BY <1>1, MaxOfTwo DEF GetPreviousNonBlankLine
<1> QED
  BY <1>2 DEF TokensAt

(* The loop goes back by a line, or finds no line and goes on from there.    *)
LEMMA JoinedFurther ==
  ASSUME LinesInv, n \in 0 .. LineCount - 1, NEW p, Joined(p), Joins(lines, p, n)
  PROVE  Joined(GetPreviousNonBlankLine(lines, p))
<1> DEFINE q == GetPreviousNonBlankLine(lines, p)
<1> SUFFICES Joined(q)
  OBVIOUS
<1>1. n \in Nat /\ IsBlock(lines, n, n) /\ p \in -1 .. n
  BY DEF LinesInv, Joined
<1>2. GoesOn(n) /\ ~ Blank(lines[n])
  BY <1>1, BlockLine
<1>3. CASE p = -1
  <2>1. {l \in 0 .. -1 - 1 : ~ Blank(lines[l])} \cup {-1} = {-1, -1}
    OBVIOUS
  <2>2. q = -1
    BY <1>3, <2>1, MaxOfTwo DEF GetPreviousNonBlankLine
  <2> QED
    BY <1>3, <2>2
<1>4. CASE p # -1
  <2>1. p \in 0 .. n /\ ~ Blank(lines[p]) /\ BeginsStatement(p, n)
    BY <1>1, <1>4 DEF Joined
  <2>2. GoesOn(p)
    <3>1. FirstLine(lines, p, n).is = "code" /\ Head(FirstLine(lines, p, n).tokens) = "{"
      BY Zenon DEF Joins, IsBlock
    <3>2. FirstLine(lines, p, n) = lines[p]
      BY <2>1 DEF FirstLine
    <3> QED
      BY <3>1, <3>2 DEF GoesOn, Tokens
  <2>3. \A l \in p .. n : Blank(lines[l]) \/ (GoesOn(l) /\ (l < n => ~ HasSemicolon(lines[l])))
    BY <2>1, <2>2 DEF BeginsStatement
  <2>4. p \in Nat
    BY <2>1
  <2>5. CASE q = -1 /\ \A l \in 0 .. p - 1 : Blank(lines[l])
    <3>1. \A l \in 0 .. n : l \in 0 .. p - 1 \/ l \in p .. n
      BY <1>1, <2>4
    <3> HIDE DEF q
    <3>2. \A l \in 0 .. n : Blank(lines[l]) \/ GoesOn(l)
      BY <2>3, <2>5, <3>1
    <3> QED
      BY <1>1, <2>5, <3>2 DEF Joined
  <2>6. CASE q \in 0 .. p - 1 /\ ~ Blank(lines[q]) /\ \A l \in q + 1 .. p - 1 : Blank(lines[l])
    <3>1. ~ HasSemicolon(lines[q])
      <4>1. TokensAt(lines, q) = Tokens(lines[q])
        BY <2>6 DEF TokensAt
      <4>2. ~ Contains(TokensAt(lines, q), ";")
        BY DEF Joins
      <4> HIDE DEF q
      <4> QED
        BY <4>1, <4>2 DEF HasSemicolon, HasToken
    <3> HIDE DEF q
    <3>2. \A l \in q .. n : l = q \/ l \in q + 1 .. p - 1 \/ l \in p .. n
      BY <1>1, <2>4, <2>6
    <3>3. q \in -1 .. n /\ q # -1 /\ q < n
      BY <1>1, <2>1, <2>6
    <3>4. BeginsStatement(q, n)
      <4> SUFFICES ASSUME NEW l \in q .. n
                   PROVE  Blank(lines[l]) \/ ((l < n => ~ HasSemicolon(lines[l])) /\ (l > q => GoesOn(l)))
        BY DEF BeginsStatement
      <4>1. CASE l = q
        BY <2>6, <3>1, <4>1
      <4>2. CASE l \in q + 1 .. p - 1
        BY <2>6, <4>2
      <4>3. CASE l \in p .. n
        BY <2>3, <4>3
      <4> QED
        BY <3>2, <4>1, <4>2, <4>3
    <3> QED
      BY <1>1, <2>6, <3>3, <3>4 DEF Joined
  <2>7. \/ q = -1 /\ \A l \in 0 .. p - 1 : Blank(lines[l])
        \/ /\ q \in 0 .. p - 1 /\ ~ Blank(lines[q])
           /\ \A l \in q + 1 .. p - 1 : Blank(lines[l])
    BY <2>4, PreviousLine
  <2> HIDE DEF q
  <2> QED
    BY <2>5, <2>6, <2>7
<1> QED
  BY <1>3, <1>4

(* A loop that has found no line before never ends.                         *)
LEMMA JoinsForever ==
  ASSUME LinesInv, n \in 0 .. LineCount - 1, Joined(-1)
  PROVE  Joins(lines, -1, n)
<1>1. n \in Nat /\ IsBlock(lines, n, n) /\ \A l \in 0 .. n : Blank(lines[l]) \/ GoesOn(l)
  <2>1. n \in Nat
    BY DEF LinesInv
  <2>2. IsBlock(lines, n, n) /\ \A l \in 0 .. n : Blank(lines[l]) \/ GoesOn(l)
    BY Zenon DEF Joined
  <2> QED
    BY <2>1, <2>2
<1> DEFINE S == {l \in 0 .. n : ~ Blank(lines[l])}
           first == Min(S)
<1>2. first \in S
  <2>1. n \in S
    BY <1>1, BlockLine
  <2>2. S \subseteq Nat /\ S # {}
    BY <2>1
  <2> HIDE DEF S
  <2> QED
    BY <2>2, MinIsLeast
<1>3. FirstLine(lines, -1, n) = lines[first]
  BY DEF FirstLine
<1> HIDE DEF first
<1>4. GoesOn(first)
  BY <1>1, <1>2
<1>5. lines[first].is = "code" /\ Head(lines[first].tokens) = "{"
  BY <1>4 DEF GoesOn, Tokens
<1>6. EndsBlock(Text(lines, -1, n), 1)
  BY <1>1, BlockOfText
<1>7. ~ Contains(<<>>, ";")
  BY DEF Contains
<1> QED
  BY <1>3, <1>5, <1>6, <1>7, NothingBeforeFirst DEF Joins, IsBlock

(* Where the loop ends, the statement begins.                               *)
LEMMA StatementBegins ==
  ASSUME LinesInv, n \in 0 .. LineCount - 1, NEW p, Joined(p), ~ Joins(lines, p, n)
  PROVE  p = Statement(n)
<1>1. n \in Nat /\ IsBlock(lines, n, n) /\ p \in -1 .. n
  BY DEF LinesInv, Joined
<1>2. p \in 0 .. n /\ p \in Nat /\ ~ Blank(lines[p]) /\ BeginsStatement(p, n)
  <2>1. p # -1
    BY JoinsForever
  <2> QED
    BY <1>1, <2>1 DEF Joined
<1> DEFINE S == {f \in 0 .. n : ~ Blank(lines[f]) /\ BeginsStatement(f, n)}
           q == GetPreviousNonBlankLine(lines, p)
<1>3. ASSUME NEW f \in S, f < p
      PROVE  FALSE
  <2>1. f \in 0 .. p - 1 /\ ~ Blank(lines[f])
    BY <1>2, <1>3
  <2>2. \A l \in f .. n : Blank(lines[l]) \/ ((l < n => ~ HasSemicolon(lines[l])) /\ (l > f => GoesOn(l)))
    BY <1>3 DEF BeginsStatement
  <2>3. GoesOn(p)
    <3>1. p \in f .. n /\ p > f
      BY <1>2, <1>3
    <3> QED
      BY <1>2, <2>2, <3>1
  <2>4. IsBlock(lines, p, n)
    <3>1. FirstLine(lines, p, n) = lines[p]
      BY <1>2 DEF FirstLine
    <3>2. lines[p].is = "code" /\ Head(lines[p].tokens) = "{"
      BY <2>3 DEF GoesOn, Tokens
    <3>3. EndsBlock(Text(lines, p, n), 1)
      BY <1>1, BlockOfText
    <3> QED
      BY <3>1, <3>2, <3>3 DEF IsBlock
  <2>5. q \in 0 .. p - 1 /\ ~ Blank(lines[q]) /\ \A l \in q + 1 .. p - 1 : Blank(lines[l])
    <3>1. \/ q = -1 /\ \A l \in 0 .. p - 1 : Blank(lines[l])
          \/ /\ q \in 0 .. p - 1 /\ ~ Blank(lines[q])
             /\ \A l \in q + 1 .. p - 1 : Blank(lines[l])
      BY <1>2, PreviousLine
    <3> HIDE DEF q
    <3> QED
      BY <2>1, <3>1
  <2>6. Contains(TokensAt(lines, q), ";")
    BY <2>4 DEF Joins
  <2> HIDE DEF q
  <2>7. HasSemicolon(lines[q])
    <3>1. TokensAt(lines, q) = Tokens(lines[q])
      BY <2>5 DEF TokensAt
    <3> QED
      BY <2>6, <3>1 DEF HasSemicolon, HasToken
  <2>8. f <= q
    BY <1>2, <2>1, <2>5
  <2>9. q \in f .. n /\ q < n
    BY <1>1, <1>2, <2>1, <2>5, <2>8
  <2> QED
    BY <2>2, <2>5, <2>7, <2>9
<1>4. p \in S
  BY <1>2
<1>5. Statement(n) = Min(S)
  BY <1>1 DEF Statement
<1>6. Min(S) \in S /\ \A x \in S : Min(S) <= x
  <2>1. S \subseteq Nat /\ S # {}
    BY <1>4
  <2> HIDE DEF S
  <2> QED
    BY <2>1, MinIsLeast
<1>7. Min(S) \in Nat
  BY <1>6
<1> HIDE DEF S
<1> QED
  BY <1>2, <1>3, <1>4, <1>5, <1>6, <1>7

(* The errors of the other checks of a line are others.                     *)
LEMMA OtherErrors ==
  ASSUME NEW l, NEW p
  PROVE  /\ "semicolon" \notin ErrorsOfLine(lines, l) \cup ErrorsOfPosition(lines, l)
         /\ ErrorOfSemicolon(lines, p, l) \in {{}, {"semicolon"}}
<1>1. "semicolon" \notin ErrorsOfPosition(lines, l)
  BY DEF ErrorsOfPosition
<1>2. "semicolon" \notin ErrorsOfLine(lines, l)
  BY <1>1 DEF ErrorsOfLine
<1>3. ErrorOfSemicolon(lines, p, l) \in {{}, {"semicolon"}}
  BY DEF ErrorOfSemicolon
<1> QED
  BY <1>1, <1>2, <1>3

(* Errors of a line that are added.                                         *)
LEMMA SemicolonAdded ==
  ASSUME NEW E, braces' = braces \cup Errors(n, E), NEW l
  PROVE  Semicolon(l) \in braces' <=> Semicolon(l) \in braces \/ (l = n /\ "semicolon" \in E)
<1>1. Semicolon(l) \in Errors(n, E) <=> l = n /\ "semicolon" \in E
  BY DEF Semicolon, Errors
<1> QED
  BY <1>1

(* Statements are of the lines that are read, which do not change.          *)
LEMMA SameBeginning ==
  ASSUME lines' = lines, NEW f, NEW l
  PROVE  BeginsStatement(f, l)' <=> BeginsStatement(f, l)
<1> QED
  BY DEF BeginsStatement, GoesOn

(* See SameBeginning.                                                       *)
LEMMA SameJoined ==
  ASSUME lines' = lines, n' = n, Joined(prevlinenum')
  PROVE  Joined(prevlinenum)'
<1> DEFINE p == prevlinenum'
<1>1. BeginsStatement(p, n) => \A k \in p .. n :
        Blank(lines'[k]) \/ ((k < n => ~ HasSemicolon(lines'[k])) /\ (k > p => GoesOn(k)'))
  BY DEF BeginsStatement, GoesOn
<1>2. BeginsStatement(p, n) => BeginsStatement(prevlinenum, n)'
  BY <1>1 DEF BeginsStatement
<1>3. \A l : GoesOn(l)' <=> GoesOn(l)
  BY DEF GoesOn
<1> QED
  BY <1>2, <1>3 DEF Joined

(* What is judged stays so.                                                 *)
LEMMA SameStatement ==
  ASSUME lines' = lines, NEW l
  PROVE  /\ Statement(l)' = Statement(l)
         /\ (ErrorOfSemicolon(lines, Statement(l), l) # {})'
              <=> ErrorOfSemicolon(lines, Statement(l), l) # {}
<1>1. Statement(l)' = Statement(l)
  <2>1. IsBlock(lines, l, l)' <=> IsBlock(lines, l, l)
    OBVIOUS
  <2>2. {f \in 0 .. l : ~ Blank(lines[f]) /\ BeginsStatement(f, l)}'
          = {f \in 0 .. l : ~ Blank(lines[f]) /\ BeginsStatement(f, l)}
    <3>1. \A f \in 0 .. l : BeginsStatement(f, l)' <=> BeginsStatement(f, l)
      BY SameBeginning
    <3> QED
      BY <3>1
  <2> QED
    BY <2>1, <2>2 DEF Statement
<1> QED
  BY <1>1

(* A line that no line is joined to is a statement.                         *)
LEMMA StatementOfLine ==
  ASSUME LinesInv, n \in 0 .. LineCount - 1
  PROVE  /\ ~ IsBlock(lines, n, n) => Statement(n) = n
         /\ IsBlock(lines, n, n) => Joined(n)
<1>1. CASE ~ IsBlock(lines, n, n)
  BY <1>1 DEF Statement
<1>2. CASE IsBlock(lines, n, n)
  <2>1. n \in Nat /\ n \in -1 .. n /\ n # -1
    BY DEF LinesInv
  <2>2. ~ Blank(lines[n])
    BY <1>2, <2>1, BlockLine
  <2>3. BeginsStatement(n, n)
    BY <2>1 DEF BeginsStatement
  <2> QED
    BY <1>2, <2>1, <2>2, <2>3 DEF Joined
<1> QED
  BY <1>1, <1>2

(* A line is judged, when its statement is known.                           *)
LEMMA LineJudged ==
  ASSUME LinesInv, SemicolonsInv, n \in 0 .. LineCount - 1, lines' = lines, n' = n + 1,
         NEW E, braces' = braces \cup Errors(n, E),
         "semicolon" \in E <=> ErrorOfSemicolon(lines, Statement(n), n) # {}, phase' # "joining"
  PROVE  SemicolonsInv'
<1>0. n \in Nat /\ 0 .. n' - 1 = 0 .. n /\ DOMAIN lines = 0 .. LineCount - 1
  <2>1. LineCount \in Nat /\ DOMAIN lines = 0 .. LineCount - 1
    BY DEF LinesInv
  <2>2. n \in Nat /\ n' - 1 = n
    BY <2>1
  <2> QED
    BY <2>1, <2>2
<1>1. \A l : Semicolon(l) \in braces' <=> Semicolon(l) \in braces \/ (l = n /\ "semicolon" \in E)
  BY SemicolonAdded
<1>2. ASSUME NEW l \in DOMAIN lines, Semicolon(l)' \in braces'
      PROVE  l < n'
  <2>1. Semicolon(l) \in braces'
    BY <1>2 DEF Semicolon
  <2>2. Semicolon(l) \in braces \/ l = n
    BY <1>1, <2>1
  <2>3. Semicolon(l) \in braces => l < n
    BY DEF SemicolonsInv
  <2> QED
    BY <1>0, <2>2, <2>3
<1>3. ASSUME NEW l \in 0 .. n
      PROVE  SemicolonJudged(l)'
  <2>1. Semicolon(l)' = Semicolon(l)
    BY DEF Semicolon
  <2>2. (ErrorOfSemicolon(lines, Statement(l), l) # {})'
          <=> ErrorOfSemicolon(lines, Statement(l), l) # {}
    BY SameStatement
  <2>3. CASE l = n
    <3>1. ~ (Semicolon(n) \in braces)
      <4>1. n \in DOMAIN lines /\ ~ n < n
        BY <1>0 DEF LinesInv
      <4> QED
        BY <4>1 DEF SemicolonsInv
    <3> QED
      BY <1>1, <2>1, <2>2, <2>3, <3>1 DEF SemicolonJudged
  <2>4. CASE l # n
    <3>1. SemicolonJudged(l)
      <4>1. l \in 0 .. n - 1
        BY <1>0, <2>4
      <4> QED
        BY <4>1 DEF SemicolonsInv
    <3> QED
      BY <1>1, <2>1, <2>2, <2>4, <3>1 DEF SemicolonJudged
  <2> QED
    BY <2>3, <2>4
<1> QED
  BY <1>0, <1>2, <1>3 DEF SemicolonsInv

(* A step that reports no semicolon and reads no line to its end.           *)
LEMMA NothingJudged ==
  ASSUME LinesInv, SemicolonsInv, lines' = lines, n' = n,
         NEW E, braces' = braces \cup Errors(n, E), "semicolon" \notin E,
         phase' = "joining" => Joined(prevlinenum)'
  PROVE  SemicolonsInv'
<1>1. \A l : Semicolon(l)' \in braces' <=> Semicolon(l) \in braces
  BY SemicolonAdded DEF Semicolon
<1>2. ASSUME NEW l \in 0 .. n - 1
      PROVE  SemicolonJudged(l)'
  <2>1. (ErrorOfSemicolon(lines, Statement(l), l) # {})'
          <=> ErrorOfSemicolon(lines, Statement(l), l) # {}
    BY SameStatement
  <2>2. SemicolonJudged(l)
    BY DEF SemicolonsInv
  <2> QED
    BY <1>1, <2>1, <2>2 DEF SemicolonJudged
<1> QED
  BY <1>1, <1>2 DEF SemicolonsInv

(* The errors of semicolons.                                               *)
LEMMA SemicolonsStep ==
  ASSUME LinesInv, PhaseInv, SemicolonsInv, [Next]_vars
  PROVE  SemicolonsInv'
<1>0. LineCount \in Nat /\ DOMAIN lines = 0 .. LineCount - 1
  BY DEF LinesInv
<1>1. CASE ClearComments
  <2>1. n = 0 /\ n' = 0 /\ braces' = braces /\ phase' # "joining"
    BY <1>1 DEF ClearComments, PhaseInv, braceVars
  <2>2. DOMAIN lines' = DOMAIN lines
    BY <1>0, LinesStep DEF LinesInv
  <2>3. \A l \in DOMAIN lines' : Semicolon(l)' \notin braces'
    <3> SUFFICES ASSUME NEW l \in DOMAIN lines
                 PROVE  Semicolon(l)' \notin braces'
      BY <2>2
    <3>1. Semicolon(l)' = Semicolon(l)
      BY DEF Semicolon
    <3>2. Semicolon(l) \in braces => l < 0
      BY <2>1 DEF SemicolonsInv
    <3>3. ~ l < 0
      BY <1>0
    <3> QED
      BY <2>1, <3>1, <3>2, <3>3
  <2> QED
    BY <2>1, <2>3 DEF SemicolonsInv
<1>2. CASE ProcessLine
  <2>1. /\ lines' = lines /\ n' = n + 1 /\ phase' # "joining" /\ n \in 0 .. LineCount - 1
        /\ braces' = braces \cup Errors(n, ErrorsOfLine(lines, n) \cup ErrorOfSemicolon(lines, n, n))
        /\ ~ Joins(lines, n, n)
    BY <1>0, <1>2 DEF ProcessLine, RestOfLine, CheckBraces, commentVars
  <2>2. Statement(n) = n
    BY <2>1, StatementOfLine, StatementBegins
  <2>3. "semicolon" \in ErrorsOfLine(lines, n) \cup ErrorOfSemicolon(lines, n, n)
          <=> ErrorOfSemicolon(lines, Statement(n), n) # {}
    <3>1. "semicolon" \notin ErrorsOfLine(lines, n) /\ ErrorOfSemicolon(lines, n, n) \in {{}, {"semicolon"}}
      BY OtherErrors
    <3> QED
      BY <2>2, <3>1
  <2> QED
    BY <2>1, <2>3, LineJudged
<1>3. CASE Crash
  <2>1. /\ lines' = lines /\ n' = n /\ phase' # "joining"
        /\ braces' = braces \cup Errors(n, ErrorsOfPosition(lines, n))
    BY <1>3 DEF Crash, BeforeFailure, commentVars
  <2> QED
    BY <2>1, OtherErrors, NothingJudged
<1>4. CASE BeginJoining
  <2>1. /\ lines' = lines /\ n' = n /\ prevlinenum' = n /\ n \in 0 .. LineCount - 1
        /\ braces' = braces \cup Errors(n, ErrorsOfLine(lines, n)) /\ IsBlock(lines, n, n)
    BY <1>0, <1>4 DEF BeginJoining, BeforeLoop, Joins, commentVars
  <2>2. Joined(n)
    BY <2>1, StatementOfLine
  <2>3. Joined(prevlinenum)'
    BY <2>1, <2>2, SameJoined
  <2> QED
    BY <2>1, <2>3, OtherErrors, NothingJudged
<1>5. CASE JoinPreviousLine
  <2>1. /\ lines' = lines /\ n' = n /\ prevlinenum' = GetPreviousNonBlankLine(lines, prevlinenum)
        /\ phase = "joining" /\ braces' = braces /\ Joins(lines, prevlinenum, n)
    BY <1>5 DEF JoinPreviousLine, JoinPrevious, commentVars
  <2>2. n \in 0 .. LineCount - 1 /\ Joined(prevlinenum)
    BY <1>0, <2>1 DEF PhaseInv, SemicolonsInv
  <2>3. Joined(GetPreviousNonBlankLine(lines, prevlinenum))
    BY <2>1, <2>2, JoinedFurther
  <2>4. Joined(prevlinenum)'
    BY <2>1, <2>3, SameJoined
  <2>5. braces' = braces \cup Errors(n, {})
    BY <2>1 DEF Errors
  <2> QED
    BY <2>1, <2>4, <2>5, NothingJudged
<1>6. CASE FinishLine
  <2>1. /\ lines' = lines /\ n' = n + 1 /\ phase' # "joining" /\ phase = "joining"
        /\ braces' = braces \cup Errors(n, ErrorOfSemicolon(lines, prevlinenum, n))
        /\ ~ Joins(lines, prevlinenum, n)
    BY <1>6 DEF FinishLine, AfterLoop, RestOfLine, commentVars
  <2>2. n \in 0 .. LineCount - 1 /\ Joined(prevlinenum)
    BY <1>0, <2>1 DEF PhaseInv, SemicolonsInv
  <2>3. prevlinenum = Statement(n)
    BY <2>1, <2>2, StatementBegins
  <2>4. ErrorOfSemicolon(lines, Statement(n), n) \in {{}, {"semicolon"}}
    BY OtherErrors
  <2> QED
    BY <2>1, <2>2, <2>3, <2>4, LineJudged
<1>7. CASE EndLines \/ CheckForIncludeWhatYouUse \/ UNCHANGED vars
  <2>1. lines' = lines /\ n' = n /\ braces' = braces /\ prevlinenum' = prevlinenum
    BY <1>7 DEF EndLines, CheckForIncludeWhatYouUse, vars, commentVars, braceVars
  <2>2. phase' = "joining" => phase = "joining"
    BY <1>7 DEF EndLines, CheckForIncludeWhatYouUse, vars
  <2>3. phase' = "joining" => Joined(prevlinenum)'
    BY <2>1, <2>2, SameJoined DEF SemicolonsInv
  <2>4. braces' = braces \cup Errors(n, {})
    BY <2>1 DEF Errors
  <2> QED
    BY <2>1, <2>3, <2>4, NothingJudged
<1> QED
  BY <1>1, <1>2, <1>3, <1>4, <1>5, <1>6, <1>7 DEF Next, ProcessFileData, Ended

-----------------------------------------------------------------------------
(* Braces after an else.                                                   *)

Paren(l) == Opened(lines)[l]

(* What a token adds to the occurrences of another, and to the parentheses. *)
One(x, token) == IF x = token THEN 1 ELSE 0
Turn(x) == One(x, "(") - One(x, ")")

(* How often a token occurs among the first of a list.                      *)
LEMMA OccurrencesNext ==
  ASSUME NEW tokens \in Seq(Words), NEW token, NEW i \in 0 .. Len(tokens)
  PROVE  /\ Occurrences(SubSeq(tokens, 1, i), token) \in Nat
         /\ i < Len(tokens) =>
              Occurrences(SubSeq(tokens, 1, i + 1), token)
                = Occurrences(SubSeq(tokens, 1, i), token) + One(tokens[i + 1], token)
<1> DEFINE A(k) == {j \in 1 .. k : tokens[j] = token}
<1>1. ASSUME NEW k \in 0 .. Len(tokens)
      PROVE  /\ Occurrences(SubSeq(tokens, 1, k), token) = Cardinality(A(k))
             /\ IsFiniteSet(A(k)) /\ Cardinality(A(k)) \in Nat
  <2>1. {j \in DOMAIN SubSeq(tokens, 1, k) : SubSeq(tokens, 1, k)[j] = token} = A(k)
    OBVIOUS
  <2>2. IsFiniteSet(1 .. k) /\ A(k) \subseteq 1 .. k
    BY FS_Interval
  <2>3. IsFiniteSet(A(k)) /\ Cardinality(A(k)) \in Nat
    BY <2>2, FS_Subset, FS_CardinalityType
  <2> QED
    BY <2>1, <2>3 DEF Occurrences
<1>2. ASSUME i < Len(tokens)
      PROVE  Cardinality(A(i + 1)) = Cardinality(A(i)) + One(tokens[i + 1], token)
  <2>1. CASE tokens[i + 1] = token
    <3>1. A(i + 1) = A(i) \cup {i + 1} /\ i + 1 \notin A(i)
      BY <1>2, <2>1
    <3>2. Cardinality(A(i) \cup {i + 1}) = Cardinality(A(i)) + 1
      BY <1>1, <3>1, FS_AddElement
    <3> QED
      BY <2>1, <3>1, <3>2 DEF One
  <2>2. CASE tokens[i + 1] # token
    <3>1. A(i + 1) = A(i)
      BY <1>2, <2>2
    <3>2. Cardinality(A(i)) \in Nat
      BY <1>1
    <3>3. One(tokens[i + 1], token) = 0
      BY <2>2 DEF One
    <3> HIDE DEF A
    <3> QED
      BY <3>1, <3>2, <3>3
  <2> QED
    BY <2>1, <2>2
<1>3. i < Len(tokens) => i + 1 \in 0 .. Len(tokens)
  OBVIOUS
<1> HIDE DEF A
<1> QED
  BY <1>1, <1>2, <1>3

(* See OccurrencesNext.                                                    *)
LEMMA ParensNext ==
  ASSUME NEW tokens \in Seq(Words), NEW i \in 0 .. Len(tokens)
  PROVE  /\ OpensMore(SubSeq(tokens, 1, i)) \in Int
         /\ i < Len(tokens) =>
              OpensMore(SubSeq(tokens, 1, i + 1))
                = OpensMore(SubSeq(tokens, 1, i)) + Turn(tokens[i + 1])
<1> DEFINE open == "("
           close == ")"
<1>1. \A s : OpensMore(s) = Occurrences(s, open) - Occurrences(s, close)
  BY Zenon DEF OpensMore
<1>2. \A x : Turn(x) = One(x, open) - One(x, close)
  BY Zenon DEF Turn
<1> HIDE DEF open, close
<1>3. \A x, token : One(x, token) \in Int
  BY DEF One
<1>4. ASSUME NEW token
      PROVE  /\ Occurrences(SubSeq(tokens, 1, i), token) \in Nat
             /\ i < Len(tokens) =>
                  Occurrences(SubSeq(tokens, 1, i + 1), token)
                    = Occurrences(SubSeq(tokens, 1, i), token) + One(tokens[i + 1], token)
  BY OccurrencesNext
<1> DEFINE a == Occurrences(SubSeq(tokens, 1, i), open)
           b == Occurrences(SubSeq(tokens, 1, i), close)
<1>5. a \in Int /\ b \in Int
  BY <1>4
<1>6. OpensMore(SubSeq(tokens, 1, i)) = a - b
  BY <1>1
<1>7. ASSUME i < Len(tokens)
      PROVE  OpensMore(SubSeq(tokens, 1, i + 1)) = (a + One(tokens[i + 1], open)) - (b + One(tokens[i + 1], close))
  BY <1>1, <1>4, <1>7
<1> HIDE DEF a, b
<1> QED
  BY <1>2, <1>3, <1>5, <1>6, <1>7

(* How many parentheses are open, from token to token.                      *)
LEMMA ParensRead ==
  ASSUME LinesInv
  PROVE  /\ \A l \in 0 .. LineCount : Paren(l) \in Int
         /\ \A l \in 0 .. LineCount - 1 :
              /\ Tokens(lines[l]) \in Seq(Words)
              /\ OpenAfter(l, 0) = Paren(l)
              /\ OpenAfter(l, Len(Tokens(lines[l]))) = Paren(l + 1)
              /\ \A i \in 0 .. Len(Tokens(lines[l])) : OpenAfter(l, i) \in Int
              /\ \A i \in 0 .. Len(Tokens(lines[l])) - 1 :
                   OpenAfter(l, i + 1) = OpenAfter(l, i) + Turn(Tokens(lines[l])[i + 1])
<1> DEFINE N == LineCount
           added == [l \in DOMAIN lines |-> OpensMore(Tokens(lines[l]))]
<1>1. N \in Nat /\ DOMAIN lines = 0 .. N - 1
  BY DEF LinesInv
<1>2. ASSUME NEW l \in 0 .. N - 1
      PROVE  Tokens(lines[l]) \in Seq(Words)
  <2>1. IsLine(lines[l])
    BY TokensOfDummy DEF LinesInv
  <2> QED
    BY <2>1, TokensOfLine
<1>3. ASSUME NEW l \in 0 .. N - 1
      PROVE  /\ SubSeq(Tokens(lines[l]), 1, Len(Tokens(lines[l]))) = Tokens(lines[l])
             /\ OpensMore(Tokens(lines[l])) \in Int
  <2> DEFINE t == Tokens(lines[l])
  <2>1. t \in Seq(Words)
    BY <1>2
  <2> HIDE DEF t
  <2>2. SubSeq(t, 1, Len(t)) = t /\ Len(t) \in 0 .. Len(t)
    BY <2>1
  <2>3. OpensMore(SubSeq(t, 1, Len(t))) \in Int
    BY <2>1, <2>2, ParensNext
  <2> QED
    BY <2>2, <2>3 DEF t
<1>4. /\ DOMAIN added = 0 .. N - 1
      /\ \A l \in 0 .. N - 1 : added[l] = OpensMore(Tokens(lines[l])) /\ added[l] \in Int
  BY <1>1, <1>3
<1>5. \A l : Paren(l) = SumsBefore(added)[l]
  BY Zenon DEF Paren, Opened
<1> HIDE DEF N, added
<1>6. /\ \A l \in 0 .. N : Paren(l) \in Int
      /\ \A l \in 0 .. N - 1 : Paren(l + 1) = Paren(l) + OpensMore(Tokens(lines[l]))
  <2>1. /\ \A l \in 0 .. N : SumsBefore(added)[l] \in Int
        /\ \A l \in 0 .. N - 1 : SumsBefore(added)[l + 1] = SumsBefore(added)[l] + added[l]
    BY <1>1, <1>4, SumsRead
  <2> QED
    BY <1>4, <1>5, <2>1
<1>7. \A l, i : OpenAfter(l, i) = Paren(l) + OpensMore(SubSeq(Tokens(lines[l]), 1, i))
  BY Zenon DEF OpenAfter, Paren
<1>8. ASSUME NEW l \in 0 .. N - 1
      PROVE  /\ OpenAfter(l, 0) = Paren(l)
             /\ OpenAfter(l, Len(Tokens(lines[l]))) = Paren(l + 1)
             /\ \A i \in 0 .. Len(Tokens(lines[l])) : OpenAfter(l, i) \in Int
             /\ \A i \in 0 .. Len(Tokens(lines[l])) - 1 :
                  OpenAfter(l, i + 1) = OpenAfter(l, i) + Turn(Tokens(lines[l])[i + 1])
  <2> DEFINE t == Tokens(lines[l])
  <2>1. t \in Seq(Words) /\ Paren(l) \in Int
    BY <1>1, <1>2, <1>6
  <2>2. \A i : OpenAfter(l, i) = Paren(l) + OpensMore(SubSeq(t, 1, i))
    BY <1>7
  <2>3. Paren(l + 1) = Paren(l) + OpensMore(SubSeq(t, 1, Len(t)))
    BY <1>3, <1>6
  <2> HIDE DEF t
  <2>4. OpensMore(SubSeq(t, 1, 0)) = 0
    <3> DEFINE none == SubSeq(t, 1, 0)
               open == "("
               close == ")"
    <3>1. DOMAIN none = {}
      BY <2>1
    <3>2. OpensMore(none) = Occurrences(none, open) - Occurrences(none, close)
      BY Zenon DEF OpensMore
    <3> HIDE DEF none, open, close
    <3>3. ASSUME NEW token
          PROVE  Occurrences(none, token) = 0
      <4>1. {j \in DOMAIN none : none[j] = token} = {}
        BY <3>1
      <4> QED
        BY <4>1, FS_EmptySet DEF Occurrences
    <3>4. OpensMore(none) = 0
      BY <3>2, <3>3
    <3> QED
      BY <3>4 DEF none
  <2>5. \A i \in 0 .. Len(t) : OpensMore(SubSeq(t, 1, i)) \in Int
    BY <2>1, ParensNext
  <2>6. \A x : Turn(x) \in Int
    BY DEF Turn, One
  <2>7. ASSUME NEW i \in 0 .. Len(t) - 1
        PROVE  OpenAfter(l, i + 1) = OpenAfter(l, i) + Turn(t[i + 1])
    <3>1. i \in 0 .. Len(t) /\ i < Len(t)
      BY <2>1
    <3>2. OpensMore(SubSeq(t, 1, i + 1)) = OpensMore(SubSeq(t, 1, i)) + Turn(t[i + 1])
      BY <2>1, <3>1, ParensNext
    <3> QED
      BY <2>1, <2>2, <2>5, <2>6, <3>1, <3>2
  <2>8. \A i \in 0 .. Len(t) : OpenAfter(l, i) \in Int
    BY <2>1, <2>2, <2>5
  <2>9. OpenAfter(l, 0) = Paren(l) /\ OpenAfter(l, Len(t)) = Paren(l + 1)
    BY <2>1, <2>2, <2>3, <2>4
  <2> QED
    BY <2>7, <2>8, <2>9 DEF t
<1> QED
  BY <1>2, <1>6, <1>8 DEF N

(* What a token does to the parentheses that are open.                      *)
LEMMA Turns ==
  /\ \A x : Turn(x) \in {-1, 0, 1}
  /\ Turn("(") = 1
  /\ \A x : Turn(x) = -1 => x = ")"
  /\ \A x : x \notin {"(", ")"} => Turn(x) = 0
<1> DEFINE open == "("
           close == ")"
<1>1. \A x : Turn(x) = One(x, open) - One(x, close)
  BY Zenon DEF Turn
<1>2. open # close
  OBVIOUS
<1> HIDE DEF open, close
<1>3. \A x, y : One(x, y) = IF x = y THEN 1 ELSE 0
  BY DEF One
<1>4. /\ \A x : Turn(x) \in {-1, 0, 1}
      /\ Turn(open) = 1
      /\ \A x : Turn(x) = -1 => x = close
      /\ \A x : x \notin {open, close} => Turn(x) = 0
  BY <1>1, <1>2, <1>3
<1> QED
  BY <1>4, Zenon DEF open, close

(* Parentheses are opened and closed one by one.                            *)
LEMMA StaysOpen ==
  ASSUME LinesInv, NEW l \in 0 .. LineCount - 1, NEW v \in Int,
         NEW first \in 0 .. Len(Tokens(lines[l])), OpenAfter(l, first) > v,
         NEW last \in first .. Len(Tokens(lines[l])),
         \A i \in first + 1 .. last : OpenAfter(l, i) # v
  PROVE  OpenAfter(l, last) > v
<1> DEFINE t == Tokens(lines[l])
           S == {d \in Nat : first + d <= last => OpenAfter(l, first + d) > v}
<1>1. /\ t \in Seq(Words) /\ Len(t) \in Nat
      /\ \A i \in 0 .. Len(t) : OpenAfter(l, i) \in Int
      /\ \A i \in 0 .. Len(t) - 1 : OpenAfter(l, i + 1) = OpenAfter(l, i) + Turn(t[i + 1])
  BY ParensRead
<1>2. first \in 0 .. Len(t) /\ last \in first .. Len(t)
  OBVIOUS
<1> HIDE DEF t
<1>3. 0 \in S
  BY <1>2
<1>4. ASSUME NEW d \in Nat, d \in S
      PROVE  d + 1 \in S
  <2> SUFFICES ASSUME first + (d + 1) <= last
               PROVE  OpenAfter(l, first + (d + 1)) > v
    OBVIOUS
  <2> DEFINE i == first + d
  <2>1. /\ i \in 0 .. Len(t) - 1 /\ i + 1 \in first + 1 .. last /\ first + (d + 1) = i + 1
        /\ i \in 0 .. Len(t) /\ i + 1 \in 0 .. Len(t) /\ first + d <= last
    BY <1>1, <1>2
  <2>2. OpenAfter(l, i) > v
    BY <1>4, <2>1
  <2> HIDE DEF i, S
  <2>3. OpenAfter(l, i + 1) # v /\ OpenAfter(l, i) \in Int /\ OpenAfter(l, i + 1) \in Int
    BY <1>1, <2>1
  <2>4. OpenAfter(l, i + 1) = OpenAfter(l, i) + Turn(t[i + 1]) /\ Turn(t[i + 1]) \in {-1, 0, 1}
    BY <1>1, <2>1, Turns
  <2>5. OpenAfter(l, i + 1) > v
    BY <2>2, <2>3, <2>4
  <2> QED
    BY <2>1, <2>5
<1> HIDE DEF S
<1>5. \A d \in Nat : d \in S
  BY <1>3, <1>4, SetInduction
<1>6. last - first \in Nat /\ first + (last - first) = last
  BY <1>2
<1> QED
  BY <1>5, <1>6 DEF S

(* The parenthesis that begins a condition.                                 *)
LEMMA ConditionBegins ==
  ASSUME LinesInv, NEW l \in 0 .. LineCount - 1, FollowsCondition(Tokens(lines[l]))
  PROVE  /\ Condition(l) \in 1 .. Len(Tokens(lines[l]))
         /\ OpenAfter(l, Condition(l) - 1) \in Int
         /\ OpenAfter(l, Condition(l)) = OpenAfter(l, Condition(l) - 1) + 1
<1> DEFINE t == Tokens(lines[l])
           open == "("
           Is(j) == t[j] = "else if"
           S == {i \in DOMAIN t : t[i] = open /\ \E j \in 1 .. i : Is(j)}
<1>1. t \in Seq(Words) /\ DOMAIN t = 1 .. Len(t) /\ Len(t) \in Nat
  BY ParensRead
<1>2. Condition(l) = Min(S)
  BY Zenon DEF Condition
<1>3. \E i \in DOMAIN t : Is(i) /\ \E j \in i + 1 .. Len(t) : t[j] = open
  BY DEF FollowsCondition, HasCondition, HasAfter
<1>4. Turn(open) = 1
  BY Turns
<1> HIDE DEF open, Is
<1>5. /\ \A i \in 0 .. Len(t) : OpenAfter(l, i) \in Int
      /\ \A i \in 0 .. Len(t) - 1 : OpenAfter(l, i + 1) = OpenAfter(l, i) + Turn(t[i + 1])
  BY ParensRead
<1> HIDE DEF t
<1>6. S # {} /\ S \subseteq Nat
  <2>1. PICK i \in DOMAIN t : Is(i) /\ \E j \in i + 1 .. Len(t) : t[j] = open
    BY <1>3
  <2>2. PICK j \in i + 1 .. Len(t) : t[j] = open
    BY <2>1
  <2>3. j \in DOMAIN t /\ i \in 1 .. j
    BY <1>1, <2>1, <2>2
  <2>4. j \in S
    BY <2>1, <2>2, <2>3
  <2> QED
    BY <1>1, <2>4
<1>7. Min(S) \in S
  <2> HIDE DEF S
  <2> QED
    BY <1>6, MinIsLeast
<1> DEFINE c == Condition(l)
<1>8. c \in DOMAIN t /\ t[c] = open
  BY <1>2, <1>7
<1> HIDE DEF c
<1>9. c \in 1 .. Len(t) /\ c - 1 \in 0 .. Len(t) - 1 /\ c - 1 \in 0 .. Len(t) /\ c - 1 + 1 = c
  BY <1>1, <1>8
<1>10. OpenAfter(l, c - 1) \in Int /\ OpenAfter(l, c - 1 + 1) = OpenAfter(l, c - 1) + Turn(t[c - 1 + 1])
  BY <1>5, <1>9
<1>11. OpenAfter(l, c) = OpenAfter(l, c - 1) + 1
  BY <1>4, <1>8, <1>9, <1>10
<1> QED
  BY <1>9, <1>10, <1>11 DEF c, t

(* Up to a token of a line, a condition is not closed.                      *)
LEMMA LineOpen ==
  ASSUME LinesInv, NEW l \in 0 .. LineCount - 1, FollowsCondition(Tokens(lines[l])),
         NEW k \in l .. LineCount - 1, k > l => Paren(k) > OpenAfter(l, Condition(l) - 1),
         NEW last \in 0 .. Len(Tokens(lines[k])), k = l => last >= Condition(l),
         \A i \in 1 .. last : i \notin ClosesAt(l, k)
  PROVE  OpenAfter(k, last) > OpenAfter(l, Condition(l) - 1)
<1> DEFINE v == OpenAfter(l, Condition(l) - 1)
           first == IF k = l THEN Condition(l) ELSE 0
           t == Tokens(lines[k])
<1>1. LineCount \in Nat /\ k \in 0 .. LineCount - 1
  BY DEF LinesInv
<1>2. /\ Condition(l) \in 1 .. Len(Tokens(lines[l])) /\ v \in Int
      /\ OpenAfter(l, Condition(l)) = v + 1
  BY ConditionBegins
<1>3. t \in Seq(Words) /\ Len(t) \in Nat /\ OpenAfter(k, 0) = Paren(k) /\ DOMAIN t = 1 .. Len(t)
  BY <1>1, ParensRead
<1>4. first \in 0 .. Len(t) /\ last \in first .. Len(t)
  BY <1>2, <1>3
<1>5. OpenAfter(k, first) > v
  <2>1. CASE k = l
    BY <1>2, <2>1
  <2>2. CASE k # l
    BY <1>3, <2>2
  <2> QED
    BY <2>1, <2>2
<1>6. ASSUME NEW i \in first + 1 .. last
      PROVE  OpenAfter(k, i) # v
  <2>1. i \in 1 .. last /\ i \in DOMAIN t /\ (k = l => i > Condition(l))
    BY <1>2, <1>3, <1>4
  <2>2. i \notin ClosesAt(l, k)
    BY <2>1
  <2> QED
    BY <2>1, <2>2 DEF ClosesAt
<1>7. first \in 0 .. Len(Tokens(lines[k])) /\ last \in first .. Len(Tokens(lines[k]))
  BY <1>4 DEF t
<1> HIDE DEF v, first, t
<1>8. OpenAfter(k, last) > v
  BY <1>1, <1>2, <1>5, <1>6, <1>7, StaysOpen
<1> QED
  BY <1>8 DEF v

(* Before the line where a condition is closed, every line leaves it open.  *)
LEMMA LinesOpen ==
  ASSUME LinesInv, NEW l \in 0 .. LineCount - 1, FollowsCondition(Tokens(lines[l])),
         NEW m \in l .. LineCount, \A k \in l .. m - 1 : ClosesAt(l, k) = {}
  PROVE  \A k \in l .. m - 1 : Paren(k + 1) > OpenAfter(l, Condition(l) - 1)
<1> DEFINE v == OpenAfter(l, Condition(l) - 1)
           S == {d \in Nat : l + d < m => Paren(l + d + 1) > v}
<1>1. LineCount \in Nat /\ m <= LineCount
  BY DEF LinesInv
<1>2. ASSUME NEW k \in l .. m - 1, k > l => Paren(k) > v
      PROVE  Paren(k + 1) > v
  <2> DEFINE t == Tokens(lines[k])
  <2>1. k \in 0 .. LineCount - 1 /\ k \in l .. LineCount - 1
    BY <1>1
  <2>2. t \in Seq(Words) /\ Len(t) \in Nat /\ OpenAfter(k, Len(t)) = Paren(k + 1)
    BY <2>1, ParensRead
  <2>3. Len(t) \in 0 .. Len(t) /\ (k = l => Len(t) >= Condition(l))
    BY <2>2, ConditionBegins
  <2>4. \A i \in 1 .. Len(t) : i \notin ClosesAt(l, k)
    OBVIOUS
  <2>5. OpenAfter(k, Len(t)) > v
    BY <1>2, <2>1, <2>3, <2>4, LineOpen
  <2> QED
    BY <2>2, <2>5
<1> HIDE DEF v
<1>3. 0 \in S
  <2> SUFFICES ASSUME l + 0 < m
               PROVE  Paren(l + 0 + 1) > v
    OBVIOUS
  <2>1. l \in l .. m - 1 /\ ~ l > l /\ l + 0 + 1 = l + 1
    BY <1>1
  <2>2. Paren(l + 1) > v
    BY <1>2, <2>1
  <2> QED
    BY <2>1, <2>2
<1>4. ASSUME NEW d \in Nat, d \in S
      PROVE  d + 1 \in S
  <2> SUFFICES ASSUME l + (d + 1) < m
               PROVE  Paren(l + (d + 1) + 1) > v
    OBVIOUS
  <2> DEFINE k == l + (d + 1)
  <2>1. k \in l .. m - 1 /\ l + d < m /\ l + d + 1 = k
    BY <1>1
  <2>2. Paren(k) > v
    <3>1. Paren(l + d + 1) > v
      BY <1>4, <2>1
    <3> QED
      BY <2>1, <3>1
  <2> HIDE DEF k
  <2>3. Paren(k + 1) > v
    BY <1>2, <2>1, <2>2
  <2> QED
    BY <2>3 DEF k
<1> HIDE DEF S
<1>5. \A d \in Nat : d \in S
  BY <1>3, <1>4, SetInduction
<1>6. ASSUME NEW k \in l .. m - 1
      PROVE  Paren(k + 1) > v
  <2>1. k - l \in Nat /\ l + (k - l) = k /\ l + (k - l) < m /\ l + (k - l) + 1 = k + 1
    BY <1>1
  <2>2. k - l \in S
    BY <1>5, <2>1
  <2> QED
    BY <2>1, <2>2 DEF S
<1> QED
  BY <1>6 DEF v

(* What is neither opens nor closes.                                        *)
LEMMA StaysSame ==
  ASSUME LinesInv, NEW l \in 0 .. LineCount - 1,
         NEW first \in 0 .. Len(Tokens(lines[l])),
         \A i \in first + 1 .. Len(Tokens(lines[l])) : Turn(Tokens(lines[l])[i]) = 0
  PROVE  Paren(l + 1) = OpenAfter(l, first)
<1> DEFINE t == Tokens(lines[l])
           S == {d \in Nat : first + d <= Len(t) => OpenAfter(l, first + d) = OpenAfter(l, first)}
<1>1. /\ t \in Seq(Words) /\ Len(t) \in Nat /\ OpenAfter(l, Len(t)) = Paren(l + 1)
      /\ \A i \in 0 .. Len(t) : OpenAfter(l, i) \in Int
      /\ \A i \in 0 .. Len(t) - 1 : OpenAfter(l, i + 1) = OpenAfter(l, i) + Turn(t[i + 1])
  BY ParensRead
<1>2. first \in 0 .. Len(t) /\ \A i \in first + 1 .. Len(t) : Turn(t[i]) = 0
  OBVIOUS
<1> HIDE DEF t
<1>3. 0 \in S
  BY <1>2
<1>4. ASSUME NEW d \in Nat, d \in S
      PROVE  d + 1 \in S
  <2> SUFFICES ASSUME first + (d + 1) <= Len(t)
               PROVE  OpenAfter(l, first + (d + 1)) = OpenAfter(l, first)
    OBVIOUS
  <2> DEFINE i == first + d
  <2>1. /\ i \in 0 .. Len(t) - 1 /\ i + 1 \in first + 1 .. Len(t) /\ first + (d + 1) = i + 1
        /\ i \in 0 .. Len(t) /\ first + d <= Len(t)
    BY <1>1, <1>2
  <2>2. OpenAfter(l, i) = OpenAfter(l, first)
    BY <1>4, <2>1
  <2> HIDE DEF i, S
  <2>3. OpenAfter(l, i + 1) = OpenAfter(l, i) /\ OpenAfter(l, i) \in Int
    BY <1>1, <1>2, <2>1
  <2> QED
    BY <2>1, <2>2, <2>3
<1> HIDE DEF S
<1>5. \A d \in Nat : d \in S
  BY <1>3, <1>4, SetInduction
<1> DEFINE rest == Len(t) - first
<1>6. rest \in Nat /\ first + rest = Len(t)
  BY <1>1, <1>2
<1> HIDE DEF rest
<1>7. OpenAfter(l, first + rest) = OpenAfter(l, first)
  <2>1. rest \in S
    BY <1>5, <1>6
  <2>2. first + rest <= Len(t)
    BY <1>1, <1>6
  <2> QED
    BY <2>1, <2>2 DEF S
<1> QED
  BY <1>1, <1>6, <1>7

(* CloseExpression stops at a line where a condition has been closed.       *)
LEMMA ConditionCloses ==
  ASSUME LinesInv, NEW l \in 0 .. LineCount - 1, FollowsCondition(Tokens(lines[l])),
         OpenAfter(l, Condition(l) - 1) = Paren(l), ClosingLines(lines, l) # {}
  PROVE  EndsOf(l) # {}
<1> SUFFICES ASSUME EndsOf(l) = {}
             PROVE  FALSE
  OBVIOUS
<1>1. LineCount \in Nat /\ DOMAIN lines = 0 .. LineCount - 1
  BY DEF LinesInv
<1>2. \A k \in l .. LineCount - 1 : ClosesAt(l, k) = {}
  BY <1>1 DEF EndsOf
<1>3. PICK m \in DOMAIN lines : m >= l /\ NumOpen(lines, l, m) <= 0
  BY DEF ClosingLines
<1>4. NumOpen(lines, l, m) = Paren(m + 1) - Paren(l)
  BY DEF NumOpen, Paren
<1>5. m \in l .. LineCount - 1 /\ LineCount \in l .. LineCount /\ m + 1 \in 0 .. LineCount
      /\ l \in 0 .. LineCount
  BY <1>1, <1>3
<1>6. Paren(m + 1) > Paren(l)
  BY <1>2, <1>5, LinesOpen
<1>7. Paren(m + 1) \in Int /\ Paren(l) \in Int
  BY <1>5, ParensRead
<1> QED
  BY <1>3, <1>4, <1>6, <1>7

(* It stops there first, if no parenthesis follows, and goes on after the   *)
(* one that closes the condition.                                          *)
LEMMA ClosesWhere ==
  ASSUME LinesInv, NEW l \in 0 .. LineCount - 1, FollowsCondition(Tokens(lines[l])),
         OpenAfter(l, Condition(l) - 1) = Paren(l), EndsOf(l) # {},
         NEW end, end = Min(EndsOf(l)), NEW close, close = Min(ClosesAt(l, end)),
         \A i \in close + 1 .. Len(Tokens(lines[end])) : Tokens(lines[end])[i] \notin {"(", ")"}
  PROVE  /\ end \in 0 .. LineCount - 1 /\ close \in 1 .. Len(Tokens(lines[end]))
         /\ AfterExpression(lines, l)
              = SubSeq(Tokens(lines[end]), close + 1, Len(Tokens(lines[end])))
<1> DEFINE t == Tokens(lines[end])
           v == OpenAfter(l, Condition(l) - 1)
<1>1. LineCount \in Nat /\ DOMAIN lines = 0 .. LineCount - 1
  BY DEF LinesInv
<1>2. end \in l .. LineCount - 1 /\ ClosesAt(l, end) # {} /\ \A k \in l .. end - 1 : ClosesAt(l, k) = {}
  <2> DEFINE S == EndsOf(l)
  <2>1. \A k : k \in S <=> k \in l .. LineCount - 1 /\ ClosesAt(l, k) # {}
    BY <1>1 DEF EndsOf
  <2>2. S \subseteq Nat /\ S # {} /\ end = Min(S)
    BY <2>1
  <2> HIDE DEF S
  <2>3. end \in S /\ \A k \in S : end <= k
    BY <2>2, MinIsLeast
  <2>4. end \in l .. LineCount - 1 /\ ClosesAt(l, end) # {}
    BY <2>1, <2>3
  <2>5. ASSUME NEW k \in l .. end - 1
        PROVE  ClosesAt(l, k) = {}
    <3>1. k \in l .. LineCount - 1 /\ ~ (end <= k)
      BY <1>1, <2>4
    <3> QED
      BY <2>1, <2>3, <3>1
  <2> QED
    BY <2>4, <2>5
<1>3. end \in 0 .. LineCount - 1 /\ end \in l .. LineCount /\ end + 1 \in 0 .. LineCount
  BY <1>1, <1>2
<1>4. /\ t \in Seq(Words) /\ Len(t) \in Nat /\ DOMAIN t = 1 .. Len(t)
      /\ \A i \in 0 .. Len(t) : OpenAfter(end, i) \in Int
      /\ \A i \in 0 .. Len(t) - 1 : OpenAfter(end, i + 1) = OpenAfter(end, i) + Turn(t[i + 1])
  BY <1>3, ParensRead
<1>5. Condition(l) \in Nat /\ v \in Int /\ v = Paren(l)
  BY ConditionBegins
<1>6. /\ close \in 1 .. Len(t) /\ (end = l => close > Condition(l)) /\ OpenAfter(end, close) = v
      /\ \A i \in 1 .. close - 1 : i \notin ClosesAt(l, end)
  <2> DEFINE S == ClosesAt(l, end)
  <2>1. \A i \in S : i \in 1 .. Len(t) /\ (end = l => i > Condition(l)) /\ OpenAfter(end, i) = v
    BY <1>4 DEF ClosesAt
  <2>2. S \subseteq Nat /\ S # {} /\ close = Min(S)
    BY <1>2, <1>4, <2>1
  <2> HIDE DEF S
  <2>3. close \in S /\ \A i \in S : close <= i
    BY <2>2, MinIsLeast
  <2>4. ASSUME NEW i \in 1 .. close - 1
        PROVE  i \notin S
    BY <2>2, <2>3
  <2> QED
    BY <2>1, <2>3, <2>4 DEF S
<1>7. \A k \in l .. end - 1 : Paren(k + 1) > v
  BY <1>2, <1>3, LinesOpen
<1>8. end > l => Paren(end) > v
  <2>1. end > l => end - 1 \in l .. end - 1 /\ end - 1 + 1 = end
    BY <1>3
  <2> QED
    BY <1>7, <2>1
<1>9. t[close] = ")"
  <2>1. close - 1 \in 0 .. Len(t) /\ (end = l => close - 1 >= Condition(l)) /\ close - 1 \in 0 .. Len(t) - 1
        /\ close - 1 + 1 = close
    BY <1>4, <1>5, <1>6
  <2>2. OpenAfter(end, close - 1) > v
    <3>1. end \in l .. LineCount - 1 /\ close - 1 \in 0 .. Len(Tokens(lines[end]))
      BY <1>2, <2>1
    <3> QED
      BY <1>6, <1>8, <2>1, <3>1, LineOpen
  <2>3. OpenAfter(end, close - 1) \in Int /\ OpenAfter(end, close) = OpenAfter(end, close - 1) + Turn(t[close])
    BY <1>4, <2>1
  <2> DEFINE x == t[close]
  <2>4. Turn(x) \in {-1, 0, 1} /\ (Turn(x) = -1 => x = ")")
    BY Turns
  <2>5. Turn(x) = -1
    <3>1. Turn(x) \in {-1, 0, 1}
      BY <2>4
    <3> QED
      BY <1>5, <1>6, <2>2, <2>3, <3>1
  <2> QED
    BY <2>4, <2>5
<1>10. Paren(end + 1) = v
  <2>1. \A i \in close + 1 .. Len(t) : Turn(t[i]) = 0
    BY Turns
  <2>2. close \in 0 .. Len(Tokens(lines[end]))
    BY <1>4, <1>6
  <2> QED
    BY <1>3, <1>6, <2>1, <2>2, StaysSame
<1>11. Min(ClosingLines(lines, l)) = end /\ NumOpen(lines, l, end) = 0
  <2> DEFINE S == ClosingLines(lines, l)
  <2>1. \A m \in 0 .. LineCount - 1 : NumOpen(lines, l, m) = Paren(m + 1) - Paren(l)
    BY DEF NumOpen, Paren
  <2>2. \A m : m \in S <=> m \in 0 .. LineCount - 1 /\ m >= l /\ Paren(m + 1) - Paren(l) <= 0
    BY <1>1, <2>1 DEF ClosingLines
  <2>3. end \in S /\ NumOpen(lines, l, end) = 0
    BY <1>2, <1>3, <1>5, <1>10, <2>1, <2>2
  <2>4. ASSUME NEW m \in S
        PROVE  end <= m
    <3> SUFFICES ASSUME m < end
                 PROVE  FALSE
      BY <1>3, <2>2
    <3>1. m \in l .. end - 1 /\ m + 1 \in 0 .. LineCount
      BY <1>1, <1>3, <2>2
    <3>2. Paren(m + 1) > v /\ Paren(m + 1) \in Int
      BY <1>7, <3>1, ParensRead
    <3>3. Paren(m + 1) - Paren(l) <= 0
      BY <2>2
    <3> QED
      BY <1>5, <3>2, <3>3
  <2>5. S \subseteq Nat
    BY <2>2
  <2> HIDE DEF S
  <2>6. Min(S) \in S /\ \A m \in S : Min(S) <= m
    BY <2>3, <2>5, MinIsLeast
  <2>7. Min(S) <= end /\ end <= Min(S) /\ Min(S) \in Nat /\ end \in Nat
    BY <2>3, <2>4, <2>5, <2>6
  <2>8. Min(S) = end
    BY <2>7
  <2> QED
    BY <2>3, <2>8 DEF S
<1>12. Max({i \in DOMAIN t : t[i] = ")"} \cup {0}) = close
  <2> DEFINE S == {i \in DOMAIN t : t[i] = ")"} \cup {0}
  <2>1. close \in S
    BY <1>4, <1>6, <1>9
  <2>2. ASSUME NEW i \in S
        PROVE  i <= close
    <3> SUFFICES ASSUME i \in DOMAIN t, t[i] = ")", i > close
                 PROVE  FALSE
      BY <1>4, <1>6
    <3>1. i \in close + 1 .. Len(t)
      BY <1>4, <1>6
    <3> QED
      BY <3>1
  <2>3. S \subseteq 0 .. Len(t)
    BY <1>4
  <2> HIDE DEF S
  <2>4. Max(S) \in S /\ \A i \in S : i <= Max(S)
    BY <1>4, <2>1, <2>3, MaxIsGreatest
  <2> DEFINE m == Max(S)
  <2> HIDE DEF m
  <2>5. m \in S /\ close <= m
    BY <2>1, <2>4 DEF m
  <2>6. m <= close /\ m \in 0 .. Len(t) /\ close \in 0 .. Len(t)
    BY <2>1, <2>2, <2>3, <2>5
  <2>7. m = close
    BY <1>4, <2>5, <2>6
  <2> QED
    BY <2>7 DEF m, S
<1>13. AfterExpression(lines, l)
         = SubSeq(t, Max({i \in DOMAIN t : t[i] = ")"} \cup {0}) + 1, Len(t))
  <2>1. AfterExpression(lines, l)
          = SubSeq(t, (IF NumOpen(lines, l, end) < 0 THEN Len(t)
                       ELSE Max({i \in DOMAIN t : t[i] = ")"} \cup {0})) + 1, Len(t))
    BY <1>11, Zenon DEF AfterExpression
  <2>2. ~ NumOpen(lines, l, end) < 0
    BY <1>11
  <2> QED
    BY <2>1, <2>2
<1> QED
  BY <1>3, <1>6, <1>12, <1>13

(* The error of an else if on line l, if any, what has been told of it once *)
(* the line has been looked at, and the invariant of these errors.          *)
Else(l) == [line |-> l, error |-> "else"]
ElseJudged(l) ==
  /\ (Else(l) \in braces <=> ErrorOfElse(lines, l))
  /\ FollowsCondition(Tokens(lines[l])) => ClosingLines(lines, l) # {}
LookedAt == IF phase = "joining" THEN n + 1 ELSE n
ElseInv ==
  \A l \in DOMAIN lines : IF l < LookedAt THEN ElseJudged(l) ELSE Else(l) \notin braces

(* The errors of the other checks of a line are others.                     *)
LEMMA OtherThanElse ==
  ASSUME NEW l, NEW p
  PROVE  /\ "else" \in ErrorsOfLine(lines, l) <=> ErrorOfElse(lines, l)
         /\ "else" \notin ErrorsOfPosition(lines, l) \cup ErrorOfSemicolon(lines, p, l)
<1>1. "else" \notin ErrorsOfPosition(lines, l)
  BY DEF ErrorsOfPosition
<1>2. "else" \in ErrorsOfLine(lines, l) <=> ErrorOfElse(lines, l)
  BY <1>1 DEF ErrorsOfLine
<1>3. "else" \notin ErrorOfSemicolon(lines, p, l)
  BY DEF ErrorOfSemicolon
<1> QED
  BY <1>1, <1>2, <1>3

(* Errors of a line that are added.                                         *)
LEMMA ElseAdded ==
  ASSUME NEW E, braces' = braces \cup Errors(n, E), NEW l
  PROVE  Else(l)' \in braces' <=> Else(l) \in braces \/ (l = n /\ "else" \in E)
<1>1. Else(l) \in Errors(n, E) <=> l = n /\ "else" \in E
  BY DEF Else, Errors
<1>2. Else(l)' = Else(l)
  BY DEF Else
<1> QED
  BY <1>1, <1>2

(* A step that reports no else, and looks at no other line.                 *)
LEMMA NoElse ==
  ASSUME ElseInv, lines' = lines, LookedAt' = LookedAt,
         NEW E, braces' = braces \cup Errors(n, E), "else" \notin E
  PROVE  ElseInv'
<1> SUFFICES ASSUME NEW l \in DOMAIN lines
             PROVE  (IF l < LookedAt THEN ElseJudged(l) ELSE Else(l) \notin braces)'
  BY DEF ElseInv
<1>1. IF l < LookedAt THEN ElseJudged(l) ELSE Else(l) \notin braces
  BY DEF ElseInv
<1>2. Else(l)' \in braces' <=> Else(l) \in braces
  BY ElseAdded
<1>3. ElseJudged(l) => ElseJudged(l)'
  BY <1>2 DEF ElseJudged
<1> QED
  BY <1>1, <1>2, <1>3

(* A line that is looked at.                                               *)
LEMMA ElseLine ==
  ASSUME LinesInv, ElseInv, lines' = lines, n \in 0 .. LineCount - 1,
         LookedAt = n, LookedAt' = n + 1, ~ ReadsPastEnd(lines, n),
         NEW E, braces' = braces \cup Errors(n, E), "else" \in E <=> ErrorOfElse(lines, n)
  PROVE  ElseInv'
<1>0. LineCount \in Nat /\ DOMAIN lines = 0 .. LineCount - 1
  BY DEF LinesInv
<1> SUFFICES ASSUME NEW l \in DOMAIN lines
             PROVE  (IF l < LookedAt THEN ElseJudged(l) ELSE Else(l) \notin braces)'
  BY DEF ElseInv
<1>1. IF l < n THEN ElseJudged(l) ELSE Else(l) \notin braces
  BY DEF ElseInv
<1>2. Else(l)' \in braces' <=> Else(l) \in braces \/ (l = n /\ "else" \in E)
  BY ElseAdded
<1>3. CASE l < n
  <2>1. ElseJudged(l) /\ l # n /\ l < n + 1
    BY <1>0, <1>1, <1>3
  <2>2. ElseJudged(l)'
    BY <1>2, <2>1 DEF ElseJudged
  <2> QED
    BY <2>1, <2>2
<1>4. CASE l = n
  <2>1. Else(l) \notin braces /\ l < n + 1
    BY <1>0, <1>1, <1>4
  <2>2. FollowsCondition(Tokens(lines[l])) => ClosingLines(lines, l) # {}
    BY <1>4 DEF ReadsPastEnd
  <2>3. ElseJudged(l)'
    BY <1>2, <1>4, <2>1, <2>2 DEF ElseJudged
  <2> QED
    BY <2>1, <2>3
<1>5. CASE l > n
  <2>1. Else(l) \notin braces /\ l # n /\ ~ l < n + 1
    BY <1>0, <1>1, <1>5
  <2> QED
    BY <1>2, <2>1
<1> QED
  BY <1>0, <1>3, <1>4, <1>5

(* The errors of an else.                                                  *)
LEMMA ElseStep ==
  ASSUME LinesInv, PhaseInv, ElseInv, [Next]_vars
  PROVE  ElseInv'
<1>0. LineCount \in Nat /\ DOMAIN lines = 0 .. LineCount - 1 /\ n \in Int
  BY DEF LinesInv, PhaseInv
<1>1. CASE ClearComments
  <2>1. n = 0 /\ n' = 0 /\ braces' = braces /\ phase' # "joining" /\ phase # "joining"
    BY <1>1 DEF ClearComments, PhaseInv, braceVars
  <2>2. DOMAIN lines' = DOMAIN lines
    BY <1>0, LinesStep DEF LinesInv
  <2> SUFFICES ASSUME NEW l \in DOMAIN lines
               PROVE  ~ l < 0 /\ Else(l)' \notin braces'
    BY <2>1, <2>2 DEF ElseInv, LookedAt
  <2>3. ~ l < 0
    BY <1>0
  <2>4. Else(l) \notin braces
    BY <2>1, <2>3 DEF ElseInv, LookedAt
  <2> QED
    BY <2>1, <2>3, <2>4 DEF Else
<1>2. CASE ProcessLine
  <2>1. /\ lines' = lines /\ n' = n + 1 /\ phase' = "lines" /\ phase = "lines" /\ n \in 0 .. LineCount - 1
        /\ braces' = braces \cup Errors(n, ErrorsOfLine(lines, n) \cup ErrorOfSemicolon(lines, n, n))
        /\ ~ ReadsPastEnd(lines, n)
    BY <1>0, <1>2 DEF ProcessLine, RestOfLine, CheckBraces, commentVars
  <2>2. LookedAt = n /\ LookedAt' = n + 1
    BY <2>1 DEF LookedAt
  <2>3. "else" \in ErrorsOfLine(lines, n) \cup ErrorOfSemicolon(lines, n, n) <=> ErrorOfElse(lines, n)
    BY OtherThanElse
  <2> QED
    BY <2>1, <2>2, <2>3, ElseLine
<1>3. CASE Crash
  <2>1. /\ lines' = lines /\ n' = n /\ phase' = "crashed" /\ phase = "lines"
        /\ braces' = braces \cup Errors(n, ErrorsOfPosition(lines, n))
    BY <1>3 DEF Crash, BeforeFailure, commentVars
  <2>2. LookedAt' = LookedAt
    BY <2>1 DEF LookedAt
  <2> QED
    BY <2>1, <2>2, OtherThanElse, NoElse
<1>4. CASE BeginJoining
  <2>1. /\ lines' = lines /\ n' = n /\ phase' = "joining" /\ phase = "lines" /\ n \in 0 .. LineCount - 1
        /\ braces' = braces \cup Errors(n, ErrorsOfLine(lines, n)) /\ ~ ReadsPastEnd(lines, n)
    BY <1>0, <1>4 DEF BeginJoining, BeforeLoop, commentVars
  <2>2. LookedAt = n /\ LookedAt' = n + 1
    BY <2>1 DEF LookedAt
  <2>3. "else" \in ErrorsOfLine(lines, n) <=> ErrorOfElse(lines, n)
    BY OtherThanElse
  <2> QED
    BY <2>1, <2>2, <2>3, ElseLine
<1>5. CASE FinishLine
  <2>1. /\ lines' = lines /\ n' = n + 1 /\ phase' = "lines" /\ phase = "joining"
        /\ braces' = braces \cup Errors(n, ErrorOfSemicolon(lines, prevlinenum, n))
    BY <1>5 DEF FinishLine, AfterLoop, RestOfLine, commentVars
  <2>2. LookedAt' = LookedAt
    BY <2>1 DEF LookedAt
  <2> QED
    BY <2>1, <2>2, OtherThanElse, NoElse
<1>6. CASE JoinPreviousLine \/ EndLines \/ CheckForIncludeWhatYouUse \/ UNCHANGED vars
  <2>1. lines' = lines /\ n' = n /\ braces' = braces
    BY <1>6 DEF JoinPreviousLine, JoinPrevious, EndLines, CheckForIncludeWhatYouUse, vars, commentVars,
      braceVars
  <2>2. phase' = "joining" <=> phase = "joining"
    BY <1>6 DEF JoinPreviousLine, EndLines, CheckForIncludeWhatYouUse, vars
  <2>3. LookedAt' = LookedAt
    BY <2>1, <2>2 DEF LookedAt
  <2>4. braces' = braces \cup Errors(n, {})
    BY <2>1 DEF Errors
  <2> QED
    BY <2>1, <2>3, <2>4, NoElse
<1> QED
  BY <1>1, <1>2, <1>3, <1>4, <1>5, <1>6 DEF Next, ProcessFileData, Ended

(* What has been told of an else if whose condition is closed.              *)
LEMMA ElseOfCondition ==
  ASSUME LinesInv, NEW l \in 0 .. LineCount - 1, FollowsCondition(Tokens(lines[l])),
         ElseJudged(l), OpenAfter(l, Condition(l) - 1) = Paren(l)
  PROVE  LET end == Min(EndsOf(l))
             tokens == Tokens(lines[end])
             After == {tokens[i] : i \in Min(ClosesAt(l, end)) + 1 .. Len(tokens)}
         IN  /\ EndsOf(l) # {}
             /\ After \cap {"(", ")"} = {} => (Else(l) \in braces <=> "{" \notin After)
<1> DEFINE end == Min(EndsOf(l))
           tokens == Tokens(lines[end])
           close == Min(ClosesAt(l, end))
           After == {tokens[i] : i \in close + 1 .. Len(tokens)}
<1>1. EndsOf(l) # {}
  BY ConditionCloses DEF ElseJudged
<1> SUFFICES ASSUME After \cap {"(", ")"} = {}
             PROVE  Else(l) \in braces <=> "{" \notin After
  BY <1>1
<1>2. \A i \in close + 1 .. Len(tokens) : tokens[i] \notin {"(", ")"}
  OBVIOUS
<1>3. /\ end \in 0 .. LineCount - 1 /\ close \in 1 .. Len(tokens)
      /\ AfterExpression(lines, l) = SubSeq(tokens, close + 1, Len(tokens))
  BY <1>1, <1>2, ClosesWhere
<1>4. Else(l) \in braces <=> ~ Contains(AfterExpression(lines, l), "{")
  <2>1. BeginsElseIf(Tokens(lines[l])) /\ FollowsCondition(Tokens(lines[l]))
    BY DEF FollowsCondition
  <2>2. ErrorOfElse(lines, l) <=> ~ Contains(AfterExpression(lines, l), "{")
    BY <2>1, Zenon DEF ErrorOfElse
  <2> QED
    BY <2>2 DEF ElseJudged
<1>5. tokens \in Seq(Words)
  BY <1>3, ParensRead
<1> DEFINE open == "{"
<1>6. Else(l) \in braces <=> ~ Contains(AfterExpression(lines, l), open)
  BY <1>4
<1> HIDE DEF end, tokens, close, open
<1>7. Contains(AfterExpression(lines, l), open) <=> \E i \in close + 1 .. Len(tokens) : tokens[i] = open
  <2> DEFINE s == SubSeq(tokens, close + 1, Len(tokens))
  <2>1. /\ Len(tokens) \in Nat /\ close \in 1 .. Len(tokens)
        /\ Len(s) = Len(tokens) - close
        /\ \A i \in 1 .. Len(tokens) - close : s[i] = tokens[close + i]
    BY <1>3, <1>5
  <2>2. Contains(s, open) <=> \E i \in 1 .. Len(s) : s[i] = open
    BY DEF Contains
  <2> HIDE DEF s
  <2>3. ASSUME NEW i \in close + 1 .. Len(tokens), tokens[i] = open
        PROVE  \E j \in 1 .. Len(s) : s[j] = open
    <3>1. i - close \in 1 .. Len(s) /\ close + (i - close) = i
      BY <2>1
    <3>2. s[i - close] = tokens[i]
      BY <2>1, <3>1
    <3> QED
      BY <2>3, <3>1, <3>2
  <2>4. ASSUME NEW j \in 1 .. Len(s), s[j] = open
        PROVE  \E i \in close + 1 .. Len(tokens) : tokens[i] = open
    <3>1. close + j \in close + 1 .. Len(tokens) /\ s[j] = tokens[close + j]
      BY <2>1
    <3> QED
      BY <2>4, <3>1
  <2>5. AfterExpression(lines, l) = s
    BY <1>3 DEF s
  <2> QED
    BY <2>2, <2>3, <2>4, <2>5
<1>8. Else(l) \in braces <=> open \notin After
  BY <1>6, <1>7
<1> QED
  BY <1>8 DEF open

-----------------------------------------------------------------------------
(* Classes.                                                                *)

Depth(l) == Depths(lines)[l]

(* Tokens are counted.                                                     *)
LEMMA OccurrencesCounted ==
  ASSUME NEW line, IsLine(line), NEW token
  PROVE  Occurrences(Tokens(line), token) \in Nat
<1> DEFINE S == {i \in DOMAIN Tokens(line) : Tokens(line)[i] = token}
<1>1. Len(Tokens(line)) \in Nat /\ S \subseteq 1 .. Len(Tokens(line))
  BY TokensOfLine
<1>2. IsFiniteSet(1 .. Len(Tokens(line)))
  BY <1>1, FS_Interval
<1> HIDE DEF S
<1>3. Cardinality(S) \in Nat
  BY <1>1, <1>2, FS_Subset, FS_CardinalityType
<1> QED
  BY <1>3 DEF Occurrences, S

(* The braces of a line are counted, and those in its strings.              *)
LEMMA BracesCounted ==
  ASSUME NEW line, IsLine(line)
  PROVE  /\ Braces(line) = Difference(Tokens(line)) /\ Braces(line) \in Int
         /\ QuotedBraces(line) \in Int
<1>1. Braces(line) = Difference(Tokens(line))
  BY DEF Braces, BracesOf, Tokens, IsLine
<1>2. QuotedBraces(line) \in Int
  <2> DEFINE open == Quoted("{")
             close == Quoted("}")
  <2>1. line.is = "code" =>
          QuotedBraces(line) = Occurrences(Tokens(line), open) - Occurrences(Tokens(line), close)
    BY Zenon DEF QuotedBraces, Tokens
  <2>2. line.is # "code" => QuotedBraces(line) = 0
    BY Zenon DEF QuotedBraces
  <2> HIDE DEF open, close
  <2>3. Occurrences(Tokens(line), open) \in Nat /\ Occurrences(Tokens(line), close) \in Nat
    BY OccurrencesCounted
  <2> QED
    BY <2>1, <2>2, <2>3
<1>4. Difference(Tokens(line)) \in Int
  <2> DEFINE open == "{"
             close == "}"
  <2>1. Difference(Tokens(line)) = Occurrences(Tokens(line), open) - Occurrences(Tokens(line), close)
    BY Zenon DEF Difference
  <2> HIDE DEF open, close
  <2>2. Occurrences(Tokens(line), open) \in Nat /\ Occurrences(Tokens(line), close) \in Nat
    BY OccurrencesCounted
  <2> QED
    BY <2>1, <2>2
<1> QED
  BY <1>1, <1>2, <1>4

(* The lines, and how many braces are open before each.                     *)
LEMMA DepthsRead ==
  ASSUME LinesInv
  PROVE  /\ \A l \in 0 .. LineCount - 1 : IsLine(lines[l]) /\ Braces(lines[l]) \in Int
         /\ \A l \in 0 .. LineCount : Depth(l) \in Int
         /\ \A l \in 0 .. LineCount - 1 : Depth(l + 1) = Depth(l) + Braces(lines[l])
<1> DEFINE N == LineCount
           added == [l \in DOMAIN lines |-> Braces(lines[l])]
<1>1. N \in Nat /\ DOMAIN lines = 0 .. N - 1
  BY DEF LinesInv
<1>2. ASSUME NEW l \in 0 .. N - 1
      PROVE  IsLine(lines[l]) /\ Braces(lines[l]) \in Int
  <2>1. IsLine(lines[l])
    BY TokensOfDummy DEF LinesInv
  <2> QED
    BY <2>1, BracesCounted
<1>3. /\ DOMAIN added = 0 .. N - 1
      /\ \A l \in 0 .. N - 1 : added[l] = Braces(lines[l]) /\ added[l] \in Int
  BY <1>1, <1>2
<1>4. \A l : Depth(l) = SumsBefore(added)[l]
  BY Zenon DEF Depth, Depths
<1> HIDE DEF N, added
<1>5. /\ \A l \in 0 .. N : SumsBefore(added)[l] \in Int
      /\ \A l \in 0 .. N - 1 : SumsBefore(added)[l + 1] = SumsBefore(added)[l] + added[l]
  BY <1>1, <1>3, SumsRead
<1> QED
  BY <1>2, <1>3, <1>4, <1>5 DEF N

(* The braces that the look-ahead of _ClassInfo counts, those in strings    *)
(* included.                                                               *)
Raw(l) == SumsBefore([k \in DOMAIN lines |-> Braces(lines[k]) + QuotedBraces(lines[k])])[l]
LEMMA RawRead ==
  ASSUME LinesInv
  PROVE  /\ \A l \in 0 .. LineCount : Raw(l) \in Int
         /\ \A l \in 0 .. LineCount - 1 :
              Raw(l + 1) = Raw(l) + (Braces(lines[l]) + QuotedBraces(lines[l]))
<1> DEFINE N == LineCount
           added == [k \in DOMAIN lines |-> Braces(lines[k]) + QuotedBraces(lines[k])]
<1>1. N \in Nat /\ DOMAIN lines = 0 .. N - 1
  BY DEF LinesInv
<1>2. ASSUME NEW l \in 0 .. N - 1
      PROVE  Braces(lines[l]) \in Int /\ QuotedBraces(lines[l]) \in Int
  BY DepthsRead, BracesCounted
<1>3. /\ DOMAIN added = 0 .. N - 1
      /\ \A l \in 0 .. N - 1 :
           added[l] = Braces(lines[l]) + QuotedBraces(lines[l]) /\ added[l] \in Int
  BY <1>1, <1>2
<1>4. \A l : Raw(l) = SumsBefore(added)[l]
  BY Zenon DEF Raw
<1> HIDE DEF N, added
<1>5. /\ \A l \in 0 .. N : SumsBefore(added)[l] \in Int
      /\ \A l \in 0 .. N - 1 : SumsBefore(added)[l + 1] = SumsBefore(added)[l] + added[l]
  BY <1>1, <1>3, SumsRead
<1> QED
  BY <1>3, <1>4, <1>5 DEF N

(* Where no string holds a brace, the two scans count the same ones.        *)
LEMMA BracesSeen ==
  ASSUME LinesInv, NEW c \in 0 .. LineCount - 1, NEW e \in c .. LineCount - 1,
         \A k \in c .. e : QuotedBraces(lines[k]) = 0
  PROVE  \A l \in c .. e : BracesWithin(lines, c, l) = Depth(l + 1) - Depth(c)
<1>0. LineCount \in Nat
  BY DEF LinesInv
<1> DEFINE S == {d \in Nat : c + d <= e + 1 => Raw(c + d) - Raw(c) = Depth(c + d) - Depth(c)}
<1>1. 0 \in S
  <2>1. c + 0 = c /\ Raw(c) \in Int /\ Depth(c) \in Int
    BY <1>0, RawRead, DepthsRead
  <2> QED
    BY <2>1
<1>2. ASSUME NEW d \in Nat, d \in S
      PROVE  d + 1 \in S
  <2>1. ASSUME c + (d + 1) <= e + 1
        PROVE  Raw(c + (d + 1)) - Raw(c) = Depth(c + (d + 1)) - Depth(c)
    <3> DEFINE k == c + d
    <3>1. k \in c .. e /\ k \in 0 .. LineCount - 1 /\ k \in 0 .. LineCount /\ c + (d + 1) = k + 1
          /\ c \in 0 .. LineCount
      BY <1>0, <2>1
    <3>2. Raw(k) - Raw(c) = Depth(k) - Depth(c)
      BY <1>2, <3>1
    <3> HIDE DEF k
    <3>3. /\ Raw(k + 1) = Raw(k) + (Braces(lines[k]) + 0) /\ Raw(k) \in Int /\ Raw(c) \in Int
          /\ Depth(k + 1) = Depth(k) + Braces(lines[k]) /\ Depth(k) \in Int /\ Depth(c) \in Int
          /\ Braces(lines[k]) \in Int
      BY <3>1, RawRead, DepthsRead
    <3>4. Raw(k + 1) - Raw(c) = Depth(k + 1) - Depth(c)
      BY <3>2, <3>3
    <3> QED
      BY <3>1, <3>4
  <2>2. d + 1 \in Nat
    OBVIOUS
  <2> QED
    BY <2>1, <2>2
<1>3. \A d \in Nat : d \in S
  <2> HIDE DEF S
  <2> QED
    BY <1>1, <1>2, SetInduction
<1>4. \A l : BracesWithin(lines, c, l) = Raw(l + 1) - Raw(c)
  BY Zenon DEF BracesWithin, Raw
<1> QED
  <2> TAKE l \in c .. e
  <2>1. (l + 1) - c \in Nat /\ c + ((l + 1) - c) = l + 1 /\ l + 1 <= e + 1
    BY <1>0
  <2>2. Raw(l + 1) - Raw(c) = Depth(l + 1) - Depth(c)
    BY <1>3, <2>1
  <2> QED
    BY <1>4, <2>2

(* The classes that are open, one by one.                                   *)
LEMMA Open ==
  ASSUME NEW m, NEW c
  PROVE  c \in OpenBefore(m)
           <=> c \in Heads /\ c < m /\ \A k \in BodyOf(c) + 1 .. m : Depth(k) > Depth(c)
<1> QED
  BY DEF OpenBefore, Depth

(* The lines of the head of a class.                                        *)
BeginsHead(line) == Braces(line) = 0 /\ ~ HasSemicolon(line) /\ ~ HasToken(line, "{")
IsPlain(line) == ~ DeclaresClass(line) /\ ~ DeclaresVirtual(line)

(* The last token of such a line is its brace.                             *)
LEMMA BraceEndsHead ==
  ASSUME NEW line, IsLine(line), EndsHead(line)
  PROVE  HasToken(line, "{")
<1> DEFINE t == Tokens(line)
           open == "{"
<1>1. t \in Seq(Words) /\ t # <<>> /\ Last(t) = open
  BY TokensOfLine, Zenon DEF EndsHead, Blank
<1>2. HasToken(line, "{") <=> Contains(t, open)
  BY Zenon DEF HasToken
<1> HIDE DEF t, open
<1>3. Len(t) \in 1 .. Len(t) /\ t[Len(t)] = open
  BY <1>1 DEF Last
<1> QED
  BY <1>2, <1>3 DEF Contains

(* A line with a method ends with a semicolon, and declares no class.       *)
LEMMA LinesOfMethods ==
  ASSUME NEW line, IsLine(line), DeclaresVirtual(line)
  PROVE  HasSemicolon(line) /\ ~ DeclaresClass(line)
<1>1. line.is \in {"virtual f();", "virtual ~A();"}
  BY DEF DeclaresVirtual
<1>2. Tokens(line) = <<"x", ";">>
  BY <1>1, Zenon DEF Tokens, TokensOf, Sketches
<1>3. HasSemicolon(line)
  <2> DEFINE a == "x"
             b == ";"
  <2>1. HasSemicolon(line) <=> Contains(<<a, b>>, b)
    BY <1>2, Zenon DEF HasSemicolon, HasToken
  <2> HIDE DEF a, b
  <2>2. Contains(<<a, b>>, b)
    BY DEF Contains
  <2> QED
    BY <2>1, <2>2
<1>4. ~ DeclaresClass(line)
  BY <1>1, Zenon DEF DeclaresClass
<1> QED
  BY <1>3, <1>4

(* The head of a class and the line with its brace.                         *)
LEMMA HeadOfClass ==
  ASSUME LinesInv, WellFormed, NEW c \in Heads
  PROVE  /\ c \in 0 .. LineCount - 2 /\ c \in Nat /\ DeclaresClass(lines[c])
         /\ \/ BodyOf(c) = c /\ EndsHead(lines[c]) /\ Braces(lines[c]) = 1
            \/ /\ BodyOf(c) = c + 1 /\ BeginsHead(lines[c]) /\ Braces(lines[c]) = 0
               /\ EndsHead(lines[c + 1]) /\ IsPlain(lines[c + 1]) /\ Braces(lines[c + 1]) = 1
<1>0. LineCount \in Nat /\ LineCount >= 2 /\ DOMAIN lines = 0 .. LineCount - 1
  BY DEF LinesInv
<1>1. c \in 0 .. LineCount - 1 /\ DeclaresClass(lines[c]) /\ ~ HasSemicolon(lines[c])
  BY <1>0, Zenon DEF Heads
<1>2. lines[LineCount - 1] = Dummy
  BY <1>0 DEF LinesInv
<1>3. ~ DeclaresClass(Dummy)
  BY DEF DeclaresClass, Dummy
<1>4. c \in 0 .. LineCount - 2 /\ c + 1 \in 0 .. LineCount - 1 /\ c \in Nat
  <2>1. c # LineCount - 1
    BY <1>1, <1>2, <1>3
  <2>2. c \in 0 .. LineCount - 1 /\ LineCount \in Nat
    BY <1>0, <1>1
  <2> QED
    BY <2>1, <2>2
<1>5. IsLine(lines[c]) /\ IsLine(lines[c + 1])
  BY <1>1, <1>4, DepthsRead
<1>6. /\ EndsHead(lines[BodyOf(c)])
      /\ BodyOf(c) # c => Braces(lines[c]) = 0 /\ ~ DeclaresClass(lines[BodyOf(c)])
  BY Zenon DEF WellFormed
<1>7. CASE HasToken(lines[c], "{")
  <2>1. BodyOf(c) = c
    BY <1>7, Zenon DEF BodyOf
  <2>2. EndsHead(lines[c]) /\ Braces(lines[c]) = 1
    BY <1>6, <2>1, Zenon DEF EndsHead
  <2> QED
    BY <1>1, <1>4, <2>1, <2>2
<1>8. CASE ~ HasToken(lines[c], "{")
  <2>1. BodyOf(c) = c + 1
    BY <1>8, Zenon DEF BodyOf
  <2>2. BodyOf(c) # c
    BY <1>4, <2>1
  <2>3. Braces(lines[c]) = 0 /\ BeginsHead(lines[c])
    BY <1>1, <1>6, <1>8, <2>2, Zenon DEF BeginsHead
  <2>4. EndsHead(lines[c + 1]) /\ Braces(lines[c + 1]) = 1 /\ ~ HasSemicolon(lines[c + 1])
    BY <1>6, <2>1, Zenon DEF EndsHead
  <2>5. IsPlain(lines[c + 1])
    BY <1>5, <1>6, <2>1, <2>2, <2>4, LinesOfMethods, Zenon DEF IsPlain
  <2> QED
    BY <1>1, <1>4, <2>1, <2>3, <2>4, <2>5, Zenon
<1> QED
  BY <1>7, <1>8, Zenon

(* Classes are open deeper and deeper.                                      *)
LEMMA OpenDepths ==
  ASSUME LinesInv, WellFormed, NEW m \in 0 .. LineCount, NEW c \in OpenBefore(m)
  PROVE  /\ c \in Nat /\ c < m /\ c \in Heads /\ BodyOf(c) \in c .. m
         /\ BodyOf(c) < m => Depth(m) > Depth(c)
         /\ BodyOf(c) = m => m = c + 1 /\ Depth(m) = Depth(c)
         /\ \A d \in OpenBefore(m) : c < d => BodyOf(c) < d /\ Depth(d) > Depth(c)
<1>0. LineCount \in Nat /\ m \in Nat
  BY DEF LinesInv
<1>1. c \in Heads /\ c < m /\ \A k \in BodyOf(c) + 1 .. m : Depth(k) > Depth(c)
  BY Open
<1>2. c \in 0 .. LineCount - 2
  BY <1>1, HeadOfClass
<1>3. \/ BodyOf(c) = c
      \/ BodyOf(c) = c + 1 /\ Braces(lines[c]) = 0 /\ ~ DeclaresClass(lines[c + 1])
  BY <1>1, HeadOfClass DEF IsPlain
<1>4. BodyOf(c) \in c .. m /\ BodyOf(c) \in Nat /\ c \in Nat /\ c \in 0 .. LineCount - 1
  BY <1>0, <1>1, <1>2, <1>3
<1>5. ASSUME BodyOf(c) < m
      PROVE  Depth(m) > Depth(c)
  <2>1. m \in BodyOf(c) + 1 .. m
    BY <1>0, <1>4, <1>5
  <2> QED
    BY <1>1, <2>1
<1>6. ASSUME BodyOf(c) = m
      PROVE  m = c + 1 /\ Depth(m) = Depth(c)
  <2>1. m = c + 1 /\ Braces(lines[c]) = 0
    BY <1>0, <1>1, <1>3, <1>4, <1>6
  <2>2. Depth(c + 1) = Depth(c) + 0 /\ Depth(c) \in Int
    BY <1>0, <1>4, <2>1, DepthsRead
  <2> QED
    BY <2>1, <2>2
<1>7. ASSUME NEW d \in OpenBefore(m), c < d
      PROVE  BodyOf(c) < d /\ Depth(d) > Depth(c)
  <2>1. d \in Heads /\ d < m
    BY Open
  <2>2. d \in Nat /\ DeclaresClass(lines[d])
    BY <1>0, <2>1, HeadOfClass
  <2>3. d # c + 1 \/ BodyOf(c) = c
    BY <1>3, <2>2
  <2>4. BodyOf(c) < d
    BY <1>3, <1>4, <1>7, <2>2, <2>3
  <2>5. d \in BodyOf(c) + 1 .. m
    BY <1>0, <1>4, <2>1, <2>2, <2>4
  <2> QED
    BY <1>1, <2>4, <2>5
<1> QED
  BY <1>1, <1>4, <1>5, <1>6, <1>7

(* What a line does to the classes that are open before it.                 *)
LEMMA OpenNext ==
  ASSUME LinesInv, WellFormed, NEW m \in 0 .. LineCount - 1, NEW c
  PROVE  /\ c < m \/ c # m => (c \in OpenBefore(m + 1) <=> c \in OpenBefore(m) /\ Depth(m + 1) > Depth(c))
         /\ m \in OpenBefore(m + 1) <=> m \in Heads
<1>0. LineCount \in Nat /\ m \in Nat /\ m + 1 \in 0 .. LineCount
  BY DEF LinesInv
<1>1. ASSUME c # m, c \in OpenBefore(m + 1)
      PROVE  c \in OpenBefore(m) /\ Depth(m + 1) > Depth(c)
  <2>1. c \in Heads /\ c < m + 1 /\ \A k \in BodyOf(c) + 1 .. m + 1 : Depth(k) > Depth(c)
    BY <1>1, Open
  <2>2. c \in Nat /\ BodyOf(c) \in {c, c + 1} /\ c < m
    BY <1>0, <1>1, <2>1, HeadOfClass
  <2>3. m + 1 \in BodyOf(c) + 1 .. m + 1 /\ \A k \in BodyOf(c) + 1 .. m : k \in BodyOf(c) + 1 .. m + 1
    BY <1>0, <2>2
  <2>4. \A k \in BodyOf(c) + 1 .. m : Depth(k) > Depth(c)
    BY <2>1, <2>3
  <2> QED
    BY <2>1, <2>2, <2>3, <2>4, Open
<1>2. ASSUME c \in OpenBefore(m), Depth(m + 1) > Depth(c)
      PROVE  c \in OpenBefore(m + 1)
  <2>1. c \in Heads /\ c < m /\ \A k \in BodyOf(c) + 1 .. m : Depth(k) > Depth(c)
    BY <1>2, Open
  <2>2. c \in Nat /\ BodyOf(c) \in {c, c + 1}
    BY <1>0, <2>1, HeadOfClass
  <2>3. \A k \in BodyOf(c) + 1 .. m + 1 : k = m + 1 \/ k \in BodyOf(c) + 1 .. m
    BY <1>0, <2>2
  <2>4. \A k \in BodyOf(c) + 1 .. m + 1 : Depth(k) > Depth(c)
    BY <1>2, <2>1, <2>3
  <2>5. c < m + 1
    BY <1>0, <2>1, <2>2
  <2> QED
    BY <2>1, <2>4, <2>5, Open
<1>3. ASSUME m \in Heads
      PROVE  m \in OpenBefore(m + 1)
  <2>1. \/ BodyOf(m) = m /\ Braces(lines[m]) = 1
        \/ BodyOf(m) = m + 1
    BY <1>3, HeadOfClass
  <2>2. ASSUME NEW k \in BodyOf(m) + 1 .. m + 1
        PROVE  Depth(k) > Depth(m)
    <3>1. k = m + 1 /\ Braces(lines[m]) = 1
      BY <1>0, <2>1
    <3>2. Depth(m + 1) = Depth(m) + 1 /\ Depth(m) \in Int
      BY <1>0, <3>1, DepthsRead
    <3> QED
      BY <3>1, <3>2
  <2>3. m < m + 1
    BY <1>0
  <2> QED
    BY <1>3, <2>2, <2>3, Open
<1>4. m \in OpenBefore(m + 1) => m \in Heads
  BY Open
<1>5. c < m => c # m
  BY <1>0
<1> QED
  BY <1>1, <1>2, <1>3, <1>4, <1>5

(* A class that is closed stays so.                                         *)
LEMMA OpenBetween ==
  ASSUME LinesInv, WellFormed, NEW m \in Nat, NEW l \in 0 .. m, NEW c \in OpenBefore(m), c < l
  PROVE  c \in OpenBefore(l)
<1>1. c \in Heads /\ \A k \in BodyOf(c) + 1 .. m : Depth(k) > Depth(c)
  BY Open
<1>2. c \in Nat /\ BodyOf(c) \in {c, c + 1}
  BY <1>1, HeadOfClass DEF LinesInv
<1>3. \A k \in BodyOf(c) + 1 .. l : k \in BodyOf(c) + 1 .. m
  BY <1>2
<1> QED
  BY <1>1, <1>3, Open

(* What the stack tells of a class, when the lines before line m have been  *)
(* read: the head is over or not, what is derived, what methods it has.     *)
ClassInfos ==
  [linenum : Nat, seen_open_brace : BOOLEAN, is_derived : BOOLEAN, virtual_method : BOOLEAN,
   has_virtual_destructor : BOOLEAN, brace_depth : Int, last_line : Nat]
IsDestructor(line) == line.is = "virtual ~A();"
Told(info, m) ==
  LET c == info.linenum
  IN  /\ c \in Heads
      /\ info.seen_open_brace <=> BodyOf(c) < m
      /\ info.is_derived <=> HasColon(lines[c]) \/ (BodyOf(c) < m /\ HasColon(lines[BodyOf(c)]))
      /\ info.virtual_method <=> \E l \in LinesOf(c) : l < m /\ DeclaresVirtual(lines[l])
      /\ info.has_virtual_destructor <=> \E l \in LinesOf(c) : l < m /\ IsDestructor(lines[l])
      /\ info.last_line = LastLine(lines, c)

(* The classes of a stack lie one in another, and each but the last counts  *)
(* the braces up to the next, the last those up to a depth.                 *)
Nested(s, depth) ==
  /\ s \in Seq(ClassInfos)
  /\ \A j, k \in 1 .. Len(s) : j < k => s[j].linenum < s[k].linenum
  /\ \A k \in 1 .. Len(s) :
       s[k].brace_depth
         = (IF k < Len(s) THEN Depth(s[k + 1].linenum) ELSE depth) - Depth(s[k].linenum)

(* The stack before line m.                                                *)
StackInv(s, m) ==
  /\ Nested(s, Depth(m))
  /\ \A k \in 1 .. Len(s) : s[k].linenum \in OpenBefore(m) /\ Told(s[k], m)
  /\ \A c \in OpenBefore(m) : \E k \in 1 .. Len(s) : s[k].linenum = c

(* The classes that are to be reported when line m is reached.              *)
Lacks(c) ==
  /\ ~ HasBase(c)
  /\ \E l \in LinesOf(c) : DeclaresVirtual(lines[l])
  /\ \A l \in LinesOf(c) : ~ IsDestructor(lines[l])
JudgedBefore(m) == {c \in Heads \ OpenBefore(m) : c < m /\ Lacks(c)}

ClassesInv ==
  /\ phase = "comments" => classinfo_stack = <<>> /\ virtuals = {}
  /\ phase # "comments" /\ WellFormed =>
       StackInv(classinfo_stack, n) /\ virtuals = JudgedBefore(n)
  /\ phase \in {"includes", "linted"} /\ WellFormed =>
       unfinished = IF OpenBefore(n) = {} THEN 0 ELSE Min(OpenBefore(n))

(* The class that is open innermost.                                       *)
LEMMA InnermostIs ==
  ASSUME NEW m, NEW c \in OpenBefore(m), OpenBefore(m) \subseteq Nat, m \in Nat,
         \A d \in OpenBefore(m) : d <= c
  PROVE  Innermost(m) = c
<1>1. \A d \in OpenBefore(m) : d <= m
  BY Open
<1>2. Max(OpenBefore(m)) \in OpenBefore(m) /\ \A d \in OpenBefore(m) : Max(OpenBefore(m)) >= d
  BY <1>1, MaxIsGreatest
<1> QED
  BY <1>2 DEF Innermost

(* What is told of a class that is open, after one more line.              *)
LEMMA ToldNext ==
  ASSUME LinesInv, WellFormed, NEW m \in 0 .. LineCount - 1,
         NEW info, NEW new, info.linenum \in OpenBefore(m), Told(info, m),
         new.linenum = info.linenum, new.last_line = info.last_line,
         new.seen_open_brace <=> TRUE,
         new.is_derived
           <=> info.is_derived \/ (~ info.seen_open_brace /\ HasColon(lines[m])),
         new.virtual_method
           <=> info.virtual_method \/ (info.linenum = Innermost(m) /\ DeclaresVirtual(lines[m])),
         new.has_virtual_destructor
           <=> info.has_virtual_destructor
                 \/ (info.linenum = Innermost(m) /\ IsDestructor(lines[m]))
  PROVE  Told(new, m + 1)
<1> DEFINE c == info.linenum
<1>0. LineCount \in Nat /\ m \in Nat /\ m \in 0 .. LineCount /\ DOMAIN lines = 0 .. LineCount - 1
  BY DEF LinesInv
<1>1. c \in Heads /\ c \in Nat /\ BodyOf(c) \in c .. m
  BY <1>0, OpenDepths
<1>2. BodyOf(c) < m + 1 /\ (BodyOf(c) < m \/ BodyOf(c) = m) /\ ~ (BodyOf(c) < m /\ BodyOf(c) = m)
  BY <1>0, <1>1
<1>3. \A l \in LinesOf(c) : l < m + 1 <=> l < m \/ l = m
  BY <1>0 DEF LinesOf
<1>4. m \in LinesOf(c) <=> c = Innermost(m)
  BY <1>0 DEF LinesOf
<1>5. new.is_derived <=> HasColon(lines[c]) \/ (BodyOf(c) < m + 1 /\ HasColon(lines[BodyOf(c)]))
  <2>1. /\ info.seen_open_brace <=> BodyOf(c) < m
        /\ info.is_derived <=> HasColon(lines[c]) \/ (BodyOf(c) < m /\ HasColon(lines[BodyOf(c)]))
    BY Zenon DEF Told
  <2>2. BodyOf(c) = m => lines[BodyOf(c)] = lines[m]
    OBVIOUS
  <2> HIDE DEF c
  <2> QED
    BY <1>2, <2>1, <2>2, Zenon DEF c
<1>6. new.virtual_method <=> \E l \in LinesOf(c) : l < m + 1 /\ DeclaresVirtual(lines[l])
  <2>1. info.virtual_method <=> \E l \in LinesOf(c) : l < m /\ DeclaresVirtual(lines[l])
    BY Zenon DEF Told
  <2> QED
    BY <1>3, <1>4, <2>1, Zenon
<1>7. new.has_virtual_destructor <=> \E l \in LinesOf(c) : l < m + 1 /\ IsDestructor(lines[l])
  <2>1. info.has_virtual_destructor <=> \E l \in LinesOf(c) : l < m /\ IsDestructor(lines[l])
    BY Zenon DEF Told
  <2> QED
    BY <1>3, <1>4, <2>1, Zenon
<1>8. new.last_line = LastLine(lines, c)
  BY DEF Told
<1> QED
  BY <1>1, <1>2, <1>5, <1>6, <1>7, <1>8, Zenon DEF Told

(* What is told of a class after the line where it begins.                 *)
LEMMA ToldFirst ==
  ASSUME LinesInv, WellFormed, NEW m \in Heads, NEW new, new.linenum = m,
         new.last_line = LastLine(lines, m), new.seen_open_brace <=> BodyOf(m) = m,
         new.is_derived <=> HasColon(lines[m]), ~ new.virtual_method,
         ~ new.has_virtual_destructor
  PROVE  Told(new, m + 1)
<1>1. m \in Nat /\ BodyOf(m) \in {m, m + 1}
  BY HeadOfClass
<1>2. BodyOf(m) = m <=> BodyOf(m) < m + 1
  BY <1>1
<1>3. BodyOf(m) < m + 1 => lines[BodyOf(m)] = lines[m]
  BY <1>2
<1>4. \A l \in LinesOf(m) : ~ (l < m + 1)
  <2> SUFFICES ASSUME NEW l \in LinesOf(m), l < m + 1
               PROVE  FALSE
    OBVIOUS
  <2>1. m \in OpenBefore(l) /\ l \in Nat
    BY DEF LinesOf, LinesInv
  <2>2. m < l
    BY <2>1, Open
  <2> QED
    BY <1>1, <2>1, <2>2
<1> QED
  BY <1>2, <1>3, <1>4, Zenon DEF Told

(* A line leaves as many braces open as lie around the class it is in.      *)
LEMMA DepthStays ==
  ASSUME LinesInv, WellFormed, NEW m \in 0 .. LineCount - 1, NEW c \in OpenBefore(m)
  PROVE  /\ Depth(m + 1) >= Depth(c) /\ Depth(c) \in Int /\ Depth(m) \in Int
         /\ Depth(m + 1) = Depth(m) + Braces(lines[m]) /\ Braces(lines[m]) \in Int
         /\ DeclaresClass(lines[m]) => BodyOf(c) < m /\ Depth(m) > Depth(c)
<1>0. LineCount \in Nat /\ m \in Nat /\ m \in 0 .. LineCount /\ DOMAIN lines = 0 .. LineCount - 1
  BY DEF LinesInv
<1>1. /\ c \in Heads /\ c \in Nat /\ c < m /\ BodyOf(c) \in c .. m
      /\ BodyOf(c) < m => Depth(m) > Depth(c)
      /\ BodyOf(c) = m => m = c + 1 /\ Depth(m) = Depth(c)
  BY <1>0, OpenDepths
<1>2. /\ Depth(c) \in Int /\ Depth(m) \in Int /\ Braces(lines[m]) \in Int
      /\ Depth(m + 1) = Depth(m) + Braces(lines[m])
  <2>1. c \in 0 .. LineCount
    BY <1>0, <1>1
  <2> QED
    BY <1>0, <2>1, DepthsRead
<1>3. Braces(lines[m]) >= -1
  BY <1>0, Zenon DEF WellFormed
<1>4. BodyOf(c) < m \/ BodyOf(c) = m
  BY <1>0, <1>1
<1>5. ASSUME BodyOf(c) = m
      PROVE  Braces(lines[m]) = 1 /\ ~ DeclaresClass(lines[m])
  <2>1. m = c + 1 /\ BodyOf(c) # c
    BY <1>0, <1>1, <1>5
  <2> QED
    BY <1>1, <2>1, HeadOfClass DEF IsPlain
<1>6. Depth(m + 1) >= Depth(c)
  <2>1. CASE BodyOf(c) < m
    BY <1>1, <1>2, <1>3, <2>1
  <2>2. CASE BodyOf(c) = m
    <3>1. Braces(lines[m]) = 1 /\ Depth(m) = Depth(c)
      BY <1>1, <1>5, <2>2, Zenon
    <3> QED
      BY <1>2, <3>1
  <2> QED
    BY <1>4, <2>1, <2>2
<1> QED
  BY <1>1, <1>2, <1>4, <1>5, <1>6, Zenon

(* What is told of a class does not change by a line that is not its own.   *)
LEMMA InfoKept ==
  ASSUME LinesInv, WellFormed, NEW m \in 0 .. LineCount - 1,
         NEW info, info.linenum \in OpenBefore(m), Told(info, m),
         BodyOf(info.linenum) < m, Depth(m + 1) > Depth(info.linenum),
         info.linenum # Innermost(m) \/ ~ DeclaresVirtual(lines[m])
  PROVE  info.linenum \in OpenBefore(m + 1) /\ Told(info, m + 1)
<1>1. info.seen_open_brace
  BY Zenon DEF Told
<1>2. info.linenum < m
  BY Open
<1>3. info.linenum \in OpenBefore(m + 1)
  BY <1>2, OpenNext
<1>4. IsDestructor(lines[m]) => DeclaresVirtual(lines[m])
  BY DEF IsDestructor, DeclaresVirtual
<1>5. Told(info, m + 1)
  BY <1>1, <1>4, ToldNext, Zenon
<1> QED
  BY <1>3, <1>5

(* A class put on a stack, and taken off.                                   *)
LEMMA Push ==
  ASSUME NEW s, NEW new \in ClassInfos, NEW depth, Nested(s, Depth(new.linenum)),
         \A k \in 1 .. Len(s) : s[k].linenum < new.linenum,
         new.brace_depth = depth - Depth(new.linenum)
  PROVE  /\ Nested(Append(s, new), depth)
         /\ Len(Append(s, new)) = Len(s) + 1 /\ Len(s) \in Nat
         /\ Append(s, new)[Len(s) + 1] = new
         /\ \A k \in 1 .. Len(s) : Append(s, new)[k] = s[k]
<1> DEFINE a == Append(s, new)
<1>1. s \in Seq(ClassInfos)
  BY DEF Nested
<1>2. /\ a \in Seq(ClassInfos) /\ Len(a) = Len(s) + 1 /\ Len(s) \in Nat
      /\ a[Len(s) + 1] = new /\ \A k \in 1 .. Len(s) : a[k] = s[k]
  <2> HIDE DEF ClassInfos
  <2> QED
    BY <1>1
<1> HIDE DEF a
<1>3. \A k \in 1 .. Len(a) : k \in 1 .. Len(s) \/ k = Len(s) + 1
  BY <1>2
<1>4. ASSUME NEW j \in 1 .. Len(a), NEW k \in 1 .. Len(a), j < k
      PROVE  a[j].linenum < a[k].linenum
  <2>1. j \in 1 .. Len(s)
    BY <1>2, <1>4
  <2>2. CASE k \in 1 .. Len(s)
    BY <1>2, <1>4, <2>1, <2>2 DEF Nested
  <2>3. CASE k = Len(s) + 1
    BY <1>2, <2>1, <2>3
  <2> QED
    BY <1>3, <2>2, <2>3
<1>5. ASSUME NEW k \in 1 .. Len(a)
      PROVE  a[k].brace_depth
               = (IF k < Len(a) THEN Depth(a[k + 1].linenum) ELSE depth) - Depth(a[k].linenum)
  <2>1. CASE k = Len(s) + 1
    BY <1>2, <2>1
  <2>2. CASE k \in 1 .. Len(s) /\ k < Len(s)
    <3>1. a[k] = s[k] /\ a[k + 1] = s[k + 1] /\ k < Len(a)
      BY <1>2, <2>2
    <3> QED
      BY <2>2, <3>1 DEF Nested
  <2>3. CASE k \in 1 .. Len(s) /\ ~ (k < Len(s))
    <3>1. k = Len(s) /\ k < Len(a)
      BY <1>2, <2>3
    <3>2. a[k] = s[k] /\ a[k + 1] = new
      BY <1>2, <2>3, <3>1
    <3> QED
      BY <2>3, <3>1, <3>2 DEF Nested
  <2> QED
    BY <1>3, <2>1, <2>2, <2>3
<1>6. Nested(a, depth)
  BY <1>2, <1>4, <1>5 DEF Nested
<1> QED
  BY <1>2, <1>6 DEF a

(* A stack without its last element.                                       *)
LEMMA FrontOf ==
  ASSUME NEW T, NEW s \in Seq(T), s # <<>>
  PROVE  /\ Front(s) \in Seq(T) /\ Len(s) \in Nat \ {0} /\ Len(Front(s)) = Len(s) - 1
         /\ \A k \in 1 .. Len(s) - 1 : Front(s)[k] = s[k]
         /\ Last(s) = s[Len(s)] /\ Last(s) \in T
<1>1. Len(s) \in Nat /\ Len(s) # 0 /\ s \in [1 .. Len(s) -> T]
  OBVIOUS
<1>2. Front(s) = [i \in 1 .. Len(s) - 1 |-> s[i]]
  BY <1>1 DEF Front
<1>3. Front(s) \in [1 .. Len(s) - 1 -> T] /\ Len(s) - 1 \in Nat
  BY <1>1, <1>2
<1>4. Front(s) \in Seq(T) /\ Len(Front(s)) = Len(s) - 1
  BY <1>3
<1> QED
  BY <1>1, <1>2, <1>4 DEF Last

(* A stack with one more element.                                          *)
LEMMA FrontOfAppend ==
  ASSUME NEW T, NEW s \in Seq(T), NEW x \in T
  PROVE  /\ Append(s, x) \in Seq(T) /\ Append(s, x) # <<>> /\ Last(Append(s, x)) = x
         /\ Front(Append(s, x)) = s /\ Len(s) \in Nat
<1> DEFINE a == Append(s, x)
<1>1. /\ a \in Seq(T) /\ Len(a) = Len(s) + 1 /\ Len(s) \in Nat /\ a # <<>>
      /\ a[Len(s) + 1] = x /\ \A i \in 1 .. Len(s) : a[i] = s[i]
  OBVIOUS
<1> HIDE DEF a
<1>2. Last(a) = x
  BY <1>1, FrontOf
<1>3. /\ Front(a) \in Seq(T) /\ Len(Front(a)) = Len(s)
      /\ \A i \in 1 .. Len(s) : Front(a)[i] = s[i]
  BY <1>1, FrontOf
<1>4. Front(a) = s
  BY <1>3
<1> QED
  BY <1>1, <1>2, <1>4 DEF a

(* See Push.                                                               *)
LEMMA Pop ==
  ASSUME NEW s, s # <<>>, NEW depth, Nested(s, depth)
  PROVE  /\ Nested(Front(s), Depth(Last(s).linenum))
         /\ Len(s) \in Nat \ {0} /\ Len(Front(s)) = Len(s) - 1
         /\ Last(s) = s[Len(s)] /\ Last(s) \in ClassInfos
         /\ Last(s).brace_depth = depth - Depth(Last(s).linenum)
         /\ \A k \in 1 .. Len(s) - 1 :
              Front(s)[k] = s[k] /\ s[k].linenum < Last(s).linenum
<1> DEFINE f == Front(s)
<1>1. s \in Seq(ClassInfos)
  BY DEF Nested
<1>2. /\ f \in Seq(ClassInfos) /\ Len(s) \in Nat \ {0} /\ Len(f) = Len(s) - 1
      /\ \A k \in 1 .. Len(s) - 1 : f[k] = s[k]
      /\ Last(s) = s[Len(s)] /\ Last(s) \in ClassInfos
  <2> HIDE DEF ClassInfos
  <2> QED
    BY <1>1, FrontOf
<1> HIDE DEF f
<1>3. \A k \in 1 .. Len(f) : k \in 1 .. Len(s) /\ k < Len(s) /\ f[k] = s[k]
  BY <1>2
<1>4. \A k \in 1 .. Len(f) :
        s[k].linenum < Last(s).linenum
        /\ s[k].brace_depth = Depth(s[k + 1].linenum) - Depth(s[k].linenum)
  <2> TAKE k \in 1 .. Len(f)
  <2>1. k \in 1 .. Len(s) /\ k < Len(s) /\ Len(s) \in 1 .. Len(s)
    BY <1>2, <1>3
  <2> QED
    BY <1>2, <2>1 DEF Nested
<1>5. \A j, k \in 1 .. Len(f) : j < k => f[j].linenum < f[k].linenum
  BY <1>3 DEF Nested
<1>6. ASSUME NEW k \in 1 .. Len(f)
      PROVE  f[k].brace_depth
               = (IF k < Len(f) THEN Depth(f[k + 1].linenum) ELSE Depth(Last(s).linenum))
                   - Depth(f[k].linenum)
  <2>1. CASE k < Len(f)
    <3>1. f[k + 1] = s[k + 1]
      BY <1>2, <2>1
    <3> QED
      BY <1>3, <1>4, <2>1, <3>1
  <2>2. CASE ~ (k < Len(f))
    <3>1. k + 1 = Len(s)
      BY <1>2, <2>2
    <3>2. s[k + 1] = Last(s)
      BY <1>2, <3>1
    <3> QED
      BY <1>3, <1>4, <2>2, <3>2
  <2> QED
    BY <2>1, <2>2
<1>7. Nested(f, Depth(Last(s).linenum))
  BY <1>2, <1>5, <1>6 DEF Nested
<1>8. Last(s).brace_depth = depth - Depth(Last(s).linenum)
  <2>1. Len(s) \in 1 .. Len(s) /\ ~ (Len(s) < Len(s))
    BY <1>2
  <2> QED
    BY <1>2, <2>1 DEF Nested
<1> QED
  BY <1>2, <1>3, <1>4, <1>7, <1>8 DEF f

(* What a line does to the class on top, whose head it may be part of.      *)
Derived(top, line) == top.is_derived \/ (~ top.seen_open_brace /\ HasColon(line))
InHead(top, line) == [top EXCEPT !.is_derived = Derived(top, line)]
Inside(top, line) ==
  [top EXCEPT !.seen_open_brace = TRUE,
              !.is_derived = Derived(top, line),
              !.virtual_method = top.virtual_method \/ DeclaresVirtual(line),
              !.has_virtual_destructor = top.has_virtual_destructor \/ IsDestructor(line),
              !.brace_depth = top.brace_depth + Braces(line)]

(* The fields of a class that a line changes.                              *)
LEMMA FieldsOfClass ==
  ASSUME NEW top \in ClassInfos, NEW line, Braces(line) \in Int
  PROVE  /\ InHead(top, line) \in ClassInfos /\ Inside(top, line) \in ClassInfos
         /\ InHead(top, line).linenum = top.linenum
         /\ InHead(top, line).seen_open_brace <=> top.seen_open_brace
         /\ InHead(top, line).is_derived <=> Derived(top, line)
         /\ InHead(top, line).virtual_method <=> top.virtual_method
         /\ InHead(top, line).has_virtual_destructor <=> top.has_virtual_destructor
         /\ InHead(top, line).brace_depth = top.brace_depth
         /\ InHead(top, line).last_line = top.last_line
         /\ Inside(top, line).linenum = top.linenum
         /\ Inside(top, line).seen_open_brace <=> TRUE
         /\ Inside(top, line).is_derived <=> Derived(top, line)
         /\ Inside(top, line).virtual_method <=> top.virtual_method \/ DeclaresVirtual(line)
         /\ Inside(top, line).has_virtual_destructor
              <=> top.has_virtual_destructor \/ IsDestructor(line)
         /\ Inside(top, line).brace_depth = top.brace_depth + Braces(line)
         /\ Inside(top, line).last_line = top.last_line
<1> DEFINE derived == Derived(top, line)
           method == top.virtual_method \/ DeclaresVirtual(line)
           destructor == top.has_virtual_destructor \/ IsDestructor(line)
           depth == top.brace_depth + Braces(line)
<1>1. derived \in BOOLEAN /\ method \in BOOLEAN /\ destructor \in BOOLEAN
  BY DEF Derived
<1>2. depth \in Int
  BY DEF ClassInfos
<1>3. InHead(top, line) = [top EXCEPT !.is_derived = derived]
  BY DEF InHead
<1>4. Inside(top, line) =
        [top EXCEPT !.seen_open_brace = TRUE, !.is_derived = derived, !.virtual_method = method,
                    !.has_virtual_destructor = destructor, !.brace_depth = depth]
  BY DEF Inside
<1> HIDE DEF derived, method, destructor, depth
<1>5. InHead(top, line) \in ClassInfos /\ Inside(top, line) \in ClassInfos
  BY <1>1, <1>2, <1>3, <1>4 DEF ClassInfos
<1>6. /\ InHead(top, line).linenum = top.linenum
      /\ InHead(top, line).seen_open_brace = top.seen_open_brace
      /\ InHead(top, line).is_derived = derived
      /\ InHead(top, line).virtual_method = top.virtual_method
      /\ InHead(top, line).has_virtual_destructor = top.has_virtual_destructor
      /\ InHead(top, line).brace_depth = top.brace_depth
      /\ InHead(top, line).last_line = top.last_line
  BY <1>3 DEF ClassInfos
<1>7. /\ Inside(top, line).linenum = top.linenum
      /\ Inside(top, line).seen_open_brace = TRUE
      /\ Inside(top, line).is_derived = derived
      /\ Inside(top, line).virtual_method = method
      /\ Inside(top, line).has_virtual_destructor = destructor
      /\ Inside(top, line).brace_depth = depth
      /\ Inside(top, line).last_line = top.last_line
  BY <1>4 DEF ClassInfos
<1> QED
  BY <1>5, <1>6, <1>7, Zenon DEF derived, method, destructor, depth

(* Track, by the part of a class that a line belongs to.                    *)
LEMMA Tracked ==
  ASSUME NEW stack, NEW line, IsLine(line), Track(stack, line)
  PROVE  LET top == Last(stack)
         IN  /\ ~ top.seen_open_brace /\ HasSemicolon(line) =>
                  classinfo_stack' = Front(stack) /\ virtuals' = virtuals
             /\ ~ top.seen_open_brace /\ BeginsHead(line) =>
                  classinfo_stack' = Append(Front(stack), InHead(top, line)) /\ virtuals' = virtuals
             /\ top.seen_open_brace \/ EndsHead(line) =>
                  IF Inside(top, line).brace_depth <= 0
                    THEN /\ classinfo_stack' = Front(stack)
                         /\ virtuals' = IF NeedsDestructor(Inside(top, line))
                                          THEN virtuals \cup {Inside(top, line).linenum}
                                          ELSE virtuals
                    ELSE /\ classinfo_stack' = Append(Front(stack), Inside(top, line))
                         /\ virtuals' = virtuals
<1> DEFINE top == Last(stack)
           StillHead == ~ top.seen_open_brace /\ ~ HasToken(line, "{") /\ ~ HasSemicolon(line)
           Read == IF Inside(top, line).brace_depth <= 0
                     THEN /\ classinfo_stack' = Front(stack)
                          /\ virtuals' = IF NeedsDestructor(Inside(top, line))
                                           THEN virtuals \cup {Inside(top, line).linenum}
                                           ELSE virtuals
                     ELSE /\ classinfo_stack' = Append(Front(stack), Inside(top, line))
                          /\ virtuals' = virtuals
<1> DEFINE Forward == ~ top.seen_open_brace /\ HasSemicolon(line)
<1>1. \/ Forward /\ classinfo_stack' = Front(stack) /\ virtuals' = virtuals
      \/ /\ StillHead
         /\ classinfo_stack' = Append(Front(stack), InHead(top, line)) /\ virtuals' = virtuals
      \/ ~ Forward /\ ~ StillHead /\ Read
  BY Zenon DEF Track, ForwardDeclaration, Close, Inside, InHead, Derived, IsDestructor
<1>2. BeginsHead(line) => ~ HasSemicolon(line) /\ ~ HasToken(line, "{")
  BY Zenon DEF BeginsHead
<1>3. EndsHead(line) => ~ HasSemicolon(line) /\ HasToken(line, "{")
  BY BraceEndsHead, Zenon DEF EndsHead
<1> HIDE DEF Read
<1>4. /\ ~ top.seen_open_brace /\ HasSemicolon(line) =>
           classinfo_stack' = Front(stack) /\ virtuals' = virtuals
      /\ ~ top.seen_open_brace /\ BeginsHead(line) =>
           classinfo_stack' = Append(Front(stack), InHead(top, line)) /\ virtuals' = virtuals
      /\ top.seen_open_brace \/ EndsHead(line) => Read
  BY <1>1, <1>2, <1>3, Zenon
<1> QED
  BY <1>4, Zenon DEF Read

(* The class on top of the stack is the innermost one.                      *)
LEMMA TopIsInnermost ==
  ASSUME LinesInv, WellFormed, NEW m \in 0 .. LineCount, NEW s, StackInv(s, m), s # <<>>
  PROVE  /\ Len(s) \in Nat \ {0} /\ Last(s) = s[Len(s)] /\ Last(s) \in ClassInfos
         /\ Last(s).linenum \in OpenBefore(m) /\ Told(Last(s), m)
         /\ Innermost(m) = Last(s).linenum
         /\ Last(s).brace_depth = Depth(m) - Depth(Last(s).linenum)
         /\ \A k \in 1 .. Len(s) - 1 : s[k].linenum < Last(s).linenum
<1>1. Nested(s, Depth(m))
  BY DEF StackInv
<1>2. /\ Len(s) \in Nat \ {0} /\ Last(s) = s[Len(s)] /\ Last(s) \in ClassInfos
      /\ Last(s).brace_depth = Depth(m) - Depth(Last(s).linenum)
      /\ \A k \in 1 .. Len(s) - 1 : s[k].linenum < Last(s).linenum
  BY <1>1, Pop
<1>3. Len(s) \in 1 .. Len(s) /\ \A k \in 1 .. Len(s) : k = Len(s) \/ k \in 1 .. Len(s) - 1
  BY <1>2
<1>4. Last(s).linenum \in OpenBefore(m) /\ Told(Last(s), m)
  BY <1>2, <1>3, Zenon DEF StackInv
<1>5. OpenBefore(m) \subseteq Nat /\ m \in Nat
  BY OpenDepths DEF LinesInv
<1>6. ASSUME NEW d \in OpenBefore(m)
      PROVE  d <= Last(s).linenum
  <2>1. PICK k \in 1 .. Len(s) : s[k].linenum = d
    BY Zenon DEF StackInv
  <2>2. d = Last(s).linenum \/ d < Last(s).linenum
    BY <1>2, <1>3, <2>1
  <2> QED
    BY <1>4, <1>5, <2>2
<1>7. Innermost(m) = Last(s).linenum
  BY <1>4, <1>5, <1>6, InnermostIs
<1> QED
  BY <1>2, <1>4, <1>7

(* The classes around the one on top are not concerned with a line.         *)
LEMMA OutsideKept ==
  ASSUME LinesInv, WellFormed, NEW m \in 0 .. LineCount - 1, NEW s, StackInv(s, m),
         s # <<>>, NEW k \in 1 .. Len(s) - 1
  PROVE  s[k].linenum \in OpenBefore(m + 1) /\ Told(s[k], m + 1)
<1> DEFINE c == s[k].linenum
           t == Last(s).linenum
<1>0. m \in 0 .. LineCount /\ m \in Nat
  BY DEF LinesInv
<1>1. t \in OpenBefore(m) /\ Innermost(m) = t /\ c < t /\ Len(s) \in Nat
  BY <1>0, TopIsInnermost
<1>2. c \in OpenBefore(m) /\ Told(s[k], m)
  <2>1. k \in 1 .. Len(s)
    BY <1>1
  <2> QED
    BY <2>1, Zenon DEF StackInv
<1> HIDE DEF c, t
<1>3. /\ t \in Nat /\ t < m /\ c \in Nat /\ BodyOf(c) \in c .. m /\ c \in Heads
      /\ BodyOf(c) < t /\ Depth(t) > Depth(c)
  BY <1>0, <1>1, <1>2, OpenDepths
<1>4. Depth(m + 1) >= Depth(t) /\ Depth(t) \in Int /\ Depth(m + 1) \in Int
  BY <1>1, DepthStays
<1>5. Depth(c) \in Int
  BY <1>2, DepthStays
<1>6. BodyOf(c) < m /\ Depth(m + 1) > Depth(c) /\ c # Innermost(m)
  BY <1>0, <1>1, <1>3, <1>4, <1>5
<1> QED
  BY <1>2, <1>6, InfoKept DEF c

(* The declaration of a class says nothing of the classes around it.        *)
LEMMA AroundKept ==
  ASSUME LinesInv, WellFormed, NEW m \in 0 .. LineCount - 1, NEW s, StackInv(s, m),
         DeclaresClass(lines[m]), Braces(lines[m]) >= 0, NEW k \in 1 .. Len(s)
  PROVE  s[k].linenum \in OpenBefore(m + 1) /\ Told(s[k], m + 1)
<1> DEFINE c == s[k].linenum
<1>1. c \in OpenBefore(m) /\ Told(s[k], m)
  BY Zenon DEF StackInv
<1>2. /\ BodyOf(c) < m /\ Depth(m) > Depth(c) /\ Depth(c) \in Int /\ Depth(m) \in Int
      /\ Depth(m + 1) = Depth(m) + Braces(lines[m]) /\ Braces(lines[m]) \in Int
  BY <1>1, DepthStays
<1>3. Depth(m + 1) > Depth(c)
  <2> HIDE DEF c
  <2> QED
    BY <1>2
<1>4. ~ DeclaresVirtual(lines[m])
  <2>1. IsLine(lines[m])
    BY DepthsRead
  <2> QED
    BY <2>1, LinesOfMethods
<1> QED
  BY <1>1, <1>2, <1>3, <1>4, InfoKept

(* A class is judged where it is closed.                                   *)
LEMMA JudgedNext ==
  ASSUME LinesInv, WellFormed, NEW m \in 0 .. LineCount - 1
  PROVE  JudgedBefore(m + 1)
           = JudgedBefore(m) \cup {c \in OpenBefore(m) \ OpenBefore(m + 1) : Lacks(c)}
<1>0. m \in Nat /\ \A c \in Heads : c \in Nat
  <2>1. m \in Nat
    BY DEF LinesInv
  <2>2. ASSUME NEW c \in Heads
        PROVE  c \in Nat
    BY HeadOfClass
  <2> QED
    BY <2>1, <2>2
<1>1. ASSUME NEW c
      PROVE  c \in JudgedBefore(m + 1) <=>
               \/ c \in JudgedBefore(m)
               \/ c \in OpenBefore(m) /\ c \notin OpenBefore(m + 1) /\ Lacks(c)
  <2>1. c \in OpenBefore(m) => c \in Heads /\ c < m
    BY Open
  <2>2. m \in Heads => m \in OpenBefore(m + 1)
    BY OpenNext
  <2>3. c \in Heads => (c < m + 1 <=> c < m \/ c = m)
    BY <1>0
  <2>4. c < m => (c \in OpenBefore(m + 1) => c \in OpenBefore(m))
    BY OpenNext
  <2> QED
    BY <2>1, <2>2, <2>3, <2>4, Zenon DEF JudgedBefore
<1>2. \A c : c \in {d \in OpenBefore(m) \ OpenBefore(m + 1) : Lacks(d)}
              <=> c \in OpenBefore(m) /\ c \notin OpenBefore(m + 1) /\ Lacks(c)
  BY Zenon
<1> QED
  BY <1>1, <1>2, Zenon

(* All the methods of a class that is closed have been read.                *)
LEMMA NeedsIsLacks ==
  ASSUME LinesInv, WellFormed, NEW m \in Nat, NEW info, Told(info, m),
         info.linenum \notin OpenBefore(m), BodyOf(info.linenum) < m
  PROVE  NeedsDestructor(info) <=> Lacks(info.linenum)
<1> DEFINE c == info.linenum
<1>1. c \in Heads /\ c \in Nat /\ BodyOf(c) \in {c, c + 1}
  BY HeadOfClass DEF Told
<1>2. c < m
  <2> HIDE DEF c
  <2> QED
    BY <1>1 DEF c
<1>3. ASSUME NEW l \in LinesOf(c)
      PROVE  l < m
  <2>1. c \in OpenBefore(l) /\ l \in Nat
    BY DEF LinesOf, LinesInv
  <2> HIDE DEF c
  <2>2. SUFFICES ASSUME ~ (l < m)
                 PROVE  FALSE
    OBVIOUS
  <2>3. m \in 0 .. l
    BY <2>1, <2>2
  <2>4. c \in OpenBefore(m)
    BY <1>2, <2>1, <2>3, OpenBetween
  <2> QED
    BY <2>4 DEF c
<1>4. info.virtual_method <=> \E l \in LinesOf(c) : DeclaresVirtual(lines[l])
  BY <1>3, Zenon DEF Told
<1>5. info.has_virtual_destructor <=> \E l \in LinesOf(c) : IsDestructor(lines[l])
  BY <1>3, Zenon DEF Told
<1>6. info.is_derived <=> HasBase(c)
  BY Zenon DEF Told, HasBase
<1> QED
  BY <1>4, <1>5, <1>6, Zenon DEF NeedsDestructor, Lacks

(* A forward declaration changes nothing.                                  *)
LEMMA StackKept ==
  ASSUME LinesInv, WellFormed, NEW m \in 0 .. LineCount - 1, NEW s, StackInv(s, m),
         DeclaresClass(lines[m]), Braces(lines[m]) = 0, m \notin Heads
  PROVE  StackInv(s, m + 1) /\ JudgedBefore(m + 1) = JudgedBefore(m)
<1>1. \A k \in 1 .. Len(s) : s[k].linenum \in OpenBefore(m + 1) /\ Told(s[k], m + 1)
  BY AroundKept
<1>2. ASSUME NEW c \in OpenBefore(m)
      PROVE  c \in OpenBefore(m + 1)
  <2>1. PICK k \in 1 .. Len(s) : s[k].linenum = c
    BY Zenon DEF StackInv
  <2> QED
    BY <1>1, <2>1, Zenon
<1>3. ASSUME NEW c \in OpenBefore(m + 1)
      PROVE  c \in OpenBefore(m)
  <2>1. c # m
    BY OpenNext
  <2> QED
    BY <2>1, OpenNext
<1>4. Depth(m + 1) = Depth(m)
  <2>1. m \in 0 .. LineCount /\ LineCount \in Nat
    BY DEF LinesInv
  <2>2. Depth(m + 1) = Depth(m) + 0 /\ Depth(m) \in Int
    BY <2>1, DepthsRead
  <2> QED
    BY <2>2
<1>5. StackInv(s, m + 1)
  BY <1>1, <1>3, <1>4, Zenon DEF StackInv
<1>6. JudgedBefore(m + 1) = JudgedBefore(m)
  <2>1. {c \in OpenBefore(m) \ OpenBefore(m + 1) : Lacks(c)} = {}
    BY <1>2
  <2> QED
    BY <2>1, JudgedNext
<1> QED
  BY <1>5, <1>6

(* The head of a class is pushed.                                          *)
LEMMA StackPushed ==
  ASSUME LinesInv, WellFormed, NEW m \in 0 .. LineCount - 1, NEW s, StackInv(s, m),
         m \in Heads, NEW new \in ClassInfos, new.linenum = m, Told(new, m + 1),
         new.brace_depth = Braces(lines[m])
  PROVE  StackInv(Append(s, new), m + 1) /\ JudgedBefore(m + 1) = JudgedBefore(m)
<1> DEFINE a == Append(s, new)
<1>0. /\ LineCount \in Nat /\ m \in Nat /\ Depth(m) \in Int /\ Braces(lines[m]) \in Int
      /\ Depth(m + 1) = Depth(m) + Braces(lines[m])
  <2>1. m \in 0 .. LineCount /\ LineCount \in Nat
    BY DEF LinesInv
  <2> QED
    BY <2>1, DepthsRead
<1>1. DeclaresClass(lines[m]) /\ Braces(lines[m]) >= 0
  BY HeadOfClass
<1>2. ASSUME NEW k \in 1 .. Len(s)
      PROVE  s[k].linenum \in OpenBefore(m + 1) /\ Told(s[k], m + 1)
  BY <1>1, AroundKept
<1>3. ASSUME NEW k \in 1 .. Len(s)
      PROVE  s[k].linenum < new.linenum
  <2>1. s[k].linenum \in OpenBefore(m)
    BY Zenon DEF StackInv
  <2> QED
    BY <2>1, Open
<1>4. new.brace_depth = Depth(m + 1) - Depth(new.linenum)
  BY <1>0
<1>5. /\ Nested(a, Depth(m + 1)) /\ Len(a) = Len(s) + 1 /\ Len(s) \in Nat
      /\ a[Len(s) + 1] = new /\ \A k \in 1 .. Len(s) : a[k] = s[k]
  BY <1>3, <1>4, Push DEF StackInv
<1>6. m \in OpenBefore(m + 1) /\ \A c \in OpenBefore(m + 1) : c = m \/ c \in OpenBefore(m)
  BY OpenNext
<1> HIDE DEF a
<1>7. \A k \in 1 .. Len(a) : k \in 1 .. Len(s) \/ k = Len(s) + 1
  BY <1>5
<1>8. \A k \in 1 .. Len(a) : a[k].linenum \in OpenBefore(m + 1) /\ Told(a[k], m + 1)
  BY <1>2, <1>5, <1>6, <1>7, Zenon
<1>9. ASSUME NEW c \in OpenBefore(m + 1)
      PROVE  \E k \in 1 .. Len(a) : a[k].linenum = c
  <2>1. CASE c = m
    <3>1. Len(s) + 1 \in 1 .. Len(a)
      BY <1>5
    <3> QED
      BY <1>5, <2>1, <3>1, Zenon
  <2>2. CASE c \in OpenBefore(m)
    <3>1. PICK k \in 1 .. Len(s) : s[k].linenum = c
      BY <2>2, Zenon DEF StackInv
    <3>2. k \in 1 .. Len(a)
      BY <1>5
    <3> QED
      BY <1>5, <3>1, <3>2, Zenon
  <2> QED
    BY <1>6, <2>1, <2>2
<1>10. StackInv(a, m + 1)
  BY <1>5, <1>8, <1>9, Zenon DEF StackInv
<1>11. ASSUME NEW c \in OpenBefore(m)
       PROVE  c \in OpenBefore(m + 1)
  <2>1. PICK k \in 1 .. Len(s) : s[k].linenum = c
    BY Zenon DEF StackInv
  <2> QED
    BY <1>2, <2>1, Zenon
<1>12. JudgedBefore(m + 1) = JudgedBefore(m)
  BY <1>11, JudgedNext
<1> QED
  BY <1>10, <1>12 DEF a

(* A line of the class on top.                                             *)
LEMMA StackRead ==
  ASSUME LinesInv, WellFormed, NEW m \in 0 .. LineCount - 1, NEW s, StackInv(s, m),
         s # <<>>, m \notin Heads, NEW new \in ClassInfos, new.linenum = Last(s).linenum,
         Told(new, m + 1), new.brace_depth = Last(s).brace_depth + Braces(lines[m]),
         new.brace_depth > 0
  PROVE  StackInv(Append(Front(s), new), m + 1) /\ JudgedBefore(m + 1) = JudgedBefore(m)
<1> DEFINE f == Front(s)
           a == Append(f, new)
           t == Last(s).linenum
<1>0. m \in 0 .. LineCount
  BY DEF LinesInv
<1>1. /\ Len(s) \in Nat \ {0} /\ Last(s) = s[Len(s)] /\ t \in OpenBefore(m)
      /\ Last(s).brace_depth = Depth(m) - Depth(t)
      /\ \A k \in 1 .. Len(s) - 1 : s[k].linenum < t
  BY <1>0, TopIsInnermost
<1>2. /\ Nested(f, Depth(t)) /\ Len(f) = Len(s) - 1
      /\ \A k \in 1 .. Len(s) - 1 : f[k] = s[k]
  BY Pop DEF StackInv
<1>3. /\ Depth(t) \in Int /\ Depth(m) \in Int /\ Braces(lines[m]) \in Int
      /\ Depth(m + 1) = Depth(m) + Braces(lines[m])
  BY <1>1, DepthStays
<1>4. \A k \in 1 .. Len(s) - 1 : s[k].linenum \in OpenBefore(m + 1) /\ Told(s[k], m + 1)
  BY OutsideKept
<1> HIDE DEF t
<1>5. new.brace_depth = Depth(m + 1) - Depth(t) /\ Depth(m + 1) > Depth(t)
  BY <1>1, <1>3 DEF t
<1>6. t < m /\ t \in OpenBefore(m + 1)
  BY <1>1, <1>5, Open, OpenNext
<1> HIDE DEF f
<1>7. \A k \in 1 .. Len(f) : f[k].linenum < new.linenum
  BY <1>1, <1>2 DEF t
<1>8. /\ Nested(a, Depth(m + 1)) /\ Len(a) = Len(s)
      /\ a[Len(s)] = new /\ \A k \in 1 .. Len(s) - 1 : a[k] = s[k]
  <2>1. /\ Nested(a, Depth(m + 1)) /\ Len(a) = Len(f) + 1 /\ Len(f) \in Nat
        /\ a[Len(f) + 1] = new /\ \A k \in 1 .. Len(f) : a[k] = f[k]
    BY <1>2, <1>5, <1>7, Push DEF t
  <2> HIDE DEF a
  <2> QED
    BY <1>1, <1>2, <2>1
<1> HIDE DEF a
<1>9. \A k \in 1 .. Len(s) : k \in 1 .. Len(s) - 1 \/ k = Len(s)
  BY <1>1
<1>10. \A k \in 1 .. Len(a) : a[k].linenum \in OpenBefore(m + 1) /\ Told(a[k], m + 1)
  BY <1>4, <1>6, <1>8, <1>9, Zenon DEF t
<1>11. \A k \in 1 .. Len(s) : a[k].linenum = s[k].linenum
  BY <1>1, <1>8, <1>9, Zenon DEF t
<1>12. \A c : c \in OpenBefore(m + 1) <=> c \in OpenBefore(m)
  <2> TAKE c
  <2>1. ASSUME c \in OpenBefore(m)
        PROVE  c \in OpenBefore(m + 1)
    <3>1. PICK k \in 1 .. Len(s) : s[k].linenum = c
      BY <2>1, Zenon DEF StackInv
    <3> QED
      BY <1>8, <1>10, <1>11, <3>1, Zenon
  <2>2. ASSUME c \in OpenBefore(m + 1)
        PROVE  c \in OpenBefore(m)
    <3>1. c # m
      BY <2>2, OpenNext
    <3> QED
      BY <2>2, <3>1, OpenNext
  <2> QED
    BY <2>1, <2>2
<1>13. StackInv(a, m + 1)
  <2>1. ASSUME NEW c \in OpenBefore(m + 1)
        PROVE  \E k \in 1 .. Len(a) : a[k].linenum = c
    <3>1. PICK k \in 1 .. Len(s) : s[k].linenum = c
      BY <1>12, Zenon DEF StackInv
    <3> QED
      BY <1>8, <1>11, <3>1, Zenon
  <2> QED
    BY <1>8, <1>10, <2>1, Zenon DEF StackInv
<1>14. JudgedBefore(m + 1) = JudgedBefore(m)
  BY <1>12, JudgedNext
<1> QED
  BY <1>13, <1>14 DEF a, f

(* The last line of the class on top.                                      *)
LEMMA StackPopped ==
  ASSUME LinesInv, WellFormed, NEW m \in 0 .. LineCount - 1, NEW s, StackInv(s, m),
         s # <<>>, m \notin Heads, NEW new, new.linenum = Last(s).linenum,
         Told(new, m + 1), new.brace_depth = Last(s).brace_depth + Braces(lines[m]),
         new.brace_depth <= 0
  PROVE  /\ StackInv(Front(s), m + 1)
         /\ JudgedBefore(m + 1)
              = IF NeedsDestructor(new) THEN JudgedBefore(m) \cup {new.linenum}
                                        ELSE JudgedBefore(m)
<1> DEFINE f == Front(s)
           t == Last(s).linenum
<1>0. m \in 0 .. LineCount /\ m + 1 \in Nat /\ m \in Nat
  BY DEF LinesInv
<1>1. /\ Len(s) \in Nat \ {0} /\ Last(s) = s[Len(s)] /\ t \in OpenBefore(m)
      /\ Last(s).brace_depth = Depth(m) - Depth(t)
  BY <1>0, TopIsInnermost
<1>2. /\ Nested(f, Depth(t)) /\ Len(f) = Len(s) - 1
      /\ \A k \in 1 .. Len(s) - 1 : f[k] = s[k]
  BY Pop DEF StackInv
<1>3. /\ Depth(t) \in Int /\ Depth(m) \in Int /\ Braces(lines[m]) \in Int
      /\ Depth(m + 1) = Depth(m) + Braces(lines[m]) /\ Depth(m + 1) >= Depth(t)
  BY <1>1, DepthStays
<1>4. \A k \in 1 .. Len(s) - 1 : s[k].linenum \in OpenBefore(m + 1) /\ Told(s[k], m + 1)
  BY OutsideKept
<1> HIDE DEF t
<1>5. Depth(m + 1) = Depth(t)
  BY <1>1, <1>3 DEF t
<1>6. t \notin OpenBefore(m + 1)
  <2>1. t < m
    BY <1>1, Open
  <2> QED
    BY <1>3, <1>5, <2>1, OpenNext
<1> HIDE DEF f
<1>7. \A k \in 1 .. Len(s) : k \in 1 .. Len(s) - 1 \/ k = Len(s)
  BY <1>1
<1>8. \A c : c \in OpenBefore(m + 1) <=> c \in OpenBefore(m) /\ c # t
  <2> TAKE c
  <2>1. ASSUME c \in OpenBefore(m), c # t
        PROVE  c \in OpenBefore(m + 1)
    <3>1. PICK k \in 1 .. Len(s) : s[k].linenum = c
      BY <2>1, Zenon DEF StackInv
    <3> QED
      BY <1>1, <1>4, <1>7, <2>1, <3>1, Zenon DEF t
  <2>2. ASSUME c \in OpenBefore(m + 1)
        PROVE  c \in OpenBefore(m)
    <3>1. c # m
      BY <2>2, OpenNext
    <3> QED
      BY <2>2, <3>1, OpenNext
  <2> QED
    BY <1>6, <2>1, <2>2
<1>9. StackInv(f, m + 1)
  <2>1. ASSUME NEW c \in OpenBefore(m + 1)
        PROVE  \E k \in 1 .. Len(f) : f[k].linenum = c
    <3>1. PICK k \in 1 .. Len(s) : s[k].linenum = c
      BY <1>8, Zenon DEF StackInv
    <3>2. k \in 1 .. Len(s) - 1
      BY <1>1, <1>7, <1>8, <3>1 DEF t
    <3> QED
      BY <1>2, <3>1, <3>2, Zenon
  <2>2. \A k \in 1 .. Len(f) : f[k].linenum \in OpenBefore(m + 1) /\ Told(f[k], m + 1)
    BY <1>2, <1>4, Zenon
  <2> QED
    BY <1>2, <1>5, <2>1, <2>2, Zenon DEF StackInv
<1>10. NeedsDestructor(new) <=> Lacks(t)
  <2>1. t \in Nat /\ BodyOf(t) \in t .. m
    BY <1>0, <1>1, OpenDepths
  <2>2. BodyOf(t) < m + 1
    BY <1>0, <2>1
  <2> QED
    BY <1>0, <1>6, <2>2, NeedsIsLacks DEF t
<1>11. {c \in OpenBefore(m) \ OpenBefore(m + 1) : Lacks(c)} = IF NeedsDestructor(new) THEN {t} ELSE {}
  BY <1>1, <1>6, <1>8, <1>10
<1>12. JudgedBefore(m + 1) = JudgedBefore(m) \cup IF NeedsDestructor(new) THEN {t} ELSE {}
  BY <1>11, JudgedNext
<1> QED
  BY <1>9, <1>12 DEF f, t

(* _ClassInfo.                                                             *)
LEMMA NewClass ==
  ASSUME LinesInv, NEW m \in 0 .. LineCount - 1
  PROVE  LET x == _ClassInfo(lines, m)
         IN  /\ x \in ClassInfos /\ x.linenum = m /\ ~ x.seen_open_brace /\ ~ x.is_derived
             /\ ~ x.virtual_method /\ ~ x.has_virtual_destructor /\ x.brace_depth = 0
             /\ x.last_line = LastLine(lines, m)
<1> DEFINE ends == {l \in DOMAIN lines : l >= m /\ BracesWithin(lines, m, l) = 0}
           last == LastLine(lines, m)
<1>1. m \in Nat /\ ends \subseteq Nat
  BY DEF LinesInv
<1>2. last \in Nat
  <2>1. last = IF ends = {} THEN 0 ELSE Min(ends)
    BY Zenon DEF LastLine
  <2> HIDE DEF ends, last
  <2>2. ends # {} => Min(ends) \in ends
    BY <1>1, MinIsLeast
  <2> QED
    BY <1>1, <2>1, <2>2
<1>3. _ClassInfo(lines, m) =
        [linenum |-> m, seen_open_brace |-> FALSE, is_derived |-> FALSE, virtual_method |-> FALSE,
         has_virtual_destructor |-> FALSE, brace_depth |-> 0, last_line |-> last]
  BY Zenon DEF _ClassInfo
<1> HIDE DEF last
<1>4. _ClassInfo(lines, m) \in ClassInfos
  BY <1>1, <1>2, <1>3 DEF ClassInfos
<1>5. /\ _ClassInfo(lines, m).linenum = m /\ _ClassInfo(lines, m).seen_open_brace = FALSE
      /\ _ClassInfo(lines, m).is_derived = FALSE /\ _ClassInfo(lines, m).virtual_method = FALSE
      /\ _ClassInfo(lines, m).has_virtual_destructor = FALSE
      /\ _ClassInfo(lines, m).brace_depth = 0 /\ _ClassInfo(lines, m).last_line = last
  BY <1>3
<1> QED
  BY <1>4, <1>5, Zenon DEF last

(* A line that declares a class.                                           *)
LEMMA ClassDeclared ==
  ASSUME LinesInv, WellFormed, NEW m \in 0 .. LineCount - 1, DeclaresClass(lines[m]),
         StackInv(classinfo_stack, m), virtuals = JudgedBefore(m),
         Track(Append(classinfo_stack, _ClassInfo(lines, m)), lines[m])
  PROVE  StackInv(classinfo_stack', m + 1) /\ virtuals' = JudgedBefore(m + 1)
<1> DEFINE s == classinfo_stack
           x == _ClassInfo(lines, m)
           line == lines[m]
<1>1. /\ x \in ClassInfos /\ x.linenum = m /\ ~ x.seen_open_brace /\ ~ x.is_derived
      /\ ~ x.virtual_method /\ ~ x.has_virtual_destructor /\ x.brace_depth = 0
      /\ x.last_line = LastLine(lines, m)
  BY NewClass
<1>2. Nested(s, Depth(m)) /\ s \in Seq(ClassInfos)
  BY DEF StackInv, Nested
<1> HIDE DEF x
<1>3. Append(s, x) \in Seq(ClassInfos) /\ Append(s, x) # <<>> /\ Last(Append(s, x)) = x
      /\ Front(Append(s, x)) = s /\ Len(s) \in Nat
  <2> HIDE DEF ClassInfos
  <2> QED
    BY <1>1, <1>2, FrontOfAppend
<1>4. IsLine(line) /\ Braces(line) \in Int
  BY DepthsRead
<1>5. CASE m \notin Heads
  <2>1. m \in DOMAIN lines
    BY DEF LinesInv
  <2>2. Braces(line) = 0 /\ HasSemicolon(line)
    <3>1. HasSemicolon(line)
      BY <1>5, <2>1, Zenon DEF Heads
    <3> QED
      BY <2>1, <3>1, Zenon DEF WellFormed
  <2>3. classinfo_stack' = s /\ virtuals' = virtuals
    BY <1>1, <1>3, <1>4, <2>2, Tracked, Zenon DEF x
  <2>4. StackInv(s, m + 1) /\ JudgedBefore(m + 1) = JudgedBefore(m)
    BY <1>5, <2>2, StackKept
  <2> QED
    BY <2>3, <2>4
<1>6. CASE m \in Heads
  <2> DEFINE new == IF EndsHead(line) THEN Inside(x, line) ELSE InHead(x, line)
  <2>1. \/ EndsHead(line) /\ Braces(line) = 1 /\ BodyOf(m) = m
        \/ ~ EndsHead(line) /\ BeginsHead(line) /\ Braces(line) = 0 /\ BodyOf(m) = m + 1
    <3>1. \/ EndsHead(line) /\ Braces(line) = 1 /\ BodyOf(m) = m
          \/ BeginsHead(line) /\ Braces(line) = 0 /\ BodyOf(m) = m + 1
      BY <1>6, HeadOfClass
    <3>2. BeginsHead(line) => ~ EndsHead(line)
      BY <1>4, BraceEndsHead, Zenon DEF BeginsHead
    <3> QED
      BY <3>1, <3>2
  <2>2. ~ DeclaresVirtual(line) /\ ~ IsDestructor(line)
    <3>1. ~ DeclaresVirtual(line)
      BY <1>4, LinesOfMethods, Zenon
    <3> QED
      BY <3>1, Zenon DEF DeclaresVirtual, IsDestructor
  <2>3. Derived(x, line) <=> HasColon(line)
    BY <1>1, Zenon DEF Derived
  <2>4. /\ new \in ClassInfos /\ new.linenum = m /\ new.last_line = LastLine(lines, m)
        /\ new.seen_open_brace <=> BodyOf(m) = m
        /\ new.is_derived <=> HasColon(line)
        /\ ~ new.virtual_method /\ ~ new.has_virtual_destructor
    <3>1. m # m + 1
      BY DEF LinesInv
    <3>2. CASE EndsHead(line)
      <4>1. new = Inside(x, line) /\ BodyOf(m) = m
        BY <2>1, <3>2
      <4> HIDE DEF new, line
      <4> QED
        BY <1>1, <1>4, <2>2, <2>3, <4>1, FieldsOfClass, Zenon
    <3>3. CASE ~ EndsHead(line)
      <4>1. new = InHead(x, line) /\ BodyOf(m) # m
        BY <2>1, <3>1, <3>3
      <4> HIDE DEF new, line
      <4> QED
        BY <1>1, <1>4, <2>2, <2>3, <4>1, FieldsOfClass, Zenon
    <3> QED
      BY <3>2, <3>3
  <2>5. new.brace_depth = Braces(line)
    <3>1. Inside(x, line).brace_depth = 0 + Braces(line) /\ InHead(x, line).brace_depth = 0
      BY <1>1, <1>4, FieldsOfClass
    <3> QED
      BY <1>4, <2>1, <3>1
  <2>6. classinfo_stack' = Append(s, new) /\ virtuals' = virtuals
    <3>1. CASE EndsHead(line)
      <4>1. ~ (Inside(x, line).brace_depth <= 0)
        BY <2>1, <2>5, <3>1
      <4> QED
        BY <1>3, <1>4, <3>1, <4>1, Tracked, Zenon DEF x
    <3>2. CASE ~ EndsHead(line)
      <4>1. BeginsHead(line)
        BY <2>1, <3>2
      <4> QED
        BY <1>1, <1>3, <1>4, <3>2, <4>1, Tracked, Zenon DEF x
    <3> QED
      BY <3>1, <3>2
  <2> HIDE DEF new
  <2>7. Told(new, m + 1)
    BY <1>6, <2>4, ToldFirst
  <2>8. StackInv(Append(s, new), m + 1) /\ JudgedBefore(m + 1) = JudgedBefore(m)
    BY <1>6, <2>4, <2>5, <2>7, StackPushed
  <2> QED
    BY <2>6, <2>8
<1> QED
  BY <1>5, <1>6

(* A line that declares no class, with the class on top of the stack.       *)
LEMMA ClassRead ==
  ASSUME LinesInv, WellFormed, NEW m \in 0 .. LineCount - 1, ~ DeclaresClass(lines[m]),
         classinfo_stack # <<>>, StackInv(classinfo_stack, m), virtuals = JudgedBefore(m),
         Track(classinfo_stack, lines[m])
  PROVE  StackInv(classinfo_stack', m + 1) /\ virtuals' = JudgedBefore(m + 1)
<1> DEFINE s == classinfo_stack
           top == Last(s)
           line == lines[m]
           new == Inside(top, line)
<1>0. m \in 0 .. LineCount /\ m \in Nat
  BY DEF LinesInv
<1>1. /\ Len(s) \in Nat \ {0} /\ top \in ClassInfos /\ top.linenum \in OpenBefore(m)
      /\ Told(top, m) /\ Innermost(m) = top.linenum
  BY <1>0, TopIsInnermost
<1>2. m \notin Heads
  BY HeadOfClass
<1>3. IsLine(line) /\ Braces(line) \in Int
  BY DepthsRead
<1>4. top.seen_open_brace \/ EndsHead(line)
  <2>1. /\ top.linenum \in Nat /\ BodyOf(top.linenum) \in top.linenum .. m
        /\ top.linenum \in Heads /\ top.linenum < m
    BY <1>0, <1>1, OpenDepths
  <2>2. top.seen_open_brace <=> BodyOf(top.linenum) < m
    BY <1>1, Zenon DEF Told
  <2>3. CASE BodyOf(top.linenum) = m
    <3>1. \/ BodyOf(top.linenum) = top.linenum
          \/ BodyOf(top.linenum) = top.linenum + 1 /\ EndsHead(lines[top.linenum + 1])
      BY <2>1, HeadOfClass
    <3>2. top.linenum + 1 = m /\ EndsHead(lines[top.linenum + 1])
      BY <1>0, <2>1, <2>3, <3>1
    <3> QED
      BY <3>2
  <2>4. BodyOf(top.linenum) < m \/ BodyOf(top.linenum) = m
    BY <1>0, <2>1
  <2> QED
    BY <2>2, <2>3, <2>4, Zenon
<1>5. IF new.brace_depth <= 0
        THEN /\ classinfo_stack' = Front(s)
             /\ virtuals' = IF NeedsDestructor(new) THEN virtuals \cup {new.linenum} ELSE virtuals
        ELSE classinfo_stack' = Append(Front(s), new) /\ virtuals' = virtuals
  BY <1>3, <1>4, Tracked, Zenon
<1>6. /\ new \in ClassInfos /\ new.linenum = top.linenum /\ new.last_line = top.last_line
      /\ new.seen_open_brace <=> TRUE
      /\ new.is_derived <=> top.is_derived \/ (~ top.seen_open_brace /\ HasColon(line))
      /\ new.virtual_method <=> top.virtual_method \/ DeclaresVirtual(line)
      /\ new.has_virtual_destructor <=> top.has_virtual_destructor \/ IsDestructor(line)
      /\ new.brace_depth = top.brace_depth + Braces(line)
  <2> HIDE DEF top, line
  <2> QED
    BY <1>1, <1>3, FieldsOfClass, Zenon DEF Derived
<1> HIDE DEF new, top, s
<1>7. Told(new, m + 1)
  BY <1>1, <1>6, ToldNext
<1>8. new.brace_depth \in Int
  BY <1>6 DEF ClassInfos
<1>9. CASE new.brace_depth > 0
  <2>1. StackInv(Append(Front(s), new), m + 1) /\ JudgedBefore(m + 1) = JudgedBefore(m)
    BY <1>2, <1>6, <1>7, <1>9, StackRead DEF s, top
  <2>2. classinfo_stack' = Append(Front(s), new) /\ virtuals' = virtuals
    BY <1>5, <1>8, <1>9
  <2> QED
    BY <2>1, <2>2
<1>10. CASE new.brace_depth <= 0
  <2>1. /\ StackInv(Front(s), m + 1)
        /\ JudgedBefore(m + 1)
             = IF NeedsDestructor(new) THEN JudgedBefore(m) \cup {new.linenum} ELSE JudgedBefore(m)
    BY <1>2, <1>6, <1>7, <1>10, StackPopped DEF s, top
  <2> QED
    BY <1>5, <1>10, <2>1
<1> QED
  BY <1>8, <1>9, <1>10

(* CheckForNonStandardConstructs, for any line.                             *)
LEMMA ClassLine ==
  ASSUME LinesInv, WellFormed, NEW m \in 0 .. LineCount - 1,
         StackInv(classinfo_stack, m), virtuals = JudgedBefore(m),
         CheckForNonStandardConstructs(lines, m)
  PROVE  StackInv(classinfo_stack', m + 1) /\ virtuals' = JudgedBefore(m + 1)
<1> DEFINE x == _ClassInfo(lines, m)
<1>1. classinfo_stack \in Seq(ClassInfos)
  BY DEF StackInv, Nested
<1>2. CASE DeclaresClass(lines[m])
  <2>1. Append(classinfo_stack, x) # <<>>
    <3>1. x \in ClassInfos
      BY NewClass
    <3> HIDE DEF x, ClassInfos
    <3> QED
      BY <1>1, <3>1, FrontOfAppend
  <2>2. Track(Append(classinfo_stack, x), lines[m])
    BY <1>2, <2>1, Zenon DEF CheckForNonStandardConstructs
  <2> QED
    BY <1>2, <2>2, ClassDeclared
<1>3. CASE ~ DeclaresClass(lines[m]) /\ classinfo_stack # <<>>
  <2>1. Track(classinfo_stack, lines[m])
    BY <1>3, Zenon DEF CheckForNonStandardConstructs
  <2> QED
    BY <1>3, <2>1, ClassRead
<1>4. CASE ~ DeclaresClass(lines[m]) /\ classinfo_stack = <<>>
  <2>1. classinfo_stack' = classinfo_stack /\ virtuals' = virtuals
    BY <1>4, Zenon DEF CheckForNonStandardConstructs
  <2>2. Len(classinfo_stack) = 0 /\ Len(classinfo_stack) \notin 1 .. Len(classinfo_stack)
    BY <1>4
  <2>3. OpenBefore(m) = {}
    <3>1. \A k : k \notin 1 .. Len(classinfo_stack)
      BY <2>2
    <3> QED
      BY <3>1, Zenon DEF StackInv
  <2>4. m \notin Heads
    BY <1>4, HeadOfClass
  <2>5. ASSUME NEW c \in OpenBefore(m + 1)
        PROVE  FALSE
    <3>1. c # m
      BY <2>4, <2>5, OpenNext
    <3>2. c \in OpenBefore(m)
      BY <2>5, <3>1, OpenNext
    <3> QED
      BY <2>3, <3>2
  <2>6. JudgedBefore(m + 1) = JudgedBefore(m)
    <3>1. {c \in OpenBefore(m) \ OpenBefore(m + 1) : Lacks(c)} = {}
      BY <2>3
    <3> QED
      BY <3>1, JudgedNext
  <2>7. StackInv(classinfo_stack, m + 1)
    BY <1>1, <2>2, <2>5 DEF StackInv, Nested
  <2> QED
    BY <2>1, <2>6, <2>7
<1> QED
  BY <1>2, <1>3, <1>4

(* What lines alone say of classes stays while they do.                    *)
LEMMA SameClasses ==
  ASSUME lines' = lines
  PROVE  /\ WellFormed' <=> WellFormed
         /\ \A k, s : (n' = k /\ classinfo_stack' = s) =>
              /\ StackInv(classinfo_stack, n)' <=> StackInv(s, k)
              /\ JudgedBefore(n)' = JudgedBefore(k)
              /\ OpenBefore(n)' = OpenBefore(k)
<1>1. Heads' = Heads
  BY DEF Heads
<1>2. \A l : BodyOf(l)' = BodyOf(l)
  BY DEF BodyOf
<1>3. WellFormed' <=> WellFormed
  BY <1>1, <1>2 DEF WellFormed
<1>4. \A l : Depth(l)' = Depth(l)
  BY DEF Depth
<1>5. \A l : OpenBefore(l)' = OpenBefore(l)
  BY <1>1, <1>2 DEF OpenBefore
<1>6. \A c : LinesOf(c)' = LinesOf(c)
  BY <1>5 DEF LinesOf, Innermost
<1>7. \A c : Lacks(c)' <=> Lacks(c)
  BY <1>2, <1>6 DEF Lacks, HasBase
<1>8. \A info, m : Told(info, m)' <=> Told(info, m)
  BY <1>1, <1>2, <1>6 DEF Told
<1>9. ASSUME NEW k, NEW s, n' = k, classinfo_stack' = s
      PROVE  /\ StackInv(classinfo_stack, n)' <=> StackInv(s, k)
             /\ JudgedBefore(n)' = JudgedBefore(k)
             /\ OpenBefore(n)' = OpenBefore(k)
  <2>1. OpenBefore(n)' = OpenBefore(k)
    BY <1>1, <1>2, <1>9 DEF OpenBefore
  <2>2. JudgedBefore(n)' = JudgedBefore(k)
    BY <1>1, <1>7, <1>9, <2>1 DEF JudgedBefore
  <2>3. \A i : Told(classinfo_stack[i], n)' <=> Told(s[i], k)
    BY <1>1, <1>2, <1>6, <1>9 DEF Told
  <2>4. Nested(classinfo_stack, Depth(n))' <=> Nested(s, Depth(k))
    BY <1>4, <1>9 DEF Nested, Depth
  <2>5. StackInv(classinfo_stack, n)' <=> StackInv(s, k)
    BY <1>9, <2>1, <2>3, <2>4 DEF StackInv
  <2> QED
    BY <2>1, <2>2, <2>5
<1> QED
  BY <1>3, <1>9

(* Before the first line there is no class.                                *)
LEMMA NoClasses ==
  LinesInv /\ classinfo_stack = <<>> /\ n = 0 =>
    StackInv(classinfo_stack, n) /\ JudgedBefore(n) = {}
<1> SUFFICES ASSUME LinesInv, classinfo_stack = <<>>, n = 0
             PROVE  StackInv(classinfo_stack, n) /\ JudgedBefore(n) = {}
  OBVIOUS
<1>1. \A c \in Heads : ~ (c < 0)
  <2>1. \A c \in Heads : c \in DOMAIN lines
    BY Zenon DEF Heads
  <2> QED
    BY <2>1 DEF LinesInv
<1>2. JudgedBefore(n) = {}
  BY <1>1 DEF JudgedBefore
<1>3. OpenBefore(n) = {}
  BY <1>1 DEF OpenBefore
<1>4. Nested(classinfo_stack, Depth(n))
  BY DEF Nested
<1> QED
  BY <1>2, <1>3, <1>4 DEF StackInv

(* The outermost class is at the bottom of the stack.                       *)
LEMMA BottomOfStack ==
  ASSUME LinesInv, WellFormed, NEW m \in 0 .. LineCount, StackInv(classinfo_stack, m)
  PROVE  (IF classinfo_stack = <<>> THEN 0 ELSE classinfo_stack[1].linenum)
           = IF OpenBefore(m) = {} THEN 0 ELSE Min(OpenBefore(m))
<1> DEFINE s == classinfo_stack
<1>1. s \in Seq(ClassInfos)
  BY DEF StackInv, Nested
<1>2. OpenBefore(m) \subseteq Nat
  BY OpenDepths
<1>3. CASE s = <<>>
  <2>1. \A k : k \notin 1 .. Len(s)
    BY <1>3
  <2>2. OpenBefore(m) = {}
    BY <2>1, Zenon DEF StackInv
  <2> QED
    BY <1>3, <2>2
<1>4. CASE s # <<>>
  <2>1. Len(s) \in Nat /\ 1 \in 1 .. Len(s) /\ \A k \in 1 .. Len(s) : k = 1 \/ 1 < k
    <3> HIDE DEF ClassInfos
    <3> QED
      BY <1>1, <1>4
  <2>2. s[1].linenum \in OpenBefore(m)
    BY <2>1, Zenon DEF StackInv
  <2>3. ASSUME NEW c \in OpenBefore(m)
        PROVE  s[1].linenum <= c
    <3>1. PICK k \in 1 .. Len(s) : s[k].linenum = c
      BY Zenon DEF StackInv
    <3>2. k = 1 \/ s[1].linenum < s[k].linenum
      BY <2>1 DEF StackInv, Nested
    <3> QED
      BY <1>2, <2>2, <3>1, <3>2
  <2>4. Min(OpenBefore(m)) \in OpenBefore(m) /\ \A c \in OpenBefore(m) : Min(OpenBefore(m)) <= c
    BY <1>2, <2>2, MinIsLeast
  <2>5. Min(OpenBefore(m)) = s[1].linenum
    BY <1>2, <2>2, <2>3, <2>4
  <2> QED
    BY <1>4, <2>2, <2>5
<1> QED
  BY <1>3, <1>4

(* Only ProcessLine and FinishLine look at the lines of classes.            *)
LEMMA ClassesStep ==
  ASSUME LinesInv, PhaseInv, ClassesInv, [Next]_vars
  PROVE  ClassesInv'
<1>0. LinesInv' /\ LineCount \in Nat /\ n \in 0 .. LineCount
  BY LinesStep DEF LinesInv, PhaseInv
<1>1. CASE ClearComments
  <2>1. /\ n = 0 /\ n' = 0 /\ phase = "comments" /\ phase' \in {"comments", "lines"}
        /\ classinfo_stack' = classinfo_stack /\ virtuals' = virtuals
    BY <1>1 DEF ClearComments, PhaseInv, classVars
  <2>2. classinfo_stack' = <<>> /\ virtuals' = {}
    BY <2>1 DEF ClassesInv
  <2>3. (LinesInv /\ classinfo_stack = <<>> /\ n = 0 =>
           StackInv(classinfo_stack, n) /\ JudgedBefore(n) = {})'
    BY NoClasses, PTL
  <2> QED
    BY <1>0, <2>1, <2>2, <2>3 DEF ClassesInv
<1>2. CASE ProcessLine \/ FinishLine
  <2>1. /\ n \in 0 .. LineCount - 1 /\ n' = n + 1 /\ lines' = lines
        /\ phase \in {"lines", "joining"} /\ phase' = "lines"
        /\ CheckForNonStandardConstructs(lines, n)
    BY <1>0, <1>2 DEF ProcessLine, FinishLine, RestOfLine, ProcessClassLine, commentVars, PhaseInv,
      LinesInv
  <2>2. SUFFICES ASSUME WellFormed
                 PROVE  StackInv(classinfo_stack, n)' /\ virtuals' = JudgedBefore(n)'
    BY <2>1, SameClasses DEF ClassesInv
  <2>3. StackInv(classinfo_stack, n) /\ virtuals = JudgedBefore(n)
    BY <2>1, <2>2 DEF ClassesInv
  <2>4. StackInv(classinfo_stack', n + 1) /\ virtuals' = JudgedBefore(n + 1)
    BY <2>1, <2>2, <2>3, ClassLine
  <2> QED
    BY <2>1, <2>4, SameClasses
<1>3. CASE EndLines
  <2>1. /\ n' = n /\ lines' = lines /\ phase = "lines" /\ phase' = "includes"
        /\ classinfo_stack' = classinfo_stack /\ virtuals' = virtuals
        /\ unfinished' = IF classinfo_stack = <<>> THEN 0 ELSE classinfo_stack[1].linenum
    BY <1>3 DEF EndLines, CheckFinished, commentVars
  <2>2. SUFFICES ASSUME WellFormed
                 PROVE  /\ StackInv(classinfo_stack, n)' /\ virtuals' = JudgedBefore(n)'
                        /\ unfinished' = IF OpenBefore(n)' = {} THEN 0 ELSE Min(OpenBefore(n)')
    BY <2>1, SameClasses DEF ClassesInv
  <2>3. StackInv(classinfo_stack, n) /\ virtuals = JudgedBefore(n)
    BY <2>1, <2>2 DEF ClassesInv
  <2>4. /\ StackInv(classinfo_stack, n)' /\ JudgedBefore(n)' = JudgedBefore(n)
        /\ OpenBefore(n)' = OpenBefore(n)
    BY <2>1, <2>3, SameClasses
  <2>5. unfinished' = IF OpenBefore(n) = {} THEN 0 ELSE Min(OpenBefore(n))
    BY <1>0, <2>1, <2>2, <2>3, BottomOfStack
  <2> QED
    BY <2>1, <2>3, <2>4, <2>5
<1>4. CASE Crash \/ BeginJoining \/ JoinPreviousLine \/ CheckForIncludeWhatYouUse \/ UNCHANGED vars
  <2>1. /\ n' = n /\ lines' = lines
        /\ classinfo_stack' = classinfo_stack /\ virtuals' = virtuals /\ unfinished' = unfinished
    BY <1>4 DEF Crash, BeginJoining, JoinPreviousLine, CheckForIncludeWhatYouUse, vars, commentVars,
      classVars
  <2>2. /\ phase' = "comments" <=> phase = "comments"
        /\ phase' \in {"includes", "linted"} => phase \in {"includes", "linted"}
    BY <1>4 DEF Crash, BeginJoining, JoinPreviousLine, CheckForIncludeWhatYouUse, vars
  <2>3. /\ WellFormed' <=> WellFormed
        /\ StackInv(classinfo_stack, n)' <=> StackInv(classinfo_stack, n)
        /\ JudgedBefore(n)' = JudgedBefore(n) /\ OpenBefore(n)' = OpenBefore(n)
    BY <2>1, SameClasses
  <2> QED
    BY <2>1, <2>2, <2>3 DEF ClassesInv
<1> QED
  BY <1>1, <1>2, <1>3, <1>4 DEF Next, ProcessFileData, Ended

(* The sections that have been reported when line m is reached.             *)
Spaced(l) ==
  /\ OpenBefore(l) # {}
  /\ LacksBlankLine(lines, l, Innermost(l), LastLine(lines, Innermost(l)))
SpacedBefore(m) == {l \in 0 .. m - 1 : Spaced(l)}
SpacingsInv ==
  /\ phase = "comments" => spacings = {}
  /\ phase # "comments" /\ WellFormed => spacings = SpacedBefore(n)

(* CheckSectionSpacing looks at the class on top of the stack.              *)
LEMMA SpacingsLine ==
  ASSUME LinesInv, WellFormed, NEW m \in 0 .. LineCount - 1,
         StackInv(classinfo_stack, m), spacings = SpacedBefore(m), ProcessClassLine(lines, m)
  PROVE  spacings' = SpacedBefore(m + 1)
<1> DEFINE s == classinfo_stack
<1>0. m \in Nat /\ m \in 0 .. LineCount
  BY DEF LinesInv
<1>1. SpacedBefore(m + 1) = IF Spaced(m) THEN SpacedBefore(m) \cup {m} ELSE SpacedBefore(m)
  <2>1. \A l : l \in 0 .. (m + 1) - 1 <=> l \in 0 .. m - 1 \/ l = m
    BY <1>0
  <2>2. \A l : l \in SpacedBefore(m + 1) <=> l \in SpacedBefore(m) \/ (l = m /\ Spaced(m))
    BY <2>1, Zenon DEF SpacedBefore
  <2> QED
    BY <2>2
<1>2. CASE s = <<>>
  <2>1. spacings' = spacings
    BY <1>2, Zenon DEF ProcessClassLine
  <2>2. \A k : k \notin 1 .. Len(s)
    BY <1>2
  <2>3. OpenBefore(m) = {}
    BY <2>2, Zenon DEF StackInv
  <2> QED
    BY <1>1, <2>1, <2>3 DEF Spaced
<1>3. CASE s # <<>>
  <2> DEFINE info == Last(s)
  <2>1. info.linenum \in OpenBefore(m) /\ Told(info, m) /\ Innermost(m) = info.linenum
    BY <1>0, <1>3, TopIsInnermost
  <2>2. info.last_line = LastLine(lines, info.linenum)
    BY <2>1, Zenon DEF Told
  <2>3. spacings' = IF LacksBlankLine(lines, m, info.linenum, info.last_line)
                      THEN spacings \cup {m} ELSE spacings
    BY <1>3, Zenon DEF ProcessClassLine, CheckSectionSpacing
  <2> HIDE DEF info
  <2>4. Spaced(m) <=> LacksBlankLine(lines, m, info.linenum, info.last_line)
    BY <2>1, <2>2, Zenon DEF Spaced
  <2> QED
    BY <1>1, <2>3, <2>4
<1> QED
  BY <1>2, <1>3

(* See SameClasses.                                                        *)
LEMMA SameSpacings ==
  ASSUME lines' = lines, NEW k, n' = k
  PROVE  SpacedBefore(n)' = SpacedBefore(k)
<1>1. Heads' = Heads /\ \A l : BodyOf(l)' = BodyOf(l)
  BY DEF Heads, BodyOf
<1>2. \A l : OpenBefore(l)' = OpenBefore(l)
  BY <1>1 DEF OpenBefore
<1>3. \A l : Spaced(l)' <=> Spaced(l)
  BY <1>2 DEF Spaced, Innermost
<1> QED
  BY <1>3 DEF SpacedBefore

(* Only ProcessLine and FinishLine look at sections.                        *)
LEMMA SpacingsStep ==
  ASSUME LinesInv, PhaseInv, ClassesInv, SpacingsInv, [Next]_vars
  PROVE  SpacingsInv'
<1>0. LineCount \in Nat /\ n \in 0 .. LineCount
  BY DEF LinesInv, PhaseInv
<1>1. CASE ClearComments
  <2>1. n' = 0 /\ phase = "comments" /\ spacings' = spacings
    BY <1>1 DEF ClearComments, PhaseInv, classVars
  <2>2. SpacedBefore(n)' = {}
    BY <2>1 DEF SpacedBefore
  <2> QED
    BY <2>1, <2>2 DEF SpacingsInv
<1>2. CASE ProcessLine \/ FinishLine
  <2>1. /\ n \in 0 .. LineCount - 1 /\ n' = n + 1 /\ lines' = lines
        /\ phase \in {"lines", "joining"} /\ phase' = "lines" /\ ProcessClassLine(lines, n)
    BY <1>0, <1>2 DEF ProcessLine, FinishLine, RestOfLine, commentVars, PhaseInv, LinesInv
  <2>2. SUFFICES ASSUME WellFormed
                 PROVE  spacings' = SpacedBefore(n)'
    BY <2>1, SameClasses DEF SpacingsInv
  <2>3. StackInv(classinfo_stack, n) /\ spacings = SpacedBefore(n)
    BY <2>1, <2>2 DEF ClassesInv, SpacingsInv
  <2>4. spacings' = SpacedBefore(n + 1)
    BY <2>1, <2>2, <2>3, SpacingsLine
  <2> QED
    BY <2>1, <2>4, SameSpacings
<1>3. CASE EndLines \/ Crash \/ BeginJoining \/ JoinPreviousLine \/ CheckForIncludeWhatYouUse
             \/ UNCHANGED vars
  <2>1. n' = n /\ lines' = lines /\ spacings' = spacings /\ (phase' = "comments" <=> phase = "comments")
    BY <1>3 DEF EndLines, CheckFinished, Crash, BeginJoining, JoinPreviousLine,
      CheckForIncludeWhatYouUse, vars, commentVars, classVars
  <2>2. (WellFormed' <=> WellFormed) /\ SpacedBefore(n)' = SpacedBefore(n)
    BY <2>1, SameClasses, SameSpacings
  <2> QED
    BY <2>1, <2>2 DEF SpacingsInv
<1> QED
  BY <1>1, <1>2, <1>3 DEF Next, ProcessFileData, Ended

(* A class has its keyword on the line that declares it.                    *)
LEMMA KeywordOfClass ==
  ASSUME NEW line, IsLine(line), DeclaresClass(line)
  PROVE  HasToken(line, "class") \/ HasToken(line, "struct")
<1> DEFINE t == Tokens(line)
           class == "class"
           struct == "struct"
<1>1. HasToken(line, "class") \/ HasToken(line, "struct") <=> Contains(t, class) \/ Contains(t, struct)
  BY Zenon DEF HasToken
<1>2. CASE line.is \in {"class A;", "class A", "class A {", "class B : A {"}
  <2> DEFINE semicolon == ";"
             open == "{"
             colon == ":"
  <2>1. \/ t = <<class, semicolon>> \/ t = <<class>> \/ t = <<class, open>>
        \/ t = <<class, colon, open>>
    BY <1>2, Zenon DEF Tokens, TokensOf, Sketches
  <2> HIDE DEF class, struct, semicolon, open, colon, t
  <2>2. Contains(t, class)
    BY <2>1 DEF Contains
  <2> QED
    BY <1>1, <2>2
<1>3. CASE /\ line.is = "code" /\ Len(line.tokens) >= 2
           /\ line.tokens[1] \in {"class", "struct"}
  <2>1. t = line.tokens /\ (t[1] = class \/ t[1] = struct)
    BY <1>3, Zenon DEF Tokens
  <2>2. Len(t) >= 2 /\ Len(t) \in Nat
    BY <1>3, <2>1, TokensOfLine
  <2> HIDE DEF class, struct, t
  <2>3. Contains(t, class) \/ Contains(t, struct)
    BY <2>1, <2>2 DEF Contains
  <2> QED
    BY <1>1, <2>3
<1> QED
  BY <1>2, <1>3, Zenon DEF DeclaresClass

(* A class is open up to its end.                                          *)
LEMMA EndOfClass ==
  ASSUME LinesInv, WellFormed, NEW l \in 0 .. LineCount - 1, NEW c \in OpenBefore(l)
  PROVE  /\ EndOf(c) \in l .. LineCount - 1 /\ c \in OpenBefore(EndOf(c))
         /\ c \in OpenBefore(LineCount) => EndOf(c) = LineCount - 1
         /\ c \notin OpenBefore(LineCount) => c \notin OpenBefore(EndOf(c) + 1)
<1> DEFINE S == {k \in DOMAIN lines : c \in OpenBefore(k)}
           e == EndOf(c)
<1>0. LineCount \in Nat /\ DOMAIN lines = 0 .. LineCount - 1
  BY DEF LinesInv
<1>1. l \in S /\ S \subseteq Nat /\ \A k \in S : k <= LineCount - 1
  BY <1>0
<1>2. e = Max(S)
  BY Zenon DEF EndOf
<1>3. \A k : k \in S <=> k \in 0 .. LineCount - 1 /\ c \in OpenBefore(k)
  BY <1>0
<1> HIDE DEF S, e
<1>4. e \in S /\ \A k \in S : k <= e
  <2>1. LineCount - 1 \in Nat /\ S \subseteq 0 .. LineCount - 1 /\ S # {}
    BY <1>0, <1>1, <1>3
  <2>2. Max(S) \in S /\ \A k \in S : k <= Max(S)
    BY <2>1, MaxIsGreatest
  <2> QED
    BY <1>1, <1>2, <2>2
<1>5. e \in l .. LineCount - 1 /\ c \in OpenBefore(e)
  BY <1>0, <1>1, <1>3, <1>4
<1>6. ASSUME c \in OpenBefore(LineCount)
      PROVE  e = LineCount - 1
  <2>1. l <= LineCount - 1 /\ LineCount - 1 \in 0 .. LineCount /\ c < l /\ c \in Nat
    <3>1. c < l /\ c \in Heads
      BY Open
    <3>2. c \in Nat
      BY <3>1, HeadOfClass
    <3> QED
      BY <1>0, <3>1, <3>2
  <2>2. c < LineCount - 1
    BY <1>0, <2>1
  <2>3. c \in OpenBefore(LineCount - 1)
    BY <1>0, <1>6, <2>1, <2>2, OpenBetween
  <2>4. LineCount - 1 \in S
    BY <1>0, <1>3, <2>1, <2>3
  <2>5. LineCount - 1 <= e
    BY <1>4, <2>4
  <2> QED
    BY <1>0, <1>5, <2>5
<1>7. ASSUME c \notin OpenBefore(LineCount)
      PROVE  c \notin OpenBefore(e + 1)
  <2>1. CASE e + 1 = LineCount
    BY <1>7, <2>1
  <2>2. CASE e + 1 # LineCount
    <3>1. e + 1 \in 0 .. LineCount - 1 /\ ~ (e + 1 <= e)
      BY <1>0, <1>5, <2>2
    <3>2. e + 1 \notin S
      BY <1>4, <3>1
    <3> QED
      BY <1>3, <3>1, <3>2
  <2> QED
    BY <2>1, <2>2
<1> QED
  BY <1>5, <1>6, <1>7 DEF e

(* Where the look-ahead of _ClassInfo ends, if no string in the class holds *)
(* a brace: where the class does, but on its first line if the brace is on  *)
(* the next, and nowhere if the class is not closed.                        *)
LEMMA LastLineOfClass ==
  ASSUME LinesInv, WellFormed, NEW l \in 0 .. LineCount - 1, NEW c \in OpenBefore(l),
         \A k \in c .. EndOf(c) : QuotedBraces(lines[k]) = 0
  PROVE  /\ BodyOf(c) # c => LastLine(lines, c) = c
         /\ BodyOf(c) = c /\ c \in OpenBefore(LineCount) => LastLine(lines, c) = 0
         /\ BodyOf(c) = c /\ c \notin OpenBefore(LineCount) => LastLine(lines, c) = EndOf(c)
<1> DEFINE ends == {k \in DOMAIN lines : k >= c /\ BracesWithin(lines, c, k) = 0}
           e == EndOf(c)
<1>0. /\ LineCount \in Nat /\ DOMAIN lines = 0 .. LineCount - 1
      /\ \A k \in 0 .. LineCount : Depth(k) \in Int
  BY DepthsRead DEF LinesInv
<1>1. c \in Heads /\ c < l
  BY Open
<1>2. c \in Nat /\ c \in 0 .. LineCount - 1 /\ c \in 0 .. LineCount
  BY <1>0, <1>1, HeadOfClass
<1>3. e \in l .. LineCount - 1 /\ e \in c .. LineCount - 1 /\ c < e /\ e \in Nat
  <2>1. e \in l .. LineCount - 1
    BY EndOfClass
  <2> HIDE DEF e
  <2> QED
    BY <1>0, <1>1, <1>2, <2>1
<1>4. LastLine(lines, c) = IF ends = {} THEN 0 ELSE Min(ends)
  BY Zenon DEF LastLine
<1>5. \A k \in c .. e : BracesWithin(lines, c, k) = Depth(k + 1) - Depth(c)
  <2> HIDE DEF e
  <2> QED
    BY <1>2, <1>3, BracesSeen DEF e
<1>6. \A k : k \in ends <=> k \in 0 .. LineCount - 1 /\ k >= c /\ BracesWithin(lines, c, k) = 0
  BY <1>0
<1>7. \A k \in BodyOf(c) + 1 .. e : Depth(k) > Depth(c)
  <2>1. c \in OpenBefore(e)
    BY EndOfClass
  <2> QED
    BY <2>1, Open
<1>8. c \notin OpenBefore(LineCount) => Depth(e + 1) = Depth(c)
  <2> SUFFICES ASSUME c \notin OpenBefore(LineCount)
               PROVE  Depth(e + 1) = Depth(c)
    OBVIOUS
  <2>1. c \in OpenBefore(e) /\ c \notin OpenBefore(e + 1)
    BY EndOfClass
  <2> HIDE DEF e
  <2>2. e \in 0 .. LineCount - 1 /\ e + 1 \in 0 .. LineCount
    BY <1>0, <1>3
  <2>3. ~ (Depth(e + 1) > Depth(c))
    BY <1>3, <2>1, <2>2, OpenNext
  <2>4. Depth(e + 1) >= Depth(c)
    BY <2>1, <2>2, DepthStays
  <2> QED
    BY <1>0, <1>2, <2>2, <2>3, <2>4
<1> HIDE DEF ends, e
<1>9. ASSUME BodyOf(c) # c
      PROVE  LastLine(lines, c) = c
  <2>1. Braces(lines[c]) = 0
    BY <1>1, <1>9, HeadOfClass
  <2>2. Depth(c + 1) = Depth(c) + 0
    BY <1>2, <2>1, DepthsRead
  <2>3. c \in ends
    BY <1>0, <1>2, <1>3, <1>5, <1>6, <2>2
  <2>4. ends \subseteq Nat /\ \A k \in ends : c <= k
    BY <1>0, <1>2, <1>6
  <2>5. Min(ends) \in ends /\ \A k \in ends : Min(ends) <= k
    BY <2>3, <2>4, MinIsLeast
  <2>6. Min(ends) \in Nat /\ Min(ends) <= c /\ c <= Min(ends)
    BY <2>3, <2>4, <2>5
  <2>7. Min(ends) = c
    BY <1>2, <2>6
  <2> QED
    BY <1>4, <2>3, <2>7
<1>10. ASSUME BodyOf(c) = c, c \in OpenBefore(LineCount)
       PROVE  LastLine(lines, c) = 0
  <2>1. e = LineCount - 1
    BY <1>10, EndOfClass DEF e
  <2>2. \A k \in BodyOf(c) + 1 .. LineCount : Depth(k) > Depth(c)
    BY <1>10, Open
  <2>3. ASSUME NEW k \in ends
        PROVE  FALSE
    <3>1. k \in c .. e /\ k + 1 \in c + 1 .. LineCount /\ k + 1 \in 0 .. LineCount
      BY <1>0, <1>2, <1>6, <2>1
    <3>2. Depth(k + 1) > Depth(c) /\ BracesWithin(lines, c, k) = Depth(k + 1) - Depth(c)
      BY <1>5, <1>10, <2>2, <3>1
    <3>3. BracesWithin(lines, c, k) = 0
      BY <1>6
    <3> QED
      BY <1>0, <1>2, <3>1, <3>2, <3>3
  <2> QED
    BY <1>4, <2>3
<1>11. ASSUME BodyOf(c) = c, c \notin OpenBefore(LineCount)
       PROVE  LastLine(lines, c) = e
  <2>1. Depth(e + 1) = Depth(c)
    BY <1>8, <1>11
  <2>2. e \in ends
    <3>1. e \in c .. e /\ e \in 0 .. LineCount - 1 /\ e >= c /\ e + 1 \in 0 .. LineCount
      BY <1>0, <1>2, <1>3
    <3>2. BracesWithin(lines, c, e) = Depth(e + 1) - Depth(c) /\ Depth(c) \in Int
      BY <1>0, <1>2, <1>5, <3>1
    <3> QED
      BY <1>6, <2>1, <3>1, <3>2
  <2>3. ASSUME NEW k \in ends
        PROVE  e <= k
    <3> SUFFICES ASSUME ~ (e <= k)
                 PROVE  FALSE
      OBVIOUS
    <3>1. k \in 0 .. LineCount - 1 /\ k >= c /\ BracesWithin(lines, c, k) = 0
      BY <1>6
    <3>2. k \in c .. e /\ k + 1 \in c + 1 .. e /\ k + 1 \in 0 .. LineCount
      BY <1>0, <1>2, <1>3, <3>1
    <3>3. Depth(k + 1) > Depth(c) /\ BracesWithin(lines, c, k) = Depth(k + 1) - Depth(c)
      BY <1>5, <1>7, <1>11, <3>2
    <3> QED
      BY <1>0, <1>2, <3>1, <3>2, <3>3
  <2>4. ends \subseteq Nat
    BY <1>0, <1>2, <1>6
  <2>5. Min(ends) \in ends /\ \A k \in ends : Min(ends) <= k
    BY <2>2, <2>4, MinIsLeast
  <2>6. Min(ends) \in Nat /\ Min(ends) <= e /\ e <= Min(ends)
    BY <2>2, <2>3, <2>4, <2>5
  <2>7. Min(ends) = e
    BY <1>3, <2>6
  <2> QED
    BY <1>4, <2>2, <2>7
<1> QED
  BY <1>9, <1>10, <1>11 DEF e

(* The line before a section is not the one of its class, if that has none  *)
(* of the keywords; and the head of the class ends before it.               *)
LEMMA HeadEndsBefore ==
  ASSUME LinesInv, WellFormed, NEW l \in 0 .. LineCount - 1, NEW c \in OpenBefore(l),
         BodyOf(c) = c, ~ HasToken(lines[l - 1], "class"), ~ HasToken(lines[l - 1], "struct")
  PROVE  EndOfHead(lines, c, l) < l - 1 /\ c < l
<1>1. c \in Heads /\ c < l
  BY Open
<1>2. LineCount \in Nat /\ c \in Nat /\ c \in 0 .. LineCount - 1 /\ l \in Nat
      /\ DeclaresClass(lines[c]) /\ EndsHead(lines[c])
  <2>1. LineCount \in Nat /\ l \in Nat
    BY DEF LinesInv
  <2>2. c \in 0 .. LineCount - 2 /\ c \in Nat /\ DeclaresClass(lines[c])
    BY <1>1, HeadOfClass
  <2>3. EndsHead(lines[BodyOf(c)])
    BY <1>1, Zenon DEF WellFormed
  <2> QED
    BY <2>1, <2>2, <2>3
<1>3. c # l - 1
  <2>1. IsLine(lines[c])
    BY <1>2, DepthsRead
  <2>2. HasToken(lines[c], "class") \/ HasToken(lines[c], "struct")
    BY <1>2, <2>1, KeywordOfClass, Zenon
  <2> QED
    BY <2>2
<1> DEFINE heads == {k \in c .. l - 1 : ~ Blank(lines[k]) /\ Last(Tokens(lines[k])) = "{"}
<1>4. c \in heads
  <2>1. c \in c .. l - 1
    BY <1>1, <1>2
  <2>2. ~ Blank(lines[c]) /\ Last(Tokens(lines[c])) = "{"
    BY <1>2, Zenon DEF EndsHead
  <2> QED
    BY <2>1, <2>2, Zenon
<1>5. EndOfHead(lines, c, l) = IF heads = {} THEN c ELSE Min(heads)
  BY Zenon DEF EndOfHead
<1>6. heads \subseteq c .. l - 1
  BY Zenon
<1> HIDE DEF heads
<1>7. heads \subseteq Nat
  BY <1>2, <1>6
<1>8. Min(heads) \in heads /\ \A k \in heads : Min(heads) <= k
  BY <1>4, <1>7, MinIsLeast
<1>9. EndOfHead(lines, c, l) = Min(heads) /\ Min(heads) \in Nat /\ Min(heads) <= c
  BY <1>4, <1>5, <1>7, <1>8
<1> QED
  BY <1>1, <1>2, <1>3, <1>9

(* The sections that are reported in the end.                               *)
LEMMA SpacingsOfFile ==
  ASSUME LinesInv, PhaseInv, SpacingsInv
  PROVE  SpacingsJudged
<1> SUFFICES ASSUME phase = "linted", WellFormed,
                    NEW l \in DOMAIN lines, BeginsSection(lines[l]), OpenBefore(l) # {},
                    NEW c, c = Innermost(l),
                    \A k \in c .. EndOf(c) : QuotedBraces(lines[k]) = 0
             PROVE  l \in spacings <=>
                      /\ ~ Blank(lines[l - 1])
                      /\ ~ HasToken(lines[l - 1], "class") /\ ~ HasToken(lines[l - 1], "struct")
                      /\ BodyOf(c) = c /\ c \notin OpenBefore(n) /\ EndOf(c) - c > SMALL_CLASS
  BY Zenon DEF SpacingsJudged
<1>1. LineCount \in Nat /\ l \in 0 .. LineCount - 1 /\ n = LineCount /\ l \in Nat
  BY DEF LinesInv, PhaseInv
<1>2. spacings = SpacedBefore(n)
  BY DEF SpacingsInv
<1>3. c \in OpenBefore(l)
  <2>1. OpenBefore(l) \subseteq Nat /\ \A d \in OpenBefore(l) : d <= l
    <3> SUFFICES ASSUME NEW d \in OpenBefore(l)
                 PROVE  d \in Nat /\ d <= l
      OBVIOUS
    <3>1. d \in Heads /\ d < l
      BY Open
    <3>2. d \in Nat
      BY <3>1, HeadOfClass
    <3> QED
      BY <1>1, <3>1, <3>2
  <2>2. Max(OpenBefore(l)) \in OpenBefore(l)
    BY <1>1, <2>1, MaxIsGreatest
  <2> QED
    BY <2>2 DEF Innermost
<1>4. l \in spacings <=> LacksBlankLine(lines, l, c, LastLine(lines, c))
  <2>1. l \in 0 .. n - 1
    BY <1>1
  <2> QED
    BY <1>2, <2>1 DEF SpacedBefore, Spaced
<1> DEFINE clear == /\ ~ Blank(lines[l - 1])
                    /\ ~ HasToken(lines[l - 1], "class") /\ ~ HasToken(lines[l - 1], "struct")
<1>5. l \in spacings <=>
        /\ LastLine(lines, c) - c > SMALL_CLASS /\ l > c
        /\ clear /\ EndOfHead(lines, c, l) < l - 1
  BY <1>4, Zenon DEF LacksBlankLine
<1>6. /\ BodyOf(c) # c => LastLine(lines, c) = c
      /\ BodyOf(c) = c /\ c \in OpenBefore(n) => LastLine(lines, c) = 0
      /\ BodyOf(c) = c /\ c \notin OpenBefore(n) => LastLine(lines, c) = EndOf(c)
  BY <1>1, <1>3, LastLineOfClass
<1>7. BodyOf(c) = c /\ clear => EndOfHead(lines, c, l) < l - 1 /\ c < l
  BY <1>1, <1>3, HeadEndsBefore
<1>8. c \in Nat /\ c < l
  <2>1. c \in Heads /\ c < l
    BY <1>3, Open
  <2> QED
    BY <2>1, HeadOfClass
<1>9. (BodyOf(c) # c \/ c \in OpenBefore(n)) => ~ (LastLine(lines, c) - c > SMALL_CLASS)
  BY <1>6, <1>8, SmallClassAssumption
<1>10. l > c
  BY <1>1, <1>8
<1> HIDE DEF clear
<1>11. l \in spacings <=> clear /\ BodyOf(c) = c /\ c \notin OpenBefore(n) /\ EndOf(c) - c > SMALL_CLASS
  <2>1. CASE BodyOf(c) # c \/ c \in OpenBefore(n)
    BY <1>5, <1>9, <2>1, Zenon
  <2>2. CASE BodyOf(c) = c /\ c \notin OpenBefore(n)
    <3>1. LastLine(lines, c) = EndOf(c)
      BY <1>6, <2>2
    <3> QED
      BY <1>5, <1>7, <1>10, <2>2, <3>1, Zenon
  <2> QED
    BY <2>1, <2>2, Zenon
<1> QED
  BY <1>11, Zenon DEF clear

-----------------------------------------------------------------------------
(* Multi-line comments.                                                    *)

(* w says which lines begin inside a comment.                               *)
StaysIn(l) == ~ Closes(original[l])
Begins(l) == Opens(original[l]) \/ OpensAfter(original[l])
Reads(w) ==
  /\ w[0] = FALSE
  /\ \A l \in 1 .. LineCount :
       w[l] \in BOOLEAN /\ w[l] = IF w[l - 1] THEN StaysIn(l - 1) ELSE Begins(l - 1)

(* The definition of Within by recursion means what it says.                *)
LEMMA WithinReads ==
  ASSUME LineCount \in Nat
  PROVE  Reads(Within)
<1> DEFINE N == LineCount
           Next1(l, b) == IF b THEN StaysIn(l - 1) ELSE Begins(l - 1)
           Loop(f) == f = [l \in 0 .. N |-> IF l = 0 THEN FALSE
                            ELSE IF f[l - 1] THEN ~ Closes(original[l - 1])
                                             ELSE Opens(original[l - 1]) \/ OpensAfter(original[l - 1])]
           step == [p \in Nat \X BOOLEAN |-> Next1(p[1], p[2])]
<1>1. \A l, b : Next1(l, b) \in BOOLEAN
  BY DEF StaysIn, Begins, Opens, OpensAfter
<1>2. step \in [Nat \X BOOLEAN -> BOOLEAN]
  <2> HIDE DEF Next1
  <2> QED
    BY <1>1, Zenon
<1>3. PICK g \in [0 .. N -> BOOLEAN] : g[0] = FALSE /\ \A i \in 1 .. N : g[i] = step[<<i, g[i - 1]>>]
  <2> DEFINE base == FALSE
             V == BOOLEAN
  <2>1. base \in V /\ step \in [Nat \X V -> V]
    BY <1>2
  <2> HIDE DEF N, step, base, V
  <2>2. \E g : Recursive(g, V, base, step, N)
    <3>1. N \in Nat
      BY DEF N
    <3> QED
      BY <2>1, <3>1, RecursionExists, Zenon
  <2> QED
    BY <2>2, Zenon DEF base, V, Recursive
<1>4. Loop(g)
  <2>1. ASSUME NEW i \in 1 .. N
        PROVE  g[i] = Next1(i, g[i - 1])
    <3>1. i \in Nat /\ i - 1 \in 0 .. N
      OBVIOUS
    <3>2. g[i - 1] \in BOOLEAN /\ g[i] = step[<<i, g[i - 1]>>]
      BY <1>3, <3>1
    <3> DEFINE b == g[i - 1]
    <3>3. <<i, b>> \in Nat \X BOOLEAN
      BY <3>1, <3>2
    <3> HIDE DEF N, Next1, b
    <3>4. step[<<i, b>>] = Next1(i, b)
      BY <3>3, Zenon
    <3> QED
      BY <3>2, <3>4 DEF b
  <2>2. g = [i \in 0 .. N |-> g[i]]
    BY <1>3
  <2>3. \A i \in 0 .. N : i # 0 => i \in 1 .. N
    OBVIOUS
  <2> HIDE DEF N, step
  <2>4. ASSUME NEW i \in 0 .. N
        PROVE  g[i] = IF i = 0 THEN FALSE
                      ELSE IF g[i - 1] THEN ~ Closes(original[i - 1])
                                       ELSE Opens(original[i - 1]) \/ OpensAfter(original[i - 1])
    BY <1>3, <2>1, <2>3, Zenon DEF StaysIn, Begins
  <2> QED
    BY <2>2, <2>4, Zenon
<1> DEFINE f == CHOOSE h : Loop(h)
<1>5. Loop(f)
  <2> HIDE DEF Loop
  <2> QED
    BY <1>4, Zenon
<1>6. Within = f
  BY DEF Within
<1> HIDE DEF f
<1>7. f[0] = FALSE
  BY <1>5
<1>8. ASSUME NEW l \in 1 .. N
      PROVE  f[l] = Next1(l, f[l - 1])
  <2>1. l \in 0 .. N /\ l # 0
    OBVIOUS
  <2> HIDE DEF N
  <2> QED
    BY <1>5, <2>1, Zenon DEF StaysIn, Begins
<1> QED
  BY <1>1, <1>6, <1>7, <1>8, Zenon DEF Reads, N

(* The comments that are seen: they stay open until a line ends them.       *)
LEMMA SeenIsWithin ==
  ASSUME LineCount \in Nat, NEW k \in 0 .. LineCount, InSeen(k)
  PROVE  Within[k]
<1>1. PICK b \in 0 .. k - 1 : Opens(original[b]) /\ \A j \in b + 1 .. k : Within[j]
  BY Zenon DEF InSeen
<1>2. k \in b + 1 .. k
  OBVIOUS
<1> QED
  BY <1>1, <1>2

(* A line after another.                                                   *)
LEMMA NextSeen ==
  ASSUME LineCount \in Nat, NEW k \in 0 .. LineCount - 1
  PROVE  /\ InSeen(k) => (InSeen(k + 1) <=> StaysIn(k))
         /\ ~ InSeen(k) => (InSeen(k + 1) <=> Opens(original[k]))
<1>0. k \in Nat /\ k \in 0 .. LineCount /\ k + 1 \in 1 .. LineCount /\ k + 1 \in 0 .. LineCount
      /\ (k + 1) - 1 = k
  OBVIOUS
<1>1. /\ Within[k + 1] \in BOOLEAN
      /\ Within[k + 1] = IF Within[k] THEN StaysIn(k) ELSE Begins(k)
  BY <1>0, WithinReads DEF Reads
<1>2. ASSUME NEW b \in 0 .. k - 1, Opens(original[b]), \A j \in b + 1 .. k : Within[j], Within[k + 1]
      PROVE  InSeen(k + 1)
  <2>1. b \in 0 .. (k + 1) - 1 /\ \A j \in b + 1 .. k + 1 : j \in b + 1 .. k \/ j = k + 1
    OBVIOUS
  <2>2. \A j \in b + 1 .. k + 1 : Within[j]
    BY <1>2, <2>1
  <2> QED
    BY <1>2, <2>1, <2>2, Zenon DEF InSeen
<1>3. ASSUME NEW b \in 0 .. (k + 1) - 1, Opens(original[b]), \A j \in b + 1 .. k + 1 : Within[j]
      PROVE  b = k \/ InSeen(k)
  <2> SUFFICES ASSUME b # k
               PROVE  InSeen(k)
    OBVIOUS
  <2>1. b \in 0 .. k - 1 /\ \A j \in b + 1 .. k : j \in b + 1 .. k + 1
    OBVIOUS
  <2>2. \A j \in b + 1 .. k : Within[j]
    BY <1>3, <2>1
  <2> QED
    BY <1>3, <2>1, <2>2, Zenon DEF InSeen
<1>4. ASSUME InSeen(k)
      PROVE  InSeen(k + 1) <=> StaysIn(k)
  <2>1. Within[k]
    BY <1>0, <1>4, SeenIsWithin
  <2>2. InSeen(k + 1) => StaysIn(k)
    <3>1. InSeen(k + 1) => Within[k + 1]
      BY <1>0, SeenIsWithin
    <3> QED
      BY <1>1, <2>1, <3>1, Zenon
  <2>3. StaysIn(k) => InSeen(k + 1)
    <3>1. StaysIn(k) => Within[k + 1]
      BY <1>1, <2>1, Zenon
    <3>2. PICK b \in 0 .. k - 1 : Opens(original[b]) /\ \A j \in b + 1 .. k : Within[j]
      BY <1>4, Zenon DEF InSeen
    <3> QED
      BY <1>2, <3>1, <3>2
  <2> QED
    BY <2>2, <2>3
<1>5. ASSUME ~ InSeen(k)
      PROVE  InSeen(k + 1) <=> Opens(original[k])
  <2>1. ASSUME Opens(original[k])
        PROVE  InSeen(k + 1)
    <3>1. StaysIn(k) /\ Begins(k)
      BY <2>1 DEF StaysIn, Begins, Opens, Closes
    <3>2. Within[k + 1]
      BY <1>1, <3>1, Zenon
    <3>3. k \in 0 .. (k + 1) - 1 /\ \A j \in k + 1 .. k + 1 : j = k + 1
      BY <1>0
    <3>4. \A j \in k + 1 .. k + 1 : Within[j]
      BY <3>2, <3>3
    <3> QED
      BY <2>1, <3>3, <3>4, Zenon DEF InSeen
  <2>2. ASSUME InSeen(k + 1)
        PROVE  Opens(original[k])
    <3>1. PICK b \in 0 .. (k + 1) - 1 : Opens(original[b]) /\ \A j \in b + 1 .. k + 1 : Within[j]
      BY <2>2, Zenon DEF InSeen
    <3>2. b = k
      BY <1>3, <1>5, <3>1
    <3> QED
      BY <3>1, <3>2
  <2> QED
    BY <2>1, <2>2
<1> QED
  BY <1>4, <1>5

(* No comment is open at the beginning.                                    *)
LEMMA NoneSeen == ~ InSeen(0)
BY DEF InSeen

(* Between comments.                                                       *)
LEMMA OutsideComments ==
  ASSUME LineCount \in Nat, NEW i \in 0 .. LineCount, NEW j \in i .. LineCount, ~ InSeen(i),
         \A l \in i .. j - 1 : ~ Opens(original[l])
  PROVE  \A k \in i .. j : ~ InSeen(k)
<1> DEFINE S == {d \in Nat : i + d <= j => ~ InSeen(i + d)}
<1>1. 0 \in S
  OBVIOUS
<1>2. ASSUME NEW d \in Nat, d \in S
      PROVE  d + 1 \in S
  <2>1. ASSUME i + (d + 1) <= j
        PROVE  ~ InSeen(i + (d + 1))
    <3>1. i + d \in 0 .. LineCount - 1 /\ i + d \in i .. j - 1 /\ (i + d) + 1 = i + (d + 1)
      BY <2>1
    <3>2. ~ InSeen(i + d)
      BY <1>2, <3>1
    <3> QED
      BY <3>1, <3>2, NextSeen
  <2>2. d + 1 \in Nat
    OBVIOUS
  <2> QED
    BY <2>1, <2>2, Zenon
<1>3. \A d \in Nat : d \in S
  <2> HIDE DEF S
  <2> QED
    BY <1>1, <1>2, SetInduction
<1> QED
  <2> TAKE k \in i .. j
  <2>1. k - i \in Nat /\ i + (k - i) = k /\ k <= j
    OBVIOUS
  <2> QED
    BY <1>3, <2>1

(* Inside of one.                                                          *)
LEMMA InsideComment ==
  ASSUME LineCount \in Nat, NEW i \in 0 .. LineCount, NEW j \in i .. LineCount, InSeen(i),
         \A l \in i .. j - 1 : StaysIn(l)
  PROVE  \A k \in i .. j : InSeen(k)
<1> DEFINE S == {d \in Nat : i + d <= j => InSeen(i + d)}
<1>1. 0 \in S
  OBVIOUS
<1>2. ASSUME NEW d \in Nat, d \in S
      PROVE  d + 1 \in S
  <2>1. ASSUME i + (d + 1) <= j
        PROVE  InSeen(i + (d + 1))
    <3>1. i + d \in 0 .. LineCount - 1 /\ i + d \in i .. j - 1 /\ (i + d) + 1 = i + (d + 1)
      BY <2>1
    <3>2. InSeen(i + d)
      BY <1>2, <3>1
    <3> QED
      BY <3>1, <3>2, NextSeen
  <2>2. d + 1 \in Nat
    OBVIOUS
  <2> QED
    BY <2>1, <2>2, Zenon
<1>3. \A d \in Nat : d \in S
  <2> HIDE DEF S
  <2> QED
    BY <1>1, <1>2, SetInduction
<1> QED
  <2> TAKE k \in i .. j
  <2>1. k - i \in Nat /\ i + (k - i) = k /\ k <= j
    OBVIOUS
  <2> QED
    BY <1>3, <2>1

(* No code follows a comment on its last line.                              *)
NoCode == \A l \in DOMAIN original : ~ ClosesWithin(original[l])
(* The loop has cleared the comments before lineix, where none is open, and *)
(* ends when no other begins, or no end is found for the next.              *)
CommentInv ==
  /\ unclosed \in 0 .. LineCount - 1
  /\ comments # "unclosed" => unclosed = 0
  /\ NoCode =>
       /\ ~ InSeen(lineix)
       /\ \A l \in 0 .. LineCount - 1 :
            lines[l] = IF l < lineix /\ l \in InComment THEN Dummy ELSE original[l]
       /\ comments = "done" => \A l \in lineix .. LineCount - 1 : ~ Opens(original[l])
       /\ comments = "unclosed" =>
            \E open \in lineix .. LineCount - 1 :
              /\ unclosed = open + 1 /\ Opens(original[open])
              /\ \A l \in lineix .. open - 1 : ~ Opens(original[l])
              /\ \A l \in open .. LineCount - 1 : ~ Closes(original[l])

(* A comment from line begin to line end, after others that are closed.     *)
LEMMA OneComment ==
  ASSUME LineCount \in Nat, NoCode, DOMAIN original = 0 .. LineCount - 1,
         NEW i \in 0 .. LineCount, ~ InSeen(i),
         NEW begin \in i .. LineCount - 1, Opens(original[begin]),
         \A l \in i .. begin - 1 : ~ Opens(original[l]),
         NEW end \in begin .. LineCount,
         \A l \in begin .. end - 1 : ~ Closes(original[l])
  PROVE  /\ \A l \in i .. begin : ~ InSeen(l)
         /\ \A l \in begin + 1 .. end : InSeen(l)
         /\ end < LineCount /\ Closes(original[end]) => ~ InSeen(end + 1)
<1>1. \A l \in i .. begin : ~ InSeen(l)
  <2>1. begin \in i .. LineCount
    OBVIOUS
  <2> QED
    BY <2>1, OutsideComments
<1>2. ~ Closes(original[begin])
  BY DEF Opens, Closes
<1>3. CASE end = begin
  <2>1. \A l \in begin + 1 .. end : FALSE
    BY <1>3
  <2> QED
    BY <1>1, <1>2, <1>3, <2>1
<1>4. CASE end > begin
  <2>1. begin \in i .. begin /\ begin \in 0 .. LineCount - 1
        /\ begin + 1 \in 0 .. LineCount /\ end \in begin + 1 .. LineCount
    BY <1>4
  <2>2. InSeen(begin + 1)
    BY <1>1, <2>1, NextSeen
  <2>3. \A l \in begin + 1 .. end - 1 : StaysIn(l)
    <3> TAKE l \in begin + 1 .. end - 1
    <3>1. l \in begin .. end - 1 /\ l \in 0 .. LineCount - 1
      OBVIOUS
    <3> QED
      BY <3>1 DEF StaysIn, NoCode
  <2>4. \A l \in begin + 1 .. end : InSeen(l)
    BY <2>1, <2>2, <2>3, InsideComment
  <2>5. ASSUME end < LineCount, Closes(original[end])
        PROVE  ~ InSeen(end + 1)
    <3>1. end \in begin + 1 .. end /\ end \in 0 .. LineCount - 1
      BY <1>4, <2>5
    <3>2. InSeen(end) /\ ~ StaysIn(end)
      BY <2>4, <2>5, <3>1 DEF StaysIn
    <3> QED
      BY <3>1, <3>2, NextSeen
  <2> QED
    BY <1>1, <2>4, <2>5
<1>5. end = begin \/ end > begin
  OBVIOUS
<1> QED
  BY <1>3, <1>4, <1>5

(* The comments of a file are those of its lines as they were read.         *)
LEMMA SameComments ==
  ASSUME original' = original, LineCount' = LineCount
  PROVE  /\ \A k : lineix' = k => (InSeen(lineix)' <=> InSeen(k))
         /\ InComment' = InComment /\ (NoCode' <=> NoCode)
<1>1. Within' = Within
  BY DEF Within
<1>2. \A l : InSeen(l)' <=> InSeen(l)
  BY <1>1 DEF InSeen
<1>3. \A k : lineix' = k => (InSeen(lineix)' <=> InSeen(k))
  BY <1>1 DEF InSeen
<1> QED
  BY <1>2, <1>3 DEF InComment, NoCode

(* A turn of RemoveMultiLineComments.                                      *)
LEMMA CommentsRemoved ==
  ASSUME LinesInv, PhaseInv, CommentInv, RemoveMultiLineComments, original' = original,
         LineCount' = LineCount
  PROVE  CommentInv'
<1> DEFINE begin == FindNextMultiLineCommentStart(lineix)
           end == FindNextMultiLineCommentEnd(begin)
<1>1. /\ LineCount \in Nat /\ LineCount >= 2 /\ DOMAIN lines = 0 .. LineCount - 1
      /\ DOMAIN original = 0 .. LineCount - 1 /\ lineix \in 0 .. LineCount
      /\ comments = "looking"
  BY DEF LinesInv, PhaseInv, RemoveMultiLineComments
<1>2. /\ begin \in lineix .. LineCount
      /\ begin < LineCount => Opens(lines[begin])
      /\ \A l \in lineix .. LineCount - 1 : l < begin => ~ Opens(lines[l])
  BY <1>1, NextStart
<1>3. /\ end \in begin .. LineCount
      /\ end < LineCount => Closes(lines[end])
      /\ \A l \in begin .. LineCount - 1 : l < end => ~ Closes(lines[l])
  <2>1. begin \in 0 .. LineCount
    BY <1>1, <1>2
  <2> QED
    BY <1>1, <2>1, NextEnd
<1>4. \/ /\ begin = LineCount /\ comments' = "done"
         /\ UNCHANGED <<lines, lineix, unclosed>>
      \/ /\ begin < LineCount /\ end = LineCount
         /\ comments' = "unclosed" /\ unclosed' = begin + 1
         /\ UNCHANGED <<lines, lineix>>
      \/ /\ begin < LineCount /\ end < LineCount
         /\ lines' = Cleared(begin, end) /\ lineix' = end + 1
         /\ comments' = "looking" /\ unclosed' = unclosed
  BY <1>1 DEF RemoveMultiLineComments
<1> HIDE DEF begin, end
<1>5. unclosed = 0 /\ unclosed' \in 0 .. LineCount - 1 /\ (comments' # "unclosed" => unclosed' = 0)
  <2>1. unclosed = 0
    BY <1>1 DEF CommentInv
  <2>2. ASSUME begin < LineCount
        PROVE  begin + 1 \in 0 .. LineCount - 1
    <3>1. ~ Opens(Dummy) /\ lines[LineCount - 1] = Dummy
      BY <1>1 DEF Opens, Dummy, LinesInv
    <3>2. begin # LineCount - 1
      BY <1>2, <2>2, <3>1
    <3> QED
      BY <1>1, <1>2, <2>2, <3>2
  <2> QED
    BY <1>1, <1>4, <2>1, <2>2
<1>6. ASSUME NoCode
      PROVE  /\ ~ InSeen(lineix)
             /\ \A l \in 0 .. LineCount - 1 :
                  lines[l] = IF l < lineix /\ l \in InComment THEN Dummy ELSE original[l]
             /\ \A l \in lineix .. LineCount - 1 : lines[l] = original[l]
  <2>1. /\ ~ InSeen(lineix)
        /\ \A l \in 0 .. LineCount - 1 :
             lines[l] = IF l < lineix /\ l \in InComment THEN Dummy ELSE original[l]
    BY <1>6 DEF CommentInv
  <2>2. \A l \in lineix .. LineCount - 1 : l \in 0 .. LineCount - 1 /\ ~ (l < lineix)
    BY <1>1
  <2> QED
    BY <2>1, <2>2
<1>7. ASSUME NoCode, begin < LineCount
      PROVE  /\ Opens(original[begin])
             /\ \A l \in lineix .. begin - 1 : ~ Opens(original[l])
             /\ \A l \in begin .. end - 1 : ~ Closes(original[l])
             /\ end < LineCount => Closes(original[end])
  <2>1. begin \in lineix .. LineCount - 1 /\ (end < LineCount => end \in lineix .. LineCount - 1)
    BY <1>1, <1>2, <1>3, <1>7
  <2>2. \A l \in lineix .. begin - 1 : l \in lineix .. LineCount - 1 /\ l < begin
    BY <1>1, <1>2
  <2>3. \A l \in begin .. end - 1 :
          l \in lineix .. LineCount - 1 /\ l \in begin .. LineCount - 1 /\ l < end
    BY <1>1, <1>2, <1>3
  <2> QED
    BY <1>2, <1>3, <1>6, <1>7, <2>1, <2>2, <2>3
<1>8. /\ \A k : lineix' = k => (InSeen(lineix)' <=> InSeen(k))
      /\ InComment' = InComment /\ (NoCode' <=> NoCode)
  BY SameComments
<1>9. CASE begin = LineCount /\ comments' = "done" /\ UNCHANGED <<lines, lineix, unclosed>>
  <2>1. ASSUME NoCode
        PROVE  \A l \in lineix .. LineCount - 1 : ~ Opens(original[l])
    <3>1. \A l \in lineix .. LineCount - 1 : l < begin
      BY <1>1, <1>9
    <3> QED
      BY <1>2, <1>6, <2>1, <3>1
  <2>2. InSeen(lineix)' <=> InSeen(lineix)
    BY <1>8, <1>9
  <2> QED
    BY <1>5, <1>6, <1>8, <1>9, <2>1, <2>2 DEF CommentInv
<1>10. CASE /\ begin < LineCount /\ end = LineCount
            /\ comments' = "unclosed" /\ unclosed' = begin + 1 /\ UNCHANGED <<lines, lineix>>
  <2>1. begin \in lineix .. LineCount - 1
    BY <1>1, <1>2, <1>10
  <2>2. InSeen(lineix)' <=> InSeen(lineix)
    BY <1>8, <1>10
  <2> QED
    BY <1>5, <1>6, <1>7, <1>8, <1>10, <2>1, <2>2 DEF CommentInv
<1>11. CASE /\ begin < LineCount /\ end < LineCount
            /\ lines' = Cleared(begin, end) /\ lineix' = end + 1
            /\ comments' = "looking" /\ unclosed' = unclosed
  <2>1. ASSUME NoCode
        PROVE  /\ ~ InSeen(end + 1)
               /\ \A l \in 0 .. LineCount - 1 :
                    lines'[l] = IF l < end + 1 /\ l \in InComment THEN Dummy ELSE original[l]
    <3>1. begin \in lineix .. LineCount - 1
      BY <1>1, <1>2, <1>11
    <3>2. /\ \A l \in lineix .. begin : ~ InSeen(l)
          /\ \A l \in begin + 1 .. end : InSeen(l)
          /\ ~ InSeen(end + 1)
      BY <1>1, <1>3, <1>6, <1>7, <1>11, <2>1, <3>1, OneComment
    <3>3. ASSUME NEW l \in 0 .. LineCount - 1
          PROVE  lines'[l] = IF l < end + 1 /\ l \in InComment THEN Dummy ELSE original[l]
      <4>1. lines'[l] = IF l \in begin .. end THEN Dummy ELSE lines[l]
        BY <1>1, <1>11 DEF Cleared
      <4>2. l \in InComment <=> InSeen(l) \/ Opens(original[l])
        BY <1>1 DEF InComment
      <4>3. CASE l < lineix
        <5>1. l \notin begin .. end /\ l < end + 1
          BY <1>1, <1>2, <1>3, <4>3
        <5> QED
          BY <1>6, <2>1, <4>1, <4>3, <5>1
      <4>4. CASE l \in lineix .. begin - 1
        <5>1. l \in lineix .. begin /\ l \notin begin .. end /\ ~ (l < lineix)
          BY <1>1, <1>2, <4>4
        <5>2. l \notin InComment
          BY <1>7, <1>11, <2>1, <3>2, <4>2, <4>4, <5>1
        <5> QED
          BY <1>6, <2>1, <4>1, <5>1, <5>2
      <4>5. CASE l = begin
        <5>1. l \in InComment /\ l \in begin .. end /\ l < end + 1
          BY <1>1, <1>2, <1>3, <1>7, <1>11, <2>1, <4>2, <4>5
        <5> QED
          BY <4>1, <5>1
      <4>6. CASE l \in begin + 1 .. end
        <5>1. l \in InComment /\ l \in begin .. end /\ l < end + 1
          BY <1>1, <1>2, <1>3, <3>2, <4>2, <4>6
        <5> QED
          BY <4>1, <5>1
      <4>7. CASE l > end
        <5>1. l \notin begin .. end /\ ~ (l < end + 1) /\ ~ (l < lineix)
          BY <1>1, <1>2, <1>3, <4>7
        <5> QED
          BY <1>6, <2>1, <4>1, <5>1
      <4>8. \/ l < lineix \/ l \in lineix .. begin - 1 \/ l = begin
            \/ l \in begin + 1 .. end \/ l > end
        BY <1>1, <1>2, <1>3
      <4> QED
        BY <4>3, <4>4, <4>5, <4>6, <4>7, <4>8
    <3> QED
      BY <3>2, <3>3
  <2>2. InSeen(lineix)' <=> InSeen(end + 1)
    BY <1>8, <1>11
  <2> QED
    BY <1>5, <1>8, <1>11, <2>1, <2>2 DEF CommentInv
<1> QED
  BY <1>4, <1>9, <1>10, <1>11

(* Nothing else disturbs what is known of the comments.                     *)
LEMMA CommentStep ==
  ASSUME LinesInv, PhaseInv, CommentInv, [Next]_vars
  PROVE  CommentInv'
<1>1. LineCount' = LineCount
  BY LinesStep
<1>2. CASE UNCHANGED <<commentVars, original>>
  <2>1. /\ \A k : lineix' = k => (InSeen(lineix)' <=> InSeen(k))
        /\ InComment' = InComment /\ (NoCode' <=> NoCode)
    BY <1>1, <1>2, SameComments
  <2>2. InSeen(lineix)' <=> InSeen(lineix)
    BY <1>2, <2>1 DEF commentVars
  <2> QED
    BY <1>1, <1>2, <2>1, <2>2 DEF CommentInv, commentVars
<1>3. CASE ClearComments
  BY <1>1, <1>3, CommentsRemoved DEF ClearComments, constantVars
<1>4. CASE ~ ClearComments
  <2>1. UNCHANGED <<commentVars, original>>
    BY <1>4 DEF Next, ProcessFileData, ProcessLine, Crash, BeginJoining, JoinPreviousLine, FinishLine,
      EndLines, CheckForIncludeWhatYouUse, Ended, vars, constantVars
  <2> QED
    BY <1>2, <2>1
<1> QED
  BY <1>3, <1>4

(* The first state.                                                        *)
LEMMA InitComments ==
  ASSUME Init, LinesInv
  PROVE  CommentInv
<1>1. lines = original /\ lineix = 0 /\ comments = "looking" /\ unclosed = 0 /\ LineCount \in Nat
      /\ LineCount >= 2
  BY DEF Init, LinesInv
<1>2. ~ InSeen(0)
  BY NoneSeen
<1>3. \A l \in 0 .. LineCount - 1 : ~ (l < 0)
  OBVIOUS
<1> QED
  BY <1>1, <1>2, <1>3 DEF CommentInv

(* What is cleared in the end.                                              *)
LEMMA CommentsOfFile ==
  ASSUME LinesInv, PhaseInv, CommentInv
  PROVE  CommentsCleared
<1> DEFINE endless == {l \in DOMAIN original :
                        Opens(original[l]) /\ \A k \in l + 1 .. LineCount : Within[k]}
           S == endless \cup {LineCount}
<1> SUFFICES ASSUME phase \notin {"comments", "lines"}, NoCode
             PROVE  /\ \A l \in DOMAIN lines :
                         lines[l] = IF l \in InComment /\ l < Min(S) THEN Dummy ELSE original[l]
                    /\ unclosed = IF Min(S) < LineCount THEN Min(S) + 1 ELSE 0
  BY Zenon DEF CommentsCleared, NoCode
<1>1. /\ LineCount \in Nat /\ LineCount >= 2 /\ DOMAIN lines = 0 .. LineCount - 1
      /\ DOMAIN original = 0 .. LineCount - 1 /\ lineix \in 0 .. LineCount
      /\ comments \in {"done", "unclosed"}
  BY DEF LinesInv, PhaseInv
<1>2. /\ ~ InSeen(lineix)
      /\ \A l \in 0 .. LineCount - 1 :
           lines[l] = IF l < lineix /\ l \in InComment THEN Dummy ELSE original[l]
  BY DEF CommentInv
<1>3. \A l : l \in S <=> \/ l = LineCount
                         \/ /\ l \in 0 .. LineCount - 1 /\ Opens(original[l])
                            /\ \A k \in l + 1 .. LineCount : Within[k]
  BY <1>1, Zenon
<1> HIDE DEF S
<1>4. LineCount \in S /\ S \subseteq Nat
  BY <1>1, <1>3
<1>5. Min(S) \in S /\ \A l \in S : Min(S) <= l
  BY <1>4, MinIsLeast
<1>6. ASSUME NEW l \in S, NEW k \in l + 1 .. LineCount
      PROVE  InSeen(k)
  <2>1. /\ l \in 0 .. LineCount - 1 /\ Opens(original[l])
        /\ \A j \in l + 1 .. LineCount : Within[j]
    BY <1>1, <1>3, <1>6
  <2>2. l \in 0 .. k - 1 /\ \A j \in l + 1 .. k : j \in l + 1 .. LineCount
    BY <1>1, <1>6, <2>1
  <2>3. \A j \in l + 1 .. k : Within[j]
    BY <2>1, <2>2
  <2> QED
    BY <2>1, <2>2, <2>3, Zenon DEF InSeen
<1>7. CASE comments = "done"
  <2>1. unclosed = 0 /\ \A l \in lineix .. LineCount - 1 : ~ Opens(original[l])
    BY <1>7 DEF CommentInv
  <2>2. \A l \in lineix .. LineCount : ~ InSeen(l)
    <3>1. LineCount \in lineix .. LineCount
      BY <1>1
    <3> QED
      BY <1>1, <1>2, <2>1, <3>1, OutsideComments
  <2>3. Min(S) = LineCount
    <3>1. LineCount \in lineix .. LineCount /\ Min(S) \in 0 .. LineCount
      BY <1>1, <1>3, <1>5
    <3>2. ~ InSeen(LineCount)
      BY <2>2, <3>1
    <3>3. LineCount \notin Min(S) + 1 .. LineCount
      BY <1>5, <1>6, <3>2
    <3> QED
      BY <1>1, <3>1, <3>3
  <2>4. ASSUME NEW l \in 0 .. LineCount - 1
        PROVE  lines[l] = IF l \in InComment /\ l < LineCount THEN Dummy ELSE original[l]
    <3>1. CASE l < lineix
      <4>1. l < LineCount
        BY <1>1
      <4> QED
        BY <1>2, <3>1, <4>1
    <3>2. CASE ~ (l < lineix)
      <4>1. l \in lineix .. LineCount - 1 /\ l \in lineix .. LineCount
        BY <1>1, <3>2
      <4>2. l \notin InComment
        BY <2>1, <2>2, <4>1 DEF InComment
      <4> QED
        BY <1>2, <3>2, <4>2
    <3> QED
      BY <3>1, <3>2
  <2> QED
    BY <1>1, <2>1, <2>3, <2>4
<1>8. CASE comments = "unclosed"
  <2>1. PICK open \in lineix .. LineCount - 1 :
          /\ unclosed = open + 1 /\ Opens(original[open])
          /\ \A l \in lineix .. open - 1 : ~ Opens(original[l])
          /\ \A l \in open .. LineCount - 1 : ~ Closes(original[l])
    BY <1>8 DEF CommentInv
  <2>2. /\ \A l \in lineix .. open : ~ InSeen(l)
        /\ \A l \in open + 1 .. LineCount : InSeen(l)
    <3>1. LineCount \in open .. LineCount
      BY <1>1
    <3> QED
      BY <1>1, <1>2, <2>1, <3>1, OneComment
  <2>3. open \in S
    <3>1. \A l \in open + 1 .. LineCount : Within[l]
      <4> TAKE l \in open + 1 .. LineCount
      <4>1. InSeen(l) /\ l \in 0 .. LineCount
        BY <1>1, <2>2
      <4> QED
        BY <1>1, <4>1, SeenIsWithin
    <3>2. open \in 0 .. LineCount - 1
      BY <1>1
    <3> QED
      BY <1>3, <2>1, <3>1, <3>2
  <2>4. Min(S) = open
    <3>0. Min(S) \in Nat /\ Min(S) <= open
      BY <1>4, <1>5, <2>3
    <3>1. Min(S) \in Nat /\ Min(S) <= open /\ open \in lineix .. open /\ open \in Nat
      BY <1>1, <3>0
    <3>2. open \notin Min(S) + 1 .. LineCount
      BY <1>5, <1>6, <2>2, <3>1
    <3> QED
      BY <1>1, <3>1, <3>2
  <2>5. ASSUME NEW l \in 0 .. LineCount - 1
        PROVE  lines[l] = IF l \in InComment /\ l < open THEN Dummy ELSE original[l]
    <3>1. CASE l < lineix
      <4>1. l < open
        BY <1>1, <2>1, <3>1
      <4> QED
        BY <1>2, <3>1, <4>1
    <3>2. CASE l \in lineix .. open - 1
      <4>1. l \in lineix .. open /\ ~ (l < lineix)
        BY <1>1, <3>2
      <4>2. l \notin InComment
        BY <2>1, <2>2, <3>2, <4>1 DEF InComment
      <4> QED
        BY <1>2, <4>1, <4>2
    <3>3. CASE l >= open
      <4>1. ~ (l < lineix) /\ ~ (l < open)
        BY <1>1, <2>1, <3>3
      <4> QED
        BY <1>2, <4>1
    <3>4. l < lineix \/ l \in lineix .. open - 1 \/ l >= open
      BY <1>1, <2>1
    <3> QED
      BY <3>1, <3>2, <3>3, <3>4
  <2>6. open < LineCount
    BY <1>1
  <2> QED
    BY <1>1, <2>1, <2>4, <2>5, <2>6
<1> QED
  BY <1>1, <1>7, <1>8

-----------------------------------------------------------------------------
(* All of it together.                                                     *)

IInv == LinesInv /\ PhaseInv /\ CommentInv /\ LengthsInv /\ IncludesInv /\ FoundInv

(* The types of the variables follow.                                      *)
LEMMA TypesOfFile ==
  ASSUME IInv
  PROVE  TypeOK
<1>1. LineCount \in Nat /\ DOMAIN lines = 0 .. LineCount - 1 /\ DOMAIN original = 0 .. LineCount - 1
  BY DEF IInv, LinesInv
<1>2. section \in _INITIAL_SECTION .. _OTHER_H_SECTION
  BY DEF IInv, IncludesInv, _INITIAL_SECTION, _OTHER_H_SECTION
<1>3. {r.line : r \in sizes} \cup orders \cup alphas \cup duplicates \subseteq 1 .. LineCount - 2
  <2>1. \A r \in sizes : r.line \in 1 .. LineCount - 2
    BY DEF IInv, LengthsInv
  <2>2. orders \cup alphas \cup duplicates \subseteq 1 .. LineCount - 2
    <3>1. \A k \in Before(n) : k \in 1 .. LineCount - 2
      BY BeforeLine DEF IInv, PhaseInv
    <3> QED
      BY <3>1 DEF IInv, IncludesInv
  <2> QED
    BY <2>1, <2>2
<1>4. function.lines_in_function \in 0 .. LineCount
  <2>1. Seen \in 0 .. LineCount
    BY <1>1 DEF IInv, PhaseInv, Seen
  <2>2. function.lines_in_function \in 0 .. Seen
    BY DEF IInv, LengthsInv
  <2> QED
    BY <1>1, <2>1, <2>2
<1>5. unclosed \in 0 .. LineCount - 1 /\ lineix \in 0 .. LineCount
  BY DEF IInv, CommentInv, PhaseInv
<1> QED
  BY <1>1, <1>2, <1>3, <1>4, <1>5 DEF TypeOK

(* The invariant is inductive: each part is kept with the help of the first *)
(* two.                                                                    *)
THEOREM Inductive == Spec => []IInv
<1>1. Init => IInv
  <2> SUFFICES ASSUME Init
               PROVE  IInv
    OBVIOUS
  <2>1. FoundInv
    BY DEF Init, FoundInv
  <2> QED
    BY <2>1, InitLines, InitComments, InitLengths, InitIncludes DEF IInv
<1>2. IInv /\ [Next]_vars => IInv'
  <2> SUFFICES ASSUME IInv, [Next]_vars
               PROVE  IInv'
    OBVIOUS
  <2> QED
    BY LinesStep, PhaseStep, CommentStep, LengthsStep, IncludesStep, FoundStep DEF IInv
<1> QED
  BY <1>1, <1>2, PTL DEF Spec

(* The types.  Lines that are reported are lines of the file, and a count   *)
(* of lines is never of more than have been read.                          *)
THEOREM TypeCorrect == Spec => []TypeOK
<1>1. IInv => TypeOK
  BY TypesOfFile
<1> QED
  BY <1>1, Inductive, PTL

(* RemoveMultiLineComments clears the comments that begin with their line,  *)
(* and leaves the lines of all others as they are.                         *)
THEOREM CommentsAlwaysCleared == Spec => []CommentsCleared
<1>1. IInv => CommentsCleared
  BY CommentsOfFile DEF IInv
<1> QED
  BY <1>1, Inductive, PTL

(* CheckForFunctionLengths reports the bodies that are too long.            *)
THEOREM LongBodiesAlwaysReported == Spec => []LongBodiesReported
<1>1. IInv => LongBodiesReported
  BY LengthsOfFunctions DEF IInv
<1> QED
  BY <1>1, Inductive, PTL

(* What is longer than its trigger is confident enough to be printed, for   *)
(* the verbosities of the usage.                                           *)
THEOREM ReportsAlwaysPrinted ==
  ASSUME VerbositiesDocumented
  PROVE  Spec => []ReportsArePrinted
<1>1. Init => LevelsInv /\ verbosity \in 0 .. 5
  BY DEF Init, LevelsInv, VerbositiesDocumented
<1>2. IInv /\ LevelsInv /\ verbosity \in 0 .. 5 /\ [Next]_vars => LevelsInv' /\ (verbosity \in 0 .. 5)'
  <2>1. [Next]_vars => verbosity' = verbosity
    BY DEF Next, ProcessFileData, ClearComments, ProcessLine, Crash, BeginJoining, JoinPreviousLine,
      FinishLine, EndLines, CheckForIncludeWhatYouUse, Ended, vars, constantVars
  <2> QED
    BY <2>1, LevelsStep DEF IInv
<1>3. LevelsInv /\ verbosity \in 0 .. 5 => ReportsArePrinted
  BY DEF LevelsInv, ReportsArePrinted
<1> QED
  BY <1>1, <1>2, <1>3, Inductive, PTL DEF Spec

(* CheckBraces judges the semicolon after a brace by the whole statement     *)
(* that it ends, and by no line before it.                                  *)
THEOREM SemicolonsAlwaysJudged == Spec => []SemicolonsJudged
<1>1. Init => SemicolonsInv
  BY DEF Init, SemicolonsInv
<1>2. IInv /\ SemicolonsInv /\ [Next]_vars => SemicolonsInv'
  BY SemicolonsStep DEF IInv
<1>3. IInv /\ SemicolonsInv => SemicolonsJudged
  <2> SUFFICES ASSUME IInv, SemicolonsInv, NEW l \in DOMAIN lines, l < n
               PROVE  Semicolon(l) \in braces <=> ErrorOfSemicolon(lines, Statement(l), l) # {}
    BY DEF SemicolonsJudged, Semicolon
  <2>1. l \in 0 .. n - 1
    BY DEF IInv, LinesInv, PhaseInv
  <2> QED
    BY <2>1 DEF SemicolonsInv, SemicolonJudged
<1> QED
  BY <1>1, <1>2, <1>3, Inductive, PTL DEF Spec

(* CheckBraces follows the condition of an else if to the line where it is   *)
(* closed, and judges the else by the brace after it.                       *)
THEOREM ElseBracesAlwaysJudged == Spec => []ElseBracesJudged
<1>1. Init => ElseInv
  BY DEF Init, ElseInv, LookedAt, Else
<1>2. IInv /\ ElseInv /\ [Next]_vars => ElseInv'
  BY ElseStep DEF IInv
<1>3. IInv /\ ElseInv => ElseBracesJudged
  <2> SUFFICES ASSUME IInv, ElseInv, NEW l \in DOMAIN lines, l < n,
                      FollowsCondition(Tokens(lines[l])),
                      OpenAfter(l, Condition(l) - 1) = Opened(lines)[l]
               PROVE  LET end == Min(EndsOf(l))
                          tokens == Tokens(lines[end])
                          After == {tokens[i] : i \in Min(ClosesAt(l, end)) + 1 .. Len(tokens)}
                      IN  /\ EndsOf(l) # {}
                          /\ After \cap {"(", ")"} = {} => (Else(l) \in braces <=> "{" \notin After)
    BY Zenon DEF ElseBracesJudged, Else
  <2>1. LinesInv /\ l \in 0 .. LineCount - 1 /\ n \in Int
    BY DEF IInv, LinesInv, PhaseInv
  <2>2. ElseJudged(l)
    BY <2>1 DEF ElseInv, LookedAt
  <2>3. OpenAfter(l, Condition(l) - 1) = Paren(l)
    BY DEF Paren
  <2> QED
    BY <2>1, <2>2, <2>3, ElseOfCondition
<1> QED
  BY <1>1, <1>2, <1>3, Inductive, PTL DEF Spec

(* The invariant of the classes, which needs only the lines and the phase.  *)
THEOREM ClassesTold == Spec => []ClassesInv
<1>1. Init => ClassesInv
  BY DEF Init, ClassesInv
<1>2. IInv /\ ClassesInv /\ [Next]_vars => ClassesInv'
  BY ClassesStep DEF IInv
<1> QED
  BY <1>1, <1>2, Inductive, PTL DEF Spec

(* _ClassState: the stack holds the classes that are open, the innermost on *)
(* top, whatever lies between their lines.                                 *)
THEOREM StackAlwaysNesting == Spec => []StackIsNesting
<1>1. IInv /\ ClassesInv => StackIsNesting
  <2> SUFFICES ASSUME IInv, ClassesInv, phase = "lines", WellFormed
               PROVE  /\ {classinfo_stack[k].linenum : k \in DOMAIN classinfo_stack} = OpenBefore(n)
                      /\ \A j, k \in DOMAIN classinfo_stack :
                           j < k => classinfo_stack[j].linenum < classinfo_stack[k].linenum
    BY DEF StackIsNesting
  <2>1. StackInv(classinfo_stack, n)
    BY DEF ClassesInv
  <2>2. DOMAIN classinfo_stack = 1 .. Len(classinfo_stack)
    <3>1. classinfo_stack \in Seq(ClassInfos)
      BY <2>1 DEF StackInv, Nested
    <3> HIDE DEF ClassInfos
    <3> QED
      BY <3>1
  <2>3. \A c : c \in {classinfo_stack[k].linenum : k \in DOMAIN classinfo_stack} <=> c \in OpenBefore(n)
    BY <2>1, <2>2, Zenon DEF StackInv
  <2>4. \A j, k \in 1 .. Len(classinfo_stack) :
          j < k => classinfo_stack[j].linenum < classinfo_stack[k].linenum
    BY <2>1 DEF StackInv, Nested
  <2> QED
    BY <2>2, <2>3, <2>4, Zenon
<1> QED
  BY <1>1, Inductive, ClassesTold, PTL

(* CheckForNonStandardConstructs judges a class by its own methods, and     *)
(* CheckFinished finds the outermost class that is not closed.              *)
THEOREM ClassesAlwaysJudged == Spec => []ClassesJudged
<1>1. IInv /\ ClassesInv => ClassesJudged
  <2> SUFFICES ASSUME IInv, ClassesInv, phase = "linted", WellFormed
               PROVE  /\ unfinished = (IF OpenBefore(n) = {} THEN 0 ELSE Min(OpenBefore(n)))
                      /\ virtuals = {c \in Heads \ OpenBefore(n) :
                           /\ ~ HasBase(c)
                           /\ \E l \in LinesOf(c) : DeclaresVirtual(lines[l])
                           /\ \A l \in LinesOf(c) : lines[l].is # "virtual ~A();"}
    BY Zenon DEF ClassesJudged
  <2>1. /\ unfinished = IF OpenBefore(n) = {} THEN 0 ELSE Min(OpenBefore(n))
        /\ virtuals = JudgedBefore(n)
    BY DEF ClassesInv
  <2>2. \A c \in Heads : c < n
    <3>1. n = LineCount /\ LineCount \in Nat
      BY DEF IInv, PhaseInv, LinesInv
    <3>2. \A c \in Heads : c \in 0 .. LineCount - 2
      BY HeadOfClass DEF IInv
    <3> QED
      BY <3>1, <3>2
  <2>3. JudgedBefore(n) = {c \in Heads \ OpenBefore(n) : Lacks(c)}
    BY <2>2 DEF JudgedBefore
  <2> QED
    BY <2>1, <2>3, Zenon DEF Lacks, IsDestructor
<1> QED
  BY <1>1, Inductive, ClassesTold, PTL

(* CheckSectionSpacing reports a section for the missing blank line by the   *)
(* class around it, as its own look-ahead knows it, which is where the      *)
(* stack closes the class unless a string in it holds a brace.              *)
THEOREM SpacingsAlwaysJudged == Spec => []SpacingsJudged
<1>1. Init => SpacingsInv
  BY DEF Init, SpacingsInv
<1>2. IInv /\ ClassesInv /\ SpacingsInv /\ [Next]_vars => SpacingsInv'
  BY SpacingsStep DEF IInv
<1>3. IInv /\ SpacingsInv => SpacingsJudged
  BY SpacingsOfFile DEF IInv
<1> QED
  BY <1>1, <1>2, <1>3, Inductive, ClassesTold, PTL DEF Spec

(* CheckNextIncludeOrder reports exactly the headers that come after one of *)
(* a later section, whatever headers and errors lie between.                *)
THEOREM IncludesAlwaysJudged == Spec => []IncludesJudged
<1>1. IInv => IncludesJudged
  BY IncludesOfFile DEF IInv, IncludesJudged
<1> QED
  BY <1>1, Inductive, PTL

(* IsInAlphabeticalOrder compares a header with those before it back to the *)
(* last one that began a section or was out of order, and with no others.   *)
THEOREM AlphasAlwaysJudged == Spec => []AlphasJudged
<1>1. IInv => AlphasJudged
  BY IncludesOfFile DEF IInv, AlphasJudged, Rank
<1> QED
  BY <1>1, Inductive, PTL

(* CheckForIncludeWhatYouUse does not depend on the order of a dictionary.  *)
THEOREM MissingAlwaysDetermined == Spec => []MissingIsDetermined
<1>1. IInv => MissingIsDetermined
  BY MissingOfFound DEF IInv
<1> QED
  BY <1>1, Inductive, PTL
=============================================================================
