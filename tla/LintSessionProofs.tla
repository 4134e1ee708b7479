-------------------------- MODULE LintSessionProofs --------------------------
(* Proofs about clint.py's session: whatever the command line, the files    *)
(* and what the checks find in them, the NOLINT comments in force are those *)
(* of the file at hand, and the counts and the exit status agree with what  *)
(* is printed.                                                             *)
EXTENDS LintSession, FiniteSetTheorems, InductionLemmas, TLAPS

(* What the checks and the phases of a file may report.                    *)
Categories == {f.category : f \in Findings \cup {Legal, Guard(0), Comment, Nolint, Newline}}
Finding == [category : Categories, confidence : Nat]
Message == [file : Nat, line : Nat, category : Categories, confidence : Nat,
            covered : BOOLEAN]
IsLint == lint = [verbose_level |-> lint.verbose_level, filters |-> lint.filters,
                  counting |-> lint.counting, error_count |-> lint.error_count,
                  errors_by_category |-> lint.errors_by_category]

(* What is printed is neither covered by a NOLINT nor below the verbosity.  *)
PrintedAreUncovered ==
  \A i \in DOMAIN messages :
    ~ messages[i].covered /\ messages[i].confidence >= lint.verbose_level

(* The part of the invariant about what has been printed.                  *)
Printed == IsLint /\ messages \in Seq(Message) /\ CountsAgree /\ PrintedAreUncovered

(* The NOLINT comments of a file, in the form of _error_suppressions.       *)
NolintsOf(number) == {<<m.category, m.line>> : m \in {k \in nolints : k.file = number}}

(* A file is being processed.                                              *)
InFile == pc \in {"copyright", "guard", "endif", "comments", "nolint", "checks", "finished"}

(* _error_suppressions holds the comments of the file at hand and no other. *)
SuppressionsAreTheFiles == InFile => suppressions = NolintsOf(file.number)

(* The part about files and their comments.                                *)
FilesInv ==
  /\ file \in [number : Nat, extension : {"none", "c", "h"}, length : Nat, crlf : BOOLEAN]
  /\ linenum \in Nat
  /\ \A m \in nolints : m.file \in Nat /\ m.file <= file.number
  /\ SuppressionsAreTheFiles

(* The part about the end of the program.                                  *)
ExitInv ==
  /\ pc \in {"getopt", "options"} => file.number = 0 /\ messages = <<>>
  /\ (exit # 2 <=> pc = "exit") /\ exit \in {0, 1, 2}
  /\ ExitStatus

(* The options that have not been looked at are options of a command line.  *)
Options == UNION {Range(a) : a \in ArgumentLists}

(* The part about the options: what was given is what is in force.          *)
GivenInv ==
  /\ args \in Seq(Options)
  /\ given = [verbosity |-> given.verbosity, filters |-> given.filters,
              counting |-> given.counting]
  /\ given.filters \in Seq(Filter)
  /\ InFile \/ pc = "open" => /\ lint.verbose_level = given.verbosity
                              /\ lint.filters = SetFilters(given.filters)
                              /\ AllSigned(lint.filters)

(* The selection s and the next error, if it is visible.                    *)
WithVisible(s, r) == IF Visible(r) THEN Append(s, r) ELSE s

(* f[n] are the visible ones of the first n errors reported.                *)
Selects(f) ==
  f[0] = <<>> /\ \A n \in 1 .. Len(reported) : f[n] = WithVisible(f[n - 1], reported[n])

(* The part about the errors reported: the messages are the visible ones.   *)
ReportedInv ==
  /\ reported \in Seq(Message)
  /\ \E f : /\ f = [n \in 0 .. Len(reported) |-> f[n]]
           /\ Selects(f) /\ messages = f[Len(reported)]
  /\ pc \in {"getopt", "options"} => reported = <<>>

(* The checks of a line run on a line of the file.                         *)
LineInFile == pc = "checks" => linenum \in Lines

(* The inductive invariant.                                                *)
Inv == TypeOK /\ LineInFile /\ Printed /\ FilesInv /\ ExitInv /\ GivenInv /\ ReportedInv

-----------------------------------------------------------------------------
(* Counting.                                                               *)

(* How often c occurs among the first n values of g.                       *)
Count(g, n, c) == Cardinality({i \in 1 .. n : g[i] = c})

(* One more element.                                                       *)
LEMMA CountNext ==
  ASSUME NEW n \in Nat, NEW g, NEW c
  PROVE  /\ Count(g, n, c) \in Nat
         /\ g[n + 1] = c => Count(g, n + 1, c) = Count(g, n, c) + 1
         /\ g[n + 1] # c => Count(g, n + 1, c) = Count(g, n, c)
<1> DEFINE A == {i \in 1 .. n : g[i] = c}
           B == {i \in 1 .. n + 1 : g[i] = c}
<1>1. IsFiniteSet(A)
  <2>1. IsFiniteSet(1 .. n)
    BY FS_Interval
  <2>2. A \subseteq 1 .. n
    OBVIOUS
  <2> QED
    BY <2>1, <2>2, FS_Subset
<1>2. g[n + 1] = c => B = A \cup {n + 1} /\ n + 1 \notin A
  OBVIOUS
<1>3. g[n + 1] # c => B = A
  OBVIOUS
<1>0. Count(g, n, c) = Cardinality(A) /\ Count(g, n + 1, c) = Cardinality(B)
  BY DEF Count
<1> HIDE DEF A, B
<1>4. Cardinality(A) \in Nat
  BY <1>1, FS_CardinalityType
<1>5. n + 1 \notin A => Cardinality(A \cup {n + 1}) = Cardinality(A) + 1
  BY <1>1, FS_AddElement
<1> QED
  BY <1>0, <1>2, <1>3, <1>4, <1>5

(* Nothing has been counted as c.                                          *)
LEMMA CountNothing ==
  ASSUME NEW n \in Nat, NEW g, NEW c, \A i \in 1 .. n : g[i] # c
  PROVE  Count(g, n, c) = 0
<1>1. {i \in 1 .. n : g[i] = c} = {}
  OBVIOUS
<1> QED
  BY <1>1, FS_EmptySet DEF Count
(* A function without arguments is the empty sequence.                     *)
LEMMA EmptyFunction ==
  ASSUME NEW g, NEW S, S = {}
  PROVE  [c \in S |-> g[c]] = <<>>
OBVIOUS

-----------------------------------------------------------------------------
(* What is printed.                                                        *)

(* An error on a line of the file at hand is printed unless a comment of    *)
(* the file covers it.                                                     *)
LEMMA UncoveredIfPrinted ==
  ASSUME SuppressionsAreTheFiles, InFile, NEW f, NEW l, _ShouldPrintError(f, l)
  PROVE  ~ Covered(f, l)
<1> SUFFICES ASSUME NEW k \in nolints, k.file = file.number, k.line = l,
                    k.category \in {All, f.category}
             PROVE  FALSE
  BY DEF Covered
<1>1. <<k.category, l>> \in NolintsOf(file.number)
  BY DEF NolintsOf
<1>2. <<k.category, l>> \in suppressions
  BY <1>1 DEF SuppressionsAreTheFiles
<1> QED
  BY <1>2 DEF _ShouldPrintError, IsErrorSuppressedByNolint

(* The counts of the first n values of g, and of one more.                 *)
Tally(g, n) == [c \in {g[i] : i \in 1 .. n} |-> Count(g, n, c)]

More(counts, counted) ==
  [c \in DOMAIN counts \cup {counted} |->
     (IF c \in DOMAIN counts THEN counts[c] ELSE 0) + (IF c = counted THEN 1 ELSE 0)]

(* One more value counts once more.                                        *)
LEMMA TallyNext ==
  ASSUME NEW n \in Nat, NEW g
  PROVE  More(Tally(g, n), g[n + 1]) = Tally(g, n + 1)
<1> DEFINE counts == Tally(g, n)
           counted == g[n + 1]
<1> DEFINE S == {g[i] : i \in 1 .. n}
           T == {g[i] : i \in 1 .. n + 1}
<1>1. T = S \cup {counted} /\ DOMAIN counts = S
  BY DEF Tally
<1>2. ASSUME NEW c \in T
      PROVE  Count(g, n + 1, c) = (IF c \in DOMAIN counts THEN counts[c] ELSE 0)
                                  + (IF c = counted THEN 1 ELSE 0)
  <2>1. /\ Count(g, n, c) \in Nat
        /\ counted = c => Count(g, n + 1, c) = Count(g, n, c) + 1
        /\ counted # c => Count(g, n + 1, c) = Count(g, n, c)
    BY CountNext
  <2>2. c \in S => counts[c] = Count(g, n, c)
    BY DEF Tally
  <2>3. c \notin S => Count(g, n, c) = 0
    <3>1. c \notin S => \A i \in 1 .. n : g[i] # c
      OBVIOUS
    <3> QED
      BY <3>1, CountNothing
  <2> HIDE DEF S, counts, counted
  <2> QED
    BY <1>1, <2>1, <2>2, <2>3
<1> HIDE DEF T, counts, counted
<1>3. More(counts, counted) = [c \in T |-> Count(g, n + 1, c)]
  BY <1>1, <1>2 DEF More
<1> QED
  BY <1>3 DEF T, counts, counted, Tally

(* The counts by category of the messages m, in one style of counting.     *)
CountedIn(counting, category) == IF counting = "detailed" THEN category ELSE <<Head(category)>>

Counts(style, m) == [c \in {CountedIn(style, m[i].category) : i \in DOMAIN m} |->
                       Cardinality({i \in DOMAIN m : CountedIn(style, m[i].category) = c})]

(* IncrementErrorCount keeps the counts those of the messages.              *)
LEMMA CountsOfAppend ==
  ASSUME NEW m \in Seq(Message), NEW x \in Message, NEW style
  PROVE  More(Counts(style, m), CountedIn(style, x.category)) = Counts(style, Append(m, x))
<1> DEFINE n == Len(m)
           after == Append(m, x)
           g == [i \in 1 .. n + 1 |-> CountedIn(style, after[i].category)]
<1>1. n \in Nat /\ DOMAIN m = 1 .. n /\ DOMAIN after = 1 .. n + 1
      /\ after[n + 1] = x /\ \A i \in 1 .. n : after[i] = m[i]
  OBVIOUS
<1> HIDE DEF n, after
<1>2. g[n + 1] = CountedIn(style, x.category) /\ \A i \in 1 .. n : g[i] = CountedIn(style, m[i].category)
  BY <1>1
<1>3. \A i \in 1 .. n + 1 : g[i] = CountedIn(style, after[i].category)
  OBVIOUS
<1> HIDE DEF g
<1>4. Counts(style, m) = Tally(g, n)
  <2>1. {g[i] : i \in 1 .. n} = {CountedIn(style, m[i].category) : i \in DOMAIN m}
    BY <1>1, <1>2
  <2>2. ASSUME NEW c
        PROVE  {i \in 1 .. n : g[i] = c} = {i \in DOMAIN m : CountedIn(style, m[i].category) = c}
    BY <1>1, <1>2
  <2> QED
    BY <2>1, <2>2 DEF Counts, Count, Tally
<1>5. Counts(style, after) = Tally(g, n + 1)
  <2>1. {g[i] : i \in 1 .. n + 1} = {CountedIn(style, after[i].category) : i \in DOMAIN after}
    BY <1>1, <1>3
  <2>2. ASSUME NEW c
        PROVE  {i \in 1 .. n + 1 : g[i] = c}
                 = {i \in DOMAIN after : CountedIn(style, after[i].category) = c}
    BY <1>1, <1>3
  <2> QED
    BY <2>1, <2>2 DEF Counts, Count, Tally
<1>6. More(Tally(g, n), g[n + 1]) = Tally(g, n + 1)
  BY <1>1, TallyNext
<1> QED
  BY <1>2, <1>4, <1>5, <1>6 DEF after

(* The agreement of the counts of l with the messages m.                   *)
Agree(l, m) ==
  /\ l.error_count = Len(m)
  /\ l.errors_by_category =
       IF l.counting \in {"toplevel", "detailed"} THEN Counts(l.counting, m) ELSE <<>>

(* CountsAgree in these words.                                             *)
LEMMA CountsAgreeIff ==
  /\ CountsAgree <=> Agree(lint, messages)
  /\ CountsAgree' <=> Agree(lint', messages')
BY DEF CountsAgree, CountedAs, Agree, Counts, CountedIn

(* What is printed and how it is counted stays in order if neither changes. *)
LEMMA NothingPrinted ==
  ASSUME Printed, lint' = lint, messages' = messages
  PROVE  Printed'
<1>1. CountsAgree'
  <2>1. CountsAgree' <=> Agree(lint', messages')
    BY CountsAgreeIff
  <2> QED
    BY <2>1, CountsAgreeIff DEF Printed
<1> QED
  BY <1>1 DEF Printed, IsLint, PrintedAreUncovered

(* Whether printed or not, an error leaves what is printed in order.        *)
LEMMA ErrorPrints ==
  ASSUME Printed, SuppressionsAreTheFiles, InFile, file.number \in Nat,
         NEW f \in Finding, NEW l \in Nat, Error(f, l)
  PROVE  Printed'
<1> DEFINE x == [file |-> file.number, line |-> l, category |-> f.category,
                 confidence |-> f.confidence, covered |-> Covered(f, l)]
<1>1. CASE ~ _ShouldPrintError(f, l)
  <2>1. lint' = lint /\ messages' = messages
    BY <1>1 DEF Error
  <2> QED
    BY <2>1, NothingPrinted
<1>2. CASE _ShouldPrintError(f, l)
  <2>1. lint' = IncrementErrorCount(f.category) /\ messages' = Append(messages, x)
    BY <1>2 DEF Error
  <2>2. ~ x.covered /\ x.confidence >= lint.verbose_level
    BY <1>2, UncoveredIfPrinted DEF _ShouldPrintError
  <2>3. x \in Message /\ x.category = f.category
    BY DEF Message, Finding, Covered
  <2>4. lint' = [verbose_level |-> lint.verbose_level, filters |-> lint.filters,
                 counting |-> lint.counting, error_count |-> lint.error_count + 1,
                 errors_by_category |->
                   IF lint.counting \in {"toplevel", "detailed"}
                     THEN More(lint.errors_by_category,
                               CountedIn(lint.counting, f.category))
                     ELSE lint.errors_by_category]
    BY <2>1 DEF Printed, IsLint, IncrementErrorCount, More, CountedAs, CountedIn
  <2> HIDE DEF x
  <2>5. IsLint' /\ lint'.verbose_level = lint.verbose_level /\ lint'.counting = lint.counting
    BY <2>4 DEF IsLint
  <2>6. messages' \in Seq(Message) /\ Len(messages') = Len(messages) + 1
        /\ Len(messages) \in Nat
    BY <2>1, <2>3 DEF Printed
  <2>7. PrintedAreUncovered'
    BY <2>1, <2>2, <2>3, <2>5, <2>6 DEF Printed, PrintedAreUncovered
  <2>8. CountsAgree'
    <3>1. CountsAgree' <=> Agree(lint', messages')
      BY CountsAgreeIff
    <3>2. Agree(lint, messages)
      BY CountsAgreeIff DEF Printed
    <3>3. More(Counts(lint.counting, messages), CountedIn(lint.counting, f.category))
            = Counts(lint.counting, messages')
      BY <2>1, <2>3, CountsOfAppend DEF Printed
    <3>4. lint'.error_count = Len(messages')
      BY <2>4, <2>6, <3>2 DEF Agree
    <3>5. lint'.errors_by_category =
            IF lint.counting \in {"toplevel", "detailed"}
              THEN Counts(lint.counting, messages') ELSE <<>>
      BY <2>4, <3>2, <3>3 DEF Agree
    <3> QED
      BY <2>5, <3>1, <3>4, <3>5 DEF Agree
  <2> QED
    BY <2>5, <2>6, <2>7, <2>8 DEF Printed
<1> QED
  BY <1>1, <1>2

(* The checks report categories that can be counted.                       *)
LEMMA CategoriesOfTheCode ==
  /\ Legal \in Finding /\ Comment \in Finding /\ Nolint \in Finding /\ Newline \in Finding
  /\ \A level \in Nat : Guard(level) \in Finding
  /\ Findings \subseteq Finding
<1>1. Legal \in Finding /\ Comment \in Finding /\ Nolint \in Finding /\ Newline \in Finding
  BY DEF Finding, Categories, Legal, Comment, Nolint, Newline
<1>2. ASSUME NEW level \in Nat
      PROVE  Guard(level) \in Finding
  <2>1. Guard(0).category \in Categories
    BY DEF Categories
  <2>2. Guard(level) = [category |-> Guard(0).category, confidence |-> level]
    BY DEF Guard
  <2> QED
    BY <2>1, <2>2 DEF Finding
<1>3. Findings \subseteq Finding
  BY SessionAssumption DEF Finding, Categories
<1> QED
  BY <1>1, <1>2, <1>3

-----------------------------------------------------------------------------
(* The NOLINT comments of a file.                                          *)

(* A comment on a line joins those of its file, in both records of them.    *)
LEMMA ParseNolintRecords ==
  ASSUME FilesInv, InFile, NEW l \in Nat, ParseNolint(l), file' = file, InFile'
  PROVE  /\ SuppressionsAreTheFiles'
         /\ \A m \in nolints' : m.file \in Nat /\ m.file <= file.number
<1>1. CASE text[l] = Unknown
  BY <1>1 DEF ParseNolint, FilesInv, SuppressionsAreTheFiles, NolintsOf
<1>2. CASE text[l] # Unknown
  <2> DEFINE new == {[file |-> file.number, line |-> l, category |-> c] :
                       c \in {text[l]} \ {None}}
  <2>1. suppressions' = suppressions \cup ({text[l]} \ {None}) \X {l}
        /\ nolints' = nolints \cup new
    BY <1>2 DEF ParseNolint
  <2>2. {<<m.category, m.line>> : m \in {k \in new : k.file = file.number}}
          = ({text[l]} \ {None}) \X {l}
    <3> DEFINE r == [file |-> file.number, line |-> l, category |-> text[l]]
    <3>1. CASE text[l] = None
      <4>1. new = {}
        BY <3>1
      <4> QED
        BY <3>1, <4>1
    <3>2. CASE text[l] # None
      <4>1. new = {r} /\ r.file = file.number /\ r.category = text[l] /\ r.line = l
        BY <3>2
      <4> HIDE DEF new, r
      <4> QED
        BY <3>2, <4>1
    <3> QED
      BY <3>1, <3>2
  <2>3. \A m \in new : m.file = file.number
    OBVIOUS
  <2> HIDE DEF new
  <2>4. {<<m.category, m.line>> : m \in {k \in nolints' : k.file = file.number}}
          = suppressions \cup ({text[l]} \ {None}) \X {l}
    BY <2>1, <2>2 DEF FilesInv, SuppressionsAreTheFiles, NolintsOf
  <2>5. file.number \in Nat
    BY DEF FilesInv
  <2> QED
    BY <2>1, <2>3, <2>4, <2>5 DEF SuppressionsAreTheFiles, NolintsOf, FilesInv
<1> QED
  BY <1>1, <1>2

-----------------------------------------------------------------------------
(* Which errors are printed.                                               *)

(* The loop of _ShouldPrintError after its first n filters.                 *)
FilteredBy(f, filters, category, n) ==
  /\ f[0] = FALSE
  /\ \A i \in 1 .. n :
       f[i] = IF IsPrefix(filters[i].prefix, category) THEN filters[i].sign = "-" ELSE f[i - 1]

(* IsFiltered is the value after the last filter.                           *)
LEMMA IsFilteredByLoop ==
  ASSUME NEW S, NEW filters \in Seq(S), NEW category
  PROVE  \E f \in [0 .. Len(filters) -> BOOLEAN] :
           /\ FilteredBy(f, filters, category, Len(filters))
           /\ IsFiltered(filters, category) = f[Len(filters)]
<1> DEFINE n == Len(filters)
           Matches(i) == IsPrefix(filters[i].prefix, category)
           Loop(f) == f = [i \in 0 .. n |-> IF i = 0 THEN FALSE
                                           ELSE IF Matches(i) THEN filters[i].sign = "-"
                                           ELSE f[i - 1]]
           step == [p \in Nat \X BOOLEAN |->
                      IF p[1] \in 1 .. n /\ Matches(p[1]) THEN filters[p[1]].sign = "-" ELSE p[2]]
<1>0. n \in Nat
  OBVIOUS
<1>1. step \in [Nat \X BOOLEAN -> BOOLEAN]
  <2>1. ASSUME NEW p \in Nat \X BOOLEAN
        PROVE  p[2] \in BOOLEAN
    OBVIOUS
  <2> HIDE DEF n, Matches
  <2> QED
    BY <2>1, Zenon
<1>2. PICK g \in [0 .. n -> BOOLEAN] :
        g[0] = FALSE /\ \A i \in 1 .. n : g[i] = step[<<i, g[i - 1]>>]
  <2> DEFINE base == FALSE
             V == BOOLEAN
  <2>1. base \in V /\ step \in [Nat \X V -> V]
    BY <1>1
  <2> HIDE DEF n, step, base, V
  <2>2. \E g : Recursive(g, V, base, step, n)
    BY <1>0, <2>1, RecursionExists, Zenon
  <2> QED
    BY <2>2, Zenon DEF base, V, Recursive
<1>3. Loop(g)
  <2>1. ASSUME NEW i \in 1 .. n
        PROVE  g[i] = IF Matches(i) THEN filters[i].sign = "-" ELSE g[i - 1]
    <3>1. i \in Nat /\ i - 1 \in 0 .. n
      BY <1>0
    <3>2. g[i - 1] \in BOOLEAN /\ g[i] = step[<<i, g[i - 1]>>]
      BY <1>2, <3>1
    <3> DEFINE b == g[i - 1]
    <3>3. <<i, b>> \in Nat \X BOOLEAN
      BY <3>1, <3>2
    <3> HIDE DEF n, Matches, b
    <3>4. step[<<i, b>>] = IF Matches(i) THEN filters[i].sign = "-" ELSE b
      BY <3>3, Zenon
    <3> QED
      BY <3>2, <3>4 DEF b
  <2>2. g = [i \in 0 .. n |-> g[i]]
    BY <1>2
  <2>3. \A i \in 0 .. n : i # 0 => i \in 1 .. n
    BY <1>0
  <2> HIDE DEF n, Matches, step
  <2>4. ASSUME NEW i \in 0 .. n
        PROVE  g[i] = IF i = 0 THEN FALSE
                      ELSE IF Matches(i) THEN filters[i].sign = "-" ELSE g[i - 1]
    BY <1>2, <2>1, <2>3, Zenon
  <2> QED
    BY <2>2, <2>4, Zenon
<1> DEFINE f == CHOOSE h : Loop(h)
<1>4. Loop(f)
  <2> HIDE DEF Loop
  <2> QED
    BY <1>3, Zenon
<1>5. IsFiltered(filters, category) = f[n]
  BY DEF IsFiltered
<1> HIDE DEF f
<1>6. f[0] = FALSE
  BY <1>0, <1>4
<1>7. ASSUME NEW i \in 1 .. n
      PROVE  f[i] = IF Matches(i) THEN filters[i].sign = "-" ELSE f[i - 1]
  <2>1. i \in 0 .. n /\ i # 0
    BY <1>0
  <2> HIDE DEF n, Matches
  <2> QED
    BY <1>4, <2>1, Zenon
<1>8. f \in [0 .. n -> BOOLEAN]
  <2>1. f = [i \in 0 .. n |-> f[i]]
    BY <1>4
  <2> DEFINE T == {k \in Nat : k \in 0 .. n => f[k] \in BOOLEAN}
  <2>2. 0 \in T
    BY <1>6
  <2>3. ASSUME NEW k \in Nat, k \in T, k + 1 \in 0 .. n
        PROVE  f[k + 1] \in BOOLEAN
    <3>1. k + 1 \in 1 .. n /\ k + 1 - 1 = k /\ f[k] \in BOOLEAN
      BY <1>0, <2>3
    <3>2. f[k + 1] = IF Matches(k + 1) THEN filters[k + 1].sign = "-" ELSE f[k]
      BY <1>7, <3>1
    <3> HIDE DEF Matches
    <3> QED
      BY <3>1, <3>2, Zenon
  <2>4. \A k \in Nat : k \in T => k + 1 \in T
    BY <2>3
  <2>5. \A k \in Nat : k \in T
    <3> HIDE DEF T
    <3> QED
      BY <2>2, <2>4, SetInduction
  <2>6. \A k \in 0 .. n : f[k] \in BOOLEAN
    BY <1>0, <2>5
  <2> QED
    BY <2>1, <2>6
<1>9. FilteredBy(f, filters, category, n)
  BY <1>6, <1>7 DEF FilteredBy
<1> QED
  BY <1>5, <1>8, <1>9

(* The filters that match a category.                                      *)
Matching(filters, category) ==
  {i \in DOMAIN filters : IsPrefix(filters[i].prefix, category)}

(* The last filter that matches decides, and nothing is filtered without.   *)
LEMMA LastMatchDecides ==
  ASSUME NEW S, NEW filters \in Seq(S), NEW category
  PROVE  /\ Matching(filters, category) = {} => ~ IsFiltered(filters, category)
         /\ Matching(filters, category) # {} =>
              (IsFiltered(filters, category)
                 <=> filters[Max(Matching(filters, category))].sign = "-")
<1> DEFINE n == Len(filters)
           M == Matching(filters, category)
<1>0. n \in Nat /\ DOMAIN filters = 1 .. n
  OBVIOUS
<1>1. PICK f \in [0 .. n -> BOOLEAN] : FilteredBy(f, filters, category, n)
                                      /\ IsFiltered(filters, category) = f[n]
  BY IsFilteredByLoop
<1> HIDE DEF n
<1>2. \A i \in 1 .. n : i \in M <=> IsPrefix(filters[i].prefix, category)
  BY <1>0 DEF Matching
<1>3. M \subseteq 1 .. n
  BY <1>0 DEF Matching
<1> HIDE DEF M
<1>4. ASSUME NEW m \in 0 .. n, \A i \in m + 1 .. n : i \notin M
      PROVE  f[n] = f[m]
  <2> DEFINE T == {k \in Nat : m + k <= n => f[m + k] = f[m]}
  <2>1. 0 \in T
    BY <1>0
  <2>2. ASSUME NEW k \in Nat, k \in T, m + k + 1 <= n
        PROVE  f[m + (k + 1)] = f[m]
    <3>1. m + k + 1 \in 1 .. n /\ m + k + 1 \in m + 1 .. n /\ f[m + k] = f[m]
          /\ m + k + 1 - 1 = m + k /\ m + (k + 1) = m + k + 1
      BY <1>0, <2>2
    <3> DEFINE j == m + k + 1
    <3>2. j \in 1 .. n /\ ~ IsPrefix(filters[j].prefix, category)
      BY <1>2, <1>4, <3>1
    <3>3. f[j] = f[j - 1]
      <4> HIDE DEF j
      <4> QED
        BY <1>1, <3>2, Zenon DEF FilteredBy
    <3> QED
      BY <3>1, <3>3
  <2>3. \A k \in Nat : k \in T => k + 1 \in T
    BY <1>0, <2>2
  <2>4. \A k \in Nat : k \in T
    <3> HIDE DEF T
    <3> QED
      BY <2>1, <2>3, SetInduction
  <2>5. n - m \in Nat /\ m + (n - m) = n
    BY <1>0
  <2>6. n - m \in T
    BY <2>4, <2>5
  <2> QED
    BY <1>0, <2>5, <2>6
<1>5. CASE M = {}
  <2>1. f[n] = f[0]
    BY <1>0, <1>4, <1>5
  <2> QED
    BY <1>1, <1>5, <2>1, Zenon DEF FilteredBy, M
<1>6. CASE M # {}
  <2>1. Max(M) \in M /\ \A x \in M : x <= Max(M)
    BY <1>0, <1>3, <1>6, MaxIsGreatest
  <2>2. Max(M) \in 1 .. n /\ Max(M) \in 0 .. n /\ \A i \in Max(M) + 1 .. n : i \notin M
    BY <1>0, <1>3, <2>1
  <2>3. f[n] = f[Max(M)]
    BY <1>4, <2>2
  <2>4. f[Max(M)] = (filters[Max(M)].sign = "-")
    BY <1>1, <1>2, <2>1, <2>2, Zenon DEF FilteredBy
  <2> QED
    BY <1>1, <1>6, <2>3, <2>4, Zenon DEF M
<1> QED
  BY <1>5, <1>6

(* SetFilters puts the default in front: it decides if the flag does not.   *)
LEMMA FilteredIffNotPassing ==
  ASSUME given.filters \in Seq(Filter), AllSigned(SetFilters(given.filters)), NEW category
  PROVE  IsFiltered(SetFilters(given.filters), category) <=> ~ Passes(category)
<1> DEFINE flags == given.filters
           all == SetFilters(flags)
           n == Len(flags)
           M == Matching(flags, category)
           N == Matching(all, category)
<1>1. /\ n \in Nat /\ DOMAIN flags = 1 .. n /\ DOMAIN all = 1 .. n + 1
      /\ all[1] = _DEFAULT_FILTERS[1] /\ \A i \in 1 .. n : all[i + 1] = flags[i]
  BY DEF SetFilters, _DEFAULT_FILTERS
<1>2. all \in Seq(Filter \cup {_DEFAULT_FILTERS[1]})
  BY DEF SetFilters, _DEFAULT_FILTERS
<1>3. \A i \in 1 .. n + 1 : all[i].sign \in {"+", "-"}
  BY <1>1 DEF AllSigned
<1>4. all[1].sign = "-"
  BY <1>1 DEF _DEFAULT_FILTERS
<1> HIDE DEF flags, all, n
<1>5. M \subseteq 1 .. n /\ N \subseteq 1 .. n + 1 /\ \A i \in 1 .. n : i \in M <=> i + 1 \in N
  BY <1>1 DEF Matching
<1>6. 1 \in N <=> IsPrefix(_DEFAULT_FILTERS[1].prefix, category)
  BY <1>1 DEF Matching
<1>7. /\ N = {} => ~ IsFiltered(all, category)
      /\ N # {} => (IsFiltered(all, category) <=> all[Max(N)].sign = "-")
  BY <1>2, LastMatchDecides
<1>8. Passes(category) <=> IF M # {} THEN flags[Max(M)].sign = "+"
                                   ELSE ~ IsPrefix(_DEFAULT_FILTERS[1].prefix, category)
  BY DEF Passes, Matching, flags
<1> HIDE DEF M, N
<1>9. N # {} => Max(N) \in N /\ \A x \in N : x <= Max(N)
  <2>1. N \subseteq 0 .. n + 1 /\ n + 1 \in Nat
    BY <1>1, <1>5
  <2> QED
    BY <2>1, MaxIsGreatest
<1>10. CASE M # {}
  <2>1. Max(M) \in M /\ \A x \in M : x <= Max(M)
    <3>1. M \subseteq 0 .. n
      BY <1>1, <1>5
    <3> QED
      BY <1>1, <1>10, <3>1, MaxIsGreatest
  <2>2. Max(M) + 1 \in N /\ Max(M) \in 1 .. n
    BY <1>5, <2>1
  <2>3. Max(N) \in 2 .. n + 1 /\ Max(N) - 1 \in M
    <3>1. Max(N) \in 1 .. n + 1 /\ Max(N) >= Max(M) + 1
      BY <1>1, <1>5, <1>9, <2>2
    <3>2. Max(N) - 1 \in 1 .. n /\ (Max(N) - 1) + 1 = Max(N)
      BY <1>1, <2>2, <3>1
    <3>3. Max(N) - 1 \in M
      BY <1>5, <1>9, <2>2, <3>2
    <3> QED
      BY <1>1, <3>2, <3>3
  <2>4. Max(N) = Max(M) + 1
    <3>1. Max(N) - 1 <= Max(M) /\ Max(M) + 1 <= Max(N)
      BY <1>9, <2>1, <2>2, <2>3
    <3> QED
      BY <1>1, <2>2, <2>3, <3>1
  <2>5. all[Max(N)] = flags[Max(M)] /\ flags[Max(M)].sign \in {"+", "-"}
    <3>1. Max(M) + 1 \in 1 .. n + 1
      BY <1>1, <2>2
    <3> QED
      BY <1>1, <1>3, <2>2, <2>4, <3>1
  <2>6. IsFiltered(all, category) <=> flags[Max(M)].sign = "-"
    BY <1>7, <2>2, <2>5
  <2>7. Passes(category) <=> flags[Max(M)].sign = "+"
    BY <1>8, <1>10
  <2> QED
    BY <2>5, <2>6, <2>7 DEF all, flags
<1>11. CASE M = {}
  <2>1. N \subseteq {1}
    <3> SUFFICES ASSUME NEW x \in N, x # 1
                 PROVE  FALSE
      OBVIOUS
    <3>1. x - 1 \in 1 .. n /\ (x - 1) + 1 = x
      BY <1>1, <1>5
    <3> QED
      BY <1>5, <1>11, <3>1
  <2>2. 1 \in N => Max(N) = 1
    BY <1>9, <2>1
  <2>3. IsFiltered(all, category) <=> 1 \in N
    BY <1>4, <1>7, <2>1, <2>2
  <2> QED
    BY <1>6, <1>8, <1>11, <2>3 DEF all, flags
<1> QED
  BY <1>10, <1>11

-----------------------------------------------------------------------------
(* Every step preserves the three parts of the invariant.                  *)

(* A step sets up the state, calls Error in a file, or reports nothing.     *)
LEMMA StepReports ==
  ASSUME Inv, [Next]_vars
  PROVE  \/ SetUp
         \/ lint' = lint /\ messages' = messages /\ reported' = reported
         \/ InFile /\ given' = given /\ \E f \in Finding, l \in Nat : Error(f, l)
<1> USE CategoriesOfTheCode
<1>0. file.length \in Nat /\ linenum \in Nat
  BY DEF Inv, FilesInv
<1>1. CASE ParseOption \/ getopt \/ SkipFile \/ OpenFile \/ GuardIsFine \/ GuardWithoutIfndef
           \/ EndLine \/ Finish \/ UNCHANGED vars
  BY <1>1 DEF ParseOption, getopt, SkipFile, OpenFile, GuardIsFine, GuardWithoutIfndef, EndLine,
    Finish, vars, Exit, PrintUsage, PrintCategories, NoError
<1>2. CASE CheckForCopyright \/ GuardWithoutDefine \/ GuardEndif \/ EndifComment
           \/ RemoveMultiLineComments \/ BeginLine \/ CheckFinds \/ CheckFinishedFile
           \/ CarriageReturns
  <2>1. InFile /\ given' = given
    BY <1>2 DEF CheckForCopyright, GuardWithoutDefine, GuardEndif, EndifComment,
      RemoveMultiLineComments, BeginLine, CheckFinds, CheckFinishedFile, CarriageReturns, InFile,
      Goto, command
  <2>2. NoError \/ \E f \in Finding, l \in Nat : Error(f, l)
    <3>1. CASE CheckForCopyright
      BY <3>1 DEF CheckForCopyright
    <3>2. CASE GuardWithoutDefine
      BY <3>2 DEF GuardWithoutDefine
    <3>3. CASE GuardEndif
      <4>1. PICK l \in 0 .. file.length : ParseNolint(l)
        BY <3>3 DEF GuardEndif
      <4>2. l \in Nat
        BY <1>0
      <4> QED
        BY <4>1, <4>2 DEF ParseNolint
    <3>4. CASE EndifComment
      <4>1. PICK level \in {0, 5} : Error(Guard(level), linenum)
        BY <3>4 DEF EndifComment
      <4> QED
        BY <1>0, <4>1
    <3>5. CASE RemoveMultiLineComments
      <4>1. NoError \/ \E l \in 1 .. file.length : Error(Comment, l + 1)
        BY <3>5 DEF RemoveMultiLineComments
      <4>2. \A l \in 1 .. file.length : l + 1 \in Nat
        BY <1>0
      <4> QED
        BY <4>1, <4>2
    <3>6. CASE BeginLine
      BY <1>0, <3>6 DEF BeginLine, ParseNolint
    <3>7. CASE CheckFinds
      BY <1>0, <3>7 DEF CheckFinds
    <3>8. CASE CheckFinishedFile
      <4>1. PICK f \in Findings, l \in 1 .. file.length : Error(f, l)
        BY <3>8 DEF CheckFinishedFile
      <4>2. l \in Nat
        BY <1>0
      <4> QED
        BY <4>1, <4>2
    <3>9. CASE CarriageReturns
      BY <3>9 DEF CarriageReturns
    <3> QED
      BY <1>2, <3>1, <3>2, <3>3, <3>4, <3>5, <3>6, <3>7, <3>8, <3>9
  <2> QED
    BY <2>1, <2>2 DEF NoError
<1> QED
  BY <1>1, <1>2 DEF Next, ParseArguments, ProcessFile, CheckForHeaderGuard, ProcessLine, Exited

(* What is printed.                                                        *)
LEMMA PrintedStep ==
  ASSUME Inv, [Next]_vars
  PROVE  Printed'
<1>0. Printed /\ SuppressionsAreTheFiles /\ file.number \in Nat
  BY DEF Inv, FilesInv
<1>1. CASE lint' = lint /\ messages' = messages
  BY <1>0, <1>1, NothingPrinted
<1>2. CASE SetUp
  <2>1. messages = <<>> /\ messages' = messages
    BY <1>2 DEF SetUp, Exit, Inv, ExitInv
  <2>2. CASE lint' = lint
    BY <1>0, <2>1, <2>2, NothingPrinted
  <2>3. CASE lint' # lint
    <3>1. lint' = [verbose_level |-> given.verbosity, counting |-> given.counting,
                   filters |-> SetFilters(given.filters),
                   error_count |-> 0, errors_by_category |-> <<>>]
      BY <1>2, <2>3 DEF SetUp, Exit
    <3>2. IsLint'
      BY <3>1 DEF IsLint
    <3>3. Agree(lint', <<>>)
      <4>1. {CountedIn(given.counting, messages[i].category) : i \in DOMAIN messages} = {}
            /\ Len(messages) = 0
        BY <2>1
      <4>2. Counts(given.counting, messages) = <<>>
        BY <4>1, EmptyFunction DEF Counts
      <4> QED
        BY <2>1, <3>1, <4>1, <4>2 DEF Agree
    <3> QED
      BY <1>0, <2>1, <3>2, <3>3, CountsAgreeIff DEF Printed, PrintedAreUncovered
  <2> QED
    BY <2>2, <2>3
<1>3. CASE InFile /\ \E f \in Finding, l \in Nat : Error(f, l)
  BY <1>0, <1>3, ErrorPrints
<1> QED
  BY <1>1, <1>2, <1>3, StepReports

(* The files and their comments.                                           *)
LEMMA FilesStep ==
  ASSUME Inv, [Next]_vars
  PROVE  FilesInv'
<1>0. /\ FilesInv /\ file.number \in Nat /\ file.length \in Nat /\ linenum \in Nat
      /\ \A m \in nolints : m.file \in Nat /\ m.file <= file.number
      /\ SuppressionsAreTheFiles
  BY DEF Inv, FilesInv
<1>1. CASE file' = file /\ nolints' = nolints /\ suppressions' = suppressions
           /\ linenum' \in Nat /\ (InFile' => InFile)
  BY <1>0, <1>1 DEF FilesInv, SuppressionsAreTheFiles, NolintsOf
<1>2. CASE ParseOption \/ getopt \/ SetUp \/ GuardWithoutIfndef \/ Finish \/ UNCHANGED vars
  BY <1>0, <1>1, <1>2 DEF ParseOption, getopt, SetUp, GuardWithoutIfndef, Finish, Exit, PrintUsage,
    PrintCategories, vars, perFile, InFile
<1>3. CASE CheckForCopyright \/ GuardIsFine \/ GuardWithoutDefine \/ EndifComment
           \/ CheckFinds \/ EndLine \/ CheckFinishedFile \/ CarriageReturns
  <2>1. file' = file /\ nolints' = nolints /\ suppressions' = suppressions /\ InFile
        /\ linenum' \in {linenum, linenum + 1, 0}
    BY <1>3 DEF CheckForCopyright, GuardIsFine, GuardWithoutDefine, EndifComment, CheckFinds,
      EndLine, CheckFinishedFile, CarriageReturns, perFile, InFile
  <2> QED
    BY <1>0, <1>1, <2>1
<1>4. CASE RemoveMultiLineComments
  BY <1>0, <1>1, <1>4 DEF RemoveMultiLineComments, InFile
<1>5. CASE SkipFile
  <2>1. pc' = "open" /\ file' = [file EXCEPT !.number = @ + 1] /\ linenum' = linenum
        /\ nolints' = nolints
    BY <1>5 DEF SkipFile
  <2>2. ~ InFile' /\ file'.number = file.number + 1
        /\ file' \in [number : Nat, extension : {"none", "c", "h"}, length : Nat, crlf : BOOLEAN]
    BY <1>0, <2>1 DEF FilesInv, InFile
  <2> QED
    BY <1>0, <2>1, <2>2 DEF FilesInv, SuppressionsAreTheFiles
<1>6. CASE OpenFile
  <2>1. PICK extension \in {"c", "h"}, length \in 1 .. MAX_LINES, crlf \in BOOLEAN :
          file' = [number |-> file.number + 1, extension |-> extension,
                   length |-> length, crlf |-> crlf]
    BY <1>6 DEF OpenFile
  <2>2. nolints' = nolints /\ suppressions' = {} /\ linenum' = 0
    BY <1>6 DEF OpenFile, ResetNolintSuppressions
  <2>3. file'.number = file.number + 1
        /\ file' \in [number : Nat, extension : {"none", "c", "h"}, length : Nat, crlf : BOOLEAN]
    BY <1>0, <2>1, SessionAssumption
  <2>4. {k \in nolints : k.file = file.number + 1} = {}
    BY <1>0
  <2> QED
    BY <1>0, <2>2, <2>3, <2>4 DEF FilesInv, SuppressionsAreTheFiles, NolintsOf
<1>7. CASE GuardEndif
  <2>1. PICK l \in 0 .. file.length : ParseNolint(l) /\ linenum' = l
    BY <1>7 DEF GuardEndif
  <2>2. InFile /\ InFile' /\ file' = file /\ l \in Nat
    BY <1>0, <1>7 DEF GuardEndif, Goto, InFile
  <2> QED
    BY <1>0, <2>1, <2>2, ParseNolintRecords DEF FilesInv
<1>8. CASE BeginLine
  <2>1. ParseNolint(linenum) /\ linenum' = linenum /\ InFile /\ InFile' /\ file' = file
    BY <1>8 DEF BeginLine, Goto, InFile
  <2> QED
    BY <1>0, <2>1, ParseNolintRecords DEF FilesInv
<1> QED
  BY <1>2, <1>3, <1>4, <1>5, <1>6, <1>7, <1>8
  DEF Next, ParseArguments, ProcessFile, CheckForHeaderGuard, ProcessLine, Exited

(* The end of the program.                                                 *)
LEMMA ExitStep ==
  ASSUME Inv, [Next]_vars
  PROVE  ExitInv'
<1>0. ExitInv /\ Agree(lint, messages) /\ messages \in Seq(Message)
  BY CountsAgreeIff DEF Inv, Printed
<1>1. CASE UNCHANGED vars
  BY <1>0, <1>1 DEF vars, ExitInv, ExitStatus
<1>2. CASE getopt \/ ParseOption \/ SetUp
  <2>1. file.number = 0 /\ messages = <<>> /\ exit = 2
    BY <1>0, <1>2 DEF ExitInv, getopt, ParseOption, SetUp
  <2>2. file' = file /\ messages' = messages
    BY <1>2 DEF getopt, ParseOption, SetUp, Exit, PrintUsage, PrintCategories, perFile
  <2>3. (exit' \in {0, 1} /\ pc' = "exit") \/ (exit' = 2 /\ pc' \in {"options", "open"})
    BY <1>2, <2>1 DEF getopt, ParseOption, SetUp, Exit, PrintUsage, PrintCategories
  <2> QED
    BY <2>1, <2>2, <2>3 DEF ExitInv, ExitStatus
<1>3. CASE Finish
  <2>1. messages' = messages /\ files' = files /\ files = 0 /\ pc' = "exit"
        /\ exit' = (IF lint.error_count > 0 THEN 1 ELSE 0)
    BY <1>3 DEF Finish, Exit, command
  <2>2. lint.error_count > 0 <=> messages # <<>>
    BY <1>0 DEF Agree
  <2> QED
    BY <2>1, <2>2 DEF ExitInv, ExitStatus
<1>4. CASE GuardWithoutIfndef
  BY <1>4 DEF GuardWithoutIfndef, ExitInv, ExitStatus
<1>5. CASE SkipFile \/ OpenFile \/ CheckForCopyright \/ GuardIsFine \/ GuardWithoutDefine
           \/ GuardEndif \/ EndifComment \/ RemoveMultiLineComments \/ ProcessLine
           \/ CheckFinishedFile \/ CarriageReturns
  <2>1. pc \notin {"exit", "getopt", "options"} /\ exit' = exit
        /\ pc' \notin {"exit", "getopt", "options"}
    BY <1>5 DEF SkipFile, OpenFile, CheckForCopyright, GuardIsFine, GuardWithoutDefine, GuardEndif,
      EndifComment, RemoveMultiLineComments, ProcessLine, BeginLine, CheckFinds, EndLine,
      CheckFinishedFile, CarriageReturns, Goto
  <2> QED
    BY <1>0, <2>1 DEF ExitInv, ExitStatus
<1> QED
  BY <1>1, <1>2, <1>3, <1>4, <1>5
  DEF Next, ParseArguments, ProcessFile, CheckForHeaderGuard, Exited

(* The options.                                                            *)
LEMMA GivenStep ==
  ASSUME Inv, [Next]_vars
  PROVE  GivenInv'
<1>0. GivenInv
  BY DEF Inv
<1>1. CASE getopt \/ UNCHANGED vars
  BY <1>0, <1>1 DEF getopt, vars, command, GivenInv, InFile, Exit, PrintUsage
<1>2. CASE ParseOption
  <2> DEFINE opt == Head(args)
  <2>1. opt \in Options /\ Tail(args) \in Seq(Options)
    <3>1. args \in Seq(Options) /\ args # <<>>
      BY <1>0, <1>2 DEF ParseOption, GivenInv
    <3> QED
      BY <3>1
  <2>2. opt.name = "--filter" => opt.val \in Seq(Filter)
    <3> HIDE DEF opt
    <3> QED
      BY <2>1, SessionAssumption DEF Options
  <2>3. CASE pc' = "exit" /\ args' = args /\ given' = given
    BY <1>0, <2>3 DEF GivenInv, InFile
  <2>4. CASE pc' = pc /\ args' = Tail(args)
             /\ \/ opt.name = "--filter" /\ given' = [given EXCEPT !["filters"] = opt.val]
                \/ given' = [given EXCEPT !["verbosity"] = opt.val]
                \/ given' = [given EXCEPT !["counting"] = opt.val]
    <3>1. pc' \notin {"exit", "open"} /\ ~ InFile'
      BY <1>2, <2>4 DEF ParseOption, InFile
    <3>2. given'.filters \in Seq(Filter)
          /\ given' = [verbosity |-> given'.verbosity, filters |-> given'.filters,
                       counting |-> given'.counting]
      BY <1>0, <2>2, <2>4 DEF GivenInv
    <3> QED
      BY <2>1, <2>4, <3>1, <3>2 DEF GivenInv
  <2> QED
    BY <1>2, <2>1, <2>3, <2>4 DEF ParseOption, PrintUsage, PrintCategories, Exit, command
<1>3. CASE SetUp
  <2>1. args' = args /\ given' = given
    BY <1>3 DEF SetUp, Exit, command
  <2>2. CASE pc' = "exit"
    BY <1>0, <2>1, <2>2 DEF GivenInv, InFile
  <2>3. CASE pc' = "open" /\ AllSigned(SetFilters(given.filters))
             /\ lint' = [verbose_level |-> given.verbosity, counting |-> given.counting,
                         filters |-> SetFilters(given.filters),
                         error_count |-> 0, errors_by_category |-> <<>>]
    BY <1>0, <2>1, <2>3 DEF GivenInv
  <2> QED
    BY <1>3, <2>2, <2>3 DEF SetUp, Exit
<1>4. CASE SkipFile \/ OpenFile
  BY <1>0, <1>4 DEF SkipFile, OpenFile, GivenInv
<1>5. CASE Finish \/ GuardWithoutIfndef
  BY <1>0, <1>5 DEF Finish, GuardWithoutIfndef, Exit, command, GivenInv, InFile
<1>6. CASE CheckForCopyright \/ GuardIsFine \/ GuardWithoutDefine \/ GuardEndif \/ EndifComment
           \/ RemoveMultiLineComments \/ ProcessLine \/ CheckFinishedFile \/ CarriageReturns
  <2>1. InFile /\ args' = args /\ given' = given
    BY <1>6 DEF CheckForCopyright, GuardIsFine, GuardWithoutDefine, GuardEndif, EndifComment,
      RemoveMultiLineComments, ProcessLine, BeginLine, CheckFinds, EndLine, CheckFinishedFile,
      CarriageReturns, Goto, command, InFile
  <2>2. lint'.verbose_level = lint.verbose_level /\ lint'.filters = lint.filters
    <3>1. ~ SetUp
      BY <2>1 DEF InFile, SetUp
    <3>2. ASSUME NEW f, NEW l, Error(f, l)
          PROVE  lint'.verbose_level = lint.verbose_level /\ lint'.filters = lint.filters
      BY <3>2 DEF Error, IncrementErrorCount, Inv, Printed, IsLint
    <3> QED
      BY <3>1, <3>2, StepReports
  <2> QED
    BY <1>0, <2>1, <2>2 DEF GivenInv
<1> QED
  BY <1>1, <1>2, <1>3, <1>4, <1>5, <1>6
  DEF Next, ParseArguments, ProcessFile, CheckForHeaderGuard, Exited

(* In a file, an error is printed if and only if it is visible.             *)
LEMMA PrintedIffVisible ==
  ASSUME GivenInv, SuppressionsAreTheFiles, InFile, NEW f, NEW l, NEW r,
         r.confidence = f.confidence, r.category = f.category, r.covered = Covered(f, l)
  PROVE  _ShouldPrintError(f, l) <=> Visible(r)
<1>1. Covered(f, l) <=> IsErrorSuppressedByNolint(f.category, l)
  <2>1. suppressions = NolintsOf(file.number)
    BY DEF SuppressionsAreTheFiles
  <2>2. ASSUME NEW c
        PROVE  <<c, l>> \in suppressions
                 <=> \E k \in nolints : k.file = file.number /\ k.line = l /\ k.category = c
    BY <2>1 DEF NolintsOf
  <2> QED
    BY <2>2 DEF Covered, IsErrorSuppressedByNolint
<1>2. IsFiltered(lint.filters, f.category) <=> ~ Passes(f.category)
  BY FilteredIffNotPassing DEF GivenInv
<1>3. lint.verbose_level = given.verbosity
  BY DEF GivenInv
<1> QED
  BY <1>1, <1>2, <1>3 DEF _ShouldPrintError, Visible

(* The messages remain the visible ones of the errors reported.             *)
LEMMA ReportedStep ==
  ASSUME Inv, [Next]_vars
  PROVE  ReportedInv'
<1>0. GivenInv /\ ReportedInv /\ FilesInv /\ SuppressionsAreTheFiles /\ file.number \in Nat
  BY DEF Inv, FilesInv
<1>1. PICK f : /\ f = [n \in 0 .. Len(reported) |-> f[n]]
               /\ Selects(f) /\ messages = f[Len(reported)]
  BY <1>0 DEF ReportedInv
<1> DEFINE n == Len(reported)
<1>7. n \in Nat /\ f[0] = <<>> /\ messages = f[n]
  BY <1>0, <1>1 DEF ReportedInv, Selects
<1>8. \A i \in 1 .. n : f[i] = WithVisible(f[i - 1], reported[i])
  BY <1>1 DEF Selects
<1>2. CASE reported' = <<>> /\ messages' = <<>>
  <2> DEFINE g == [k \in 0 .. 0 |-> <<>>]
  <2>1. Len(<<>>) = 0 /\ g = [k \in 0 .. Len(<<>>) |-> g[k]] /\ g[0] = <<>>
    OBVIOUS
  <2> HIDE DEF g
  <2>2. Selects(g)'
    BY <1>2, <2>1 DEF Selects
  <2>3. \E h : /\ h = [k \in 0 .. Len(reported') |-> h[k]]
              /\ Selects(h)' /\ messages' = h[Len(reported')]
    BY <1>2, <2>1, <2>2, Zenon
  <2> QED
    BY <1>2, <2>3 DEF ReportedInv
<1>3. CASE reported' = reported /\ messages' = messages /\ given' = given
           /\ (pc' \in {"getopt", "options"} => reported = <<>>)
  <2>1. Selects(f)'
    BY <1>1, <1>3 DEF Selects, WithVisible, Visible, Passes
  <2>2. \E h : /\ h = [k \in 0 .. Len(reported') |-> h[k]]
              /\ Selects(h)' /\ messages' = h[Len(reported')]
    BY <1>1, <1>3, <2>1, Zenon
  <2> QED
    BY <1>0, <1>3, <2>2 DEF ReportedInv
<1>4. CASE InFile /\ given' = given /\ \E x \in Finding, l \in Nat : Error(x, l)
  <2>1. PICK x \in Finding, l \in Nat : Error(x, l)
    BY <1>4
  <2> DEFINE r == [file |-> file.number, line |-> l, category |-> x.category,
                   confidence |-> x.confidence, covered |-> Covered(x, l)]
  <2>2. r \in Message
    BY <1>0 DEF Message, Finding, Covered
  <2>3. reported' = Append(reported, r)
        /\ messages' = WithVisible(messages, r)
    <3>1. _ShouldPrintError(x, l) <=> Visible(r)
      BY <1>0, <1>4, PrintedIffVisible
    <3> QED
      BY <2>1, <3>1 DEF Error, WithVisible
  <2> HIDE DEF r
  <2>4. /\ n \in Nat /\ Len(reported') = n + 1 /\ reported' \in Seq(Message)
        /\ reported'[n + 1] = r /\ \A i \in 1 .. n : reported'[i] = reported[i]
    BY <1>0, <2>2, <2>3 DEF ReportedInv
  <2> HIDE DEF n
  <2>5. PICK g : /\ g = [i \in 0 .. n + 1 |-> g[i]]
                 /\ \A i \in 0 .. n : g[i] = f[i]
                 /\ g[n + 1] = WithVisible(f[n], r)
    <3> DEFINE h == [i \in 0 .. n + 1 |-> IF i <= n THEN f[i] ELSE WithVisible(f[n], r)]
    <3>1. /\ h = [i \in 0 .. n + 1 |-> h[i]]
          /\ \A i \in 0 .. n : h[i] = f[i]
          /\ h[n + 1] = WithVisible(f[n], r)
      BY <1>7
    <3> HIDE DEF h
    <3> QED
      BY <3>1, Zenon
  <2>6. messages' = g[n + 1]
    BY <1>7, <2>3, <2>5
  <2>7. Selects(g)'
    <3>1. g[0] = <<>>
      BY <1>7, <2>5
    <3>2. ASSUME NEW t, NEW m
          PROVE  WithVisible(t, m)' = WithVisible(t, m)
      BY <1>4 DEF WithVisible, Visible, Passes
    <3>3. ASSUME NEW i \in 1 .. n + 1
          PROVE  g[i] = WithVisible(g[i - 1], reported'[i])
      <4>1. i - 1 \in 0 .. n /\ g[i - 1] = f[i - 1]
        BY <1>7, <2>5
      <4>2. CASE i = n + 1
        <5>1. i - 1 = n /\ reported'[i] = r /\ g[i] = g[n + 1]
          BY <1>7, <2>4, <4>2
        <5> QED
          BY <2>5, <4>1, <5>1
      <4>3. CASE i # n + 1
        <5>1. i \in 1 .. n /\ i \in 0 .. n
          BY <1>7, <4>3
        <5>2. g[i] = f[i] /\ reported'[i] = reported[i]
          BY <2>4, <2>5, <5>1
        <5> QED
          BY <1>8, <4>1, <5>1, <5>2
      <4> QED
        BY <4>2, <4>3
    <3>4. ASSUME NEW i \in 1 .. n + 1
          PROVE  g[i] = WithVisible(g[i - 1], reported[i])'
      BY <3>2, <3>3
    <3>5. Len(reported') = n + 1
      BY <2>4
    <3> HIDE DEF n
    <3> QED
      BY <3>1, <3>4, <3>5 DEF Selects
  <2>8. \E h : /\ h = [i \in 0 .. Len(reported') |-> h[i]]
              /\ Selects(h)' /\ messages' = h[Len(reported')]
    <3>1. Len(reported') = n + 1
      BY <2>4
    <3> QED
      BY <2>5, <2>6, <2>7, <3>1, Zenon
  <2>9. pc' \notin {"getopt", "options"}
    BY <1>4 DEF InFile, Next, vars, ParseArguments, getopt, ParseOption, SetUp, ProcessFile,
      CheckForHeaderGuard, ProcessLine, SkipFile, OpenFile, CheckForCopyright, GuardIsFine,
      GuardWithoutDefine, GuardEndif, EndifComment, GuardWithoutIfndef, RemoveMultiLineComments,
      BeginLine, CheckFinds, EndLine, CheckFinishedFile, CarriageReturns, Goto, Finish, Exit, Exited
  <2> QED
    BY <2>4, <2>8, <2>9 DEF ReportedInv
<1>5. CASE getopt \/ ParseOption \/ SetUp
  <2>1. reported' = <<>> /\ messages' = <<>>
    BY <1>0, <1>5 DEF Inv, ExitInv, ReportedInv, getopt, ParseOption, SetUp, Exit, PrintUsage,
      PrintCategories
  <2> QED
    BY <1>2, <2>1
<1>6. CASE ~ (getopt \/ ParseOption \/ SetUp) /\ lint' = lint /\ messages' = messages
           /\ reported' = reported
  <2>1. given' = given /\ (pc' = pc \/ pc' \notin {"getopt", "options"})
    BY <1>6 DEF Next, vars, ParseArguments, ProcessFile, command,
      CheckForHeaderGuard, ProcessLine, SkipFile, OpenFile, CheckForCopyright, GuardIsFine,
      GuardWithoutDefine, GuardEndif, EndifComment, GuardWithoutIfndef, RemoveMultiLineComments,
      BeginLine, CheckFinds, EndLine, CheckFinishedFile, CarriageReturns, Goto, Finish, Exit, Exited
  <2> QED
    BY <1>0, <1>3, <1>6, <2>1 DEF ReportedInv
<1> QED
  BY <1>4, <1>5, <1>6, StepReports

(* The messages are what PrintedAreVisible calls the visible ones.          *)
LEMMA ReportedAreVisible ==
  ASSUME ReportedInv
  PROVE  PrintedAreVisible
<1> DEFINE n == Len(reported)
           Loop(f) == f = [i \in 0 .. n |->
                             IF i = 0 THEN <<>>
                             ELSE WithVisible(f[i - 1], reported[i])]
<1>0. n \in Nat
  BY DEF ReportedInv
<1>1. PICK f : /\ f = [i \in 0 .. n |-> f[i]] /\ Selects(f) /\ messages = f[n]
  BY DEF ReportedInv
<1>2. Loop(f)
  <2>1. ASSUME NEW i \in 0 .. n
        PROVE  f[i] = IF i = 0 THEN <<>>
                      ELSE WithVisible(f[i - 1], reported[i])
    <3>1. i = 0 \/ i \in 1 .. n
      BY <1>0
    <3>2. 0 \notin 1 .. n
      OBVIOUS
    <3> QED
      BY <1>1, <3>1, <3>2, Zenon DEF Selects
  <2> HIDE DEF n
  <2> QED
    BY <1>1, <2>1, Zenon
<1> DEFINE g == CHOOSE h : Loop(h)
<1>3. Loop(g)
  <2> HIDE DEF Loop
  <2> QED
    BY <1>2, Zenon
<1>4. PrintedAreVisible <=> messages = g[n]
  BY DEF PrintedAreVisible, WithVisible
<1> HIDE DEF g
<1>10. ASSUME NEW i \in 1 .. n
       PROVE  g[i] = WithVisible(g[i - 1], reported[i])
  <2>1. i \in 0 .. n /\ i # 0
    BY <1>0
  <2> HIDE DEF n
  <2> QED
    BY <1>3, <2>1, Zenon
<1> DEFINE S == {k \in Nat : k <= n => g[k] = f[k]}
<1>5. 0 \in S
  BY <1>0, <1>1, <1>3 DEF Selects
<1>6. ASSUME NEW k \in Nat, k \in S, k + 1 <= n
      PROVE  g[k + 1] = f[k + 1]
  <2>1. k + 1 \in 1 .. n /\ k + 1 \in 0 .. n /\ k + 1 # 0 /\ k + 1 - 1 = k /\ g[k] = f[k]
    BY <1>0, <1>6
  <2>2. g[k + 1] = WithVisible(g[k + 1 - 1], reported[k + 1])
    BY <1>10, <2>1
  <2>3. f[k + 1] = WithVisible(f[k + 1 - 1], reported[k + 1])
    BY <1>1, <2>1 DEF Selects
  <2> QED
    BY <2>1, <2>2, <2>3
<1>7. ASSUME NEW k \in Nat, k \in S
      PROVE  k + 1 \in S
  <2>1. k + 1 \in Nat
    OBVIOUS
  <2>2. k + 1 <= n => g[k + 1] = f[k + 1]
    BY <1>6, <1>7
  <2> QED
    BY <2>1, <2>2
<1>8. \A k \in Nat : k \in S
  <2> HIDE DEF S
  <2> QED
    BY <1>5, <1>7, SetInduction
<1>9. g[n] = f[n]
  BY <1>0, <1>8
<1> QED
  BY <1>1, <1>4, <1>9

(* Lines are processed in the file.                                        *)
LEMMA LineStep ==
  ASSUME Inv, [Next]_vars
  PROVE  LineInFile'
<1>1. CASE CheckFinds \/ UNCHANGED vars
  BY <1>1 DEF CheckFinds, vars, perFile, Inv, LineInFile, Lines
<1>2. CASE BeginLine
  BY <1>2 DEF BeginLine, LineInFile, Lines
<1>3. CASE getopt \/ ParseOption \/ SetUp \/ SkipFile \/ OpenFile \/ CheckForCopyright
           \/ CheckForHeaderGuard \/ RemoveMultiLineComments \/ EndLine \/ CheckFinishedFile
           \/ CarriageReturns \/ Finish
  <2>1. pc' # "checks"
    BY <1>3 DEF getopt, ParseOption, SetUp, SkipFile, OpenFile, CheckForCopyright, GuardIsFine,
      GuardWithoutDefine, GuardEndif, EndifComment, GuardWithoutIfndef, RemoveMultiLineComments,
      EndLine, CheckFinishedFile, CarriageReturns, Goto, Finish, Exit, PrintUsage,
      PrintCategories, CheckForHeaderGuard
  <2> QED
    BY <2>1 DEF LineInFile
<1> QED
  BY <1>1, <1>2, <1>3 DEF Next, ParseArguments, ProcessFile, ProcessLine, Exited

(* A comment on a line of the file keeps the types.                         *)
LEMMA ParseNolintTypes ==
  ASSUME TypeOK, NEW l \in Lines, ParseNolint(l)
  PROVE  \A s \in suppressions' : s[1] \notin {None, Unknown} /\ s[2] \in Lines
<1>1. CASE text[l] = Unknown
  BY <1>1 DEF ParseNolint, TypeOK
<1>2. CASE text[l] # Unknown
  BY <1>2 DEF ParseNolint, TypeOK
<1> QED
  BY <1>1, <1>2

(* The types.                                                              *)
LEMMA TypesStep ==
  ASSUME Inv, [Next]_vars
  PROVE  TypeOK'
<1>0. /\ linenum \in 0 .. file.length + 2 /\ file.length \in Nat
      /\ \A s \in suppressions : s[1] \notin {None, Unknown} /\ s[2] \in Lines
  BY DEF Inv, TypeOK, FilesInv
<1>1. lint'.error_count \in Nat
  <2>1. Agree(lint', messages') /\ messages' \in Seq(Message')
    BY PrintedStep, CountsAgreeIff DEF Printed
  <2> QED
    BY <2>1 DEF Agree
<1>2. exit' \in {0, 1, 2}
  BY ExitStep DEF ExitInv
<1>3. SUFFICES linenum' \in 0 .. file'.length + 2
               /\ \A s \in suppressions' : s[1] \notin {None, Unknown} /\ s[2] \in Lines'
  BY <1>1, <1>2 DEF TypeOK
<1>4. CASE file'.length = file.length /\ suppressions' = suppressions /\ linenum' \in {linenum, 0}
  BY <1>0, <1>4 DEF Lines
<1>5. CASE ParseOption \/ getopt \/ SetUp \/ GuardWithoutIfndef \/ Finish \/ UNCHANGED vars
  BY <1>4, <1>5 DEF ParseOption, getopt, SetUp, GuardWithoutIfndef, Finish, Exit, PrintUsage,
    PrintCategories, vars, perFile
<1>6. CASE CheckForCopyright \/ GuardIsFine \/ GuardWithoutDefine \/ EndifComment
           \/ CheckFinds \/ CheckFinishedFile \/ CarriageReturns \/ RemoveMultiLineComments
  BY <1>4, <1>6 DEF CheckForCopyright, GuardIsFine, GuardWithoutDefine, EndifComment, CheckFinds,
    CheckFinishedFile, CarriageReturns, RemoveMultiLineComments, perFile
<1>7. CASE EndLine
  <2>1. linenum' = linenum + 1 /\ file' = file /\ suppressions' = suppressions
    BY <1>7 DEF EndLine, perFile
  <2>2. linenum \in Lines
    BY <1>7 DEF Inv, LineInFile, EndLine
  <2> QED
    BY <1>0, <2>1, <2>2 DEF Lines
<1>8. CASE SkipFile
  <2>1. file'.length = file.length
    BY <1>8 DEF SkipFile, Inv, FilesInv
  <2> QED
    BY <1>4, <1>8, <2>1 DEF SkipFile
<1>9. CASE OpenFile
  <2>1. PICK extension \in {"c", "h"}, length \in 1 .. MAX_LINES, crlf \in BOOLEAN :
          file' = [number |-> file.number + 1, extension |-> extension,
                   length |-> length, crlf |-> crlf]
    BY <1>9 DEF OpenFile
  <2>2. suppressions' = {} /\ linenum' = 0 /\ file'.length \in Nat
    BY <1>9, <2>1, SessionAssumption DEF OpenFile, ResetNolintSuppressions
  <2> QED
    BY <2>2
<1>10. CASE GuardEndif
  <2>1. PICK l \in 0 .. file.length : ParseNolint(l) /\ linenum' = l
    BY <1>10 DEF GuardEndif
  <2>2. file' = file /\ l \in Lines
    BY <1>0, <1>10 DEF GuardEndif, Lines
  <2>3. \A s \in suppressions' : s[1] \notin {None, Unknown} /\ s[2] \in Lines
    BY <2>1, <2>2, ParseNolintTypes DEF Inv
  <2> QED
    BY <1>0, <2>1, <2>2, <2>3 DEF Lines
<1>11. CASE BeginLine
  <2>1. ParseNolint(linenum) /\ linenum' = linenum /\ linenum \in Lines /\ file' = file
    BY <1>11 DEF BeginLine
  <2>2. \A s \in suppressions' : s[1] \notin {None, Unknown} /\ s[2] \in Lines
    BY <2>1, ParseNolintTypes DEF Inv
  <2> QED
    BY <1>0, <2>1, <2>2 DEF Lines
<1> QED
  BY <1>5, <1>6, <1>7, <1>8, <1>9, <1>10, <1>11
  DEF Next, ParseArguments, ProcessFile, CheckForHeaderGuard, ProcessLine, Exited

-----------------------------------------------------------------------------
(* The theorems.                                                           *)

(* Before the first option nothing has happened.                           *)
LEMMA InitInv == Init => Inv
<1> SUFFICES ASSUME Init
             PROVE  Inv
  OBVIOUS
<1>1. lint = _CppLintState /\ messages = <<>>
  BY DEF Init
<1>2. IsLint /\ lint.counting = "total" /\ lint.error_count = 0 /\ lint.errors_by_category = <<>>
  BY <1>1 DEF IsLint, _CppLintState
<1>3. Printed
  BY <1>1, <1>2, CountsAgreeIff DEF Printed, Agree, PrintedAreUncovered
<1>4. FilesInv
  BY DEF Init, FilesInv, SuppressionsAreTheFiles, InFile
<1>5. ExitInv
  BY DEF Init, ExitInv, ExitStatus
<1>6. TypeOK
  <2>1. linenum = 0 /\ file.length = 0 /\ exit = 2 /\ suppressions = {}
    BY DEF Init
  <2> QED
    BY <1>2, <2>1 DEF TypeOK
<1>7. LineInFile
  BY DEF Init, LineInFile
<1>8. GivenInv
  <2>1. args \in Seq(Options)
    <3>1. args \in ArgumentLists
      BY DEF Init
    <3>2. args \in Seq(Range(args))
      BY <3>1, SessionAssumption
    <3>3. Range(args) \subseteq Options
      BY <3>1 DEF Options
    <3> QED
      BY <3>2, <3>3
  <2>2. given = [verbosity |-> lint.verbose_level, filters |-> <<>>, counting |-> ""]
        /\ pc = "getopt"
    BY <1>1 DEF Init
  <2> QED
    <3>1. given.filters = <<>> /\ ~ InFile
          /\ given = [verbosity |-> given.verbosity, filters |-> given.filters,
                      counting |-> given.counting]
      BY <2>2 DEF InFile
    <3>2. pc # "open"
      BY <2>2
    <3>3. <<>> \in Seq(Filter)
      OBVIOUS
    <3> QED
      BY <2>1, <3>1, <3>2, <3>3, Zenon DEF GivenInv
<1>9. ReportedInv
  <2>1. reported = <<>> /\ messages = <<>> /\ Len(<<>>) = 0
    BY DEF Init
  <2> DEFINE f == [n \in 0 .. 0 |-> <<>>]
  <2>2. f = [n \in 0 .. 0 |-> f[n]] /\ f[0] = <<>>
    OBVIOUS
  <2> HIDE DEF f
  <2>3. Selects(f)
    BY <2>1, <2>2 DEF Selects
  <2>4. \E h : /\ h = [n \in 0 .. Len(reported) |-> h[n]]
              /\ Selects(h) /\ messages = h[Len(reported)]
    BY <2>1, <2>2, <2>3, Zenon
  <2> QED
    BY <2>1, <2>4 DEF ReportedInv
<1> QED
  BY <1>3, <1>4, <1>5, <1>6, <1>7, <1>8, <1>9 DEF Inv

(* The invariant holds in every state of every session.                     *)
THEOREM SessionInvariant == Spec => []Inv
<1>1. Inv /\ [Next]_vars => Inv'
  BY TypesStep, LineStep, PrintedStep, FilesStep, ExitStep, GivenStep, ReportedStep DEF Inv
<1> QED
  BY InitInv, <1>1, PTL DEF Spec

(* _error_suppressions and the error count keep their types: what a NOLINT  *)
(* names that is no category suppresses nothing.                           *)
THEOREM SessionTypes == Spec => []TypeOK
<1>1. Inv => TypeOK
  BY DEF Inv
<1> QED
  BY SessionInvariant, <1>1, PTL

(* IncrementErrorCount: whatever is found in whatever files, the counts are *)
(* those of the messages, in each style of counting.                        *)
THEOREM CountsAlwaysAgree == Spec => []CountsAgree
<1>1. Inv => CountsAgree
  BY DEF Inv, Printed
<1> QED
  BY SessionInvariant, <1>1, PTL

(* main: whatever the command line and the files, the exit status says      *)
(* whether anything was printed about a file.                               *)
THEOREM ExitStatusIsTrue == Spec => []ExitStatus
<1>1. Inv => ExitStatus
  BY DEF Inv, ExitInv
<1> QED
  BY SessionInvariant, <1>1, PTL

(* Error and _ShouldPrintError: what is printed are, in their order, the     *)
(* errors that are confident enough, pass the filters of the command line   *)
(* and have no comment on their line of their file.                         *)
THEOREM PrintedAlwaysVisible == Spec => []PrintedAreVisible
<1>1. Inv => PrintedAreVisible
  BY ReportedAreVisible DEF Inv
<1> QED
  BY SessionInvariant, <1>1, PTL

(* _ShouldPrintError: no message was printed below the verbosity or against *)
(* a comment on its line of its file.                                      *)
THEOREM OnlyUncoveredPrinted == Spec => []PrintedAreUncovered
<1>1. Inv => PrintedAreUncovered
  BY DEF Inv, Printed
<1> QED
  BY SessionInvariant, <1>1, PTL

(* ResetNolintSuppressions and ParseNolintSuppressions: while a file is     *)
(* processed the comments in force are its own, all of them and no others.  *)
THEOREM SuppressionsOfTheFile == Spec => []SuppressionsAreTheFiles
<1>1. Inv => SuppressionsAreTheFiles
  BY DEF Inv, FilesInv
<1> QED
  BY SessionInvariant, <1>1, PTL
=============================================================================
