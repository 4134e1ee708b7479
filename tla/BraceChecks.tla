---------------------------- MODULE BraceChecks ----------------------------
(* clint.py, CheckBraces: a line is judged by its braces, and by lines      *)
(* around it: the line where the condition of an "else if" is closed, and   *)
(* the lines before it that begin a statement it ends.                      *)
EXTENDS Integers, CleansedLines

VARIABLES
  braces,      \* the errors of CheckBraces: [line, error]
  prevlinenum  \* of its loop over previous lines; 0 outside of it

braceVars == <<braces, prevlinenum>>

HasAfter(tokens, i, token) == \E j \in i + 1 .. Len(tokens) : tokens[j] = token

(* -1 if there is none.                                                    *)
GetPreviousNonBlankLine(ls, n) ==
  Max({l \in 0 .. n - 1 : ~ Blank(ls[l])} \cup {-1})
TokensAt(ls, l) == IF l = -1 THEN <<>> ELSE Tokens(ls[l])

-----------------------------------------------------------------------------
OpensMore(tokens) == Occurrences(tokens, "(") - Occurrences(tokens, ")")
(* How many more parentheses are opened than closed before each line.       *)
Opened(ls) == SumsBefore([l \in DOMAIN ls |-> OpensMore(Tokens(ls[l]))])
NumOpen(ls, n, m) == Opened(ls)[m + 1] - Opened(ls)[n]

(* A slip: the count begins anew on each line.                             *)
ClosingLinesAlone(ls, n) == {m \in DOMAIN ls : m >= n /\ OpensMore(Tokens(ls[m])) <= 0}
(* Where the parentheses of the lines from line n on are closed.            *)
ClosingLines(ls, n) == {m \in DOMAIN ls : m >= n /\ NumOpen(ls, n, m) <= 0}

(* CloseExpression, from line n: what follows the last parenthesis of the   *)
(* line where they are closed, and nothing if it closes too many.           *)
AfterExpression(ls, n) ==
  LET m == Min(ClosingLines(ls, n))
      tokens == Tokens(ls[m])
      endpos == IF NumOpen(ls, n, m) < 0 THEN Len(tokens)
                                         ELSE Max({i \in DOMAIN tokens : tokens[i] = ")"} \cup {0})
  IN  SubSeq(tokens, endpos + 1, Len(tokens))

IsElse(token) == token \in {"else", "else if"}
(* An else with a brace before it and none after it, or the other way round *)
BraceBefore(tokens) ==
  \E i \in 2 .. Len(tokens) : tokens[i - 1] = "}" /\ IsElse(tokens[i]) /\ ~ HasAfter(tokens, i, "{")
BraceAfter(tokens) ==
  \E i \in 1 .. Len(tokens) - 1 :
    tokens[i] = "else" /\ tokens[i + 1] = "{" /\ ~ Contains(SubSeq(tokens, 1, i), "}")
(* "could be multi-line if"                                                *)
BeginsElseIf(tokens) ==
  \E i \in 2 .. Len(tokens) :
    tokens[i - 1] = "}" /\ tokens[i] = "else if" /\ ~ HasAfter(tokens, i, "{")
HasCondition(tokens) ==
  \E i \in DOMAIN tokens : tokens[i] = "else if" /\ HasAfter(tokens, i, "(")

FollowsCondition(tokens) == BeginsElseIf(tokens) /\ HasCondition(tokens)
(* The condition is closed nowhere, and CloseExpression reads on after the  *)
(* last line.                                                              *)
ReadsPastEnd(ls, n) == FollowsCondition(Tokens(ls[n])) /\ ClosingLines(ls, n) = {}

ErrorOfElse(ls, n) ==
  LET tokens == Tokens(ls[n])
  IN  IF BeginsElseIf(tokens)
        THEN FollowsCondition(tokens) /\ ~ Contains(AfterExpression(ls, n), "{")
        ELSE BraceBefore(tokens) \/ BraceAfter(tokens)

(* The errors found before CloseExpression, and before the loop below.      *)
ErrorsOfPosition(ls, n) ==
  LET tokens == Tokens(ls[n])
      previous == TokensAt(ls, GetPreviousNonBlankLine(ls, n))
      Follows == previous # <<>> /\ Last(previous) \in {";", ":", "}", "{"}
  IN  (IF tokens = <<"{">> /\ ~ Follows THEN {"open"} ELSE {})
        \cup (IF tokens # <<>> /\ IsElse(tokens[1]) /\ previous = <<"}">> THEN {"newline"} ELSE {})
ErrorsOfLine(ls, n) ==
  LET tokens == Tokens(ls[n])
      ClauseAfter(i) == i < Len(tokens) /\ tokens[i + 1] # "{"
      Clause == \E i \in DOMAIN tokens : tokens[i] = "else" /\ ClauseAfter(i)
  IN  ErrorsOfPosition(ls, n)
        \cup (IF ErrorOfElse(ls, n) THEN {"else"} ELSE {})
        \cup (IF Clause /\ ~ Contains(tokens, "else if") THEN {"clause"} ELSE {})
        \cup (IF tokens # <<>> /\ tokens[1] = "do" /\ ClauseAfter(1) THEN {"do"} ELSE {})
Errors(n, errors) == {[line |-> n, error |-> e] : e \in errors}

-----------------------------------------------------------------------------
(* The loop's text: the lines that are joined, from prevlinenum = p to n.   *)
Text(ls, p, n) ==
  IF p = n THEN Tokens(ls[n])
  ELSE LET first == Max({p, 0})
       IN  FlattenSeq([i \in 1 .. n - first + 1 |-> Tokens(ls[first + i - 1])])
FirstLine(ls, p, n) ==
  IF p >= 0 THEN ls[p] ELSE ls[Min({l \in 0 .. n : ~ Blank(ls[l])})]

EndsBlock(text, i) ==
  \E j \in i + 1 .. Len(text) - 1 : text[j] = "}" /\ text[j + 1] = ";"
(* An indented brace, and one with a semicolon after it.                   *)
IsBlock(ls, p, n) ==
  LET first == FirstLine(ls, p, n)
  IN  first.is = "code" /\ Head(first.tokens) = "{" /\ EndsBlock(Text(ls, p, n), 1)

(* A slip: a line that ends a statement is joined too.                     *)
JoinsAny(ls, p, n) == IsBlock(ls, p, n)
Joins(ls, p, n) ==
  IsBlock(ls, p, n) /\ ~ Contains(TokensAt(ls, GetPreviousNonBlankLine(ls, p)), ";")

ErrorOfSemicolon(ls, p, n) ==
  LET text == Text(ls, p, n)
      IsDefinition == \/ \E i \in DOMAIN text : text[i] \in {"struct", "class", "enum"}
                      \/ \E i \in 1 .. Len(text) - 1 : text[i] = "=" /\ text[i + 1] = "{"
  IN  IF /\ \E i \in DOMAIN text : text[i] = "{" /\ EndsBlock(text, i)
         /\ Occurrences(text, "{") = Occurrences(text, "}")
         /\ ~ IsDefinition
        THEN {"semicolon"} ELSE {}

(* CheckBraces up to its loop, one turn of it, and what is left after it.   *)
BeforeLoop(ls, n) == braces' = braces \cup Errors(n, ErrorsOfLine(ls, n)) /\ prevlinenum' = n
JoinPrevious(ls, p) == prevlinenum' = GetPreviousNonBlankLine(ls, p) /\ UNCHANGED braces
AfterLoop(ls, p, n) ==
  braces' = braces \cup Errors(n, ErrorOfSemicolon(ls, p, n)) /\ prevlinenum' = 0
(* All of it, for a line to which the loop joins none.                     *)
CheckBraces(ls, n) ==
  /\ braces' = braces \cup Errors(n, ErrorsOfLine(ls, n) \cup ErrorOfSemicolon(ls, n, n))
  /\ UNCHANGED prevlinenum
(* The part of it before CloseExpression fails.                            *)
BeforeFailure(ls, n) ==
  braces' = braces \cup Errors(n, ErrorsOfPosition(ls, n)) /\ UNCHANGED prevlinenum
=============================================================================
