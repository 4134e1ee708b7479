----------------------------- MODULE ClassState -----------------------------
(* clint.py, _ClassState and its users: a stack of the classes around a     *)
(* line, pushed where a declaration begins and popped by its braces or by   *)
(* the semicolon of a forward declaration.  It is kept on `elided`; what    *)
(* looks ahead or back for sections reads `lines`.                          *)
EXTENDS Integers, CleansedLines

CONSTANT SMALL_CLASS  \* classes of up to this many lines more than one are not
                      \* checked for sections; clint has 24

ASSUME SmallClassAssumption == SMALL_CLASS \in Nat

VARIABLES
  classinfo_stack,  \* _ClassInfo, the innermost last
  virtuals,         \* the classes with an error of category runtime/virtual
  spacings,         \* the lines with one of whitespace/blank_line
  unfinished        \* the class of 'Failed to find complete declaration', or 0

classVars == <<classinfo_stack, virtuals, spacings, unfinished>>

(* class_decl_match: a name follows.                                       *)
DeclaresClass(line) ==
  \/ line.is \in {"class A;", "class A", "class A {", "class B : A {"}
  \/ /\ line.is = "code" /\ Len(line.tokens) >= 2
     /\ line.tokens[1] \in {"class", "struct"} /\ line.tokens[2] = "x"
Difference(tokens) == Occurrences(tokens, "{") - Occurrences(tokens, "}")
BracesOf == [s \in Sketches |-> Difference(TokensOf[s])]
Braces(line) == IF line.is = "code" THEN Difference(line.tokens) ELSE BracesOf[line.is]
HasSemicolon(line) == HasToken(line, ";")
HasColon(line) == HasToken(line, ":")
DeclaresVirtual(line) == line.is \in {"virtual f();", "virtual ~A();"}
BeginsSection(line) == line.is = "public:"

(* How many more braces are opened than closed before each line.            *)
Depths(ls) == SumsBefore([l \in DOMAIN ls |-> Braces(ls[l])])

(* The braces from line first to line last, those in strings included.      *)
QuotedBraces(line) ==
  IF line.is = "code"
    THEN Occurrences(line.tokens, Quoted("{")) - Occurrences(line.tokens, Quoted("}")) ELSE 0
BracesWithin(ls, first, last) ==
  LET depth == SumsBefore([l \in DOMAIN ls |-> Braces(ls[l]) + QuotedBraces(ls[l])])
  IN  depth[last + 1] - depth[first]

(* A slip: the braces of the first line are left out.                      *)
LastLineFromNext(ls, n) ==
  LET ends == {l \in DOMAIN ls : l >= n /\ BracesWithin(ls, n + 1, l) = 0}
  IN  IF ends = {} THEN 0 ELSE Min(ends)

(* Where the braces since line n are balanced first, 0 if nowhere: it is    *)
(* line n itself if its brace follows on the next.                         *)
LastLine(ls, n) ==
  LET ends == {l \in DOMAIN ls : l >= n /\ BracesWithin(ls, n, l) = 0}
  IN  IF ends = {} THEN 0 ELSE Min(ends)

_ClassInfo(ls, n) ==
  [linenum |-> n, seen_open_brace |-> FALSE, is_derived |-> FALSE, virtual_method |-> FALSE,
   has_virtual_destructor |-> FALSE, brace_depth |-> 0, last_line |-> LastLine(ls, n)]

(* The line before line n that ends the head of a class.                   *)
EndOfHead(ls, linenum, n) ==
  LET heads == {l \in linenum .. n - 1 : ~ Blank(ls[l]) /\ Last(Tokens(ls[l])) = "{"}
  IN  IF heads = {} THEN linenum ELSE Min(heads)

(* CheckSectionSpacing, for a class around line n that begins at linenum.   *)
LacksBlankLine(ls, n, linenum, last_line) ==
  /\ last_line - linenum > SMALL_CLASS /\ n > linenum
  /\ BeginsSection(ls[n])
  /\ ~ Blank(ls[n - 1])
  /\ ~ HasToken(ls[n - 1], "class") /\ ~ HasToken(ls[n - 1], "struct")
  /\ EndOfHead(ls, linenum, n) < n - 1
CheckSectionSpacing(ls, n, info) ==
  spacings' = IF LacksBlankLine(ls, n, info.linenum, info.last_line)
                THEN spacings \cup {n} ELSE spacings

NeedsDestructor(info) ==
  info.virtual_method /\ ~ info.has_virtual_destructor /\ ~ info.is_derived

(* A slip: the base of a class does not count.                            *)
CloseBase(stack, info) ==
  /\ classinfo_stack' = Front(stack)
  /\ virtuals' = IF info.virtual_method /\ ~ info.has_virtual_destructor
                   THEN virtuals \cup {info.linenum} ELSE virtuals

Close(stack, info) ==
  /\ classinfo_stack' = Front(stack)
  /\ virtuals' = IF NeedsDestructor(info) THEN virtuals \cup {info.linenum} ELSE virtuals

(* A slip: semicolons are not looked for.                                  *)
NeverForward(top, line) == FALSE
(* A semicolon before the brace ends the declaration.                      *)
ForwardDeclaration(top, line) == ~ top.seen_open_brace /\ HasSemicolon(line)

(* Line n looked at with the class on top of the stack.                    *)
Track(stack, line) ==
  LET top == Last(stack)
      derived == top.is_derived \/ (~ top.seen_open_brace /\ HasColon(line))
      inside == [top EXCEPT
                   !.seen_open_brace = TRUE,
                   !.is_derived = derived,
                   !.virtual_method = @ \/ DeclaresVirtual(line),
                   !.has_virtual_destructor = @ \/ line.is = "virtual ~A();",
                   !.brace_depth = @ + Braces(line)]
      StillHead == ~ ForwardDeclaration(top, line) /\ ~ top.seen_open_brace /\ ~ HasToken(line, "{")
  IN  \/ /\ ForwardDeclaration(top, line)
         /\ classinfo_stack' = Front(stack) /\ UNCHANGED virtuals
      \/ /\ StillHead
         /\ classinfo_stack' = Append(Front(stack), [top EXCEPT !.is_derived = derived])
         /\ UNCHANGED virtuals
      \/ /\ ~ ForwardDeclaration(top, line) /\ ~ StillHead
         /\ IF inside.brace_depth <= 0
              THEN Close(stack, inside)
              ELSE /\ classinfo_stack' = Append(Front(stack), inside)
                   /\ UNCHANGED virtuals

CheckForNonStandardConstructs(ls, n) ==
  LET stack == IF DeclaresClass(ls[n])
                 THEN Append(classinfo_stack, _ClassInfo(ls, n)) ELSE classinfo_stack
  IN  IF stack = <<>> THEN UNCHANGED <<classinfo_stack, virtuals>> ELSE Track(stack, ls[n])

ProcessClassLine(ls, n) ==
  /\ IF classinfo_stack = <<>> THEN UNCHANGED spacings
                               ELSE CheckSectionSpacing(ls, n, Last(classinfo_stack))
  /\ CheckForNonStandardConstructs(ls, n)
  /\ UNCHANGED unfinished

CheckFinished ==
  /\ unfinished' = IF classinfo_stack = <<>> THEN 0 ELSE classinfo_stack[1].linenum
  /\ UNCHANGED <<classinfo_stack, virtuals, spacings>>
=============================================================================
