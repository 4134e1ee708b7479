-------------------------- MODULE FunctionLengths --------------------------
(* clint.py, CheckForFunctionLengths and _FunctionState: lines are counted  *)
(* from the line that begins an unindented function to the brace that ends  *)
(* it.  Blank lines are not counted, nor lines that begin a function.       *)
EXTENDS CleansedLines, Powers

CONSTANTS
  _NORMAL_TRIGGER,  \* clint has 250
  _TEST_TRIGGER     \* clint has 400

ASSUME TriggerAssumption == _NORMAL_TRIGGER \in Nat \ {0} /\ _TEST_TRIGGER \in Nat \ {0}

VARIABLES
  function,  \* _FunctionState
  sizes      \* the errors of category readability/fn_size: [line, level]

_FunctionState == [in_a_function |-> FALSE, lines_in_function |-> 0, test |-> FALSE]

(* A name and an opening parenthesis in column 0; MACRO() is all capitals.  *)
StartsFunction(line) == line.is \in {"f()", "f() {", "f();", "f() { }", "TEST() {"}
IsTest(line) == line.is = "TEST() {"
HasEndOfDeclaration(line) == HasInLines(line, ";") \/ HasInLines(line, "}")
HasBrace(line) == HasInLines(line, "{")

(* The look-ahead from a line that may begin a function: to the first line  *)
(* that shows a declaration, a trivial body or the opening brace.           *)
LookAhead(ls, n) ==
  LET telling == {m \in DOMAIN ls : m >= n /\ (HasEndOfDeclaration(ls[m]) \/ HasBrace(ls[m]))}
  IN  IF telling = {} THEN "nothing"
      ELSE IF HasEndOfDeclaration(ls[Min(telling)]) THEN "declaration" ELSE "body"

(* As Begin below, but going on with the count of the function before.    *)
BeginWithoutReset(line) ==
  function' = [function EXCEPT !.in_a_function = TRUE, !.test = IsTest(line)]

Begin(line) ==
  function' = [in_a_function |-> TRUE, lines_in_function |-> 0, test |-> IsTest(line)]

Count ==
  function' = IF function.in_a_function
                THEN [function EXCEPT !.lines_in_function = @ + 1] ELSE function

Base(test) == IF test THEN _TEST_TRIGGER ELSE _NORMAL_TRIGGER
Trigger(test, verbosity) == Base(test) * PowerOf2[verbosity]

(* int(math.log(n, 2)), at most 5.                                         *)
Level(n) == Min({5, Max({k \in 0 .. n : PowerOf2[k] <= n})})
(* As ErrorLevel, with the trigger in place of the base.                   *)
ErrorLevelOfTrigger(verbosity) == Level(function.lines_in_function \div Trigger(function.test, verbosity))
ErrorLevel(verbosity) == Level(function.lines_in_function \div Base(function.test))

Check(n, verbosity) ==
  sizes' = IF function.lines_in_function > Trigger(function.test, verbosity)
             THEN sizes \cup {[line |-> n, level |-> ErrorLevel(verbosity)]} ELSE sizes

End == function' = [function EXCEPT !.in_a_function = FALSE]

CheckForFunctionLengths(ls, n, verbosity) ==
  \/ /\ StartsFunction(ls[n])
     /\ IF LookAhead(ls, n) = "body" THEN Begin(ls[n]) ELSE UNCHANGED function
     /\ sizes' = IF LookAhead(ls, n) = "nothing"
                   THEN sizes \cup {[line |-> n, level |-> 5]} ELSE sizes
  \/ /\ ls[n].is = "}"
     /\ Check(n, verbosity) /\ End
  \/ /\ ~ StartsFunction(ls[n]) /\ ls[n].is # "}"
     /\ IF Blank(ls[n]) THEN UNCHANGED function ELSE Count
     /\ UNCHANGED sizes
=============================================================================
