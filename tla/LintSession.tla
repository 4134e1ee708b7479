---------------------------- MODULE LintSession ----------------------------
(* clint.py, from its command line to its exit status: the options, the     *)
(* files one after the other, the phases of a file, the NOLINT comments     *)
(* that suppress errors, and the counts of what is printed.  What the       *)
(* checks of a line find is an input here; LintFile models those checks     *)
(* that have a state.                                                      *)
(*                                                                         *)
(* A category is the sequence of the pieces of its name, so that one may    *)
(* be a prefix of another: build/include is <<"build", "/include">>.        *)
EXTENDS Naturals, SequencesExt

CONSTANTS
  ArgumentLists,  \* the sequences of options on the command line
  MAX_FILES,      \* bound: the files named on the command line
  MAX_LINES,      \* bound: the lines of a file
  MAX_REPORTS,    \* bound: no check finds anything after so many errors
  Findings,       \* what a check of a line can find: [category, confidence]
  Nolints         \* what a line may say: None, All, a category or Unknown

(* Categories are sequences of strings, confidence is 0 .. 5 in the code;    *)
(* the value of --filter is a sequence of signs and prefixes of categories. *)
Filter == [sign : STRING, prefix : Seq(STRING)]

ASSUME SessionAssumption ==
  /\ MAX_FILES \in Nat /\ MAX_LINES \in Nat
  /\ Findings \subseteq [category : Seq(STRING), confidence : Nat]
  /\ \A a \in ArgumentLists : /\ a \in Seq(Range(a))
                              /\ \A opt \in Range(a) : opt.name = "--filter" => opt.val \in Seq(Filter)

None == <<"none">>
All == <<"all">>
Unknown == <<"unknown">>

Legal == [category |-> <<"legal", "/copyright">>, confidence |-> 5]
Guard(level) == [category |-> <<"build", "/header_guard">>, confidence |-> level]
Comment == [category |-> <<"readability", "/multiline_comment">>, confidence |-> 5]
Nolint == [category |-> <<"readability", "/nolint">>, confidence |-> 5]
Newline == [category |-> <<"whitespace", "/newline">>, confidence |-> 1]

_DEFAULT_FILTERS == << [sign |-> "-", prefix |-> <<"build", "/include", "_alpha">>] >>

VARIABLES
  pc,            \* where main, ProcessFile or ProcessLine is
  args,          \* the options ParseArguments has not looked at
  given,         \* its local variables: [verbosity, filters, counting]
  lint,          \* _cpplint_state
  files,         \* how many files are still to be linted
  file,          \* [number, extension, length, crlf] of the one at hand
  text,          \* what each of its lines says about NOLINT
  linenum,       \* the line at hand
  suppressions,  \* _error_suppressions, as a set of <<category, line>>
  exit,          \* the exit status, or 2 while the program runs
  \* What an observer has seen:
  messages,      \* the messages on stderr, in order
  reported,      \* all calls of Error, in order
  nolints,       \* the NOLINT comments found: [file, line, category]
  guardless      \* the headers without an #ifndef

vars == <<pc, args, given, lint, files, file, text, linenum, suppressions, exit,
          messages, reported, nolints, guardless>>
perFile == <<file, text, nolints, suppressions>>
command == <<args, given, files>>

-----------------------------------------------------------------------------
(* The command line.                                                       *)

_CppLintState == [verbose_level |-> 1, filters |-> _DEFAULT_FILTERS, counting |-> "total",
                  error_count |-> 0, errors_by_category |-> <<>>]

Init ==
  /\ pc = "getopt"
  /\ args \in ArgumentLists
  /\ given = [verbosity |-> _CppLintState.verbose_level, filters |-> <<>>, counting |-> ""]
  /\ lint = _CppLintState
  /\ files \in 0 .. MAX_FILES
  /\ file = [number |-> 0, extension |-> "none", length |-> 0, crlf |-> FALSE]
  /\ text = [l \in {0} |-> None] /\ linenum = 0
  /\ suppressions = {} /\ exit = 2
  /\ messages = <<>> /\ reported = <<>> /\ nolints = {} /\ guardless = {}

Exit(status) ==
  /\ exit' = status /\ pc' = "exit"
  /\ UNCHANGED <<command, perFile, linenum, lint, messages, reported, guardless>>

PrintUsage == Exit(1)
PrintCategories == Exit(0)

(* getopt looks at all options before the first one is used.               *)
getopt ==
  /\ pc = "getopt"
  /\ IF \E i \in DOMAIN args : args[i].name = "bad option"
       THEN PrintUsage
       ELSE /\ pc' = "options"
            /\ UNCHANGED <<command, perFile, linenum, lint, exit, messages, reported, guardless>>

ParseOption ==
  /\ pc = "options" /\ args # <<>>
  /\ LET opt == Head(args)
         Set(field, val) ==
           /\ given' = [given EXCEPT ![field] = val]
           /\ args' = Tail(args)
           /\ UNCHANGED <<pc, files, perFile, linenum, lint, exit, messages, reported, guardless>>
     IN  \/ opt.name \in {"--help", "bad output", "bad counting", "bad verbose"} /\ PrintUsage
         \/ opt.name = "--filter" /\ opt.val = <<>> /\ PrintCategories
         \/ opt.name = "--filter" /\ opt.val # <<>> /\ Set("filters", opt.val)
         \/ opt.name = "--verbose" /\ Set("verbosity", opt.val)
         \/ opt.name = "--counting" /\ Set("counting", opt.val)

(* The default filters come first: they have the least priority.           *)
SetFilters(filters) == _DEFAULT_FILTERS \o filters
AllSigned(filters) == \A i \in DOMAIN filters : filters[i].sign \in {"+", "-"}

(* SetFilters raises ValueError for a filter without a sign: a traceback.   *)
SetUp ==
  /\ pc = "options" /\ args = <<>>
  /\ IF files = 0 \/ ~ AllSigned(SetFilters(given.filters))
       THEN Exit(1)
       ELSE /\ lint' = [verbose_level |-> given.verbosity, counting |-> given.counting,
                        filters |-> SetFilters(given.filters),
                        error_count |-> 0, errors_by_category |-> <<>>]
            /\ pc' = "open"
            /\ UNCHANGED <<command, perFile, linenum, exit, messages, reported, guardless>>

-----------------------------------------------------------------------------
(* Errors.                                                                 *)

IsErrorSuppressedByNolint(category, l) ==
  <<category, l>> \in suppressions \/ <<All, l>> \in suppressions

(* The loop over the filters: each one that matches overrules the others.  *)
IsFiltered(filters, category) ==
  LET filtered[i \in 0 .. Len(filters)] ==
        IF i = 0 THEN FALSE
        ELSE IF IsPrefix(filters[i].prefix, category) THEN filters[i].sign = "-"
        ELSE filtered[i - 1]
  IN  filtered[Len(filters)]

_ShouldPrintError(f, l) ==
  /\ ~ IsErrorSuppressedByNolint(f.category, l)
  /\ f.confidence >= lint.verbose_level
  /\ ~ IsFiltered(lint.filters, f.category)

CountedAs(category) == IF lint.counting = "detailed" THEN category ELSE <<Head(category)>>

(* As IncrementErrorCount, for a count set to one at every error.          *)
IncrementToOne(category) ==
  [lint EXCEPT !.error_count = @ + 1,
               !.errors_by_category =
                 IF lint.counting \in {"toplevel", "detailed"}
                   THEN [c \in DOMAIN @ \cup {CountedAs(category)} |-> 1] ELSE @]

IncrementErrorCount(category) ==
  LET counted == CountedAs(category)
      counts == lint.errors_by_category
      more == [c \in DOMAIN counts \cup {counted} |->
                 (IF c \in DOMAIN counts THEN counts[c] ELSE 0) + (IF c = counted THEN 1 ELSE 0)]
  IN  [lint EXCEPT !.error_count = @ + 1,
                   !.errors_by_category =
                     IF lint.counting \in {"toplevel", "detailed"} THEN more ELSE counts]

(* A NOLINT on this line of this file has been found that covers f.         *)
Covered(f, l) == \E n \in nolints : n.file = file.number /\ n.line = l
                                    /\ n.category \in {All, f.category}

Error(f, l) ==
  LET message == [file |-> file.number, line |-> l, category |-> f.category,
                  confidence |-> f.confidence, covered |-> Covered(f, l)]
  IN  /\ reported' = Append(reported, message)
      /\ IF _ShouldPrintError(f, l)
           THEN /\ lint' = IncrementErrorCount(f.category)
                /\ messages' = Append(messages, message)
           ELSE UNCHANGED <<lint, messages>>

NoError == UNCHANGED <<lint, messages, reported>>
MayReport == Len(reported) < MAX_REPORTS

(* As ParseNolint, for one that takes any category.                        *)
ParseAnyNolint(l) ==
  /\ suppressions' = suppressions \cup ({text[l]} \ {None}) \X {l}
  /\ nolints' = nolints
  /\ NoError

(* ParseNolintSuppressions: what a line says, or an error if it is unknown. *)
ParseNolint(l) ==
  /\ IF text[l] = Unknown
       THEN Error(Nolint, l) /\ UNCHANGED <<suppressions, nolints>>
       ELSE /\ suppressions' = suppressions \cup ({text[l]} \ {None}) \X {l}
            /\ nolints' = nolints \cup {[file |-> file.number, line |-> l, category |-> c] :
                                        c \in {text[l]} \ {None}}
            /\ NoError

-----------------------------------------------------------------------------
(* A file.                                                                 *)
Lines == 0 .. file.length + 1   \* with the two marker lines
Goto(label) == pc' = label /\ UNCHANGED <<command, exit>>

KeepSuppressions == UNCHANGED suppressions
ResetNolintSuppressions == suppressions' = {}

(* ProcessFile skips what it cannot open and ignores other extensions.     *)
SkipFile ==
  /\ pc = "open" /\ files > 0
  /\ files' = files - 1
  /\ file' = [file EXCEPT !.number = @ + 1]
  /\ UNCHANGED <<pc, args, given, text, nolints, suppressions, linenum, lint, exit, messages,
                 reported, guardless>>

OpenFile ==
  /\ pc = "open" /\ files > 0
  /\ files' = files - 1
  /\ \E extension \in {"c", "h"}, length \in 1 .. MAX_LINES, crlf \in BOOLEAN :
       /\ file' = [number |-> file.number + 1, extension |-> extension,
                   length |-> length, crlf |-> crlf]
       /\ \E says \in [1 .. length -> Nolints] :
            text' = [l \in 0 .. length + 1 |-> IF l \in 1 .. length THEN says[l] ELSE None]
  /\ ResetNolintSuppressions
  /\ linenum' = 0
  /\ pc' = "copyright"
  /\ UNCHANGED <<args, given, lint, exit, messages, reported, nolints, guardless>>

CheckForCopyright ==
  /\ pc = "copyright"
  /\ NoError \/ (MayReport /\ Error(Legal, 0))
  /\ Goto(IF file.extension = "h" THEN "guard" ELSE "comments")
  /\ UNCHANGED <<perFile, linenum, guardless>>

(* CheckForHeaderGuard: a header in order, one whose #define is missing or  *)
(* different, or one whose last #endif, on line l, has no comment, a        *)
(* different one, or is missing.                                           *)
GuardIsFine ==
  /\ pc = "guard"
  /\ NoError
  /\ Goto("comments")
  /\ UNCHANGED <<perFile, linenum, guardless>>

GuardWithoutDefine ==
  /\ pc = "guard" /\ MayReport
  /\ Error(Guard(5), 0)
  /\ Goto("comments")
  /\ UNCHANGED <<perFile, linenum, guardless>>

GuardEndif ==
  /\ pc = "guard" /\ MayReport
  /\ \E l \in 0 .. file.length : ParseNolint(l) /\ linenum' = l
  /\ Goto("endif")
  /\ UNCHANGED <<file, text, guardless>>

EndifComment ==
  /\ pc = "endif"
  /\ \E level \in {0, 5} : Error(Guard(level), linenum)
  /\ linenum' = 0
  /\ Goto("comments")
  /\ UNCHANGED <<perFile, guardless>>

(* No #ifndef: the message needs cppvar, which has no value yet, and an     *)
(* UnboundLocalError ends the program.                                     *)
GuardWithoutIfndef ==
  /\ pc = "guard"
  /\ guardless' = guardless \cup {file.number}
  /\ exit' = 1 /\ pc' = "exit"
  /\ UNCHANGED <<command, perFile, linenum, lint, messages, reported>>

(* RemoveMultiLineComments replaces the lines of comments, and reports one  *)
(* without end on the line after its first.                                *)
RemoveMultiLineComments ==
  /\ pc = "comments"
  /\ \E cleared \in SUBSET (1 .. file.length) :
       text' = [l \in Lines |-> IF l \in cleared THEN None ELSE text[l]]
  /\ NoError \/ (MayReport /\ \E l \in 1 .. file.length : Error(Comment, l + 1))
  /\ Goto("nolint")
  /\ UNCHANGED <<file, nolints, suppressions, linenum, guardless>>

(* ProcessLine: first the NOLINT of the line, then its checks.             *)
BeginLine ==
  /\ pc = "nolint" /\ linenum \in Lines
  /\ ParseNolint(linenum)
  /\ Goto("checks")
  /\ UNCHANGED <<file, text, linenum, guardless>>

CheckFinds ==
  /\ pc = "checks" /\ MayReport
  /\ \E f \in Findings : Error(f, linenum)
  /\ UNCHANGED <<pc, command, exit, perFile, linenum, guardless>>

EndLine ==
  /\ pc = "checks"
  /\ linenum' = linenum + 1
  /\ NoError
  /\ Goto(IF linenum + 1 \in Lines THEN "nolint" ELSE "finished")
  /\ UNCHANGED <<perFile, guardless>>

(* After the last line: unfinished classes, missing includes, invalid       *)
(* UTF-8 and a missing newline, each on some line of the file.             *)
CheckFinishedFile ==
  /\ pc = "finished" /\ MayReport
  /\ \E f \in Findings, l \in 1 .. file.length : Error(f, l)
  /\ UNCHANGED <<pc, command, exit, perFile, linenum, guardless>>

CarriageReturns ==
  /\ pc = "finished"
  /\ IF file.crlf THEN Error(Newline, 0) ELSE NoError
  /\ Goto("open")
  /\ UNCHANGED <<perFile, linenum, guardless>>

(* All files are done; and one that believes the counts by category.       *)
FinishByCategory == pc = "open" /\ files = 0 /\ Exit(IF lint.errors_by_category # <<>> THEN 1 ELSE 0)
Finish == pc = "open" /\ files = 0 /\ Exit(IF lint.error_count > 0 THEN 1 ELSE 0)

Exited == pc = "exit" /\ UNCHANGED vars

ParseArguments == getopt \/ ParseOption \/ SetUp
CheckForHeaderGuard ==
  GuardIsFine \/ GuardWithoutDefine \/ GuardEndif \/ EndifComment \/ GuardWithoutIfndef
ProcessLine == BeginLine \/ CheckFinds \/ EndLine
ProcessFile ==
  \/ SkipFile \/ OpenFile
  \/ CheckForCopyright \/ CheckForHeaderGuard \/ RemoveMultiLineComments
  \/ ProcessLine \/ CheckFinishedFile \/ CarriageReturns

Next == ParseArguments \/ ProcessFile \/ Finish \/ Exited

Spec == Init /\ [][Next]_vars

-----------------------------------------------------------------------------
(* Types: whatever the files say, _error_suppressions holds known           *)
(* categories or the one for all, on lines of the file.                     *)
TypeOK ==
  /\ lint.error_count \in Nat
  /\ linenum \in 0 .. file.length + 2
  /\ exit \in {0, 1, 2}
  /\ \A s \in suppressions : s[1] \notin {None, Unknown} /\ s[2] \in Lines

(* The last filter of the flag that matches decides; the default filter, of *)
(* less priority, decides if there is none.                                 *)
Passes(category) ==
  LET matching == {i \in DOMAIN given.filters : IsPrefix(given.filters[i].prefix, category)}
  IN  IF matching # {} THEN given.filters[Max(matching)].sign = "+"
                       ELSE ~ IsPrefix(_DEFAULT_FILTERS[1].prefix, category)

Visible(r) == r.confidence >= given.verbosity /\ Passes(r.category) /\ ~ r.covered

(* Error and _ShouldPrintError: what is printed are the errors that are     *)
(* confident enough, pass the filters and are not suppressed by a comment   *)
(* on that line of that same file that has been found by then; one in       *)
(* another file hides nothing, and the order of the files makes no          *)
(* difference.                                                             *)
PrintedAreVisible ==
  LET visible[n \in 0 .. Len(reported)] ==
        IF n = 0 THEN <<>>
        ELSE IF Visible(reported[n]) THEN Append(visible[n - 1], reported[n])
        ELSE visible[n - 1]
  IN  messages = visible[Len(reported)]

(* IncrementErrorCount: the counts of PrintErrorCounts are those of the     *)
(* messages, in each style of counting.                                     *)
CountsAgree ==
  /\ lint.error_count = Len(messages)
  /\ lint.errors_by_category =
       IF lint.counting \in {"toplevel", "detailed"}
         THEN [c \in {CountedAs(messages[i].category) : i \in DOMAIN messages} |->
                 Cardinality({i \in DOMAIN messages : CountedAs(messages[i].category) = c})]
         ELSE <<>>

(* main: the exit status says whether anything was printed about a file; it *)
(* is never 0 after a message, nor 1 after a session without one that went  *)
(* through all its files.                                                   *)
ExitStatus ==
  exit # 2 => /\ exit = 0 => messages = <<>> /\ (files = 0 \/ file.number = 0)
              /\ exit = 1 => messages # <<>> \/ guardless # {} \/ file.number = 0

(* clint.py:1069 says of CheckForHeaderGuard: Logs an error if no #ifndef   *)
(* header guard is present.                                                *)
GuardlessReported ==
  exit # 2 => \A n \in guardless :
    \E i \in DOMAIN reported : reported[i].file = n /\ reported[i].category = Guard(5).category
=============================================================================
