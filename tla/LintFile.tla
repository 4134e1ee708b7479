------------------------------ MODULE LintFile ------------------------------
(* clint.py, ProcessFileData: multi-line comments are cleared, then each    *)
(* line goes through the checks that carry state from one line to the next, *)
(* and at the end the includes are compared with what the file uses.        *)
EXTENDS CommentRanges, FunctionLengths, BraceChecks, ClassState, IncludeOrder,
        IncludeWhatYouUse

CONSTANTS
  Profiles  \* kinds of files, each about some of the checks:
            \* [alphabet, max_lines, sources, verbosities], the lines in such
            \* a file and their bound, its paths, the levels of --verbose

(* Lines are lists of tokens, and each header has a place in the alphabet.  *)
ASSUME ProfilesAssumption ==
  \A p \in Profiles :
    /\ p.max_lines \in Nat /\ p.verbosities \subseteq Nat
    /\ \A line \in p.alphabet :
         IsLine(line) /\ (line.is = "#include" => line.header.rank \in Nat)

VARIABLES
  phase,      \* "comments", "lines", "joining" (in the loop of CheckBraces),
              \* "includes", or what it ends with: "linted", "crashed"
  n,          \* ProcessLine's line
  source,     \* the path of the file
  verbosity,  \* _VerboseLevel()
  original    \* the lines as they were read (history)

vars == <<commentVars, function, sizes, braceVars, classVars, includeVars, iwyuVars,
          phase, n, source, verbosity, original>>
constantVars == <<source, verbosity, original>>

Init ==
  /\ \E profile \in Profiles : \E length \in 0 .. profile.max_lines :
       /\ \E ls \in [1 .. length -> profile.alphabet] :
            original = [l \in 0 .. length + 1 |-> IF l \in DOMAIN ls THEN ls[l] ELSE Dummy]
       /\ source \in profile.sources /\ verbosity \in profile.verbosities
  /\ lines = original /\ lineix = 0 /\ comments = "looking" /\ unclosed = 0
  /\ function = _FunctionState /\ sizes = {}
  /\ braces = {} /\ prevlinenum = 0
  /\ classinfo_stack = <<>> /\ virtuals = {} /\ spacings = {} /\ unfinished = 0
  /\ include_state = {} /\ section = _INITIAL_SECTION /\ last_header = 0
  /\ orders = {} /\ alphas = {} /\ duplicates = {}
  /\ found = {} /\ header_keys = {} /\ header_found = FALSE /\ missing = {}
  /\ phase = "comments" /\ n = 0

ClearComments ==
  /\ phase = "comments"
  /\ RemoveMultiLineComments
  /\ phase' = IF comments' = "looking" THEN phase ELSE "lines"
  /\ UNCHANGED <<constantVars, function, sizes, braceVars, classVars, includeVars, iwyuVars, n>>

(* What ProcessLine does with line n after CheckBraces.                     *)
RestOfLine ==
  /\ IF lines[n].is = "#include" THEN CheckIncludeLine(lines[n].header, n)
                                 ELSE UNCHANGED includeVars
  /\ ProcessClassLine(lines, n)
  /\ n' = n + 1

ProcessLine ==
  /\ phase = "lines" /\ n \in DOMAIN lines
  /\ ~ ReadsPastEnd(lines, n) /\ ~ Joins(lines, n, n)
  /\ CheckForFunctionLengths(lines, n, verbosity)
  /\ CheckBraces(lines, n)
  /\ RestOfLine
  /\ UNCHANGED <<constantVars, commentVars, iwyuVars, phase>>

(* An IndexError in CloseExpression, which nobody catches.                 *)
Crash ==
  /\ phase = "lines" /\ n \in DOMAIN lines
  /\ ReadsPastEnd(lines, n)
  /\ CheckForFunctionLengths(lines, n, verbosity)
  /\ BeforeFailure(lines, n)
  /\ phase' = "crashed"
  /\ UNCHANGED <<constantVars, commentVars, classVars, includeVars, iwyuVars, n>>

(* A line that CheckBraces joins with lines before it.                      *)
BeginJoining ==
  /\ phase = "lines" /\ n \in DOMAIN lines
  /\ ~ ReadsPastEnd(lines, n) /\ Joins(lines, n, n)
  /\ CheckForFunctionLengths(lines, n, verbosity)
  /\ BeforeLoop(lines, n)
  /\ phase' = "joining"
  /\ UNCHANGED <<constantVars, commentVars, classVars, includeVars, iwyuVars, n>>

(* One turn of the loop: without a line before, nothing is joined, and      *)
(* nothing keeps it from trying again.                                     *)
JoinPreviousLine ==
  /\ phase = "joining" /\ Joins(lines, prevlinenum, n)
  /\ JoinPrevious(lines, prevlinenum)
  /\ UNCHANGED <<constantVars, commentVars, function, sizes, classVars, includeVars, iwyuVars, phase, n>>

FinishLine ==
  /\ phase = "joining" /\ ~ Joins(lines, prevlinenum, n)
  /\ AfterLoop(lines, prevlinenum, n)
  /\ RestOfLine
  /\ phase' = "lines"
  /\ UNCHANGED <<constantVars, commentVars, function, sizes, iwyuVars>>

(* What the lines outside comments use.                                    *)
Required == {lines[l].header.path : l \in {k \in DOMAIN lines : lines[k].is = "use"}}

EndLines ==
  /\ phase = "lines" /\ n \notin DOMAIN lines
  /\ phase' = "includes"
  /\ CheckFinished
  /\ found' = include_state /\ header_keys' = include_state
  /\ UNCHANGED <<constantVars, commentVars, function, sizes, braceVars, includeVars, n,
                 header_found, missing>>

CheckForIncludeWhatYouUse ==
  /\ phase = "includes"
  /\ \/ UpdateIncludeState(source) /\ UNCHANGED phase
     \/ ReportMissing(source, Required) /\ phase' = "linted"
  /\ UNCHANGED <<constantVars, commentVars, function, sizes, braceVars, classVars, includeVars, n>>

Ended == phase \in {"linted", "crashed"} /\ UNCHANGED vars

ProcessFileData ==
  \/ ClearComments
  \/ ProcessLine \/ Crash
  \/ BeginJoining \/ JoinPreviousLine \/ FinishLine
  \/ EndLines
  \/ CheckForIncludeWhatYouUse
Next == ProcessFileData \/ Ended

(* The program is sequential: it goes on.                                  *)
Spec == Init /\ [][Next]_vars /\ WF_vars(ProcessFileData)

-----------------------------------------------------------------------------
(* Types, for variables whose values are read at a later line: the count of *)
(* a function that is over is not counted on, sections are those of         *)
(* _IncludeState, and errors are about lines of the file.                   *)
TypeOK ==
  /\ section \in _INITIAL_SECTION .. _OTHER_H_SECTION
  /\ {r.line : r \in sizes} \cup orders \cup alphas \cup duplicates \subseteq 1 .. LineCount - 2
  /\ unclosed \in 0 .. LineCount - 1
  /\ function.lines_in_function \in 0 .. LineCount
  /\ DOMAIN lines = DOMAIN original /\ lineix \in 0 .. LineCount

(* What a C compiler takes for comments of more than one line: within[l]    *)
(* says whether line l begins inside one, if no code follows the end of one *)
(* on its line.                                                            *)
Within ==
  LET within[l \in 0 .. LineCount] ==
        IF l = 0 THEN FALSE
        ELSE IF within[l - 1] THEN ~ Closes(original[l - 1])
                              ELSE Opens(original[l - 1]) \/ OpensAfter(original[l - 1])
  IN  within
(* Whether a line begins in one with a line before it that begins with its  *)
(* mark, the only ones that RemoveMultiLineComments sees (clint.py:892,     *)
(* 894); the code itself calls the others complex (clint.py:1204-1210).     *)
InSeen(l) == \E b \in 0 .. l - 1 : Opens(original[b]) /\ \A k \in b + 1 .. l : Within[k]
InComment == {l \in DOMAIN original : Opens(original[l]) \/ InSeen(l)}

(* RemoveMultiLineComments clears comments, each from the first line on     *)
(* that begins with its mark, and nothing else, if no code follows the end  *)
(* of one on its line; from a comment without end on, it clears nothing,    *)
(* and reports the line after.                                             *)
CommentsCleared ==
  phase \notin {"comments", "lines"} /\ (\A l \in DOMAIN original : ~ ClosesWithin(original[l])) =>
    LET endless == {l \in DOMAIN original :
                      Opens(original[l]) /\ \A k \in l + 1 .. LineCount : Within[k]}
        open == Min(endless \cup {LineCount})
    IN  /\ \A l \in DOMAIN lines :
             lines[l] = IF l \in InComment /\ l < open THEN Dummy ELSE original[l]
        /\ unclosed = IF open < LineCount THEN open + 1 ELSE 0

(* The bodies of functions: from a line whose look-ahead meets a brace to   *)
(* the next brace in column 0, with no other function in between.           *)
Starts == {b \in DOMAIN lines : StartsFunction(lines[b]) /\ LookAhead(lines, b) = "body"}
Ends == {e \in DOMAIN lines : lines[e].is = "}"}
IsBody(b, e) == b < e /\ (b + 1 .. e - 1) \cap (Starts \cup Ends) = {}
Size(b, e) ==
  Cardinality({l \in b + 1 .. e - 1 : ~ Blank(lines[l]) /\ ~ StartsFunction(lines[l])})

(* CheckForFunctionLengths reports each function body that is longer than   *)
(* the trigger, on its last line, and no shorter one, whatever functions,   *)
(* declarations and comments come before it.                               *)
LongBodiesReported ==
  phase # "comments" =>
    \A b \in Starts, e \in Ends :
      e < n /\ IsBody(b, e) =>
        (Size(b, e) > Trigger(IsTest(lines[b]), verbosity) <=> \E r \in sizes : r.line = e)

(* Check: the trigger grows with the verbosity so that what exceeds it is   *)
(* confident enough to be printed; no report is dropped by Error.           *)
ReportsArePrinted == \A r \in sizes : r.level >= verbosity

(* A class is defined by a head that a line with its brace ends.  In a file *)
(* that is well formed, that is its first line or the next, no declaration  *)
(* that ends on its line leaves a brace, and no line closes two of the      *)
(* braces before it.                                                       *)
Heads == {l \in DOMAIN lines : DeclaresClass(lines[l]) /\ ~ HasSemicolon(lines[l])}
BodyOf(c) == IF HasToken(lines[c], "{") THEN c ELSE c + 1
EndsHead(line) ==
  Braces(line) = 1 /\ ~ HasSemicolon(line) /\ ~ Blank(line) /\ Last(Tokens(line)) = "{"
WellFormed ==
  /\ \A c \in Heads :
       /\ EndsHead(lines[BodyOf(c)])
       /\ BodyOf(c) # c => Braces(lines[c]) = 0 /\ ~ DeclaresClass(lines[BodyOf(c)])
  /\ \A l \in DOMAIN lines :
       /\ Braces(lines[l]) >= -1
       /\ DeclaresClass(lines[l]) /\ HasSemicolon(lines[l]) => Braces(lines[l]) = 0
(* The classes that are open before line l: begun, and not closed since.    *)
OpenBefore(l) ==
  LET depth == Depths(lines)
  IN  {c \in Heads : c < l /\ \A k \in BodyOf(c) + 1 .. l : depth[k] > depth[c]}
Innermost(l) == Max(OpenBefore(l))
(* The lines of class c itself, not of one inside it.                       *)
LinesOf(c) == {l \in DOMAIN lines : c \in OpenBefore(l) /\ Innermost(l) = c}
HasBase(c) == HasColon(lines[c]) \/ HasColon(lines[BodyOf(c)])

(* _ClassState: in a well-formed file, the stack holds the classes that are *)
(* open, the innermost on top, whatever functions, declarations and other   *)
(* classes lie between their lines.                                        *)
StackIsNesting ==
  phase = "lines" /\ WellFormed =>
    /\ {classinfo_stack[k].linenum : k \in DOMAIN classinfo_stack} = OpenBefore(n)
    /\ \A j, k \in DOMAIN classinfo_stack :
         j < k => classinfo_stack[j].linenum < classinfo_stack[k].linenum

(* CheckForNonStandardConstructs reports a class for a missing virtual      *)
(* destructor by the methods of that class alone, not of one inside it, and *)
(* CheckFinished the outermost class that is not closed.                   *)
ClassesJudged ==
  phase = "linted" /\ WellFormed =>
    LET open == OpenBefore(n)
    IN  /\ unfinished = (IF open = {} THEN 0 ELSE Min(open))
        /\ virtuals = {c \in Heads \ open :
             /\ ~ HasBase(c)
             /\ \E l \in LinesOf(c) : DeclaresVirtual(lines[l])
             /\ \A l \in LinesOf(c) : lines[l].is # "virtual ~A();"}

(* The line that closes class c, or the last one of the file.              *)
EndOf(c) == Max({l \in DOMAIN lines : c \in OpenBefore(l)})

(* CheckSectionSpacing trusts _ClassInfo, which has looked ahead in `lines` *)
(* for the end of a class, while the stack finds it later in `elided`.  In  *)
(* a well-formed file, a section that begins inside a class is reported for *)
(* the missing blank line if and only if the line before is not blank and   *)
(* tells of no class, and the innermost class around has its brace on its   *)
(* first line, is closed, and is not small; but no string in it may hold a  *)
(* brace, which only the look-ahead counts (clint.py:1311, 1397, 1498).     *)
SpacingsJudged ==
  phase = "linted" /\ WellFormed =>
    \A l \in {k \in DOMAIN lines : BeginsSection(lines[k]) /\ OpenBefore(k) # {}} :
      LET c == Innermost(l)
      IN  (\A k \in c .. EndOf(c) : QuotedBraces(lines[k]) = 0) =>
            (l \in spacings <=>
               /\ ~ Blank(lines[l - 1])
               /\ ~ HasToken(lines[l - 1], "class") /\ ~ HasToken(lines[l - 1], "struct")
               /\ BodyOf(c) = c /\ c \notin OpenBefore(n) /\ EndOf(c) - c > SMALL_CLASS)

(* The lines that include a header for the first time.                     *)
Included(l) == lines[l].is = "#include" /\ lines[l].header.path
                 \notin {lines[k].header.path : k \in {j \in 0 .. l - 1 : lines[j].is = "#include"}}
TypeAt(l) == _ClassifyInclude(lines[l].header)
Mine == {"_LIKELY_MY_HEADER", "_POSSIBLE_MY_HEADER"}

Headers == {l \in DOMAIN lines : Included(l)}

(* The section that the header of line l belongs to: one of the file's own  *)
(* counts among the others once any other header has been included.        *)
Place(l) ==
  CASE TypeAt(l) = "_C_SYS_HEADER" -> _C_SECTION
    [] TypeAt(l) = "_CPP_SYS_HEADER" -> _CPP_SECTION
    [] TypeAt(l) \in Mine /\ (\A k \in Headers : k < l => TypeAt(k) \in Mine) -> _MY_H_SECTION
    [] OTHER -> _OTHER_H_SECTION

(* CheckNextIncludeOrder: a header is out of order if and only if one of a  *)
(* later section has been included before it, on whatever line, and         *)
(* whatever errors lie between; the file's own headers never are, although  *)
(* the comment in the code lists their place before the other headers and   *)
(* promises to complain of a lower type after a higher (clint.py:2444-2454).*)
IncludesJudged ==
  phase = "linted" =>
    orders = {l \in Headers : \E k \in Headers : k < l /\ Place(k) > Place(l)}

(* The header of line l follows one of its own section, and none of a later *)
(* one: it does not make clint forget what it has compared so far.          *)
Continues(l) ==
  /\ \E k \in Headers : k < l /\ Place(k) = Place(l)
  /\ \A k \in Headers : k < l => Place(k) <= Place(l)

(* IsInAlphabeticalOrder: a header is reported if and only if one before it *)
(* comes after it in the alphabet, back to the last header that began a     *)
(* section or was out of order: after such an error, headers are compared   *)
(* with the misplaced one and no more with those before it.                 *)
AlphasJudged ==
  phase = "linted" =>
    alphas = {l \in Headers :
                \E k \in Headers :
                  /\ k < l /\ lines[k].header.rank > lines[l].header.rank
                  /\ \A m \in Headers : k < m /\ m <= l => Continues(m)}

(* CheckForIncludeWhatYouUse: what is missing does not depend on the order  *)
(* in which the headers of the file are looked at.                         *)
MissingIsDetermined ==
  phase = "linted" =>
    LET mine == {h \in include_state : CanLoad(source, h)}
    IN  missing = IF Last(source) = ".c" /\ mine = {}
                    THEN {}
                    ELSE Required \ (include_state \cup UNION {Loads(source, h) : h \in mine})

(* How many parentheses are open after the first i tokens of line l, the   *)
(* one that begins the condition of an else if on line l, where on line k   *)
(* the condition is closed, and the lines where it is.                      *)
OpenAfter(l, i) == Opened(lines)[l] + OpensMore(SubSeq(Tokens(lines[l]), 1, i))
Condition(l) ==
  LET tokens == Tokens(lines[l])
  IN  Min({i \in DOMAIN tokens : tokens[i] = "(" /\ \E j \in 1 .. i : tokens[j] = "else if"})
ClosesAt(l, k) ==
  {i \in DOMAIN Tokens(lines[k]) : /\ k = l => i > Condition(l)
                                   /\ OpenAfter(k, i) = OpenAfter(l, Condition(l) - 1)}
EndsOf(l) == {k \in DOMAIN lines : k >= l /\ ClosesAt(l, k) # {}}

(* CheckBraces: an else if with a brace before it is reported if and only   *)
(* if none comes after the parenthesis that closes its condition, on        *)
(* whatever line that is, if the other parentheses of its own line before   *)
(* the condition are closed, and none follow on the line of the close.      *)
ElseBracesJudged ==
  phase \notin {"comments", "lines"} =>
    \A l \in {k \in DOMAIN lines : k < n /\ FollowsCondition(Tokens(lines[k]))} :
      OpenAfter(l, Condition(l) - 1) = Opened(lines)[l] =>
        LET end == Min(EndsOf(l))
            tokens == Tokens(lines[end])
            After == {tokens[i] : i \in Min(ClosesAt(l, end)) + 1 .. Len(tokens)}
        IN  /\ EndsOf(l) # {}
            /\ After \cap {"(", ")"} = {} =>
                 ([line |-> l, error |-> "else"] \in braces <=> "{" \notin After)

(* Lines that can go on with a list of braced items, and where a statement  *)
(* begins that line l ends.                                                *)
GoesOn(l) == lines[l].is = "code" /\ Head(Tokens(lines[l])) = "{"
BeginsStatement(f, l) ==
  \A k \in f .. l :
    Blank(lines[k]) \/ ((k < l => ~ HasSemicolon(lines[k])) /\ (k > f => GoesOn(k)))
Statement(l) ==
  IF IsBlock(lines, l, l)
    THEN Min({f \in 0 .. l : ~ Blank(lines[f]) /\ BeginsStatement(f, l)}) ELSE l

(* CheckBraces: whether the semicolon of line l is reported depends on the  *)
(* whole statement it ends, from its first line on, and on no line of the   *)
(* statement before.                                                       *)
SemicolonsJudged ==
  phase \notin {"comments", "lines"} =>
    \A l \in {k \in DOMAIN lines : k < n} :
      [line |-> l, error |-> "semicolon"] \in braces
        <=> ErrorOfSemicolon(lines, Statement(l), l) # {}

(* The loops over lines and headers end, but for two cases: an else if from *)
(* which on a parenthesis is always open, where CloseExpression fails, and  *)
(* a braced block with a semicolon that no line other than such blocks and  *)
(* braces comes before, where CheckBraces looks for one forever.            *)
FileIsLinted ==
  <>(\/ phase = "linted"
     \/ phase = "crashed" /\ \A k \in n + 1 .. LineCount : Opened(lines)[k] > Opened(lines)[n]
     \/ /\ phase = "joining"
        /\ \A l \in 0 .. n - 1 : Blank(lines[l]) \/ (GoesOn(l) /\ ~ HasSemicolon(lines[l])))
=============================================================================
