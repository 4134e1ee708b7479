--------------------------- MODULE CleansedLines ---------------------------
(* clint.py, CleansedLines: the lines of a file without comments (`lines`), *)
(* and without strings as well (`elided`).  A line is known by a sketch of  *)
(* it, one that has more to tell by the tokens that the checks tell apart.  *)
EXTENDS Naturals, FiniteSets, FiniteSetsExt, SequencesExt

(* The sketches of lines that tell something, and what they tell.           *)
Sketches ==
  {"", "//", "/*", "*/", "/* */", "*/ x;", "x; /*", "/* */ /*", "  x;", "{", "}", "};", "use", "#include",
   "f()", "f();", "f() {", "f() { }", "TEST() {", "class A;", "class A", "class A {",
   "class B : A {", ": A {", "virtual f();", "virtual ~A();", "public:"}
(* The tokens that the checks look for, those in strings, and any other, x. *)
Words == {"{", "}", "(", ")", ";", ":", "=", "else", "else if", "do", "class", "struct", "enum",
          "'{'", "'}'", "';'", "x"}
TokensOf ==
  [s \in Sketches |->
     CASE s \in {"", "//", "/* */"} -> <<>>
       [] s \in {"{", "}"} -> <<s>>
       [] s \in {"  x;", "*/ x;", "use", "f();", "virtual f();", "virtual ~A();"} -> <<"x", ";">>
       [] s \in {"f() {", "TEST() {"} -> <<"x", "{">>
       [] s = "x; /*" -> <<"x", ";", "x">>
       [] s = "f() { }" -> <<"x", "{", "}">>
       [] s = "};" -> <<"}", ";">>
       [] s = "class A;" -> <<"class", ";">>
       [] s = "class A" -> <<"class">>
       [] s = "class A {" -> <<"class", "{">>
       [] s = "class B : A {" -> <<"class", ":", "{">>
       [] s = ": A {" -> <<":", "{">>
       [] s = "public:" -> <<"x", ":">>
       [] s \in {"f()", "/*", "*/", "/* */ /*", "#include"} -> <<"x">>]

IsLine(line) == line.is \in Sketches \/ (line.is = "code" /\ line.tokens \in Seq(Words))
Tokens(line) == IF line.is = "code" THEN line.tokens ELSE TokensOf[line.is]
Blank(line) == Tokens(line) = <<>>
Occurrences(tokens, token) == Cardinality({i \in DOMAIN tokens : tokens[i] = token})
HasToken(line, token) == Contains(Tokens(line), token)
(* What a check finds that reads `lines`: what is quoted as well.           *)
Quoted(token) ==
  CASE token = "{" -> "'{'"
    [] token = "}" -> "'}'"
    [] token = ";" -> "';'"
HasInLines(line, token) == HasToken(line, token) \/ HasToken(line, Quoted(token))

(* What has been added up before each line, of a number for each.           *)
SumsBefore(added) ==
  LET sum[l \in 0 .. Cardinality(DOMAIN added)] ==
        IF l = 0 THEN 0 ELSE sum[l - 1] + added[l - 1]
  IN  sum
=============================================================================
