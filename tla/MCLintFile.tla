----------------------------- MODULE MCLintFile -----------------------------
(* LintFile for TLC: files of a few lines about comments and functions,     *)
(* classes and their sections, braces after else and before semicolons,     *)
(* about the order of includes, and about what they include.                *)
EXTENDS LintFile

Lines(sketches) == {[is |-> s] : s \in sketches}

Code(lists) == {[is |-> "code", tokens |-> t] : t \in lists}

Header(path, rank, kin) ==
  [path |-> path, rank |-> rank, system |-> kin \in {"c", "cpp"}, stl |-> kin = "cpp",
   same_base |-> kin = "own", same_dir |-> kin = "own", same_first |-> kin \in {"own", "related"}]
Include(header) == [is |-> "#include", header |-> header]
Use(header) == [is |-> "use", header |-> header]

Own == Header(<<"base/", "heap", ".h">>, 2, "own")
Inl == Header(<<"base/", "internal/", "heap", "-inl", ".h">>, 3, "other")
Related == Header(<<"base/", "heap_util", ".h">>, 3, "related")
Stdio == Header(<<"stdio", ".h">>, 5, "c")
Errno == Header(<<"errno", ".h">>, 1, "c")
String == Header(<<"string">>, 6, "cpp")
Map == Header(<<"map">>, 4, "cpp")
Other == Header(<<"aux/", "list", ".h">>, 1, "other")

Abs(path) == <<"/abs/">> \o path
MCDisk == (Abs(Own.path) :> {String.path}) @@ (Abs(Inl.path) :> {Map.path})

Source == Abs(<<"base/", "heap", ".c">>)
Test == Abs(<<"base/", "public/", "heap", "_test", ".c">>)
Interface == Abs(<<"base/", "heap", ".h">>)

MCProfiles == {
  [alphabet |-> Lines({"/*", "*/", "/* */", "*/ x;", "x; /*", "/* */ /*"}),
   max_lines |-> 5, sources |-> {Interface}, verbosities |-> {0}],
  [alphabet |-> Lines({"/*", "*/", "  x;", "f() {", "}"}) \cup Code({<<"x", "'}'">>}),
   max_lines |-> 4, sources |-> {Interface}, verbosities |-> {0}],
  [alphabet |-> Lines({"f()", "f();", "TEST() {", "{", "}", "  x;"}),
   max_lines |-> 5, sources |-> {Interface}, verbosities |-> {0, 1}],
  [alphabet |-> Lines({"class A {", "class A", "class A;", "{", "};", "virtual f();"}),
   max_lines |-> 5, sources |-> {Interface}, verbosities |-> {0}],
  [alphabet |-> Lines({"class B : A {", "class A {", "class A", ": A {", "};", "virtual f();",
                       "virtual ~A();", "public:", "/* */"}),
   max_lines |-> 4, sources |-> {Interface}, verbosities |-> {0}],
  [alphabet |-> Lines({"class A {", "};", "public:", "  x;"})
                \cup Code({<<"struct", "x", "{">>, <<"x", "'{'", ";">>}),
   max_lines |-> 5, sources |-> {Interface}, verbosities |-> {0}],
  [alphabet |-> Code({<<"}">>, <<"else", "{">>, <<"}", "else", "x", ";">>, <<"}", "else if", "(">>,
                      <<"}", "else if", "(", "x", "(">>, <<"x", ")">>, <<"x", ")", "{">>,
                      <<"x", ")", "{", "x", "(">>, <<"x", ")", "{", "x", "(", ")", ";">>}),
   max_lines |-> 4, sources |-> {Interface}, verbosities |-> {0}],
  [alphabet |-> Code({<<"{", "x", "}", ";">>, <<"{", "x", "}">>, <<"x", "=">>, <<"struct", "x", ";">>,
                      <<"x">>, <<"{">>}) \cup Lines({"", "*/ x;"}),
   max_lines |-> 4, sources |-> {Interface}, verbosities |-> {0}],
  [alphabet |-> {Include(h) : h \in {Own, Related, Stdio, Errno, String, Other}},
   max_lines |-> 5, sources |-> {Source}, verbosities |-> {0}],
  [alphabet |-> {Include(h) : h \in {Own, Inl, String}} \cup {Use(h) : h \in {String, Map}}
                \cup Lines({"/*", "*/"}),
   max_lines |-> 4, sources |-> {Source, Test, Interface}, verbosities |-> {0}]}
=============================================================================
