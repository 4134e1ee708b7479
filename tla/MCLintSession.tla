--------------------------- MODULE MCLintSession ---------------------------
(* LintSession for TLC: command lines of up to two options, and errors      *)
(* whose categories are prefixes of one another.                            *)
EXTENDS LintSession

Include == <<"build", "/include">>
Alpha == <<"build", "/include", "_alpha">>

F(sign, prefix) == [sign |-> sign, prefix |-> prefix]
Option(name, val) == [name |-> name, val |-> val]

Flags == {
  Option("--filter", <<F("+", Include)>>),
  Option("--filter", <<F("-", <<>>), F("+", Alpha)>>),
  Option("--filter", <<F("+", Alpha), F("-", Include)>>),
  Option("--filter", <<F("no sign", Include)>>),
  Option("--filter", <<>>),
  Option("--verbose", 5),
  Option("--counting", "toplevel"),
  Option("--counting", "detailed"),
  Option("--help", <<>>),
  Option("bad option", <<>>)}

MCArgumentLists == {<<>>} \cup {<<f>> : f \in Flags} \cup (Flags \X Flags)
MCFindings == {[category |-> Include, confidence |-> 4], [category |-> Alpha, confidence |-> 5]}
MCNolints == {None, All, Alpha, Unknown}
=============================================================================
