------------------------------ MODULE MCRouter ------------------------------
(* Instances of Router for TLC.  The names of the server are shortened. *)
EXTENDS Router

GET == <<71, 32>>
Rest == <<32, 72, 13, 10, 13, 10, 120>>
Get(p) == GET \o p \o Rest

\* Slash, percent, two, f, zero and dot.
Alphabet == {47, 37, 50, 102, 48, 46}
ShortPaths == UNION {[1..n -> Alphabet] : n \in 1..4}

Slash_p == <<47, 112>>
Slash_s == <<47, 115, 47>>
Api == Slash_p
Status == Slash_p \o <<47, 115>>
Echo == Slash_p \o <<47, 101>>
Static == {Slash_s}
DotW == <<46, 119>>
Frontend == <<119>>
IndexHtml == <<47, 105>>
AFile == Slash_s \o <<102>>
AWasm == Slash_s \o <<102, 46, 119>>
ADotFile == <<47, 46, 102>>
SomeFiles == {Frontend \o p : p \in {IndexHtml, AFile, AWasm, ADotFile}}

Sql == {<<45, 45>>}
Xss == {<<60, 115>>}
Traversal == {<<46, 46, 47>>, <<46, 46, 92>>, <<126, 47>>}

\* Routed requests; a path longer than its field; a method longer than its own;
\* text without a line, without a path and after empty lines.
SomeRequests ==
  {Get(p) : p \in
     {Status, Echo, Api, Api \o <<120>>, AFile, AWasm, ADotFile, Slash_s \o <<120>>,
      Slash_s \o <<120, 46, 119>>, <<47, 37, 50, 101, 102>>, <<47, 47>> \o Status,
      <<47, 37, 55, 48, 47, 101>>, <<47, 45, 45>>, <<47, 60, 115>>, <<47, 126, 47>>,
      <<47, 46, 46, 47>>, <<46, 46, 47, 120>>, <<47, 37, 48, 48, 120>>,
      <<37, 50, 53, 50, 102>>, <<47, 97, 97, 97, 97, 97, 97, 37, 50, 102>>}}
  \cup {<<10, 10>> \o Get(AFile), <<10>>, <<71>>, <<71, 10>>, <<71, 71, 71, 71, 47>> \o Rest,
        <<>>}

SomePaths == {Get(p) : p \in ShortPaths}
AllRequests == SomeRequests \cup SomePaths
=============================================================================
