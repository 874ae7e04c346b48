----------------------------- MODULE MCPlanning ------------------------------
(***************************************************************************)
(* Workspaces and commands of five kinds: every graph over three labels,   *)
(* acyclic graphs with outputs, kinds, platforms and tags, several BUILD   *)
(* files loaded at the same time, and changes since a revision.            *)
(***************************************************************************)
EXTENDS Planning, TLC

CONSTANTS w1, w2

MCWorkers == {w1, w2}
MCTestNames == {"1_test", "2_test", "3_test"}
MCHost == {"linux", "gpu"}
WorkerSymmetry == Permutations(MCWorkers)

P == <<"p">>
Target(n) ==
  [name |-> n, kind |-> "target", file |-> None, deps |-> {}, inputs |-> {}, globs |-> {}, excludes |-> {},
   outputs |-> {}, platforms |-> None, tags |-> {}, push |-> {}, bin |-> FALSE, command |-> TRUE]
File(package, definitions) ==
  [kind |-> "package", package |-> package, platforms |-> {}, definitions |-> definitions]

Command(kind) ==
  [kind |-> kind, patterns |-> {}, type |-> "all", tags |-> {}, excludes |-> {}, transitive |-> FALSE,
   sources |-> {}]
Build == Command("build")
Pattern(prefix, recursive, name) == [prefix |-> prefix, recursive |-> recursive, name |-> name]

Workspace(files, com) ==
  [files |-> files, tree |-> {}, before |-> [files |-> files, tree |-> {}], touched |-> {},
   command |-> com, interrupt |-> FALSE]
OneFile(package, definitions, com) ==
  Workspace([f \in {"BUILD.yaml"} |-> File(package, definitions)], com)

Three == <<"1", "2", "3">>
L(package, n) == [package |-> package, name |-> n]

\* Every graph: dependencies on oneself, on each other, and on what is missing.
Graphs3 ==
  {OneFile(P, [i \in 1 .. 3 |-> [Target(Three[i]) EXCEPT !.deps = {L(P, n) : n \in d[i]}]], Build) :
     d \in [1 .. 3 -> SUBSET {"1", "2", "3"}]}
  \cup {OneFile(P, <<[Target("1") EXCEPT !.deps = {L(P, "4")}]>>, Build)}

\* The acyclic graphs, in which a node depends on nodes before it
Dags == {d \in [1 .. 3 -> SUBSET (1 .. 2)] : \A i \in 1 .. 3 : \A j \in d[i] : j < i}
Dag(package, d, nodeOf(_), com) ==
  OneFile(package,
    [i \in 1 .. 3 |-> [nodeOf(i) EXCEPT !.deps = {L(package, nodeOf(j).name) : j \in d[i]}]], com)

Kinds == {"target", "test", "testonly", "alias", "resource"}
OfKind(k, n) ==
  CASE k = "target" -> Target(n)
    [] k = "test" -> Target(n \o "_test")
    [] k = "testonly" -> [Target(n) EXCEPT !.tags = {"testonly"}]
    [] OTHER -> [Target(n) EXCEPT !.kind = k]
\* an alias has one dependency
Possible(d, k) == \A i \in 1 .. 3 : k[i] = "alias" => \E j \in 1 .. 2 : d[i] = {j}
KindInputs ==
  {LET d == x[1] k == x[2] IN Dag(P, d, LAMBDA i : OfKind(k[i], Three[i]), Build) :
     x \in {y \in Dags \X [1 .. 3 -> Kinds] : Possible(y[1], y[2])}}
  \cup {OneFile(P, <<[Target("1_test") EXCEPT !.command = FALSE]>>, Build),
        OneFile(P, <<[Target("1") EXCEPT !.inputs = {<<"..", "s">>}]>>, Build),
        OneFile(P, <<[Target("1") EXCEPT !.push = {"img"}]>>, Build)}

Output(type, path) == [type |-> type, path |-> path]
OutputSets ==
  {{Output("file", <<"a">>)}, {Output("dir", <<"a">>)}, {Output("file", <<"a", "b">>)},
   {Output("dir", <<"c", "..", "a", "b">>)}, {Output("dir", <<>>)}, {Output("dir", <<"..", "p">>)},
   {Output("file", <<"..", "..", "a">>)}, {Output("oci", "img")},
   {Output("file", <<"a">>), Output("dir", <<"a">>)}, {Output("oci", "img"), Output("file", <<"..", "a">>)}}
OutputInputs ==
  {LET at == x[3] IN
   Dag(x[1], x[2],
       LAMBDA i : IF i \in DOMAIN at THEN [Target(Three[i]) EXCEPT !.outputs = at[i], !.push = x[4]]
                                     ELSE Target(Three[i]), Build) :
     x \in {<<>>, P} \X Dags \X (UNION {[S -> OutputSets] : S \in {{1, 2}, {1, 3}, {2, 3}}}) \X {{}}}

Commands ==
  {Build, [Build EXCEPT !.type = "test"], [Build EXCEPT !.type = "no_test"], [Build EXCEPT !.type = "bin_output"],
   [Build EXCEPT !.tags = {"x"}], [Build EXCEPT !.excludes = {"x"}],
   [Build EXCEPT !.patterns = {Pattern(P, FALSE, "3")}], [Build EXCEPT !.patterns = {Pattern(<<>>, TRUE, "all")}],
   [Build EXCEPT !.patterns = {Pattern(<<"q">>, TRUE, ""), Pattern(<<>>, TRUE, "2")}]}
  \cup {[Command(k) EXCEPT !.transitive = t] : k \in {"list", "graph", "deps", "rdeps"}, t \in BOOLEAN}
Variants(n) ==
  {Target(n), Target(n \o "_test"), [Target(n) EXCEPT !.platforms = {"gpu"}, !.tags = {"x"}],
   [Target(n) EXCEPT !.platforms = {"mac"}], [Target(n) EXCEPT !.bin = TRUE], OfKind("resource", n)}
SelectInputs ==
  {LET v == x[2] IN Dag(P, x[1], LAMBDA i : v[i], x[3]) :
     x \in Dags \X {<<a, b, c>> : a \in Variants("1"), b \in Variants("2"), c \in {Target("3"), OfKind("alias", "3")}}
           \X Commands}
  
\* Three files, of one package or of two, that may be loaded in any order
Contents(package) ==
  {File(package, <<Target("1")>>), File(package, <<Target("2"), [Target("3") EXCEPT !.deps = {L(P, "1")}]>>),
   File(package, <<OfKind("alias", "1")>>), File(package, <<Target("2"), Target("2")>>),
   [File(package, <<[OfKind("resource", "3") EXCEPT !.command = FALSE]>>) EXCEPT !.platforms = {"mac"}],
   [File(package, <<Target("4"), [Target("5") EXCEPT !.platforms = {}]>>) EXCEPT !.platforms = {"mac"}],
   [File(package, <<>>) EXCEPT !.kind = "broken"], [File(package, <<>>) EXCEPT !.kind = "unmatched"]}
LoadInputs ==
  {[Workspace([f \in {"BUILD.json", "BUILD.pkl", "Makefile"} |->
                 CASE f = "BUILD.json" -> x[1] [] f = "BUILD.pkl" -> x[2] [] OTHER -> x[3]], Command("list"))
      EXCEPT !.interrupt = x[4]] :
     x \in Contents(P) \X Contents(P) \X (Contents(P) \cup Contents(<<>>)) \X BOOLEAN}

\* Changes: the first target has a file, the second the files of its package and of
\* a directory below it, but one, and the third depends on them as the graph says.
Sources == {<<"p", "s">>, <<"p", "d", "s">>, <<"p", "x">>}
Changing(d, com) ==
  LET now == Dag(P, d,
               LAMBDA i : CASE i = 1 -> [Target("1") EXCEPT !.inputs = {<<"s">>, <<"no">>}]
                            [] i = 2 -> [Target("2") EXCEPT !.globs = {<<>>, <<"d">>}, !.excludes = {<<"d">>}]
                            [] OTHER -> OfKind(IF d[3] = {2} THEN "alias" ELSE "target", "3"), com)
      file == now.files["BUILD.yaml"]
      Edited == [file EXCEPT !.definitions[2] = [@ EXCEPT !.tags = {"x"}]]
      Without == [file EXCEPT !.definitions = SubSeq(@, 2, 3)]
      Only == [file EXCEPT !.definitions = SubSeq(@, 1, 1)]
      Is1(f) == [g \in {"BUILD.yaml"} |-> f]
      Is2(f, e) == [g \in {"BUILD.yaml", "BUILD.json"} |-> IF g = "BUILD.yaml" THEN f ELSE e]
  IN  {[now EXCEPT !.files = fs[2], !.tree = tree, !.before = [files |-> fs[1], tree |-> Sources \ gone],
                   !.touched = touched] :
         fs \in {<<Is1(file), Is1(file)>>, <<Is1(Edited), Is1(file)>>, <<Is1(Without), Is1(file)>>,
                 <<Is2(Without, Only), Is1(file)>>, <<Is1(file), Is2(Without, Only)>>},
         tree \in {Sources, Sources \ {<<"p", "s">>}}, gone \in SUBSET {<<"p", "d", "s">>, <<"p", "x">>},
         touched \in SUBSET {<<"p", "x">>}}
ChangeInputs ==
  UNION {Changing(x[1], x[2]) :
           x \in {d \in Dags : d[3] # {}} \X
                 {Command("changes"), [Command("changes") EXCEPT !.transitive = TRUE], Command("explain"),
                  [Command("owners") EXCEPT !.sources = {<<"p", "s">>}]}}

MCInputs == Graphs3 \cup KindInputs \cup OutputInputs \cup SelectInputs \cup LoadInputs \cup ChangeInputs
=============================================================================
