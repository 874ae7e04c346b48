------------------------------ MODULE Planning ------------------------------
(***************************************************************************)
(* What commands do before, or instead of, executing targets: load the     *)
(* packages, build and check the target graph (internal/dag,               *)
(* internal/analysis), select targets (internal/selection), and answer     *)
(* queries about the graph (internal/cmd/cmds).                            *)
(*                                                                         *)
(* An input is a workspace with a command:                                 *)
(*   files      the BUILD files: [kind, package, platforms, definitions]   *)
(*   tree       all source files                                           *)
(*   before     files, tree of the revision that changes are asked since   *)
(*   touched    source files whose content differs from that revision      *)
(*   command    [kind, patterns, type, tags, excludes, transitive, ...]    *)
(*   interrupt  whether the user may press Ctrl-C                          *)
(***************************************************************************)
EXTENDS Loading, CycleSearch

CONSTANTS
  TestNames,  \* the target names that end in "test"
  Host        \* the platform and platform tags of this machine

VARIABLES
  selected,   \* labels that are marked
  left,       \* nodes that the selection has not looked at
  answer      \* what a query prints

vars == <<input, loading, phase, graph, search, selected, left, answer>>

Labels == DOMAIN nodes
Is(kind) == {l \in Labels : nodes[l].kind = kind}
IsTest(l) == l.name \in TestNames
IsTestOnly(l) == "testonly" \in nodes[l].tags
command == input.command

-----------------------------------------------------------------------------
(* The graph                                                               *)

\* BuildNodeMapFromPackages; labels of different packages differ.
AllDefinitions ==
  [l \in UNION {DOMAIN packages[p] : p \in DOMAIN packages} |-> packages[l.package][l]]

BuildNodeMap ==
  /\ Loaded /\ ~loadError /\ ~cancelled
  /\ nodes' = AllDefinitions /\ visited' = [l \in DOMAIN AllDefinitions |-> 0]
  /\ phase' = "graph"
  /\ UNCHANGED <<input, loading, edges, stack, tried, cycle, selected, left, answer>>

\* BuildGraph: every dependency exists, and is not the node itself.
BuildGraph ==
  /\ phase = "graph"
  /\ IF \E l \in Labels : l \in nodes[l].deps \/ ~(nodes[l].deps \subseteq Labels)
     THEN phase' = "bad graph" /\ UNCHANGED edges
     ELSE phase' = "search" /\ edges' = {e \in Labels \X Labels : e[1] \in nodes[e[2]].deps}
  /\ UNCHANGED <<input, loading, nodes, search, selected, left, answer>>

FindCycle ==
  /\ phase = "search" /\ ~Searched
  /\ SearchNext
  /\ UNCHANGED <<input, loading, phase, selected, left, answer>>

GetDependencies(n) == {e[1] : e \in {x \in edges : x[2] = n}}
GetDependants(n) == {e[2] : e \in {x \in edges : x[1] = n}}
ancestors[n \in Labels] == GetDependencies(n) \cup UNION {ancestors[d] : d \in GetDependencies(n)}
descendants[n \in Labels] == GetDependants(n) \cup UNION {descendants[d] : d \in GetDependants(n)}
GetAncestors(n) == ancestors[n]
GetDescendants(n) == descendants[n]

-----------------------------------------------------------------------------
(* Checks                                                                  *)

\* filepath.Clean of a joined path: the workspace root is the empty path.
Clean(path) ==
  FoldLeft(LAMBDA p, s : IF s = ".." /\ p # <<>> /\ Last(p) # ".." THEN Front(p) ELSE Append(p, s), <<>>, path)
pathTriesToEscape(path) == path # <<>> /\ Clean(path) # <<>> /\ Clean(path)[1] = ".."
cleanOutputPath(l, o) == Clean(l.package \o o.path)

\* The path of the workspace root is ".", and nothing begins with "./".
pathWithin(path, dir) == path = dir \/ (dir # <<>> /\ IsPrefix(dir, path))

targetsAreOrdered(a, b) == a \in GetAncestors(b) \/ b \in GetAncestors(a)

Overlap(a, o, b, p) ==
  LET x == cleanOutputPath(a, o) y == cleanOutputPath(b, p)
  IN  IF "oci" \in {o.type, p.type} THEN o = p
      ELSE \/ x = y
           \/ o.type = "dir" /\ pathWithin(y, x)
           \/ p.type = "dir" /\ pathWithin(x, y)

\* Mutant: a common dependant is taken for an order.
OutputConflictsLax ==
  \E a, b \in Is("target") : \E o \in nodes[a].outputs, p \in nodes[b].outputs :
    /\ <<a, o>> # <<b, p>> /\ ~targetsAreOrdered(a, b) /\ Overlap(a, o, b, p)
    /\ GetDescendants(a) \cap GetDescendants(b) = {}

\* A pair of outputs of one target is not ordered either.
detectOutputConflicts ==
  \E a, b \in Is("target") : \E o \in nodes[a].outputs, p \in nodes[b].outputs :
    <<a, o>> # <<b, p>> /\ ~targetsAreOrdered(a, b) /\ Overlap(a, o, b, p)

resolveDependencyTarget[l \in Labels] ==
  IF nodes[l].kind = "target" THEN {l}
  ELSE IF nodes[l].kind = "alias" THEN UNION {resolveDependencyTarget[d] : d \in nodes[l].deps}
  ELSE {}

Resolved(l) == UNION {resolveDependencyTarget[d] : d \in nodes[l].deps}

checkDependencyConstraints ==
  \A l \in Is("target") : \A d \in Resolved(l) :
    IsTest(l) \/ ~(IsTest(d) \/ (IsTestOnly(d) /\ ~IsTestOnly(l)))
checkResourceConstraints == \A l \in Is("resource") : \A d \in Resolved(l) : ~IsTest(d)

\* Directory outputs are not looked at.
checkPaths(l) ==
  /\ \A i \in nodes[l].inputs : ~pathTriesToEscape(i)
  /\ \A o \in nodes[l].outputs : o.type = "file" => ~pathTriesToEscape(l.package \o o.path)
checkOciPushReferences(l) ==
  nodes[l].push \subseteq {o.path : o \in {x \in nodes[l].outputs : x.type = "oci"}}
CheckTargetConstraints ==
  /\ \A l \in Is("target") : checkPaths(l) /\ checkOciPushReferences(l) /\ (IsTest(l) => nodes[l].command)
  /\ checkDependencyConstraints /\ checkResourceConstraints

\* All commands analyze the graph, builds and tests check the targets as well.
Analyze ==
  /\ phase = "search" /\ Searched
  /\ phase' = IF HasCycle \/ detectOutputConflicts THEN "bad graph"
              ELSE IF command.kind # "build" THEN "query"
              ELSE IF CheckTargetConstraints THEN "select" ELSE "bad targets"
  /\ left' = IF phase' = "select" THEN Labels ELSE {}
  /\ UNCHANGED <<input, loading, graph, search, selected, answer>>

-----------------------------------------------------------------------------
(* Selection                                                               *)

Matches(p, l) ==
  /\ IF p.recursive THEN IsPrefix(p.prefix, l.package) ELSE l.package = p.prefix
  /\ p.name \in {"", "all", "...", l.name}

nodeMatchesPatterns(l) == command.patterns = {} \/ \E p \in command.patterns : Matches(p, l)

TargetMatchesTypeSelection(l) ==
  CASE command.type = "test" -> IsTest(l) [] command.type = "no_test" -> ~IsTest(l)
    [] command.type = "bin_output" -> nodes[l].bin [] OTHER -> TRUE

\* Aliases and resources are matched by their labels only.
nodeMatchesFilters(l) ==
  /\ nodeMatchesPatterns(l)
  /\ nodes[l].kind = "target" =>
       /\ TargetMatchesTypeSelection(l)
       /\ command.tags = {} \/ command.tags \cap nodes[l].tags # {}
       /\ command.excludes \cap nodes[l].tags = {}

nodeMatchesPlatform(l) ==
  nodes[l].kind # "target" \/ nodes[l].platforms \in {None, {}} \/ nodes[l].platforms \cap Host # {}

\* Mutant: only direct dependencies are selected.
selectDirectDependencies(l) == GetDependencies(l)
selectAllAncestorsForBuild(l) == GetAncestors(l)

\* SelectTargetsForBuild: one node of the map after the other, in any order.
SelectNode(l) ==
  /\ phase = "select" /\ l \in left
  /\ left' = left \ {l}
  /\ LET more == {l} \cup selectAllAncestorsForBuild(l) IN
     IF ~nodeMatchesFilters(l) \/ ~nodeMatchesPlatform(l) THEN UNCHANGED <<selected, phase>>
     ELSE IF \E a \in more : ~nodeMatchesPlatform(a) THEN phase' = "bad selection" /\ UNCHANGED selected
     ELSE selected' = selected \cup more /\ UNCHANGED phase
  /\ UNCHANGED <<input, loading, graph, search, answer>>

EndSelection ==
  /\ phase = "select" /\ left = {}
  /\ phase' = IF selected \cap Is("target") = {} THEN "bad selection" ELSE "build"
  /\ UNCHANGED <<input, loading, graph, search, selected, left, answer>>

-----------------------------------------------------------------------------
(* Queries                                                                 *)

FilterNodes(S) == {l \in S : nodeMatchesFilters(l) /\ nodeMatchesPlatform(l)}

Source(l, i) == Clean(l.package \o i)
\* getChangedFiles: of git, with those that are not committed
changedSources == input.touched \cup (input.tree \ input.before.tree) \cup (input.before.tree \ input.tree)
changedBuildFiles ==
  {f \in DOMAIN input.files :
     f \notin DOMAIN input.before.files \/ input.before.files[f] # input.files[f]}

owners(sources) == {l \in Is("target") : \E i \in nodes[l].inputs : Source(l, i) \in sources}

\* Mutant: the file that defines a target does not count.
ChangedByInputs == owners(changedSources)
matchingTargets == owners(changedSources) \cup {l \in Is("target") : nodes[l].file \in changedBuildFiles}

changes ==
  matchingTargets \cup
    IF command.transitive THEN (UNION {GetDescendants(l) : l \in matchingTargets}) \cap Is("target") ELSE {}

\* explain-changes: the affected nodes, as trees that go from those without
\* affected dependants through their affected dependencies
affected == matchingTargets \cup UNION {GetDescendants(l) : l \in matchingTargets}
consumers == {l \in affected : GetDependants(l) \cap affected = {}}
buildUpstreamTree[l \in Labels] ==
  {l} \cup UNION {buildUpstreamTree[d] : d \in GetDependencies(l) \cap affected}

deps(l) == IF command.transitive THEN GetAncestors(l) ELSE GetDependencies(l)
rdeps(l) == IF command.transitive THEN GetDescendants(l) ELSE GetDependants(l)

\* graph shows all platforms, and with -t what the targets depend on.
graphNodes ==
  LET matched == {l \in Labels : nodeMatchesFilters(l)}
  IN  matched \cup IF command.transitive THEN UNION {GetAncestors(l) : l \in matched} ELSE {}

Answer ==
  /\ phase = "query"
  /\ \/ command.kind = "list" /\ answer' = FilterNodes(Labels)
     \/ command.kind = "graph" /\ answer' = graphNodes
     \/ command.kind = "deps" /\ \E l \in Labels : answer' = FilterNodes(deps(l))
     \/ command.kind = "rdeps" /\ \E l \in Labels : answer' = FilterNodes(rdeps(l))
     \/ command.kind = "owners" /\ answer' = owners(command.sources)
     \/ command.kind = "changes" /\ answer' = FilterNodes(changes)
     \/ command.kind = "explain" /\ answer' = UNION {buildUpstreamTree[l] : l \in consumers}
  /\ phase' = "answered"
  /\ UNCHANGED <<input, loading, graph, search, selected, left>>

-----------------------------------------------------------------------------
Init ==
  /\ LoadInit
  /\ nodes = << >> /\ edges = {} /\ visited = << >> /\ stack = <<>> /\ tried = {} /\ cycle = <<>>
  /\ selected = {} /\ left = {} /\ answer = {}

Next ==
  \/ LoadNext /\ UNCHANGED <<graph, search, selected, left, answer>>
  \/ BuildNodeMap \/ BuildGraph \/ FindCycle \/ Analyze
  \/ \E l \in left : SelectNode(l)
  \/ EndSelection \/ Answer

Spec == Init /\ [][Next]_vars

-----------------------------------------------------------------------------
(* Properties                                                              *)

\* A load that succeeds has every definition of every BUILD file, once, however
\* many workers load the files of a package at the same time; one that fails has
\* been interrupted, or a file is rejected, or two files define the same label.
LoadedAll ==
  LET present == {f \in DOMAIN input.files : Parsed(f).kind # "unmatched"}
      Names(f) == {Label(f, d) : d \in Range(Parsed(f).definitions)}
      clash == \E f, g \in present : f # g /\ Names(f) \cap Names(g) # {}
  IN  /\ phase \notin {"loading", "load failed"} =>
           /\ ~clash /\ \A f \in present : ~Rejected(f)
           /\ Labels = UNION {Names(f) : f \in present}
           /\ \A f \in present : \A l \in Names(f) : nodes[l] = Defined(f)[l]
      /\ phase = "load failed" =>
           input.interrupt \/ clash \/ \E f \in present : Rejected(f)

Accepted == phase \in {"select", "build", "query", "answered"}
\* where a target writes
Images(l) == {o.path : o \in {x \in nodes[l].outputs : x.type = "oci"}}
Paths(l) == {cleanOutputPath(l, o) : o \in {x \in nodes[l].outputs : x.type = "file"}}
Directories(l) == {cleanOutputPath(l, o) : o \in {x \in nodes[l].outputs : x.type = "dir"}}

\* In a graph that is accepted, targets that may run at the same time write to
\* different places (the directory of the whole workspace aside).  In one that is
\* built, no target other than a test has a test among all that it depends on,
\* through targets, aliases and resources, and only tests and test-only targets have
\* a test-only target there, unless through a resource.
AcceptedIsSound ==
  /\ Accepted =>
       \A a, b \in Is("target") : a # b /\ a \notin GetAncestors(b) /\ b \notin GetAncestors(a) =>
         /\ Images(a) \cap Images(b) = {} /\ Paths(a) \cap Paths(b) = {}
         /\ \A x \in Directories(a) \ {<<>>} :
              ~\E w \in Paths(b) \cup (Directories(b) \ {<<>>}) : IsPrefix(x, w)
  /\ phase \in {"select", "build"} =>
       \A a \in Is("target") :
         /\ ~IsTest(a) => \A b \in GetAncestors(a) : ~IsTest(b) \/ nodes[b].kind # "target"
         /\ ~IsTest(a) /\ ~IsTestOnly(a) =>
              \A b \in GetAncestors(a) : nodes[b].kind = "target" /\ IsTestOnly(b) =>
                \E r \in Is("resource") \cap GetAncestors(a) : b \in GetAncestors(r)

\* What is built is, in whatever order the nodes are looked at, the nodes that match
\* the command and this machine with all they depend on, all of them for this
\* machine; the selection fails only if that is impossible or nothing is left.
SelectionClosed ==
  LET wanted == {l \in Labels : nodeMatchesFilters(l) /\ nodeMatchesPlatform(l)}
      needed == wanted \cup {l \in Labels : \E w \in wanted : l \in GetAncestors(w)}
  IN  /\ phase = "build" =>
           /\ wanted \subseteq selected /\ selected \subseteq needed
           /\ \A l \in selected : GetDependencies(l) \subseteq selected /\ nodeMatchesPlatform(l)
      /\ phase = "bad selection" =>
           needed \cap Is("target") = {} \/ \E l \in needed : ~nodeMatchesPlatform(l)

\* grog changes lists every target with a definition or a present input that differs
\* from the revision (one that defines the name twice cannot be loaded), and with
\* --dependents=transitive whatever target depends on it.  The trees of
\* explain-changes show all of these, each below a consumer, and the aliases and
\* resources between them, and nothing that is not affected.
ChangesCover ==
  LET Old(l) == {d \in UNION {Range(input.before.files[f].definitions) :
                                f \in {g \in DOMAIN input.before.files : input.before.files[g].package = l.package}} :
                   d.name = l.name}
      New(l) == {d \in Range(Parsed(nodes[l].file).definitions) : d.name = l.name}
      different == {l \in Is("target") :
                      \/ Old(l) # New(l) /\ \A d, e \in Old(l) : d = e
                      \/ \E i \in nodes[l].inputs :
                           \/ Source(l, i) \in input.touched
                           \/ ~(Source(l, i) \in input.tree <=> Source(l, i) \in input.before.tree)}
      reached == different \cup {l \in Is("target") : GetAncestors(l) \cap different # {}}
  IN  phase = "answered" =>
        /\ command.kind = "changes" =>
             FilterNodes(IF command.transitive THEN reached ELSE different) \subseteq answer
        /\ command.kind = "explain" => answer = affected /\ reached \subseteq answer
=============================================================================
