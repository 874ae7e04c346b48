--------------------------- MODULE Planning_proofs ---------------------------
(***************************************************************************)
(* Proofs about what commands do before they execute targets (Planning,    *)
(* with Loading and CycleSearch), for any workspace and any command: the   *)
(* search for cycles is right, a load that succeeds is complete, an        *)
(* accepted graph is sound, a selection is closed and changes are covered. *)
(*                                                                         *)
(* The graph need not be finite and no induction goes over it.  What       *)
(* FindCycle leaves is a graph in which every set of nodes has a node      *)
(* without dependencies in the set, and one without dependants in it; a    *)
(* claim about all ancestors of a node is proved by taking such a node of  *)
(* the set of those for which it is false.                                 *)
(***************************************************************************)
EXTENDS Planning, TLAPS

-----------------------------------------------------------------------------
(* The search for cycles                                                   *)

\* The types of the variables of CycleSearch
SearchTypes ==
  /\ edges \subseteq (DOMAIN nodes) \X (DOMAIN nodes)
  /\ visited \in [DOMAIN nodes -> {0, 1, 2}]
  /\ stack \in Seq(DOMAIN nodes)
  /\ tried \subseteq edges

\* The stack is a path, and holds a node at most once, namely while it is visited.
Path == \A i \in 1 .. Len(stack) - 1 : <<stack[i], stack[i + 1]>> \in edges
Visiting == \A i \in 1 .. Len(stack) : visited[stack[i]] = 1
Once == \A i, j \in 1 .. Len(stack) : stack[i] = stack[j] => i = j
\* An edge that was followed leads to a visited node or to the next of the path.
Followed == \A n, m \in DOMAIN nodes : <<n, m>> \in tried =>
  visited[m] = 2 \/ \E i \in 1 .. Len(stack) - 1 : stack[i] = n /\ stack[i + 1] = m
\* The neighbours of a visited node are visited, ...
Closed == \A n, m \in DOMAIN nodes : <<n, m>> \in edges /\ visited[n] = 2 => visited[m] = 2
\* ... and among visited nodes there is no cycle: of every set of them, one has no
\* neighbour in the set, and one is nobody's neighbour there.
NoneAmongVisited ==
  \A S \in SUBSET DOMAIN nodes : S # {} /\ (\A n \in S : visited[n] = 2) =>
    /\ \E n \in S : \A m \in S : <<n, m>> \notin edges
    /\ \E n \in S : \A m \in S : <<m, n>> \notin edges
Reported == cycle # <<>> => IsCycle(cycle)

SearchInv == SearchTypes /\ Path /\ Visiting /\ Once /\ Followed /\ Closed /\ NoneAmongVisited /\ Reported

\* The search begins in the invariant.
LEMMA SearchBegins == SearchInit => SearchInv
  BY DEF SearchInit, SearchInv, SearchTypes, Path, Visiting, Once, Followed, Closed, NoneAmongVisited, Reported

\* A node that is put on the stack was unvisited, and the edge to it, if any, is
\* from the top.
LEMMA PushKeeps ==
  ASSUME SearchInv, NEW n \in DOMAIN nodes, visited[n] = 0, Push(n),
         UNCHANGED <<graph, cycle>>,
         \/ stack = <<>> /\ tried' = tried
         \/ stack # <<>> /\ <<Top, n>> \in edges /\ tried' = tried \cup {<<Top, n>>}
  PROVE  SearchInv'
<1> USE DEF SearchInv
<1>1. /\ visited' = [visited EXCEPT ![n] = 1] /\ stack' = Append(stack, n)
      /\ nodes' = nodes /\ edges' = edges /\ cycle' = cycle
  BY DEF Push, graph
<1>2. stack \in Seq(DOMAIN nodes) /\ Len(stack) \in Nat
  BY DEF SearchTypes
<1>3. /\ Len(stack') = Len(stack) + 1 /\ stack'[Len(stack) + 1] = n
      /\ \A i \in 1 .. Len(stack) : stack'[i] = stack[i] /\ stack[i] \in DOMAIN nodes
  BY <1>1, <1>2
<1>4. visited'[n] = 1 /\ \A m \in DOMAIN nodes : m # n => visited'[m] = visited[m]
  BY <1>1 DEF SearchTypes
<1>5. \A i \in 1 .. Len(stack) : stack[i] # n
  BY DEF Visiting
<1>6. stack # <<>> => Len(stack) > 0 /\ Top = stack[Len(stack)] /\ Top \in DOMAIN nodes
  BY <1>2, <1>3 DEF Top
<1>a. SearchTypes'
  <2>1. stack' \in Seq(DOMAIN nodes) BY <1>1, <1>2
  <2>2. visited' \in [DOMAIN nodes -> {0, 1, 2}] BY <1>1 DEF SearchTypes
  <2>3. tried' \subseteq edges BY DEF SearchTypes
  <2> QED BY <1>1, <2>1, <2>2, <2>3 DEF SearchTypes
<1>b. Path'
  <2>1. ASSUME NEW i \in 1 .. Len(stack') - 1 PROVE <<stack'[i], stack'[i + 1]>> \in edges
    <3>1. CASE i = Len(stack)
      <4>1. stack # <<>> BY <2>1, <3>1, <1>2, <1>3
      <4> QED BY <4>1, <3>1, <1>3, <1>6, <2>1, <1>2
    <3>2. CASE i # Len(stack)
      BY <3>2, <2>1, <1>2, <1>3 DEF Path
    <3> QED BY <3>1, <3>2
  <2> QED BY <2>1, <1>1 DEF Path
<1>c. Visiting'
  BY <1>2, <1>3, <1>4, <1>5 DEF Visiting
<1>d. Once'
  BY <1>2, <1>3, <1>5 DEF Once
<1>e. Followed'
  <2>1. ASSUME NEW k \in DOMAIN nodes, NEW m \in DOMAIN nodes, <<k, m>> \in tried'
        PROVE  visited'[m] = 2 \/ \E i \in 1 .. Len(stack') - 1 : stack'[i] = k /\ stack'[i + 1] = m
    <3>1. CASE <<k, m>> \in tried
      <4>1. CASE visited[m] = 2 BY <4>1, <1>4
      <4>2. CASE \E i \in 1 .. Len(stack) - 1 : stack[i] = k /\ stack[i + 1] = m
        <5>1. PICK i \in 1 .. Len(stack) - 1 : stack[i] = k /\ stack[i + 1] = m BY <4>2
        <5>2. i \in 1 .. Len(stack) /\ i + 1 \in 1 .. Len(stack) /\ i \in 1 .. Len(stack') - 1
          BY <1>2, <1>3
        <5> QED BY <5>1, <5>2, <1>3
      <4> QED BY <3>1, <4>1, <4>2 DEF Followed
    <3>2. CASE <<k, m>> \notin tried
      <4>1. stack # <<>> /\ k = Top /\ m = n BY <2>1, <3>2
      <4>2. Len(stack) \in 1 .. Len(stack') - 1 BY <4>1, <1>6, <1>3, <1>2
      <4> QED BY <4>1, <4>2, <1>3, <1>6, <1>2
    <3> QED BY <3>1, <3>2
  <2> QED BY <2>1, <1>1 DEF Followed
<1>f. Closed'
  BY <1>1, <1>4 DEF Closed
<1>g. NoneAmongVisited'
  <2>1. \A S \in SUBSET DOMAIN nodes : (\A m \in S : visited'[m] = 2) => \A m \in S : visited[m] = 2
    BY <1>4
  <2>2. NoneAmongVisited
    OBVIOUS
  <2>. QED  BY ONLY <2>1, <2>2, <1>1 DEF NoneAmongVisited
<1>h. Reported'
  BY <1>1 DEF Reported, IsCycle
<1> QED BY <1>a, <1>b, <1>c, <1>d, <1>e, <1>f, <1>g, <1>h

\* From the place of a node on the path, over the top, back to the node
LEMMA CloseKeeps ==
  ASSUME SearchInv, NEW m \in DOMAIN nodes, Close(m)
  PROVE  SearchInv'
<1> USE DEF SearchInv
<1>1. PICK i \in 1 .. Len(stack) : stack[i] = m /\ cycle' = Append(SubSeq(stack, i, Len(stack)), m)
  BY DEF Close
<1>2. /\ nodes' = nodes /\ edges' = edges /\ visited' = visited /\ stack' = stack /\ tried' = tried
      /\ <<stack[Len(stack)], m>> \in edges
  BY DEF Close, graph, Top
<1>3. stack \in Seq(DOMAIN nodes) /\ Len(stack) \in Nat BY DEF SearchTypes
<1> DEFINE part == SubSeq(stack, i, Len(stack))
<1>4. /\ part \in Seq(DOMAIN nodes) /\ Len(part) = Len(stack) - i + 1
      /\ \A j \in 1 .. Len(part) : part[j] = stack[i + j - 1]
  BY <1>1, <1>3
<1>5. /\ Len(cycle') = Len(part) + 1 /\ cycle'[Len(part) + 1] = m
      /\ \A j \in 1 .. Len(part) : cycle'[j] = part[j]
  BY <1>1, <1>4
<1>6. Len(part) \in Nat /\ Len(part) > 0 BY <1>1, <1>3, <1>4
<1> HIDE DEF part
<1>7. ASSUME NEW j \in 1 .. Len(cycle') - 1 PROVE <<cycle'[j], cycle'[j + 1]>> \in edges
  <2>1. CASE j = Len(part)
    <3>1. cycle'[j] = stack[Len(stack)]
      BY <2>1, <1>4, <1>5, <1>6, <1>3, <1>1
    <3> QED BY <3>1, <2>1, <1>5, <1>2
  <2>2. CASE j # Len(part)
    <3>0. j \in Nat /\ j > 0 /\ j < Len(part) /\ i \in Nat /\ i > 0 /\ i <= Len(stack)
      BY <2>2, <1>7, <1>5, <1>6, <1>3, <1>1
    <3>1. j \in 1 .. Len(part) /\ j + 1 \in 1 .. Len(part) /\ i + j - 1 \in 1 .. Len(stack) - 1
      BY <3>0, <1>6, <1>4, <1>3
    <3>2. cycle'[j] = stack[i + j - 1] /\ cycle'[j + 1] = stack[(i + j - 1) + 1]
      BY <3>1, <1>4, <1>5, <1>3
    <3> QED BY <3>1, <3>2 DEF Path
  <2> QED BY <2>1, <2>2
<1>8. cycle'[1] = m
  BY <1>1, <1>3, <1>4, <1>5, <1>6
<1>9. Reported'
  BY <1>2, <1>5, <1>6, <1>7, <1>8 DEF Reported, IsCycle
<1>a. SearchTypes' /\ Path' /\ Visiting' /\ Once' BY <1>2 DEF SearchTypes, Path, Visiting, Once
<1>b. Followed' BY <1>2 DEF Followed
<1>c. Closed' /\ NoneAmongVisited' BY <1>2 DEF Closed, NoneAmongVisited
<1> QED BY <1>9, <1>a, <1>b, <1>c

\* A neighbour that is visited already
LEMMA SkipKeeps ==
  ASSUME SearchInv, NEW m \in DOMAIN nodes, Skip(m)
  PROVE  SearchInv'
<1> USE DEF SearchInv
<1>1. /\ nodes' = nodes /\ edges' = edges /\ visited' = visited /\ stack' = stack /\ cycle' = cycle
      /\ tried' = tried \cup {<<Top, m>>} /\ visited[m] = 2 /\ <<Top, m>> \in edges
  BY DEF Skip, graph
<1>2. SearchTypes' BY <1>1 DEF SearchTypes
<1>3. Followed' BY <1>1 DEF Followed
<1> QED
  BY <1>1, <1>2, <1>3 DEF Path, Visiting, Once, Closed, NoneAmongVisited, Reported, IsCycle

\* The top is visited when all its neighbours are: a set of visited nodes with the
\* top in it has a node without neighbours in it.
LEMMA LeaveKeeps ==
  ASSUME SearchInv, Leave
  PROVE  SearchInv'
<1> USE DEF SearchInv
<1> DEFINE top == stack[Len(stack)]
           k == Len(stack) - 1
<1>1. /\ nodes' = nodes /\ edges' = edges /\ cycle' = cycle /\ tried' = tried
      /\ visited' = [visited EXCEPT ![top] = 2] /\ stack' = SubSeq(stack, 1, k)
      /\ \A m \in DOMAIN nodes : <<top, m>> \notin edges \ tried
  BY DEF Leave, graph, Top
<1>2. stack \in Seq(DOMAIN nodes) /\ Len(stack) \in Nat /\ Len(stack) > 0
  BY DEF SearchTypes, Leave
<1>3. top \in DOMAIN nodes /\ k \in Nat /\ Len(stack) = k + 1 BY <1>2
<1>4. /\ stack' \in Seq(DOMAIN nodes) /\ Len(stack') = k
      /\ \A i \in 1 .. k : stack'[i] = stack[i]
  BY <1>1, <1>2, <1>3
<1>5. visited'[top] = 2 /\ \A m \in DOMAIN nodes : m # top => visited'[m] = visited[m]
  BY <1>1, <1>3 DEF SearchTypes
<1>6. visited[top] = 1 BY <1>2 DEF Visiting
<1>7. \A i \in 1 .. k : stack[i] # top BY <1>2, <1>3 DEF Once
<1>8. \A m \in DOMAIN nodes : <<top, m>> \in edges => visited[m] = 2
  <2> SUFFICES ASSUME NEW m \in DOMAIN nodes, <<top, m>> \in edges PROVE visited[m] = 2
    OBVIOUS
  <2>1. <<top, m>> \in tried BY <1>1
  <2>2. ~ \E i \in 1 .. Len(stack) - 1 : stack[i] = top BY <1>7
  <2> QED BY <2>1, <2>2, <1>3 DEF Followed
<1> HIDE DEF top, k
<1>a. SearchTypes'
  <2>1. visited' \in [DOMAIN nodes -> {0, 1, 2}] BY <1>1 DEF SearchTypes
  <2> QED BY <2>1, <1>1, <1>4 DEF SearchTypes
<1>b. Path' /\ Once'
  BY <1>1, <1>3, <1>4 DEF Path, Once
<1>c. Visiting'
  <2>1. \A i \in 1 .. k : stack[i] \in DOMAIN nodes /\ visited[stack[i]] = 1
    BY <1>2, <1>3 DEF Visiting
  <2> QED BY <2>1, <1>4, <1>5, <1>7 DEF Visiting
<1>d. Followed'
  <2>1. ASSUME NEW n \in DOMAIN nodes, NEW m \in DOMAIN nodes, <<n, m>> \in tried, visited'[m] # 2
        PROVE  \E i \in 1 .. Len(stack') - 1 : stack'[i] = n /\ stack'[i + 1] = m
    <3>1. visited[m] # 2 /\ m # top BY <2>1, <1>5
    <3>2. PICK i \in 1 .. Len(stack) - 1 : stack[i] = n /\ stack[i + 1] = m
      BY <2>1, <3>1 DEF Followed
    <3>3. i + 1 # Len(stack) BY <3>1, <3>2 DEF top
    <3>4. i \in 1 .. Len(stack') - 1 /\ i \in 1 .. k /\ i + 1 \in 1 .. k
      BY <3>2, <3>3, <1>3, <1>4
    <3> QED BY <3>2, <3>4, <1>4
  <2>2. \A n, m \in DOMAIN nodes : <<n, m>> \in tried =>
          visited'[m] = 2 \/ \E i \in 1 .. Len(stack') - 1 : stack'[i] = n /\ stack'[i + 1] = m
    BY <2>1
  <2>3. nodes' = nodes /\ tried' = tried BY <1>1
  <2> HIDE DEF SearchInv
  <2> QED BY <2>2, <2>3 DEF Followed
<1>e. Closed'
  BY <1>1, <1>5, <1>8 DEF Closed
<1>f. NoneAmongVisited'
  <2>1. ASSUME NEW S \in SUBSET DOMAIN nodes, S # {}, \A n \in S : visited'[n] = 2
        PROVE  /\ \E n \in S : \A m \in S : <<n, m>> \notin edges
               /\ \E n \in S : \A m \in S : <<m, n>> \notin edges
    <3>1. CASE S \subseteq {top}
      <4>1. <<top, top>> \notin edges BY <1>3, <1>6, <1>8
      <4> QED BY <3>1, <2>1, <4>1
    <3>2. CASE ~(S \subseteq {top})
      <4>1. S \ {top} \in SUBSET DOMAIN nodes /\ S \ {top} # {} BY <2>1, <3>2
      <4>2. \A n \in S \ {top} : visited[n] = 2 BY <2>1, <1>5
      <4>3. PICK n \in S \ {top} : \A m \in S \ {top} : <<n, m>> \notin edges
        BY <4>1, <4>2 DEF NoneAmongVisited
      <4>4. <<n, top>> \notin edges BY <4>2, <1>3, <1>6, <2>1, <4>3 DEF Closed
      <4>5. top \in S => \A m \in S : <<m, top>> \notin edges
        BY <4>2, <1>3, <1>6, <1>8, <2>1 DEF Closed
      <4>6. top \notin S => \A n1 \in S : visited[n1] = 2
        BY <4>2
      <4>7. \E n1 \in S : \A m \in S : <<m, n1>> \notin edges
        BY <2>1, <4>5, <4>6 DEF NoneAmongVisited
      <4> QED BY <4>3, <4>4, <4>7
    <3> QED BY <3>1, <3>2
  <2> QED BY <2>1, <1>1 DEF NoneAmongVisited
<1>g. Reported' BY <1>1 DEF Reported, IsCycle
<1> QED BY <1>a, <1>b, <1>c, <1>d, <1>e, <1>f, <1>g

\* Every step of the search keeps the invariant.
LEMMA SearchStep == SearchInv /\ [SearchNext]_<<graph, search>> => SearchInv'
<1> SUFFICES ASSUME SearchInv, [SearchNext]_<<graph, search>> PROVE SearchInv'
  OBVIOUS
<1>1. CASE UNCHANGED <<graph, search>>
  <2>1. /\ nodes' = nodes /\ edges' = edges /\ visited' = visited /\ stack' = stack
        /\ tried' = tried /\ cycle' = cycle
    BY <1>1 DEF graph, search
  <2>2. SearchTypes' /\ Path' /\ Visiting' /\ Once' BY <2>1 DEF SearchInv, SearchTypes, Path, Visiting, Once
  <2>3. Followed' BY <2>1 DEF SearchInv, Followed
  <2>4. Closed' /\ NoneAmongVisited' /\ Reported'
    BY <2>1 DEF SearchInv, Closed, NoneAmongVisited, Reported, IsCycle
  <2> QED BY <2>2, <2>3, <2>4 DEF SearchInv
<1>2. ASSUME NEW n \in DOMAIN nodes, StartAt(n) PROVE SearchInv'
  BY <1>2, PushKeeps DEF StartAt
<1>3. ASSUME NEW n \in DOMAIN nodes, Descend(n) PROVE SearchInv'
  BY <1>3, PushKeeps DEF Descend
<1> QED BY <1>1, <1>2, <1>3, CloseKeeps, SkipKeeps, LeaveKeeps DEF SearchNext

\* The invariant is what makes an answer right.
LEMMA SearchIsRight == SearchInv => SearchIsSound
  BY DEF SearchInv, SearchIsSound, HasCycle, Searched, Reported, Acyclic, NoneAmongVisited

\* FindCycle is right for every graph and every order of its edges.
THEOREM FindCycleIsSound == Search => []SearchIsSound
  BY SearchBegins, SearchStep, SearchIsRight, PTL DEF Search

-----------------------------------------------------------------------------
(* Loading: where a file is                                                *)

Files == DOMAIN input.files
Present == {f \in Files : Parsed(f).kind # "unmatched"}
LabelsOf(f) == {Label(f, d) : d \in Range(Parsed(f).definitions)}
Clash == \E f, g \in Present : f # g /\ LabelsOf(f) \cap LabelsOf(g) # {}
Bad == Clash \/ \E f \in Present : Rejected(f)

Holding(f, steps) == {w \in Workers : worker[w].file = f /\ worker[w].step \in steps}

\* A worker has a file that nobody else has and that is not in the queue.
WorkerOK(w) ==
  \/ worker[w] = Idle
  \/ /\ worker[w].step \in {"load", "merge", "error"} /\ worker[w].file \in Files \ queue
     /\ worker[w] = At(worker[w].step, worker[w].file)
     /\ worker[w].step = "merge" => worker[w].file \in Present /\ ~Rejected(worker[w].file)
     /\ worker[w].step = "error" => Bad
     /\ \A x \in Workers : worker[x] # Idle /\ worker[x].file = worker[w].file => x = w

\* What is in a package comes from a file that has been merged.
EntryOK(p, l) ==
  \E f \in Present \ queue :
    /\ \A w \in Workers : worker[w].file = f => worker[w] \in {Idle, At("error", f)}
    /\ ~Rejected(f) /\ p = Package(f) /\ l \in LabelsOf(f) /\ packages[p][l] = Defined(f)[l]

\* A file that has been merged is in its package,
Whole(f) ==
  /\ ~Rejected(f) /\ Package(f) \in DOMAIN packages
  /\ \A l \in LabelsOf(f) :
       l \in DOMAIN packages[Package(f)] /\ packages[Package(f)][l].file = f

\* and no file is lost.
Tracked(f) ==
  \/ f \in queue \/ f \notin Present \/ Whole(f) \/ cancelled
  \/ \E w \in Workers : worker[w] \in {At("load", f), At("merge", f)} \/ worker[w].step = "error"

LoadInv ==
  /\ input \in Inputs /\ queue \subseteq Files
  /\ DOMAIN worker = Workers /\ \A w \in Workers : WorkerOK(w)
  /\ \A p \in DOMAIN packages : \A l \in DOMAIN packages[p] : EntryOK(p, l)
  /\ \A f \in Files : Tracked(f)
  /\ loadError \in BOOLEAN /\ cancelled \in BOOLEAN
  /\ loadError => Bad /\ cancelled
  /\ cancelled => input.interrupt \/ loadError
  /\ phase # "loading" => queue = {} /\ \A w \in Workers : worker[w] = Idle

\* Whose a definition is
LEMMA DefinedHasFile ==
  ASSUME input \in Inputs, NEW f \in Files, NEW l \in LabelsOf(f)
  PROVE  /\ l.package = Package(f) /\ l \in DOMAIN Defined(f) /\ Defined(f)[l].file = f
         /\ DOMAIN Defined(f) = LabelsOf(f)
         /\ \E d \in Range(Parsed(f).definitions) :
              /\ Label(f, d) = l /\ Defined(f)[l] = Enrich(f, Parsed(f), d, input.tree)
              /\ Defined(f)[l].kind = d.kind /\ Defined(f)[l].outputs = d.outputs
<1>1. PICK d \in Range(Parsed(f).definitions) :
        Label(f, d) = l /\ Defined(f)[l] = Enrich(f, Parsed(f), d, input.tree)
  BY DEF LabelsOf, Defined
<1>2. Fields \subseteq DOMAIN d
  BY <1>1, InputsAssumption DEF Files, Parsed
<1>3. /\ Enrich(f, Parsed(f), d, input.tree).file = f
      /\ Enrich(f, Parsed(f), d, input.tree).kind = d.kind
      /\ Enrich(f, Parsed(f), d, input.tree).outputs = d.outputs
  BY <1>2 DEF Enrich, Fields
<1>. QED  BY <1>1, <1>3 DEF LabelsOf, Defined, Label

\* What is said of files rests on the input alone.
LEMMA SameInput ==
  ASSUME input' = input
  PROVE  /\ Files' = Files /\ Present' = Present /\ (Bad' <=> Bad)
         /\ \A f : /\ Parsed(f)' = Parsed(f) /\ Rejected(f)' = Rejected(f) /\ Package(f)' = Package(f)
                   /\ LabelsOf(f)' = LabelsOf(f) /\ Defined(f)' = Defined(f)
BY DEF Files, Present, Bad, Clash, Parsed, Rejected, Package, LabelsOf, Label, Defined, Enrich

\* Taking a file from the queue keeps the invariant.
LEMMA TakeKeeps ==
  ASSUME LoadInv, NEW w \in Workers, Take(w)
  PROVE  LoadInv'
<1>1. PICK f \in queue : queue' = queue \ {f} /\ Becomes(w, IF cancelled THEN Idle ELSE At("load", f))
  BY DEF Take
<1>2. /\ worker[w] = Idle /\ UNCHANGED <<input, packages, loadError, cancelled, phase>>
      /\ f \in Files /\ phase = "loading"
  BY <1>1 DEF Take, LoadInv
<1>. DEFINE new == IF cancelled THEN Idle ELSE At("load", f)
<1>3. DOMAIN worker' = Workers /\ worker'[w] = new /\ \A x \in Workers \ {w} : worker'[x] = worker[x]
  BY <1>1 DEF LoadInv, Becomes
<1>4. \A x \in Workers : worker[x] # Idle => worker[x].file # f
  BY <1>1 DEF LoadInv, WorkerOK
<1>5. /\ At("load", f).step = "load" /\ At("load", f).file = f /\ Idle.step = "idle"
      /\ At("load", f) # Idle /\ (~cancelled => new = At("load", f)) /\ (cancelled => new = Idle)
  BY DEF At, Idle
<1>. HIDE DEF new
<1>6. ASSUME NEW x \in Workers PROVE WorkerOK(x)'
  <2>0. \A y \in Workers : WorkerOK(y)
    BY DEF LoadInv
  <2>1. CASE x = w
    BY <1>1, <1>2, <1>3, <1>4, <1>5, <2>1 DEF WorkerOK, Files
  <2>2. CASE x # w
    <3>1. WorkerOK(x) /\ worker'[x] = worker[x] /\ queue' \subseteq queue
      BY <1>1, <1>3, <2>0, <2>2
    <3>2. \A y \in Workers : worker'[y] # Idle /\ worker'[y].file = worker[x].file /\ worker[x] # Idle => y # w
      BY <1>3, <1>4, <1>5, <2>2
    <3>. QED  BY <1>2, <1>3, <3>1, <3>2, SameInput DEF WorkerOK
  <2>. QED  BY <2>1, <2>2
<1>7. ASSUME NEW p \in DOMAIN packages', NEW l \in DOMAIN packages'[p] PROVE EntryOK(p, l)'
  <2>1. PICK g \in Present \ queue :
          /\ \A x \in Workers : worker[x].file = g => worker[x] \in {Idle, At("error", g)}
          /\ ~Rejected(g) /\ p = Package(g) /\ l \in LabelsOf(g) /\ packages[p][l] = Defined(g)[l]
    BY <1>2, <1>7 DEF LoadInv, EntryOK
  <2>2. g \in Present' \ queue' /\ g # f
    BY <1>1, <1>2, <2>1 DEF Present, Files, Parsed
  <2>3. \A x \in Workers : worker'[x].file = g => worker'[x] \in {Idle, At("error", g)}
    BY <1>3, <1>5, <2>1, <2>2
  <2>4. Rejected(g)' = Rejected(g) /\ Package(g)' = Package(g) /\ LabelsOf(g)' = LabelsOf(g) /\ Defined(g)' = Defined(g)
    BY <1>2 DEF Rejected, Package, LabelsOf, Label, Defined, Enrich, Parsed
  <2>. QED  BY <1>2, <2>1, <2>2, <2>3, <2>4 DEF EntryOK
<1>8. ASSUME NEW g \in Files PROVE Tracked(g)'
  <2>1. Tracked(g)
    BY DEF LoadInv
  <2>2. Whole(g)' = Whole(g) /\ (g \in Present' <=> g \in Present)
    BY <1>2 DEF Whole, Rejected, Package, LabelsOf, Label, Parsed, Present, Files
  <2>3. CASE g = f
    BY <1>2, <1>3, <1>5, <2>3 DEF Tracked
  <2>4. CASE g # f
    <3>1. \A x \in Workers : worker[x] \in {At("load", g), At("merge", g)} \/ worker[x].step = "error" => x # w
      BY <1>2, <1>5 DEF At, Idle
    <3>. QED  BY <1>1, <1>2, <1>3, <2>1, <2>2, <2>4, <3>1 DEF Tracked
  <2>. QED  BY <2>3, <2>4
<1>9. Bad' = Bad
  BY <1>2 DEF Bad, Clash, Present, Files, Rejected, Parsed, LabelsOf, Label, Package
<1>10. Files' = Files
  BY <1>2 DEF Files
<1>. QED  BY <1>1, <1>2, <1>3, <1>6, <1>7, <1>8, <1>9, <1>10 DEF LoadInv

\* A worker goes on with its file, or is done with it.
LEMMA WorkerMoves ==
  ASSUME LoadInv, NEW w \in Workers, worker[w] # Idle, NEW f, f = worker[w].file, NEW new,
         Becomes(w, new), input' = input, queue' = queue,
         \/ new = Idle
         \/ new = At("merge", f) /\ f \in Present /\ ~Rejected(f)
         \/ new = At("error", f) /\ Bad
  PROVE  /\ DOMAIN worker' = Workers /\ worker'[w] = new
         /\ \A x \in Workers \ {w} : worker'[x] = worker[x]
         /\ \A x \in Workers : WorkerOK(x)'
         /\ f \in Files \ queue /\ phase = "loading"
         /\ \A x \in Workers \ {w} : worker[x] # Idle => worker[x].file # f
<1>1. DOMAIN worker' = Workers /\ worker'[w] = new /\ \A x \in Workers \ {w} : worker'[x] = worker[x]
  BY DEF LoadInv, Becomes
<1>2. /\ f \in Files \ queue /\ phase = "loading"
      /\ \A x \in Workers \ {w} : worker[x] # Idle => worker[x].file # f
  BY DEF LoadInv, WorkerOK
<1>3. /\ \A s : At(s, f).step = s /\ At(s, f).file = f
      /\ At("merge", f) # Idle /\ At("error", f) # Idle
  BY DEF At, Idle
<1>4. ASSUME NEW x \in Workers PROVE WorkerOK(x)'
  <2>0. \A y \in Workers : WorkerOK(y)
    BY DEF LoadInv
  <2>1. CASE x = w
    BY <1>1, <1>2, <1>3, <2>1, SameInput DEF WorkerOK
  <2>2. CASE x # w
    BY <1>1, <1>2, <1>3, <2>0, <2>2, SameInput DEF WorkerOK
  <2>. QED  BY <2>1, <2>2
<1>. QED  BY <1>1, <1>2, <1>4

\* An entry stays when its file stays where it is.
LEMMA EntryStays ==
  ASSUME NEW p, NEW l, EntryOK(p, l), input' = input, queue' \subseteq queue,
         packages'[p][l] = packages[p][l],
         \A w \in Workers : \A f : worker'[w].file = f /\ worker'[w] \notin {Idle, At("error", f)} =>
           worker[w].file = f /\ worker[w] \notin {Idle, At("error", f)}
  PROVE  EntryOK(p, l)'
<1>1. PICK g \in Present \ queue :
        /\ \A x \in Workers : worker[x].file = g => worker[x] \in {Idle, At("error", g)}
        /\ ~Rejected(g) /\ p = Package(g) /\ l \in LabelsOf(g) /\ packages[p][l] = Defined(g)[l]
  BY DEF EntryOK
<1>2. \A x \in Workers : worker'[x].file = g => worker'[x] \in {Idle, At("error", g)}
  BY <1>1
<1>. QED  BY <1>1, <1>2, SameInput DEF EntryOK

\* Load keeps the invariant.
LEMMA LoadKeeps ==
  ASSUME LoadInv, NEW w \in Workers, Load(w)
  PROVE  LoadInv'
<1>. DEFINE f == worker[w].file
<1>1. /\ worker[w].step = "load" /\ UNCHANGED <<input, queue, packages, loadError, cancelled, phase>>
      /\ worker[w] # Idle /\ worker[w] = At("load", f) /\ f \in Files
  BY DEF Load, LoadInv, WorkerOK, Idle
<1>2. PICK new : /\ Becomes(w, new)
                 /\ \/ new = Idle /\ f \notin Present
                    \/ new = At("merge", f) /\ f \in Present /\ ~Rejected(f)
                    \/ new = At("error", f) /\ f \in Present /\ Rejected(f)
  <2>1. f \in Present <=> Parsed(f).kind # "unmatched"
    BY <1>1 DEF Present
  <2>2. CASE Parsed(f).kind = "unmatched"
    BY <2>1, <2>2 DEF Load
  <2>3. CASE Parsed(f).kind # "unmatched" /\ Rejected(f)
    BY <2>1, <2>3 DEF Load
  <2>4. CASE Parsed(f).kind # "unmatched" /\ ~Rejected(f)
    BY <2>1, <2>4 DEF Load
  <2>. QED  BY <2>2, <2>3, <2>4
<1>. HIDE DEF f
<1>3. \/ new = Idle
      \/ new = At("merge", f) /\ f \in Present /\ ~Rejected(f)
      \/ new = At("error", f) /\ Bad
  BY <1>2 DEF Bad
<1>4. /\ DOMAIN worker' = Workers /\ worker'[w] = new
      /\ \A x \in Workers \ {w} : worker'[x] = worker[x]
      /\ \A x \in Workers : WorkerOK(x)'
  BY <1>1, <1>2, <1>3, WorkerMoves DEF f
<1>5. /\ \A s : At(s, f).step = s /\ At(s, f).file = f
      /\ At("load", f) \notin {Idle, At("error", f)}
  BY DEF At, Idle
<1>6. ASSUME NEW p \in DOMAIN packages', NEW l \in DOMAIN packages'[p] PROVE EntryOK(p, l)'
  <2>1. EntryOK(p, l)
    BY <1>1, <1>6 DEF LoadInv
  <2>2. ASSUME NEW x \in Workers, NEW g, worker'[x].file = g, worker'[x] \notin {Idle, At("error", g)}
        PROVE  worker[x].file = g /\ worker[x] \notin {Idle, At("error", g)}
    BY <1>1, <1>3, <1>4, <1>5, <2>2
  <2>. QED  BY <1>1, <2>1, <2>2, EntryStays
<1>7. ASSUME NEW g \in Files PROVE Tracked(g)'
  <2>1. Tracked(g) /\ (Whole(g)' <=> Whole(g)) /\ Present' = Present
    BY <1>1, SameInput DEF LoadInv, Whole
  <2>2. CASE g = f
    BY <1>1, <1>2, <1>4, <1>5, <2>1, <2>2 DEF Tracked
  <2>3. CASE g # f
    <3>1. \A x \in Workers : worker[x] \in {At("load", g), At("merge", g)} \/ worker[x].step = "error" => x # w
      BY <1>1, <1>5, <2>3 DEF At
    <3>. QED  BY <1>1, <1>4, <2>1, <3>1 DEF Tracked
  <2>. QED  BY <2>2, <2>3
<1>8. phase = "loading"
  BY <1>1 DEF LoadInv
<1>. QED  BY <1>1, <1>4, <1>6, <1>7, <1>8, SameInput DEF LoadInv

\* Merge keeps the invariant: a label that is there already belongs to another file.
LEMMA MergeKeeps ==
  ASSUME LoadInv, NEW w \in Workers, Merge(w)
  PROVE  LoadInv'
<1>. DEFINE f == worker[w].file
            into == IF Package(f) \in DOMAIN packages THEN packages[Package(f)] ELSE << >>
            twice == DOMAIN Defined(f) \cap DOMAIN into
            Merged(labels) ==
              [p \in DOMAIN packages \cup {Package(f)} |->
                 IF p = Package(f)
                 THEN [l \in DOMAIN into \cup labels |-> IF l \in labels THEN Defined(f)[l] ELSE into[l]]
                 ELSE packages[p]]
<1>1. /\ worker[w].step = "merge" /\ UNCHANGED <<input, queue, loadError, cancelled, phase>>
      /\ worker[w] # Idle /\ worker[w] = At("merge", f) /\ f \in Present /\ ~Rejected(f)
      /\ f \notin queue /\ input \in Inputs /\ f \in Files
  BY DEF Merge, LoadInv, WorkerOK, Idle
<1>2. PICK labels \in SUBSET LabelsOf(f) :
        /\ packages' = Merged(labels) /\ labels \cap DOMAIN into = {}
        /\ \/ twice = {} /\ Becomes(w, Idle) /\ labels = LabelsOf(f)
           \/ twice # {} /\ Becomes(w, At("error", f))
  <2>1. DOMAIN Defined(f) = LabelsOf(f)
    BY DEF Defined, LabelsOf
  <2>2. CASE twice = {}
    BY <2>1, <2>2 DEF Merge
  <2>3. CASE twice # {}
    BY <2>1, <2>3 DEF Merge
  <2>. QED  BY <2>2, <2>3
<1>3. /\ DOMAIN packages' = DOMAIN packages \cup {Package(f)}
      /\ \A p \in DOMAIN packages \ {Package(f)} : packages'[p] = packages[p]
      /\ DOMAIN packages'[Package(f)] = DOMAIN into \cup labels
      /\ \A l \in DOMAIN into : packages'[Package(f)][l] = packages[Package(f)][l]
      /\ \A l \in labels : packages'[Package(f)][l] = Defined(f)[l]
      /\ Package(f) \in DOMAIN packages => DOMAIN into = DOMAIN packages[Package(f)]
      /\ Package(f) \notin DOMAIN packages => DOMAIN into = {}
  <2>1. packages'[Package(f)] =
          [l \in DOMAIN into \cup labels |-> IF l \in labels THEN Defined(f)[l] ELSE into[l]]
    BY <1>2
  <2>2. /\ DOMAIN packages' = DOMAIN packages \cup {Package(f)}
        /\ \A p \in DOMAIN packages \ {Package(f)} : packages'[p] = packages[p]
    BY <1>2
  <2>3. /\ Package(f) \notin DOMAIN packages => DOMAIN into = {}
        /\ Package(f) \in DOMAIN packages => into = packages[Package(f)]
    OBVIOUS
  <2>. HIDE DEF into
  <2>. QED  BY <1>2, <2>1, <2>2, <2>3
<1>. HIDE DEF Merged
<1>4. ASSUME NEW l \in twice PROVE Clash
  <2>1. Package(f) \in DOMAIN packages /\ l \in DOMAIN packages[Package(f)] /\ l \in LabelsOf(f)
    BY <1>3, <1>4 DEF Defined, LabelsOf
  <2>2. EntryOK(Package(f), l)
    BY <2>1 DEF LoadInv
  <2>3. PICK g \in Present : g # f /\ l \in LabelsOf(g)
    BY <1>1, <2>2 DEF EntryOK, At, Idle
  <2>. QED  BY <1>1, <2>1, <2>3 DEF Clash
<1>. HIDE DEF into, twice
<1>5. PICK new : /\ Becomes(w, new)
                 /\ \/ new = Idle /\ twice = {} /\ labels = LabelsOf(f)
                    \/ new = At("error", f) /\ Bad
  BY <1>2, <1>4 DEF Bad
<1>6. /\ DOMAIN worker' = Workers /\ worker'[w] = new
      /\ \A x \in Workers \ {w} : worker'[x] = worker[x]
      /\ \A x \in Workers : WorkerOK(x)'
      /\ phase = "loading" /\ \A x \in Workers \ {w} : worker[x] # Idle => worker[x].file # f
  BY <1>1, <1>5, WorkerMoves
<1>. HIDE DEF f
<1>7. /\ \A s, g : At(s, g).step = s /\ At(s, g).file = g
      /\ Idle \notin {At("merge", f), At("error", f)} /\ At("merge", f) # At("error", f)
      /\ At("load", f) # At("merge", f)
  BY DEF At, Idle
<1>8. ASSUME NEW p \in DOMAIN packages', NEW l \in DOMAIN packages'[p] PROVE EntryOK(p, l)'
  <2>1. CASE p \in DOMAIN packages /\ l \in DOMAIN packages[p] /\ packages'[p][l] = packages[p][l]
    <3>1. EntryOK(p, l)
      BY <2>1 DEF LoadInv
    <3>2. ASSUME NEW x \in Workers, NEW g, worker'[x].file = g, worker'[x] \notin {Idle, At("error", g)}
          PROVE  worker[x].file = g /\ worker[x] \notin {Idle, At("error", g)}
      BY <1>5, <1>6, <1>7, <3>2
    <3>. QED  BY <1>1, <2>1, <3>1, <3>2, EntryStays
  <2>2. CASE p = Package(f) /\ l \in labels
    <3>1. packages'[p][l] = Defined(f)[l] /\ l \in LabelsOf(f)
      BY <1>2, <1>3, <2>2
    <3>2. \A x \in Workers : worker'[x].file = f => worker'[x] \in {Idle, At("error", f)}
      BY <1>5, <1>6
    <3>. QED  BY <1>1, <2>2, <3>1, <3>2, SameInput DEF EntryOK
  <2>. QED  BY <1>3, <1>8, <2>1, <2>2
<1>9. ASSUME NEW g \in Files PROVE Tracked(g)'
  <2>1. Tracked(g) /\ Present' = Present
    BY <1>1, SameInput DEF LoadInv
  <2>2. CASE new # Idle
    <3>1. worker'[w].step = "error"
      BY <1>5, <1>6, <1>7, <2>2
    <3>. QED  BY <3>1 DEF Tracked
  <2>3. CASE new = Idle
    <3>1. twice = {} /\ labels = LabelsOf(f)
      BY <1>5, <1>7, <2>3
    <3>2. CASE g = f
      <4>1. \A l \in LabelsOf(f) : packages'[Package(f)][l].file = f /\ l \in DOMAIN packages'[Package(f)]
        BY <1>1, <1>3, <3>1, DefinedHasFile
      <4>2. Whole(g)'
        BY <1>1, <1>3, <3>2, <4>1, SameInput DEF Whole
      <4>. QED  BY <4>2 DEF Tracked
    <3>3. CASE g # f
      <4>1. Whole(g) => Whole(g)'
        BY <1>1, <1>3, SameInput DEF Whole
      <4>2. \A x \in Workers : worker[x] \in {At("load", g), At("merge", g)} \/ worker[x].step = "error" => x # w
        BY <1>1, <1>7, <3>3
      <4>. QED  BY <1>1, <1>6, <2>1, <4>1, <4>2 DEF Tracked
    <3>. QED  BY <3>2, <3>3
  <2>. QED  BY <2>2, <2>3
<1>. QED  BY <1>1, <1>6, <1>8, <1>9, SameInput DEF LoadInv

\* SetError keeps the invariant.
LEMMA SetErrorKeeps ==
  ASSUME LoadInv, NEW w \in Workers, SetError(w)
  PROVE  LoadInv'
<1>. DEFINE f == worker[w].file
<1>1. /\ worker[w].step = "error" /\ UNCHANGED <<input, queue, packages, phase>>
      /\ loadError' = TRUE /\ cancelled' = TRUE /\ Becomes(w, Idle)
      /\ worker[w] # Idle /\ Bad
  BY DEF SetError, LoadInv, WorkerOK, Idle
<1>2. /\ DOMAIN worker' = Workers /\ worker'[w] = Idle
      /\ \A x \in Workers \ {w} : worker'[x] = worker[x]
      /\ \A x \in Workers : WorkerOK(x)'
      /\ phase = "loading"
  BY <1>1, WorkerMoves
<1>3. ASSUME NEW p \in DOMAIN packages', NEW l \in DOMAIN packages'[p] PROVE EntryOK(p, l)'
  <2>1. EntryOK(p, l)
    BY <1>1, <1>3 DEF LoadInv
  <2>. QED  BY <1>1, <1>2, <2>1, EntryStays
<1>4. \A g \in Files : Tracked(g)'
  BY <1>1 DEF Tracked
<1>5. /\ input' \in Inputs /\ queue' \subseteq Files' /\ Bad' /\ Files' = Files
      /\ loadError' \in BOOLEAN /\ cancelled' \in BOOLEAN /\ phase' = "loading"
  BY <1>1, <1>2, SameInput DEF LoadInv
<1>. QED  BY <1>1, <1>2, <1>3, <1>4, <1>5 DEF LoadInv

\* The steps that move no file keep the invariant.
LEMMA StillLoading ==
  ASSUME LoadInv, UNCHANGED <<input, queue, worker, packages, loadError>>,
         cancelled' \in BOOLEAN, cancelled => cancelled', cancelled' => cancelled \/ input.interrupt,
         phase' # "loading" => queue = {} /\ \A w \in Workers : worker[w] = Idle
  PROVE  LoadInv'
<1>1. ASSUME NEW p \in DOMAIN packages', NEW l \in DOMAIN packages'[p] PROVE EntryOK(p, l)'
  <2>1. EntryOK(p, l)
    BY <1>1 DEF LoadInv
  <2>. QED  BY <2>1, EntryStays
<1>2. ASSUME NEW w \in Workers PROVE WorkerOK(w)'
  <2>1. WorkerOK(w)
    BY DEF LoadInv
  <2>. QED  BY <2>1, SameInput DEF WorkerOK
<1>3. ASSUME NEW f \in Files PROVE Tracked(f)'
  <2>1. Tracked(f)
    BY DEF LoadInv
  <2>. QED  BY <2>1, SameInput DEF Tracked, Whole, LoadInv
<1>4. /\ input' \in Inputs /\ queue' \subseteq Files' /\ (Bad' <=> Bad) /\ Files' = Files
      /\ loadError' \in BOOLEAN /\ DOMAIN worker' = Workers
      /\ phase' # "loading" => queue' = {} /\ \A w \in Workers : worker'[w] = Idle
  BY SameInput DEF LoadInv
<1>5. /\ cancelled' \in BOOLEAN /\ (loadError' => Bad' /\ cancelled')
      /\ cancelled' => input'.interrupt \/ loadError'
  BY <1>4 DEF LoadInv
<1>. QED  BY <1>1, <1>2, <1>3, <1>4, <1>5 DEF LoadInv

\* In the beginning all files are in the queue.
LEMMA InitLoadInv == LoadInit => LoadInv
<1>. SUFFICES ASSUME LoadInit PROVE LoadInv
  OBVIOUS
<1>1. DOMAIN packages = {}
  BY DEF LoadInit
<1>. QED  BY <1>1 DEF LoadInit, LoadInv, WorkerOK, Tracked, Files

\* What the steps of the load keep, others keep that do not touch it.
LEMMA LoadNextKeeps ==
  ASSUME LoadInv, LoadNext
  PROVE  LoadInv'
<1>1. CASE Interrupt
  BY <1>1, StillLoading DEF Interrupt, LoadInv
<1>2. CASE LoadFails
  BY <1>2, StillLoading DEF LoadFails, Loaded, loading, LoadInv
<1>. QED  BY <1>1, <1>2, TakeKeeps, LoadKeeps, MergeKeeps, SetErrorKeeps DEF LoadNext

\* The node map of a load that succeeded has what the files define, once.
LEMMA NodeMapIsComplete ==
  ASSUME LoadInv, Loaded, ~loadError, ~cancelled
  PROVE  /\ ~Clash /\ \A f \in Present : ~Rejected(f)
         /\ DOMAIN AllDefinitions = UNION {LabelsOf(f) : f \in Present}
         /\ \A f \in Present : \A l \in LabelsOf(f) : AllDefinitions[l] = Defined(f)[l]
<1>1. input \in Inputs
  BY DEF LoadInv
<1>2. \A f \in Present : Whole(f) /\ f \in Files
  BY DEF LoadInv, Loaded, Tracked, At, Idle, Present
<1>3. ASSUME NEW f \in Present, NEW l \in LabelsOf(f)
      PROVE  /\ l.package = Package(f) /\ l \in DOMAIN AllDefinitions
             /\ AllDefinitions[l] = Defined(f)[l] /\ AllDefinitions[l].file = f
  <2>1. /\ l.package = Package(f) /\ Package(f) \in DOMAIN packages
        /\ l \in DOMAIN packages[Package(f)] /\ packages[Package(f)][l].file = f
    BY <1>1, <1>2, <1>3, DefinedHasFile DEF Whole
  <2>2. l \in DOMAIN AllDefinitions /\ AllDefinitions[l] = packages[Package(f)][l]
    BY <2>1 DEF AllDefinitions
  <2>3. PICK g \in Present : l \in LabelsOf(g) /\ packages[Package(f)][l] = Defined(g)[l]
    BY <2>1 DEF LoadInv, EntryOK
  <2>4. g = f
    BY <1>1, <1>2, <2>1, <2>3, DefinedHasFile
  <2>. QED  BY <2>1, <2>2, <2>3, <2>4
<1>4. ~Clash
  BY <1>3 DEF Clash
<1>5. ASSUME NEW l \in DOMAIN AllDefinitions PROVE l \in UNION {LabelsOf(f) : f \in Present}
  <2>1. PICK p \in DOMAIN packages : l \in DOMAIN packages[p]
    BY <1>5 DEF AllDefinitions
  <2>2. EntryOK(p, l)
    BY <2>1 DEF LoadInv
  <2>. QED  BY <2>2 DEF EntryOK
<1>6. DOMAIN AllDefinitions = UNION {LabelsOf(f) : f \in Present}
  BY <1>3, <1>5
<1>7. \A f \in Present : ~Rejected(f)
  BY <1>2 DEF Whole
<1>8. \A f \in Present : \A l \in LabelsOf(f) : AllDefinitions[l] = Defined(f)[l]
  BY <1>3
<1>. QED  BY <1>4, <1>6, <1>7, <1>8

-----------------------------------------------------------------------------
(* Loading: what the node map has                                          *)

\* Once the map of the nodes is built it is complete, and a load fails for a reason.
MapInv ==
  /\ phase \notin {"loading", "load failed"} =>
       /\ ~Bad /\ Labels = UNION {LabelsOf(f) : f \in Present}
       /\ \A f \in Present : \A l \in LabelsOf(f) : nodes[l] = Defined(f)[l]
  /\ phase = "load failed" => loadError \/ cancelled

\* The steps after the load
Planned ==
  \/ BuildNodeMap \/ BuildGraph \/ FindCycle \/ Analyze
  \/ \E l \in left : SelectNode(l)
  \/ EndSelection \/ Answer

\* They are taken when no worker has a file, and none but the first changes the nodes
\* or what was loaded.
LEMMA PlannedSteps ==
  ASSUME Planned
  PROVE  /\ UNCHANGED <<input, queue, worker, packages, loadError, cancelled>>
         /\ phase # "loading" \/ Loaded
         /\ phase # "load failed" /\ phase' \notin {"loading", "load failed"}
         /\ BuildNodeMap \/ (phase # "loading" /\ nodes' = nodes)
<1>. USE DEF loading, graph, search
<1>1. CASE BuildNodeMap
  BY <1>1 DEF BuildNodeMap, Loaded
<1>2. CASE BuildGraph
  BY <1>2 DEF BuildGraph, BuildNodeMap
<1>3. CASE FindCycle
  BY <1>3 DEF FindCycle, SearchNext, StartAt, Descend, Close, Skip, Leave, BuildNodeMap
<1>4. CASE Analyze
  BY <1>4 DEF Analyze, BuildNodeMap
<1>5. ASSUME NEW l \in left, SelectNode(l) PROVE UNCHANGED <<input, loading, graph>> /\ phase = "select" /\ phase' \in {"select", "bad selection"}
  BY <1>5 DEF SelectNode
<1>6. CASE EndSelection
  BY <1>6 DEF EndSelection, BuildNodeMap
<1>7. CASE Answer
  BY <1>7 DEF Answer, BuildNodeMap
<1>. QED  BY <1>1, <1>2, <1>3, <1>4, <1>5, <1>6, <1>7 DEF Planned

\* All steps keep the invariant of the load.
LEMMA LoadInvKept == LoadInv /\ [Next]_vars => LoadInv'
<1>. SUFFICES ASSUME LoadInv, [Next]_vars PROVE LoadInv'
  OBVIOUS
<1>1. CASE LoadNext
  BY <1>1, LoadNextKeeps
<1>2. CASE Planned
  <2>1. /\ UNCHANGED <<input, queue, worker, packages, loadError, cancelled>>
        /\ phase # "loading" \/ Loaded
    BY <1>2, PlannedSteps
  <2>2. queue = {} /\ \A w \in Workers : worker[w] = Idle
    BY <2>1 DEF LoadInv, Loaded
  <2>3. cancelled \in BOOLEAN
    BY DEF LoadInv
  <2>. QED  BY <2>1, <2>2, <2>3, StillLoading
<1>3. CASE UNCHANGED vars
  <2>1. UNCHANGED <<input, queue, worker, packages, loadError, cancelled, phase>>
    BY <1>3 DEF vars, loading
  <2>. QED  BY <2>1, StillLoading DEF LoadInv
<1>. QED  BY <1>1, <1>2, <1>3 DEF Next, Planned

\* So a node is what a file defines.
LEMMA NodeHasFile ==
  ASSUME MapInv, phase \notin {"loading", "load failed"}, NEW l \in Labels
  PROVE  \E f \in Present : l \in LabelsOf(f) /\ nodes[l] = Defined(f)[l]
<1>1. /\ Labels = UNION {LabelsOf(f) : f \in Present}
      /\ \A f \in Present : \A k \in LabelsOf(f) : nodes[k] = Defined(f)[k]
  BY DEF MapInv
<1>2. PICK f \in Present : l \in LabelsOf(f)
  BY <1>1
<1>. QED  BY <1>1, <1>2

\* As long as the load goes on the phase is "loading".
LEMMA LoadPhase ==
  ASSUME LoadInv, LoadNext
  PROVE  phase = "loading" /\ phase' \in {"loading", "load failed"}
<1>1. ASSUME NEW w \in Workers, Take(w) \/ Load(w) \/ Merge(w) \/ SetError(w) PROVE phase = "loading" /\ phase' = phase
  <2>1. CASE Take(w)
    BY <2>1 DEF Take, LoadInv
  <2>2. CASE ~Take(w)
    <3>1. worker[w] # Idle /\ phase' = phase
      BY <1>1, <2>2 DEF Load, Merge, SetError, Idle
    <3>. QED  BY <3>1 DEF LoadInv
  <2>. QED  BY <2>1, <2>2
<1>2. CASE Interrupt
  BY <1>2 DEF Interrupt
<1>3. CASE LoadFails
  BY <1>3 DEF LoadFails, Loaded
<1>. QED  BY <1>1, <1>2, <1>3 DEF LoadNext

\* All steps keep the invariant of the map.
LEMMA MapInvKept == LoadInv /\ MapInv /\ [Next]_vars => MapInv'
<1>. SUFFICES ASSUME LoadInv, MapInv, [Next]_vars PROVE MapInv'
  OBVIOUS
<1>1. CASE LoadNext
  <2>1. CASE LoadFails
    BY <2>1 DEF LoadFails, MapInv, loading
  <2>2. CASE ~LoadFails
    <3>1. phase' = phase
      BY <1>1, <2>2 DEF LoadNext, Take, Load, Merge, SetError, Interrupt
    <3>2. phase = "loading"
      BY <1>1, LoadPhase
    <3>. QED  BY <3>1, <3>2 DEF MapInv
  <2>. QED  BY <2>1, <2>2
<1>2. CASE BuildNodeMap
  <2>1. /\ Loaded /\ ~loadError /\ ~cancelled /\ nodes' = AllDefinitions /\ phase' = "graph"
        /\ input' = input
    BY <1>2 DEF BuildNodeMap
  <2>. QED  BY <2>1, NodeMapIsComplete, SameInput DEF MapInv, Labels, Bad
<1>3. CASE Planned /\ ~BuildNodeMap
  <2>1. /\ input' = input /\ nodes' = nodes /\ phase' \notin {"loading", "load failed"}
        /\ phase \notin {"loading", "load failed"}
    BY <1>3, PlannedSteps
  <2>2. /\ (Bad' <=> Bad) /\ Labels' = Labels /\ Present' = Present
        /\ \A f : LabelsOf(f)' = LabelsOf(f) /\ Defined(f)' = Defined(f)
    BY <2>1, SameInput DEF Labels
  <2>. QED  BY <2>1, <2>2 DEF MapInv
<1>4. CASE UNCHANGED vars
  <2>1. UNCHANGED <<input, nodes, phase, loadError, cancelled>>
    BY <1>4 DEF vars, loading, graph
  <2>2. /\ Labels' = Labels /\ Present' = Present /\ (Bad' <=> Bad)
        /\ \A f : LabelsOf(f)' = LabelsOf(f) /\ Defined(f)' = Defined(f)
    BY <2>1, SameInput DEF Labels
  <2>. QED  BY <2>1, <2>2 DEF MapInv
<1>. QED  BY <1>1, <1>2, <1>3, <1>4 DEF Next, Planned

\* A load that succeeds has everything that the BUILD files define, and one that fails
\* has a reason to, for any number of workers and files.
THEOREM LoadIsComplete == Spec => []LoadedAll
<1>1. Init => LoadInv /\ MapInv
  BY InitLoadInv DEF Init, LoadInit, MapInv
<1>2. LoadInv /\ MapInv /\ [Next]_vars => LoadInv' /\ MapInv'
  BY LoadInvKept, MapInvKept
<1>3. LoadInv /\ MapInv => LoadedAll
  <2>. SUFFICES ASSUME LoadInv, MapInv PROVE LoadedAll
    OBVIOUS
  <2>1. /\ phase \notin {"loading", "load failed"} =>
             /\ ~Clash /\ \A f \in Present : ~Rejected(f)
             /\ Labels = UNION {LabelsOf(f) : f \in Present}
             /\ \A f \in Present : \A l \in LabelsOf(f) : nodes[l] = Defined(f)[l]
        /\ phase = "load failed" => input.interrupt \/ Clash \/ \E f \in Present : Rejected(f)
    BY DEF LoadInv, MapInv, Bad
  <2>. QED  BY <2>1 DEF LoadedAll, Clash, Present, LabelsOf, Files
<1>. QED  BY <1>1, <1>2, <1>3, PTL DEF Spec

-----------------------------------------------------------------------------
(* Recursions over the graph, for functions of any set                     *)

\* f[x] is what the nodes that x reaches own.
Collects(f, L, own, next) == f = [x \in L |-> own[x] \cup UNION {f[d] : d \in next[x]}]
\* Of every set of nodes, one has no node after it in the set.
Grounded(L, next) == \A S \in SUBSET L : S # {} => \E x \in S : next[x] \cap S = {}

\* A function that collects what the nodes that one reaches own exists, whether or
\* not the graph has cycles: it collects over the smallest set with the node that is
\* closed.
LEMMA CollectExists ==
  ASSUME NEW L, NEW V, NEW own \in [L -> SUBSET V], NEW next \in [L -> SUBSET L]
  PROVE  \E f : Collects(f, L, own, next)
<1>. DEFINE ClosedFrom(x, C) == x \in C /\ \A y \in C : next[y] \subseteq C
            R(x) == {y \in L : \A C \in SUBSET L : ClosedFrom(x, C) => y \in C}
            f == [x \in L |-> UNION {own[y] : y \in R(x)}]
<1>1. ASSUME NEW x \in L PROVE x \in R(x)
  OBVIOUS
<1>2. ASSUME NEW x \in L, NEW d \in next[x] PROVE d \in L /\ R(d) \subseteq R(x)
  <2>1. d \in L
    OBVIOUS
  <2>2. ASSUME NEW C \in SUBSET L, ClosedFrom(x, C) PROVE ClosedFrom(d, C)
    BY <2>2
  <2>. QED  BY <2>1, <2>2
<1>3. ASSUME NEW x \in L, NEW y \in R(x) PROVE y = x \/ \E d \in next[x] : y \in R(d)
  <2>. DEFINE C == {x} \cup {z \in L : \E d \in next[x] : z \in R(d)}
  <2>1. ASSUME NEW z \in C, NEW u \in next[z] PROVE u \in C
    <3>1. CASE z = x
      <4>1. u \in next[x] /\ u \in L
        BY <2>1, <3>1
      <4>2. u \in R(u)
        BY <4>1, <1>1
      <4>. HIDE DEF R
      <4>. QED  BY <4>1, <4>2
    <3>2. CASE z # x
      <4>1. PICK d \in next[x] : z \in R(d)
        BY <2>1, <3>2
      <4>2. z \in L /\ u \in L
        BY <2>1
      <4>3. u \in R(d)
        BY <4>1, <4>2, <2>1
      <4>. HIDE DEF R
      <4>. QED  BY <4>1, <4>2, <4>3
    <3>. QED  BY <3>1, <3>2
  <2>2. ClosedFrom(x, C)
    <3>. HIDE DEF C
    <3>1. x \in C
      BY DEF C
    <3>. QED  BY <2>1, <3>1
  <2>3. C \in SUBSET L
    OBVIOUS
  <2>4. y \in C
    <3>. HIDE DEF C, ClosedFrom
    <3>. QED  BY <2>2, <2>3
  <2>. HIDE DEF R
  <2>. QED  BY <2>4
<1>. HIDE DEF R
<1>4. ASSUME NEW x \in L PROVE f[x] = own[x] \cup UNION {f[d] : d \in next[x]}
  <2>1. ASSUME NEW v \in f[x] PROVE v \in own[x] \cup UNION {f[d] : d \in next[x]}
    <3>1. PICK y \in R(x) : v \in own[y]
      BY <2>1
    <3>2. CASE y = x
      BY <3>1, <3>2
    <3>3. CASE \E d \in next[x] : y \in R(d)
      <4>1. PICK d \in next[x] : y \in R(d)
        BY <3>3
      <4>2. d \in L /\ v \in f[d]
        BY <4>1, <3>1, <1>2
      <4>. HIDE DEF f
      <4>. QED  BY <4>1, <4>2
    <3>. QED  BY <3>1, <3>2, <3>3, <1>3
  <2>2. own[x] \subseteq f[x]
    BY <1>1
  <2>3. ASSUME NEW d \in next[x], NEW v \in f[d] PROVE v \in f[x]
    <3>1. d \in L /\ R(d) \subseteq R(x)
      BY <1>2
    <3>2. PICK y \in R(d) : v \in own[y]
      BY <3>1, <2>3
    <3>. QED  BY <3>1, <3>2
  <2>. HIDE DEF f
  <2>. QED  BY <2>1, <2>2, <2>3
<1>5. DOMAIN f = L
  OBVIOUS
<1>6. f = [x \in L |-> f[x]]
  BY <1>5
<1>. HIDE DEF f
<1>. QED  BY <1>4, <1>6 DEF Collects

\* Without cycles there is one such function.
LEMMA CollectUnique ==
  ASSUME NEW L, NEW own, NEW next \in [L -> SUBSET L], Grounded(L, next),
         NEW f, NEW g, Collects(f, L, own, next), Collects(g, L, own, next)
  PROVE  f = g
<1>0. /\ \A x \in L : f[x] = own[x] \cup UNION {f[d] : d \in next[x]}
      /\ \A x \in L : g[x] = own[x] \cup UNION {g[d] : d \in next[x]}
      /\ f = [x \in L |-> f[x]] /\ g = [x \in L |-> g[x]]
  BY DEF Collects
<1>. DEFINE S == {x \in L : f[x] # g[x]}
<1>. SUFFICES ASSUME S # {} PROVE FALSE
  BY <1>0
<1>1. PICK x \in S : next[x] \cap S = {}
  BY DEF Grounded
<1>2. \A d \in next[x] : f[d] = g[d]
  BY <1>1
<1>3. UNION {f[d] : d \in next[x]} = UNION {g[d] : d \in next[x]}
  BY <1>2
<1>. QED  BY <1>0, <1>1, <1>3

\* What is collected is closed: with a node it has the nodes after it.
LEMMA CollectClosed ==
  ASSUME NEW L, NEW own, NEW next \in [L -> SUBSET L], Grounded(L, next), NEW f,
         Collects(f, L, own, next),
         \A x \in L : own[x] \subseteq {x} \cup next[x] /\ next[x] \subseteq f[x]
  PROVE  \A x \in L : f[x] \subseteq L /\ \A y \in f[x] : next[y] \subseteq f[x]
<1>0. \A x \in L : f[x] = own[x] \cup UNION {f[d] : d \in next[x]}
  BY DEF Collects
<1>. DEFINE Good(x) == f[x] \subseteq L /\ \A y \in f[x] : next[y] \subseteq f[x]
            S == {x \in L : ~Good(x)}
<1>. SUFFICES ASSUME S # {} PROVE FALSE
  OBVIOUS
<1>1. PICK x \in S : next[x] \cap S = {}
  BY DEF Grounded
<1>2. x \in L /\ \A d \in next[x] : d \in L /\ Good(d) /\ f[d] \subseteq f[x]
  BY <1>0, <1>1
<1>3. ASSUME NEW y \in f[x] PROVE y \in L /\ next[y] \subseteq f[x]
  <2>0. y \in own[x] \cup UNION {f[d] : d \in next[x]}
    BY <1>0, <1>2
  <2>1. CASE y = x
    BY <1>2, <2>1
  <2>2. CASE y \in next[x]
    BY <1>2, <2>2
  <2>3. CASE \E d \in next[x] : y \in f[d]
    BY <1>2, <2>3
  <2>. QED  BY <2>0, <1>2, <2>1, <2>2, <2>3
<1>. QED  BY <1>1, <1>3

\* Backwards, one comes from where one went to.
LEMMA CollectDual ==
  ASSUME NEW L, NEW next \in [L -> SUBSET L], NEW back \in [L -> SUBSET L], Grounded(L, next), Grounded(L, back),
         \A x, y \in L : y \in next[x] <=> x \in back[y],
         NEW f, Collects(f, L, next, next), NEW g, Collects(g, L, back, back)
  PROVE  \A x, y \in L : y \in f[x] => x \in g[y]
<1>0. /\ \A x \in L : f[x] = next[x] \cup UNION {f[d] : d \in next[x]}
      /\ \A x \in L : g[x] = back[x] \cup UNION {g[d] : d \in back[x]}
  BY DEF Collects
<1>1. \A x \in L : g[x] \subseteq L /\ \A y \in g[x] : back[y] \subseteq g[x]
  <2>1. \A x \in L : back[x] \subseteq {x} \cup back[x] /\ back[x] \subseteq g[x]
    BY <1>0
  <2>. QED  BY ONLY <2>1, CollectClosed, back \in [L -> SUBSET L], Grounded(L, back), Collects(g, L, back, back)
<1>2. \A x \in L : f[x] \subseteq L
  <2>1. \A x \in L : next[x] \subseteq {x} \cup next[x] /\ next[x] \subseteq f[x]
    BY <1>0
  <2>. QED  BY ONLY <2>1, CollectClosed, next \in [L -> SUBSET L], Grounded(L, next), Collects(f, L, next, next)
<1>. DEFINE S == {x \in L : \E y \in f[x] : x \notin g[y]}
<1>. SUFFICES ASSUME S # {} PROVE FALSE
  OBVIOUS
<1>3. PICK x \in S : next[x] \cap S = {}
  BY DEF Grounded
<1>4. PICK y \in f[x] : x \notin g[y]
  BY <1>3
<1>5. x \in L /\ y \in L
  BY <1>2, <1>3
<1>6. CASE y \in next[x]
  BY <1>0, <1>4, <1>5, <1>6
<1>7. CASE \E d \in next[x] : y \in f[d]
  <2>1. PICK d \in next[x] : y \in f[d]
    BY <1>7
  <2>2. d \in L /\ d \in g[y]
    BY <1>3, <2>1
  <2>3. x \in back[d]
    BY <1>5, <2>1, <2>2
  <2>. QED  BY <1>1, <1>4, <1>5, <2>2, <2>3
<1>. QED  BY <1>0, <1>4, <1>5, <1>6, <1>7

-----------------------------------------------------------------------------
(* The graph                                                               *)

\* The graph that a search without cycle leaves: the edges are the dependencies, and
\* of every set of nodes, one has no dependency and one no dependant in it.
GoodGraph ==
  /\ edges = {e \in Labels \X Labels : e[1] \in nodes[e[2]].deps}
  /\ \A l \in Labels : nodes[l].deps \subseteq Labels
  /\ \A S \in SUBSET Labels : S # {} =>
       /\ \E n \in S : \A m \in S : <<n, m>> \notin edges
       /\ \E n \in S : \A m \in S : <<m, n>> \notin edges

dependencies == [n \in Labels |-> GetDependencies(n)]
dependants == [n \in Labels |-> GetDependants(n)]

\* What GetDependencies and GetDependants return
LEMMA Neighbours ==
  ASSUME GoodGraph
  PROVE  /\ dependencies \in [Labels -> SUBSET Labels] /\ Grounded(Labels, dependencies)
         /\ dependants \in [Labels -> SUBSET Labels] /\ Grounded(Labels, dependants)
         /\ \A x, y \in Labels : y \in dependencies[x] <=> x \in dependants[y]
         /\ \A l \in Labels : GetDependencies(l) = nodes[l].deps
         /\ \A l \in Labels : GetDependencies(l) \subseteq Labels /\ GetDependants(l) \subseteq Labels
<1>1. edges = {e \in Labels \X Labels : e[1] \in nodes[e[2]].deps}
  BY DEF GoodGraph
<1>2. \A x, y \in Labels : <<y, x>> \in edges <=> y \in nodes[x].deps
  BY <1>1
<1>3. ASSUME NEW l \in Labels PROVE GetDependencies(l) = {m \in Labels : <<m, l>> \in edges}
  BY <1>1 DEF GetDependencies
<1>4. ASSUME NEW l \in Labels PROVE GetDependants(l) = {m \in Labels : <<l, m>> \in edges}
  BY <1>1 DEF GetDependants
<1>5. /\ \A x \in Labels : dependencies[x] = {m \in Labels : <<m, x>> \in edges}
      /\ \A x \in Labels : dependants[x] = {m \in Labels : <<x, m>> \in edges}
  BY <1>3, <1>4 DEF dependencies, dependants
<1>6. dependencies \in [Labels -> SUBSET Labels] /\ dependants \in [Labels -> SUBSET Labels]
  BY <1>3, <1>4 DEF dependencies, dependants
<1>7. Grounded(Labels, dependencies)
  <2>1. ASSUME NEW S \in SUBSET Labels, S # {} PROVE \E n \in S : dependencies[n] \cap S = {}
    <3>1. PICK n \in S : \A m \in S : <<m, n>> \notin edges
      BY <2>1 DEF GoodGraph
    <3>. QED  BY <3>1, <1>5
  <2>. QED  BY <2>1 DEF Grounded
<1>8. Grounded(Labels, dependants)
  <2>1. ASSUME NEW S \in SUBSET Labels, S # {} PROVE \E n \in S : dependants[n] \cap S = {}
    <3>1. PICK n \in S : \A m \in S : <<n, m>> \notin edges
      BY <2>1 DEF GoodGraph
    <3>. QED  BY <3>1, <1>5
  <2>. QED  BY <2>1 DEF Grounded
<1>9. \A x, y \in Labels : y \in dependencies[x] <=> x \in dependants[y]
  BY <1>5
<1>10. ASSUME NEW l \in Labels PROVE GetDependencies(l) = nodes[l].deps
  <2>1. nodes[l].deps \subseteq Labels
    BY DEF GoodGraph
  <2>. QED  BY <1>2, <1>3, <2>1
<1>11. \A l \in Labels : GetDependencies(l) \subseteq Labels /\ GetDependants(l) \subseteq Labels
  BY <1>3, <1>4
<1>. QED  BY <1>6, <1>7, <1>8, <1>9, <1>10, <1>11

\* What the recursions over the graph return
LEMMA Recursions ==
  ASSUME GoodGraph
  PROVE  /\ Collects(ancestors, Labels, dependencies, dependencies)
         /\ Collects(descendants, Labels, dependants, dependants)
<1>1. /\ \A n \in Labels : dependencies[n] = GetDependencies(n)
      /\ \A n \in Labels : dependants[n] = GetDependants(n)
  BY DEF dependencies, dependants
<1>2. PICK f : Collects(f, Labels, dependencies, dependencies)
  BY ONLY Neighbours, GoodGraph, CollectExists
<1>3. PICK g : Collects(g, Labels, dependants, dependants)
  BY ONLY Neighbours, GoodGraph, CollectExists
<1>4. ancestors = [n \in Labels |-> GetDependencies(n) \cup UNION {ancestors[d] : d \in GetDependencies(n)}]
  <2>1. f = [x \in Labels |-> GetDependencies(x) \cup UNION {f[d] : d \in GetDependencies(x)}]
    BY <1>1, <1>2 DEF Collects
  <2>. QED  BY <2>1 DEF ancestors
<1>5. descendants = [n \in Labels |-> GetDependants(n) \cup UNION {descendants[d] : d \in GetDependants(n)}]
  <2>1. g = [x \in Labels |-> GetDependants(x) \cup UNION {g[d] : d \in GetDependants(x)}]
    BY <1>1, <1>3 DEF Collects
  <2>. QED  BY <2>1 DEF descendants
<1>6. Collects(ancestors, Labels, dependencies, dependencies)
  BY <1>1, <1>4 DEF Collects
<1>7. Collects(descendants, Labels, dependants, dependants)
  BY <1>1, <1>5 DEF Collects
<1>. QED  BY <1>6, <1>7

\* Ancestors have theirs among the ancestors, descendants theirs among the
\* descendants, and one is the other seen from the other end.
LEMMA Relatives ==
  ASSUME GoodGraph
  PROVE  /\ \A l \in Labels : /\ GetDependencies(l) \subseteq GetAncestors(l) /\ GetAncestors(l) \subseteq Labels
                              /\ \A a \in GetAncestors(l) : GetDependencies(a) \subseteq GetAncestors(l)
                              /\ \A a \in GetAncestors(l) : a \in GetDependencies(l) \/ \E d \in GetDependencies(l) : a \in GetAncestors(d)
                              /\ \A d \in GetDependencies(l) : GetAncestors(d) \subseteq GetAncestors(l)
         /\ \A l \in Labels : GetDescendants(l) \subseteq Labels
         /\ \A a, b \in Labels : a \in GetAncestors(b) <=> b \in GetDescendants(a)
<1>0. /\ Collects(ancestors, Labels, dependencies, dependencies)
      /\ Collects(descendants, Labels, dependants, dependants)
  BY Recursions
<1>1. /\ \A n \in Labels : ancestors[n] = dependencies[n] \cup UNION {ancestors[d] : d \in dependencies[n]}
      /\ \A n \in Labels : descendants[n] = dependants[n] \cup UNION {descendants[d] : d \in dependants[n]}
  BY <1>0 DEF Collects
<1>2. /\ dependencies \in [Labels -> SUBSET Labels] /\ Grounded(Labels, dependencies)
      /\ dependants \in [Labels -> SUBSET Labels] /\ Grounded(Labels, dependants)
      /\ \A x, y \in Labels : y \in dependencies[x] <=> x \in dependants[y]
  BY Neighbours
<1>3. \A n \in Labels : dependencies[n] \subseteq ancestors[n] /\ dependants[n] \subseteq descendants[n]
  BY <1>1
<1>4. \A x \in Labels : dependencies[x] \subseteq {x} \cup dependencies[x] /\ dependants[x] \subseteq {x} \cup dependants[x]
  OBVIOUS
<1>5. \A x \in Labels : ancestors[x] \subseteq Labels /\ \A y \in ancestors[x] : dependencies[y] \subseteq ancestors[x]
  BY ONLY <1>0, <1>2, <1>3, <1>4, CollectClosed
<1>6. \A x \in Labels : descendants[x] \subseteq Labels /\ \A y \in descendants[x] : dependants[y] \subseteq descendants[x]
  BY ONLY <1>0, <1>2, <1>3, <1>4, CollectClosed
<1>7. \A x, y \in Labels : y \in ancestors[x] => x \in descendants[y]
  BY ONLY <1>0, <1>2, CollectDual
<1>8. \A x, y \in Labels : y \in descendants[x] => x \in ancestors[y]
  BY ONLY <1>0, <1>2, CollectDual
<1>9. \A l \in Labels : dependencies[l] = GetDependencies(l)
  BY DEF dependencies
<1>10. ASSUME NEW l \in Labels
       PROVE  /\ GetDependencies(l) \subseteq GetAncestors(l) /\ GetAncestors(l) \subseteq Labels
              /\ \A a \in GetAncestors(l) : GetDependencies(a) \subseteq GetAncestors(l)
  BY <1>3, <1>5, <1>9 DEF GetAncestors
<1>11. ASSUME NEW l \in Labels
       PROVE  /\ \A a \in GetAncestors(l) : a \in GetDependencies(l) \/ \E d \in GetDependencies(l) : a \in GetAncestors(d)
              /\ \A d \in GetDependencies(l) : GetAncestors(d) \subseteq GetAncestors(l)
  <2>1. GetAncestors(l) = GetDependencies(l) \cup UNION {GetAncestors(d) : d \in GetDependencies(l)}
    BY <1>1, <1>9 DEF GetAncestors
  <2>. QED  BY <2>1
<1>. QED  BY <1>6, <1>7, <1>8, <1>10, <1>11 DEF GetAncestors, GetDescendants

\* As long as the graph stays, so do the ancestors and the descendants.
LEMMA GraphStays ==
  ASSUME GoodGraph, nodes' = nodes, edges' = edges
  PROVE  /\ Labels' = Labels /\ GoodGraph'
         /\ \A l : GetDependencies(l)' = GetDependencies(l) /\ GetDependants(l)' = GetDependants(l)
         /\ \A l : GetAncestors(l)' = GetAncestors(l)
         /\ \A l : GetDescendants(l)' = GetDescendants(l)
<1>1. Labels' = Labels
  BY DEF Labels
<1>2. \A l : GetDependencies(l)' = GetDependencies(l) /\ GetDependants(l)' = GetDependants(l)
  BY DEF GetDependencies, GetDependants
<1>3. ancestors' = ancestors
  BY Zenon DEF ancestors, GetDependencies, Labels
<1>4. descendants' = descendants
  BY Zenon DEF descendants, GetDependants, Labels
<1>5. GoodGraph'
  BY <1>1 DEF GoodGraph
<1>. QED  BY <1>1, <1>2, <1>3, <1>4, <1>5 DEF GetAncestors, GetDescendants

\* The checks depend on the graph alone.
LEMMA SameChecks ==
  ASSUME GoodGraph, nodes' = nodes, edges' = edges
  PROVE  /\ detectOutputConflicts' <=> detectOutputConflicts
         /\ CheckTargetConstraints' <=> CheckTargetConstraints
<1>1. /\ Labels' = Labels
      /\ \A l : GetAncestors(l)' = GetAncestors(l)
  BY GraphStays
<1>2. \A kind : Is(kind)' = Is(kind)
  BY <1>1 DEF Is
<1>3. \A a, b : targetsAreOrdered(a, b)' <=> targetsAreOrdered(a, b)
  BY <1>1 DEF targetsAreOrdered
<1>4. detectOutputConflicts' <=> detectOutputConflicts
  BY <1>2, <1>3 DEF detectOutputConflicts
<1>5. resolveDependencyTarget' = resolveDependencyTarget
  BY Zenon DEF resolveDependencyTarget, Labels
<1>6. \A l : Resolved(l)' = Resolved(l)
  BY <1>5 DEF Resolved
<1>7. \A l : checkPaths(l)' <=> checkPaths(l)
  BY DEF checkPaths
<1>8. \A l : checkOciPushReferences(l)' <=> checkOciPushReferences(l)
  BY DEF checkOciPushReferences
<1>9. \A l : IsTestOnly(l)' <=> IsTestOnly(l)
  BY DEF IsTestOnly
<1>10. /\ checkDependencyConstraints' <=> checkDependencyConstraints
       /\ checkResourceConstraints' <=> checkResourceConstraints
  BY <1>2, <1>6, <1>9 DEF checkDependencyConstraints, checkResourceConstraints, IsTest
<1>11. CheckTargetConstraints' <=> CheckTargetConstraints
  BY <1>2, <1>7, <1>8, <1>10 DEF CheckTargetConstraints, IsTest
<1>. QED  BY <1>4, <1>11

BuildGraphPhases == {"search", "bad targets", "query", "answered", "select", "bad selection", "build"}
Analyzed == BuildGraphPhases \ {"search"}

\* What the graph is, phase by phase
GraphInv ==
  /\ phase \in {"loading", "load failed", "graph"} =>
       edges = {} /\ visited = [n \in Labels |-> 0] /\ stack = <<>> /\ tried = {} /\ cycle = <<>>
  /\ phase \in BuildGraphPhases =>
       /\ edges = {e \in Labels \X Labels : e[1] \in nodes[e[2]].deps}
       /\ \A l \in Labels : nodes[l].deps \subseteq Labels
  /\ phase \in Analyzed => GoodGraph /\ ~detectOutputConflicts
  /\ phase \in {"select", "bad selection", "build"} => CheckTargetConstraints

\* The nodes of every graph that is analyzed are those of a good graph.
LEMMA SearchMakesGood ==
  ASSUME SearchInv, GraphInv, phase = "search", Searched, ~HasCycle
  PROVE  GoodGraph
<1>1. \A n \in Labels : visited[n] = 2
  BY DEF Searched, Labels
<1>2. \A S \in SUBSET Labels : S # {} =>
       /\ \E n \in S : \A m \in S : <<n, m>> \notin edges
       /\ \E n \in S : \A m \in S : <<m, n>> \notin edges
  <2>. SUFFICES ASSUME NEW S \in SUBSET Labels, S # {}
                PROVE  /\ \E n \in S : \A m \in S : <<n, m>> \notin edges
                       /\ \E n \in S : \A m \in S : <<m, n>> \notin edges
    OBVIOUS
  <2>1. \A n \in S : visited[n] = 2
    BY <1>1
  <2>2. S \in SUBSET DOMAIN nodes
    BY DEF Labels
  <2>3. NoneAmongVisited
    BY DEF SearchInv
  <2>. QED  BY <2>1, <2>2, <2>3 DEF NoneAmongVisited
<1>3. /\ edges = {e \in Labels \X Labels : e[1] \in nodes[e[2]].deps}
      /\ \A l \in Labels : nodes[l].deps \subseteq Labels
  BY DEF GraphInv, BuildGraphPhases
<1>. QED  BY <1>2, <1>3 DEF GoodGraph

\* Steps that leave the graph alone keep the invariant.
LEMMA GraphInvStays ==
  ASSUME SearchInv, GraphInv, UNCHANGED <<graph, search>>,
         \/ phase' = phase
         \/ phase \in {"loading", "load failed", "graph"} /\ phase' \in {"load failed", "bad graph"}
         \/ phase \in Analyzed /\ phase' \in Analyzed
              /\ (phase' \in {"select", "bad selection", "build"} => phase \in {"select", "bad selection", "build"})
  PROVE  SearchInv' /\ GraphInv'
<1>1. nodes' = nodes /\ edges' = edges /\ UNCHANGED <<visited, stack, tried, cycle>>
  BY DEF graph, search
<1>2. SearchInv'
  BY SearchStep
<1>3. Labels' = Labels
  BY <1>1 DEF Labels
<1>4. phase' \in Analyzed => phase \in Analyzed
  BY DEF Analyzed, BuildGraphPhases
<1>5. phase' \in Analyzed => GoodGraph' /\ ~detectOutputConflicts'
  BY <1>1, <1>4, GraphStays, SameChecks DEF GraphInv
<1>6. phase' \in {"select", "bad selection", "build"} => CheckTargetConstraints'
  <2>1. phase' \in {"select", "bad selection", "build"} => phase \in {"select", "bad selection", "build"}
    BY DEF Analyzed, BuildGraphPhases
  <2>2. phase \in {"select", "bad selection", "build"} => GoodGraph /\ CheckTargetConstraints
    BY DEF GraphInv, Analyzed, BuildGraphPhases
  <2>. QED  BY <1>1, <2>1, <2>2, SameChecks
<1>7. phase' \in BuildGraphPhases => phase \in BuildGraphPhases
  BY DEF Analyzed, BuildGraphPhases
<1>8. phase' \in {"loading", "load failed", "graph"} => phase \in {"loading", "load failed", "graph"}
  BY DEF Analyzed, BuildGraphPhases
<1>. QED  BY <1>1, <1>2, <1>3, <1>5, <1>6, <1>7, <1>8 DEF GraphInv

\* All steps keep the invariants of the search and of the graph.
LEMMA GraphInvKept == SearchInv /\ GraphInv /\ [Next]_vars => SearchInv' /\ GraphInv'
<1>. SUFFICES ASSUME SearchInv, GraphInv, [Next]_vars PROVE SearchInv' /\ GraphInv'
  OBVIOUS
<1>0. SearchInit' => SearchInv'
  BY SearchBegins, PTL
<1>1. CASE LoadNext /\ UNCHANGED <<graph, search>>
  <2>1. phase' = phase \/ (phase = "loading" /\ phase' = "load failed")
    BY <1>1 DEF LoadNext, Take, Load, Merge, SetError, Interrupt, LoadFails, Loaded
  <2>. QED  BY <1>1, <2>1, GraphInvStays
<1>2. CASE BuildNodeMap
  <2>1. /\ phase = "loading" /\ phase' = "graph" /\ nodes' = AllDefinitions
        /\ visited' = [l \in DOMAIN AllDefinitions |-> 0] /\ UNCHANGED <<edges, stack, tried, cycle>>
    BY <1>2 DEF BuildNodeMap, Loaded
  <2>2. edges = {} /\ stack = <<>> /\ tried = {} /\ cycle = <<>>
    BY <2>1 DEF GraphInv
  <2>3. SearchInit'
    BY <2>1, <2>2 DEF SearchInit
  <2>4. GraphInv'
    BY <2>1, <2>2 DEF GraphInv, BuildGraphPhases, Analyzed, Labels
  <2>. QED  BY <1>0, <2>3, <2>4
<1>3. CASE BuildGraph
  <2>1. phase = "graph" /\ nodes' = nodes /\ UNCHANGED search
    BY <1>3 DEF BuildGraph
  <2>2. CASE \E l \in Labels : l \in nodes[l].deps \/ ~(nodes[l].deps \subseteq Labels)
    <3>1. phase' = "bad graph" /\ UNCHANGED <<graph, search>>
      BY <1>3, <2>1, <2>2 DEF BuildGraph, graph
    <3>. QED  BY <2>1, <3>1, GraphInvStays
  <2>3. CASE ~\E l \in Labels : l \in nodes[l].deps \/ ~(nodes[l].deps \subseteq Labels)
    <3>1. phase' = "search" /\ edges' = {e \in Labels \X Labels : e[1] \in nodes[e[2]].deps}
      BY <1>3, <2>3 DEF BuildGraph
    <3>2. UNCHANGED <<visited, stack, tried, cycle>> /\ Labels' = Labels
      BY <2>1 DEF search, Labels
    <3>3. visited = [n \in Labels |-> 0] /\ stack = <<>> /\ tried = {} /\ cycle = <<>>
      BY <2>1 DEF GraphInv
    <3>4. edges' \subseteq Labels \X Labels
      BY <3>1
    <3>5. SearchInit'
      BY <2>1, <3>2, <3>3, <3>4 DEF SearchInit, Labels
    <3>6. GraphInv'
      BY <2>1, <2>3, <3>1, <3>2 DEF GraphInv, BuildGraphPhases, Analyzed
    <3>. QED  BY <1>0, <3>5, <3>6
  <2>. QED  BY <2>2, <2>3
<1>4. CASE FindCycle
  <2>1. phase = "search" /\ phase' = phase /\ SearchNext
    BY <1>4 DEF FindCycle
  <2>2. nodes' = nodes /\ edges' = edges
    BY <2>1 DEF SearchNext, StartAt, Descend, Close, Skip, Leave, graph
  <2>3. GraphInv'
    BY <2>1, <2>2 DEF GraphInv, BuildGraphPhases, Analyzed, Labels
  <2>. QED  BY <2>1, <2>3, SearchStep
<1>5. CASE Analyze
  <2>1. phase = "search" /\ Searched /\ UNCHANGED <<graph, search>>
    BY <1>5 DEF Analyze
  <2>2. nodes' = nodes /\ edges' = edges
    BY <2>1 DEF graph
  <2>3. SearchInv'
    BY <2>1, SearchStep
  <2>4. CASE HasCycle \/ detectOutputConflicts
    <3>1. phase' = "bad graph"
      BY <1>5, <2>4 DEF Analyze
    <3>. QED  BY <2>3, <3>1 DEF GraphInv, BuildGraphPhases, Analyzed
  <2>5. CASE ~HasCycle /\ ~detectOutputConflicts
    <3>1. GoodGraph
      BY <2>1, <2>5, SearchMakesGood
    <3>2. GoodGraph' /\ ~detectOutputConflicts' /\ (CheckTargetConstraints => CheckTargetConstraints')
      BY <2>2, <2>5, <3>1, SameChecks, GraphStays
    <3>3. phase' \in {"query", "select", "bad targets"} /\ (phase' = "select" => CheckTargetConstraints)
      <4>1. phase' = IF HasCycle \/ detectOutputConflicts THEN "bad graph"
                     ELSE IF command.kind # "build" THEN "query"
                     ELSE IF CheckTargetConstraints THEN "select" ELSE "bad targets"
        BY <1>5 DEF Analyze
      <4>. QED  BY ONLY <2>5, <4>1
    <3>4. /\ edges' = {e \in Labels \X Labels : e[1] \in nodes[e[2]].deps}'
          /\ \A l \in Labels' : nodes'[l].deps \subseteq Labels'
      BY <3>2 DEF GoodGraph
    <3>. QED  BY <2>3, <3>2, <3>3, <3>4 DEF GraphInv
  <2>. QED  BY <2>4, <2>5
<1>6. ASSUME NEW l \in left, SelectNode(l) PROVE SearchInv' /\ GraphInv'
  <2>1. UNCHANGED <<graph, search>> /\ phase = "select" /\ phase' \in {"select", "bad selection"}
    BY <1>6 DEF SelectNode
  <2>. QED  BY <2>1, GraphInvStays DEF Analyzed, BuildGraphPhases
<1>7. CASE EndSelection
  <2>1. UNCHANGED <<graph, search>> /\ phase = "select" /\ phase' \in {"build", "bad selection"}
    BY <1>7 DEF EndSelection
  <2>. QED  BY <2>1, GraphInvStays DEF Analyzed, BuildGraphPhases
<1>8. CASE Answer
  <2>1. UNCHANGED <<graph, search>> /\ phase = "query" /\ phase' = "answered"
    BY <1>8 DEF Answer
  <2>. QED  BY <2>1, GraphInvStays DEF Analyzed, BuildGraphPhases
<1>9. CASE UNCHANGED vars
  <2>1. UNCHANGED <<graph, search>> /\ phase' = phase
    BY <1>9 DEF vars
  <2>. QED  BY <2>1, GraphInvStays
<1>. QED  BY <1>1, <1>2, <1>3, <1>4, <1>5, <1>6, <1>7, <1>8, <1>9 DEF Next

\* In the beginning there is no graph.
LEMMA GraphBegins == Init => SearchInv /\ GraphInv
<1>. SUFFICES ASSUME Init PROVE SearchInv /\ GraphInv
  OBVIOUS
<1>1. Labels = {} /\ DOMAIN nodes = {}
  BY DEF Init, Labels
<1>2. SearchInit /\ GraphInv
  BY <1>1 DEF Init, LoadInit, SearchInit, GraphInv, BuildGraphPhases, Analyzed
<1>. QED  BY <1>2, SearchBegins

\* The analysis of a workspace finds every cycle in it, and no other.
THEOREM CyclesAreFound == Spec => []SearchIsSound
  BY GraphBegins, GraphInvKept, SearchIsRight, PTL DEF Spec

-----------------------------------------------------------------------------
(* An accepted graph is sound                                              *)

\* What the recursion through aliases returns
LEMMA ResolvedTargets ==
  ASSUME GoodGraph
  PROVE  \A l \in Labels :
           /\ nodes[l].kind = "target" => resolveDependencyTarget[l] = {l}
           /\ nodes[l].kind = "alias" => resolveDependencyTarget[l] = Resolved(l)
<1>. DEFINE own == [l \in Labels |-> IF nodes[l].kind = "target" THEN {l} ELSE {}]
            next == [l \in Labels |-> IF nodes[l].kind = "alias" THEN nodes[l].deps ELSE {}]
            Body(f, l) == IF nodes[l].kind = "target" THEN {l}
                          ELSE IF nodes[l].kind = "alias" THEN UNION {f[d] : d \in nodes[l].deps}
                          ELSE {}
<1>1. own \in [Labels -> SUBSET Labels] /\ next \in [Labels -> SUBSET Labels]
  BY DEF GoodGraph
<1>2. PICK f : Collects(f, Labels, own, next)
  <2>. HIDE DEF own, next
  <2>. QED  BY ONLY <1>1, CollectExists
<1>3. DOMAIN f = Labels /\ f = [l \in Labels |-> f[l]]
  BY <1>2 DEF Collects
<1>4. ASSUME NEW l \in Labels PROVE f[l] = Body(f, l)
  <2>1. f[l] = own[l] \cup UNION {f[d] : d \in next[l]}
    <3>. HIDE DEF own, next
    <3>. QED  BY <1>2 DEF Collects
  <2>2. CASE nodes[l].kind = "target"
    <3>1. own[l] = {l} /\ next[l] = {}
      BY <2>2
    <3>. QED  BY <2>1, <2>2, <3>1
  <2>3. CASE nodes[l].kind = "alias"
    <3>1. own[l] = {} /\ next[l] = nodes[l].deps
      BY <2>3
    <3>. QED  BY <2>1, <2>3, <3>1
  <2>4. CASE nodes[l].kind \notin {"target", "alias"}
    <3>1. own[l] = {} /\ next[l] = {}
      BY <2>4
    <3>. QED  BY <2>1, <2>4, <3>1
  <2>. QED  BY <2>2, <2>3, <2>4
<1>5. f = [l \in Labels |-> Body(f, l)]
  <2>. HIDE DEF Body
  <2>. QED  BY <1>3, <1>4
<1>6. resolveDependencyTarget = [l \in Labels |-> Body(resolveDependencyTarget, l)]
  BY <1>5 DEF resolveDependencyTarget
<1>7. \A l \in Labels : resolveDependencyTarget[l] = Body(resolveDependencyTarget, l)
  BY <1>6
<1>8. ASSUME NEW l \in Labels, nodes[l].kind = "target" PROVE resolveDependencyTarget[l] = {l}
  BY <1>7, <1>8
<1>9. ASSUME NEW l \in Labels, nodes[l].kind = "alias" PROVE resolveDependencyTarget[l] = Resolved(l)
  BY <1>7, <1>9 DEF Resolved
<1>. QED  BY <1>8, <1>9

\* What the definitions in the node map are
LEMMA NodeTypes ==
  ASSUME LoadInv, MapInv, phase \notin {"loading", "load failed"}, NEW l \in Labels
  PROVE  /\ nodes[l].kind \in {"target", "alias", "resource"}
         /\ \A o \in nodes[l].outputs : o = [type |-> o.type, path |-> o.path]
<1>1. PICK f \in Present : l \in LabelsOf(f) /\ nodes[l] = Defined(f)[l]
  BY NodeHasFile
<1>2. f \in Files /\ input \in Inputs
  BY DEF Present, LoadInv
<1>3. PICK d \in Range(Parsed(f).definitions) : Defined(f)[l].kind = d.kind /\ Defined(f)[l].outputs = d.outputs
  BY ONLY <1>1, <1>2, DefinedHasFile
<1>4. /\ d.kind \in {"target", "alias", "resource"}
      /\ \A o \in d.outputs : o = [type |-> o.type, path |-> o.path]
  <2>1. d \in Range(input.files[f].definitions) /\ f \in DOMAIN input.files
    BY <1>2 DEF Files, Parsed
  <2>. QED  BY ONLY <1>2, <2>1, InputsAssumption
<1>5. nodes[l].kind = d.kind /\ nodes[l].outputs = d.outputs
  BY <1>1, <1>3
<1>. QED  BY <1>4, <1>5

\* Nothing that a node depends on is a test, if the targets that its dependencies
\* resolve to are none: the checks of these targets and of resources say the same of
\* what they depend on, and an alias has what it resolves to among its own.
LEMMA NoTestBelow ==
  ASSUME GoodGraph, checkDependencyConstraints, checkResourceConstraints,
         \A l \in Labels : nodes[l].kind \in {"target", "alias", "resource"}
  PROVE  \A y \in Labels : (\A d \in Resolved(y) : ~IsTest(d)) =>
           \A b \in GetAncestors(y) : nodes[b].kind = "target" => ~IsTest(b)
<1>. DEFINE Sound(y) == (\A d \in Resolved(y) : ~IsTest(d)) =>
                          \A b \in GetAncestors(y) : nodes[b].kind = "target" => ~IsTest(b)
            S == {y \in Labels : ~Sound(y)}
<1>. SUFFICES ASSUME S # {} PROVE FALSE
  OBVIOUS
<1>1. PICK y \in S : dependencies[y] \cap S = {}
  BY Neighbours DEF Grounded
<1>2. /\ y \in Labels /\ GetDependencies(y) = nodes[y].deps /\ nodes[y].deps \subseteq Labels
      /\ \A d \in nodes[y].deps : Sound(d)
  <2>1. y \in Labels /\ GetDependencies(y) = nodes[y].deps /\ nodes[y].deps \subseteq Labels
    BY Neighbours
  <2>2. dependencies[y] = nodes[y].deps
    BY <2>1 DEF dependencies
  <2>3. \A d \in nodes[y].deps : d \notin S
    BY <1>1, <2>2
  <2>. QED  BY <2>1, <2>3
<1>3. \A d \in Resolved(y) : ~IsTest(d)
  BY <1>1
<1>. HIDE DEF Sound
<1>4. ASSUME NEW d \in nodes[y].deps
      PROVE  /\ nodes[d].kind = "target" => ~IsTest(d)
             /\ \A b \in GetAncestors(d) : nodes[b].kind = "target" => ~IsTest(b)
  <2>1. resolveDependencyTarget[d] \subseteq Resolved(y) /\ d \in Labels
    BY <1>2, <1>4 DEF Resolved
  <2>2. CASE nodes[d].kind = "target"
    <3>1. ~IsTest(d)
      BY <1>3, <2>1, <2>2, ResolvedTargets
    <3>2. \A e \in Resolved(d) : ~IsTest(e)
      BY <2>1, <2>2, <3>1 DEF checkDependencyConstraints, Is
    <3>. QED  BY <1>2, <3>1, <3>2 DEF Sound
  <2>3. CASE nodes[d].kind = "alias"
    <3>1. \A e \in Resolved(d) : ~IsTest(e)
      BY <1>3, <2>1, <2>3, ResolvedTargets
    <3>. QED  BY <1>2, <2>3, <3>1 DEF Sound
  <2>4. CASE nodes[d].kind = "resource"
    <3>1. \A e \in Resolved(d) : ~IsTest(e)
      BY <2>1, <2>4 DEF checkResourceConstraints, Is
    <3>. QED  BY <1>2, <2>4, <3>1 DEF Sound
  <2>. QED  BY <2>1, <2>2, <2>3, <2>4
<1>5. ASSUME NEW b \in GetAncestors(y), nodes[b].kind = "target" PROVE ~IsTest(b)
  <2>1. b \in nodes[y].deps \/ \E d \in nodes[y].deps : b \in GetAncestors(d)
    BY <1>2, Relatives
  <2>. QED  BY <1>4, <1>5, <2>1
<1>. QED  BY <1>1, <1>5 DEF Sound

\* In the same way for what is for tests only; a resource may have it below it.
LEMMA NoTestOnlyBelow ==
  ASSUME GoodGraph, checkDependencyConstraints,
         \A l \in Labels : nodes[l].kind \in {"target", "alias", "resource"}
  PROVE  \A y \in Labels : (\A d \in Resolved(y) : ~IsTest(d) /\ ~IsTestOnly(d)) =>
           \A b \in GetAncestors(y) : nodes[b].kind = "target" /\ IsTestOnly(b) =>
             \E r \in Is("resource") \cap GetAncestors(y) : b \in GetAncestors(r)
<1>. DEFINE Below(y) == \A b \in GetAncestors(y) : nodes[b].kind = "target" /\ IsTestOnly(b) =>
                          \E r \in Is("resource") \cap GetAncestors(y) : b \in GetAncestors(r)
            Sound(y) == (\A d \in Resolved(y) : ~IsTest(d) /\ ~IsTestOnly(d)) => Below(y)
            S == {y \in Labels : ~Sound(y)}
<1>. SUFFICES ASSUME S # {} PROVE FALSE
  OBVIOUS
<1>1. PICK y \in S : dependencies[y] \cap S = {}
  BY Neighbours DEF Grounded
<1>2. /\ y \in Labels /\ GetDependencies(y) = nodes[y].deps /\ nodes[y].deps \subseteq Labels
      /\ \A d \in nodes[y].deps : Sound(d)
  <2>1. y \in Labels /\ GetDependencies(y) = nodes[y].deps /\ nodes[y].deps \subseteq Labels
    BY Neighbours
  <2>2. dependencies[y] = nodes[y].deps
    BY <2>1 DEF dependencies
  <2>3. \A d \in nodes[y].deps : d \notin S
    BY <1>1, <2>2
  <2>. QED  BY <2>1, <2>3
<1>3. \A d \in Resolved(y) : ~IsTest(d) /\ ~IsTestOnly(d)
  BY <1>1
<1>. HIDE DEF Sound, Below
<1>4. ASSUME NEW d \in nodes[y].deps
      PROVE  /\ nodes[d].kind = "target" => ~IsTestOnly(d)
             /\ Below(d) \/ nodes[d].kind = "resource"
  <2>1. resolveDependencyTarget[d] \subseteq Resolved(y) /\ d \in Labels
    BY <1>2, <1>4 DEF Resolved
  <2>2. CASE nodes[d].kind = "target"
    <3>1. ~IsTest(d) /\ ~IsTestOnly(d)
      BY <1>3, <2>1, <2>2, ResolvedTargets
    <3>2. \A e \in Resolved(d) : ~IsTest(e) /\ ~IsTestOnly(e)
      BY <2>1, <2>2, <3>1 DEF checkDependencyConstraints, Is
    <3>. QED  BY <1>2, <3>1, <3>2 DEF Sound
  <2>3. CASE nodes[d].kind = "alias"
    <3>1. \A e \in Resolved(d) : ~IsTest(e) /\ ~IsTestOnly(e)
      BY <1>3, <2>1, <2>3, ResolvedTargets
    <3>. QED  BY <1>2, <2>3, <3>1 DEF Sound
  <2>. QED  BY <2>1, <2>2, <2>3
<1>5. ASSUME NEW b \in GetAncestors(y), nodes[b].kind = "target" /\ IsTestOnly(b)
      PROVE  \E r \in Is("resource") \cap GetAncestors(y) : b \in GetAncestors(r)
  <2>1. PICK d \in nodes[y].deps : b \in GetAncestors(d)
    BY <1>2, <1>4, <1>5, Relatives
  <2>2. d \in Labels /\ d \in GetAncestors(y) /\ GetAncestors(d) \subseteq GetAncestors(y)
    BY <1>2, Relatives
  <2>3. CASE nodes[d].kind = "resource"
    BY <2>1, <2>2, <2>3 DEF Is
  <2>4. CASE Below(d)
    BY <1>5, <2>1, <2>2, <2>4 DEF Below
  <2>. QED  BY <1>4, <2>3, <2>4
<1>6. ~Below(y)
  BY <1>1 DEF Sound
<1>. QED  BY <1>5, <1>6 DEF Below

\* Targets without an order whose outputs overlap make a conflict.
LEMMA NoOverlap ==
  ASSUME ~detectOutputConflicts, NEW a \in Is("target"), NEW b \in Is("target"), a # b,
         a \notin GetAncestors(b), b \notin GetAncestors(a),
         \A l \in {a, b} : \A o \in nodes[l].outputs : o = [type |-> o.type, path |-> o.path]
  PROVE  /\ Images(a) \cap Images(b) = {} /\ Paths(a) \cap Paths(b) = {}
         /\ \A x \in Directories(a) \ {<<>>} :
              ~\E w \in Paths(b) \cup (Directories(b) \ {<<>>}) : IsPrefix(x, w)
<1>1. \A o \in nodes[a].outputs, p \in nodes[b].outputs : ~Overlap(a, o, b, p)
  BY DEF detectOutputConflicts, targetsAreOrdered
<1>2. ASSUME NEW o \in nodes[a].outputs, NEW p \in nodes[b].outputs, o.type = "oci", p.type = "oci"
      PROVE  o.path # p.path
  <2>1. o # p
    BY <1>1, <1>2 DEF Overlap
  <2>. QED  BY <1>2, <2>1
<1>3. ASSUME NEW o \in nodes[a].outputs, NEW p \in nodes[b].outputs, o.type \in {"file", "dir"}, p.type \in {"file", "dir"}
      PROVE  /\ cleanOutputPath(a, o) # cleanOutputPath(b, p)
             /\ o.type = "dir" => ~pathWithin(cleanOutputPath(b, p), cleanOutputPath(a, o))
  BY <1>1, <1>3 DEF Overlap
<1>4. Images(a) \cap Images(b) = {}
  BY <1>2 DEF Images
<1>5. Paths(a) \cap Paths(b) = {}
  BY <1>3 DEF Paths
<1>6. ASSUME NEW x \in Directories(a) \ {<<>>}, NEW w \in Paths(b) \cup Directories(b), IsPrefix(x, w)
      PROVE  FALSE
  <2>1. PICK o \in nodes[a].outputs : o.type = "dir" /\ x = cleanOutputPath(a, o)
    BY DEF Directories
  <2>2. PICK p \in nodes[b].outputs : p.type \in {"file", "dir"} /\ w = cleanOutputPath(b, p)
    BY DEF Directories, Paths
  <2>. QED  BY <1>3, <1>6, <2>1, <2>2 DEF pathWithin
<1>. QED  BY <1>4, <1>5, <1>6

\* The analysis accepts only sound graphs, whatever the definitions are.
THEOREM AcceptedGraphsAreSound == Spec => []AcceptedIsSound
<1>1. Init => LoadInv /\ MapInv /\ SearchInv /\ GraphInv
  BY InitLoadInv, GraphBegins DEF Init, LoadInit, MapInv
<1>2. LoadInv /\ MapInv /\ SearchInv /\ GraphInv /\ [Next]_vars => (LoadInv /\ MapInv /\ SearchInv /\ GraphInv)'
  BY LoadInvKept, MapInvKept, GraphInvKept
<1>3. LoadInv /\ MapInv /\ SearchInv /\ GraphInv => AcceptedIsSound
  <2>. SUFFICES ASSUME LoadInv, MapInv, GraphInv PROVE AcceptedIsSound
    OBVIOUS
  <2>1. ASSUME Accepted, NEW a \in Is("target"), NEW b \in Is("target"), a # b,
               a \notin GetAncestors(b), b \notin GetAncestors(a)
        PROVE  /\ Images(a) \cap Images(b) = {} /\ Paths(a) \cap Paths(b) = {}
               /\ \A x \in Directories(a) \ {<<>>} :
                    ~\E w \in Paths(b) \cup (Directories(b) \ {<<>>}) : IsPrefix(x, w)
    <3>1. ~detectOutputConflicts
      BY <2>1 DEF GraphInv, Analyzed, BuildGraphPhases, Accepted
    <3>2. phase \notin {"loading", "load failed"} /\ a \in Labels /\ b \in Labels
      BY <2>1 DEF Accepted, Is
    <3>3. \A l \in {a, b} : \A o \in nodes[l].outputs : o = [type |-> o.type, path |-> o.path]
      BY <3>2, NodeTypes
    <3>. QED  BY <2>1, <3>1, <3>3, NoOverlap
  <2>2. ASSUME phase \in {"select", "build"}, NEW a \in Is("target"), ~IsTest(a)
        PROVE  /\ \A b \in GetAncestors(a) : ~IsTest(b) \/ nodes[b].kind # "target"
               /\ ~IsTestOnly(a) =>
                    \A b \in GetAncestors(a) : nodes[b].kind = "target" /\ IsTestOnly(b) =>
                      \E r \in Is("resource") \cap GetAncestors(a) : b \in GetAncestors(r)
    <3>1. GoodGraph /\ checkDependencyConstraints /\ checkResourceConstraints /\ a \in Labels
      BY <2>2 DEF GraphInv, Analyzed, BuildGraphPhases, CheckTargetConstraints, Is
    <3>2. \A l \in Labels : nodes[l].kind \in {"target", "alias", "resource"}
      BY <2>2, NodeTypes
    <3>3. \A d \in Resolved(a) : ~IsTest(d) /\ (~IsTestOnly(a) => ~IsTestOnly(d))
      BY <2>2, <3>1 DEF checkDependencyConstraints
    <3>4. \A b \in GetAncestors(a) : ~IsTest(b) \/ nodes[b].kind # "target"
      BY <3>1, <3>2, <3>3, NoTestBelow
    <3>5. ASSUME ~IsTestOnly(a)
          PROVE  \A b \in GetAncestors(a) : nodes[b].kind = "target" /\ IsTestOnly(b) =>
                   \E r \in Is("resource") \cap GetAncestors(a) : b \in GetAncestors(r)
      BY <3>1, <3>2, <3>3, <3>5, NoTestOnlyBelow
    <3>. QED  BY <3>4, <3>5
  <2>3. Accepted =>
          \A a, b \in Is("target") : a # b /\ a \notin GetAncestors(b) /\ b \notin GetAncestors(a) =>
            /\ Images(a) \cap Images(b) = {} /\ Paths(a) \cap Paths(b) = {}
            /\ \A x \in Directories(a) \ {<<>>} :
                 ~\E w \in Paths(b) \cup (Directories(b) \ {<<>>}) : IsPrefix(x, w)
    BY <2>1
  <2>4. phase \in {"select", "build"} =>
          \A a \in Is("target") :
            /\ ~IsTest(a) => \A b \in GetAncestors(a) : ~IsTest(b) \/ nodes[b].kind # "target"
            /\ ~IsTest(a) /\ ~IsTestOnly(a) =>
                 \A b \in GetAncestors(a) : nodes[b].kind = "target" /\ IsTestOnly(b) =>
                   \E r \in Is("resource") \cap GetAncestors(a) : b \in GetAncestors(r)
    BY <2>2
  <2>. QED  BY <2>3, <2>4 DEF AcceptedIsSound
<1>. QED  BY <1>1, <1>2, <1>3, PTL DEF Spec

-----------------------------------------------------------------------------
(* The selection is closed                                                 *)

Wanted == {l \in Labels : nodeMatchesFilters(l) /\ nodeMatchesPlatform(l)}
Needed == Wanted \cup {l \in Labels : \E w \in Wanted : l \in GetAncestors(w)}

\* What is selected is needed and closed, and what has been looked at is selected if
\* it is wanted, with all that it depends on.
SelectPhases == {"select", "build", "bad selection"}
SelectInv ==
  /\ phase \notin SelectPhases => selected = {}
  /\ phase \in SelectPhases =>
       /\ selected \subseteq Needed /\ left \subseteq Labels
       /\ \A l \in selected : GetDependencies(l) \subseteq selected /\ nodeMatchesPlatform(l)
  /\ phase \in {"select", "build"} => \A w \in Wanted \ left : w \in selected /\ GetAncestors(w) \subseteq selected
  /\ phase = "build" => left = {}
  /\ phase = "bad selection" => Needed \cap Is("target") = {} \/ \E l \in Needed : ~nodeMatchesPlatform(l)

\* What matches depends on the command and the graph alone.
LEMMA SameMatches ==
  ASSUME nodes' = nodes, input' = input
  PROVE  /\ \A l : nodeMatchesFilters(l)' <=> nodeMatchesFilters(l)
         /\ \A l : nodeMatchesPlatform(l)' <=> nodeMatchesPlatform(l)
<1>1. command' = command
  BY DEF command
<1>2. \A l : nodeMatchesPatterns(l)' <=> nodeMatchesPatterns(l)
  BY <1>1 DEF nodeMatchesPatterns
<1>3. ASSUME NEW l PROVE TargetMatchesTypeSelection(l)' = TargetMatchesTypeSelection(l)
  BY <1>1, Zenon DEF TargetMatchesTypeSelection, IsTest
<1>4. ASSUME NEW l PROVE nodeMatchesFilters(l)' <=> nodeMatchesFilters(l)
  BY <1>1, <1>2, <1>3 DEF nodeMatchesFilters
<1>5. ASSUME NEW l PROVE nodeMatchesPlatform(l)' <=> nodeMatchesPlatform(l)
  BY DEF nodeMatchesPlatform
<1>. QED  BY <1>4, <1>5

\* So do the nodes that are wanted and needed.
LEMMA SameNeeds ==
  ASSUME GoodGraph, nodes' = nodes, edges' = edges, input' = input
  PROVE  /\ Wanted' = Wanted /\ Needed' = Needed /\ Labels' = Labels /\ Is("target")' = Is("target")
         /\ \A l : nodeMatchesPlatform(l)' <=> nodeMatchesPlatform(l)
         /\ \A l : GetDependencies(l)' = GetDependencies(l) /\ GetAncestors(l)' = GetAncestors(l)
<1>1. /\ Labels' = Labels
      /\ \A l : GetDependencies(l)' = GetDependencies(l)
      /\ \A l : GetAncestors(l)' = GetAncestors(l)
  BY GraphStays
<1>2. Wanted' = Wanted
  BY <1>1, SameMatches DEF Wanted
<1>3. Needed' = Needed
  BY <1>1, <1>2 DEF Needed
<1>4. Is("target")' = Is("target")
  BY <1>1 DEF Is
<1>. QED  BY <1>1, <1>2, <1>3, <1>4, SameMatches

\* All steps keep the invariant of the selection.
LEMMA SelectInvKept == LoadInv /\ GraphInv /\ SelectInv /\ [Next]_vars => SelectInv'
<1>. SUFFICES ASSUME LoadInv, GraphInv, SelectInv, [Next]_vars PROVE SelectInv'
  OBVIOUS
<1>. USE DEF SelectPhases
<1>1. CASE /\ selected' = selected /\ phase \notin SelectPhases /\ phase' \notin SelectPhases
  BY <1>1 DEF SelectInv
<1>2. CASE Analyze
  <2>1. selected' = selected /\ phase = "search"
    BY <1>2 DEF Analyze
  <2>2. phase' \notin {"build", "bad selection"}
    BY <1>2, Zenon DEF Analyze
  <2>3. phase' = "select" => left' = Labels /\ nodes' = nodes
    BY <1>2 DEF Analyze, graph
  <2>4. selected' = {}
    BY <2>1 DEF SelectInv
  <2>5. phase' = "select" => Wanted' \subseteq left' /\ left' \subseteq Labels'
    BY <2>3 DEF Wanted, Labels
  <2>. QED  BY <2>2, <2>4, <2>5 DEF SelectInv
<1>3. ASSUME NEW l \in left, SelectNode(l) PROVE SelectInv'
  <2>1. /\ phase = "select" /\ left' = left \ {l} /\ UNCHANGED <<input, graph>>
    BY <1>3 DEF SelectNode
  <2>. DEFINE more == {l} \cup GetAncestors(l)
  <2>2. GoodGraph /\ nodes' = nodes /\ edges' = edges /\ l \in Labels /\ left \subseteq Labels
    BY <2>1 DEF GraphInv, Analyzed, BuildGraphPhases, graph, SelectInv
  <2>3. /\ Wanted' = Wanted /\ Needed' = Needed /\ Labels' = Labels /\ Is("target")' = Is("target")
        /\ \A k : nodeMatchesPlatform(k)' <=> nodeMatchesPlatform(k)
        /\ \A k : GetDependencies(k)' = GetDependencies(k) /\ GetAncestors(k)' = GetAncestors(k)
    BY <2>1, <2>2, SameNeeds
  <2>4. /\ selected \subseteq Needed
        /\ \A k \in selected : GetDependencies(k) \subseteq selected /\ nodeMatchesPlatform(k)
        /\ \A w \in Wanted \ left : w \in selected /\ GetAncestors(w) \subseteq selected
    BY <2>1 DEF SelectInv
  <2>5. CASE l \notin Wanted
    <3>1. selected' = selected /\ phase' = phase
      BY <1>3, <2>2, <2>5 DEF SelectNode, Wanted
    <3>. QED  BY <2>1, <2>2, <2>3, <2>4, <2>5, <3>1 DEF SelectInv
  <2>6. CASE l \in Wanted /\ \E a \in more : ~nodeMatchesPlatform(a)
    <3>1. selected' = selected /\ phase' = "bad selection"
      BY <1>3, <2>6 DEF SelectNode, Wanted, selectAllAncestorsForBuild
    <3>2. more \subseteq Needed
      BY <2>2, <2>6, Relatives DEF Needed
    <3>3. \E k \in Needed : ~nodeMatchesPlatform(k)
      BY <2>6, <3>2
    <3>. QED  BY <2>1, <2>2, <2>3, <2>4, <3>1, <3>3 DEF SelectInv
  <2>7. CASE l \in Wanted /\ \A a \in more : nodeMatchesPlatform(a)
    <3>1. selected' = selected \cup more /\ phase' = phase
      BY <1>3, <2>7 DEF SelectNode, Wanted, selectAllAncestorsForBuild
    <3>2. more \subseteq Needed /\ \A a \in more : GetDependencies(a) \subseteq more
      BY <2>2, <2>7, Relatives DEF Needed
    <3>3. \A k \in selected' : GetDependencies(k) \subseteq selected' /\ nodeMatchesPlatform(k)
      BY <2>4, <2>7, <3>1, <3>2
    <3>4. \A w \in Wanted \ left' : w \in selected' /\ GetAncestors(w) \subseteq selected'
      BY <2>1, <2>4, <3>1
    <3>5. selected' \subseteq Needed /\ left' \subseteq Labels
      BY <2>1, <2>2, <2>4, <3>1, <3>2
    <3>. HIDE DEF more
    <3>. QED  BY <2>1, <2>3, <3>1, <3>3, <3>4, <3>5 DEF SelectInv
  <2>. QED  BY <2>5, <2>6, <2>7
<1>4. CASE EndSelection
  <2>1. /\ phase = "select" /\ left = {} /\ left' = left /\ selected' = selected /\ UNCHANGED <<input, graph>>
        /\ phase' = IF selected \cap Is("target") = {} THEN "bad selection" ELSE "build"
    BY <1>4 DEF EndSelection
  <2>2. GoodGraph /\ nodes' = nodes /\ edges' = edges
    BY <2>1 DEF GraphInv, Analyzed, BuildGraphPhases, graph
  <2>3. /\ Wanted' = Wanted /\ Needed' = Needed /\ Labels' = Labels /\ Is("target")' = Is("target")
        /\ \A k : nodeMatchesPlatform(k)' <=> nodeMatchesPlatform(k)
        /\ \A k : GetDependencies(k)' = GetDependencies(k) /\ GetAncestors(k)' = GetAncestors(k)
    BY <2>1, <2>2, SameNeeds
  <2>4. /\ selected \subseteq Needed
        /\ \A k \in selected : GetDependencies(k) \subseteq selected /\ nodeMatchesPlatform(k)
        /\ \A w \in Wanted : w \in selected /\ GetAncestors(w) \subseteq selected
    BY <2>1 DEF SelectInv
  <2>5. Needed \subseteq selected
    BY <2>4 DEF Needed
  <2>6. phase' = "bad selection" => Needed \cap Is("target") = {}
    BY <2>1, <2>5
  <2>. QED  BY <2>1, <2>3, <2>4, <2>6 DEF SelectInv
<1>5. CASE UNCHANGED vars
  <2>1. UNCHANGED <<input, phase, nodes, edges, selected, left>>
    BY <1>5 DEF vars, graph
  <2>2. CASE phase \in SelectPhases
    <3>1. GoodGraph
      BY <2>2 DEF GraphInv, Analyzed, BuildGraphPhases
    <3>2. /\ Wanted' = Wanted /\ Needed' = Needed /\ Labels' = Labels /\ Is("target")' = Is("target")
          /\ \A k : nodeMatchesPlatform(k)' <=> nodeMatchesPlatform(k)
          /\ \A k : GetDependencies(k)' = GetDependencies(k) /\ GetAncestors(k)' = GetAncestors(k)
      BY <2>1, <3>1, SameNeeds
    <3>3. UNCHANGED <<phase, selected, left>>
      BY <2>1
    <3>. QED  BY ONLY SelectInv, <3>2, <3>3 DEF SelectInv
  <2>. QED  BY <1>1, <2>1, <2>2
<1>6. CASE LoadNext /\ UNCHANGED <<selected, left>>
  BY <1>1, <1>6, LoadPhase
<1>7. CASE BuildNodeMap
  BY <1>1, <1>7 DEF BuildNodeMap, Loaded
<1>8. CASE BuildGraph
  BY <1>1, <1>8 DEF BuildGraph
<1>9. CASE FindCycle
  BY <1>1, <1>9 DEF FindCycle
<1>10. CASE Answer
  BY <1>1, <1>10 DEF Answer
<1>. QED  BY <1>2, <1>3, <1>4, <1>5, <1>6, <1>7, <1>8, <1>9, <1>10 DEF Next

\* What is built is closed and as much as needed, for every graph, command and order
\* in which the nodes are looked at.
THEOREM SelectionsAreClosed == Spec => []SelectionClosed
<1>1. Init => LoadInv /\ SearchInv /\ GraphInv /\ SelectInv
  <2>. SUFFICES ASSUME Init PROVE LoadInv /\ SearchInv /\ GraphInv /\ SelectInv
    OBVIOUS
  <2>1. SelectInv
    BY DEF Init, LoadInit, SelectInv, SelectPhases
  <2>. QED  BY <2>1, InitLoadInv, GraphBegins DEF Init
<1>2. LoadInv /\ SearchInv /\ GraphInv /\ SelectInv /\ [Next]_vars => (LoadInv /\ SearchInv /\ GraphInv /\ SelectInv)'
  BY LoadInvKept, GraphInvKept, SelectInvKept
<1>3. SelectInv => SelectionClosed
  <2>. SUFFICES ASSUME SelectInv PROVE SelectionClosed
    OBVIOUS
  <2>1. phase = "build" =>
          /\ Wanted \subseteq selected /\ selected \subseteq Needed
          /\ \A l \in selected : GetDependencies(l) \subseteq selected /\ nodeMatchesPlatform(l)
    BY DEF SelectInv, SelectPhases
  <2>2. phase = "bad selection" => Needed \cap Is("target") = {} \/ \E l \in Needed : ~nodeMatchesPlatform(l)
    BY DEF SelectInv
  <2>. QED  BY <2>1, <2>2 DEF SelectionClosed, Wanted, Needed
<1>. QED  BY <1>1, <1>2, <1>3, PTL DEF Spec

-----------------------------------------------------------------------------
(* Changes are covered                                                     *)

\* The parts of ChangesCover
Old(l) ==
  {d \in UNION {Range(input.before.files[f].definitions) :
                  f \in {g \in DOMAIN input.before.files : input.before.files[g].package = l.package}} :
     d.name = l.name}
New(l) == {d \in Range(Parsed(nodes[l].file).definitions) : d.name = l.name}
Different ==
  {l \in Is("target") :
     \/ Old(l) # New(l) /\ \A d, e \in Old(l) : d = e
     \/ \E i \in nodes[l].inputs :
          \/ Source(l, i) \in input.touched
          \/ ~(Source(l, i) \in input.tree <=> Source(l, i) \in input.before.tree)}
Reached == Different \cup {l \in Is("target") : GetAncestors(l) \cap Different # {}}

\* A target whose definition differs is in a file that differs: in a file that does
\* not, the definition is there.
LEMMA SameFileSameDefinition ==
  ASSUME LoadInv, MapInv, phase \notin {"loading", "load failed"}, NEW l \in Labels,
         nodes[l].file \notin changedBuildFiles, \A d, e \in Old(l) : d = e
  PROVE  Old(l) = New(l)
<1>1. PICK f \in Present : l \in LabelsOf(f) /\ nodes[l] = Defined(f)[l]
  BY NodeHasFile
<1>2. f \in Files /\ input \in Inputs
  BY DEF Present, LoadInv
<1>3. nodes[l].file = f /\ l.package = Package(f)
  BY ONLY <1>1, <1>2, DefinedHasFile
<1>4. f \in DOMAIN input.before.files /\ input.before.files[f] = input.files[f]
  BY <1>2, <1>3 DEF changedBuildFiles, Files
<1>5. PICK e \in Range(input.before.files[f].definitions) : e.name = l.name
  <2>1. PICK d \in Range(Parsed(f).definitions) : l = Label(f, d)
    BY <1>1 DEF LabelsOf
  <2>2. d.name = l.name
    BY <2>1 DEF Label
  <2>. QED  BY <1>4, <2>2 DEF Parsed
<1>6. input.before.files[f].package = l.package
  BY <1>3, <1>4 DEF Package, Parsed
<1>7. New(l) = {d \in Range(input.before.files[f].definitions) : d.name = l.name}
  BY <1>3, <1>4 DEF New, Parsed
<1>8. e \in New(l) /\ New(l) \subseteq Old(l)
  BY <1>4, <1>5, <1>6, <1>7 DEF Old
<1>. QED  BY <1>8

\* Whatever differs is found, and what depends on it is among the dependants.
LEMMA DifferencesAreFound ==
  ASSUME LoadInv, MapInv, GoodGraph, phase \notin {"loading", "load failed"}
  PROVE  /\ Different \subseteq matchingTargets /\ matchingTargets \subseteq Is("target")
         /\ Reached \subseteq matchingTargets \cup ((UNION {GetDescendants(l) : l \in matchingTargets}) \cap Is("target"))
<1>1. ASSUME NEW l \in Different PROVE l \in matchingTargets
  <2>1. l \in Is("target") /\ l \in Labels
    BY DEF Different, Is
  <2>2. CASE Old(l) # New(l) /\ \A d, e \in Old(l) : d = e
    <3>1. nodes[l].file \in changedBuildFiles
      BY <2>1, <2>2, SameFileSameDefinition
    <3>. QED  BY <2>1, <3>1 DEF matchingTargets
  <2>3. ASSUME NEW i \in nodes[l].inputs,
               \/ Source(l, i) \in input.touched
               \/ ~(Source(l, i) \in input.tree <=> Source(l, i) \in input.before.tree)
        PROVE  l \in matchingTargets
    <3>4. Source(l, i) \in changedSources
      <4>1. CASE Source(l, i) \in input.touched
        BY <4>1 DEF changedSources
      <4>2. CASE Source(l, i) \in input.tree /\ Source(l, i) \notin input.before.tree
        BY <4>2 DEF changedSources
      <4>3. CASE Source(l, i) \notin input.tree /\ Source(l, i) \in input.before.tree
        BY <4>3 DEF changedSources
      <4>. QED  BY <2>3, <4>1, <4>2, <4>3
    <3>. QED  BY <2>1, <3>4 DEF matchingTargets, owners
  <2>. QED  BY <2>2, <2>3 DEF Different
<1>2. matchingTargets \subseteq Is("target")
  BY DEF matchingTargets, owners
<1>3. ASSUME NEW l \in Is("target"), NEW a \in GetAncestors(l) \cap Different
      PROVE  l \in UNION {GetDescendants(m) : m \in matchingTargets}
  <2>1. l \in Labels /\ a \in Labels
    BY DEF Is, Different
  <2>2. l \in GetDescendants(a)
    BY <2>1, <1>3, Relatives
  <2>. QED  BY <1>1, <2>2
<1>. QED  BY <1>1, <1>2, <1>3 DEF Reached

\* The trees of explain-changes
Below == [l \in Labels |-> GetDependencies(l) \cap affected]
Itself == [l \in Labels |-> {l}]

\* What the recursion over the affected dependencies returns
LEMMA Trees ==
  ASSUME GoodGraph
  PROVE  Below \in [Labels -> SUBSET Labels] /\ Collects(buildUpstreamTree, Labels, Itself, Below)
<1>1. Below \in [Labels -> SUBSET Labels] /\ Itself \in [Labels -> SUBSET Labels]
  BY Neighbours DEF Below, Itself
<1>2. PICK f : Collects(f, Labels, Itself, Below)
  BY ONLY <1>1, CollectExists
<1>3. \A l \in Labels : Itself[l] = {l} /\ Below[l] = GetDependencies(l) \cap affected
  BY DEF Itself, Below
<1>4. f = [l \in Labels |-> {l} \cup UNION {f[d] : d \in GetDependencies(l) \cap affected}]
  BY <1>2, <1>3 DEF Collects
<1>5. buildUpstreamTree = [l \in Labels |-> {l} \cup UNION {buildUpstreamTree[d] : d \in GetDependencies(l) \cap affected}]
  BY <1>4 DEF buildUpstreamTree
<1>6. Collects(buildUpstreamTree, Labels, Itself, Below)
  BY <1>3, <1>5 DEF Collects
<1>. QED  BY <1>1, <1>6

\* The trees below the consumers have all affected nodes, and no other.
LEMMA TreesCoverAffected ==
  ASSUME GoodGraph, matchingTargets \subseteq Labels
  PROVE  UNION {buildUpstreamTree[l] : l \in consumers} = affected
<1>0. affected \subseteq Labels /\ consumers \subseteq affected
  BY Relatives DEF affected, consumers
<1>1. Below \in [Labels -> SUBSET Labels] /\ Collects(buildUpstreamTree, Labels, Itself, Below)
  BY Trees
<1>2. \A l \in Labels : Itself[l] = {l} /\ Below[l] = GetDependencies(l) \cap affected /\ Below[l] \subseteq affected
  BY DEF Itself, Below
<1>3. \A l \in Labels : buildUpstreamTree[l] = {l} \cup UNION {buildUpstreamTree[d] : d \in Below[l]}
  BY <1>1, <1>2 DEF Collects
<1>4. Grounded(Labels, Below)
  <2>1. Grounded(Labels, dependencies)
    BY Neighbours
  <2>2. \A l \in Labels : Below[l] \subseteq dependencies[l]
    BY <1>2 DEF dependencies
  <2>3. ASSUME NEW S \in SUBSET Labels, S # {} PROVE \E x \in S : Below[x] \cap S = {}
    <3>1. PICK x \in S : dependencies[x] \cap S = {}
      BY <2>1, <2>3 DEF Grounded
    <3>. QED  BY <2>2, <3>1
  <2>. QED  BY <2>3 DEF Grounded
<1>5. \A l \in Labels : buildUpstreamTree[l] \subseteq Labels /\ \A y \in buildUpstreamTree[l] : Below[y] \subseteq buildUpstreamTree[l]
  <2>1. \A l \in Labels : Itself[l] \subseteq {l} \cup Below[l] /\ Below[l] \subseteq buildUpstreamTree[l]
    BY <1>1, <1>2, <1>3
  <2>. QED  BY ONLY <1>1, <1>4, <2>1, CollectClosed
<1>6. \A l \in Labels : l \in affected => buildUpstreamTree[l] \subseteq affected
  <2>. DEFINE S == {l \in Labels : l \in affected /\ ~(buildUpstreamTree[l] \subseteq affected)}
  <2>. SUFFICES ASSUME S # {} PROVE FALSE
    OBVIOUS
  <2>1. PICK l \in S : Below[l] \cap S = {}
    BY <1>4 DEF Grounded
  <2>2. \A d \in Below[l] : buildUpstreamTree[d] \subseteq affected
    BY <1>1, <1>2, <2>1
  <2>. QED  BY <1>3, <2>1, <2>2
<1>7. ASSUME NEW x \in affected PROVE \E c \in consumers : x \in buildUpstreamTree[c]
  <2>. DEFINE S == {y \in affected : ~\E c \in consumers : y \in buildUpstreamTree[c]}
  <2>. SUFFICES ASSUME S # {} PROVE FALSE
    OBVIOUS
  <2>1. S \in SUBSET Labels
    BY <1>0
  <2>2. PICK y \in S : dependants[y] \cap S = {}
    BY <2>1, Neighbours DEF Grounded
  <2>3. y \in Labels /\ y \in affected /\ dependants[y] = GetDependants(y)
    BY <1>0, <2>2 DEF dependants
  <2>4. CASE GetDependants(y) \cap affected = {}
    <3>1. y \in consumers /\ y \in buildUpstreamTree[y]
      BY <1>3, <2>3, <2>4 DEF consumers
    <3>. QED  BY <2>2, <3>1
  <2>5. CASE GetDependants(y) \cap affected # {}
    <3>1. PICK z \in affected : z \in GetDependants(y)
      BY <2>5
    <3>2. PICK c \in consumers : z \in buildUpstreamTree[c]
      BY <2>2, <2>3, <3>1
    <3>3. z \in Labels /\ c \in Labels
      BY <1>0, <3>1, <3>2
    <3>4. y \in dependencies[z] /\ dependencies[z] = GetDependencies(z)
      <4>1. y \in dependencies[z]
        BY <2>3, <3>1, <3>3, Neighbours
      <4>. QED  BY <3>3, <4>1 DEF dependencies
    <3>5. y \in Below[z]
      BY <1>2, <2>3, <3>3, <3>4
    <3>6. y \in buildUpstreamTree[c]
      BY <1>5, <3>2, <3>3, <3>5
    <3>. QED  BY <2>2, <3>6
  <2>. QED  BY <2>4, <2>5
<1>. QED  BY <1>0, <1>6, <1>7

\* What differs, and what is affected, depends on the input and the graph alone.
LEMMA SameDifferences ==
  ASSUME GoodGraph, nodes' = nodes, edges' = edges, input' = input
  PROVE  /\ command' = command /\ Different' = Different /\ Reached' = Reached /\ affected' = affected
         /\ \A S : FilterNodes(S)' = FilterNodes(S)
<1>1. /\ Labels' = Labels /\ \A l : GetAncestors(l)' = GetAncestors(l)
      /\ \A l : GetDescendants(l)' = GetDescendants(l)
  BY GraphStays
<1>2. Is("target")' = Is("target") /\ command' = command
  BY <1>1 DEF Is, command
<1>3. \A l : Old(l)' = Old(l) /\ New(l)' = New(l)
  BY DEF Old, New, Parsed
<1>4. Different' = Different
  BY <1>2, <1>3 DEF Different
<1>5. Reached' = Reached
  BY <1>1, <1>2, <1>4 DEF Reached
<1>6. changedSources' = changedSources /\ changedBuildFiles' = changedBuildFiles
  BY DEF changedSources, changedBuildFiles
<1>7. \A s : owners(s)' = owners(s)
  BY <1>2 DEF owners
<1>8. matchingTargets' = matchingTargets
  BY <1>2, <1>6, <1>7 DEF matchingTargets
<1>9. affected' = affected
  BY <1>1, <1>8 DEF affected
<1>10. \A S : FilterNodes(S)' = FilterNodes(S)
  BY SameMatches DEF FilterNodes
<1>. QED  BY <1>2, <1>4, <1>5, <1>9, <1>10

\* What an answer has
CoverInv ==
  phase = "answered" =>
    /\ command.kind = "changes" => FilterNodes(IF command.transitive THEN Reached ELSE Different) \subseteq answer
    /\ command.kind = "explain" => answer = affected /\ Reached \subseteq answer

\* The answer covers what differs, and what depends on it.
LEMMA AnswersCover ==
  ASSUME LoadInv, MapInv, SearchInv, GraphInv, Answer
  PROVE  CoverInv'
<1>1. phase = "query" /\ UNCHANGED <<input, graph>>
  BY DEF Answer
<1>2. nodes' = nodes /\ edges' = edges
  BY <1>1 DEF graph
<1>3. GoodGraph
  BY <1>1 DEF GraphInv, Analyzed, BuildGraphPhases
<1>4. /\ command' = command /\ Different' = Different /\ Reached' = Reached /\ affected' = affected
      /\ \A S : FilterNodes(S)' = FilterNodes(S)
  BY <1>1, <1>2, <1>3, SameDifferences
<1>5. /\ Different \subseteq matchingTargets /\ matchingTargets \subseteq Is("target")
      /\ Reached \subseteq matchingTargets \cup ((UNION {GetDescendants(l) : l \in matchingTargets}) \cap Is("target"))
  BY <1>1, <1>3, DifferencesAreFound
<1>6. ASSUME command.kind = "changes"
      PROVE  FilterNodes(IF command.transitive THEN Reached ELSE Different) \subseteq answer'
  <2>1. answer' = FilterNodes(changes)
    BY <1>6 DEF Answer
  <2>2. Reached \subseteq changes \/ ~command.transitive
    BY <1>5 DEF changes
  <2>3. Different \subseteq changes
    BY <1>5 DEF changes
  <2>. QED  BY <2>1, <2>2, <2>3 DEF FilterNodes
<1>7. ASSUME command.kind = "explain" PROVE answer' = affected /\ Reached \subseteq answer'
  <2>1. answer' = UNION {buildUpstreamTree[l] : l \in consumers}
    BY <1>7 DEF Answer
  <2>2. matchingTargets \subseteq Labels
    BY <1>5 DEF Is
  <2>3. answer' = affected
    BY <1>3, <2>1, <2>2, TreesCoverAffected
  <2>. QED  BY <1>5, <2>3 DEF affected
<1>8. CASE command.transitive
  BY <1>4, <1>6, <1>7, <1>8 DEF CoverInv
<1>9. CASE ~command.transitive
  BY <1>4, <1>6, <1>7, <1>9 DEF CoverInv
<1>. QED  BY <1>8, <1>9

\* After the answer nothing happens, and before there is none.
LEMMA CoverInvKept == LoadInv /\ MapInv /\ SearchInv /\ GraphInv /\ CoverInv /\ [Next]_vars => CoverInv'
<1>. SUFFICES ASSUME LoadInv, MapInv, SearchInv, GraphInv, CoverInv, [Next]_vars PROVE CoverInv'
  OBVIOUS
<1>1. CASE phase' # "answered"
  BY <1>1 DEF CoverInv
<1>2. CASE LoadNext
  BY <1>1, <1>2, LoadPhase
<1>3. CASE BuildNodeMap \/ BuildGraph \/ FindCycle
  BY <1>1, <1>3 DEF BuildNodeMap, BuildGraph, FindCycle
<1>4. CASE Analyze
  BY <1>1, <1>4, Zenon DEF Analyze
<1>5. ASSUME NEW l \in left, SelectNode(l) PROVE CoverInv'
  BY <1>1, <1>5 DEF SelectNode
<1>6. CASE EndSelection
  BY <1>1, <1>6 DEF EndSelection
<1>7. CASE UNCHANGED vars /\ phase = "answered"
  <2>1. UNCHANGED <<input, phase, nodes, edges, answer>>
    BY <1>7 DEF vars, graph
  <2>2. GoodGraph
    BY <1>7 DEF GraphInv, Analyzed, BuildGraphPhases
  <2>3. /\ command' = command /\ Different' = Different /\ Reached' = Reached /\ affected' = affected
        /\ \A S : FilterNodes(S)' = FilterNodes(S)
    BY <2>1, <2>2, SameDifferences
  <2>4. CASE command.transitive
    BY <1>7, <2>1, <2>3, <2>4 DEF CoverInv
  <2>5. CASE ~command.transitive
    BY <1>7, <2>1, <2>3, <2>5 DEF CoverInv
  <2>. QED  BY <2>4, <2>5
<1>8. CASE UNCHANGED vars /\ phase # "answered"
  BY <1>1, <1>8 DEF vars
<1>. QED  BY <1>2, <1>3, <1>4, <1>5, <1>6, <1>7, <1>8, AnswersCover DEF Next

\* What changes is listed and explained, for every workspace and revision.
THEOREM ChangesAreCovered == Spec => []ChangesCover
<1>1. Init => LoadInv /\ MapInv /\ SearchInv /\ GraphInv /\ CoverInv
  BY InitLoadInv, GraphBegins DEF Init, LoadInit, MapInv, CoverInv
<1>2. /\ LoadInv /\ MapInv /\ SearchInv /\ GraphInv /\ CoverInv /\ [Next]_vars
      => (LoadInv /\ MapInv /\ SearchInv /\ GraphInv /\ CoverInv)'
  BY LoadInvKept, MapInvKept, GraphInvKept, CoverInvKept
<1>3. CoverInv => ChangesCover
  BY DEF CoverInv, ChangesCover, Old, New, Different, Reached
<1>. QED  BY <1>1, <1>2, <1>3, PTL DEF Spec
=============================================================================
