----------------------------- MODULE MCArtifacts -----------------------------
(***************************************************************************)
(* Three components that share no state: file and directory outputs,       *)
(* traces, and mutexes by name.  A behaviour is one of one of them.        *)
(***************************************************************************)
EXTENDS MutexMap, TraceStore, FileOutputs, TLC

CONSTANTS c1, c2, l1, l2, l3

VARIABLE component

\* the tree of a directory, from the trees of its entries
Dir(entries) ==
  [p \in {<<>>} \cup UNION {{<<e>> \o q : q \in DOMAIN entries[e]} : e \in DOMAIN entries} |->
     IF p = <<>> THEN Directory ELSE entries[p[1]][Tail(p)]]
Plain(content, exec) == Single(FileNode(content, exec))
Link(target) == Single(LinkNode(target))
sub == Dir([x |-> Plain(c1, TRUE)])
MCOutputs ==
  {Plain(c1, FALSE), Plain(c2, TRUE),
   Dir([x |-> Plain(c1, FALSE), y |-> Plain(c2, TRUE)]),
   Dir([x |-> Plain(c2, FALSE), d |-> sub, e |-> sub, l |-> Link("x")]),
   Dir([d |-> Dir(<<>>)])}

MCCompletions ==
  {{}, {[label |-> l1, outcome |-> "ok", hit |-> TRUE], [label |-> l2, outcome |-> "cancelled", hit |-> FALSE],
        [label |-> l3, outcome |-> "error", hit |-> FALSE]}}

Symmetry == Permutations(Machines) \cup Permutations(Commands) \cup Permutations(TraceIds)

MCInit ==
  /\ component \in {"files", "traces", "mutexes"}
  /\ MutexInit /\ FilesInit /\ TraceInit
  /\ component = "files" \/ type = "dir"
  /\ component = "traces" \/ \A p, q \in Commands : on[p] = on[q]

MCNext ==
  \/ component = "files" /\ FilesNext /\ UNCHANGED <<component, mutexVars, traceVars>>
  \/ component = "traces" /\ TraceNext /\ UNCHANGED <<component, mutexVars, filesVars>>
  \/ component = "mutexes" /\ MutexNext /\ UNCHANGED <<component, filesVars, traceVars>>

MCSpec == MCInit /\ [][MCNext]_<<component, mutexVars, filesVars, traceVars>>
=============================================================================
