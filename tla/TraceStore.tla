----------------------------- MODULE TraceStore -----------------------------
(***************************************************************************)
(* Traces of past builds (internal/tracing, cmd/cmds/traces).  Machines    *)
(* that share a remote store write a trace at the end of a build, as a     *)
(* file with the build's row and a file with its spans, and query, prune   *)
(* and pull traces.  Both files are kept locally and remotely, under the   *)
(* date on which the build started; queries read the local ones.           *)
(***************************************************************************)
EXTENDS Naturals, FiniteSets, FiniteSetsExt

CONSTANTS
  Machines,
  Commands,      \* processes that write, prune or pull traces
  TraceIds,
  Completions,   \* what builds end with: sets of [label, outcome, hit]
  Limit,         \* of the builds that reports are about
  MaxTime,       \* of the clock
  MaxFaults      \* failing calls and kills of a behaviour

\* The completion map has one entry for a target.
ASSUME CompletionsAssumption ==
  \A C \in Completions : IsFiniteSet(C) /\ \A c, d \in C : c.label = d.label => c = d

VARIABLES
  now,
  on,        \* the machine of a process
  traces,    \* the content of the traces that have been written
  local,     \* files of each machine's local cache
  remote,    \* files of the remote store
  job,       \* what each process is doing
  faults

traceVars == <<now, on, traces, local, remote, job, faults>>

Idle == [kind |-> "idle"]
File(table, date, id) == [table |-> table, date |-> date, id |-> id]

\* Two units are a day, in UTC.
dateStr(t) == t \div 2

-----------------------------------------------------------------------------
(* Collecting                                                              *)

Status(c) == IF c.outcome = "ok" THEN "SUCCESS" ELSE IF c.outcome = "error" THEN "FAILURE" ELSE "CANCELLED"

buildSpan(c) == [label |-> c.label, status |-> Status(c), hit |-> c.hit]

\* Mutant: a cancelled target is not counted.
FinalizeUncancelled(start, completions) ==
  [start |-> start,
   spans |-> {buildSpan(c) : c \in completions},
   total |-> Cardinality({c \in completions : c.outcome # "cancelled"}),
   success |-> Cardinality({c \in completions : c.outcome = "ok"}),
   failures |-> Cardinality({c \in completions : c.outcome = "error"}),
   hits |-> Cardinality({c \in completions : c.outcome = "ok" /\ c.hit})]

\* The row counts a cancelled target as a failure.
Finalize(start, completions) ==
  [start |-> start,
   spans |-> {buildSpan(c) : c \in completions},
   total |-> Cardinality(completions),
   success |-> Cardinality({c \in completions : c.outcome = "ok"}),
   failures |-> Cardinality({c \in completions : c.outcome # "ok"}),
   hits |-> Cardinality({c \in completions : c.outcome = "ok" /\ c.hit})]

-----------------------------------------------------------------------------
(* Queries: over the local files of a machine                              *)

Rows(m) == {f.id : f \in {g \in local[m] : g.table = "builds"}}
SpansOf(m, id) == IF \E f \in local[m] : f.table = "spans" /\ f.id = id THEN traces[id].spans ELSE {}

\* A recent selection: ORDER BY start LIMIT n, of builds that started at the
\* same time any
Recent(m, n) ==
  {R \in SUBSET Rows(m) :
     /\ Cardinality(R) = Min({n, Cardinality(Rows(m))})
     /\ \A id \in R, other \in Rows(m) \ R : traces[id].start >= traces[other].start}

\* List: limit 0 lists all, a negative limit twenty.
List(m, since, failuresOnly) ==
  {id \in Rows(m) : traces[id].start >= since /\ (failuresOnly => traces[id].failures > 0)}

\* SUM(field): as many pairs as the rows have units
Sum(R, field) == Cardinality(UNION {{id} \X (1 .. traces[id][field]) : id \in R})

Stats(R) ==
  [count |-> Cardinality(R),
   hits |-> Sum(R, "hits"), targets |-> Sum(R, "total"), fails |-> Sum(R, "failures")]

\* The labels with spans in at least two of the builds
\* Mutant: the spans are not restricted to the recent builds.
BottlenecksOfAll(m, R) ==
  LET With(l) == {id \in Rows(m) : \E s \in SpansOf(m, id) : s.label = l}
      labels == UNION {{s.label : s \in SpansOf(m, id)} : id \in Rows(m)}
  IN  {[label |-> l, n |-> Cardinality(With(l)), failures |-> 0] :
       l \in {x \in labels : Cardinality(With(x)) > 1}}
Bottlenecks(m, R) ==
  LET With(l) == {id \in R : \E s \in SpansOf(m, id) : s.label = l}
      labels == UNION {{s.label : s \in SpansOf(m, id)} : id \in R}
      Failed(l) == {id \in R : \E s \in SpansOf(m, id) : s.label = l /\ s.status = "FAILURE"}
  IN  {[label |-> l, n |-> Cardinality(With(l)), failures |-> Cardinality(Failed(l))] :
       l \in {x \in labels : Cardinality(With(x)) > 1}}

\* buildJSONLObj, buildOTLPResourceSpans: a build with its spans; the root span
\* of the latter fails with the row.
Exported(m, ids) == {[id |-> id, ok |-> traces[id].failures = 0, spans |-> SpansOf(m, id)] : id \in ids}

-----------------------------------------------------------------------------
TraceInit ==
  /\ now = 0 /\ traces = << >>
  /\ on \in [Commands -> Machines]
  /\ local = [m \in Machines |-> {}] /\ remote = {}
  /\ job = [p \in Commands |-> Idle] /\ faults = 0

Tick == /\ now < MaxTime /\ now' = now + 1
        /\ UNCHANGED <<on, traces, local, remote, job, faults>>

Fault == faults < MaxFaults /\ faults' = faults + 1
Does(p, kind) == job[p].kind = kind
Turn(p, j) == job' = [job EXCEPT ![p] = j]
Written == {job[p].id : p \in {q \in Commands : job[q].kind \in {"build", "write"}}}
files == <<local, remote>>
world == <<now, on>>

-----------------------------------------------------------------------------
(* A build and its trace                                                   *)

\* The trace has the start of the build, and a new id.
StartBuild(p, id) ==
  /\ Does(p, "idle") /\ id \notin DOMAIN traces \cup Written
  /\ Turn(p, [kind |-> "build", id |-> id, start |-> now])
  /\ UNCHANGED <<world, traces, files, faults>>

Writes(id, table) == [kind |-> "write", id |-> id, table |-> table, left |-> {"local", "remote"}, ok |-> TRUE]

FinalizeTrace(p) ==
  /\ Does(p, "build")
  /\ \E completions \in Completions :
       traces' = [i \in DOMAIN traces \cup {job[p].id} |->
                    IF i = job[p].id THEN Finalize(job[p].start, completions) ELSE traces[i]]
  /\ Turn(p, Writes(job[p].id, "builds"))
  /\ UNCHANGED <<world, files, faults>>

FileOf(j) == File(j.table, dateStr(traces[j.id].start), j.id)

\* RemoteWrapper.Set: the two stores in either order, each of which may fail
Put(p, side) ==
  /\ Does(p, "write") /\ side \in job[p].left
  /\ \/ /\ \/ side = "local" /\ local' = [local EXCEPT ![on[p]] = @ \cup {FileOf(job[p])}] /\ UNCHANGED remote
           \/ side = "remote" /\ remote' = remote \cup {FileOf(job[p])} /\ UNCHANGED local
        /\ Turn(p, [job[p] EXCEPT !.left = @ \ {side}])
        /\ UNCHANGED faults
     \/ /\ Fault
        /\ Turn(p, [job[p] EXCEPT !.left = @ \ {side}, !.ok = FALSE])
        /\ UNCHANGED files
  /\ UNCHANGED <<world, traces>>

\* TraceWriter.Write: the spans follow if there are any and the row is stored.
NextFile(p) ==
  /\ Does(p, "write") /\ job[p].left = {}
  /\ Turn(p, IF job[p].table = "builds" /\ job[p].ok /\ traces[job[p].id].spans # {}
             THEN Writes(job[p].id, "spans") ELSE Idle)
  /\ UNCHANGED <<world, traces, files, faults>>

-----------------------------------------------------------------------------
(* Prune and Pull                                                          *)

\* The rows that are here and started before the cutoff ...
StartPrune(p) ==
  /\ Does(p, "idle")
  /\ \E cutoff \in 1 .. now :
       LET old == {id \in Rows(on[p]) : traces[id].start < cutoff}
       IN  Turn(p, [kind |-> "prune", cutoff |-> cutoff, todo |-> old, seen |-> old \ Written,
                    at |-> {}, ok |-> TRUE])
  /\ UNCHANGED <<world, traces, files, faults>>

Deletion(id, table, side) == [id |-> id, table |-> table, side |-> side]

\* Mutant: the directory has the date in the local time zone.
FileAtLocalDate(d) == File(d.table, (traces[d.id].start + 1) \div 2, d.id)

FileAt(d) == File(d.table, dateStr(traces[d.id].start), d.id)

\* ... are deleted one after the other, first the row ...
PruneTrace(p, id) ==
  /\ Does(p, "prune") /\ id \in job[p].todo /\ job[p].at = {}
  /\ Turn(p, [job[p] EXCEPT !.todo = @ \ {id}, !.at = {Deletion(id, "builds", "local")}])
  /\ UNCHANGED <<world, traces, files, faults>>

\* ... and then the spans, whatever the first deletion returns.
AfterDeletion(d) == IF d.table = "builds" THEN {Deletion(d.id, "spans", "local")} ELSE {}

\* RemoteWrapper.Delete: a local error keeps the remote file; a file that is not
\* there is no error.
Delete(p, d) ==
  /\ Does(p, "prune") /\ d \in job[p].at
  /\ \/ /\ d.side = "local"
        /\ local' = [local EXCEPT ![on[p]] = @ \ {FileAt(d)}]
        /\ Turn(p, [job[p] EXCEPT !.at = {Deletion(d.id, d.table, "remote")}])
        /\ UNCHANGED <<remote, faults>>
     \/ /\ d.side = "remote"
        /\ remote' = remote \ {FileAt(d)}
        /\ Turn(p, [job[p] EXCEPT !.at = AfterDeletion(d)])
        /\ UNCHANGED <<local, faults>>
     \/ /\ Fault
        /\ Turn(p, [job[p] EXCEPT !.at = AfterDeletion(d), !.ok = FALSE])
        /\ UNCHANGED files
  /\ UNCHANGED <<world, traces>>

EndPrune(p) ==
  /\ Does(p, "prune") /\ job[p].todo = {} /\ job[p].at = {}
  /\ Turn(p, Idle)
  /\ UNCHANGED <<world, traces, files, faults>>

\* The keys of the remote store
Pull(p) ==
  /\ Does(p, "idle") /\ remote # {}
  /\ Turn(p, [kind |-> "pull", todo |-> remote, get |-> {}])
  /\ UNCHANGED <<world, traces, files, faults>>

\* The I/O limit wraps the RemoteWrapper, so that Exists asks the remote store as
\* well; a call that fails counts as missing.
PullCheck(p, f) ==
  /\ Does(p, "pull") /\ f \in job[p].todo
  /\ LET next == [job[p] EXCEPT !.todo = @ \ {f}]
         wanted == [next EXCEPT !.get = @ \cup {f}]
     IN  \/ Turn(p, IF f \in local[on[p]] \cup remote THEN next ELSE wanted) /\ UNCHANGED faults
         \/ Turn(p, wanted) /\ Fault
  /\ UNCHANGED <<world, traces, files>>

\* RemoteWrapper.Get copies what it reads from the remote store.
PullGet(p, f) ==
  /\ Does(p, "pull") /\ job[p].todo = {} /\ f \in job[p].get
  /\ \/ local' = [local EXCEPT ![on[p]] = @ \cup ({f} \cap remote)] /\ UNCHANGED faults
     \/ UNCHANGED local /\ Fault
  /\ Turn(p, [job[p] EXCEPT !.get = @ \ {f}])
  /\ UNCHANGED <<world, traces, remote>>

EndPull(p) ==
  /\ Does(p, "pull") /\ job[p].todo = {} /\ job[p].get = {}
  /\ Turn(p, Idle)
  /\ UNCHANGED <<world, traces, files, faults>>

Killed(p) ==
  /\ ~Does(p, "idle") /\ Fault
  /\ Turn(p, Idle)
  /\ UNCHANGED <<world, traces, files>>

TraceNext ==
  \/ Tick
  \/ \E p \in Commands :
       \/ \E id \in TraceIds : StartBuild(p, id)
       \/ FinalizeTrace(p) \/ Put(p, "local") \/ Put(p, "remote") \/ NextFile(p)
       \/ StartPrune(p) \/ EndPrune(p) \/ Pull(p) \/ EndPull(p) \/ Killed(p)
       \/ \E id \in DOMAIN traces : PruneTrace(p, id)
       \/ (Does(p, "prune") /\ \E d \in job[p].at : Delete(p, d))
       \/ (Does(p, "pull") /\ \E f \in job[p].todo \cup job[p].get : PullCheck(p, f) \/ PullGet(p, f))

TraceSpec == TraceInit /\ [][TraceNext]_traceVars

-----------------------------------------------------------------------------
(* Properties                                                              *)

\* A prune that deletes without an error leaves no row of an old trace in the remote
\* store, nor here, unless the trace was being written when it began or a pull after
\* a failed call fetched it meanwhile; writer and pruner derive the directory of a
\* file from the start of the build alike.  No prune removes a file of a trace that
\* is not old.
PruneKeepsItsWord ==
  [][\A p \in Commands : Does(p, "prune") /\ job'[p] # job[p] =>
       /\ \A f \in (local[on[p]] \ local'[on[p]]) \cup (remote \ remote') :
            traces[f.id].start < job[p].cutoff
       /\ EndPrune(p) /\ job[p].ok =>
            \A id \in job[p].seen : \A f \in remote \cup (IF faults = 0 THEN local[on[p]] ELSE {}) :
              ~(f.table = "builds" /\ f.id = id)]_traceVars

\* The reports of a machine agree with each other at all times, whatever files are
\* missing: a target is in no more builds than the statistics count, its failures
\* are among theirs, and spans that are exported are those the row counts.
ReportsAgree ==
  \A m \in Machines : \A n \in 1 .. Limit : \A R \in Recent(m, n) :
    LET stats == Stats(R) slow == Bottlenecks(m, R)
    IN  /\ stats.hits <= stats.targets
        /\ \A b \in slow : b.n <= stats.count /\ b.failures <= stats.fails
        /\ \A e \in Exported(m, List(m, 0, TRUE)) :
             ~e.ok /\ (e.spans # {} => Cardinality(e.spans) = traces[e.id].total)
=============================================================================
