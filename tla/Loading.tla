------------------------------ MODULE Loading -------------------------------
(***************************************************************************)
(* LoadPackages (internal/loading): workers take files from the queue of   *)
(* the file walker, load those that are BUILD files, and merge what they   *)
(* define into the packages.  The first error stops the others.            *)
(*                                                                         *)
(* A BUILD file is a sequence of definitions, or broken.  Paths are        *)
(* sequences of names; globs take all files of a directory.                *)
(***************************************************************************)
EXTENDS Naturals, SequencesExt

CONSTANTS
  Workers,
  Inputs,    \* workspaces and commands, see Planning
  None       \* no file, no platforms

VARIABLES
  input,
  queue,     \* files that no worker has taken
  worker,    \* worker -> what it is doing
  packages,  \* package path -> label -> definition
  loadError,
  cancelled, \* the load context
  phase

loading == <<queue, worker, packages, loadError, cancelled>>

\* What the parsers make of a definition is a node of one of three kinds.
Fields == {"name", "kind", "file", "deps", "inputs", "globs", "excludes", "outputs", "platforms",
           "tags", "push", "bin", "command"}
ASSUME InputsAssumption ==
  \A in \in Inputs : \A f \in DOMAIN in.files : \A d \in Range(in.files[f].definitions) :
    /\ Fields \subseteq DOMAIN d /\ d.kind \in {"target", "alias", "resource"}
    /\ \A o \in d.outputs : o = [type |-> o.type, path |-> o.path]

Idle == [step |-> "idle", file |-> None]
At(step, f) == [step |-> step, file |-> f]

-----------------------------------------------------------------------------
(* One file                                                                *)

Parsed(f) == input.files[f]
Package(f) == Parsed(f).package

\* resolveInputs: inputs without glob characters are taken as they are.
InDir(dir, package, tree) ==
  {SubSeq(p, Len(package) + 1, Len(p)) : p \in {q \in tree : q # <<>> /\ Front(q) = package \o dir}}
resolveInputs(d, package, tree) ==
  (d.inputs \cup UNION {InDir(dir, package, tree) : dir \in d.globs})
    \ UNION {InDir(dir, package, tree) : dir \in d.excludes}

\* getEnrichedPackage: a definition gets its file, its inputs, and the platforms
\* of the package if it has none of its own.
Enrich(f, content, d, tree) ==
  [d EXCEPT !.file = f, !.inputs = resolveInputs(d, content.package, tree),
            !.platforms = IF @ = None THEN content.platforms ELSE @]
Label(f, d) == [package |-> Package(f), name |-> d.name]
Defined(f) ==
  [l \in {Label(f, d) : d \in Range(Parsed(f).definitions)} |->
     Enrich(f, Parsed(f), CHOOSE d \in Range(Parsed(f).definitions) : Label(f, d) = l, input.tree)]

\* A syntax error, a bad label, output or timeout, or a resource without command;
\* two definitions of one name, of whatever kind.
Rejected(f) ==
  \/ Parsed(f).kind = "broken"
  \/ \E d \in Range(Parsed(f).definitions) : d.kind = "resource" /\ ~d.command
  \/ \E i, j \in DOMAIN Parsed(f).definitions :
       i # j /\ Parsed(f).definitions[i].name = Parsed(f).definitions[j].name

-----------------------------------------------------------------------------
LoadInit ==
  /\ input \in Inputs
  /\ queue = DOMAIN input.files
  /\ worker = [w \in Workers |-> Idle]
  /\ packages = << >> /\ loadError = FALSE /\ cancelled = FALSE
  /\ phase = "loading"

Becomes(w, at) == worker' = [worker EXCEPT ![w] = at]

\* A file that is taken after the context is done is dropped.
Take(w) ==
  /\ worker[w] = Idle
  /\ \E f \in queue :
       /\ queue' = queue \ {f}
       /\ Becomes(w, IF cancelled THEN Idle ELSE At("load", f))
  /\ UNCHANGED <<input, packages, loadError, cancelled, phase>>

\* LoadIfMatched and getEnrichedPackage
Load(w) ==
  /\ worker[w].step = "load"
  /\ LET f == worker[w].file IN
     Becomes(w, CASE Parsed(f).kind = "unmatched" -> Idle
                  [] Parsed(f).kind # "unmatched" /\ Rejected(f) -> At("error", f)
                  [] OTHER -> At("merge", f))
  /\ UNCHANGED <<input, queue, packages, loadError, cancelled, phase>>

\* Mutant: the package of the file is looked up before the mutex is taken.
MergeUnlocked(w) ==
  /\ worker[w].step = "merge"
  /\ LET f == worker[w].file IN
       packages' = [p \in DOMAIN packages \cup {Package(f)} |->
                      IF p = Package(f) THEN Defined(f) ELSE packages[p]]
  /\ Becomes(w, Idle)
  /\ UNCHANGED <<input, queue, loadError, cancelled, phase>>

\* mergePackages, under the mutex: the first duplicate ends it, and what has been
\* merged before stays.
Merge(w) ==
  /\ worker[w].step = "merge"
  /\ LET f == worker[w].file
         from == Defined(f)
         into == IF Package(f) \in DOMAIN packages THEN packages[Package(f)] ELSE << >>
         twice == DOMAIN from \cap DOMAIN into
         Merged(labels) ==
           [p \in DOMAIN packages \cup {Package(f)} |->
              IF p = Package(f) THEN [l \in DOMAIN into \cup labels |-> IF l \in labels THEN from[l] ELSE into[l]]
              ELSE packages[p]]
     IN  IF twice = {}
         THEN packages' = Merged(DOMAIN from) /\ Becomes(w, Idle)
         ELSE /\ \E labels \in SUBSET (DOMAIN from \ twice) : packages' = Merged(labels)
              /\ Becomes(w, At("error", f))
  /\ UNCHANGED <<input, queue, loadError, cancelled, phase>>

\* setError: the first one is kept.
SetError(w) ==
  /\ worker[w].step = "error"
  /\ loadError' = TRUE /\ cancelled' = TRUE
  /\ Becomes(w, Idle)
  /\ UNCHANGED <<input, queue, packages, phase>>

Interrupt ==
  /\ phase = "loading" /\ input.interrupt /\ ~cancelled
  /\ cancelled' = TRUE
  /\ UNCHANGED <<input, queue, worker, packages, loadError, phase>>

\* waitGroup.Wait
Loaded == phase = "loading" /\ queue = {} /\ \A w \in Workers : worker[w] = Idle
LoadFails ==
  /\ Loaded /\ (loadError \/ cancelled)
  /\ phase' = "load failed"
  /\ UNCHANGED <<input, loading>>

LoadNext ==
  \/ \E w \in Workers : Take(w) \/ Load(w) \/ Merge(w) \/ SetError(w)
  \/ Interrupt \/ LoadFails
=============================================================================
