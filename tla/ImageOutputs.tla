---------------------------- MODULE ImageOutputs ----------------------------
(***************************************************************************)
(* The image outputs of targets: DockerOutputHandler over the loopback     *)
(* registry of module OciProxy (mode "layers"), or                         *)
(* DockerRegistryOutputHandler over a registry (mode "registry"), the      *)
(* write plans that CacheWriter.commit executes, and the pushes to other   *)
(* registries (internal/output, internal/oci_push).                        *)
(*                                                                         *)
(* All targets have the same image.  The references grog itself puts on an *)
(* image in the daemon name the image only, so the targets share them.     *)
(***************************************************************************)
EXTENDS OciProxy

CONSTANT Options   \* builds to consider

\* oci.backend, --push, load_outputs, and the targets without a cache: those tagged
\* no-cache, or all when enable_cache is off
AllOptions == [mode : {"layers", "registry"}, pushing : BOOLEAN, loads : {"all", "minimal"},
               noCache : SUBSET Pushes]

ASSUME ImageAssumption == Options \subseteq AllOptions

VARIABLES
  mode, pushing, loads, noCache, interrupted,
  image,      \* the daemon has the image
  name,       \* targets whose local tag is on the image
  cacheTag,   \* the tag that write plans push
  pullRef,    \* the reference that Load pulls by, in mode "layers"
  hub,        \* the cache registry of mode "registry" has the image
  job,        \* job[t]: where target t is
  digest,     \* targets whose output has its manifest digest
  result,     \* targets whose result is stored
  reached,    \* targets whose image is at its destination
  reports     \* entries of PushReporter: <<target, error?>>

imageVars == <<mode, pushing, loads, noCache, interrupted, image, name, cacheTag, pullRef, hub, job,
               digest, result, reached, reports>>
vars == <<proxyVars, imageVars>>
Targets == Pushes

Stored == IF mode = "layers" THEN manifest.stored /\ layer = Layer ELSE hub

Init ==
  /\ ProxyInit
  /\ \E o \in Options : mode = o.mode /\ pushing = o.pushing /\ loads = o.loads /\ noCache = o.noCache
  /\ interrupted = FALSE
  /\ image \in BOOLEAN
  /\ IF mode = "layers" THEN hub = FALSE ELSE hub \in BOOLEAN /\ layer = None
  /\ name = {} /\ cacheTag = FALSE /\ pullRef = FALSE
  /\ job = [t \in Targets |-> "idle"]
  /\ reached = {} /\ reports = {}
  /\ result \in (IF Stored THEN SUBSET Targets ELSE {{}})   \* by an earlier build
  /\ digest = IF mode = "layers" THEN result ELSE {}

\* A dependant of t may be running, which needs the outputs of a hit.
Running == server = "up" \/ interrupted

Move(t, place) == job' = [job EXCEPT ![t] = place]
options == <<mode, pushing, loads, noCache>>
fixed == <<options, interrupted>>
refs == <<image, name, cacheTag, pullRef>>
cache == <<hub, digest, result>>
pushes == <<reached, reports>>

-----------------------------------------------------------------------------
(* Write and the write plans                                               *)

\* The command of the target has run and has created its image, or has not.  So
\* has the rerun for a dependant.
Build(t) ==
  /\ job[t] \in {"idle", "miss"} \/ (job[t] = "hit" /\ Running)
  /\ \/ image' = TRUE /\ name' = name \cup {t} /\ Move(t, "built")
     \/ Move(t, "failed") /\ UNCHANGED <<image, name>>
  /\ UNCHANGED <<proxyVars, fixed, cacheTag, pullRef, cache, pushes>>

\* DockerOutputHandler.Write, DockerRegistryOutputHandler.Write: inspect and tag
Prepare(t) ==
  /\ job[t] = "built" /\ t \notin noCache
  /\ \/ t \in name /\ cacheTag' = TRUE /\ Move(t, "queued") /\ digest' = digest \ {t}
     \/ Move(t, "failed") /\ UNCHANGED <<cacheTag, digest>>
  /\ UNCHANGED <<proxyVars, fixed, image, name, pullRef, hub, result, pushes>>

\* dockerImageWritePlan.Execute: the daemon pushes the tag, if it is there, and
\* the digest of the manifest is read back.
StartPlan(t) ==
  /\ job[t] = "queued" /\ mode = "layers"
  /\ IF cacheTag THEN push' = [push EXCEPT ![t] = "checking"] /\ Move(t, "caching")
     ELSE Move(t, "abort") /\ UNCHANGED push
  /\ UNCHANGED <<server, late, listed, session, at, body, layer, manifest, fixed, refs, cache, pushes>>

EndPlan(t) ==
  /\ job[t] = "caching" /\ push[t] \in {"pushed", "failed"}
  /\ IF push[t] = "pushed" /\ manifest.named
     THEN Move(t, "shipping") /\ digest' = digest \cup {t}
     ELSE Move(t, "abort") /\ UNCHANGED digest
  /\ UNCHANGED <<proxyVars, fixed, refs, hub, result, pushes>>

\* dockerRegistryWritePlan.Execute
PushToRegistry(t) ==
  /\ job[t] = "queued" /\ mode = "registry"
  /\ \/ cacheTag /\ hub' = TRUE /\ Move(t, "shipping")
     \/ Move(t, "abort") /\ UNCHANGED hub
  /\ UNCHANGED <<proxyVars, fixed, refs, digest, result, pushes>>

\* GetNoCacheOutputHash: the image is inspected and stays where it is.  There are
\* no plans, and the result, which names no outputs, replaces an earlier one.
HashOnly(t) ==
  /\ job[t] = "built" /\ t \in noCache
  /\ \/ t \in name /\ result' = result \ {t} /\ Move(t, "uncached")
     \/ Move(t, "failed") /\ UNCHANGED result
  /\ UNCHANGED <<proxyVars, fixed, refs, hub, digest, pushes>>

-----------------------------------------------------------------------------
(* Pushes                                                                  *)

HasFailures == \E report \in reports : report[2]

\* PushImage reads the manifest and the layer from where the plan has put them.
CanCopy(t) == IF mode = "layers" THEN t \in digest /\ Stored /\ Accepting ELSE hub

\* The destination has the image already, or one of three tries writes it.
Copy(t) == IF CanCopy(t) THEN BOOLEAN ELSE {FALSE}

Record(t, ok) == reports' = reports \cup {<<t, ~ok>>}

\* Mutant: an error is returned but not recorded.
ShipUnrecorded(t, ok) ==
  /\ ok \in Copy(t)
  /\ reached' = IF ok THEN reached \cup {t} ELSE reached
  /\ IF ok THEN Record(t, ok) ELSE UNCHANGED reports

\* OciPushPlan.Execute; with --fail-fast it fails at once after an error.
Ship(t, ok) ==
  /\ ok \in Copy(t)
  /\ reached' = IF ok THEN reached \cup {t} ELSE reached
  /\ Record(t, ok)

\* CacheWriter.commit: the plan of the push follows the plan of the cache, and a
\* failure of either keeps the result from being stored.
ShipFresh(t) ==
  /\ job[t] = "shipping"
  /\ IF pushing
     THEN \E ok \in BOOLEAN : Ship(t, ok) /\ Move(t, IF ok THEN "storing" ELSE "abort")
     ELSE Move(t, "storing") /\ UNCHANGED pushes
  /\ UNCHANGED <<proxyVars, fixed, refs, cache>>

Store(t) ==
  /\ job[t] = "storing"
  /\ \/ result' = result \cup {t} /\ Move(t, "clean")
     \/ Move(t, "abort") /\ UNCHANGED result
  /\ UNCHANGED <<proxyVars, fixed, refs, hub, digest, pushes>>

\* Without its last reference the daemon drops the image.
Untag(keep) == image' = (image /\ (name # {} \/ keep))

\* cleanupPlans: the tag is removed, whoever put it there.
CleanupPlans(t) ==
  /\ job[t] \in {"clean", "abort"}
  /\ cacheTag' = FALSE /\ Untag(pullRef)
  /\ Move(t, IF job[t] = "clean" THEN "done" ELSE "failed")
  /\ UNCHANGED <<proxyVars, fixed, name, pullRef, cache, pushes>>

-----------------------------------------------------------------------------
(* Load                                                                    *)

\* A hit is left in the cache, also one whose result names no image.
SkipLoad(t) ==
  /\ job[t] = "idle" /\ t \notin noCache /\ loads = "minimal"
  /\ Move(t, "hit")
  /\ UNCHANGED <<proxyVars, fixed, refs, cache, pushes>>

\* The image is there, or it is pulled; a target that cannot be loaded is built.
Load(t) ==
  /\ t \in result \ noCache
  /\ \/ job[t] = "idle" /\ loads = "all"
     \/ job[t] = "hit" /\ Running
  /\ \/ image /\ name' = name \cup {t} /\ Move(t, "restored") /\ UNCHANGED <<image, cacheTag, pullRef>>
     \/ /\ ~image /\ Stored /\ (mode = "layers" => Accepting)
        /\ image' = TRUE
        /\ cacheTag' = (cacheTag \/ mode = "registry") /\ pullRef' = (pullRef \/ mode = "layers")
        /\ Move(t, "pulled") /\ UNCHANGED name
  /\ UNCHANGED <<proxyVars, fixed, cache, pushes>>

Pulled == IF mode = "layers" THEN pullRef ELSE cacheTag

\* The local tag is put on what the reference names, unless it is gone.
TagPulled(t) ==
  /\ job[t] = "pulled"
  /\ IF Pulled THEN name' = name \cup {t} /\ Move(t, "tagged")
     ELSE Move(t, "miss") /\ UNCHANGED name
  /\ UNCHANGED <<proxyVars, fixed, image, cacheTag, pullRef, cache, pushes>>

\* The reference is removed, whoever uses it.
RemovePulled(t) ==
  /\ job[t] = "tagged"
  /\ IF mode = "layers" THEN pullRef' = FALSE /\ UNCHANGED cacheTag
     ELSE cacheTag' = FALSE /\ UNCHANGED pullRef
  /\ Move(t, "restored")
  /\ UNCHANGED <<proxyVars, fixed, image, name, cache, pushes>>

\* LoadOutputs runs the plans of the pushes and drops their errors.
ShipRestored(t) ==
  /\ job[t] = "restored"
  /\ IF pushing THEN \E ok \in BOOLEAN : Ship(t, ok) ELSE UNCHANGED pushes
  /\ Move(t, "done")
  /\ UNCHANGED <<proxyVars, fixed, refs, cache>>

-----------------------------------------------------------------------------
(* The build                                                               *)

Settled(t) == job[t] \in {"done", "failed", "hit", "uncached"}

Interrupt ==
  /\ ~interrupted /\ interrupted' = TRUE
  /\ UNCHANGED <<proxyVars, options, refs, cache, job, pushes>>

\* runBuild closes the output registry when the cache writes have drained; after
\* an interrupt it waits no longer.
CloseRegistry ==
  /\ mode = "layers"   \* the other handler has no Close
  /\ server = "up" => interrupted \/ \A t \in Targets : Settled(t)
  /\ Close
  /\ UNCHANGED imageVars

DaemonStep == \E t \in Targets : Daemon(t) /\ UNCHANGED imageVars
HandlerStep(s) == Handler(s) /\ UNCHANGED imageVars

Target(t) ==
  \/ Build(t) \/ Prepare(t) \/ StartPlan(t) \/ EndPlan(t) \/ PushToRegistry(t)
  \/ HashOnly(t) \/ ShipFresh(t) \/ Store(t) \/ CleanupPlans(t)
  \/ SkipLoad(t) \/ Load(t) \/ TagPulled(t) \/ RemovePulled(t) \/ ShipRestored(t)

Next ==
  \/ \E t \in Targets : Target(t)
  \/ DaemonStep \/ \E s \in Sessions : HandlerStep(s)
  \/ Interrupt \/ CloseRegistry

Spec == Init /\ [][Next]_vars
\* Handlers go on: the body of a request ends, or its connection breaks.
FairSpec == Spec /\ WF_vars(CloseRegistry) /\ \A s \in Sessions : WF_vars(HandlerStep(s))

-----------------------------------------------------------------------------
(* Properties                                                              *)

\* The result of a target is stored only when its image can be restored: what it
\* names is in the CAS, or in the cache registry.  What the CAS has under the
\* digest of the layer is the layer, whatever requests of one session overlap: a
\* PATCH still served when PUT has computed the digest adds nothing to it.
RecordedImagesComplete ==
  /\ result # {} => Stored
  /\ layer \in {None, Layer}

\* A command with --push that reports no failed push has pushed the image of every
\* target whose outputs it has stored or restored: also when the push followed a
\* restore, whose error LoadOutputs drops.  The docs say that cache hits still
\* ship.  Exceptions are a hit that load_outputs=minimal leaves in the cache, a
\* target without a cache, and one whose cache plan fails, which an asynchronous
\* write only logs: for these a push is neither tried nor reported.
PushedUnlessReported ==
  pushing /\ ~HasFailures => \A t \in Targets : job[t] = "done" => t \in reached
=============================================================================
