-------------------------- MODULE Executor_proofs --------------------------
(***************************************************************************)
(* Theorems of Executor, for every graph, every option and every bound.    *)
(*                                                                         *)
(* The inductive invariant RInv says what the stacks of the tasks are: a   *)
(* task's own target at the bottom, above it dependencies that were done,  *)
(* that have not run in this build and whose flight in rerunGroup the task *)
(* holds.  A flight has one holder, so no target is on two stacks.         *)
(*                                                                         *)
(* On it rest FInv, by which every result in the cache has the output that *)
(* its change hash stands for and every target that is done the output of  *)
(* a build from scratch, and WInv, by which a build over the cache that    *)
(* another one filled computes its keys.  Both take the place of an        *)
(* induction over the graph with a minimal counterexample.                 *)
(***************************************************************************)
EXTENDS Executor, SequenceTheorems, TLAPS

FrameSet == [target : Targets, todo : SUBSET Targets]

\* A stack of task t: its own target at the bottom, no target twice
StackOf(t, f) ==
  /\ f \in Seq(FrameSet)
  /\ f # << >> => f[1].target = t
  /\ \A i \in 1..Len(f) : f[i].todo \subseteq TargetDeps(f[i].target)
  /\ \A i, j \in 1..Len(f) : f[i].target = f[j].target => i = j

Stacks ==
  /\ DOMAIN frames = Targets
  /\ \A t \in Targets : StackOf(t, frames[t])

\* Above it are dependencies that were done, and whose flight the task has.
Flights ==
  \A t \in Targets : \A i \in 2..Len(frames[t]) :
    /\ pc[frames[t][i].target] = "succeeded"
    /\ flight[frames[t][i].target] = t

Asked ==
  \A t \in Targets :
    pc[t] \in {"asking", "joined"} => dep[t] \in TargetDeps(Cur(t))

DepsDone ==
  phase = "building" =>
    \A t \in Targets : pc[t] \notin {"pending", "skipped"} =>
      \A d \in TargetDeps(t) : pc[d] = "succeeded"

Rested == phase = "idle" => \A t \in Targets : pc[t] \in Terminal

\* What is on a stack has not run yet, except the top of one that unwinds.
NotYetRun ==
  /\ \A t \in Targets : ran[t] <= 1 /\ (ran[t] > 0 => loaded[t])
  /\ \A t \in Targets : pc[t] \in {"pending", "queued", "loading"} => ran[t] = 0
  /\ \A t \in Targets : \A i \in 1..Len(frames[t]) :
       i < Len(frames[t]) \/ pc[t] # "unwinding" => ran[frames[t][i].target] = 0

TaintsKept ==
  /\ phase = "idle" => clears = {}
  /\ clears \cap owed = {}
  /\ owed \subseteq tainted
  /\ phase = "building" => \A t \in owed \ misread : pc[t] \notin {"succeeded", "loading"}

RInv == /\ TypeOK /\ Stacks /\ Flights /\ Asked /\ DepsDone /\ Rested /\ NotYetRun

-----------------------------------------------------------------------------
(* Operations on stacks *)

\* The same frames, with perhaps less to do
Lighter(g, f) ==
  /\ g \in Seq(FrameSet)
  /\ Len(g) = Len(f)
  /\ \A i \in 1..Len(f) :
       g[i].target = f[i].target /\ g[i].todo \subseteq f[i].todo

\* A waiter, or the frame below, is done with d (EndRerun).
LEMMA DoneIsLighter ==
  ASSUME NEW f \in Seq(FrameSet), f # << >>, NEW d
  PROVE  Lighter([f EXCEPT ![Len(f)].todo = @ \ {d}], f)
<1> DEFINE g == [f EXCEPT ![Len(f)].todo = @ \ {d}]
<1>1. Len(f) \in 1..Len(f) /\ f[Len(f)] \in FrameSet
  OBVIOUS
<1>2. g = [f EXCEPT ![Len(f)] = [f[Len(f)] EXCEPT !.todo = @ \ {d}]]
  OBVIOUS
<1>3. [f[Len(f)] EXCEPT !.todo = @ \ {d}] \in FrameSet
  BY <1>1 DEF FrameSet
<1>4. g \in Seq(FrameSet) /\ Len(g) = Len(f)
  BY <1>1, <1>2, <1>3
<1>5. \A i \in 1..Len(f) :
        g[i].target = f[i].target /\ g[i].todo \subseteq f[i].todo
  BY <1>1, <1>2, <1>3 DEF FrameSet
<1> QED BY <1>4, <1>5 DEF Lighter

\* What popping the top frame leaves
LEMMA FrontOfStack ==
  ASSUME NEW f \in Seq(FrameSet), f # << >>
  PROVE  /\ Front(f) \in Seq(FrameSet)
         /\ Len(Front(f)) = Len(f) - 1
         /\ \A i \in 1..Len(f) - 1 : Front(f)[i] = f[i]
<1>1. Len(f) \in Nat /\ Len(f) > 0
  OBVIOUS
<1>2. \A i \in 1..Len(f) - 1 : f[i] \in FrameSet
  BY <1>1
<1> DEFINE n == Len(f) - 1
           g == SubSeq(f, 1, n)
<1>3. n \in Nat
  BY <1>1
<1> HIDE DEF n
<1>4. /\ g \in Seq(FrameSet)
      /\ Len(g) = IF 1 <= n THEN n - 1 + 1 ELSE 0
      /\ \A i \in 1..n - 1 + 1 : g[i] = f[1 + i - 1]
  BY <1>2, <1>3, SubSeqProperties DEF n
<1>5. Len(g) = n
  BY <1>3, <1>4
<1>6. \A i \in 1..n : g[i] = f[i]
  BY <1>3, <1>4
<1> QED BY <1>4, <1>5, <1>6 DEF Front, n

\* The top frame is done with d (Tick).
LEMMA TickIsLighter ==
  ASSUME NEW f \in Seq(FrameSet), f # << >>, NEW d
  PROVE  Lighter(Append(Front(f), [Last(f) EXCEPT !.todo = @ \ {d}]), f)
<1> DEFINE top == [f[Len(f)] EXCEPT !.todo = @ \ {d}]
           g == Append(Front(f), top)
<1>1. Len(f) \in 1..Len(f) /\ f[Len(f)] \in FrameSet
  OBVIOUS
<1>2. /\ top \in FrameSet /\ top.target = f[Len(f)].target
      /\ top.todo \subseteq f[Len(f)].todo
  BY <1>1 DEF FrameSet
<1> HIDE DEF top
<1>3. g \in Seq(FrameSet) /\ Len(g) = Len(f)
  BY <1>1, <1>2, FrontOfStack
<1>4. ASSUME NEW i \in 1..Len(f)
      PROVE  g[i].target = f[i].target /\ g[i].todo \subseteq f[i].todo
  <2>1. CASE i = Len(f)
    <3>1. g[i] = top
      BY <2>1, <1>1, <1>2, FrontOfStack
    <3> QED BY <3>1, <2>1, <1>2
  <2>2. CASE i # Len(f)
    <3>1. g[i] = f[i]
      BY <2>2, <1>1, <1>2, FrontOfStack
    <3> QED BY <3>1
  <2> QED BY <2>1, <2>2
<1>5. g = Append(Front(f), [Last(f) EXCEPT !.todo = @ \ {d}])
  BY DEF Last, top
<1> QED BY <1>3, <1>4, <1>5 DEF Lighter

-----------------------------------------------------------------------------
(* The invariant *)

\* The invariant holds before the first build.
LEMMA InitRInv == Init => RInv
<1> SUFFICES ASSUME Init PROVE RInv
  OBVIOUS
<1> USE OptionsAssumption
<1>1. TypeOK
  BY DEF Init, TypeOK, Stages, Terminal
<1>2. Stacks
  BY DEF Init, Stacks, StackOf
<1>3. Flights
  BY DEF Init, Flights
<1>4. Asked
  BY DEF Init, Asked
<1>5. DepsDone /\ Rested
  BY DEF Init, DepsDone, Rested, Terminal
<1>6. NotYetRun
  BY DEF Init, NotYetRun
<1> QED BY <1>1, <1>2, <1>3, <1>4, <1>5, <1>6 DEF RInv

\* What is known of a task with a stack
LEMMA TaskFacts ==
  ASSUME RInv, NEW t \in Targets,
         pc[t] \in {"deps", "asking", "joined", "running", "unwinding"}
  PROVE  /\ phase = "building"
         /\ frames[t] \in Seq(FrameSet) /\ frames[t] # << >>
         /\ Len(frames[t]) \in Nat /\ Len(frames[t]) \in 1..Len(frames[t])
         /\ Top(t) = frames[t][Len(frames[t])]
         /\ Top(t) \in FrameSet
         /\ Top(t).todo \subseteq TargetDeps(Cur(t))
         /\ Cur(t) \in Targets
         /\ Len(frames[t]) = 1 => Cur(t) = t
         /\ Len(frames[t]) > 1 =>
              pc[Cur(t)] = "succeeded" /\ flight[Cur(t)] = t
         /\ \A d \in TargetDeps(Cur(t)) : d \in Targets /\ pc[d] = "succeeded"
<1>1. phase = "building"
  BY DEF RInv, Rested, TypeOK, Terminal
<1>2. frames[t] \in Seq(FrameSet) /\ frames[t] # << >>
  BY DEF RInv, Stacks, StackOf, TypeOK
<1>3. Len(frames[t]) \in Nat /\ Len(frames[t]) \in 1..Len(frames[t])
  BY <1>2
<1>4. Top(t) = frames[t][Len(frames[t])]
  BY DEF Top, Last
<1>5. Top(t) \in FrameSet
  BY <1>2, <1>3, <1>4
<1>6. Cur(t) \in Targets
  BY <1>5 DEF Cur, FrameSet
<1>7. Top(t).todo \subseteq TargetDeps(Cur(t))
  BY <1>3, <1>4 DEF RInv, Stacks, StackOf, Cur
<1>8. Len(frames[t]) = 1 => Cur(t) = t
  BY <1>2, <1>4 DEF RInv, Stacks, StackOf, Cur
<1>9. Len(frames[t]) > 1 => pc[Cur(t)] = "succeeded" /\ flight[Cur(t)] = t
  <2> SUFFICES ASSUME Len(frames[t]) > 1
               PROVE  pc[Cur(t)] = "succeeded" /\ flight[Cur(t)] = t
    OBVIOUS
  <2>1. Len(frames[t]) \in 2..Len(frames[t])
    BY <1>3
  <2> QED BY <2>1, <1>4 DEF RInv, Flights, Cur
<1>10. \A d \in TargetDeps(Cur(t)) : d \in Targets /\ pc[d] = "succeeded"
  <2>1. pc[Cur(t)] \notin {"pending", "skipped"}
    <3>1. CASE Len(frames[t]) = 1
      BY <3>1, <1>8
    <3>2. CASE Len(frames[t]) > 1
      BY <3>2, <1>9
    <3>3. Len(frames[t]) = 1 \/ Len(frames[t]) > 1
      <4> DEFINE n == Len(frames[t])
      <4>1. n \in Nat /\ n \in 1..n
        BY <1>3
      <4> HIDE DEF n
      <4>2. n = 1 \/ n > 1
        BY <4>1
      <4> QED BY <4>2 DEF n
    <3> QED BY <3>1, <3>2, <3>3
  <2> QED BY <2>1, <1>1, <1>6 DEF RInv, DepsDone, TargetDeps
<1> QED BY <1>1, <1>2, <1>3, <1>4, <1>5, <1>6, <1>7, <1>8, <1>9, <1>10

-----------------------------------------------------------------------------
(* What steps do to the stacks *)

\* No frames make a stack.
LEMMA EmptyStack ==
  ASSUME NEW t \in Targets
  PROVE  StackOf(t, << >>)
<1>1. << >> \in Seq(FrameSet) /\ Len(<< >>) = 0
  OBVIOUS
<1>2. \A i \in 1..Len(<< >>) : FALSE
  BY <1>1
<1> QED BY <1>1, <1>2 DEF StackOf

\* A lighter stack is still one.
LEMMA LighterStack ==
  ASSUME NEW t \in Targets, NEW f, StackOf(t, f), NEW g, Lighter(g, f)
  PROVE  StackOf(t, g)
<1>1. Len(f) \in Nat /\ Len(g) = Len(f) /\ g \in Seq(FrameSet)
  BY DEF StackOf, Lighter
<1>2. g # << >> => f # << >> /\ 1 \in 1..Len(f)
  BY <1>1
<1> QED BY <1>1, <1>2 DEF StackOf, Lighter

\* So is one without its top frame.
LEMMA PoppedStack ==
  ASSUME NEW t \in Targets, NEW f, StackOf(t, f), f # << >>
  PROVE  StackOf(t, Front(f)) /\ Len(Front(f)) = Len(f) - 1
<1> DEFINE g == Front(f)
<1>1. /\ f \in Seq(FrameSet) /\ Len(f) \in Nat /\ Len(f) > 0
      /\ g \in Seq(FrameSet) /\ Len(g) = Len(f) - 1
      /\ \A i \in 1..Len(f) - 1 : g[i] = f[i]
  BY FrontOfStack DEF StackOf
<1> HIDE DEF g
<1>2. \A i \in 1..Len(g) : i \in 1..Len(f) /\ g[i] = f[i]
  BY <1>1
<1>3. g # << >> => 1 \in 1..Len(g)
  BY <1>1
<1>4. StackOf(t, g)
  BY <1>1, <1>2, <1>3 DEF StackOf
<1> QED BY <1>1, <1>4 DEF g

\* The first frame of a task makes one.
LEMMA FirstStack ==
  ASSUME NEW t \in Targets
  PROVE  /\ StackOf(t, <<Frame(t)>>)
         /\ Len(<<Frame(t)>>) = 1 /\ <<Frame(t)>>[1].target = t
<1>1. Frame(t) \in FrameSet /\ Frame(t).target = t
      /\ Frame(t).todo \subseteq TargetDeps(t)
  BY DEF Frame, FrameSet, TargetDeps
<1> QED BY <1>1 DEF StackOf

\* A dependency that is not yet on the stack can go on top.
LEMMA PushedStack ==
  ASSUME NEW t \in Targets, NEW f, StackOf(t, f), f # << >>,
         NEW d \in Targets, \A i \in 1..Len(f) : f[i].target # d
  PROVE  /\ StackOf(t, Append(f, Frame(d)))
         /\ Len(Append(f, Frame(d))) = Len(f) + 1
         /\ \A i \in 1..Len(f) : Append(f, Frame(d))[i] = f[i]
         /\ Append(f, Frame(d))[Len(f) + 1].target = d
<1>1. Frame(d) \in FrameSet /\ Frame(d).target = d
      /\ Frame(d).todo \subseteq TargetDeps(d)
  BY DEF Frame, FrameSet, TargetDeps
<1> DEFINE g == Append(f, Frame(d))
<1>2. f \in Seq(FrameSet) /\ Len(f) \in Nat /\ Len(f) > 0
  BY DEF StackOf
<1>3. /\ g \in Seq(FrameSet) /\ Len(g) = Len(f) + 1 /\ g[Len(f) + 1] = Frame(d)
      /\ \A i \in 1..Len(f) : g[i] = f[i]
  BY <1>1, <1>2
<1> HIDE DEF g
<1>4. \A i \in 1..Len(g) : i \in 1..Len(f) \/ i = Len(f) + 1
  BY <1>2, <1>3
<1>5. g[1].target = t
  BY <1>2, <1>3 DEF StackOf
<1>6. ASSUME NEW i \in 1..Len(g) PROVE g[i].todo \subseteq TargetDeps(g[i].target)
  BY <1>1, <1>3, <1>4 DEF StackOf
<1>7. ASSUME NEW i \in 1..Len(g), NEW j \in 1..Len(g),
             g[i].target = g[j].target
      PROVE  i = j
  BY <1>1, <1>3, <1>4, <1>7 DEF StackOf
<1>8. StackOf(t, g)
  BY <1>3, <1>5, <1>6, <1>7 DEF StackOf
<1> QED BY <1>1, <1>3, <1>8 DEF g

\* Whoever has a target on its stack is the only one to have it.
LEMMA OneOwner ==
  ASSUME Stacks, Flights, TypeOK,
         NEW t \in Targets, NEW i \in 1..Len(frames[t]),
         NEW u \in Targets, NEW j \in 1..Len(frames[u]),
         frames[t][i].target = frames[u][j].target
  PROVE  t = u
<1>1. /\ frames[t] \in Seq(FrameSet) /\ frames[u] \in Seq(FrameSet)
      /\ Len(frames[t]) \in Nat /\ Len(frames[u]) \in Nat
  BY DEF Stacks, StackOf
<1>2. (i = 1 \/ i \in 2..Len(frames[t])) /\ (j = 1 \/ j \in 2..Len(frames[u]))
  BY <1>1
<1>3. frames[t] # << >> /\ frames[u] # << >>
  BY <1>1
<1>4. /\ pc[t] \in {"deps", "asking", "joined", "running", "unwinding"}
      /\ pc[u] \in {"deps", "asking", "joined", "running", "unwinding"}
  BY <1>3 DEF TypeOK
<1>5. frames[t][1].target = t /\ frames[u][1].target = u
  BY <1>3 DEF Stacks, StackOf
<1>6. CASE i = 1 /\ j = 1
  BY <1>5, <1>6
<1>7. CASE i = 1 /\ j \in 2..Len(frames[u])
  <2>1. pc[frames[u][j].target] = "succeeded"
    BY <1>7 DEF Flights
  <2> QED BY <2>1, <1>4, <1>5, <1>7
<1>8. CASE i \in 2..Len(frames[t]) /\ j = 1
  <2>1. pc[frames[t][i].target] = "succeeded"
    BY <1>8 DEF Flights
  <2> QED BY <2>1, <1>4, <1>5, <1>8
<1>9. CASE i \in 2..Len(frames[t]) /\ j \in 2..Len(frames[u])
  <2>1. flight[frames[t][i].target] = t /\ flight[frames[u][j].target] = u
    BY <1>9 DEF Flights
  <2> QED BY <2>1
<1> QED BY <1>2, <1>6, <1>7, <1>8, <1>9

\* A step of a build: what succeeded stays so, a task sets out when its
\* dependencies are done, and a frame is an old one, a task's first, or that of
\* a dependency that was done, has not run, and is now in flight for the task.
Proceeds ==
  /\ phase = "building" /\ phase' = "building"
  /\ TypeOK' /\ Stacks' /\ Asked'
  /\ \A u \in Targets :
       /\ pc[u] = "succeeded" => pc'[u] = "succeeded"
       /\ pc'[u] \notin {"pending", "skipped"} =>
            \/ pc[u] \notin {"pending", "skipped"}
            \/ \A d \in TargetDeps(u) : pc[d] = "succeeded"
       /\ pc'[u] \in {"pending", "queued", "loading"} =>
            pc[u] \in {"pending", "queued", "loading"}

OldFrame(u, i) ==
  /\ i <= Len(frames[u]) /\ frames'[u][i].target = frames[u][i].target
  /\ i > 1 => flight'[frames[u][i].target] = flight[frames[u][i].target]

NewFrame(u, i) ==
  \/ /\ i = 1 /\ frames'[u][1].target = u
     /\ pc[u] \in {"pending", "queued", "loading"}
  \/ /\ pc[frames'[u][i].target] = "succeeded"
     /\ flight'[frames'[u][i].target] = u
     /\ ran[frames'[u][i].target] = 0

\* Such a step keeps what the invariant says of flights and stages.
LEMMA FlightsKept ==
  ASSUME RInv, Proceeds,
         \A u \in Targets : \A i \in 1..Len(frames'[u]) :
           OldFrame(u, i) \/ NewFrame(u, i)
  PROVE  Flights' /\ DepsDone' /\ Rested'
<1>1. ASSUME NEW u \in Targets, NEW i \in 2..Len(frames'[u])
      PROVE  /\ pc'[frames'[u][i].target] = "succeeded"
             /\ flight'[frames'[u][i].target] = u
  <2>0. /\ frames'[u] \in Seq(FrameSet) /\ Len(frames'[u]) \in Nat
        /\ frames[u] \in Seq(FrameSet) /\ Len(frames[u]) \in Nat
    BY DEF Proceeds, RInv, Stacks, StackOf
  <2>1. i \in 1..Len(frames'[u]) /\ i > 1 /\ frames'[u][i].target \in Targets
    <3> DEFINE n == Len(frames'[u])
    <3>1. n \in Nat /\ i \in 2..n
      BY <2>0
    <3> HIDE DEF n
    <3>2. i \in 1..n /\ i > 1
      BY <3>1
    <3>3. i \in 1..Len(frames'[u])
      BY <3>2 DEF n
    <3>4. frames'[u][i] \in FrameSet
      BY <2>0, <3>3
    <3> QED BY <3>2, <3>3, <3>4 DEF FrameSet
  <2>2. CASE OldFrame(u, i)
    <3>1. i \in 2..Len(frames[u])
      BY <2>0, <2>1, <2>2 DEF OldFrame
    <3>2. pc[frames[u][i].target] = "succeeded" /\ flight[frames[u][i].target] = u
      BY <3>1 DEF RInv, Flights
    <3> QED BY <3>2, <2>1, <2>2 DEF OldFrame, Proceeds
  <2>3. CASE NewFrame(u, i)
    BY <2>1, <2>3 DEF NewFrame, Proceeds
  <2> QED BY <2>1, <2>2, <2>3
<1>2. Flights'
  BY <1>1 DEF Flights
<1>3. DepsDone'
  <2>1. ASSUME NEW t \in Targets, pc'[t] \notin {"pending", "skipped"},
               NEW d \in TargetDeps(t)
        PROVE  pc'[d] = "succeeded"
    <3>1. d \in Targets
      BY DEF TargetDeps
    <3>2. pc[d] = "succeeded"
      BY <2>1 DEF Proceeds, RInv, DepsDone
    <3> QED BY <3>1, <3>2 DEF Proceeds
  <2> QED BY <2>1 DEF DepsDone
<1>4. Rested'
  BY DEF Proceeds, Rested
<1> QED BY <1>2, <1>3, <1>4

\* A step that runs nothing
LEMMA NotYetRunKept ==
  ASSUME RInv, Proceeds,
         \A u \in Targets : \A i \in 1..Len(frames'[u]) :
           OldFrame(u, i) \/ NewFrame(u, i),
         ran' = ran, \A u \in Targets : loaded[u] => loaded'[u],
         \A u \in Targets : pc[u] = "unwinding" =>
           \/ pc'[u] = "unwinding" /\ Len(frames'[u]) <= Len(frames[u])
           \/ Len(frames'[u]) < Len(frames[u])
  PROVE  NotYetRun'
<1>1. \A t \in Targets : ran'[t] <= 1 /\ (ran'[t] > 0 => loaded'[t])
  BY DEF RInv, NotYetRun
<1>2. \A t \in Targets :
        pc'[t] \in {"pending", "queued", "loading"} => ran'[t] = 0
  BY DEF RInv, NotYetRun, Proceeds
<1>3. ASSUME NEW u \in Targets, NEW i \in 1..Len(frames'[u]),
             i < Len(frames'[u]) \/ pc'[u] # "unwinding"
      PROVE  ran'[frames'[u][i].target] = 0
  <2>0. /\ frames'[u] \in Seq(FrameSet) /\ Len(frames'[u]) \in Nat
        /\ frames[u] \in Seq(FrameSet) /\ Len(frames[u]) \in Nat
    BY DEF Proceeds, RInv, Stacks, StackOf
  <2>1. CASE OldFrame(u, i)
    <3>1. i \in 1..Len(frames[u])
      BY <2>0, <2>1 DEF OldFrame
    <3>2. i < Len(frames[u]) \/ pc[u] # "unwinding"
      <4>1. CASE /\ pc[u] = "unwinding" /\ pc'[u] = "unwinding"
                 /\ Len(frames'[u]) <= Len(frames[u])
        BY <4>1, <1>3, <2>0, <3>1
      <4>2. CASE pc[u] = "unwinding" /\ Len(frames'[u]) < Len(frames[u])
        BY <4>2, <2>0, <3>1
      <4>3. CASE pc[u] # "unwinding"
        BY <4>3
      <4> QED BY <4>1, <4>2, <4>3
    <3> QED BY <3>1, <3>2, <2>1 DEF RInv, NotYetRun, OldFrame
  <2>2. CASE NewFrame(u, i)
    BY <2>2 DEF RInv, NotYetRun, NewFrame
  <2> QED BY <2>1, <2>2
<1> QED BY <1>1, <1>2, <1>3 DEF NotYetRun

-----------------------------------------------------------------------------
(* Steps outside of the tasks *)

\* None of these touches the tasks.
LEMMA OtherStepsKeepRInv ==
  ASSUME RInv,
         \/ \E t \in Targets : Edit(t) \/ Taint(t) \/ ClearTaint(t)
         \/ Checkout \/ Evict
         \/ \E w \in writes : Commit(w) \/ CommitFails(w)
  PROVE  RInv'
<1>1. UNCHANGED <<buildVars, pc, targetVars, taskVars>>
  BY DEF Edit, Taint, ClearTaint, Checkout, Evict, Commit, CommitFails
<1>2. /\ source' \in [Targets -> Sources] /\ tainted' \subseteq Targets
      /\ owed' \subseteq Targets
      /\ warm' \in {"cold", "open", "warm", "lost"} /\ clears' \subseteq Targets
  <2> USE DEF RInv, TypeOK, Cool, userVars, ioVars
  <2>1. CASE \E t \in Targets : Edit(t)
    BY <2>1 DEF Edit
  <2>2. CASE \E t \in Targets : Taint(t)
    BY <2>2 DEF Taint
  <2>3. CASE \E t \in Targets : ClearTaint(t)
    BY <2>3 DEF ClearTaint
  <2>4. CASE Checkout
    BY <2>4 DEF Checkout
  <2>5. CASE Evict
    BY <2>5 DEF Evict
  <2>6. CASE \E w \in writes : Commit(w)
    BY <2>6 DEF Commit
  <2>7. CASE \E w \in writes : CommitFails(w)
    BY <2>7 DEF CommitFails
  <2> QED BY <2>1, <2>2, <2>3, <2>4, <2>5, <2>6, <2>7
<1>3. TypeOK'
  BY <1>1, <1>2 DEF RInv, TypeOK, buildVars, targetVars, taskVars
<1>4. Stacks' /\ Flights'
  BY <1>1 DEF RInv, Stacks, Flights, buildVars, targetVars, taskVars
<1>5. Asked' /\ DepsDone' /\ Rested'
  BY <1>1 DEF RInv, Asked, DepsDone, Rested, Cur, Top, buildVars, targetVars,
              taskVars
<1>6. NotYetRun'
  BY <1>1 DEF RInv, NotYetRun, buildVars, targetVars, taskVars
<1> QED BY <1>3, <1>4, <1>5, <1>6 DEF RInv

\* Where no task is under way there is no stack.
LEMMA NoTasksIsFine ==
  ASSUME TypeOK', NEW stage, NoTasks(stage), stage \in {"pending", "skipped"},
         phase' = "idle" => stage = "skipped",
         \A t \in Targets : ran'[t] <= 1 /\ (ran'[t] > 0 => loaded'[t]),
         stage = "pending" => \A t \in Targets : ran'[t] = 0
  PROVE  RInv'
<1>1. /\ pc' = [t \in Targets |-> stage]
      /\ DOMAIN frames' = Targets /\ \A t \in Targets : frames'[t] = << >>
  BY DEF NoTasks
<1>2. Stacks' /\ Flights'
  <2>1. ASSUME NEW t \in Targets PROVE StackOf(t, frames'[t])
    BY <1>1, EmptyStack
  <2>2. \A t \in Targets : Len(frames'[t]) = 0
    BY <1>1
  <2>3. \A t \in Targets : \A i \in 2..Len(frames'[t]) : FALSE
    BY <2>2
  <2> QED BY <1>1, <2>1, <2>3 DEF Stacks, Flights
<1>3. Asked' /\ DepsDone' /\ Rested'
  BY <1>1 DEF Asked, DepsDone, Rested, Terminal
<1>4. NotYetRun'
  BY <1>1 DEF NotYetRun
<1> QED BY <1>2, <1>3, <1>4 DEF RInv

\* A new build has no stacks and has run nothing.
LEMMA StartBuildKeepsRInv ==
  ASSUME RInv, StartBuild PROVE RInv'
<1>1. TypeOK'
  BY DEF RInv, TypeOK, StartBuild, NoTasks, Stages, userVars, ioVars
<1>2. NoTasks("pending") /\ phase' = "building" /\ ran' = [t \in Targets |-> 0]
  BY DEF StartBuild
<1> QED BY <1>1, <1>2, NoTasksIsFine

\* A crash takes the stacks with it.
LEMMA CrashKeepsRInv ==
  ASSUME RInv, Crash PROVE RInv'
<1>1. TypeOK'
  BY DEF RInv, TypeOK, Crash, Cool, NoTasks, Stages, Terminal, userVars,
         targetVars
<1>2. NoTasks("skipped") /\ phase' = "idle" /\ ran' = ran /\ loaded' = loaded
  BY DEF Crash, targetVars
<1> QED BY <1>1, <1>2, NoTasksIsFine DEF RInv, NotYetRun

\* The end of a build changes no task.
LEMMA EndBuildKeepsRInv ==
  ASSUME RInv, EndBuild PROVE RInv'
<1>1. warm' \in {"cold", "open", "warm", "lost"}
  <2>1. warm' \in {warm, "warm", "cold"}
    BY DEF EndBuild
  <2> QED BY <2>1 DEF RInv, TypeOK
<1>2. /\ phase' = "idle" /\ \A t \in Targets : pc[t] \in Terminal
      /\ misread' = {} /\ clears' = {}
      /\ UNCHANGED <<userVars, mode, cacheOn, async, pc, targetVars, taskVars>>
  BY DEF EndBuild
<1>3. TypeOK'
  BY <1>1, <1>2 DEF RInv, TypeOK, userVars, targetVars, taskVars
<1>4. Stacks' /\ Flights'
  BY <1>2 DEF RInv, Stacks, Flights, targetVars, taskVars
<1>5. Asked' /\ DepsDone' /\ Rested'
  BY <1>2 DEF RInv, Asked, DepsDone, Rested, Cur, Top, targetVars, taskVars
<1>6. NotYetRun'
  BY <1>2 DEF RInv, NotYetRun, targetVars, taskVars
<1> QED BY <1>3, <1>4, <1>5, <1>6 DEF RInv

-----------------------------------------------------------------------------
(* Steps of a task that leave the stacks alone *)

\* A step that moves no stack and runs nothing keeps the invariant.
LEMMA StillFrames ==
  ASSUME RInv, phase = "building", phase' = "building", TypeOK', Asked',
         UNCHANGED <<frames, flight, ran>>,
         \A u \in Targets : loaded[u] => loaded'[u],
         \A u \in Targets :
           /\ pc[u] \in {"succeeded", "unwinding"} => pc'[u] = pc[u]
           /\ pc'[u] \notin {"pending", "skipped"} =>
                \/ pc[u] \notin {"pending", "skipped"}
                \/ \A d \in TargetDeps(u) : pc[d] = "succeeded"
           /\ pc'[u] \in {"pending", "queued", "loading"} =>
                pc[u] \in {"pending", "queued", "loading"}
  PROVE  RInv'
<1>1. Stacks'
  BY DEF RInv, Stacks
<1>2. Proceeds
  BY <1>1 DEF Proceeds
<1>3. ASSUME NEW u \in Targets
      PROVE  Len(frames[u]) \in Nat /\ \A i \in 1..Len(frames[u]) : OldFrame(u, i)
  BY DEF RInv, Stacks, StackOf, OldFrame
<1>4. Flights' /\ DepsDone' /\ Rested'
  BY <1>2, <1>3, FlightsKept
<1>5. NotYetRun'
  BY <1>2, <1>3, NotYetRunKept
<1> QED BY <1>1, <1>2, <1>4, <1>5 DEF RInv, Proceeds

\* The invariant is kept when the walk leaves a target out,
LEMMA SkipKeepsRInv ==
  ASSUME RInv, NEW t \in Targets, Skip(t) PROVE RInv'
<1>1. TypeOK'
  BY DEF RInv, TypeOK, Skip, Stages, Terminal, userVars, buildVars, targetVars,
         taskVars, ioVars
<1>2. Asked'
  BY DEF RInv, TypeOK, Asked, Skip, Cur, Top, taskVars
<1> QED BY <1>1, <1>2, StillFrames
        DEF Skip, RInv, TypeOK, buildVars, targetVars, taskVars

\* when a task sets out,
LEMMA SetChangeHashKeepsRInv ==
  ASSUME RInv, NEW t \in Targets, SetChangeHash(t) PROVE RInv'
<1>1. TypeOK'
  BY DEF RInv, TypeOK, SetChangeHash, Stages, Terminal, userVars, buildVars,
         taskVars, ioVars
<1>2. Asked'
  BY DEF RInv, TypeOK, Asked, SetChangeHash, Cur, Top, taskVars
<1> QED BY <1>1, <1>2, StillFrames
        DEF SetChangeHash, WalkDeps, RInv, TypeOK, buildVars, taskVars

\* when the outputs of a hit are loaded,
LEMMA LoadHitKeepsRInv ==
  ASSUME RInv, NEW t \in Targets, LoadHit(t) PROVE RInv'
<1>0. phase = "building"
  BY DEF RInv, TypeOK, Rested, Terminal, LoadHit
<1>1. TypeOK'
  BY DEF RInv, TypeOK, LoadHit, LoadOutputs, Stages, Terminal, userVars,
         buildVars, taskVars, ioVars
<1>2. Asked'
  BY DEF RInv, TypeOK, Asked, LoadHit, Cur, Top, taskVars
<1> QED BY <1>0, <1>1, <1>2, StillFrames
        DEF LoadHit, LoadOutputs, RInv, TypeOK, buildVars, taskVars

\* when a task joins a rerun,
LEMMA JoinRerunKeepsRInv ==
  ASSUME RInv, NEW t \in Targets, JoinRerun(t) PROVE RInv'
<1>0. phase = "building"
  BY DEF RInv, TypeOK, Rested, Terminal, JoinRerun
<1>1. TypeOK'
  BY DEF RInv, TypeOK, JoinRerun, Stages, userVars, buildVars, targetVars,
         taskVars, ioVars
<1>2. Asked'
  BY DEF RInv, TypeOK, Asked, JoinRerun, Cur, Top, taskVars
<1> QED BY <1>0, <1>1, <1>2, StillFrames
        DEF JoinRerun, RInv, TypeOK, buildVars, targetVars, taskVars

\* when a command starts,
LEMMA StartCommandKeepsRInv ==
  ASSUME RInv, NEW t \in Targets, StartCommand(t) PROVE RInv'
<1>0. phase = "building"
  BY DEF RInv, TypeOK, Rested, Terminal, StartCommand
<1>1. TypeOK'
  BY DEF RInv, TypeOK, StartCommand, Stages, userVars, buildVars, targetVars,
         taskVars, ioVars
<1>2. Asked'
  BY DEF RInv, TypeOK, Asked, StartCommand, Cur, Top, taskVars
<1> QED BY <1>0, <1>1, <1>2, StillFrames
        DEF StartCommand, RInv, TypeOK, buildVars, targetVars, taskVars

\* when it fails,
LEMMA CommandFailsKeepsRInv ==
  ASSUME RInv, NEW t \in Targets, CommandFails(t) PROVE RInv'
<1>0. phase = "building"
  BY DEF RInv, TypeOK, Rested, Terminal, CommandFails
<1>1. TypeOK'
  BY DEF RInv, TypeOK, CommandFails, Stages, userVars, buildVars, targetVars,
         taskVars, ioVars
<1>2. Asked'
  BY DEF RInv, TypeOK, Asked, CommandFails, Cur, Top, taskVars
<1> QED BY <1>0, <1>1, <1>2, StillFrames
        DEF CommandFails, RInv, TypeOK, buildVars, targetVars, taskVars

\* and when the outputs of a dependency do not load.
LEMMA LoadDepFailsKeepsRInv ==
  ASSUME RInv, NEW t \in Targets, NEW d \in Targets, LoadDepFails(t, d)
  PROVE  RInv'
<1>0. phase = "building"
  BY DEF RInv, TypeOK, Rested, Terminal, LoadDepFails
<1>1. TypeOK'
  BY DEF RInv, TypeOK, LoadDepFails, Cool, Stages, userVars, buildVars,
         targetVars, ioVars
<1>2. d \in TargetDeps(Cur(t))
  BY TaskFacts DEF LoadDepFails
<1>3. Asked'
  BY <1>2 DEF RInv, TypeOK, Asked, LoadDepFails, Cur, Top
<1> QED BY <1>0, <1>1, <1>3, StillFrames
        DEF LoadDepFails, RInv, TypeOK, buildVars, targetVars

-----------------------------------------------------------------------------
(* Steps of a task that move its stack *)

\* A step that moves stacks and runs nothing keeps the invariant.
LEMMA MovedFrames ==
  ASSUME RInv, Proceeds,
         \A u \in Targets : \A i \in 1..Len(frames'[u]) :
           OldFrame(u, i) \/ NewFrame(u, i),
         ran' = ran, \A u \in Targets : loaded[u] => loaded'[u],
         \A u \in Targets : pc[u] = "unwinding" =>
           \/ pc'[u] = "unwinding" /\ Len(frames'[u]) <= Len(frames[u])
           \/ Len(frames'[u]) < Len(frames[u])
  PROVE  RInv'
<1>1. Flights' /\ DepsDone' /\ Rested'
  BY FlightsKept
<1>2. NotYetRun'
  BY NotYetRunKept
<1> QED BY <1>1, <1>2 DEF RInv, Proceeds

\* A target that is about to be looked up is executed instead.
LEMMA ExecuteKeepsRInv ==
  ASSUME RInv, NEW t \in Targets, pc[t] \in {"queued", "loading"}, Execute(t),
         TypeOK', UNCHANGED <<phase, dep, flight, ran>>,
         \A u \in Targets : loaded[u] => loaded'[u]
  PROVE  RInv'
<1>1. phase = "building" /\ pc \in [Targets -> Stages]
  BY DEF RInv, TypeOK, Rested, Terminal
<1>2. /\ pc' = [pc EXCEPT ![t] = "deps"]
      /\ frames' = [frames EXCEPT ![t] = <<Frame(t)>>]
  BY DEF Execute
<1>3. /\ DOMAIN frames' = Targets /\ frames'[t] = <<Frame(t)>>
      /\ \A u \in Targets \ {t} : frames'[u] = frames[u] /\ pc'[u] = pc[u]
  BY <1>1, <1>2 DEF RInv, Stacks
<1>4. Stacks'
  BY <1>3, FirstStack DEF RInv, Stacks
<1>5. Asked'
  BY <1>1, <1>2, <1>3 DEF RInv, Asked, Cur, Top
<1>6. Proceeds
  BY <1>1, <1>2, <1>4, <1>5 DEF Proceeds
<1>7. ASSUME NEW u \in Targets, NEW i \in 1..Len(frames'[u])
      PROVE  OldFrame(u, i) \/ NewFrame(u, i)
  <2>1. CASE u = t
    <3>1. i = 1 /\ frames'[t][1].target = t
      BY <2>1, <1>3, FirstStack
    <3> QED BY <2>1, <3>1 DEF NewFrame
  <2>2. CASE u # t
    <3>1. frames'[u] = frames[u] /\ Len(frames[u]) \in Nat
      BY <2>2, <1>3 DEF RInv, Stacks, StackOf
    <3> QED BY <3>1 DEF OldFrame
  <2> QED BY <2>1, <2>2
<1>8. ASSUME NEW u \in Targets, pc[u] = "unwinding"
      PROVE  pc'[u] = "unwinding" /\ Len(frames'[u]) <= Len(frames[u])
  <2>1. frames'[u] = frames[u] /\ Len(frames[u]) \in Nat /\ pc'[u] = pc[u]
    BY <1>3, <1>8 DEF RInv, Stacks, StackOf
  <2> QED BY <2>1, <1>8
<1> QED BY <1>6, <1>7, <1>8, MovedFrames

\* The types after Execute
LEMMA ExecuteTypes ==
  ASSUME RInv, NEW t \in Targets, Execute(t)
  PROVE  /\ pc' \in [Targets -> Stages]
         /\ \A u \in Targets :
              (frames'[u] # << >>) <=>
                (pc'[u] \in {"deps", "asking", "joined", "running", "unwinding"})
<1>1. pc' = [pc EXCEPT ![t] = "deps"] /\ pc \in [Targets -> Stages]
  BY DEF Execute, RInv, TypeOK
<1>2. /\ frames'[t] = <<Frame(t)>>
      /\ \A u \in Targets \ {t} : frames'[u] = frames[u]
  BY DEF Execute, RInv, Stacks
<1>3. frames'[t] # << >>
  BY <1>2
<1>4. pc' \in [Targets -> Stages]
  BY <1>1 DEF Stages
<1> QED BY <1>1, <1>2, <1>3, <1>4 DEF RInv, TypeOK

\* A hit that does not load is executed.
LEMMA LoadHitFailsKeepsRInv ==
  ASSUME RInv, NEW t \in Targets, LoadHitFails(t) PROVE RInv'
<1>1. TypeOK'
  <2>1. Execute(t)
    BY DEF LoadHitFails
  <2>2. warm' \in {"cold", "open", "warm", "lost"}
    BY DEF LoadHitFails, Cool, RInv, TypeOK
  <2> QED BY <2>1, <2>2, ExecuteTypes DEF RInv, TypeOK, LoadHitFails,
                            userVars, buildVars, targetVars, ioVars
<1> QED BY <1>1, ExecuteKeepsRInv DEF LoadHitFails, buildVars, targetVars

\* A task goes by the taint it has read, and by a result unless that could not be
\* read, which cools the cache.
LEMMA CheckCacheDecides ==
  ASSUME NEW t \in Targets, CheckCache(t)
  PROVE  /\ pc[t] = "queued" /\ misread \subseteq misread' /\ misread' \subseteq misread \cup {t}
         /\ UNCHANGED <<userVars, workspace, cacheVars, phase, mode, cacheOn, async, changeHash,
                        loaded, dep, flight, ran, ioVars>>
         /\ warm' = warm \/ Cool
         /\ \E isTainted \in BOOLEAN :
              /\ wasTainted' = [wasTainted EXCEPT ![t] = isTainted]
              /\ isTainted \/ t \notin tainted \/ t \in misread'
              /\ \/ /\ IsHit(t, isTainted) /\ mode = "minimal" /\ UNCHANGED <<frames, warm>>
                    /\ pc' = [pc EXCEPT ![t] = "succeeded"]
                 \/ /\ IsHit(t, isTainted) /\ mode = "all" /\ UNCHANGED <<frames, outputHash, warm>>
                    /\ pc' = [pc EXCEPT ![t] = "loading"]
                 \/ /\ Execute(t) /\ UNCHANGED outputHash
                    /\ ~IsHit(t, isTainted) \/ Cool
<1> DEFINE Outcome(isTainted) ==
              /\ wasTainted' = [wasTainted EXCEPT ![t] = isTainted]
              /\ isTainted \/ t \notin tainted \/ t \in misread'
              /\ \/ /\ IsHit(t, isTainted) /\ mode = "minimal" /\ UNCHANGED <<frames, warm>>
                    /\ pc' = [pc EXCEPT ![t] = "succeeded"]
                 \/ /\ IsHit(t, isTainted) /\ mode = "all" /\ UNCHANGED <<frames, outputHash, warm>>
                    /\ pc' = [pc EXCEPT ![t] = "loading"]
                 \/ /\ Execute(t) /\ UNCHANGED outputHash
                    /\ ~IsHit(t, isTainted) \/ Cool
           seen == t \in tainted
<1>1. CASE Decide(t, t \in tainted) /\ UNCHANGED <<warm, budget, misread>>
  <2>1. seen \in BOOLEAN /\ Outcome(seen)
    BY <1>1 DEF Decide
  <2> QED BY <1>1, <2>1 DEF CheckCache
<1>2. CASE TaintUnread(t)
  <2>1. FALSE \in BOOLEAN /\ Outcome(FALSE) /\ misread' = misread \cup {t} /\ UNCHANGED warm
    BY <1>2 DEF TaintUnread, Decide
  <2> QED BY <2>1 DEF CheckCache
<1>3. CASE ResultUnread(t)
  <2>1. seen \in BOOLEAN /\ Outcome(seen) /\ misread' = misread /\ Cool
    BY <1>3 DEF ResultUnread
  <2> QED BY <2>1 DEF CheckCache
<1> QED BY <1>1, <1>2, <1>3 DEF CheckCache

\* The cache is looked up, and a miss executed.
LEMMA CheckCacheKeepsRInv ==
  ASSUME RInv, NEW t \in Targets, CheckCache(t) PROVE RInv'
<1>0. phase = "building" /\ pc[t] = "queued"
  BY CheckCacheDecides DEF RInv, TypeOK, Rested, Terminal
<1>1. /\ wasTainted' \in [Targets -> BOOLEAN]
      /\ warm' \in {"cold", "open", "warm", "lost"} /\ misread' \subseteq Targets
      /\ UNCHANGED <<userVars, phase, mode, cacheOn, async, loaded, dep, flight, ran, ioVars>>
  BY CheckCacheDecides DEF RInv, TypeOK, Cool
<1>2. \/ pc' = [pc EXCEPT ![t] = "succeeded"] /\ UNCHANGED frames
      \/ pc' = [pc EXCEPT ![t] = "loading"] /\ UNCHANGED frames
      \/ Execute(t)
  BY CheckCacheDecides
<1>3. CASE \/ pc' = [pc EXCEPT ![t] = "succeeded"] /\ UNCHANGED frames
           \/ pc' = [pc EXCEPT ![t] = "loading"] /\ UNCHANGED frames
  <2>1. TypeOK'
    BY <1>0, <1>1, <1>3 DEF RInv, TypeOK, Stages, Terminal, userVars, ioVars
  <2>2. Asked'
    BY <1>0, <1>1, <1>3 DEF RInv, TypeOK, Asked, Cur, Top
  <2> QED BY <1>0, <1>1, <1>3, <2>1, <2>2, StillFrames DEF RInv, TypeOK
<1>4. CASE Execute(t)
  <2>1. TypeOK'
    BY <1>1, <1>4, ExecuteTypes DEF RInv, TypeOK, userVars, ioVars
  <2> QED BY <1>0, <1>1, <1>4, <2>1, ExecuteKeepsRInv
<1> QED BY <1>2, <1>3, <1>4

\* A frame of task t loses some of what it has to do.
LEMMA TickFacts ==
  ASSUME RInv, NEW t \in Targets, pc[t] \in {"deps", "asking"}, NEW d,
         Tick(t, d)
  PROVE  /\ Stacks'
         /\ \A u \in Targets :
              /\ Len(frames[u]) \in Nat /\ Len(frames'[u]) = Len(frames[u])
              /\ (frames'[u] # << >>) <=> (frames[u] # << >>)
              /\ u # t => frames'[u] = frames[u]
              /\ \A i \in 1..Len(frames[u]) :
                   frames'[u][i].target = frames[u][i].target
<1>1. frames[t] \in Seq(FrameSet) /\ frames[t] # << >>
  BY TaskFacts
<1>2. /\ DOMAIN frames' = Targets
      /\ frames'[t] = Append(Front(frames[t]),
                             [Last(frames[t]) EXCEPT !.todo = @ \ {d}])
      /\ \A u \in Targets \ {t} : frames'[u] = frames[u]
  BY DEF Tick, Top, RInv, Stacks
<1>3. Lighter(frames'[t], frames[t])
  BY <1>1, <1>2, TickIsLighter
<1>4. Stacks'
  BY <1>2, <1>3, LighterStack DEF RInv, Stacks
<1>5. ASSUME NEW u \in Targets
      PROVE  /\ Len(frames[u]) \in Nat /\ Len(frames'[u]) = Len(frames[u])
             /\ (frames'[u] # << >>) <=> (frames[u] # << >>)
             /\ \A i \in 1..Len(frames[u]) :
                  frames'[u][i].target = frames[u][i].target
  <2>1. frames[u] \in Seq(FrameSet) /\ frames'[u] \in Seq(FrameSet)
    BY <1>4 DEF RInv, Stacks, StackOf
  <2>2. CASE u = t
    BY <2>1, <2>2, <1>3 DEF Lighter
  <2>3. CASE u # t
    BY <2>1, <2>3, <1>2
  <2> QED BY <2>2, <2>3
<1> QED BY <1>2, <1>4, <1>5

\* The invariant is kept when a task is done with a dependency,
LEMMA TickKeepsRInv ==
  ASSUME RInv, NEW t \in Targets, pc[t] \in {"deps", "asking"}, NEW d,
         Tick(t, d), TypeOK', UNCHANGED <<phase, flight, ran>>,
         pc' = [pc EXCEPT ![t] = "deps"],
         \A u \in Targets \ {t} : dep'[u] = dep[u],
         \A u \in Targets : loaded[u] => loaded'[u]
  PROVE  RInv'
<1>1. phase = "building" /\ pc \in [Targets -> Stages]
  BY DEF RInv, TypeOK, Rested, Terminal
<1>2. Asked'
  <2> SUFFICES ASSUME NEW u \in Targets, pc'[u] \in {"asking", "joined"}
               PROVE  dep'[u] \in TargetDeps(Cur(u)')
    BY DEF Asked
  <2>1. u # t /\ pc[u] \in {"asking", "joined"}
    BY <1>1
  <2>2. frames'[u] = frames[u]
    BY <2>1, TickFacts
  <2>3. Cur(u)' = Cur(u)
    BY <2>2 DEF Cur, Top
  <2> QED BY <2>1, <2>3 DEF RInv, Asked
<1>3. Proceeds
  BY <1>1, <1>2, TickFacts DEF Proceeds
<1>4. \A u \in Targets : \A i \in 1..Len(frames'[u]) : OldFrame(u, i)
  BY TickFacts DEF OldFrame
<1>5. ASSUME NEW u \in Targets, pc[u] = "unwinding"
      PROVE  pc'[u] = "unwinding" /\ Len(frames'[u]) <= Len(frames[u])
  BY <1>1, <1>5, TickFacts
<1> QED BY <1>3, <1>4, <1>5, MovedFrames

\* which was loaded already,
LEMMA DepIsLoadedKeepsRInv ==
  ASSUME RInv, NEW t \in Targets, NEW d \in Targets, DepIsLoaded(t, d)
  PROVE  RInv'
<1>1. Tick(t, d) /\ pc[t] = "deps"
  BY DEF DepIsLoaded
<1>2. TypeOK'
  BY <1>1, TickFacts DEF RInv, TypeOK, DepIsLoaded, userVars, buildVars,
                         targetVars, ioVars
<1> QED BY <1>1, <1>2, TickKeepsRInv
        DEF DepIsLoaded, buildVars, targetVars, RInv, TypeOK

\* or is loaded now.
LEMMA LoadDepKeepsRInv ==
  ASSUME RInv, NEW t \in Targets, NEW d \in Targets, LoadDep(t, d)
  PROVE  RInv'
<1>1. Tick(t, d) /\ pc[t] = "deps"
  BY DEF LoadDep
<1>2. TypeOK'
  BY <1>1, TickFacts DEF RInv, TypeOK, LoadDep, LoadOutputs, userVars,
                         buildVars, ioVars
<1>3. \A u \in Targets : loaded[u] => loaded'[u]
  BY DEF LoadDep, LoadOutputs, RInv, TypeOK
<1> QED BY <1>1, <1>2, <1>3, TickKeepsRInv DEF LoadDep, buildVars, RInv, TypeOK

\* A rerun puts a dependency on the stack that is on no other.
LEMMA StartRerunKeepsRInv ==
  ASSUME RInv, NEW t \in Targets, StartRerun(t) PROVE RInv'
<1> DEFINE d == dep[t]
<1>1. /\ pc[t] = "asking" /\ flight[d] = None
      /\ pc' = [pc EXCEPT ![t] = "deps"]
      /\ dep' = [dep EXCEPT ![t] = None]
      /\ UNCHANGED <<userVars, warm, buildVars, targetVars, wasTainted, ran,
                     ioVars>>
  BY DEF StartRerun
<1>2. /\ phase = "building" /\ d \in Targets /\ pc[d] = "succeeded"
      /\ frames[t] \in Seq(FrameSet) /\ frames[t] # << >>
  BY <1>1, TaskFacts DEF RInv, Asked
<1>3. CASE Tick(t, d) /\ UNCHANGED flight
  <2>1. TypeOK'
    BY <1>1, <1>3, TickFacts DEF RInv, TypeOK, Stages, userVars, buildVars,
                                 targetVars, ioVars
  <2>2. \A u \in Targets \ {t} : dep'[u] = dep[u]
    BY <1>1 DEF RInv, TypeOK
  <2> HIDE DEF d
  <2> QED BY <1>1, <1>3, <2>1, <2>2, TickKeepsRInv DEF buildVars, targetVars
<1>4. CASE /\ ~loaded[d]
           /\ flight' = [flight EXCEPT ![d] = t]
           /\ frames' = [frames EXCEPT ![t] = Append(@, Frame(d))]
  <2>1. \A i \in 1..Len(frames[t]) : frames[t][i].target # d
    <3> SUFFICES ASSUME NEW i \in 1..Len(frames[t]), frames[t][i].target = d
                 PROVE  FALSE
      OBVIOUS
    <3>1. Len(frames[t]) \in Nat
      BY <1>2
    <3>2. i = 1 \/ i \in 2..Len(frames[t])
      BY <3>1
    <3>3. CASE i = 1
      BY <3>3, <1>1, <1>2 DEF RInv, Stacks, StackOf
    <3>4. CASE i \in 2..Len(frames[t])
      <4>1. flight[d] = t
        BY <3>4 DEF RInv, Flights
      <4> QED BY <4>1, <1>1, OptionsAssumption
    <3> QED BY <3>2, <3>3, <3>4
  <2>2. /\ DOMAIN frames' = Targets
        /\ frames'[t] = Append(frames[t], Frame(d))
        /\ \A u \in Targets \ {t} : frames'[u] = frames[u]
    BY <1>4 DEF RInv, Stacks
  <2>3. /\ StackOf(t, frames'[t])
        /\ Len(frames[t]) \in Nat /\ Len(frames'[t]) = Len(frames[t]) + 1
        /\ \A i \in 1..Len(frames[t]) : frames'[t][i] = frames[t][i]
        /\ frames'[t][Len(frames[t]) + 1].target = d
    BY <1>2, <2>1, <2>2, PushedStack DEF RInv, Stacks
  <2>4. Stacks'
    BY <2>2, <2>3 DEF RInv, Stacks
  <2>5. frames'[t] # << >>
    BY <2>3
  <2>6. TypeOK'
    BY <1>1, <1>2, <1>4, <2>2, <2>5 DEF RInv, TypeOK, Stages, userVars,
                                        buildVars, targetVars, ioVars
  <2>7. Asked'
    BY <1>1, <2>2 DEF RInv, TypeOK, Asked, Cur, Top
  <2>8. Proceeds
    BY <1>1, <1>2, <2>4, <2>6, <2>7 DEF Proceeds, RInv, TypeOK, buildVars
  <2>9. ASSUME NEW u \in Targets, NEW i \in 1..Len(frames'[u])
        PROVE  OldFrame(u, i) \/ NewFrame(u, i)
    <3>1. CASE u = t /\ i = Len(frames[t]) + 1
      <4>1. ran[d] = 0
        BY <1>2, <1>4 DEF RInv, TypeOK, NotYetRun
      <4> QED BY <3>1, <4>1, <1>2, <1>4, <2>3 DEF NewFrame, RInv, TypeOK
    <3>2. CASE u = t /\ i # Len(frames[t]) + 1
      <4>1. i \in 1..Len(frames[t]) /\ frames'[t][i] = frames[t][i]
        BY <3>2, <2>3
      <4>2. flight'[frames[t][i].target] = flight[frames[t][i].target]
        BY <4>1, <2>1, <1>4 DEF RInv, TypeOK
      <4> QED BY <4>1, <4>2, <3>2, <2>3 DEF OldFrame
    <3>3. CASE u # t
      <4>1. frames'[u] = frames[u] /\ Len(frames[u]) \in Nat
        BY <3>3, <2>2 DEF RInv, Stacks, StackOf
      <4>2. i > 1 => flight'[frames[u][i].target] = flight[frames[u][i].target]
        <5> SUFFICES ASSUME i > 1, frames[u][i].target = d PROVE FALSE
          BY <1>4 DEF RInv, TypeOK
        <5>1. i \in 2..Len(frames[u])
          BY <4>1
        <5>2. flight[d] = u
          BY <5>1 DEF RInv, Flights
        <5> QED BY <5>2, <1>1, OptionsAssumption
      <4> QED BY <4>1, <4>2 DEF OldFrame
    <3> QED BY <3>1, <3>2, <3>3
  <2>10. ASSUME NEW u \in Targets, pc[u] = "unwinding"
         PROVE  pc'[u] = "unwinding" /\ Len(frames'[u]) <= Len(frames[u])
    <3>1. u # t /\ pc'[u] = pc[u]
      BY <1>1, <2>10 DEF RInv, TypeOK
    <3>2. frames'[u] = frames[u] /\ Len(frames[u]) \in Nat
      BY <3>1, <2>2 DEF RInv, Stacks, StackOf
    <3> QED BY <3>1, <3>2, <2>10
  <2> QED BY <1>1, <2>8, <2>9, <2>10, MovedFrames DEF targetVars
<1> QED BY <1>3, <1>4 DEF StartRerun, Late

-----------------------------------------------------------------------------
(* Steps that end a rerun or a task *)

\* What is on top of the stack of t is nowhere else.
LEMMA TopIsOwn ==
  ASSUME RInv, NEW t \in Targets, pc[t] \in {"running", "unwinding"},
         NEW u \in Targets, NEW i \in 1..Len(frames[u]),
         u # t \/ i < Len(frames[t])
  PROVE  frames[u][i].target # Cur(t)
<1>1. /\ Len(frames[t]) \in 1..Len(frames[t])
      /\ Cur(t) = frames[t][Len(frames[t])].target
  BY TaskFacts DEF Cur
<1>2. CASE u # t
  BY <1>1, <1>2, OneOwner DEF RInv
<1>3. CASE u = t /\ i < Len(frames[t])
  BY <1>1, <1>3 DEF RInv, Stacks, StackOf
<1> QED BY <1>2, <1>3

\* A popped or emptied stack, and those that wait for it
Ended(t) ==
  /\ DOMAIN frames' = Targets
  /\ \A u \in Targets : StackOf(u, frames'[u])
  /\ Len(frames'[t]) < Len(frames[t])
  /\ \A u \in Targets :
       /\ Len(frames[u]) \in Nat /\ Len(frames'[u]) \in Nat
       /\ Len(frames'[u]) <= Len(frames[u])
       /\ \A i \in 1..Len(frames'[u]) :
            frames'[u][i].target = frames[u][i].target
  /\ \A u \in Targets \ {t} :
       \/ /\ pc'[u] = pc[u] /\ frames'[u] = frames[u] /\ dep'[u] = dep[u]
       \/ /\ pc[u] = "joined" /\ pc'[u] \in {"deps", "unwinding"}
          /\ frames'[u] # << >>
  /\ \/ /\ pc'[t] \in {"deps", "unwinding"} /\ frames'[t] # << >>
     \/ /\ pc'[t] \in {"succeeded", "failed"} /\ frames'[t] = << >>
  /\ pc' \in [Targets -> Stages]
  /\ dep' \in [Targets -> Targets \cup {None}]
  /\ flight' \in [Targets -> Targets \cup {None}]
  /\ \A c \in Targets : c # Cur(t) => flight'[c] = flight[c]

\* The end of a rerun is one such step,
LEMMA EndRerunEnds ==
  ASSUME RInv, NEW t \in Targets, pc[t] \in {"running", "unwinding"},
         Len(frames[t]) > 1,
         NEW stage \in {"deps", "unwinding"}, EndRerun(t, stage)
  PROVE  Ended(t)
<1> DEFINE d == Cur(t)
           waits(u) == pc[u] = "joined" /\ dep[u] = d
           done(f) == [f EXCEPT ![Len(f)].todo = @ \ {d}]
<1>1. /\ d \in Targets /\ frames[t] \in Seq(FrameSet) /\ frames[t] # << >>
      /\ Len(frames[t]) \in Nat
  BY TaskFacts
<1>2. /\ flight' = [flight EXCEPT ![d] = None]
      /\ dep' = [u \in Targets |-> IF waits(u) THEN None ELSE dep[u]]
      /\ pc' = [u \in Targets |->
                  IF u = t \/ waits(u) THEN stage ELSE pc[u]]
  BY DEF EndRerun
<1>3. /\ DOMAIN frames' = Targets
      /\ frames'[t] = done(Front(frames[t]))
      /\ \A u \in Targets \ {t} :
           frames'[u] = IF waits(u) THEN done(frames[u]) ELSE frames[u]
  BY Zenon DEF EndRerun
<1>4. StackOf(t, frames[t])
  BY DEF RInv, Stacks
<1>5. /\ StackOf(t, Front(frames[t]))
      /\ Len(Front(frames[t])) = Len(frames[t]) - 1
      /\ \A i \in 1..Len(frames[t]) - 1 : Front(frames[t])[i] = frames[t][i]
  BY <1>1, <1>4, PoppedStack, FrontOfStack
<1>6. Front(frames[t]) \in Seq(FrameSet) /\ Front(frames[t]) # << >>
  BY <1>1, <1>5 DEF StackOf
<1>7. Lighter(frames'[t], Front(frames[t]))
  <2>1. frames'[t] = done(Front(frames[t]))
    BY <1>3
  <2> QED BY ONLY <2>1, <1>6, DoneIsLighter
<1>8. /\ StackOf(t, frames'[t]) /\ frames'[t] # << >>
      /\ Len(frames'[t]) \in Nat /\ Len(frames'[t]) < Len(frames[t])
      /\ \A i \in 1..Len(frames'[t]) :
           frames'[t][i].target = frames[t][i].target
  <2>1. StackOf(t, frames'[t])
    BY <1>5, <1>7, LighterStack
  <2>2. Len(frames'[t]) = Len(frames[t]) - 1
    BY <1>5, <1>7 DEF Lighter
  <2>3. Len(Front(frames[t])) # 0
    BY <1>6
  <2>4. frames'[t] # << >>
    BY <1>5, <2>2, <2>3
  <2>5. \A i \in 1..Len(frames[t]) - 1 :
          frames'[t][i].target = frames[t][i].target
    BY <1>5, <1>7 DEF Lighter
  <2> QED BY <1>1, <2>1, <2>2, <2>4, <2>5
<1>9. ASSUME NEW u \in Targets \ {t}, waits(u)
      PROVE  /\ StackOf(u, frames'[u]) /\ frames'[u] # << >>
             /\ Len(frames[u]) \in Nat /\ Len(frames'[u]) = Len(frames[u])
             /\ \A i \in 1..Len(frames'[u]) :
                  frames'[u][i].target = frames[u][i].target
  <2>1. /\ frames[u] \in Seq(FrameSet) /\ frames[u] # << >>
        /\ StackOf(u, frames[u])
    BY <1>9, TaskFacts DEF RInv, Stacks
  <2>2. frames'[u] = done(frames[u])
    BY <1>3, <1>9, Zenon
  <2>3. Lighter(done(frames[u]), frames[u])
    BY <2>1, DoneIsLighter, Zenon
  <2> HIDE DEF done, waits
  <2>4. Lighter(frames'[u], frames[u])
    BY <2>2, <2>3
  <2>5. StackOf(u, frames'[u])
    BY <2>1, <2>4, LighterStack
  <2>6. /\ Len(frames[u]) \in Nat /\ Len(frames[u]) # 0
        /\ Len(frames'[u]) = Len(frames[u])
        /\ \A i \in 1..Len(frames'[u]) :
             frames'[u][i].target = frames[u][i].target
    BY <2>1, <2>4 DEF Lighter
  <2>7. frames'[u] # << >>
    BY <2>6
  <2> QED BY <2>5, <2>6, <2>7
<1>10. ASSUME NEW u \in Targets \ {t}, ~waits(u)
       PROVE  /\ frames'[u] = frames[u] /\ StackOf(u, frames[u])
              /\ Len(frames[u]) \in Nat
  BY <1>3, <1>10 DEF RInv, Stacks, StackOf
<1> HIDE DEF d, waits, done
<1>11. \A u \in Targets :
        /\ StackOf(u, frames'[u])
        /\ Len(frames[u]) \in Nat /\ Len(frames'[u]) \in Nat
        /\ Len(frames'[u]) <= Len(frames[u])
        /\ \A i \in 1..Len(frames'[u]) :
             frames'[u][i].target = frames[u][i].target
  <2> TAKE u \in Targets
  <2>1. CASE u = t
    BY <2>1, <1>1, <1>8
  <2>2. CASE u # t /\ waits(u)
    BY <2>2, <1>9
  <2>3. CASE u # t /\ ~waits(u)
    BY <2>3, <1>10
  <2> QED BY <2>1, <2>2, <2>3
<1>12. \A u \in Targets \ {t} :
         \/ /\ pc'[u] = pc[u] /\ frames'[u] = frames[u] /\ dep'[u] = dep[u]
         \/ /\ pc[u] = "joined" /\ pc'[u] \in {"deps", "unwinding"}
            /\ frames'[u] # << >>
  <2> TAKE u \in Targets \ {t}
  <2>1. CASE waits(u)
    BY <2>1, <1>2, <1>9 DEF waits
  <2>2. CASE ~waits(u)
    BY <2>2, <1>2, <1>10
  <2> QED BY <2>1, <2>2
<1>13. /\ pc' \in [Targets -> Stages]
       /\ dep' \in [Targets -> Targets \cup {None}]
       /\ flight' \in [Targets -> Targets \cup {None}]
       /\ \A c \in Targets : c # d => flight'[c] = flight[c]
  BY <1>1, <1>2 DEF RInv, TypeOK, Stages
<1>14. pc'[t] \in {"deps", "unwinding"}
  BY <1>2
<1> QED BY <1>3, <1>8, <1>11, <1>12, <1>13, <1>14 DEF Ended, d

\* the end of a task another.
LEMMA EndTaskEnds ==
  ASSUME RInv, NEW t \in Targets, pc[t] \in {"running", "unwinding"},
         NEW stage \in {"succeeded", "failed"}, EndTask(t, stage)
  PROVE  Ended(t)
<1>1. /\ Len(frames[t]) \in Nat /\ Len(frames[t]) > 0
      /\ DOMAIN frames = Targets
  BY TaskFacts DEF RInv, Stacks
<1>2. /\ DOMAIN frames' = Targets /\ frames'[t] = << >>
      /\ \A u \in Targets \ {t} :
           frames'[u] = frames[u] /\ pc'[u] = pc[u] /\ dep'[u] = dep[u]
      /\ pc'[t] = stage
  BY <1>1 DEF EndTask, RInv, TypeOK
<1>3. \A u \in Targets :
        StackOf(u, frames'[u]) /\ Len(frames[u]) \in Nat
  <2> TAKE u \in Targets
  <2>1. StackOf(u, frames[u])
    BY DEF RInv, Stacks
  <2>2. Len(frames[u]) \in Nat
    BY <2>1 DEF StackOf
  <2>3. StackOf(u, frames'[u])
    BY <1>2, <2>1, EmptyStack
  <2> QED BY <2>2, <2>3
<1>4. \A u \in Targets :
        /\ Len(frames'[u]) \in Nat /\ Len(frames'[u]) <= Len(frames[u])
        /\ \A i \in 1..Len(frames'[u]) :
             frames'[u][i].target = frames[u][i].target
  <2> TAKE u \in Targets
  <2>1. CASE u = t
    <3>1. Len(frames'[t]) = 0 /\ \A i \in 1..Len(frames'[t]) : FALSE
      BY <1>2
    <3> QED BY <2>1, <3>1, <1>1
  <2>2. CASE u # t
    BY <2>2, <1>2, <1>3
  <2> QED BY <2>1, <2>2
<1>5. Len(frames'[t]) < Len(frames[t])
  BY <1>1, <1>2
<1>6. /\ pc' \in [Targets -> Stages]
      /\ dep' \in [Targets -> Targets \cup {None}]
      /\ flight' \in [Targets -> Targets \cup {None}]
      /\ \A c \in Targets : flight'[c] = flight[c]
  BY DEF EndTask, RInv, TypeOK, Stages, Terminal
<1> QED BY <1>2, <1>3, <1>4, <1>5, <1>6 DEF Ended

\* All but the counts of runs
LEMMA EndedProceeds ==
  ASSUME RInv, NEW t \in Targets, pc[t] \in {"running", "unwinding"}, Ended(t),
         TypeOK', phase' = phase
  PROVE  /\ Proceeds
         /\ \A u \in Targets : \A i \in 1..Len(frames'[u]) : OldFrame(u, i)
         /\ Flights' /\ DepsDone' /\ Rested'
<1>1. phase = "building"
  BY TaskFacts
<1>2. Stacks'
  BY DEF Ended, Stacks
<1>3. Asked'
  <2> SUFFICES ASSUME NEW u \in Targets, pc'[u] \in {"asking", "joined"}
               PROVE  dep'[u] \in TargetDeps(Cur(u)')
    BY DEF Asked
  <2>1. u # t /\ pc'[u] = pc[u] /\ frames'[u] = frames[u] /\ dep'[u] = dep[u]
    BY DEF Ended
  <2>2. Cur(u)' = Cur(u)
    BY <2>1 DEF Cur, Top
  <2> QED BY <2>1, <2>2 DEF RInv, Asked
<1>4. Proceeds
  BY <1>1, <1>2, <1>3 DEF Proceeds, Ended
<1>5. ASSUME NEW u \in Targets, NEW i \in 1..Len(frames'[u])
      PROVE  OldFrame(u, i)
  <2>1. /\ Len(frames[u]) \in Nat /\ Len(frames'[u]) \in Nat
        /\ Len(frames'[u]) <= Len(frames[u])
        /\ u = t => Len(frames'[u]) < Len(frames[t])
        /\ frames'[u][i].target = frames[u][i].target
    BY DEF Ended
  <2>2. i \in 1..Len(frames[u]) /\ (u # t \/ i < Len(frames[t]))
    BY <2>1
  <2>3. frames[u][i].target # Cur(t)
    BY <2>2, TopIsOwn
  <2>4. frames[u][i].target \in Targets
    <3>1. frames[u] \in Seq(FrameSet)
      BY DEF RInv, Stacks, StackOf
    <3>2. frames[u][i] \in FrameSet
      BY <2>2, <3>1
    <3> QED BY <3>2 DEF FrameSet
  <2>5. flight'[frames[u][i].target] = flight[frames[u][i].target]
    BY <2>3, <2>4 DEF Ended
  <2> QED BY <2>1, <2>2, <2>5 DEF OldFrame
<1>6. Flights' /\ DepsDone' /\ Rested'
  BY <1>4, <1>5, FlightsKept
<1> QED BY <1>4, <1>5, <1>6

\* The invariant is kept when an error goes through a frame,
LEMMA UnwindKeepsRInv ==
  ASSUME RInv, NEW t \in Targets, Unwind(t) PROVE RInv'
<1>1. /\ pc[t] = "unwinding"
      /\ UNCHANGED <<userVars, warm, buildVars, targetVars, wasTainted, ran,
                     ioVars>>
  BY DEF Unwind
<1>2. Ended(t)
  BY <1>1, EndRerunEnds, EndTaskEnds DEF Unwind
<1>3. TypeOK'
  BY <1>1, <1>2 DEF RInv, TypeOK, Ended, Terminal, userVars, buildVars,
                    targetVars, ioVars
<1>4. \A u \in Targets : pc[u] = "unwinding" =>
        \/ pc'[u] = "unwinding" /\ Len(frames'[u]) <= Len(frames[u])
        \/ Len(frames'[u]) < Len(frames[u])
  BY <1>2 DEF Ended
<1> QED BY <1>1, <1>2, <1>3, <1>4, EndedProceeds, MovedFrames
        DEF buildVars, targetVars

\* The command of the top frame of t has run: it had not run before.
LEMMA RanOnce ==
  ASSUME RInv, Proceeds, NEW t \in Targets, pc[t] = "running",
         ran' = [ran EXCEPT ![Cur(t)] = @ + 1],
         loaded' = [loaded EXCEPT ![Cur(t)] = TRUE],
         \A u \in Targets : \A i \in 1..Len(frames'[u]) :
           /\ i <= Len(frames[u])
           /\ frames'[u][i].target = frames[u][i].target,
         \/ Len(frames'[t]) < Len(frames[t])
         \/ Len(frames'[t]) = Len(frames[t]) /\ pc'[t] = "unwinding",
         \A u \in Targets : Len(frames'[u]) <= Len(frames[u]),
         \A u \in Targets : pc[u] = "unwinding" => pc'[u] = "unwinding"
  PROVE  NotYetRun'
<1>1. /\ Cur(t) \in Targets /\ ran \in [Targets -> Nat]
      /\ loaded \in [Targets -> BOOLEAN]
      /\ Len(frames[t]) \in 1..Len(frames[t])
      /\ Cur(t) = frames[t][Len(frames[t])].target
  BY TaskFacts DEF RInv, TypeOK, Cur
<1>2. ran[Cur(t)] = 0
  BY <1>1 DEF RInv, NotYetRun
<1> DEFINE c == Cur(t)
<1>3. /\ c \in Targets /\ ran'[c] = 1 /\ loaded'[c] = TRUE
      /\ \A u \in Targets \ {c} : ran'[u] = ran[u] /\ loaded'[u] = loaded[u]
  <2> HIDE DEF c
  <2>1. /\ c \in Targets /\ ran[c] = 0
        /\ ran' = [ran EXCEPT ![c] = @ + 1]
        /\ loaded' = [loaded EXCEPT ![c] = TRUE]
    BY <1>1, <1>2, Zenon DEF c
  <2>2. ran \in [Targets -> Nat] /\ loaded \in [Targets -> BOOLEAN]
    BY <1>1
  <2>3. ran'[c] = ran[c] + 1 /\ loaded'[c] = TRUE
    BY <2>1, <2>2, Zenon
  <2>4. ran'[c] = 1
    BY <2>1, <2>3
  <2>5. \A u \in Targets \ {c} : ran'[u] = ran[u] /\ loaded'[u] = loaded[u]
    BY <2>1, <2>2, Zenon
  <2> QED BY <2>1, <2>3, <2>4, <2>5
<1> HIDE DEF c
<1>4. \A u \in Targets : ran'[u] <= 1 /\ (ran'[u] > 0 => loaded'[u])
  <2> TAKE u \in Targets
  <2>1. CASE u = c
    BY <2>1, <1>3
  <2>2. CASE u # c
    BY <2>2, <1>3 DEF RInv, NotYetRun
  <2> QED BY <2>1, <2>2
<1>5. pc[c] \in {"running", "succeeded"}
  <2>1. /\ Len(frames[t]) = 1 => c = t
        /\ Len(frames[t]) > 1 => pc[c] = "succeeded"
    BY TaskFacts DEF c
  <2> DEFINE n == Len(frames[t])
  <2>2. n \in Nat /\ n \in 1..n
    BY TaskFacts
  <2> HIDE DEF n
  <2>3. n = 1 \/ n > 1
    BY <2>2
  <2> QED BY <2>1, <2>3 DEF n
<1>6. \A u \in Targets :
        pc'[u] \in {"pending", "queued", "loading"} => ran'[u] = 0
  <2> SUFFICES ASSUME NEW u \in Targets,
                      pc'[u] \in {"pending", "queued", "loading"}
               PROVE  ran'[u] = 0
    OBVIOUS
  <2>1. pc[u] \in {"pending", "queued", "loading"}
    BY DEF Proceeds
  <2>2. ran[u] = 0 /\ u # c
    BY <1>5, <2>1 DEF RInv, NotYetRun
  <2> QED BY <1>3, <2>2
<1>7. ASSUME NEW u \in Targets, NEW i \in 1..Len(frames'[u]),
             i < Len(frames'[u]) \/ pc'[u] # "unwinding"
      PROVE  ran'[frames'[u][i].target] = 0
  <2>0. /\ Len(frames'[u]) \in Nat /\ Len(frames[u]) \in Nat
        /\ frames[u] \in Seq(FrameSet)
    BY DEF Proceeds, RInv, Stacks, StackOf
  <2>1. i \in 1..Len(frames[u]) /\ frames'[u][i].target = frames[u][i].target
    BY <2>0
  <2>2. u # t \/ i < Len(frames[t])
    BY <1>7, <2>0, <2>1
  <2>3. frames[u][i].target # c
    BY <2>1, <2>2, TopIsOwn DEF c
  <2>4. frames[u][i].target \in Targets
    <3>1. frames[u][i] \in FrameSet
      BY <2>0, <2>1
    <3> QED BY <3>1 DEF FrameSet
  <2>5. i < Len(frames[u]) \/ pc[u] # "unwinding"
    BY <1>7, <2>0, <2>1
  <2>6. ran[frames[u][i].target] = 0
    BY <2>1, <2>5 DEF RInv, NotYetRun
  <2> QED BY <1>3, <2>1, <2>3, <2>4, <2>6
<1> QED BY <1>4, <1>6, <1>7 DEF NotYetRun

\* when a command succeeds,
LEMMA CommandSucceedsKeepsRInv ==
  ASSUME RInv, NEW t \in Targets, CommandSucceeds(t) PROVE RInv'
<1>1. /\ pc[t] = "running" /\ Cur(t) \in Targets
      /\ UNCHANGED <<source, tainted, warm, buildVars, changeHash, wasTainted>>
  BY TaskFacts DEF CommandSucceeds
<1>2. Ended(t)
  BY <1>1, EndRerunEnds, EndTaskEnds DEF CommandSucceeds
<1>3. /\ ran' = [ran EXCEPT ![Cur(t)] = @ + 1]
      /\ loaded' = [loaded EXCEPT ![Cur(t)] = TRUE]
      /\ owed' = owed \ {Cur(t)}
  BY DEF CommandSucceeds, Produced
<1>4. clears' \subseteq Targets
  BY DEF CommandSucceeds, RInv, TypeOK
<1>5. \A u \in Targets : (frames'[u] # << >>) <=>
        (pc'[u] \in {"deps", "asking", "joined", "running", "unwinding"})
  BY <1>1, <1>2 DEF RInv, TypeOK, Ended
<1>6. TypeOK'
  BY <1>1, <1>2, <1>3, <1>4, <1>5 DEF RInv, TypeOK, Ended, buildVars
<1>7. /\ Proceeds /\ \A u \in Targets : \A i \in 1..Len(frames'[u]) : OldFrame(u, i)
      /\ Flights' /\ DepsDone' /\ Rested'
  BY <1>1, <1>2, <1>6, EndedProceeds DEF buildVars
<1>8. \A u \in Targets : pc[u] = "unwinding" => pc'[u] = "unwinding"
  BY <1>1, <1>2 DEF Ended
<1>9. /\ Len(frames'[t]) < Len(frames[t])
      /\ \A u \in Targets : Len(frames'[u]) <= Len(frames[u])
      /\ \A u \in Targets : \A i \in 1..Len(frames'[u]) :
           i <= Len(frames[u]) /\ frames'[u][i].target = frames[u][i].target
  BY <1>2, <1>7 DEF Ended, OldFrame
<1>10. NotYetRun'
  BY <1>1, <1>3, <1>7, <1>8, <1>9, RanOnce
<1> QED BY <1>7, <1>10 DEF RInv, Proceeds

\* and when its cache write fails.
LEMMA PersistFailsKeepsRInv ==
  ASSUME RInv, NEW t \in Targets, PersistFails(t) PROVE RInv'
<1>0. phase = "building" /\ Cur(t) \in Targets
  BY TaskFacts DEF PersistFails
<1>1. /\ pc[t] = "running" /\ pc' = [pc EXCEPT ![t] = "unwinding"]
      /\ UNCHANGED <<source, tainted, owed, warm, buildVars, changeHash,
                     wasTainted, frames, dep, flight, ioVars>>
      /\ ran' = [ran EXCEPT ![Cur(t)] = @ + 1]
      /\ loaded' = [loaded EXCEPT ![Cur(t)] = TRUE]
  BY DEF PersistFails, Produced
<1>2. TypeOK'
  BY <1>0, <1>1 DEF RInv, TypeOK, Stages, buildVars, ioVars
<1>3. Stacks' /\ Asked'
  BY <1>1 DEF RInv, TypeOK, Stacks, Asked, Cur, Top
<1>4. Proceeds
  BY <1>0, <1>1, <1>2, <1>3 DEF Proceeds, RInv, TypeOK, buildVars
<1>5. \A u \in Targets : Len(frames[u]) \in Nat
  BY DEF RInv, Stacks, StackOf
<1>6. \A u \in Targets : \A i \in 1..Len(frames'[u]) : OldFrame(u, i)
  BY <1>1, <1>5 DEF OldFrame
<1>7. Flights' /\ DepsDone' /\ Rested'
  BY <1>4, <1>6, FlightsKept
<1>8. pc'[t] = "unwinding" /\ \A u \in Targets \ {t} : pc'[u] = pc[u]
  BY <1>1 DEF RInv, TypeOK
<1>9. /\ Len(frames'[t]) = Len(frames[t])
      /\ \A u \in Targets : Len(frames'[u]) <= Len(frames[u])
      /\ \A u \in Targets : \A i \in 1..Len(frames'[u]) :
           i <= Len(frames[u]) /\ frames'[u][i].target = frames[u][i].target
  BY <1>1, <1>5
<1>10. \A u \in Targets : pc[u] = "unwinding" => pc'[u] = "unwinding"
  BY <1>8
<1>11. NotYetRun'
  BY <1>1, <1>4, <1>8, <1>9, <1>10, RanOnce
<1> QED BY <1>4, <1>7, <1>11 DEF RInv, Proceeds

\* Every step of a task keeps the invariant,
LEMMA TaskKeepsRInv ==
  ASSUME RInv, NEW t \in Targets, Task(t) PROVE RInv'
<1>1. CASE Skip(t) \/ SetChangeHash(t) \/ CheckCache(t)
  BY <1>1, SkipKeepsRInv, SetChangeHashKeepsRInv, CheckCacheKeepsRInv
<1>2. CASE LoadHit(t) \/ LoadHitFails(t)
  BY <1>2, LoadHitKeepsRInv, LoadHitFailsKeepsRInv
<1>3. CASE \E d \in Targets :
             DepIsLoaded(t, d) \/ LoadDep(t, d) \/ LoadDepFails(t, d)
  BY <1>3, DepIsLoadedKeepsRInv, LoadDepKeepsRInv, LoadDepFailsKeepsRInv
<1>4. CASE JoinRerun(t) \/ StartRerun(t) \/ StartCommand(t)
  BY <1>4, JoinRerunKeepsRInv, StartRerunKeepsRInv, StartCommandKeepsRInv
<1>5. CASE CommandSucceeds(t) \/ CommandFails(t)
  BY <1>5, CommandSucceedsKeepsRInv, CommandFailsKeepsRInv
<1>6. CASE PersistFails(t) \/ Unwind(t)
  BY <1>6, PersistFailsKeepsRInv, UnwindKeepsRInv
<1> QED BY <1>1, <1>2, <1>3, <1>4, <1>5, <1>6 DEF Task

\* and so does every step.
LEMMA StepKeepsRInv == RInv /\ [Next]_vars => RInv'
<1> SUFFICES ASSUME RInv, [Next]_vars PROVE RInv'
  OBVIOUS
<1>1. CASE \E t \in Targets : Task(t)
  BY <1>1, TaskKeepsRInv
<1>2. CASE \/ \E t \in Targets : Edit(t) \/ Taint(t) \/ ClearTaint(t)
           \/ Checkout \/ Evict
           \/ \E w \in writes : Commit(w) \/ CommitFails(w)
  BY <1>2, OtherStepsKeepRInv
<1>3. CASE StartBuild \/ EndBuild \/ Crash
  BY <1>3, StartBuildKeepsRInv, EndBuildKeepsRInv, CrashKeepsRInv
<1>4. CASE UNCHANGED vars
  <2>1. TypeOK' /\ Stacks' /\ Flights'
    BY <1>4 DEF RInv, TypeOK, Stacks, Flights, vars, userVars, buildVars,
                targetVars, taskVars, ioVars
  <2>2. Asked' /\ DepsDone' /\ Rested' /\ NotYetRun'
    BY <1>4 DEF RInv, Asked, DepsDone, Rested, NotYetRun, Cur, Top, vars,
                buildVars, targetVars, taskVars
  <2> QED BY <2>1, <2>2 DEF RInv
<1> QED BY <1>1, <1>2, <1>3, <1>4 DEF Next

\* The stacks and the flights of reruns are as they should be in every state.
THEOREM RerunInvariant == Spec => []RInv
BY InitRInv, StepKeepsRInv, PTL DEF Spec

\* Every variable keeps its type, and a task has a stack exactly while it needs
\* one (getTaskFunc, LoadDependencyOutputs).
THEOREM ExecutorTypeCorrect == Spec => []TypeOK
<1>1. RInv => TypeOK
  BY DEF RInv
<1> QED BY <1>1, RerunInvariant, PTL

\* However tasks ask for reruns of the same dependencies, and whatever fails or
\* is lost, rerunGroup lets no command run twice in a build, let alone twice at
\* the same time: on any graph, in either mode, over any history of builds.
THEOREM NoTargetRunsTwice == Spec => []RunsOnce
<1>1. RInv => RunsOnce
  <2> SUFFICES ASSUME RInv PROVE RunsOnce
    OBVIOUS
  <2>1. \A t \in Targets : ran[t] <= 1
    BY DEF RInv, NotYetRun
  <2>2. ASSUME NEW t \in Targets, NEW u \in Targets,
               pc[t] = "running", pc[u] = "running", t # u
        PROVE  Cur(t) # Cur(u)
    <3>1. /\ Len(frames[u]) \in 1..Len(frames[u])
          /\ Cur(u) = frames[u][Len(frames[u])].target
      BY <2>2, TaskFacts DEF Cur
    <3> QED BY <2>2, <3>1, TopIsOwn
  <2> QED BY <2>1, <2>2 DEF RunsOnce
<1> QED BY <1>1, RerunInvariant, PTL

-----------------------------------------------------------------------------
(* Taints *)

\* The stages in which a target whose taint is owed cannot be
Untainted == {"succeeded", "loading"}

\* No step of a task loses a taint,
LEMMA TaskKeepsTaints ==
  ASSUME RInv, TaintsKept, NEW t \in Targets, Task(t)
  PROVE  TaintsKept'
<1>1. phase = "building" /\ phase' = "building"
  BY DEF RInv, TypeOK, Rested, Terminal, Task, Skip, SetChangeHash, CheckCache,
         LoadHit, LoadHitFails, DepIsLoaded, LoadDep, LoadDepFails, JoinRerun,
         StartRerun, StartCommand, CommandSucceeds, CommandFails, PersistFails,
         Unwind, buildVars
<1>2. CASE CommandSucceeds(t)
  <2>1. /\ tainted' = tainted /\ owed' = owed \ {Cur(t)}
        /\ pc[t] = "running" /\ Ended(t)
    BY <1>2, EndRerunEnds, EndTaskEnds DEF CommandSucceeds
  <2>2. /\ clears' = clears \/ (t \notin owed' /\ clears' = clears \cup {t})
        /\ t \in owed' => pc'[t] \notin Untainted
    <3>1. CASE Len(frames[t]) > 1
      <4>1. clears' = clears /\ pc'[t] = "deps"
        BY <1>2, <3>1 DEF CommandSucceeds, EndRerun
      <4> QED BY <4>1 DEF Untainted
    <3>2. CASE ~(Len(frames[t]) > 1)
      <4> DEFINE n == Len(frames[t])
      <4>1. n \in Nat /\ n \in 1..n /\ ~(n > 1)
        BY <2>1, <3>2, TaskFacts
      <4> HIDE DEF n
      <4>2. n = 1
        BY <4>1
      <4>3. Cur(t) = t
        BY <2>1, <4>2, TaskFacts DEF n
      <4> QED BY <1>2, <2>1, <3>2, <4>3 DEF CommandSucceeds
    <3> QED BY <3>1, <3>2
  <2>3. \A u \in owed' \ misread' : pc'[u] \notin Untainted
    <3> TAKE u \in owed' \ misread'
    <3>1. CASE u = t
      BY <2>2, <3>1
    <3>2. CASE u # t
      <4>1. u \in Targets /\ pc[u] \notin Untainted
        BY <1>1, <1>2, <2>1 DEF RInv, TypeOK, TaintsKept, Untainted, CommandSucceeds, buildVars
      <4> QED BY <2>1, <3>2, <4>1 DEF Ended, Untainted
    <3> QED BY <3>1, <3>2
  <2> QED BY <1>1, <2>1, <2>2, <2>3 DEF TaintsKept, Untainted
<1>3. CASE Unwind(t)
  <2>1. /\ UNCHANGED <<tainted, owed, clears, misread>>
        /\ pc[t] = "unwinding" /\ Ended(t)
    BY <1>3, EndRerunEnds, EndTaskEnds DEF Unwind, userVars, ioVars, buildVars
  <2>2. pc'[t] \in {"deps", "unwinding", "failed"}
    BY <1>3 DEF Unwind, EndRerun, EndTask, RInv, TypeOK
  <2>3. \A u \in Targets : pc'[u] \in Untainted => pc[u] \in Untainted
    BY <2>1, <2>2 DEF Ended, Untainted
  <2> QED BY <1>1, <2>1, <2>3 DEF TaintsKept, Untainted, RInv, TypeOK
<1>4. CASE CheckCache(t)
  <2>1. UNCHANGED <<tainted, owed, clears>> /\ misread \subseteq misread'
    BY <1>4, CheckCacheDecides DEF userVars, ioVars
  <2>2. PICK isTainted \in BOOLEAN :
          /\ isTainted \/ t \notin tainted \/ t \in misread'
          /\ \/ IsHit(t, isTainted) /\ pc' = [pc EXCEPT ![t] = "succeeded"]
             \/ IsHit(t, isTainted) /\ pc' = [pc EXCEPT ![t] = "loading"]
             \/ Execute(t)
    BY <1>4, CheckCacheDecides
  <2>3. pc'[t] \in Untainted => t \notin tainted \/ t \in misread'
    BY <2>2 DEF IsHit, Execute, RInv, TypeOK, Untainted
  <2>4. \A u \in Targets \ {t} : pc'[u] = pc[u]
    BY <2>2 DEF Execute, RInv, TypeOK
  <2>5. \A u \in owed \ misread' : pc'[u] \notin Untainted
    BY <1>1, <2>1, <2>3, <2>4 DEF TaintsKept, Untainted, RInv, TypeOK
  <2> QED BY <1>1, <2>1, <2>5 DEF TaintsKept, Untainted
<1>5. CASE LoadHit(t)
  <2>1. UNCHANGED <<tainted, owed, clears, misread>>
    BY <1>5 DEF LoadHit, userVars, ioVars, buildVars
  <2>2. \A u \in owed \ misread : pc'[u] \notin Untainted
    BY <1>1, <1>5 DEF LoadHit, RInv, TypeOK, TaintsKept, Untainted
  <2> QED BY <1>1, <2>1, <2>2 DEF TaintsKept, Untainted
<1>6. CASE \/ Skip(t) \/ SetChangeHash(t) \/ LoadHitFails(t)
           \/ \E d \in Targets :
                DepIsLoaded(t, d) \/ LoadDep(t, d) \/ LoadDepFails(t, d)
           \/ JoinRerun(t) \/ StartRerun(t) \/ StartCommand(t)
           \/ CommandFails(t) \/ PersistFails(t)
  <2>1. UNCHANGED <<tainted, owed, clears, misread>>
    BY <1>6 DEF Skip, SetChangeHash, LoadHitFails, DepIsLoaded, LoadDep,
       LoadDepFails, JoinRerun, StartRerun, StartCommand, CommandFails,
       PersistFails, userVars, ioVars, buildVars
  <2>2. \A u \in Targets : pc'[u] \in Untainted => pc[u] \in Untainted
    BY <1>6 DEF RInv, TypeOK, Untainted, Skip, SetChangeHash, LoadHitFails,
       Execute, DepIsLoaded, LoadDep, LoadDepFails, JoinRerun, StartRerun,
       StartCommand, CommandFails, PersistFails
  <2> QED BY <1>1, <2>1, <2>2 DEF TaintsKept, Untainted, RInv, TypeOK
<1> QED BY <1>2, <1>3, <1>4, <1>5, <1>6 DEF Task

\* and no step at all does as long as nobody taints during a build.
LEMMA StepKeepsTaints ==
  ASSUME ~TaintAnytime, RInv, TaintsKept, [Next]_vars
  PROVE  TaintsKept'
<1>1. CASE \E t \in Targets : Task(t)
  BY <1>1, TaskKeepsTaints
<1>2. CASE \E t \in Targets : Taint(t)
  BY <1>2 DEF Taint, TaintsKept, buildVars, ioVars
<1>3. CASE \E t \in Targets : ClearTaint(t)
  BY <1>3 DEF ClearTaint, TaintsKept, buildVars
<1>4. CASE \/ \E t \in Targets : Edit(t)
           \/ Checkout \/ Evict \/ \E w \in writes : Commit(w) \/ CommitFails(w)
           \/ UNCHANGED vars
  BY <1>4 DEF Edit, Checkout, Evict, Commit, CommitFails, vars, TaintsKept,
              userVars, buildVars, ioVars
<1>5. CASE StartBuild
  BY <1>5 DEF StartBuild, NoTasks, TaintsKept, RInv, TypeOK, userVars, ioVars
<1>6. CASE EndBuild
  BY <1>6 DEF EndBuild, TaintsKept, userVars
<1>7. CASE Crash
  BY <1>7 DEF Crash, TaintsKept, userVars
<1> QED BY <1>1, <1>2, <1>3, <1>4, <1>5, <1>6, <1>7 DEF Next

\* As long as nobody taints during a build, a tainted target never succeeds
\* without having run, and its taint outlives every build, crash and failure
\* until it did (taintStore, the deferred Clear of getTaskFunc).
THEOREM TaintsAreHonoured ==
  ASSUME ~TaintAnytime
  PROVE  Spec => []TaintHonoured
<1>1. Init => TaintsKept
  BY DEF Init, TaintsKept
<1>2. TaintsKept => TaintHonoured
  BY DEF TaintsKept, TaintHonoured
<1>3. RInv /\ TaintsKept /\ [Next]_vars => TaintsKept'
  BY StepKeepsTaints
<1> QED BY <1>1, <1>2, <1>3, RerunInvariant, PTL DEF Spec

-----------------------------------------------------------------------------
(* The cache *)

\* A result is published after the blob it names, whatever the graph, the
\* options and the order of commands, writes and failures.
THEOREM ResultsComeLast == Spec => BlobBeforeResult
<1> DEFINE Named(k) ==
      \/ k \in DOMAIN results /\ results'[k] = results[k]
      \/ results'[k].content \in cas' \cup {Unset}
<1>1. ASSUME UNCHANGED results
      PROVE  \A k \in DOMAIN results' : Named(k)
  BY <1>1
<1>2. ASSUME NEW key, NEW result, Persist(key, result)
      PROVE  \A k \in DOMAIN results' : Named(k)
  BY <1>2 DEF Persist, Stored, cacheVars
<1>3. ASSUME NEW w, Publish(w)
      PROVE  \A k \in DOMAIN results' : Named(k)
  BY <1>3 DEF Publish, Stored
<1>4. ASSUME Evict
      PROVE  \A k \in DOMAIN results' : Named(k)
  BY <1>4 DEF Evict
<1>5. ASSUME Next
      PROVE  \A k \in DOMAIN results' : Named(k)
  <2>1. ASSUME NEW t \in Targets, Task(t) PROVE \A k \in DOMAIN results' : Named(k)
    <3>1. CASE CommandSucceeds(t)
      BY <3>1, <1>2 DEF CommandSucceeds
    <3>2. CASE ~CommandSucceeds(t)
      <4>1. UNCHANGED results
        BY <2>1, <3>2 DEF Task, Skip, SetChangeHash, CheckCache, LoadHit,
           LoadHitFails, DepIsLoaded, LoadDep, LoadDepFails, JoinRerun,
           StartRerun, StartCommand, CommandFails, PersistFails, Unwind,
           cacheVars
      <4> QED BY <4>1, <1>1
    <3> QED BY <3>1, <3>2
  <2>2. ASSUME NEW w \in writes, Commit(w) \/ CommitFails(w)
        PROVE  \A k \in DOMAIN results' : Named(k)
    <3>1. CASE Commit(w)
      BY <3>1, <1>3 DEF Commit
    <3>2. CASE CommitFails(w)
      BY <3>2, <1>1 DEF CommitFails, cacheVars
    <3> QED BY <2>2, <3>1, <3>2
  <2>3. CASE \/ Checkout \/ StartBuild \/ EndBuild \/ Crash
             \/ \E t \in Targets : Edit(t) \/ Taint(t) \/ ClearTaint(t)
    <3>1. UNCHANGED results
      BY <2>3 DEF Checkout, StartBuild, EndBuild, Crash, Edit, Taint,
         ClearTaint, cacheVars
    <3> QED BY <3>1, <1>1
  <2> QED BY <1>4, <1>5, <2>1, <2>2, <2>3 DEF Next
<1>6. [Next]_vars => [\A k \in DOMAIN results' : Named(k)]_vars
  BY <1>5
<1> QED BY <1>6, PTL DEF Spec, BlobBeforeResult

-----------------------------------------------------------------------------
(* Freshness: what it takes *)

\* A command reads only what its target lists as targets: an alias among the
\* dependencies hides what it stands for from the change hash (run alias).
Declared == \A t \in Targets : Reads[t] \subseteq TargetDeps(t)

\* The hashes of the dependencies of a target say whose they are: no two of
\* them have outputs of one name or are no-cache, and no hash leaves out the
\* inputs of a target without outputs, as the raw hashes do.
Attributable ==
  /\ \A t \in Targets :
       /\ \A d, e \in TargetDeps(t) \ (NoOutputs \cup NoCache) : Path[d] = Path[e] => d = e
       /\ \A d, e \in TargetDeps(t) \cap NoCache : d = e
  /\ NoCache \cap NoOutputs = {}
  /\ FALSE \in CacheOptions => NoOutputs = {}

\* Whether h can be the output hash of d in a build with the cache
Fits(d, h) ==
  /\ d \in NoOutputs => DOMAIN h = {"label", "input", "deps"} /\ h.label = d
  /\ d \in NoCache => DOMAIN h = {"digests"}
  /\ d \notin NoOutputs \cup NoCache => DOMAIN h = {"path", "digest"} /\ h.path = Path[d]

\* What a dependant sees of d when its output hash is h
Digest(d, h) ==
  IF d \in NoOutputs THEN h.input
  ELSE IF d \in NoCache THEN CHOOSE x \in h.digests : TRUE ELSE h.digest

\* The output that a change hash stands for: the hash covers all it is made of.
HashIn(k, d) == CHOOSE h \in DOMAIN k.deps : Fits(d, h)
Meant(k) == [input |-> k.input, read |-> [d \in Reads[k.label] |-> Digest(d, HashIn(k, d))]]

-----------------------------------------------------------------------------
(* Freshness: the invariant *)

\* With load_outputs=all a task runs its own target and nothing else.
OwnFrame == \A t \in Targets : Len(frames[t]) <= 1 /\ pc[t] \notin {"asking", "joined"}
NothingTodo == \A t \in Targets : frames[t] # << >> => Top(t).todo = {}

\* A result in the cache, or on its way there, has the output that its key stands
\* for, if it has one.
Sound(k, r) ==
  /\ k.label \in NoOutputs => r.outputHash = k
  /\ k.label \notin NoOutputs \cup NoCache /\ r.content # Unset =>
       r.content = Meant(k) /\ r.outputHash = OutputHash(k.label, r.content)

CacheSound ==
  /\ \A k \in DOMAIN results : Sound(k, results[k])
  /\ \A w \in writes : Sound(w.key, w.result)

\* The change hash of a target covers its input and the hashes of its
\* dependencies, which stay what they were.
Hashed(t) ==
  pc[t] \notin {"pending", "skipped"} =>
    /\ DOMAIN changeHash[t] = {"label", "input", "deps"}
    /\ changeHash[t].label = t /\ changeHash[t].input = source[t]
    /\ DOMAIN changeHash[t].deps = {outputHash[d] : d \in TargetDeps(t)}

\* The output of a target that is done is what its command makes of its input and
\* of the outputs of its dependencies, and its hash says so.
Fresh(t) ==
  pc[t] = "succeeded" =>
    /\ t \notin NoOutputs => workspace[t] = Produce(t, source, workspace)
    /\ cacheOn => Fits(t, outputHash[t]) /\ Digest(t, outputHash[t]) = Seen(t, source, workspace)

Hit(t) == pc[t] = "loading" => cacheOn /\ t \notin NoCache

Tables == DOMAIN changeHash = Targets /\ DOMAIN outputHash = Targets /\ DOMAIN workspace = Targets

FInv ==
  /\ Tables /\ OwnFrame /\ NothingTodo /\ CacheSound
  /\ phase = "building" => \A t \in Targets : Hashed(t) /\ Fresh(t) /\ Hit(t)

-----------------------------------------------------------------------------
(* Freshness: hashes *)

\* A hash fits one dependency of a target at most.
LEMMA OneFits ==
  ASSUME Attributable, NEW t \in Targets, NEW d \in TargetDeps(t), NEW e \in TargetDeps(t), NEW h,
         Fits(d, h), Fits(e, h)
  PROVE  d = e
<1>1. /\ {"label", "input", "deps"} # {"digests"} /\ {"label", "input", "deps"} # {"path", "digest"}
      /\ {"digests"} # {"path", "digest"}
  OBVIOUS
<1>2. CASE d \in NoOutputs
  <2>1. e \in NoOutputs
    BY <1>1, <1>2 DEF Fits, Attributable
  <2>. QED  BY <1>2, <2>1 DEF Fits
<1>3. CASE d \in NoCache
  <2>1. e \in NoCache
    BY <1>1, <1>3 DEF Fits, Attributable
  <2>. QED  BY <1>3, <2>1 DEF Attributable
<1>4. CASE d \notin NoOutputs \cup NoCache
  <2>1. e \notin NoOutputs \cup NoCache
    BY <1>1, <1>4 DEF Fits
  <2>2. Path[d] = Path[e]
    BY <1>4, <2>1 DEF Fits
  <2>. QED  BY <1>4, <2>1, <2>2 DEF Attributable
<1>. QED  BY <1>2, <1>3, <1>4

\* A change hash stands for what the command makes of the present input and of the
\* present outputs of the dependencies: so a result under that key is up to date.
LEMMA KeyMeans ==
  ASSUME Declared, Attributable, NEW t \in Targets, t \notin NoOutputs,
         pc[t] \notin {"pending", "skipped"}, Hashed(t), cacheOn,
         \A d \in TargetDeps(t) : pc[d] = "succeeded" /\ Fresh(d)
  PROVE  Meant(changeHash[t]) = Produce(t, source, workspace)
<1>. DEFINE k == changeHash[t]
<1>1. /\ k.label = t /\ k.input = source[t]
      /\ DOMAIN k.deps = {outputHash[d] : d \in TargetDeps(t)}
  BY DEF Hashed
<1>2. ASSUME NEW d \in Reads[t] PROVE Digest(d, HashIn(k, d)) = Seen(d, source, workspace)
  <2>1. d \in TargetDeps(t)
    BY <1>2 DEF Declared
  <2>2. Fits(d, outputHash[d]) /\ Digest(d, outputHash[d]) = Seen(d, source, workspace)
    BY <2>1 DEF Fresh
  <2>3. ASSUME NEW h \in DOMAIN k.deps, Fits(d, h) PROVE h = outputHash[d]
    <3>1. PICK e \in TargetDeps(t) : h = outputHash[e]
      BY <1>1, <2>3
    <3>2. Fits(e, h)
      BY <3>1 DEF Fresh
    <3>. QED  BY <2>1, <2>3, <3>1, <3>2, OneFits
  <2>4. outputHash[d] \in DOMAIN k.deps
    BY <1>1, <2>1
  <2>. HIDE DEF k
  <2>5. HashIn(k, d) = outputHash[d]
    BY <2>2, <2>3, <2>4 DEF HashIn
  <2>. QED  BY <2>2, <2>5
<1>. HIDE DEF k
<1>3. Meant(k) = [input |-> source[t], read |-> [d \in Reads[t] |-> Digest(d, HashIn(k, d))]]
  BY <1>1 DEF Meant
<1>4. [d \in Reads[t] |-> Digest(d, HashIn(k, d))] = [d \in Reads[t] |-> Seen(d, source, workspace)]
  BY <1>2
<1>5. Produce(t, source, workspace)
        = [input |-> source[t], read |-> [d \in Reads[t] |-> Seen(d, source, workspace)]]
  BY DEF Produce
<1>. QED  BY <1>3, <1>4, <1>5 DEF k

-----------------------------------------------------------------------------
(* Freshness: tasks *)

\* With load_outputs=all
AllMode == Modes = {"all"}

\* What a task is doing
LEMMA OwnTask ==
  ASSUME AllMode, RInv, FInv, NEW t \in Targets, pc[t] \in {"deps", "running", "unwinding"}
  PROVE  /\ phase = "building" /\ Cur(t) = t /\ Len(frames[t]) = 1 /\ Top(t).todo = {}
         /\ \A d \in TargetDeps(t) : d \in Targets /\ pc[d] = "succeeded"
<1>. DEFINE n == Len(frames[t])
<1>1. n \in Nat /\ n \in 1..n /\ n <= 1
  BY TaskFacts DEF FInv, OwnFrame
<1>. HIDE DEF n
<1>2. n = 1
  BY <1>1
<1>3. Len(frames[t]) = 1
  BY <1>2 DEF n
<1>4. Cur(t) = t /\ phase = "building" /\ frames[t] # << >>
  BY <1>3, TaskFacts
<1>. QED  BY <1>3, <1>4, TaskFacts DEF FInv, NothingTodo

\* A task keeps to its own target.
LEMMA FramesStayOwn ==
  ASSUME AllMode, RInv, FInv, NEW t \in Targets, Task(t)
  PROVE  OwnFrame' /\ NothingTodo'
<1>1. /\ DOMAIN frames = Targets /\ pc \in [Targets -> Stages] /\ mode = "all"
      /\ OwnFrame /\ NothingTodo
  BY DEF RInv, Stacks, TypeOK, FInv, AllMode
<1>2. CASE UNCHANGED frames /\ \A u \in Targets : pc'[u] \notin {"asking", "joined"}
  BY <1>1, <1>2 DEF OwnFrame, NothingTodo, Top
<1>3. CASE Execute(t)
  <2>1. /\ frames'[t] = <<Frame(t)>> /\ pc'[t] = "deps"
        /\ \A u \in Targets \ {t} : frames'[u] = frames[u] /\ pc'[u] = pc[u]
    BY <1>1, <1>3 DEF Execute
  <2>2. Len(<<Frame(t)>>) = 1 /\ Last(<<Frame(t)>>) = Frame(t) /\ Frame(t).todo = {}
    BY <1>1 DEF Last, Frame
  <2>3. Last(frames'[t]).todo = {} /\ Len(frames'[t]) = 1
    BY <2>1, <2>2
  <2>4. OwnFrame'
    <3>1. \A u \in Targets \ {t} : Len(frames'[u]) <= 1 /\ pc'[u] \notin {"asking", "joined"}
      BY <1>1, <2>1 DEF OwnFrame
    <3>2. Len(frames'[t]) <= 1 /\ pc'[t] \notin {"asking", "joined"}
      BY <2>1, <2>3
    <3>. QED  BY <3>1, <3>2 DEF OwnFrame
  <2>5. NothingTodo'
    BY <1>1, <2>1, <2>3 DEF NothingTodo, Top
  <2>. QED  BY <2>4, <2>5
<1>4. ASSUME NEW stage \in Terminal, EndTask(t, stage) PROVE OwnFrame' /\ NothingTodo'
  <2>1. /\ frames'[t] = << >> /\ pc'[t] = stage
        /\ \A u \in Targets \ {t} : frames'[u] = frames[u] /\ pc'[u] = pc[u]
    BY <1>1, <1>4 DEF EndTask
  <2>2. Len(<< >>) = 0
    OBVIOUS
  <2>. QED  BY <1>1, <1>4, <2>1, <2>2 DEF OwnFrame, NothingTodo, Top, Terminal
<1>5. CASE \/ Skip(t) \/ SetChangeHash(t) \/ LoadHit(t) \/ StartCommand(t) \/ CommandFails(t)
           \/ PersistFails(t)
  BY <1>1, <1>2, <1>5 DEF Skip, SetChangeHash, LoadHit, StartCommand, CommandFails,
     PersistFails, taskVars, OwnFrame
<1>6. CASE CheckCache(t)
  <2>1. Execute(t) \/ (UNCHANGED frames /\ \A u \in Targets : pc'[u] \notin {"asking", "joined"})
    BY <1>1, <1>6, CheckCacheDecides DEF OwnFrame
  <2>. QED  BY <1>2, <1>3, <2>1
<1>7. CASE LoadHitFails(t)
  BY <1>3, <1>7 DEF LoadHitFails
<1>8. CASE CommandSucceeds(t)
  <2>1. ~(Len(frames[t]) > 1)
    <3>1. pc[t] = "running"
      BY <1>8 DEF CommandSucceeds
    <3>2. Len(frames[t]) = 1
      BY <3>1, OwnTask
    <3>. QED  BY <3>2
  <2>2. EndTask(t, "succeeded")
    BY <1>8, <2>1, Zenon DEF CommandSucceeds
  <2>. QED  BY <1>4, <2>2 DEF Terminal
<1>9. CASE Unwind(t)
  <2>1. ~(Len(frames[t]) > 1)
    <3>1. pc[t] = "unwinding"
      BY <1>9 DEF Unwind
    <3>2. Len(frames[t]) = 1
      BY <3>1, OwnTask
    <3>. QED  BY <3>2
  <2>2. EndTask(t, "failed")
    BY <1>9, <2>1, Zenon DEF Unwind
  <2>. QED  BY <1>4, <2>2 DEF Terminal
<1>10. ~(JoinRerun(t) \/ StartRerun(t))
  BY <1>1 DEF JoinRerun, StartRerun, OwnFrame
<1>11. ASSUME NEW d \in Targets PROVE ~(DepIsLoaded(t, d) \/ LoadDep(t, d) \/ LoadDepFails(t, d))
  BY OwnTask DEF DepIsLoaded, LoadDep, LoadDepFails
<1>. QED  BY <1>5, <1>6, <1>7, <1>8, <1>9, <1>10, <1>11 DEF Task

\* Tables stay tables, and a task writes into them for its own target only.
LEMMA TaskAlone ==
  ASSUME AllMode, RInv, FInv, NEW t \in Targets, Task(t)
  PROVE  /\ phase = "building" /\ phase' = "building" /\ source' = source /\ cacheOn' = cacheOn
         /\ pc[t] \notin Terminal /\ Tables'
         /\ \A u \in Targets \ {t} :
              /\ pc'[u] = pc[u] /\ changeHash'[u] = changeHash[u]
              /\ outputHash'[u] = outputHash[u] /\ workspace'[u] = workspace[u]
<1>. DEFINE Same == \A u \in Targets \ {t} :
              /\ pc'[u] = pc[u] /\ changeHash'[u] = changeHash[u]
              /\ outputHash'[u] = outputHash[u] /\ workspace'[u] = workspace[u]
<1>1. pc \in [Targets -> Stages] /\ Tables
  BY DEF RInv, TypeOK, FInv
<1>2. ~(JoinRerun(t) \/ StartRerun(t))
  BY DEF JoinRerun, StartRerun, OwnFrame, FInv
<1>3. ASSUME NEW d \in Targets PROVE ~(DepIsLoaded(t, d) \/ LoadDep(t, d) \/ LoadDepFails(t, d))
  BY OwnTask DEF DepIsLoaded, LoadDep, LoadDepFails
<1>4. /\ phase = "building" /\ phase' = "building" /\ source' = source /\ cacheOn' = cacheOn
      /\ pc[t] \notin Terminal
  BY <1>2, <1>3 DEF RInv, TypeOK, Rested, Terminal, Task, Skip, SetChangeHash, CheckCache,
     LoadHit, LoadHitFails, StartCommand, CommandSucceeds, CommandFails, PersistFails, Unwind,
     buildVars, userVars
<1>5. pc[t] \in {"running", "unwinding", "deps"} => Cur(t) = t /\ ~(Len(frames[t]) > 1)
  <2>1. SUFFICES ASSUME pc[t] \in {"running", "unwinding", "deps"}
                 PROVE  Cur(t) = t /\ ~(Len(frames[t]) > 1)
    OBVIOUS
  <2>2. Cur(t) = t /\ Len(frames[t]) = 1
    BY <2>1, OwnTask
  <2>. QED  BY <2>2
<1>6. CASE Skip(t) \/ CommandFails(t)
  BY <1>1, <1>4, <1>6 DEF Skip, CommandFails, targetVars, Tables
<1>7. CASE SetChangeHash(t) \/ LoadHitFails(t)
  BY <1>1, <1>4, <1>7 DEF SetChangeHash, LoadHitFails, Execute, targetVars, Tables
<1>13. CASE CheckCache(t)
  BY <1>1, <1>4, <1>13, CheckCacheDecides DEF Execute, Tables, AllMode, RInv, TypeOK
<1>8. CASE LoadHit(t)
  BY <1>1, <1>4, <1>8 DEF LoadHit, LoadOutputs, Tables
<1>9. CASE StartCommand(t)
  BY <1>1, <1>4, <1>5, <1>9 DEF StartCommand, targetVars, Tables
<1>10. CASE CommandSucceeds(t)
  <2>1. EndTask(t, "succeeded") /\ Cur(t) = t /\ UNCHANGED changeHash
    BY <1>5, <1>10, Zenon DEF CommandSucceeds
  <2>2. \E content : Produced(t, t, content)
    BY <1>10, <2>1 DEF CommandSucceeds
  <2>. QED  BY <1>1, <1>4, <2>1, <2>2 DEF EndTask, Produced, Tables
<1>11. CASE PersistFails(t)
  <2>1. Cur(t) = t /\ UNCHANGED changeHash /\ pc' = [pc EXCEPT ![t] = "unwinding"]
    BY <1>5, <1>11, Zenon DEF PersistFails
  <2>2. \E content : Produced(t, t, content)
    BY <1>11, <2>1 DEF PersistFails
  <2>. QED  BY <1>1, <1>4, <2>1, <2>2 DEF Produced, Tables
<1>12. CASE Unwind(t)
  <2>1. EndTask(t, "failed")
    BY <1>5, <1>12, Zenon DEF Unwind
  <2>. QED  BY <1>1, <1>4, <1>12, <2>1 DEF Unwind, EndTask, targetVars, Tables
<1>. QED  BY <1>2, <1>3, <1>6, <1>7, <1>8, <1>9, <1>10, <1>11, <1>12, <1>13 DEF Task

\* So a target that is done stays fresh, and its key stays what it was: what it
\* depends on was done before it.
LEMMA OthersStayFresh ==
  ASSUME AllMode, Declared, RInv, FInv, NEW t \in Targets, Task(t), NEW u \in Targets \ {t}
  PROVE  Hashed(u)' /\ Fresh(u)' /\ Hit(u)'
<1>1. /\ phase = "building" /\ source' = source /\ cacheOn' = cacheOn /\ pc[t] # "succeeded"
      /\ \A v \in Targets \ {t} :
           /\ pc'[v] = pc[v] /\ changeHash'[v] = changeHash[v]
           /\ outputHash'[v] = outputHash[v] /\ workspace'[v] = workspace[v]
  BY TaskAlone DEF Terminal
<1>2. Hashed(u) /\ Fresh(u) /\ Hit(u)
  BY <1>1 DEF FInv
<1>3. pc[u] \notin {"pending", "skipped"} => \A d \in TargetDeps(u) : d \in Targets \ {t}
  BY <1>1 DEF RInv, DepsDone, TargetDeps
<1>4. Hashed(u)'
  <2>1. SUFFICES ASSUME pc[u] \notin {"pending", "skipped"}
                 PROVE  {outputHash'[d] : d \in TargetDeps(u)} = {outputHash[d] : d \in TargetDeps(u)}
    BY <1>1, <1>2 DEF Hashed
  <2>. QED  BY <1>1, <1>3, <2>1
<1>5. Fresh(u)'
  <2>1. SUFFICES ASSUME pc[u] = "succeeded"
                 PROVE  Produce(u, source, workspace') = Produce(u, source, workspace)
    BY <1>1, <1>2 DEF Fresh, Seen
  <2>2. \A d \in Reads[u] : Seen(d, source, workspace') = Seen(d, source, workspace)
    BY <1>1, <1>3, <2>1 DEF Declared, Seen
  <2>. QED  BY <2>2 DEF Produce
<1>6. Hit(u)'
  BY <1>1, <1>2 DEF Hit
<1>. QED  BY <1>4, <1>5, <1>6

\* A finished command has made what its input and its dependencies ask for, and the
\* hash and the result that are kept of it say so.
LEMMA CommandIsFresh ==
  ASSUME AllMode, Declared, Attributable, RInv, FInv, NEW t \in Targets, CommandSucceeds(t)
  PROVE  Fresh(t)' /\ Sound(changeHash[t], ResultOf(t, Produce(t, source, workspace)))
<1>1. /\ pc[t] = "running" /\ phase = "building"
      /\ \A d \in TargetDeps(t) : d \in Targets /\ pc[d] = "succeeded"
      /\ Cur(t) = t /\ Task(t)
  BY OwnTask DEF CommandSucceeds, Task
<1>. DEFINE content == Produce(t, source, workspace)
<1>2. /\ Produced(t, t, content) /\ source' = source /\ cacheOn' = cacheOn
      /\ \A u \in Targets \ {t} : workspace'[u] = workspace[u]
  BY <1>1, TaskAlone DEF CommandSucceeds
<1>3. /\ workspace'[t] = content /\ outputHash'[t] = HashOf(t, content)
  BY <1>2 DEF Produced, FInv, Tables
<1>4. Hashed(t) /\ \A d \in TargetDeps(t) : Fresh(d)
  BY <1>1 DEF FInv
<1>5. /\ changeHash[t].label = t /\ changeHash[t].input = source[t]
      /\ DOMAIN changeHash[t] = {"label", "input", "deps"}
  BY <1>1, <1>4 DEF Hashed
<1>6. Produce(t, source, workspace') = content
  <2>1. \A d \in Reads[t] : d \in Targets \ {t}
    BY <1>1 DEF Declared
  <2>2. \A d \in Reads[t] : Seen(d, source, workspace') = Seen(d, source, workspace)
    BY <1>2, <2>1 DEF Seen
  <2>. QED  BY <2>2 DEF Produce
<1>7. cacheOn /\ t \notin NoOutputs => Meant(changeHash[t]) = content
  BY <1>1, <1>4, KeyMeans
<1>8. ~cacheOn => NoOutputs = {}
  <2>1. cacheOn \in CacheOptions /\ CacheOptions \subseteq BOOLEAN
    BY OptionsAssumption DEF RInv, TypeOK
  <2>2. ~cacheOn => FALSE \in CacheOptions
    BY <2>1
  <2>. QED  BY <2>2 DEF Attributable
<1>. HIDE DEF content
<1>9. Sound(changeHash[t], ResultOf(t, content))
  BY <1>5, <1>7, <1>8 DEF Sound, ResultOf, HashOf, Uncached, Attributable
<1>10. cacheOn => Fits(t, HashOf(t, content)) /\ Digest(t, HashOf(t, content)) = Seen(t, source, workspace')
  <2>1. CASE t \in NoOutputs
    BY <1>1, <1>4, <1>5, <2>1 DEF HashOf, Uncached, Attributable, Fits, Digest, Seen
  <2>2. CASE t \in NoCache
    BY <1>3, <2>2 DEF HashOf, Uncached, RawHash, Attributable, Fits, Digest, Seen
  <2>3. CASE t \notin NoOutputs \cup NoCache
    BY <1>3, <2>3 DEF HashOf, Uncached, OutputHash, Fits, Digest, Seen
  <2>. QED  BY <2>1, <2>2, <2>3
<1>11. Fresh(t)'
  BY <1>2, <1>3, <1>6, <1>10 DEF Fresh
<1>. QED  BY <1>9, <1>11 DEF content

\* The key of a target stays what it was while its task goes on.
LEMMA KeyStays ==
  ASSUME AllMode, RInv, FInv, NEW t \in Targets, Task(t), pc[t] # "pending",
         changeHash'[t] = changeHash[t]
  PROVE  Hashed(t)'
<1>1. /\ phase = "building" /\ source' = source /\ pc[t] \notin {"pending", "skipped", "succeeded"}
      /\ \A u \in Targets \ {t} : outputHash'[u] = outputHash[u]
  BY TaskAlone DEF Terminal
<1>2. \A d \in TargetDeps(t) : d \in Targets \ {t}
  BY <1>1 DEF RInv, DepsDone, TargetDeps
<1>3. {outputHash'[d] : d \in TargetDeps(t)} = {outputHash[d] : d \in TargetDeps(t)}
  BY <1>1, <1>2
<1>. QED  BY <1>1, <1>3 DEF FInv, Hashed

\* A hit that loads is as fresh as if it had been built.
LEMMA HitIsFresh ==
  ASSUME AllMode, Declared, Attributable, RInv, FInv, NEW t \in Targets, LoadHit(t)
  PROVE  Fresh(t)'
<1>1. /\ pc[t] = "loading" /\ CanLoad(t) /\ LoadOutputs(t) /\ Task(t)
  BY DEF LoadHit, Task
<1>2. /\ phase = "building" /\ source' = source /\ cacheOn' = cacheOn
      /\ \A u \in Targets \ {t} : workspace'[u] = workspace[u]
  BY <1>1, TaskAlone
<1>3. /\ \A d \in TargetDeps(t) : d \in Targets \ {t} /\ pc[d] = "succeeded"
      /\ cacheOn /\ t \notin NoCache /\ Hashed(t) /\ \A d \in TargetDeps(t) : Fresh(d)
  BY <1>1, <1>2 DEF FInv, Hit, RInv, DepsDone, TargetDeps
<1>4. /\ changeHash[t].label = t /\ changeHash[t].input = source[t]
      /\ DOMAIN changeHash[t] = {"label", "input", "deps"}
  BY <1>1, <1>3 DEF Hashed
<1>5. Sound(changeHash[t], Result(t)) /\ changeHash[t] \in DOMAIN results
  BY <1>1 DEF CanLoad, HasResult, Result, FInv, CacheSound
<1>6. outputHash'[t] = Result(t).outputHash
  BY <1>1 DEF LoadOutputs, FInv, Tables
<1>7. CASE t \in NoOutputs
  <2>1. outputHash'[t] = changeHash[t]
    BY <1>4, <1>5, <1>6, <1>7 DEF Sound
  <2>. QED  BY <1>2, <1>3, <1>4, <1>7, <2>1 DEF Fresh, Fits, Digest, Seen
<1>8. CASE t \notin NoOutputs
  <2>1. Result(t).content = Meant(changeHash[t]) /\ Result(t).outputHash = OutputHash(t, Result(t).content)
    BY <1>1, <1>3, <1>4, <1>5, <1>8 DEF Sound, CanLoad
  <2>2. workspace'[t] = Result(t).content
    BY <1>1, <1>8 DEF LoadOutputs, FInv, Tables
  <2>3. Meant(changeHash[t]) = Produce(t, source, workspace)
    BY <1>1, <1>3, <1>8, KeyMeans
  <2>4. Produce(t, source, workspace') = Produce(t, source, workspace)
    <3>1. \A d \in Reads[t] : Seen(d, source, workspace') = Seen(d, source, workspace)
      BY <1>2, <1>3 DEF Declared, Seen
    <3>. QED  BY <3>1 DEF Produce
  <2>5. workspace'[t] = Produce(t, source, workspace')
    BY <2>1, <2>2, <2>3, <2>4
  <2>6. Fits(t, outputHash'[t]) /\ Digest(t, outputHash'[t]) = workspace'[t]
    BY <1>3, <1>6, <1>8, <2>1, <2>2 DEF Fits, Digest, OutputHash
  <2>. QED  BY <1>2, <1>8, <2>5, <2>6 DEF Fresh, Seen
<1>. QED  BY <1>7, <1>8

\* A sound result leaves the cache sound, whether it is stored or on its way.
LEMMA PersistIsSound ==
  ASSUME CacheSound, NEW key, NEW result, Persist(key, result), Sound(key, result)
  PROVE  CacheSound'
<1>1. CASE /\ writes' = writes \cup {[key |-> key, result |-> result]} /\ UNCHANGED cacheVars
  BY <1>1 DEF CacheSound, cacheVars
<1>2. CASE results' = Stored(key, result) /\ UNCHANGED writes
  BY <1>2 DEF CacheSound, Stored
<1>. QED  BY <1>1, <1>2 DEF Persist

\* Every step of a task keeps the invariant.
LEMMA TaskKeepsFresh ==
  ASSUME AllMode, Declared, Attributable, RInv, FInv, NEW t \in Targets, Task(t)
  PROVE  FInv'
<1>1. /\ phase = "building" /\ phase' = "building" /\ source' = source /\ cacheOn' = cacheOn
      /\ pc[t] \notin Terminal /\ Tables'
  BY TaskAlone
<1>2. Hashed(t) /\ pc \in [Targets -> Stages] /\ mode = "all" /\ Tables
  BY <1>1 DEF FInv, RInv, TypeOK, AllMode
<1>3. Hashed(t)' /\ Fresh(t)' /\ Hit(t)'
  <2>1. CASE Skip(t)
    <3>1. pc'[t] = "skipped"
      BY <1>2, <2>1 DEF Skip
    <3>. QED  BY <3>1 DEF Hashed, Fresh, Hit
  <2>2. CASE SetChangeHash(t)
    <3>1. /\ pc'[t] = "queued" /\ changeHash'[t] = ChangeHash(t, source, outputHash)
          /\ outputHash' = outputHash
      BY <1>2, <2>2 DEF SetChangeHash, Tables
    <3>2. Hashed(t)'
      BY <1>1, <3>1 DEF Hashed, ChangeHash, Multiset
    <3>. QED  BY <3>1, <3>2 DEF Fresh, Hit
  <2>3. CASE CheckCache(t)
    <3>1. /\ pc[t] # "pending" /\ changeHash' = changeHash
          /\ \/ pc'[t] = "deps"
             \/ pc'[t] = "loading" /\ cacheOn /\ t \notin NoCache
      BY <1>2, <2>3, CheckCacheDecides DEF Execute, IsHit
    <3>2. Hashed(t)'
      BY <3>1, KeyStays
    <3>. QED  BY <1>1, <3>1, <3>2 DEF Fresh, Hit
  <2>4. CASE LoadHit(t)
    <3>1. pc[t] # "pending" /\ pc'[t] = "succeeded" /\ changeHash' = changeHash
      BY <1>2, <2>4 DEF LoadHit
    <3>2. Hashed(t)'
      BY <3>1, KeyStays
    <3>. QED  BY <2>4, <3>1, <3>2, HitIsFresh DEF Hit
  <2>5. CASE LoadHitFails(t) \/ StartCommand(t) \/ CommandFails(t) \/ PersistFails(t)
    <3>1. /\ pc[t] # "pending" /\ pc'[t] \in {"deps", "running", "unwinding"}
          /\ changeHash' = changeHash
      BY <1>2, <2>5 DEF LoadHitFails, Execute, StartCommand, CommandFails, PersistFails, targetVars
    <3>2. Hashed(t)'
      BY <3>1, KeyStays
    <3>. QED  BY <3>1, <3>2 DEF Fresh, Hit
  <2>6. CASE CommandSucceeds(t)
    <3>1. pc[t] = "running" /\ changeHash' = changeHash
      BY <2>6 DEF CommandSucceeds
    <3>2. ~(Len(frames[t]) > 1)
      <4>1. Len(frames[t]) = 1
        BY <3>1, OwnTask
      <4>. QED  BY <4>1
    <3>3. EndTask(t, "succeeded")
      BY <2>6, <3>2, Zenon DEF CommandSucceeds
    <3>4. pc'[t] = "succeeded"
      BY <1>2, <3>3 DEF EndTask
    <3>5. Hashed(t)'
      BY <3>1, KeyStays
    <3>. QED  BY <2>6, <3>4, <3>5, CommandIsFresh DEF Hit
  <2>7. CASE Unwind(t)
    <3>1. pc[t] = "unwinding" /\ changeHash' = changeHash
      BY <2>7 DEF Unwind, targetVars
    <3>2. ~(Len(frames[t]) > 1)
      <4>1. Len(frames[t]) = 1
        BY <3>1, OwnTask
      <4>. QED  BY <4>1
    <3>3. EndTask(t, "failed")
      BY <2>7, <3>2, Zenon DEF Unwind
    <3>4. pc'[t] = "failed"
      BY <1>2, <3>3 DEF EndTask
    <3>5. Hashed(t)'
      BY <3>1, KeyStays
    <3>. QED  BY <3>4, <3>5 DEF Fresh, Hit
  <2>8. ~(JoinRerun(t) \/ StartRerun(t))
    BY DEF JoinRerun, StartRerun, OwnFrame, FInv
  <2>9. ASSUME NEW d \in Targets PROVE ~(DepIsLoaded(t, d) \/ LoadDep(t, d) \/ LoadDepFails(t, d))
    BY OwnTask DEF DepIsLoaded, LoadDep, LoadDepFails
  <2>. QED  BY <2>1, <2>2, <2>3, <2>4, <2>5, <2>6, <2>7, <2>8, <2>9 DEF Task
<1>4. \A u \in Targets : Hashed(u)' /\ Fresh(u)' /\ Hit(u)'
  BY <1>3, OthersStayFresh
<1>5. CacheSound'
  <2>1. CASE CommandSucceeds(t)
    <3>. DEFINE key == changeHash[t]
                result == ResultOf(t, Produce(t, source, workspace))
    <3>1. Cur(t) = t
      <4>1. pc[t] = "running"
        BY <2>1 DEF CommandSucceeds
      <4>. QED  BY <4>1, OwnTask
    <3>2. Persist(key, result)
      BY <2>1, <3>1 DEF CommandSucceeds
    <3>3. Sound(key, result)
      BY <2>1, CommandIsFresh
    <3>. HIDE DEF key, result
    <3>. QED  BY <3>2, <3>3, PersistIsSound DEF FInv
  <2>2. CASE ~CommandSucceeds(t)
    <3>1. UNCHANGED <<results, writes>>
      BY <1>1, <2>2 DEF Task, Skip, SetChangeHash, CheckCache, LoadHit, LoadHitFails, DepIsLoaded,
         LoadDep, LoadDepFails, JoinRerun, StartRerun, StartCommand, CommandFails, PersistFails,
         Unwind, cacheVars, ioVars
    <3>. QED  BY <3>1 DEF FInv, CacheSound
  <2>. QED  BY <2>1, <2>2
<1>. QED  BY <1>1, <1>4, <1>5, FramesStayOwn DEF FInv


-----------------------------------------------------------------------------
(* Freshness: the other steps *)

\* Before the first build there is nothing to be stale.
LEMMA InitFInv == Init => FInv
<1>. SUFFICES ASSUME Init PROVE FInv
  OBVIOUS
<1>1. Len(<< >>) = 0
  OBVIOUS
<1>2. OwnFrame /\ NothingTodo
  BY <1>1 DEF Init, OwnFrame, NothingTodo
<1>. QED  BY <1>2 DEF Init, FInv, Tables, CacheSound

\* What a step leaves alone keeps its freshness.
LEMMA SameStaysFresh ==
  ASSUME FInv, UNCHANGED <<source, workspace, changeHash, outputHash, cacheOn, pc, frames>>,
         phase' = "building" => phase = "building", CacheSound'
  PROVE  FInv'
<1>1. Tables' /\ OwnFrame' /\ NothingTodo'
  BY DEF FInv, Tables, OwnFrame, NothingTodo, Top
<1>2. ASSUME phase' = "building", NEW t \in Targets PROVE Hashed(t)' /\ Fresh(t)' /\ Hit(t)'
  <2>1. Hashed(t) /\ Fresh(t) /\ Hit(t)
    BY <1>2 DEF FInv
  <2>2. UNCHANGED <<source, workspace, changeHash, outputHash, cacheOn, pc>>
    OBVIOUS
  <2>3. Hashed(t)' /\ Hit(t)'
    BY ONLY <2>1, <2>2 DEF Hashed, Hit
  <2>4. Fresh(t)'
    BY ONLY <2>1, <2>2 DEF Fresh, Fits, Digest, Seen, Produce
  <2>. QED  BY <2>3, <2>4
<1>. QED  BY <1>1, <1>2 DEF FInv

\* Between builds anything may happen to sources and workspace.
LEMMA IdleStaysFresh ==
  ASSUME FInv, phase' # "building", UNCHANGED <<changeHash, outputHash, pc, frames>>,
         DOMAIN workspace' = Targets, CacheSound'
  PROVE  FInv'
BY DEF FInv, Tables, OwnFrame, NothingTodo, Top

\* The steps outside the tasks keep the invariant: those of the user, of the cache
\* and of the I/O pool, the start and the end of a build, and a crash.
LEMMA OutsideKeepsFresh ==
  ASSUME FInv,
         \/ \E t \in Targets : Edit(t) \/ Taint(t) \/ ClearTaint(t)
         \/ Checkout \/ Evict \/ StartBuild \/ EndBuild \/ Crash
         \/ \E w \in writes : Commit(w) \/ CommitFails(w)
         \/ UNCHANGED vars
  PROVE  FInv'
<1>1. CASE \E t \in Targets : Edit(t)
  <2>1. CacheSound' /\ phase' # "building" /\ UNCHANGED <<changeHash, outputHash, pc, frames, workspace>>
    BY <1>1 DEF Edit, FInv, CacheSound, cacheVars, buildVars, targetVars, taskVars, ioVars
  <2>. QED  BY <2>1, IdleStaysFresh DEF FInv, Tables
<1>2. CASE Checkout
  <2>1. CacheSound' /\ phase' # "building" /\ UNCHANGED <<changeHash, outputHash, pc, frames>>
    BY <1>2 DEF Checkout, FInv, CacheSound, cacheVars, buildVars, targetVars, taskVars, ioVars
  <2>2. DOMAIN workspace' = Targets
    BY <1>2 DEF Checkout
  <2>. QED  BY <2>1, <2>2, IdleStaysFresh
<1>3. CASE Evict
  <2>1. /\ phase' # "building" /\ UNCHANGED <<changeHash, outputHash, pc, frames, workspace, writes>>
        /\ DOMAIN results' \subseteq DOMAIN results
        /\ \A k \in DOMAIN results' : results'[k] = results[k]
    BY <1>3 DEF Evict, buildVars, targetVars, taskVars, ioVars
  <2>2. CacheSound'
    BY <2>1 DEF FInv, CacheSound
  <2>. QED  BY <2>1, <2>2, IdleStaysFresh DEF FInv, Tables
<1>4. CASE (\E t \in Targets : Taint(t) \/ ClearTaint(t)) \/ UNCHANGED vars
  <2>1. /\ UNCHANGED <<source, workspace, changeHash, outputHash, cacheOn, pc, frames, phase>>
        /\ CacheSound'
    BY <1>4 DEF Taint, ClearTaint, vars, userVars, FInv, CacheSound, cacheVars, buildVars, targetVars,
       taskVars, ioVars
  <2>. QED  BY <2>1, SameStaysFresh
<1>5. CASE StartBuild
  <2>1. CacheSound' /\ Tables'
    BY <1>5 DEF StartBuild, FInv, CacheSound, Tables, cacheVars, ioVars
  <2>2. \A t \in Targets : pc'[t] = "pending" /\ frames'[t] = << >>
    BY <1>5 DEF StartBuild, NoTasks
  <2>3. Len(<< >>) = 0
    OBVIOUS
  <2>. QED  BY <2>1, <2>2, <2>3 DEF FInv, OwnFrame, NothingTodo, Hashed, Fresh, Hit
<1>6. CASE EndBuild
  <2>1. CacheSound' /\ phase' # "building" /\ UNCHANGED <<changeHash, outputHash, pc, frames, workspace>>
    BY <1>6 DEF EndBuild, FInv, CacheSound, cacheVars, targetVars, taskVars
  <2>. QED  BY <2>1, IdleStaysFresh DEF FInv, Tables
<1>7. CASE Crash
  <2>1. CacheSound' /\ phase' # "building" /\ Tables'
    BY <1>7 DEF Crash, FInv, CacheSound, Tables, cacheVars, targetVars
  <2>2. \A t \in Targets : pc'[t] = "skipped" /\ frames'[t] = << >>
    BY <1>7 DEF Crash, NoTasks
  <2>3. Len(<< >>) = 0
    OBVIOUS
  <2>. QED  BY <2>1, <2>2, <2>3 DEF FInv, OwnFrame, NothingTodo
<1>8. ASSUME NEW w \in writes, Commit(w) \/ CommitFails(w) PROVE FInv'
  <2>1. UNCHANGED <<source, workspace, changeHash, outputHash, cacheOn, pc, frames, phase>>
    BY <1>8 DEF Commit, CommitFails, userVars, buildVars, targetVars, taskVars
  <2>2. Sound(w.key, w.result) /\ CacheSound
    BY DEF FInv, CacheSound
  <2>3. CacheSound'
    BY <1>8, <2>2 DEF Commit, CommitFails, Publish, Stored, CacheSound, cacheVars
  <2>. QED  BY <2>1, <2>3, SameStaysFresh
<1>. QED  BY <1>1, <1>2, <1>3, <1>4, <1>5, <1>6, <1>7, <1>8

\* What the invariant needs of the repository and of the options
Ordinary == AllMode /\ Declared /\ Attributable

\* In an ordinary repository the invariant holds for ever.
LEMMA FreshnessInvariant ==
  ASSUME Ordinary
  PROVE  Spec => []FInv
<1>1. RInv /\ FInv /\ [Next]_vars => FInv'
  BY TaskKeepsFresh, OutsideKeepsFresh DEF Next, Ordinary
<1>. QED  BY <1>1, InitFInv, RerunInvariant, PTL DEF Spec

-----------------------------------------------------------------------------
(* Freshness: builds from scratch *)

\* Of the targets in T, one depends on no other.
LEMMA SomeFirst ==
  ASSUME NEW T, T \subseteq Targets, T # {}
  PROVE  \E t \in T : TargetDeps(t) \cap T = {}
BY AcyclicAssumption

\* What commands make depends on what they see of the targets they read.
LEMMA SameSeenSameMade ==
  ASSUME NEW t \in Targets, NEW s, NEW f, NEW g, \A d \in Reads[t] : f[d] = g[d]
  PROVE  Produce(t, s, f) = Produce(t, s, g)
<1>1. \A d \in Reads[t] : Seen(d, s, f) = Seen(d, s, g)
  BY DEF Seen
<1>. QED  BY <1>1 DEF Produce

\* f is what commands make of sources s in the part D of the graph.
Solves(D, f, s) ==
  /\ D \subseteq Targets /\ \A t \in D : Reads[t] \subseteq D
  /\ f = [t \in D |-> Produce(t, s, f)]

\* There is one way to build a part of the graph from scratch at most,
LEMMA OneSolution ==
  ASSUME Declared, NEW s, NEW D, NEW E, NEW f, NEW g, Solves(D, f, s), Solves(E, g, s),
         NEW t \in D \cap E
  PROVE  f[t] = g[t]
<1>. DEFINE T == {x \in D \cap E : f[x] # g[x]}
<1>1. SUFFICES ASSUME T # {} PROVE FALSE
  OBVIOUS
<1>2. T \subseteq Targets
  BY DEF Solves
<1>3. PICK x \in T : TargetDeps(x) \cap T = {}
  BY <1>1, <1>2, SomeFirst
<1>4. x \in D /\ x \in E /\ x \in Targets /\ f[x] # g[x]
  BY <1>2
<1>5. \A d \in Reads[x] : d \in D /\ d \in E /\ d \in TargetDeps(x)
  BY <1>4 DEF Solves, Declared
<1>6. \A d \in Reads[x] : f[d] = g[d]
  BY <1>3, <1>5
<1>7. Produce(x, s, f) = Produce(x, s, g)
  BY <1>4, <1>6, SameSeenSameMade
<1>8. f[x] = Produce(x, s, f) /\ g[x] = Produce(x, s, g)
  BY <1>4 DEF Solves
<1>. QED  BY <1>4, <1>7, <1>8

\* and for the whole graph there is one.
LEMMA SomeSolution ==
  ASSUME Declared, NEW s
  PROVE  \E f : Solves(Targets, f, s)
<1>. DEFINE U == {t \in Targets : \E D, f : Solves(D, f, s) /\ t \in D}
            F == [t \in U |-> CHOOSE v : \E D, f : Solves(D, f, s) /\ t \in D /\ v = f[t]]
<1>1. ASSUME NEW D, NEW f, Solves(D, f, s), NEW t \in D PROVE t \in U /\ F[t] = f[t]
  <2>1. t \in U
    BY <1>1 DEF Solves
  <2>2. \E v : \E E, g : Solves(E, g, s) /\ t \in E /\ v = g[t]
    BY <1>1
  <2>3. PICK E, g : Solves(E, g, s) /\ t \in E /\ F[t] = g[t]
    BY <2>1, <2>2
  <2>. QED  BY <1>1, <2>1, <2>3, OneSolution
<1>2. ASSUME NEW t \in U PROVE Reads[t] \subseteq U /\ F[t] = Produce(t, s, F)
  <2>1. PICK D, f : Solves(D, f, s) /\ t \in D
    BY <1>2
  <2>2. Reads[t] \subseteq D /\ t \in Targets
    BY <2>1 DEF Solves
  <2>3. ASSUME NEW d \in Reads[t] PROVE d \in U /\ F[d] = f[d]
    <3>1. d \in D
      BY <2>2
    <3>. HIDE DEF U, F
    <3>. QED  BY <1>1, <2>1, <3>1
  <2>4. F[t] = f[t] /\ f[t] = Produce(t, s, f)
    BY <1>1, <2>1 DEF Solves
  <2>. HIDE DEF U, F
  <2>. QED  BY <2>2, <2>3, <2>4, SameSeenSameMade
<1>3. U = Targets
  <2>. DEFINE T == Targets \ U
  <2>1. SUFFICES ASSUME T # {} PROVE FALSE
    OBVIOUS
  <2>2. PICK x \in T : TargetDeps(x) \cap T = {}
    BY <2>1, SomeFirst
  <2>3. x \in Targets /\ x \notin U /\ Reads[x] \subseteq U
    BY <2>2 DEF Declared, TargetDeps
  <2>. DEFINE D == U \cup {x}
              g == [t \in D |-> IF t = x THEN Produce(x, s, F) ELSE F[t]]
  <2>4. U \subseteq Targets
    OBVIOUS
  <2>. HIDE DEF U, F
  <2>5. ASSUME NEW t \in D PROVE Reads[t] \subseteq D /\ g[t] = Produce(t, s, g)
    <3>1. Reads[t] \subseteq U /\ t \in Targets
      BY <1>2, <2>3, <2>4
    <3>2. \A d \in Reads[t] : g[d] = F[d]
      BY <2>3, <3>1
    <3>3. Produce(t, s, g) = Produce(t, s, F)
      <4>. HIDE DEF g
      <4>. QED  BY <3>1, <3>2, SameSeenSameMade
    <3>4. g[t] = Produce(t, s, F)
      BY <1>2, <2>5
    <3>. QED  BY <3>1, <3>3, <3>4
  <2>6. Solves(D, g, s)
    <3>1. g = [t \in D |-> Produce(t, s, g)]
      <4>. DEFINE h == [t \in D |-> Produce(t, s, g)]
      <4>1. \A t \in D : g[t] = h[t]
        BY <2>5
      <4>2. DOMAIN g = D /\ DOMAIN h = D /\ g = [t \in D |-> g[t]] /\ h = [t \in D |-> h[t]]
        OBVIOUS
      <4>. HIDE DEF g, h
      <4>3. g = h
        BY <4>1, <4>2
      <4>. QED  BY <4>3 DEF h
    <3>. QED  BY <2>3, <2>4, <2>5, <3>1 DEF Solves
  <2>7. x \in U
    BY <1>1, <2>6
  <2>. QED  BY <2>3, <2>7
<1>4. Solves(Targets, F, s)
  <2>1. F = [t \in Targets |-> F[t]]
    BY <1>3
  <2>. HIDE DEF U, F
  <2>2. \A t \in Targets : Reads[t] \subseteq Targets /\ F[t] = Produce(t, s, F)
    BY <1>2, <1>3
  <2>3. F = [t \in Targets |-> Produce(t, s, F)]
    BY <2>1, <2>2
  <2>. QED  BY <2>2, <2>3 DEF Solves
<1>. QED  BY <1>4

\* A build from scratch is well defined: every output of Clean(s) is what the
\* command makes of s and of the other outputs of Clean(s).
LEMMA CleanIsBuilt ==
  ASSUME Declared, NEW s
  PROVE  \A t \in Targets : Clean(s)[t] = Produce(t, s, Clean(s))
<1>1. \E f : f = [t \in Targets |-> Produce(t, s, f)]
  BY SomeSolution DEF Solves
<1>2. Clean(s) = CHOOSE f : f = [t \in Targets |-> Produce(t, s, f)]
  BY DEF Clean
<1>3. Clean(s) = [t \in Targets |-> Produce(t, s, Clean(s))]
  BY <1>1, <1>2
<1>. QED  BY <1>3

-----------------------------------------------------------------------------
(* Freshness: theorems *)

\* What is done is as if built from scratch: the fresh outputs determine each
\* other along the graph, down to the sources.
LEMMA FreshIsClean ==
  ASSUME Declared, RInv, FInv, phase = "building", NEW t \in Targets \ NoOutputs,
         pc[t] = "succeeded"
  PROVE  workspace[t] = Clean(source)[t]
<1>. DEFINE Stale == {u \in Targets \ NoOutputs :
                        pc[u] = "succeeded" /\ workspace[u] # Clean(source)[u]}
<1>1. SUFFICES ASSUME Stale # {} PROVE FALSE
  OBVIOUS
<1>2. PICK x \in Stale : TargetDeps(x) \cap Stale = {}
  BY <1>1, SomeFirst
<1>3. /\ x \in Targets /\ x \notin NoOutputs /\ pc[x] = "succeeded"
      /\ workspace[x] # Clean(source)[x]
  OBVIOUS
<1>4. ASSUME NEW d \in Reads[x]
      PROVE  Seen(d, source, workspace) = Seen(d, source, Clean(source))
  <2>1. d \in TargetDeps(x) /\ d \in Targets
    BY <1>3, <1>4 DEF Declared, TargetDeps
  <2>2. pc[d] = "succeeded"
    BY <1>3, <2>1 DEF RInv, DepsDone
  <2>3. d \notin NoOutputs => workspace[d] = Clean(source)[d]
    BY <1>2, <2>1, <2>2
  <2>. QED  BY <2>3 DEF Seen
<1>5. Produce(x, source, workspace) = Produce(x, source, Clean(source))
  BY <1>4 DEF Produce
<1>6. workspace[x] = Produce(x, source, workspace)
  BY <1>3 DEF FInv, Fresh
<1>7. Clean(source)[x] = Produce(x, source, Clean(source))
  BY <1>3, CleanIsBuilt
<1>. QED  BY <1>3, <1>5, <1>6, <1>7

\* With load_outputs=all, a build leaves the outputs of a build from scratch: on
\* any acyclic graph in which commands read what their targets list and hashes
\* can be told apart, after any history of edits, lost cache entries, fresh
\* checkouts, failures, crashes and builds (getTaskFunc, GetTargetChangeHash).
THEOREM BuildsAreFresh ==
  ASSUME Ordinary
  PROVE  Spec => []OutputsMatchSource
<1>1. RInv /\ FInv => OutputsMatchSource
  BY FreshIsClean DEF OutputsMatchSource, Ordinary
<1>. QED  BY <1>1, RerunInvariant, FreshnessInvariant, PTL

\* Under the same conditions, while a command runs all it reads is in place and up
\* to date.
THEOREM CommandsSeeFreshInputs ==
  ASSUME Ordinary
  PROVE  Spec => []InputsReady
<1>1. RInv /\ FInv => InputsReady
  <2>1. SUFFICES ASSUME RInv, FInv, NEW t \in Targets, pc[t] = "running",
                        NEW d \in Reads[Cur(t)] \ NoOutputs
                 PROVE  workspace[d] = Clean(source)[d]
    BY DEF InputsReady
  <2>2. /\ phase = "building" /\ Cur(t) = t
        /\ \A e \in TargetDeps(t) : e \in Targets /\ pc[e] = "succeeded"
    BY <2>1, OwnTask DEF Ordinary
  <2>3. d \in Targets \ NoOutputs /\ pc[d] = "succeeded"
    BY <2>1, <2>2 DEF Ordinary, Declared
  <2>. QED  BY <2>1, <2>2, <2>3, FreshIsClean DEF Ordinary
<1>. QED  BY <1>1, RerunInvariant, FreshnessInvariant, PTL

-----------------------------------------------------------------------------
(* Warm builds *)

\* Every build uses the cache, and no output is the same as no file.
Caching ==
  /\ CacheOptions = {TRUE}
  /\ \A i, r : [input |-> i, read |-> r] # Unset

\* A result of a cacheable target lists its output,
Listing(k, r) == k.label \notin NoOutputs \cup NoCache => r.content # Unset

Listings ==
  /\ \A k \in DOMAIN results : Listing(k, results[k])
  /\ \A w \in writes : Listing(w.key, w.result)

\* and its blob is there unless the cache has lost one.
Blobs == warm # "lost" => \A k \in DOMAIN results : results[k].content \in cas \cup {Unset}

\* What the output hash of t is when its key is k and its output is x
HashFor(t, k, x) ==
  IF t \in NoOutputs THEN k ELSE IF t \in NoCache THEN RawHash(t, x) ELSE OutputHash(t, x)

\* The key of a target is the hash of what it now depends on, and its output hash
\* that of what is in the workspace.
Exact(t) ==
  /\ pc[t] \notin {"pending", "skipped"} => changeHash[t] = ChangeHash(t, source, outputHash)
  /\ pc[t] = "succeeded" => outputHash[t] = HashFor(t, changeHash[t], workspace[t])

\* A build that may turn out to have cached everything stores what is done.
Coming(k) == k \in DOMAIN results \/ \E w \in writes : w.key = k
Filling == phase = "building" /\ \A t \in Targets \ NoCache : pc[t] = "succeeded" => Coming(changeHash[t])

\* H are the output hashes of a build from scratch,
Hashes(H) == \A t \in Targets : H[t] = HashFor(t, ChangeHash(t, source, H), Clean(source)[t])
\* and the cache has the results of such a build.
Filled == \E H : Hashes(H) /\ \A t \in Targets \ NoCache : ChangeHash(t, source, H) \in DOMAIN results

\* Who runs, or has run, in a build over such a cache had a taint.
OnlyTainted ==
  phase = "building" =>
    \A t \in Targets \ NoCache :
      pc[t] \in {"deps", "running", "unwinding"} \/ ran[t] > 0 => wasTainted[t]

WInv ==
  /\ Listings /\ Blobs
  /\ phase = "building" => \A t \in Targets : Exact(t)
  /\ warm = "open" => Filling
  /\ warm = "warm" => Filled /\ OnlyTainted

-----------------------------------------------------------------------------
(* Warm builds: keys *)

\* The key of a target depends on the hashes of its dependencies alone.
LEMMA SameHashesSameKey ==
  ASSUME NEW t, NEW s, NEW f, NEW g, \A d \in TargetDeps(t) : f[d] = g[d]
  PROVE  ChangeHash(t, s, f) = ChangeHash(t, s, g)
<1>. DEFINE D == TargetDeps(t)
<1>1. {f[d] : d \in D} = {g[d] : d \in D}
  OBVIOUS
<1>2. \A h : {d \in D : f[d] = h} = {d \in D : g[d] = h}
  OBVIOUS
<1>3. \A h : Cardinality({d \in D : f[d] = h}) = Cardinality({d \in D : g[d] = h})
  BY <1>2
<1>. HIDE DEF D
<1>4. Multiset(D, f) = Multiset(D, g)
  BY <1>1, <1>3 DEF Multiset
<1>. QED  BY <1>4 DEF ChangeHash, D

\* What is done in a building state has the hash of a build from scratch, and so has
\* the key of whatever has one.
LEMMA HashesAreExact ==
  ASSUME Ordinary, RInv, FInv, phase = "building", \A t \in Targets : Exact(t),
         NEW H, Hashes(H)
  PROVE  \A t \in Targets :
           /\ pc[t] = "succeeded" => outputHash[t] = H[t]
           /\ pc[t] \notin {"pending", "skipped"} => changeHash[t] = ChangeHash(t, source, H)
<1>1. ASSUME NEW t \in Targets, pc[t] \notin {"pending", "skipped"},
             \A d \in TargetDeps(t) : outputHash[d] = H[d]
      PROVE  changeHash[t] = ChangeHash(t, source, H)
  BY <1>1, SameHashesSameKey DEF Exact
<1>2. ASSUME NEW t \in Targets, pc[t] = "succeeded",
             \A d \in TargetDeps(t) : outputHash[d] = H[d]
      PROVE  outputHash[t] = H[t]
  <2>1. changeHash[t] = ChangeHash(t, source, H)
    BY <1>1, <1>2
  <2>2. outputHash[t] = HashFor(t, changeHash[t], workspace[t])
    BY <1>2 DEF Exact
  <2>3. t \notin NoOutputs => workspace[t] = Clean(source)[t]
    BY <1>2, FreshIsClean DEF Ordinary
  <2>4. H[t] = HashFor(t, ChangeHash(t, source, H), Clean(source)[t])
    BY DEF Hashes
  <2>. QED  BY <2>1, <2>2, <2>3, <2>4 DEF HashFor
<1>3. \A t \in Targets : pc[t] \notin {"pending", "skipped"} =>
        \A d \in TargetDeps(t) : d \in Targets /\ pc[d] = "succeeded"
  BY DEF RInv, DepsDone, TargetDeps
<1>4. \A t \in Targets : pc[t] = "succeeded" => outputHash[t] = H[t]
  <2>. DEFINE Off == {t \in Targets : pc[t] = "succeeded" /\ outputHash[t] # H[t]}
  <2>1. SUFFICES ASSUME Off # {} PROVE FALSE
    OBVIOUS
  <2>2. PICK x \in Off : TargetDeps(x) \cap Off = {}
    BY <2>1, SomeFirst
  <2>3. \A d \in TargetDeps(x) : outputHash[d] = H[d]
    BY <1>3, <2>2
  <2>. QED  BY <1>2, <2>2, <2>3
<1>. QED  BY <1>1, <1>3, <1>4

\* A build in which everything succeeded and was stored has filled the cache.
LEMMA DoneIsFilled ==
  ASSUME Ordinary, RInv, FInv, Filling, writes = {},
         \A t \in Targets : Exact(t) /\ pc[t] = "succeeded"
  PROVE  Filled
<1>1. phase = "building"
  BY DEF Filling
<1>2. Hashes(outputHash)
  <2>1. SUFFICES ASSUME NEW t \in Targets
                 PROVE  outputHash[t] = HashFor(t, ChangeHash(t, source, outputHash), Clean(source)[t])
    BY DEF Hashes
  <2>2. /\ changeHash[t] = ChangeHash(t, source, outputHash)
        /\ outputHash[t] = HashFor(t, changeHash[t], workspace[t])
    BY DEF Exact
  <2>3. t \notin NoOutputs => workspace[t] = Clean(source)[t]
    BY <1>1, FreshIsClean DEF Ordinary
  <2>. QED  BY <2>2, <2>3 DEF HashFor
<1>3. ASSUME NEW t \in Targets \ NoCache PROVE ChangeHash(t, source, outputHash) \in DOMAIN results
  BY DEF Filling, Coming, Exact
<1>. QED  BY <1>2, <1>3 DEF Filled

-----------------------------------------------------------------------------
(* Warm builds: tasks *)

\* A step of a task leaves the keys of what is done, and its own, exact.
LEMMA TaskKeepsExact ==
  ASSUME Ordinary, Caching, RInv, FInv, \A u \in Targets : Exact(u), NEW t \in Targets, Task(t)
  PROVE  \A u \in Targets : Exact(u)'
<1>1. /\ phase = "building" /\ source' = source /\ pc[t] \notin Terminal
      /\ \A u \in Targets \ {t} :
           /\ pc'[u] = pc[u] /\ changeHash'[u] = changeHash[u]
           /\ outputHash'[u] = outputHash[u] /\ workspace'[u] = workspace[u]
  BY TaskAlone DEF Ordinary
<1>2. /\ pc \in [Targets -> Stages] /\ mode = "all" /\ cacheOn = TRUE
      /\ DOMAIN changeHash = Targets /\ DOMAIN outputHash = Targets /\ DOMAIN workspace = Targets
      /\ NoCache \cap NoOutputs = {}
  BY DEF FInv, Tables, RInv, TypeOK, Ordinary, AllMode, Attributable, Caching
<1>3. ASSUME NEW u \in Targets, pc[u] \notin {"pending", "skipped"}
      PROVE  ChangeHash(u, source', outputHash') = ChangeHash(u, source, outputHash)
  <2>1. \A d \in TargetDeps(u) : d \in Targets \ {t}
    BY <1>1, <1>3 DEF RInv, DepsDone, TargetDeps, Terminal
  <2>2. \A d \in TargetDeps(u) : outputHash'[d] = outputHash[d]
    BY <1>1, <2>1
  <2>. QED  BY <1>1, <2>2, SameHashesSameKey
<1>4. ASSUME NEW u \in Targets \ {t} PROVE Exact(u)'
  BY <1>1, <1>3 DEF Exact
<1>5. ASSUME pc[t] # "pending", changeHash' = changeHash, pc'[t] # "succeeded" PROVE Exact(t)'
  BY <1>1, <1>3, <1>5 DEF Exact, Terminal
<1>6. CASE Skip(t)
  <2>1. pc'[t] = "skipped"
    BY <1>2, <1>6 DEF Skip
  <2>. QED  BY <1>4, <2>1 DEF Exact
<1>7. CASE SetChangeHash(t)
  <2>1. /\ pc'[t] = "queued" /\ changeHash'[t] = ChangeHash(t, source, outputHash)
        /\ outputHash' = outputHash
    BY <1>2, <1>7 DEF SetChangeHash
  <2>. QED  BY <1>1, <1>4, <2>1 DEF Exact
<1>8. CASE CheckCache(t) \/ LoadHitFails(t) \/ StartCommand(t) \/ CommandFails(t) \/ PersistFails(t)
  <2>1. /\ pc[t] # "pending" /\ changeHash' = changeHash
        /\ pc'[t] \in {"loading", "deps", "running", "unwinding"}
    <3>1. CASE CheckCache(t)
      <4>1. /\ pc[t] = "queued" /\ changeHash' = changeHash
            /\ \/ mode = "minimal"
               \/ pc' = [pc EXCEPT ![t] = "loading"]
               \/ pc' = [pc EXCEPT ![t] = "deps"]
        BY <3>1, CheckCacheDecides DEF Execute
      <4>. QED  BY <1>2, <4>1
    <3>. QED  BY <1>2, <1>8, <3>1 DEF Execute, LoadHitFails, StartCommand, CommandFails, PersistFails, targetVars
  <2>. QED  BY <1>4, <1>5, <2>1
<1>9. CASE LoadHit(t)
  <2>1. /\ pc[t] = "loading" /\ pc'[t] = "succeeded" /\ changeHash' = changeHash
        /\ CanLoad(t) /\ LoadOutputs(t)
    BY <1>2, <1>9 DEF LoadHit
  <2>2. /\ changeHash[t] \in DOMAIN results /\ changeHash[t].label = t
        /\ Sound(changeHash[t], Result(t)) /\ t \notin NoCache
    BY <1>1, <2>1 DEF CanLoad, HasResult, Result, FInv, CacheSound, Hashed, Hit
  <2>3. outputHash'[t] = Result(t).outputHash
    BY <1>2, <2>1 DEF LoadOutputs
  <2>4. outputHash'[t] = HashFor(t, changeHash[t], workspace'[t])
    <3>1. CASE t \in NoOutputs
      BY <2>2, <2>3, <3>1 DEF Sound, HashFor
    <3>2. CASE t \notin NoOutputs
      <4>1. workspace'[t] = Result(t).content /\ Result(t).content # Unset
        BY <1>2, <2>1, <3>2 DEF LoadOutputs, CanLoad
      <4>. QED  BY <2>2, <2>3, <3>2, <4>1 DEF Sound, HashFor
    <3>. QED  BY <3>1, <3>2
  <2>5. changeHash'[t] = ChangeHash(t, source', outputHash')
    BY <1>3, <2>1 DEF Exact
  <2>. QED  BY <1>4, <2>1, <2>4, <2>5 DEF Exact
<1>10. CASE CommandSucceeds(t)
  <2>1. pc[t] = "running" /\ changeHash' = changeHash
    BY <1>10 DEF CommandSucceeds
  <2>2. Cur(t) = t
    BY <2>1, OwnTask DEF Ordinary
  <2>. DEFINE content == Produce(t, source, workspace)
  <2>3. Produced(t, t, content)
    BY <1>10, <2>2 DEF CommandSucceeds
  <2>. HIDE DEF content
  <2>4. outputHash'[t] = HashOf(t, content) /\ workspace'[t] = content
    BY <1>2, <2>3 DEF Produced
  <2>5. outputHash'[t] = HashFor(t, changeHash[t], workspace'[t])
    BY <1>2, <2>4 DEF HashOf, HashFor, Uncached
  <2>6. changeHash'[t] = ChangeHash(t, source', outputHash')
    BY <1>3, <2>1 DEF Exact
  <2>. QED  BY <1>4, <2>1, <2>5, <2>6 DEF Exact
<1>11. CASE Unwind(t)
  <2>1. pc[t] = "unwinding" /\ changeHash' = changeHash
    BY <1>11 DEF Unwind, targetVars
  <2>2. ~(Len(frames[t]) > 1)
    <3>1. Len(frames[t]) = 1
      BY <2>1, OwnTask DEF Ordinary
    <3>. QED  BY <3>1
  <2>3. EndTask(t, "failed")
    BY <1>11, <2>2, Zenon DEF Unwind
  <2>4. pc'[t] = "failed"
    BY <1>2, <2>3 DEF EndTask
  <2>. QED  BY <1>4, <1>5, <2>1, <2>4
<1>12. ~(JoinRerun(t) \/ StartRerun(t))
  BY DEF JoinRerun, StartRerun, OwnFrame, FInv
<1>13. ASSUME NEW d \in Targets PROVE ~(DepIsLoaded(t, d) \/ LoadDep(t, d) \/ LoadDepFails(t, d))
  BY OwnTask DEF DepIsLoaded, LoadDep, LoadDepFails, Ordinary
<1>. QED  BY <1>6, <1>7, <1>8, <1>9, <1>10, <1>11, <1>12, <1>13 DEF Task

\* What a task does to the cache: nothing but store what its command made, on the
\* spot or in the I/O pool.
LEMMA TaskStores ==
  ASSUME Ordinary, Caching, RInv, FInv, Listings, NEW t \in Targets, Task(t)
  PROVE  /\ Listings'
         /\ Blobs => Blobs'
         /\ \A k : Coming(k) => Coming(k)'
         /\ DOMAIN results \subseteq DOMAIN results'
         /\ pc[t] # "succeeded" /\ pc'[t] = "succeeded" => Coming(changeHash[t])'
         /\ warm' = "lost" <=> warm = "lost"
         /\ warm' \in {"open", "warm"} => warm' = warm
<1>1. /\ pc \in [Targets -> Stages] /\ mode = "all" /\ cacheOn = TRUE
  BY DEF RInv, TypeOK, Ordinary, AllMode, Caching
<1>2. CASE CommandSucceeds(t)
  <2>1. pc[t] = "running" /\ warm' = warm
    BY <1>2 DEF CommandSucceeds
  <2>2. Cur(t) = t /\ phase = "building"
    BY <2>1, OwnTask DEF Ordinary
  <2>. DEFINE content == Produce(t, source, workspace)
              key == changeHash[t]
              result == ResultOf(t, content)
  <2>3. Persist(key, result)
    BY <1>2, <2>2 DEF CommandSucceeds
  <2>4. key.label = t
    BY <2>1, <2>2 DEF FInv, Hashed
  <2>5. t \notin NoOutputs => content # Unset
    BY DEF Produce, Caching
  <2>6. Listing(key, result)
    <3>. HIDE DEF content, key
    <3>. QED  BY <1>1, <2>4, <2>5 DEF Listing, ResultOf, Uncached
  <2>7. changeHash'[t] = key
    BY <1>2 DEF CommandSucceeds
  <2>8. Coming(changeHash[t])'
    <3>. HIDE DEF content, key, result
    <3>1. key \in DOMAIN results' \/ [key |-> key, result |-> result] \in writes'
      BY <2>3 DEF Persist, Stored
    <3>2. [key |-> key, result |-> result].key = key
      OBVIOUS
    <3>. QED  BY <2>7, <3>1, <3>2 DEF Coming
  <2>. HIDE DEF content, key, result
  <2>9. CASE writes' = writes \cup {[key |-> key, result |-> result]} /\ UNCHANGED cacheVars
    <3>1. Listings' /\ (Blobs => Blobs') /\ \A k : Coming(k) => Coming(k)'
      BY <2>1, <2>6, <2>9 DEF Listings, Blobs, Coming, cacheVars
    <3>. QED  BY <2>1, <2>8, <2>9, <3>1 DEF cacheVars
  <2>10. CASE /\ results' = Stored(key, result)
              /\ cas' = cas \cup ({result.content} \ {Unset})
              /\ UNCHANGED writes
    <3>1. /\ DOMAIN results' = DOMAIN results \cup {key} /\ results'[key] = result
          /\ \A k \in DOMAIN results : k # key => results'[k] = results[k]
      BY <2>10 DEF Stored
    <3>2. Listings' /\ (Blobs => Blobs') /\ \A k : Coming(k) => Coming(k)'
      BY <2>1, <2>6, <2>10, <3>1 DEF Listings, Blobs, Coming
    <3>. QED  BY <2>1, <2>8, <3>1, <3>2
  <2>. QED  BY <2>3, <2>9, <2>10 DEF Persist
<1>3. CASE ~CommandSucceeds(t)
  <2>1. UNCHANGED <<results, writes>> /\ cas \subseteq cas'
    BY <1>3 DEF Task, Skip, SetChangeHash, CheckCache, LoadHit, LoadHitFails, DepIsLoaded,
       LoadDep, LoadDepFails, JoinRerun, StartRerun, StartCommand, CommandFails, PersistFails,
       Unwind, cacheVars, ioVars
  <2>2. /\ warm' = "lost" <=> warm = "lost"
        /\ warm' \in {"open", "warm"} => warm' = warm
    BY <1>3, CheckCacheDecides DEF Task, Skip, SetChangeHash, LoadHit, LoadHitFails, DepIsLoaded,
       LoadDep, LoadDepFails, JoinRerun, StartRerun, StartCommand, CommandFails, PersistFails,
       Unwind, Cool
  <2>3. pc[t] # "succeeded" /\ pc'[t] = "succeeded" => LoadHit(t)
    <3>1. ~(JoinRerun(t) \/ StartRerun(t))
      BY DEF JoinRerun, StartRerun, OwnFrame, FInv
    <3>2. ASSUME NEW d \in Targets PROVE ~(DepIsLoaded(t, d) \/ LoadDep(t, d) \/ LoadDepFails(t, d))
      BY OwnTask DEF DepIsLoaded, LoadDep, LoadDepFails, Ordinary
    <3>3. Unwind(t) => pc'[t] = "failed"
      <4>1. SUFFICES ASSUME Unwind(t) PROVE pc'[t] = "failed"
        OBVIOUS
      <4>2. pc[t] = "unwinding"
        BY <4>1 DEF Unwind
      <4>3. ~(Len(frames[t]) > 1)
        <5>1. Len(frames[t]) = 1
          BY <4>2, OwnTask DEF Ordinary
        <5>. QED  BY <5>1
      <4>4. EndTask(t, "failed")
        BY <4>1, <4>3, Zenon DEF Unwind
      <4>. QED  BY <1>1, <4>4 DEF EndTask
    <3>. QED  BY <1>1, <1>3, <3>1, <3>2, <3>3, CheckCacheDecides DEF Task, Skip, SetChangeHash, Execute,
         LoadHitFails, StartCommand, CommandFails, PersistFails
  <2>4. LoadHit(t) => Coming(changeHash[t])'
    BY <2>1 DEF LoadHit, CanLoad, HasResult, Coming
  <2>5. Listings' /\ (Blobs => Blobs') /\ \A k : Coming(k) => Coming(k)'
    BY <2>1, <2>2 DEF Listings, Blobs, Coming
  <2>. QED  BY <2>1, <2>2, <2>3, <2>4, <2>5
<1>. QED  BY <1>2, <1>3

\* Over a cache that has all results of a build from scratch, a task runs its target
\* only if it was tainted when it looked.
LEMMA TaskIsTainted ==
  ASSUME Ordinary, Caching, RInv, FInv, Listings, Blobs, \A u \in Targets : Exact(u),
         warm = "warm", Filled, OnlyTainted, NEW t \in Targets, Task(t), warm' = "warm"
  PROVE  OnlyTainted'
<1>1. /\ phase = "building" /\ pc[t] \notin Terminal /\ pc \in [Targets -> Stages]
      /\ mode = "all" /\ cacheOn = TRUE
      /\ \A u \in Targets \ {t} : pc'[u] = pc[u]
  BY TaskAlone DEF Ordinary, RInv, TypeOK, AllMode, Caching
<1>2. ran \in [Targets -> Nat] /\ wasTainted \in [Targets -> BOOLEAN]
  BY DEF RInv, TypeOK
<1>3. ~(JoinRerun(t) \/ StartRerun(t))
  BY DEF JoinRerun, StartRerun, OwnFrame, FInv
<1>4. ASSUME NEW d \in Targets PROVE ~(DepIsLoaded(t, d) \/ LoadDep(t, d) \/ LoadDepFails(t, d))
  BY OwnTask DEF DepIsLoaded, LoadDep, LoadDepFails, Ordinary
<1>5. PICK H : Hashes(H) /\ \A u \in Targets \ NoCache : ChangeHash(u, source, H) \in DOMAIN results
  BY DEF Filled
<1>6. pc[t] \notin {"pending", "skipped"} /\ t \notin NoCache => HasResult(t)
  BY <1>1, <1>5, HashesAreExact DEF HasResult
<1>7. ASSUME NEW u \in Targets \ {t} PROVE ran'[u] = ran[u] /\ wasTainted'[u] = wasTainted[u]
  <2>1. CASE CommandSucceeds(t) \/ PersistFails(t)
    <3>1. pc[t] = "running" /\ wasTainted' = wasTainted
      BY <2>1 DEF CommandSucceeds, PersistFails
    <3>2. Cur(t) = t
      BY <3>1, OwnTask DEF Ordinary
    <3>3. ran' = [ran EXCEPT ![t] = @ + 1]
      BY <2>1, <3>2 DEF CommandSucceeds, PersistFails, Produced
    <3>. QED  BY <1>2, <3>1, <3>3
  <2>2. CASE CheckCache(t)
    BY <1>2, <2>2, CheckCacheDecides
  <2>. QED  BY <1>3, <1>4, <2>1, <2>2 DEF Task, Skip, SetChangeHash, LoadHit, LoadHitFails,
       StartCommand, CommandFails, Unwind, taskVars
<1>8. ASSUME t \notin NoCache, pc'[t] \in {"deps", "running", "unwinding"} \/ ran'[t] > 0
      PROVE  wasTainted'[t]
  <2>1. CASE pc[t] \in {"deps", "running", "unwinding"}
    <3>1. wasTainted[t]
      BY <1>1, <1>8, <2>1 DEF OnlyTainted
    <3>2. wasTainted' = wasTainted
      BY <1>3, <1>4, <2>1 DEF Task, Skip, SetChangeHash, CheckCache, LoadHit, LoadHitFails,
         StartCommand, CommandSucceeds, CommandFails, PersistFails, Unwind, taskVars
    <3>. QED  BY <3>1, <3>2
  <2>2. CASE pc[t] \in {"pending", "queued", "loading"}
    <3>1. ran[t] = 0
      BY <2>2 DEF RInv, NotYetRun
    <3>2. CASE CheckCache(t)
      <4>1. pc[t] = "queued" /\ ran' = ran /\ ~Cool
        BY <3>2, CheckCacheDecides DEF Cool
      <4>2. PICK isTainted \in BOOLEAN :
              /\ wasTainted' = [wasTainted EXCEPT ![t] = isTainted]
              /\ \/ pc' = [pc EXCEPT ![t] = "succeeded"]
                 \/ pc' = [pc EXCEPT ![t] = "loading"]
                 \/ ~IsHit(t, isTainted)
        BY <3>2, <4>1, CheckCacheDecides
      <4>3. ~IsHit(t, isTainted)
        BY <1>1, <1>2, <1>8, <3>1, <4>1, <4>2
      <4>. QED  BY <1>1, <1>2, <1>6, <1>8, <4>1, <4>2, <4>3 DEF IsHit
    <3>3. CASE LoadHitFails(t)
      <4>1. pc[t] = "loading" /\ phase = "building"
        BY <1>1, <3>3 DEF LoadHitFails
      <4>2. ~CanLoad(t)
        BY <3>3 DEF LoadHitFails, Cool
      <4>3. HasResult(t) /\ changeHash[t].label = t
        BY <1>6, <1>8, <4>1 DEF FInv, Hashed
      <4>4. t \notin NoOutputs => Result(t).content # Unset
        BY <1>8, <4>3 DEF Listings, Listing, HasResult, Result
      <4>5. Result(t).content \in cas \cup {Unset}
        BY <4>3 DEF Blobs, HasResult, Result
      <4>. QED  BY <4>2, <4>3, <4>4, <4>5 DEF CanLoad
    <3>4. CASE Skip(t) \/ SetChangeHash(t) \/ LoadHit(t)
      <4>1. ran' = ran /\ pc'[t] \notin {"deps", "running", "unwinding"}
        BY <1>1, <3>4 DEF Skip, SetChangeHash, LoadHit, taskVars
      <4>. QED  BY <1>2, <1>8, <3>1, <4>1
    <3>. QED  BY <1>3, <1>4, <2>2, <3>2, <3>3, <3>4 DEF Task, StartCommand, CommandSucceeds,
         CommandFails, PersistFails, Unwind
  <2>. QED  BY <1>1, <2>1, <2>2, <1>3 DEF Stages, Terminal, FInv, OwnFrame
<1>9. ASSUME NEW u \in Targets \ {t}, u \notin NoCache,
             pc'[u] \in {"deps", "running", "unwinding"} \/ ran'[u] > 0
      PROVE  wasTainted'[u]
  BY <1>1, <1>7, <1>9 DEF OnlyTainted
<1>. QED  BY <1>8, <1>9 DEF OnlyTainted

\* Every step of a task keeps the invariant.
LEMMA TaskKeepsWarm ==
  ASSUME Ordinary, Caching, RInv, FInv, WInv, NEW t \in Targets, Task(t)
  PROVE  WInv'
<1>1. /\ phase = "building" /\ phase' = "building" /\ source' = source /\ pc[t] \notin Terminal
      /\ \A u \in Targets \ {t} : pc'[u] = pc[u] /\ changeHash'[u] = changeHash[u]
  BY TaskAlone DEF Ordinary
<1>2. \A u \in Targets : Exact(u)
  BY <1>1 DEF WInv
<1>3. \A u \in Targets : Exact(u)'
  BY <1>2, TaskKeepsExact
<1>4. Listings /\ Blobs
  BY DEF WInv
<1>5. /\ Listings' /\ Blobs'
      /\ \A k : Coming(k) => Coming(k)'
      /\ DOMAIN results \subseteq DOMAIN results'
      /\ pc'[t] = "succeeded" => Coming(changeHash[t])'
      /\ warm' \in {"open", "warm"} => warm' = warm
  BY <1>1, <1>4, TaskStores DEF Terminal
<1>6. ASSUME warm' = "open" PROVE Filling'
  <2>1. Filling
    BY <1>5, <1>6 DEF WInv
  <2>2. ASSUME NEW u \in Targets \ NoCache, pc'[u] = "succeeded" PROVE Coming(changeHash[u])'
    <3>1. CASE u = t
      BY <1>5, <2>2, <3>1
    <3>2. CASE u # t
      <4>1. Coming(changeHash[u])
        BY <1>1, <2>1, <2>2, <3>2 DEF Filling
      <4>. QED  BY <1>1, <1>5, <3>2, <4>1
    <3>. QED  BY <3>1, <3>2
  <2>. QED  BY <1>1, <2>2 DEF Filling
<1>7. ASSUME warm' = "warm" PROVE Filled' /\ OnlyTainted'
  <2>1. warm = "warm" /\ Filled /\ OnlyTainted
    BY <1>5, <1>7 DEF WInv
  <2>2. Filled'
    BY <1>1, <1>5, <2>1 DEF Filled, Hashes
  <2>3. OnlyTainted'
    BY <1>2, <1>4, <1>7, <2>1, TaskIsTainted
  <2>. QED  BY <2>2, <2>3
<1>. QED  BY <1>3, <1>5, <1>6, <1>7 DEF WInv

-----------------------------------------------------------------------------
(* Warm builds: the other steps *)

\* The steps outside the tasks keep the invariant: edits and taints cool the cache,
\* losses cool it or are remembered, and the end of a build finds it filled.
LEMMA OutsideKeepsWarm ==
  ASSUME Ordinary, Caching, RInv, FInv, WInv,
         \/ \E t \in Targets : Edit(t) \/ Taint(t) \/ ClearTaint(t)
         \/ Checkout \/ Evict \/ StartBuild \/ EndBuild \/ Crash
         \/ \E w \in writes : Commit(w) \/ CommitFails(w)
         \/ UNCHANGED vars
  PROVE  WInv'
<1>1. Listings /\ Blobs
  BY DEF WInv
<1>2. ASSUME UNCHANGED <<results, writes>>, cas' = cas, warm' # "lost" => warm # "lost"
      PROVE  Listings' /\ Blobs'
  BY <1>1, <1>2 DEF Listings, Blobs
<1>3. CASE \E t \in Targets : Edit(t)
  <2>1. /\ phase' # "building" /\ warm' \notin {"open", "warm"} /\ UNCHANGED <<results, writes, cas>>
        /\ warm' # "lost" => warm # "lost"
    BY <1>3 DEF Edit, Cool, cacheVars, buildVars, ioVars
  <2>. QED  BY <1>2, <2>1 DEF WInv
<1>4. CASE \E t \in Targets : Taint(t)
  <2>1. /\ phase' = phase /\ warm' \notin {"open", "warm"} /\ UNCHANGED <<results, writes, cas>>
        /\ warm' # "lost" => warm # "lost"
        /\ UNCHANGED <<source, workspace, pc, changeHash, outputHash>>
    BY <1>4 DEF Taint, Cool, cacheVars, buildVars, targetVars, ioVars
  <2>2. phase = "building" => \A u \in Targets : Exact(u)'
    BY <2>1 DEF WInv, Exact
  <2>. QED  BY <1>2, <2>1, <2>2 DEF WInv
<1>5. CASE (\E t \in Targets : ClearTaint(t)) \/ UNCHANGED vars
  <2>1. UNCHANGED <<source, workspace, pc, changeHash, outputHash, phase, warm, results, writes, cas,
                    ran, wasTainted>>
    BY <1>5 DEF ClearTaint, cacheVars, buildVars, targetVars, taskVars, ioVars, userVars, vars
  <2>2. phase = "building" => \A u \in Targets : Exact(u)'
    BY <2>1 DEF WInv, Exact
  <2>3. warm = "open" => Filling'
    BY <2>1 DEF WInv, Filling, Coming
  <2>4. warm = "warm" => Filled' /\ OnlyTainted'
    BY <2>1 DEF WInv, Filled, Hashes, OnlyTainted
  <2>. QED  BY <1>2, <2>1, <2>2, <2>3, <2>4 DEF WInv
<1>6. CASE Checkout
  <2>1. /\ phase' # "building" /\ phase' = phase
        /\ UNCHANGED <<source, warm, results, writes, cas>>
    BY <1>6 DEF Checkout, cacheVars, buildVars, ioVars
  <2>2. warm # "open"
    BY <2>1 DEF WInv, Filling
  <2>3. warm = "warm" => Filled' /\ OnlyTainted'
    BY <2>1 DEF WInv, Filled, Hashes, OnlyTainted
  <2>. QED  BY <1>2, <2>1, <2>2, <2>3 DEF WInv
<1>7. CASE Evict
  <2>1. /\ phase' # "building" /\ UNCHANGED writes
        /\ DOMAIN results' \subseteq DOMAIN results
        /\ \A k \in DOMAIN results' : results'[k] = results[k]
        /\ warm' = "lost" \/ (cas' = cas /\ warm # "lost")
    BY <1>7 DEF Evict, Cool, buildVars, ioVars
  <2>2. Listings' /\ Blobs'
    BY <1>1, <2>1 DEF Listings, Blobs
  <2>3. phase' # "building" /\ warm' \notin {"open", "warm"}
    BY <1>7 DEF Evict, Cool, buildVars
  <2>. QED  BY <2>2, <2>3 DEF WInv
<1>8. CASE StartBuild
  <2>1. /\ UNCHANGED <<source, results, writes, cas>>
        /\ \A t \in Targets : pc'[t] = "pending" /\ ran'[t] = 0
        /\ warm' = warm \/ (warm = "cold" /\ warm' = "open")
        /\ phase' = "building" /\ phase # "building"
    BY <1>8 DEF StartBuild, NoTasks, cacheVars, ioVars, userVars
  <2>2. \A t \in Targets : Exact(t)'
    BY <2>1 DEF Exact
  <2>3. Filling'
    BY <2>1 DEF Filling
  <2>4. warm' = "warm" => Filled' /\ OnlyTainted'
    BY <2>1 DEF WInv, Filled, Hashes, OnlyTainted
  <2>. QED  BY <1>2, <2>1, <2>2, <2>3, <2>4 DEF WInv
<1>9. CASE EndBuild
  <2>1. /\ UNCHANGED <<source, results, writes, cas>>
        /\ phase = "building" /\ phase' # "building" /\ writes = {}
    BY <1>9 DEF EndBuild, cacheVars, userVars
  <2>. DEFINE all == \A t \in Targets : pc[t] = "succeeded"
  <2>2. warm' = IF warm # "open" THEN warm ELSE IF cacheOn /\ all THEN "warm" ELSE "cold"
    BY <1>9 DEF EndBuild
  <2>. HIDE DEF all
  <2>3. /\ warm' # "open" /\ (warm' # "lost" => warm # "lost")
        /\ warm' = "warm" => warm = "warm" \/ (warm = "open" /\ all)
    <3>1. CASE warm # "open"
      BY <2>2, <3>1
    <3>2. CASE warm = "open"
      BY <2>2, <3>2
    <3>. QED  BY <3>1, <3>2
  <2>4. warm' = "warm" => Filled
    <3>1. warm = "open" /\ all => Filled
      BY <2>1, DoneIsFilled DEF WInv, all
    <3>. QED  BY <2>3, <3>1 DEF WInv
  <2>5. warm' = "warm" => Filled' /\ OnlyTainted'
    BY <2>1, <2>4 DEF Filled, Hashes, OnlyTainted
  <2>. QED  BY <1>2, <2>1, <2>5, <2>3 DEF WInv
<1>10. CASE Crash
  <2>1. /\ UNCHANGED <<results, cas>> /\ writes' = {} /\ phase' # "building"
        /\ warm' \notin {"open", "warm"} /\ (warm' # "lost" => warm # "lost")
    BY <1>10 DEF Crash, Cool, cacheVars
  <2>2. Listings' /\ Blobs'
    BY <1>1, <2>1 DEF Listings, Blobs
  <2>. QED  BY <2>1, <2>2 DEF WInv
<1>11. ASSUME NEW w \in writes, Commit(w) PROVE WInv'
  <2>1. UNCHANGED <<source, workspace, pc, changeHash, outputHash, phase, warm, ran, wasTainted>>
    BY <1>11 DEF Commit, buildVars, targetVars, taskVars, userVars
  <2>2. /\ Listings' /\ Blobs' /\ DOMAIN results \subseteq DOMAIN results'
        /\ \A k : Coming(k) => Coming(k)'
    <3>1. CASE cas' = cas \cup {w.result.content} /\ UNCHANGED <<results, writes>>
      BY <1>1, <2>1, <3>1 DEF Listings, Blobs, Coming
    <3>2. CASE /\ w.result.content \in cas /\ results' = Stored(w.key, w.result)
               /\ writes' = writes \ {w} /\ UNCHANGED cas
      <4>1. /\ DOMAIN results' = DOMAIN results \cup {w.key} /\ results'[w.key] = w.result
            /\ \A k \in DOMAIN results : k # w.key => results'[k] = results[k]
        BY <3>2 DEF Stored
      <4>2. Listing(w.key, w.result)
        BY <1>1 DEF Listings
      <4>3. Listings' /\ Blobs'
        BY <1>1, <2>1, <3>2, <4>1, <4>2 DEF Listings, Blobs
      <4>4. \A k : Coming(k) => Coming(k)'
        BY <3>2, <4>1 DEF Coming
      <4>. QED  BY <4>1, <4>3, <4>4
    <3>. QED  BY <1>11, <3>1, <3>2 DEF Commit, Publish
  <2>3. phase = "building" => \A u \in Targets : Exact(u)'
    BY <2>1 DEF WInv, Exact
  <2>4. ASSUME warm = "open" PROVE Filling'
    <3>1. Filling
      BY <2>4 DEF WInv
    <3>2. ASSUME NEW u \in Targets \ NoCache, pc'[u] = "succeeded" PROVE Coming(changeHash[u])'
      <4>1. Coming(changeHash[u]) /\ changeHash'[u] = changeHash[u]
        BY <2>1, <3>1, <3>2 DEF Filling
      <4>. QED  BY <2>2, <4>1
    <3>. QED  BY <2>1, <3>1, <3>2 DEF Filling
  <2>5. warm = "warm" => Filled' /\ OnlyTainted'
    BY <2>1, <2>2 DEF WInv, Filled, Hashes, OnlyTainted
  <2>. QED  BY <2>1, <2>2, <2>3, <2>4, <2>5 DEF WInv
<1>12. ASSUME NEW w \in writes, CommitFails(w) PROVE WInv'
  <2>1. /\ UNCHANGED <<source, workspace, pc, changeHash, outputHash, phase, results, cas>>
        /\ writes' \subseteq writes
        /\ warm' \notin {"open", "warm"} /\ (warm' # "lost" => warm # "lost")
    BY <1>12 DEF CommitFails, Cool, buildVars, targetVars, userVars, cacheVars
  <2>2. Listings' /\ Blobs'
    BY <1>1, <2>1 DEF Listings, Blobs
  <2>3. phase = "building" => \A u \in Targets : Exact(u)'
    BY <2>1 DEF WInv, Exact
  <2>. QED  BY <2>1, <2>2, <2>3 DEF WInv
<1>. QED  BY <1>3, <1>4, <1>5, <1>6, <1>7, <1>8, <1>9, <1>10, <1>11, <1>12

\* In an ordinary repository, with a cache, the invariant holds for ever.
LEMMA WarmthInvariant ==
  ASSUME Ordinary, Caching
  PROVE  Spec => []WInv
<1>1. Init => WInv
  BY DEF Init, WInv, Listings, Blobs
<1>2. RInv /\ FInv /\ WInv /\ [Next]_vars => WInv'
  BY TaskKeepsWarm, OutsideKeepsWarm DEF Next
<1>. QED  BY <1>1, <1>2, RerunInvariant, FreshnessInvariant, PTL DEF Spec

\* A build over the cache that a complete build of the same sources left runs no
\* cacheable target but those that were tainted when their task looked: on any
\* graph, wherever it is checked out and in whatever order its tasks and its cache
\* writes proceed (GetTargetChangeHash, OnTargetComplete, loadCachedOutputs).
THEOREM WarmBuildsRunNothing ==
  ASSUME Ordinary, Caching
  PROVE  Spec => []WarmBuildRunsNothing
<1>1. RInv /\ WInv => WarmBuildRunsNothing
  <2>1. SUFFICES ASSUME RInv, WInv, warm = "warm", phase = "building",
                        NEW t \in Targets \ NoCache, ran[t] # 0
                 PROVE  wasTainted[t]
    BY DEF WarmBuildRunsNothing
  <2>2. ran[t] > 0
    BY <2>1 DEF RInv, TypeOK
  <2>. QED  BY <2>1, <2>2 DEF WInv, OnlyTainted
<1>. QED  BY <1>1, RerunInvariant, WarmthInvariant, PTL
=============================================================================
