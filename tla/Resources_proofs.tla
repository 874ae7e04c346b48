-------------------------- MODULE Resources_proofs --------------------------
(***************************************************************************)
(* Starts in order, resources that are up while they are used and nothing  *)
(* left at the end, for any tasks and resources and any dependencies       *)
(* between them, cycles included.                                          *)
(*                                                                         *)
(* The inductive invariant IInv says what the stack of a task is: its      *)
(* target at the bottom, above each frame the resource it wants next, no   *)
(* resource twice and every one in flight for this task.  What a frame had *)
(* to ensure is still to do or has been started.  What was started and not *)
(* stopped is registered, after what it depends on.                        *)
(***************************************************************************)
EXTENDS Resources, FiniteSetTheorems, SequenceTheorems, TLAPS

Has(s, e) == \E i \in 1 .. Len(s) : s[i] = e
Distinct(s) == \A i, k \in 1 .. Len(s) : s[i] = s[k] => i = k

Frame == [starts : Resources \cup {None}, todo : Seq(Resources)]
Pcs == {"idle", "ensure", "asking", "joined", "up", "failing", "command"} \cup Over
Lives == {"never", "starting", "up", "broken"} \cup TornDown
Alive == {"starting", "up", "broken"}

\* What is to be ensured in a frame of task t
ListOf(t, frame) == IF frame.starts = None THEN Needs[t] ELSE DependsOn[frame.starts]

Types ==
  /\ pc \in [Tasks -> Pcs]
  /\ flight \in [Resources -> Tasks \cup {None}]
  /\ result \in [Resources -> {"none", "ok", "failed"}]
  /\ life \in [Resources -> Lives]
  /\ ups \in [Resources -> Nat]
  /\ started \in Seq(Resources) /\ stopping \in Seq(Resources)
  /\ activeStarts \in Nat
  /\ main \in {"walk", "wait", "stop", "closed"}
  /\ tearingDown \in BOOLEAN /\ interrupted \in BOOLEAN

StackOK(f) ==
  /\ f \in Seq(Frame)
  /\ f # << >> => f[1].starts = None
  /\ \A i \in 2 .. Len(f) :
       /\ f[i].starts \in Resources
       /\ f[i - 1].todo # << >> /\ Head(f[i - 1].todo) = f[i].starts
  /\ \A i, k \in 1 .. Len(f) : f[i].starts = f[k].starts => i = k

\* What a frame had to ensure is to do or has been started, but for the frame
\* whose resource failed.
Ensured(t) ==
  \A i \in 1 .. Len(frames[t]) :
    \/ i = Len(frames[t]) /\ pc[t] = "failing"
    \/ \A q \in Elements(ListOf(t, frames[t][i])) :
         q \in Elements(frames[t][i].todo) \/ result[q] = "ok"

\* Every resource on the stack is in flight for t; only the last one has run its
\* up command.
Flying(t) ==
  \A i \in 2 .. Len(frames[t]) :
    /\ flight[frames[t][i].starts] = t
    /\ i < Len(frames[t]) \/ pc[t] \notin {"up", "failing"} => life[frames[t][i].starts] = "never"
    /\ i = Len(frames[t]) /\ pc[t] = "up" => life[frames[t][i].starts] = "starting"
    /\ i = Len(frames[t]) /\ pc[t] = "failing" => life[frames[t][i].starts] \in {"never", "broken"}

Stage(t) ==
  /\ pc[t] \in Over \cup {"idle"} <=> frames[t] = << >>
  /\ pc[t] \in {"asking", "joined"} => frames[t][Len(frames[t])].todo # << >>
  /\ pc[t] = "up" => Len(frames[t]) > 1
  /\ pc[t] = "command" => Len(frames[t]) = 1 /\ frames[t][1].todo = << >>

TaskOK(t) == StackOK(frames[t]) /\ Ensured(t) /\ Flying(t) /\ Stage(t)

\* A start that is in flight is on the stack of its task.
OnStack(r) ==
  flight[r] # None => \E i \in 2 .. Len(frames[flight[r]]) : frames[flight[r]][i].starts = r

\* Outcome and life of a resource
LifeOK(r) ==
  /\ flight[r] # None => result[r] = "none"
  /\ flight[r] = None =>
       /\ result[r] = "none" => life[r] = "never"
       /\ result[r] = "ok" => life[r] \in {"up"} \cup TornDown
       /\ result[r] = "failed" => life[r] \in {"never", "broken"} \cup TornDown
  /\ ups[r] = IF life[r] = "never" THEN 0 ELSE 1
  /\ life[r] \in {"starting", "up"} => \A q \in Elements(DependsOn[r]) : life[q] = "up"
  /\ life[r] \in TornDown => main \in {"stop", "closed"}
  /\ life[r] \in Alive <=> Has(started, r) \/ Has(stopping, r)

InFlight == {r \in Resources : flight[r] # None}

Counted ==
  /\ IsFiniteSet(InFlight) /\ activeStarts = Cardinality(InFlight)
  /\ main \in {"stop", "closed"} => activeStarts = 0

\* The teardown stops in reverse what was registered in order.
Orders ==
  /\ main # "walk" => tearingDown
  /\ main \in {"walk", "wait"} => stopping = << >>
  /\ main \in {"stop", "closed"} => started = << >>
  /\ main = "closed" => stopping = << >>
  /\ Distinct(started) /\ Distinct(stopping)
  /\ \A i \in 1 .. Len(started) : \A q \in Elements(DependsOn[started[i]]) :
       \E k \in 1 .. i - 1 : started[k] = q
  /\ \A i \in 1 .. Len(stopping) : \A q \in Elements(DependsOn[stopping[i]]) :
       \E k \in i + 1 .. Len(stopping) : stopping[k] = q

IInv ==
  /\ Types /\ DOMAIN frames = Tasks
  /\ \A t \in Tasks : TaskOK(t)
  /\ \A r \in Resources : OnStack(r) /\ LifeOK(r)
  /\ Counted /\ Orders

-----------------------------------------------------------------------------
(* Sequences                                                               *)

\* What is in a sequence is its head or in its tail.
LEMMA ElementsOfTail ==
  ASSUME NEW s \in Seq(Resources), s # << >>
  PROVE  /\ Head(s) \in Resources /\ Tail(s) \in Seq(Resources)
         /\ \A q : q \in Elements(s) => q = Head(s) \/ q \in Elements(Tail(s))
<1>1. /\ Len(s) \in Nat /\ Len(s) >= 1 /\ Head(s) = s[1] /\ Head(s) \in Resources
      /\ Tail(s) \in Seq(Resources) /\ Len(Tail(s)) = Len(s) - 1
      /\ \A i \in 1 .. Len(s) - 1 : Tail(s)[i] = s[i + 1]
  BY HeadTailProperties, EmptySeq
<1>2. ASSUME NEW i \in 1 .. Len(s) PROVE s[i] = Head(s) \/ s[i] \in Elements(Tail(s))
  <2>1. CASE i = 1 BY <2>1, <1>1
  <2>2. CASE i # 1
    <3>1. i - 1 \in 1 .. Len(s) - 1 /\ (i - 1) + 1 = i BY <2>2, <1>1
    <3>2. Tail(s)[i - 1] = s[i] BY <3>1, <1>1
    <3>3. DOMAIN Tail(s) = 1 .. Len(s) - 1 BY <1>1
    <3> QED BY <3>1, <3>2, <3>3 DEF Elements
  <2> QED BY <2>1, <2>2
<1>3. DOMAIN s = 1 .. Len(s) OBVIOUS
<1> QED BY <1>1, <1>2, <1>3 DEF Elements

\* The elements of a sequence are at its places, and an empty one has none.
LEMMA ElementsAt ==
  ASSUME NEW s \in Seq(Resources)
  PROVE  /\ Elements(s) = {s[i] : i \in 1 .. Len(s)} /\ Elements(s) \subseteq Resources
         /\ s = << >> => Elements(s) = {}
<1>1. DOMAIN s = 1 .. Len(s) /\ \A i \in 1 .. Len(s) : s[i] \in Resources
  OBVIOUS
<1>2. s = << >> => DOMAIN s = {}
  BY EmptySeq
<1> QED BY <1>1, <1>2 DEF Elements

\* Advance takes the head of what the top frame has to do.
LEMMA AdvanceStack ==
  ASSUME NEW f \in Seq(Frame), f # << >>, f[Len(f)].todo # << >>
  PROVE  /\ Advance(f) \in Seq(Frame) /\ Len(Advance(f)) = Len(f) /\ Advance(f) # << >>
         /\ \A i \in 1 .. Len(f) - 1 : Advance(f)[i] = f[i]
         /\ \A i \in 1 .. Len(f) : Advance(f)[i].starts = f[i].starts
         /\ Advance(f)[Len(f)].todo = Tail(f[Len(f)].todo)
<1>1. Len(f) \in Nat /\ Len(f) \in 1 .. Len(f) /\ f[Len(f)] \in Frame /\ Len(f) > 0
  BY EmptySeq
<1> DEFINE top == [f[Len(f)] EXCEPT !.todo = Tail(@)]
<1>2. Tail(f[Len(f)].todo) \in Seq(Resources)
  BY <1>1, HeadTailProperties DEF Frame
<1>3. top \in Frame /\ top.starts = f[Len(f)].starts /\ top.todo = Tail(f[Len(f)].todo)
  BY <1>1, <1>2 DEF Frame
<1>4. Advance(f) = [f EXCEPT ![Len(f)] = top]
  BY DEF Advance
<1> HIDE DEF top
<1>5. /\ Advance(f) \in Seq(Frame) /\ Len(Advance(f)) = Len(f)
      /\ Advance(f)[Len(f)] = top
      /\ \A i \in 1 .. Len(f) - 1 : Advance(f)[i] = f[i]
  BY <1>1, <1>3, <1>4
<1>6. ASSUME NEW i \in 1 .. Len(f) PROVE Advance(f)[i].starts = f[i].starts
  <2>1. CASE i = Len(f) BY <2>1, <1>3, <1>5
  <2>2. CASE i # Len(f) BY <2>2, <1>1, <1>5
  <2> QED BY <2>1, <2>2
<1> QED BY <1>1, <1>3, <1>5, <1>6, EmptySeq

\* The stack without its top frame
LEMMA FrontOfStack ==
  ASSUME NEW f \in Seq(Frame), Len(f) > 1
  PROVE  /\ Front(f) \in Seq(Frame) /\ Len(Front(f)) = Len(f) - 1 /\ Front(f) # << >>
         /\ \A i \in 1 .. Len(f) - 1 : Front(f)[i] = f[i]
<1> DEFINE n == Len(f) - 1
           g == SubSeq(f, 1, n)
<1>1. n \in Nat /\ n >= 1 /\ \A i \in 1 .. n : f[i] \in Frame
  OBVIOUS
<1> HIDE DEF n
<1>2. /\ g \in Seq(Frame) /\ Len(g) = IF 1 <= n THEN n - 1 + 1 ELSE 0
      /\ \A i \in 1 .. n - 1 + 1 : g[i] = f[1 + i - 1]
  BY <1>1, SubSeqProperties
<1>3. Len(g) = n /\ \A i \in 1 .. n : g[i] = f[i]
  BY <1>1, <1>2
<1>4. g # << >> BY <1>1, <1>3, EmptySeq
<1> QED BY <1>2, <1>3, <1>4 DEF Front, n

-----------------------------------------------------------------------------
(* Stacks                                                                  *)

\* A stack whose top frame advances is a stack.
LEMMA AdvanceKeepsStack ==
  ASSUME NEW f, StackOK(f), f # << >>, f[Len(f)].todo # << >>
  PROVE  StackOK(Advance(f))
<1>1. f \in Seq(Frame) /\ Len(f) \in Nat /\ Len(f) > 0
  BY EmptySeq DEF StackOK
<1>2. /\ Advance(f) \in Seq(Frame) /\ Len(Advance(f)) = Len(f) /\ Advance(f) # << >>
      /\ \A i \in 1 .. Len(f) - 1 : Advance(f)[i] = f[i]
      /\ \A i \in 1 .. Len(f) : Advance(f)[i].starts = f[i].starts
  BY <1>1, AdvanceStack
<1>3. Advance(f)[1].starts = None
  BY <1>1, <1>2 DEF StackOK
<1>4. ASSUME NEW i \in 2 .. Len(f)
      PROVE  /\ Advance(f)[i].starts \in Resources
             /\ Advance(f)[i - 1].todo # << >>
             /\ Head(Advance(f)[i - 1].todo) = Advance(f)[i].starts
  <2>1. i \in 1 .. Len(f) /\ i - 1 \in 1 .. Len(f) - 1 BY <1>1
  <2>2. Advance(f)[i].starts = f[i].starts /\ Advance(f)[i - 1] = f[i - 1]
    BY <2>1, <1>2
  <2> QED BY <2>2 DEF StackOK
<1>5. ASSUME NEW i \in 1 .. Len(f), NEW k \in 1 .. Len(f),
             Advance(f)[i].starts = Advance(f)[k].starts
      PROVE  i = k
  BY <1>2, <1>5 DEF StackOK
<1> QED BY <1>2, <1>3, <1>4, <1>5 DEF StackOK

\* Without its top frame a stack is one whose top wants what was popped.
LEMMA FrontKeepsStack ==
  ASSUME NEW f, StackOK(f), Len(f) > 1
  PROVE  /\ StackOK(Front(f)) /\ Front(f) # << >>
         /\ Front(f)[Len(Front(f))].todo # << >>
         /\ Head(Front(f)[Len(Front(f))].todo) = f[Len(f)].starts
<1>1. f \in Seq(Frame) /\ Len(f) \in Nat
  BY DEF StackOK
<1>2. /\ Front(f) \in Seq(Frame) /\ Len(Front(f)) = Len(f) - 1 /\ Front(f) # << >>
      /\ \A i \in 1 .. Len(f) - 1 : Front(f)[i] = f[i]
  BY <1>1, FrontOfStack
<1>3. Len(f) \in 2 .. Len(f) /\ 1 \in 1 .. Len(f) - 1 /\ Len(f) - 1 \in 1 .. Len(f) - 1 /\ f # << >>
  BY <1>1, EmptySeq
<1>4. Front(f)[1].starts = None
  BY <1>2, <1>3 DEF StackOK
<1>5. ASSUME NEW i \in 2 .. Len(f) - 1
      PROVE  /\ Front(f)[i].starts \in Resources
             /\ Front(f)[i - 1].todo # << >>
             /\ Head(Front(f)[i - 1].todo) = Front(f)[i].starts
  <2>1. i \in 2 .. Len(f) /\ i \in 1 .. Len(f) - 1 /\ i - 1 \in 1 .. Len(f) - 1 BY <1>1
  <2> QED BY <2>1, <1>2 DEF StackOK
<1>6. ASSUME NEW i \in 1 .. Len(f) - 1, NEW k \in 1 .. Len(f) - 1,
             Front(f)[i].starts = Front(f)[k].starts
      PROVE  i = k
  BY <1>1, <1>2, <1>6 DEF StackOK
<1>7. StackOK(Front(f))
  BY <1>2, <1>4, <1>5, <1>6 DEF StackOK
<1>8. Front(f)[Len(Front(f))] = f[Len(f) - 1]
  BY <1>2, <1>3
<1> QED BY <1>2, <1>3, <1>7, <1>8 DEF StackOK

\* A start pushes a frame for the resource that the top frame wants.
LEMMA PushKeepsStack ==
  ASSUME NEW f, StackOK(f), f # << >>, f[Len(f)].todo # << >>,
         NEW r \in Resources, r = Head(f[Len(f)].todo), NEW list \in Seq(Resources),
         \A i \in 1 .. Len(f) : f[i].starts # r
  PROVE  /\ StackOK(Append(f, [starts |-> r, todo |-> list]))
         /\ Len(Append(f, [starts |-> r, todo |-> list])) = Len(f) + 1
         /\ \A i \in 1 .. Len(f) : Append(f, [starts |-> r, todo |-> list])[i] = f[i]
         /\ Append(f, [starts |-> r, todo |-> list])[Len(f) + 1] = [starts |-> r, todo |-> list]
<1> DEFINE top == [starts |-> r, todo |-> list]
           g == Append(f, top)
<1>1. f \in Seq(Frame) /\ Len(f) \in Nat /\ Len(f) > 0
  BY EmptySeq DEF StackOK
<1>2. top \in Frame /\ top.starts = r
  BY DEF Frame
<1> HIDE DEF top
<1>3. /\ g \in Seq(Frame) /\ Len(g) = Len(f) + 1
      /\ \A i \in 1 .. Len(f) : g[i] = f[i]
      /\ g[Len(f) + 1] = top
  BY <1>1, <1>2, AppendProperties
<1> HIDE DEF g
<1>4. g[1].starts = None
  BY <1>1, <1>3 DEF StackOK
<1>5. ASSUME NEW i \in 2 .. Len(f) + 1
      PROVE  /\ g[i].starts \in Resources
             /\ g[i - 1].todo # << >> /\ Head(g[i - 1].todo) = g[i].starts
  <2>1. CASE i = Len(f) + 1
    <3>1. i - 1 = Len(f) /\ Len(f) \in 1 .. Len(f) BY <2>1, <1>1
    <3>2. g[i] = top /\ g[i - 1] = f[Len(f)] BY <2>1, <3>1, <1>3
    <3> QED BY <3>2, <1>2
  <2>2. CASE i # Len(f) + 1
    <3>1. i \in 2 .. Len(f) /\ i \in 1 .. Len(f) /\ i - 1 \in 1 .. Len(f) BY <2>2, <1>1
    <3>2. g[i] = f[i] /\ g[i - 1] = f[i - 1] BY <3>1, <1>3
    <3> QED BY <3>1, <3>2 DEF StackOK
  <2> QED BY <2>1, <2>2
<1>6. ASSUME NEW i \in 1 .. Len(f) + 1, NEW k \in 1 .. Len(f) + 1, g[i].starts = g[k].starts
      PROVE  i = k
  <2>1. CASE i \in 1 .. Len(f) /\ k \in 1 .. Len(f) BY <2>1, <1>3, <1>6 DEF StackOK
  <2>2. CASE i = Len(f) + 1 \/ k = Len(f) + 1
    <3>1. \A m \in 1 .. Len(f) : g[m].starts # g[Len(f) + 1].starts BY <1>2, <1>3
    <3> QED BY <3>1, <2>2, <1>1, <1>6
  <2> QED BY <2>1, <2>2, <1>1
<1>7. g # << >> BY <1>1, <1>3, EmptySeq
<1>8. StackOK(g)
  BY <1>3, <1>4, <1>5, <1>6 DEF StackOK
<1> QED BY <1>3, <1>8 DEF g, top

\* A task is not concerned by a step that changes neither it nor its starts.
LEMMA TaskUntouched ==
  ASSUME NEW t \in Tasks, TaskOK(t), frames'[t] = frames[t], pc'[t] = pc[t],
         \A r \in Resources : flight[r] = t => flight'[r] = t /\ life'[r] = life[r],
         \A r \in Resources : result[r] = "ok" => result'[r] = "ok",
         Needs \in [Tasks -> Seq(Resources)], DependsOn \in [Resources -> Seq(Resources)]
  PROVE  TaskOK(t)'
<1>1. StackOK(frames[t])' BY DEF TaskOK
<1>2. /\ frames[t] \in Seq(Frame) /\ Len(frames[t]) \in Nat
      /\ \A i \in 1 .. Len(frames[t]) : frames[t][i].starts \in Resources \cup {None}
      /\ \A i \in 2 .. Len(frames[t]) : frames[t][i].starts \in Resources
  <2>1. /\ frames[t] \in Seq(Frame)
        /\ \A i \in 2 .. Len(frames[t]) : frames[t][i].starts \in Resources
    BY DEF TaskOK, StackOK
  <2>2. Len(frames[t]) \in Nat /\ \A i \in 1 .. Len(frames[t]) : frames[t][i] \in Frame
    BY <2>1
  <2> QED BY <2>1, <2>2 DEF Frame
<1>3. ASSUME NEW i \in 1 .. Len(frames[t])
      PROVE  Elements(ListOf(t, frames[t][i])) \subseteq Resources
  <2>1. ListOf(t, frames[t][i]) \in Seq(Resources)
    BY <1>2 DEF ListOf
  <2> QED BY <2>1, ElementsAt
<1>4. Ensured(t)'
  <2>1. ASSUME NEW i \in 1 .. Len(frames[t]), ~(i = Len(frames[t]) /\ pc[t] = "failing"),
               NEW q \in Elements(ListOf(t, frames[t][i]))
        PROVE  q \in Elements(frames[t][i].todo) \/ result'[q] = "ok"
    <3>1. q \in Elements(frames[t][i].todo) \/ result[q] = "ok"
      BY <2>1 DEF TaskOK, Ensured
    <3> QED BY <3>1, <1>3
  <2> QED BY <2>1 DEF Ensured
<1>5. Flying(t)'
  <2>1. ASSUME NEW i \in 2 .. Len(frames[t])
        PROVE  flight'[frames[t][i].starts] = t /\ life'[frames[t][i].starts] = life[frames[t][i].starts]
    BY <1>2 DEF TaskOK, Flying
  <2>2. Flying(t) BY DEF TaskOK
  <2>3. frames'[t] = frames[t] /\ pc'[t] = pc[t] OBVIOUS
  <2> QED BY ONLY <2>1, <2>2, <2>3 DEF Flying
<1>6. Stage(t)' BY DEF TaskOK, Stage
<1> QED BY <1>1, <1>4, <1>5, <1>6 DEF TaskOK

\* A step of t that starts nothing, ends nothing and keeps the frames of what t
\* is starting.
LEMMA TaskStepKeeps ==
  ASSUME IInv, NEW t \in Tasks, UNCHANGED <<startVars, mainVars>>,
         pc'[t] \in Pcs, pc' = [pc EXCEPT ![t] = pc'[t]],
         DOMAIN frames' = Tasks, \A u \in Tasks \ {t} : frames'[u] = frames[u],
         TaskOK(t)',
         \A i \in 2 .. Len(frames[t]) :
           i \in 2 .. Len(frames'[t]) /\ frames'[t][i].starts = frames[t][i].starts
  PROVE  IInv'
<1>1. /\ flight' = flight /\ result' = result /\ life' = life /\ ups' = ups
      /\ started' = started /\ activeStarts' = activeStarts
      /\ tearingDown' = tearingDown /\ stopping' = stopping /\ main' = main
      /\ interrupted' = interrupted
  BY DEF startVars, mainVars
<1>2. Types' BY <1>1 DEF IInv, Types
<1>3. ASSUME NEW u \in Tasks PROVE TaskOK(u)'
  <2>1. CASE u = t BY <2>1
  <2>2. CASE u # t
    <3>1. pc'[u] = pc[u] /\ frames'[u] = frames[u] BY <2>2 DEF IInv, Types
    <3> QED BY <3>1, <1>1, TaskUntouched, ResourceAssumption DEF IInv
  <2> QED BY <2>1, <2>2
<1>4. ASSUME NEW r \in Resources PROVE OnStack(r)'
  <2>1. CASE flight[r] = t BY <2>1, <1>1 DEF IInv, OnStack
  <2>2. CASE flight[r] # t
    <3>1. flight[r] # None => flight[r] \in Tasks \ {t} BY <2>2 DEF IInv, Types
    <3> QED BY <3>1, <1>1 DEF IInv, OnStack
  <2> QED BY <2>1, <2>2
<1>5. ASSUME NEW r \in Resources PROVE LifeOK(r)'
  BY <1>1 DEF IInv, LifeOK
<1>6. Counted'
  <2>1. InFlight' = InFlight BY <1>1 DEF InFlight
  <2> QED BY <2>1, <1>1 DEF IInv, Counted
<1>7. Orders' BY <1>1 DEF IInv, Orders
<1> QED BY <1>2, <1>3, <1>4, <1>5, <1>6, <1>7 DEF IInv

\* The frames of a task, spelled out
LEMMA TopOfStack ==
  ASSUME IInv, NEW t \in Tasks, frames[t] # << >>
  PROVE  /\ frames[t] \in Seq(Frame) /\ Len(frames[t]) \in Nat /\ Len(frames[t]) >= 1
         /\ \A i \in 1 .. Len(frames[t]) : frames[t][i] \in Frame
         /\ Top(t) = frames[t][Len(frames[t])] /\ Top(t) \in Frame
         /\ Top(t).todo \in Seq(Resources)
         /\ Top(t).todo # << >> => Wanted(t) \in Resources
         /\ frames[t][1].starts = None
         /\ Len(frames[t]) > 1 => Top(t).starts \in Resources
         /\ Top(t).starts # None => Len(frames[t]) > 1
<1>1. /\ frames[t] \in Seq(Frame) /\ frames[t][1].starts = None
      /\ \A i \in 2 .. Len(frames[t]) : frames[t][i].starts \in Resources
  BY DEF IInv, TaskOK, StackOK
<1>2. Len(frames[t]) \in Nat /\ Len(frames[t]) >= 1
  BY <1>1, EmptySeq
<1>3. Top(t) = frames[t][Len(frames[t])]
  BY DEF Top, Last
<1>4. Top(t) \in Frame /\ Top(t).todo \in Seq(Resources)
  <2>1. frames[t][Len(frames[t])] \in Frame BY <1>1, <1>2
  <2> QED BY <2>1, <1>3 DEF Frame
<1>5. Top(t).todo # << >> => Wanted(t) \in Resources
  BY <1>4, HeadTailProperties DEF Wanted
<1>6. \A i \in 1 .. Len(frames[t]) : frames[t][i] \in Frame
  BY <1>1
<1>7. Len(frames[t]) > 1 => Top(t).starts \in Resources
  BY <1>1, <1>2, <1>3
<1>8. Top(t).starts # None => Len(frames[t]) > 1
  <2>1. Len(frames[t]) = 1 => Top(t).starts = None BY <1>1, <1>3
  <2>2. \A n \in Nat : n >= 1 => n = 1 \/ n > 1 OBVIOUS
  <2>3. Len(frames[t]) = 1 \/ Len(frames[t]) > 1 BY ONLY <1>2, <2>2
  <2> QED BY <2>1, <2>3
<1> QED BY <1>1, <1>2, <1>3, <1>4, <1>5, <1>6, <1>7, <1>8

\* A task whose stage changes and whose stack does not
LEMMA MoveKeepsTask ==
  ASSUME IInv, NEW t \in Tasks, frames'[t] = frames[t], frames[t] # << >>,
         flight' = flight, result' = result, life' = life,
         pc[t] \notin {"up", "failing"}, pc'[t] \notin {"up", "failing"},
         pc'[t] \notin Over \cup {"idle"},
         pc'[t] \in {"asking", "joined"} => frames[t][Len(frames[t])].todo # << >>,
         pc'[t] = "command" => Len(frames[t]) = 1 /\ frames[t][1].todo = << >>
  PROVE  TaskOK(t)'
<1>1. TaskOK(t) BY DEF IInv
<1>2. StackOK(frames[t])' BY <1>1 DEF TaskOK
<1>3. Ensured(t)' BY <1>1 DEF TaskOK, Ensured
<1>4. Flying(t)' BY <1>1 DEF TaskOK, Flying
<1>5. Stage(t)' BY DEF Stage
<1> QED BY <1>2, <1>3, <1>4, <1>5 DEF TaskOK

\* A task that fails before its up command, or without having begun one.
LEMMA FailingKeepsTask ==
  ASSUME IInv, NEW t \in Tasks, frames'[t] = frames[t], frames[t] # << >>,
         flight' = flight, life' = life,
         \A r \in Resources : result[r] = "ok" => result'[r] = "ok",
         pc[t] \notin {"up", "failing"}, pc'[t] = "failing"
  PROVE  TaskOK(t)'
<1>1. TaskOK(t) BY DEF IInv
<1>2. StackOK(frames[t])' BY <1>1 DEF TaskOK
<1>3. Ensured(t)'
  <2>1. ASSUME NEW i \in 1 .. Len(frames[t]), NEW q \in Elements(ListOf(t, frames[t][i]))
        PROVE  q \in Elements(frames[t][i].todo) \/ result'[q] = "ok"
    <3>1. q \in Elements(frames[t][i].todo) \/ result[q] = "ok"
      BY <1>1 DEF TaskOK, Ensured
    <3>2. ListOf(t, frames[t][i]) \in Seq(Resources)
      <4>1. frames[t][i].starts \in Resources \cup {None} BY TopOfStack DEF Frame
      <4> QED BY <4>1, ResourceAssumption DEF ListOf
    <3>3. q \in Resources BY <3>2, ElementsAt
    <3> QED BY <3>1, <3>3
  <2> QED BY <2>1 DEF Ensured
<1>4. Flying(t)' BY <1>1 DEF TaskOK, Flying
<1>5. Stage(t)'
  BY DEF Stage, Over
<1> QED BY <1>2, <1>3, <1>4, <1>5 DEF TaskOK

\* The top frame is done with a resource that has been started.
LEMMA ServedKeepsTask ==
  ASSUME IInv, NEW t \in Tasks, frames[t] # << >>, Top(t).todo # << >>,
         frames'[t] = Advance(frames[t]), pc[t] \notin {"up", "failing"},
         \A r \in Resources : flight[r] = t => flight'[r] = t /\ life'[r] = life[r],
         \A r \in Resources : result[r] = "ok" => result'[r] = "ok",
         \/ pc'[t] = "ensure" /\ result'[Wanted(t)] = "ok"
         \/ pc'[t] = "failing"
  PROVE  /\ TaskOK(t)'
         /\ Len(frames'[t]) = Len(frames[t])
         /\ \A i \in 1 .. Len(frames[t]) : frames'[t][i].starts = frames[t][i].starts
<1> DEFINE f == frames[t]
           n == Len(frames[t])
<1>1. TaskOK(t) BY DEF IInv
<1>2. /\ f \in Seq(Frame) /\ n \in Nat /\ n >= 1 /\ f[n].todo # << >>
      /\ \A i \in 1 .. n : f[i] \in Frame
      /\ f[n].todo \in Seq(Resources) /\ Wanted(t) = Head(f[n].todo)
  BY TopOfStack DEF Wanted
<1>3. /\ Len(frames'[t]) = n /\ frames'[t] # << >>
      /\ \A i \in 1 .. n - 1 : frames'[t][i] = f[i]
      /\ \A i \in 1 .. n : frames'[t][i].starts = f[i].starts
      /\ frames'[t][n].todo = Tail(f[n].todo)
  BY <1>2, AdvanceStack
<1>4. StackOK(frames[t])'
  BY <1>1, <1>2, AdvanceKeepsStack DEF TaskOK
<1>5. Ensured(t)'
  <2>1. ASSUME NEW i \in 1 .. n, ~(i = n /\ pc'[t] = "failing"),
               NEW q \in Elements(ListOf(t, frames'[t][i]))
        PROVE  q \in Elements(frames'[t][i].todo) \/ result'[q] = "ok"
    <3>1. ListOf(t, frames'[t][i]) = ListOf(t, f[i])
      BY <1>3 DEF ListOf
    <3>2. q \in Elements(f[i].todo) \/ result[q] = "ok"
      BY <3>1, <1>1 DEF TaskOK, Ensured
    <3>3. ListOf(t, f[i]) \in Seq(Resources)
      <4>1. f[i].starts \in Resources \cup {None} BY <1>2 DEF Frame
      <4> QED BY <4>1, ResourceAssumption DEF ListOf
    <3>4. q \in Resources BY <3>1, <3>3, ElementsAt
    <3>5. CASE i = n
      <4>1. pc'[t] = "ensure" /\ result'[Head(f[n].todo)] = "ok" BY <3>5, <2>1, <1>2
      <4>2. q \in Elements(f[n].todo) => q = Head(f[n].todo) \/ q \in Elements(Tail(f[n].todo))
        BY <1>2, ElementsOfTail
      <4> QED BY <4>1, <4>2, <3>2, <3>4, <3>5, <1>3
    <3>6. CASE i # n
      <4>1. frames'[t][i] = f[i] BY <3>6, <1>2, <1>3
      <4> QED BY <4>1, <3>2, <3>4
    <3> QED BY <3>5, <3>6
  <2> QED BY <2>1, <1>3 DEF Ensured
<1>6. Flying(t)'
  <2>1. ASSUME NEW i \in 2 .. n
        PROVE  /\ frames'[t][i].starts = f[i].starts /\ flight'[f[i].starts] = t
               /\ life'[f[i].starts] = "never"
    <3>1. i \in 1 .. n /\ f[i].starts \in Resources BY <1>1, <1>2 DEF TaskOK, StackOK
    <3>2. flight[f[i].starts] = t /\ life[f[i].starts] = "never" BY <1>1 DEF TaskOK, Flying
    <3> QED BY <3>1, <3>2, <1>3
  <2>2. pc'[t] # "up" OBVIOUS
  <2> QED BY <2>1, <2>2, <1>3 DEF Flying
<1>7. Stage(t)'
  BY <1>3 DEF Stage, Over
<1> QED BY <1>3, <1>4, <1>5, <1>6, <1>7 DEF TaskOK

-----------------------------------------------------------------------------
(* Steps that start and end nothing                                        *)

\* What a task is starting is in flight, so the teardown has not begun to stop.
LEMMA InFlightMeansNotStopped ==
  ASSUME IInv, NEW r \in Resources, flight[r] # None
  PROVE  main \in {"walk", "wait"} /\ stopping = << >> /\ activeStarts \in Nat /\ activeStarts # 0
<1>1. IsFiniteSet(InFlight) /\ activeStarts = Cardinality(InFlight) /\ activeStarts \in Nat
  BY DEF IInv, Counted, Types
<1>2. InFlight # {} BY DEF InFlight
<1>3. activeStarts # 0 BY <1>1, <1>2, FS_EmptySet
<1> QED BY <1>1, <1>3 DEF IInv, Counted, Orders, Types

\* The top frame of a task that starts something
LEMMA TopInFlight ==
  ASSUME IInv, NEW t \in Tasks, Len(frames[t]) > 1
  PROVE  /\ frames[t] # << >> /\ Top(t).starts \in Resources /\ flight[Top(t).starts] = t
         /\ Len(frames[t]) \in 2 .. Len(frames[t]) /\ Top(t) = frames[t][Len(frames[t])]
         /\ pc[t] \notin {"up", "failing"} => life[Top(t).starts] = "never"
         /\ pc[t] = "up" => life[Top(t).starts] = "starting"
         /\ pc[t] = "failing" => life[Top(t).starts] \in {"never", "broken"}
         /\ main \in {"walk", "wait"} /\ stopping = << >> /\ activeStarts \in Nat /\ activeStarts # 0
<1>1. frames[t] \in Seq(Frame) /\ Len(frames[t]) \in Nat
  BY DEF IInv, TaskOK, StackOK
<1>2. frames[t] # << >> BY <1>1, EmptySeq
<1>3. Len(frames[t]) \in 2 .. Len(frames[t]) BY <1>1
<1>4. Top(t) = frames[t][Len(frames[t])] /\ Top(t).starts \in Resources
  BY <1>2, TopOfStack
<1>5. /\ flight[Top(t).starts] = t
      /\ pc[t] \notin {"up", "failing"} => life[Top(t).starts] = "never"
      /\ pc[t] = "up" => life[Top(t).starts] = "starting"
      /\ pc[t] = "failing" => life[Top(t).starts] \in {"never", "broken"}
  BY <1>3, <1>4 DEF IInv, TaskOK, Flying
<1>6. t # None BY ResourceAssumption
<1> QED BY <1>2, <1>3, <1>4, <1>5, <1>6, InFlightMeansNotStopped

\* StartTask: a stack with the target alone.
LEMMA StartTaskKeeps ==
  ASSUME IInv, NEW t \in Tasks, StartTask(t)
  PROVE  IInv'
<1> DEFINE top == [starts |-> None, todo |-> Needs[t]]
<1>1. /\ pc[t] = "idle" /\ frames' = [frames EXCEPT ![t] = <<top>>]
      /\ pc' = [pc EXCEPT ![t] = "ensure"]
      /\ UNCHANGED <<startVars, mainVars>>
  BY DEF StartTask
<1>2. /\ DOMAIN frames = Tasks /\ pc \in [Tasks -> Pcs] /\ frames[t] = << >>
  BY <1>1 DEF IInv, Types, TaskOK, Stage
<1>3. /\ DOMAIN frames' = Tasks /\ \A u \in Tasks \ {t} : frames'[u] = frames[u]
      /\ frames'[t] = <<top>> /\ pc'[t] = "ensure"
  BY <1>1, <1>2
<1>4. Needs[t] \in Seq(Resources) /\ top \in Frame /\ top.starts = None /\ top.todo = Needs[t]
  BY ResourceAssumption DEF Frame
<1> HIDE DEF top
<1>5. <<top>> \in Seq(Frame) /\ Len(<<top>>) = 1 /\ <<top>>[1] = top /\ <<top>> # << >>
  BY <1>4
<1>6. TaskOK(t)'
  <2>1. StackOK(frames[t])' BY <1>3, <1>4, <1>5 DEF StackOK
  <2>2. Ensured(t)' BY <1>3, <1>4, <1>5 DEF Ensured, ListOf
  <2>3. Flying(t)' BY <1>3, <1>5 DEF Flying
  <2>4. Stage(t)' BY <1>3, <1>5 DEF Stage, Over
  <2> QED BY <2>1, <2>2, <2>3, <2>4 DEF TaskOK
<1>7. ~(\E i \in 2 .. Len(frames[t]) : TRUE) BY <1>2
<1>8. pc'[t] \in Pcs BY <1>3 DEF Pcs
<1> QED BY <1>1, <1>3, <1>6, <1>7, <1>8, TaskStepKeeps

\* Lookup, Join, FindFinished, StartCommand, and an error before anything was
\* begun: the task looks at what is there.
LEMMA LookKeeps ==
  ASSUME IInv, NEW t \in Tasks,
         Lookup(t) \/ Join(t) \/ FindFinished(t) \/ StartCommand(t)
  PROVE  IInv'
<1>1. pc[t] \in {"ensure", "asking"} /\ UNCHANGED <<startVars, mainVars>>
  BY DEF Lookup, Join, FindFinished, StartCommand
<1>2. /\ DOMAIN frames = Tasks /\ pc \in [Tasks -> Pcs] /\ frames[t] # << >>
  BY <1>1 DEF IInv, Types, TaskOK, Stage, Over
<1>3. /\ flight' = flight /\ result' = result /\ life' = life
  BY <1>1 DEF startVars
<1>4. pc[t] = "asking" => Top(t).todo # << >>
  BY <1>2, TopOfStack DEF IInv, TaskOK, Stage
<1>5. CASE /\ frames' = frames
           /\ \/ pc' = [pc EXCEPT ![t] = "asking"] /\ Top(t).todo # << >>
              \/ pc' = [pc EXCEPT ![t] = "joined"] /\ Top(t).todo # << >>
              \/ pc' = [pc EXCEPT ![t] = "failing"]
              \/ pc' = [pc EXCEPT ![t] = "command"] /\ Top(t).todo = << >> /\ Top(t).starts = None
  <2>1. pc'[t] \in {"asking", "joined", "failing", "command"} /\ pc' = [pc EXCEPT ![t] = pc'[t]]
    BY <1>2, <1>5
  <2>2. /\ pc'[t] \in {"asking", "joined"} => frames[t][Len(frames[t])].todo # << >>
        /\ pc'[t] = "command" => Len(frames[t]) = 1 /\ frames[t][1].todo = << >>
    <3>1. pc'[t] \in {"asking", "joined"} => Top(t).todo # << >> BY <1>2, <1>5
    <3>2. pc'[t] = "command" => Top(t).todo = << >> /\ Top(t).starts = None BY <1>2, <1>5
    <3>3. Top(t) = frames[t][Len(frames[t])] /\ Len(frames[t]) \in Nat /\ Len(frames[t]) >= 1
      BY <1>2, TopOfStack
    <3>4. Top(t).starts = None => ~(Len(frames[t]) > 1)
      BY <1>2, TopOfStack, ResourceAssumption
    <3>5. Top(t).starts = None => Len(frames[t]) = 1
      <4>1. \A n \in Nat : n >= 1 /\ ~(n > 1) => n = 1 OBVIOUS
      <4> QED BY <4>1, <3>3, <3>4
    <3> QED BY <3>1, <3>2, <3>3, <3>5
  <2>3. TaskOK(t)'
    <3>1. CASE pc'[t] = "failing"
      BY <3>1, <1>1, <1>2, <1>3, <1>5, FailingKeepsTask
    <3>2. CASE pc'[t] # "failing"
      BY <3>2, <2>1, <2>2, <1>1, <1>2, <1>3, <1>5, MoveKeepsTask DEF Over
    <3> QED BY <3>1, <3>2
  <2>4. pc'[t] \in Pcs BY <2>1 DEF Pcs
  <2> QED BY <2>1, <2>3, <2>4, <1>1, <1>2, <1>5, TaskStepKeeps
<1>6. CASE /\ frames' = [frames EXCEPT ![t] = Advance(frames[t])]
           /\ pc' = [pc EXCEPT ![t] = "ensure"]
           /\ Top(t).todo # << >> /\ result[Wanted(t)] = "ok"
  <2>1. /\ frames'[t] = Advance(frames[t]) /\ pc'[t] = "ensure"
        /\ DOMAIN frames' = Tasks /\ \A u \in Tasks \ {t} : frames'[u] = frames[u]
        /\ pc' = [pc EXCEPT ![t] = pc'[t]]
    BY <1>2, <1>6
  <2>2. /\ TaskOK(t)'
        /\ Len(frames'[t]) = Len(frames[t])
        /\ \A i \in 1 .. Len(frames[t]) : frames'[t][i].starts = frames[t][i].starts
    <3>1. pc[t] \notin {"up", "failing"} BY <1>1
    <3> QED BY <2>1, <3>1, <1>2, <1>3, <1>6, ServedKeepsTask
  <2>3. pc'[t] \in Pcs BY <2>1 DEF Pcs
  <2>4. Len(frames[t]) \in Nat BY <1>2, TopOfStack
  <2> QED BY <2>1, <2>2, <2>3, <2>4, <1>1, TaskStepKeeps
<1>7. ASSUME NEW r \in Resources, ServedBy(t, r), r = Wanted(t), Top(t).todo # << >>
      PROVE  IInv'
  <2>1. CASE result[r] = "ok"
    BY <2>1, <1>6, <1>7 DEF ServedBy
  <2>2. CASE result[r] # "ok"
    BY <2>2, <1>5, <1>7 DEF ServedBy
  <2> QED BY <2>1, <2>2
<1>8. Top(t).todo # << >> => Wanted(t) \in Resources
  BY <1>2, TopOfStack
<1>9. CASE Lookup(t)
  BY <1>5, <1>7, <1>8, <1>9 DEF Lookup
<1>10. CASE Join(t)
  BY <1>4, <1>5, <1>10 DEF Join
<1>11. CASE FindFinished(t)
  BY <1>4, <1>7, <1>8, <1>11 DEF FindFinished
<1>12. CASE StartCommand(t)
  BY <1>5, <1>12 DEF StartCommand
<1> QED BY <1>9, <1>10, <1>11, <1>12

\* EndCommand: the stack is empty again.
LEMMA EndCommandKeeps ==
  ASSUME IInv, NEW t \in Tasks,
         \/ EndCommand(t)
         \/ Fail(t) /\ ~(Len(frames[t]) > 1)
  PROVE  IInv'
<1>1. /\ UNCHANGED <<startVars, mainVars>>
      /\ frames' = [frames EXCEPT ![t] = << >>]
      /\ \E outcome \in Over : pc' = [pc EXCEPT ![t] = outcome]
      /\ pc[t] = "command" \/ ~(Len(frames[t]) > 1)
  BY DEF EndCommand, Fail, startVars, mainVars, Over
<1>2. /\ DOMAIN frames = Tasks /\ pc \in [Tasks -> Pcs]
      /\ pc[t] = "command" => Len(frames[t]) = 1 /\ Len(frames[t]) \in Nat
      /\ frames[t] \in Seq(Frame) /\ Len(frames[t]) \in Nat
  BY DEF IInv, Types, TaskOK, Stage, StackOK
<1>3. /\ DOMAIN frames' = Tasks /\ \A u \in Tasks \ {t} : frames'[u] = frames[u]
      /\ frames'[t] = << >> /\ pc'[t] \in Over /\ pc' = [pc EXCEPT ![t] = pc'[t]]
  BY <1>1, <1>2
<1>4. ~(Len(frames[t]) > 1)
  <2>1. Len(frames[t]) = 1 => ~(Len(frames[t]) > 1) OBVIOUS
  <2> QED BY <2>1, <1>1, <1>2
<1>5. TaskOK(t)'
  <2>1. << >> \in Seq(Frame) /\ Len(<< >>) = 0 BY EmptySeq
  <2>2. StackOK(frames[t])' BY <2>1, <1>3 DEF StackOK
  <2>3. Ensured(t)' BY <2>1, <1>3 DEF Ensured
  <2>4. Flying(t)' BY <2>1, <1>3 DEF Flying
  <2>5. Stage(t)' BY <1>3 DEF Stage, Over
  <2> QED BY <2>2, <2>3, <2>4, <2>5 DEF TaskOK
<1>6. \A i \in 2 .. Len(frames[t]) : FALSE
  <2>1. \A n \in Nat : ~(n > 1) => \A i \in 2 .. n : FALSE OBVIOUS
  <2> QED BY <2>1, <1>2, <1>4
<1>7. pc'[t] \in Pcs BY <1>3 DEF Pcs
<1> QED BY <1>1, <1>3, <1>5, <1>6, <1>7, TaskStepKeeps

\* BeginRefused: after the teardown has begun nothing is started.
LEMMA BeginRefusedKeeps ==
  ASSUME IInv, NEW t \in Tasks, BeginRefused(t)
  PROVE  IInv'
<1> DEFINE r == Wanted(t)
<1>1. /\ pc[t] = "asking" /\ flight[r] = None /\ result[r] = "none"
      /\ result' = [result EXCEPT ![r] = "failed"]
      /\ pc' = [pc EXCEPT ![t] = "failing"]
      /\ frames' = frames /\ flight' = flight /\ life' = life /\ ups' = ups
      /\ started' = started /\ activeStarts' = activeStarts
      /\ tearingDown' = tearingDown /\ stopping' = stopping /\ main' = main
      /\ interrupted' = interrupted
  BY DEF BeginRefused, Finished, mainVars
<1>2. /\ DOMAIN frames = Tasks /\ pc \in [Tasks -> Pcs] /\ frames[t] # << >>
      /\ frames[t][Len(frames[t])].todo # << >>
      /\ result \in [Resources -> {"none", "ok", "failed"}]
  BY <1>1 DEF IInv, Types, TaskOK, Stage, Over
<1>3. r \in Resources
  BY <1>2, TopOfStack
<1> HIDE DEF r
<1>4. /\ result'[r] = "failed" /\ \A q \in Resources \ {r} : result'[q] = result[q]
      /\ result' \in [Resources -> {"none", "ok", "failed"}]
      /\ pc'[t] = "failing" /\ \A u \in Tasks \ {t} : pc'[u] = pc[u]
      /\ pc' \in [Tasks -> Pcs]
  BY <1>1, <1>2, <1>3 DEF Pcs
<1>5. \A q \in Resources : result[q] = "ok" => result'[q] = "ok"
  BY <1>1, <1>4
<1>6. Types' BY <1>1, <1>4 DEF IInv, Types
<1>7. ASSUME NEW u \in Tasks PROVE TaskOK(u)'
  <2>1. CASE u = t
    BY <2>1, <1>1, <1>2, <1>4, <1>5, FailingKeepsTask
  <2>2. CASE u # t
    BY <2>2, <1>1, <1>4, <1>5, TaskUntouched, ResourceAssumption DEF IInv
  <2> QED BY <2>1, <2>2
<1>8. ASSUME NEW q \in Resources PROVE OnStack(q)'
  BY <1>1 DEF IInv, OnStack
<1>9. ASSUME NEW q \in Resources PROVE LifeOK(q)'
  <2>1. CASE q = r
    <3>1. life[q] = "never" BY <2>1, <1>1, <1>3 DEF IInv, LifeOK
    <3> QED BY <3>1, <2>1, <1>1, <1>4 DEF IInv, LifeOK
  <2>2. CASE q # r
    BY <2>2, <1>1, <1>4 DEF IInv, LifeOK
  <2> QED BY <2>1, <2>2
<1>10. Counted'
  <2>1. InFlight' = InFlight BY <1>1 DEF InFlight
  <2> QED BY <2>1, <1>1 DEF IInv, Counted
<1>11. Orders' BY <1>1 DEF IInv, Orders
<1> QED BY <1>1, <1>2, <1>6, <1>7, <1>8, <1>9, <1>10, <1>11 DEF IInv

-----------------------------------------------------------------------------
(* A start                                                                 *)

\* Begin: the resource is in flight, and on top of the stack of its task.
LEMMA BeginKeeps ==
  ASSUME IInv, NEW t \in Tasks, Begin(t)
  PROVE  IInv'
<1> DEFINE r == Wanted(t)
           f == frames[t]
           g == Append(f, [starts |-> r, todo |-> DependsOn[r]])
<1>1. /\ pc[t] = "asking" /\ flight[r] = None /\ result[r] = "none" /\ ~tearingDown
      /\ flight' = [flight EXCEPT ![r] = t] /\ activeStarts' = activeStarts + 1
      /\ frames' = [frames EXCEPT ![t] = g]
      /\ pc' = [pc EXCEPT ![t] = "ensure"]
      /\ result' = result /\ life' = life /\ ups' = ups /\ started' = started
      /\ tearingDown' = tearingDown /\ stopping' = stopping /\ main' = main
      /\ interrupted' = interrupted
  BY DEF Begin, Finished, CanBegin, mainVars
<1>2. /\ DOMAIN frames = Tasks /\ pc \in [Tasks -> Pcs] /\ f # << >>
      /\ f[Len(f)].todo # << >> /\ TaskOK(t)
      /\ flight \in [Resources -> Tasks \cup {None}] /\ activeStarts \in Nat
  BY <1>1 DEF IInv, Types, TaskOK, Stage, Over
<1>3. /\ r \in Resources /\ r = Head(f[Len(f)].todo) /\ Len(f) \in Nat /\ Len(f) >= 1
  BY <1>2, TopOfStack DEF Wanted
<1>4. t # None /\ None \notin Resources /\ DependsOn[r] \in Seq(Resources)
  BY <1>3, ResourceAssumption
<1> HIDE DEF r
<1>5. \A i \in 1 .. Len(f) : f[i].starts # r
  <2>1. ASSUME NEW i \in 1 .. Len(f) PROVE f[i].starts # r
    <3>1. CASE i = 1 BY <3>1, <1>2, <1>3, <1>4 DEF TaskOK, StackOK
    <3>2. CASE i # 1
      <4>1. i \in 2 .. Len(f) BY <3>2, <1>3
      <4>2. flight[f[i].starts] = t BY <4>1, <1>2 DEF TaskOK, Flying
      <4> QED BY <4>2, <1>1, <1>4
    <3> QED BY <3>1, <3>2
  <2> QED BY <2>1
<1>6. /\ StackOK(g) /\ Len(g) = Len(f) + 1
      /\ \A i \in 1 .. Len(f) : g[i] = f[i]
      /\ g[Len(f) + 1] = [starts |-> r, todo |-> DependsOn[r]]
  <2>1. StackOK(f) BY <1>2 DEF TaskOK
  <2>2. /\ f # << >> /\ f[Len(f)].todo # << >> /\ r = Head(f[Len(f)].todo)
        /\ r \in Resources /\ DependsOn[r] \in Seq(Resources)
    BY <1>2, <1>3, <1>4
  <2> HIDE DEF f
  <2> QED BY ONLY <2>1, <2>2, <1>5, PushKeepsStack
<1>7. g # << >>
  <2>1. Len(f) + 1 # 0 BY <1>3
  <2> QED BY <2>1, <1>6, EmptySeq
<1> HIDE DEF g
<1>8. /\ DOMAIN frames' = Tasks /\ frames'[t] = g
      /\ \A u \in Tasks \ {t} : frames'[u] = frames[u]
      /\ pc'[t] = "ensure" /\ \A u \in Tasks \ {t} : pc'[u] = pc[u] /\ pc' \in [Tasks -> Pcs]
      /\ flight'[r] = t /\ \A q \in Resources \ {r} : flight'[q] = flight[q]
      /\ flight' \in [Resources -> Tasks \cup {None}]
  BY <1>1, <1>2, <1>3 DEF Pcs
<1>9. pc' \in [Tasks -> Pcs] BY <1>1, <1>2 DEF Pcs
<1>10. Types'
  <2>1. activeStarts' \in Nat BY <1>1, <1>2
  <2> QED BY <2>1, <1>1, <1>8, <1>9 DEF IInv, Types
<1>11. life[r] = "never" BY <1>1, <1>3 DEF IInv, LifeOK
<1>12. \A i \in 1 .. Len(f) + 1 : i \in 1 .. Len(f) \/ i = Len(f) + 1
  BY <1>3
<1>13. TaskOK(t)'
  <2>1. StackOK(frames[t])' BY <1>6, <1>8
  <2>2. Ensured(t)'
    <3>1. ASSUME NEW i \in 1 .. Len(f) + 1, NEW q \in Elements(ListOf(t, g[i]))
          PROVE  q \in Elements(g[i].todo) \/ result[q] = "ok"
      <4>1. CASE i \in 1 .. Len(f)
        <5>1. ~(i = Len(f) /\ pc[t] = "failing") BY <1>1
        <5> QED BY <5>1, <4>1, <3>1, <1>2, <1>6 DEF TaskOK, Ensured
      <4>2. CASE i = Len(f) + 1
        <5>1. g[i].todo = DependsOn[r] /\ g[i].starts = r BY <4>2, <1>6
        <5>2. r # None BY <1>3, <1>4
        <5>3. ListOf(t, g[i]) = g[i].todo BY <5>1, <5>2 DEF ListOf
        <5> QED BY <5>3, <3>1
      <4> QED BY <4>1, <4>2, <1>12
    <3> QED BY <3>1, <1>1, <1>6, <1>8 DEF Ensured
  <2>3. Flying(t)'
    <3>1. ASSUME NEW i \in 2 .. Len(f) + 1
          PROVE  flight'[g[i].starts] = t /\ life[g[i].starts] = "never"
      <4>1. CASE i = Len(f) + 1
        BY <4>1, <1>6, <1>8, <1>11
      <4>2. CASE i # Len(f) + 1
        <5>1. i \in 2 .. Len(f) /\ i \in 1 .. Len(f) BY <4>2, <1>3
        <5>2. /\ flight[f[i].starts] = t /\ life[f[i].starts] = "never"
              /\ f[i].starts \in Resources
          BY <5>1, <1>1, <1>2 DEF TaskOK, Flying, StackOK
        <5> QED BY <5>1, <5>2, <1>5, <1>6, <1>8
      <4> QED BY <4>1, <4>2
    <3>2. pc'[t] \notin {"up", "failing"} BY <1>8
    <3> QED BY <3>1, <3>2, <1>1, <1>6, <1>8 DEF Flying
  <2>4. Stage(t)' BY <1>7, <1>8 DEF Stage, Over
  <2> QED BY <2>1, <2>2, <2>3, <2>4 DEF TaskOK
<1>14. ASSUME NEW u \in Tasks PROVE TaskOK(u)'
  <2>1. CASE u = t BY <2>1, <1>13
  <2>2. CASE u # t
    <3>1. \A q \in Resources : flight[q] = u => q # r
      BY <1>1, ResourceAssumption
    <3>2. \A q \in Resources : flight[q] = u => flight'[q] = u /\ life'[q] = life[q]
      BY <3>1, <1>1, <1>8
    <3>3. \A q \in Resources : result[q] = "ok" => result'[q] = "ok" BY <1>1
    <3> QED BY <2>2, <3>2, <3>3, <1>8, TaskUntouched, ResourceAssumption DEF IInv
  <2> QED BY <2>1, <2>2
<1>15. ASSUME NEW q \in Resources PROVE OnStack(q)'
  <2>1. CASE q = r
    <3>1. Len(f) + 1 \in 2 .. Len(g) BY <1>3, <1>6
    <3>2. g[Len(f) + 1].starts = r BY <1>6
    <3> QED BY <3>1, <3>2, <2>1, <1>8 DEF OnStack
  <2>2. CASE q # r /\ flight[q] = t
    <3>1. PICK i \in 2 .. Len(f) : f[i].starts = q
      BY <2>2, <1>4 DEF IInv, OnStack
    <3>2. i \in 2 .. Len(g) /\ i \in 1 .. Len(f) BY <1>3, <1>6
    <3>3. g[i].starts = q BY <3>1, <3>2, <1>6
    <3> QED BY <3>2, <3>3, <2>2, <1>8 DEF OnStack
  <2>3. CASE q # r /\ flight[q] # t
    <3>1. flight[q] # None => flight[q] \in Tasks \ {t} BY <2>3, <1>2
    <3> QED BY <3>1, <2>3, <1>8 DEF IInv, OnStack
  <2> QED BY <2>1, <2>2, <2>3
<1>16. ASSUME NEW q \in Resources PROVE LifeOK(q)'
  <2>1. CASE q = r
    <3>1. Elements(DependsOn[q])' = Elements(DependsOn[q]) OBVIOUS
    <3> QED BY <2>1, <1>1, <1>4, <1>8, <1>11 DEF IInv, LifeOK
  <2>2. CASE q # r BY <2>2, <1>1, <1>8 DEF IInv, LifeOK
  <2> QED BY <2>1, <2>2
<1>17. Counted'
  <2>1. r \notin InFlight BY <1>1 DEF InFlight
  <2>2. \A q : q \in InFlight' <=> q \in InFlight \cup {r}
    BY <1>3, <1>4, <1>8 DEF InFlight
  <2>3. InFlight' = InFlight \cup {r} BY ONLY <2>2
  <2>4. /\ IsFiniteSet(InFlight) /\ activeStarts = Cardinality(InFlight)
        /\ main \notin {"stop", "closed"}
    BY <1>1 DEF IInv, Counted, Orders
  <2>5. /\ IsFiniteSet(InFlight \cup {r})
        /\ Cardinality(InFlight \cup {r}) = Cardinality(InFlight) + 1
    BY <2>1, <2>4, FS_AddElement
  <2> QED BY <2>3, <2>4, <2>5, <1>1 DEF Counted
<1>18. Orders' BY <1>1 DEF IInv, Orders
<1> QED BY <1>8, <1>10, <1>14, <1>15, <1>16, <1>17, <1>18 DEF IInv

\* What is appended to a queue is in it, and the others are.
LEMMA AppendToQueue ==
  ASSUME NEW S, NEW s \in Seq(S), NEW e \in S, Distinct(s), ~Has(s, e)
  PROVE  /\ Append(s, e) \in Seq(S) /\ Len(Append(s, e)) = Len(s) + 1
         /\ \A i \in 1 .. Len(s) : Append(s, e)[i] = s[i]
         /\ Append(s, e)[Len(s) + 1] = e
         /\ Distinct(Append(s, e))
         /\ \A x : Has(Append(s, e), x) <=> x = e \/ Has(s, x)
<1>1. /\ Len(s) \in Nat /\ Append(s, e) \in Seq(S)
      /\ Len(Append(s, e)) = Len(s) + 1
      /\ \A i \in 1 .. Len(s) : Append(s, e)[i] = s[i]
      /\ Append(s, e)[Len(s) + 1] = e
  BY AppendProperties
<1>2. Distinct(Append(s, e))
  <2>1. ASSUME NEW i \in 1 .. Len(s) + 1, NEW k \in 1 .. Len(s) + 1, Append(s, e)[i] = Append(s, e)[k]
        PROVE  i = k
    <3>1. CASE i \in 1 .. Len(s) /\ k \in 1 .. Len(s)
      BY <3>1, <2>1, <1>1 DEF Distinct
    <3>2. CASE i = Len(s) + 1 \/ k = Len(s) + 1
      BY <3>2, <2>1, <1>1 DEF Has
    <3> QED BY <3>1, <3>2, <1>1
  <2> QED BY <2>1, <1>1 DEF Distinct
<1>3. ASSUME NEW x PROVE Has(Append(s, e), x) <=> x = e \/ Has(s, x)
  <2>1. ASSUME NEW i \in 1 .. Len(s) + 1, Append(s, e)[i] = x PROVE x = e \/ Has(s, x)
    BY <2>1, <1>1 DEF Has
  <2>2. ASSUME NEW i \in 1 .. Len(s), s[i] = x PROVE Has(Append(s, e), x)
    <3>1. i \in 1 .. Len(Append(s, e)) BY <1>1
    <3> QED BY <3>1, <2>2, <1>1 DEF Has
  <2>3. Has(Append(s, e), e)
    <3>1. Len(s) + 1 \in 1 .. Len(Append(s, e)) BY <1>1
    <3> QED BY <3>1, <1>1 DEF Has
  <2> QED BY <2>1, <2>2, <2>3, <1>1 DEF Has
<1> QED BY <1>1, <1>2, <1>3

\* What was ensured is up as long as the teardown has not begun to stop.
LEMMA OkIsUp ==
  ASSUME IInv, NEW q \in Resources, result[q] = "ok", main \in {"walk", "wait"}
  PROVE  life[q] = "up"
<1>1. flight[q] = None BY DEF IInv, LifeOK
<1> QED BY <1>1 DEF IInv, LifeOK

\* Up: the resource is registered after all it depends on, which is up.
LEMMA UpKeeps ==
  ASSUME IInv, NEW t \in Tasks, Up(t)
  PROVE  IInv'
<1> DEFINE r == Top(t).starts
           n == Len(started)
<1>1. /\ pc[t] = "ensure" /\ Top(t).todo = << >> /\ r # None
      /\ started' = Append(started, r)
      /\ life' = [life EXCEPT ![r] = "starting"]
      /\ ups' = [ups EXCEPT ![r] = @ + 1]
      /\ pc' = [pc EXCEPT ![t] = "up"]
      /\ frames' = frames /\ flight' = flight /\ result' = result
      /\ activeStarts' = activeStarts
      /\ tearingDown' = tearingDown /\ stopping' = stopping /\ main' = main
      /\ interrupted' = interrupted
  BY DEF Up, mainVars
<1>2. /\ DOMAIN frames = Tasks /\ pc \in [Tasks -> Pcs] /\ frames[t] # << >> /\ TaskOK(t)
      /\ life \in [Resources -> Lives] /\ ups \in [Resources -> Nat] /\ started \in Seq(Resources)
  BY <1>1 DEF IInv, Types, TaskOK, Stage, Over
<1>3. Len(frames[t]) > 1
  BY <1>1, <1>2, TopOfStack
<1>4. /\ r \in Resources /\ flight[r] = t /\ life[r] = "never"
      /\ Len(frames[t]) \in 2 .. Len(frames[t]) /\ Top(t) = frames[t][Len(frames[t])]
      /\ main \in {"walk", "wait"} /\ stopping = << >>
  BY <1>1, <1>3, TopInFlight
<1>5. t # None /\ DependsOn[r] \in Seq(Resources) /\ Elements(DependsOn[r]) \subseteq Resources
  BY <1>4, ResourceAssumption, ElementsAt
<1>6. \A q \in Elements(DependsOn[r]) : life[q] = "up"
  <2>1. ASSUME NEW q \in Elements(DependsOn[r]) PROVE result[q] = "ok"
    <3>1. Len(frames[t]) \in 1 .. Len(frames[t]) BY <1>4
    <3>2. ListOf(t, Top(t)) = DependsOn[r] BY <1>1 DEF ListOf
    <3>3. q \in Elements(Top(t).todo) \/ result[q] = "ok"
      BY <3>1, <3>2, <1>1, <1>2, <1>4 DEF TaskOK, Ensured
    <3>4. Elements(Top(t).todo) = {} BY <1>1, <1>2, TopOfStack, ElementsAt
    <3> QED BY <3>3, <3>4
  <2> QED BY <2>1, <1>4, <1>5, OkIsUp
<1> HIDE DEF r
<1>7. /\ life'[r] = "starting" /\ \A q \in Resources \ {r} : life'[q] = life[q]
      /\ ups'[r] = ups[r] + 1 /\ \A q \in Resources \ {r} : ups'[q] = ups[q]
      /\ life' \in [Resources -> Lives] /\ ups' \in [Resources -> Nat]
      /\ pc'[t] = "up" /\ \A u \in Tasks \ {t} : pc'[u] = pc[u]
      /\ pc' \in [Tasks -> Pcs]
  BY <1>1, <1>2, <1>4 DEF Lives, Pcs
<1>8. ~Has(started, r) /\ Distinct(started)
  BY <1>4 DEF IInv, LifeOK, Orders, Alive
<1>9. /\ started' \in Seq(Resources) /\ Len(started') = n + 1 /\ n \in Nat
      /\ \A i \in 1 .. n : started'[i] = started[i]
      /\ started'[n + 1] = r /\ Distinct(started')
      /\ \A x : Has(started', x) <=> x = r \/ Has(started, x)
  <2>1. /\ started \in Seq(Resources) /\ r \in Resources /\ n = Len(started)
        /\ started' = Append(started, r)
    BY <1>1, <1>2, <1>4
  <2> HIDE DEF n
  <2> QED BY ONLY <2>1, <1>8, AppendToQueue, LenProperties
<1>10. Types' BY <1>1, <1>7, <1>9 DEF IInv, Types
<1>11. TaskOK(t)'
  <2>1. StackOK(frames[t])' BY <1>1, <1>2 DEF TaskOK
  <2>2. Ensured(t)'
    <3>1. Ensured(t) BY <1>2 DEF TaskOK
    <3>2. frames' = frames /\ result' = result /\ pc[t] # "failing" BY <1>1
    <3> QED BY ONLY <3>1, <3>2 DEF Ensured, ListOf
  <2>3. Flying(t)'
    <3>1. ASSUME NEW i \in 2 .. Len(frames[t])
          PROVE  /\ flight[frames[t][i].starts] = t
                 /\ i < Len(frames[t]) => life'[frames[t][i].starts] = "never"
                 /\ i = Len(frames[t]) => life'[frames[t][i].starts] = "starting"
      <4>1. flight[frames[t][i].starts] = t /\ life[frames[t][i].starts] = "never"
            /\ frames[t][i].starts \in Resources
        BY <1>1, <1>2 DEF TaskOK, Flying, StackOK
      <4>2. i < Len(frames[t]) => frames[t][i].starts # r
        <5>1. i \in 1 .. Len(frames[t]) /\ Len(frames[t]) \in 1 .. Len(frames[t]) BY <1>4
        <5>2. frames[t][i].starts = frames[t][Len(frames[t])].starts => i = Len(frames[t])
          BY <5>1, <1>2 DEF TaskOK, StackOK
        <5> QED BY <5>1, <5>2, <1>4 DEF r
      <4> QED BY <4>1, <4>2, <1>4, <1>7 DEF r
    <3> QED BY <3>1, <1>1, <1>7 DEF Flying
  <2>4. Stage(t)' BY <1>1, <1>2, <1>3, <1>7 DEF Stage, Over
  <2> QED BY <2>1, <2>2, <2>3, <2>4 DEF TaskOK
<1>12. ASSUME NEW u \in Tasks PROVE TaskOK(u)'
  <2>1. CASE u = t BY <2>1, <1>11
  <2>2. CASE u # t
    <3>1. \A q \in Resources : flight[q] = u => flight'[q] = u /\ life'[q] = life[q]
      BY <2>2, <1>1, <1>4, <1>7
    <3> QED BY <2>2, <3>1, <1>1, <1>7, TaskUntouched, ResourceAssumption DEF IInv
  <2> QED BY <2>1, <2>2
<1>13. ASSUME NEW q \in Resources PROVE OnStack(q)'
  BY <1>1 DEF IInv, OnStack
<1>14. ASSUME NEW q \in Resources PROVE LifeOK(q)'
  <2>0. LifeOK(q) BY DEF IInv
  <2>1. CASE q = r
    <3>1. \A p \in Elements(DependsOn[r]) : life'[p] = "up"
      BY <1>4, <1>5, <1>6, <1>7
    <3>2. ups'[r] = 1 BY <2>0, <2>1, <1>4, <1>7 DEF LifeOK
    <3>3. result[r] = "none" /\ flight[r] # None BY <2>0, <2>1, <1>4, <1>5 DEF LifeOK
    <3> QED BY <3>1, <3>2, <3>3, <2>1, <1>1, <1>7, <1>9 DEF LifeOK, Alive, TornDown
  <2>2. CASE q # r
    <3>1. Elements(DependsOn[q]) \subseteq Resources BY ResourceAssumption, ElementsAt
    <3>2. life[q] \in {"starting", "up"} => \A p \in Elements(DependsOn[q]) : life'[p] = "up"
      BY <3>1, <2>0, <1>4, <1>7 DEF LifeOK
    <3>3. Has(started', q) <=> Has(started, q) BY <2>2, <1>9
    <3> QED BY <3>2, <3>3, <2>0, <2>2, <1>1, <1>7 DEF LifeOK
  <2> QED BY <2>1, <2>2
<1>15. Counted'
  <2>1. InFlight' = InFlight BY <1>1 DEF InFlight
  <2> QED BY <2>1, <1>1 DEF IInv, Counted
<1>16. Orders'
  <2>1. ASSUME NEW i \in 1 .. n + 1, NEW q \in Elements(DependsOn[started'[i]])
        PROVE  \E k \in 1 .. i - 1 : started'[k] = q
    <3>1. CASE i \in 1 .. n
      <4>1. PICK k \in 1 .. i - 1 : started[k] = q
        BY <3>1, <2>1, <1>9 DEF IInv, Orders
      <4>2. k \in 1 .. n BY <3>1, <1>9
      <4> QED BY <4>1, <4>2, <1>9
    <3>2. CASE i = n + 1
      <4>1. life[q] = "up" /\ q \in Resources BY <3>2, <2>1, <1>5, <1>6, <1>9
      <4>2. ~Has(stopping, q) BY <1>4, EmptySeq DEF Has
      <4>3. Has(started, q) BY <4>1, <4>2 DEF IInv, LifeOK, Alive
      <4>4. i - 1 = n BY <3>2, <1>9
      <4> QED BY <4>3, <4>4, <1>9 DEF Has
    <3> QED BY <3>1, <3>2, <1>9
  <2>2. main' \notin {"stop", "closed"} BY <1>1, <1>4
  <2>3. Orders BY DEF IInv
  <2>4. /\ \A i \in 1 .. Len(started') : \A q \in Elements(DependsOn[started'[i]]) :
             \E k \in 1 .. i - 1 : started'[k] = q
        /\ \A i \in 1 .. Len(stopping') : \A q \in Elements(DependsOn[stopping'[i]]) :
             \E k \in i + 1 .. Len(stopping') : stopping'[k] = q
    <3>1. stopping' = stopping /\ Len(started') = n + 1 BY <1>1, <1>9
    <3>2. \A i \in 1 .. Len(stopping') : \A q \in Elements(DependsOn[stopping'[i]]) :
             \E k \in i + 1 .. Len(stopping') : stopping'[k] = q
      <4>1. stopping' = stopping BY <3>1
      <4>2. \A i \in 1 .. Len(stopping) : \A q \in Elements(DependsOn[stopping[i]]) :
               \E k \in i + 1 .. Len(stopping) : stopping[k] = q
        BY ONLY <2>3 DEF Orders
      <4> QED BY ONLY <4>1, <4>2
    <3> HIDE DEF n
    <3>3. \A i \in 1 .. Len(started') : \A q \in Elements(DependsOn[started'[i]]) :
             \E k \in 1 .. i - 1 : started'[k] = q
      BY ONLY <2>1, <3>1
    <3> QED BY <3>2, <3>3
  <2>5. Distinct(started') /\ Distinct(stopping') BY <2>3, <1>1, <1>9 DEF Orders
  <2>6. /\ main' # "walk" => tearingDown'
        /\ main' \in {"walk", "wait"} => stopping' = << >>
    BY <2>3, <1>1 DEF Orders
  <2> QED BY <2>2, <2>4, <2>5, <2>6 DEF Orders
<1> QED BY <1>1, <1>2, <1>10, <1>12, <1>13, <1>14, <1>15, <1>16 DEF IInv

\* StartFails: what the up command left behind is still registered.
LEMMA StartFailsKeeps ==
  ASSUME IInv, NEW t \in Tasks, StartFails(t)
  PROVE  IInv'
<1> DEFINE r == Top(t).starts
<1>1. /\ pc[t] = "up" /\ life' = [life EXCEPT ![r] = "broken"]
      /\ pc' = [pc EXCEPT ![t] = "failing"]
      /\ frames' = frames /\ flight' = flight /\ result' = result /\ ups' = ups
      /\ started' = started /\ activeStarts' = activeStarts
      /\ tearingDown' = tearingDown /\ stopping' = stopping /\ main' = main
      /\ interrupted' = interrupted
  BY DEF StartFails, mainVars
<1>2. /\ DOMAIN frames = Tasks /\ pc \in [Tasks -> Pcs] /\ Len(frames[t]) > 1 /\ TaskOK(t)
      /\ life \in [Resources -> Lives]
  BY <1>1 DEF IInv, Types, TaskOK, Stage
<1>3. /\ frames[t] # << >> /\ r \in Resources /\ flight[r] = t /\ life[r] = "starting"
      /\ Len(frames[t]) \in 2 .. Len(frames[t]) /\ Top(t) = frames[t][Len(frames[t])]
  BY <1>1, <1>2, TopInFlight
<1>4. t # None BY ResourceAssumption
<1> HIDE DEF r
<1>5. /\ life'[r] = "broken" /\ \A q \in Resources \ {r} : life'[q] = life[q]
      /\ life' \in [Resources -> Lives]
      /\ pc'[t] = "failing" /\ \A u \in Tasks \ {t} : pc'[u] = pc[u]
      /\ pc' \in [Tasks -> Pcs]
  BY <1>1, <1>2, <1>3 DEF Lives, Pcs
<1>6. Types' BY <1>1, <1>5 DEF IInv, Types
<1>7. TaskOK(t)'
  <2>1. StackOK(frames[t])' BY <1>1, <1>2 DEF TaskOK
  <2>2. Ensured(t)' BY <1>1, <1>2, <1>5 DEF TaskOK, Ensured
  <2>3. Flying(t)'
    <3>1. ASSUME NEW i \in 2 .. Len(frames[t])
          PROVE  /\ flight[frames[t][i].starts] = t
                 /\ i < Len(frames[t]) => life'[frames[t][i].starts] = "never"
                 /\ i = Len(frames[t]) => life'[frames[t][i].starts] = "broken"
      <4>1. /\ flight[frames[t][i].starts] = t /\ frames[t][i].starts \in Resources
            /\ i < Len(frames[t]) => life[frames[t][i].starts] = "never"
        BY <1>2 DEF TaskOK, Flying, StackOK
      <4>2. i < Len(frames[t]) => frames[t][i].starts # r
        BY <4>1, <1>3
      <4> QED BY <4>1, <4>2, <1>3, <1>5 DEF r
    <3> QED BY <3>1, <1>1, <1>5 DEF Flying
  <2>4. Stage(t)' BY <1>1, <1>3, <1>5 DEF Stage, Over
  <2> QED BY <2>1, <2>2, <2>3, <2>4 DEF TaskOK
<1>8. ASSUME NEW u \in Tasks PROVE TaskOK(u)'
  <2>1. CASE u = t BY <2>1, <1>7
  <2>2. CASE u # t
    <3>1. \A q \in Resources : flight[q] = u => flight'[q] = u /\ life'[q] = life[q]
      BY <2>2, <1>1, <1>3, <1>5
    <3> QED BY <2>2, <3>1, <1>1, <1>5, TaskUntouched, ResourceAssumption DEF IInv
  <2> QED BY <2>1, <2>2
<1>9. ASSUME NEW q \in Resources PROVE OnStack(q)'
  BY <1>1 DEF IInv, OnStack
<1>10. ASSUME NEW q \in Resources PROVE LifeOK(q)'
  <2>0. LifeOK(q) BY DEF IInv
  <2>1. CASE q = r
    <3>1. result[r] = "none" /\ flight[r] # None /\ ups[r] = 1
      BY <2>0, <2>1, <1>3, <1>4 DEF LifeOK
    <3>2. Has(started, r) \/ Has(stopping, r) BY <2>0, <2>1, <1>3 DEF LifeOK, Alive
    <3> QED BY <3>1, <3>2, <2>1, <1>1, <1>5 DEF LifeOK, Alive, TornDown
  <2>2. CASE q # r
    <3>1. Elements(DependsOn[q]) \subseteq Resources BY ResourceAssumption, ElementsAt
    <3>2. life[q] \in {"starting", "up"} => \A p \in Elements(DependsOn[q]) : life'[p] = "up"
      BY <3>1, <2>0, <1>3, <1>5 DEF LifeOK
    <3> QED BY <3>2, <2>0, <2>2, <1>1, <1>5 DEF LifeOK
  <2> QED BY <2>1, <2>2
<1>11. Counted'
  <2>1. InFlight' = InFlight BY <1>1 DEF InFlight
  <2> QED BY <2>1, <1>1 DEF IInv, Counted
<1>12. Orders' BY <1>1 DEF IInv, Orders
<1> QED BY <1>1, <1>2, <1>6, <1>8, <1>9, <1>10, <1>11, <1>12 DEF IInv

\* The end of a start (EndStart): its frame is popped, and those who joined it
\* advance, or fail, together with the task that ran it.
LEMMA EndStartKeeps ==
  ASSUME IInv, NEW t \in Tasks, NEW outcome, NEW stage, EndStart(t, outcome, stage),
         Len(frames[t]) > 1, UNCHANGED <<ups, started, mainVars>>,
         \/ /\ outcome = "ok" /\ stage = "ensure" /\ pc[t] = "up"
            /\ life' = [life EXCEPT ![Top(t).starts] = "up"]
         \/ outcome = "failed" /\ stage = "failing" /\ pc[t] = "failing" /\ life' = life
  PROVE  IInv'
<1> DEFINE r == Top(t).starts
           f == frames[t]
           waits(u) == pc[u] = "joined" /\ Wanted(u) = r
<1>1. /\ result' = [result EXCEPT ![r] = outcome] /\ activeStarts' = activeStarts - 1
      /\ flight' = [flight EXCEPT ![r] = None]
      /\ frames' = [u \in Tasks |-> CASE u = t    -> Advance(Front(frames[t]))
                                      [] waits(u) -> Advance(frames[u])
                                      [] OTHER    -> frames[u]]
      /\ pc' = [u \in Tasks |-> IF u = t \/ waits(u) THEN stage ELSE pc[u]]
      /\ ups' = ups /\ started' = started
      /\ tearingDown' = tearingDown /\ stopping' = stopping /\ main' = main
      /\ interrupted' = interrupted
  BY DEF EndStart, mainVars
<1>2. /\ f # << >> /\ r \in Resources /\ flight[r] = t
      /\ Len(f) \in 2 .. Len(f) /\ Top(t) = f[Len(f)]
      /\ main \in {"walk", "wait"} /\ stopping = << >> /\ activeStarts \in Nat /\ activeStarts # 0
  BY TopInFlight
<1>3. /\ t # None /\ TaskOK(t) /\ StackOK(f) /\ f \in Seq(Frame) /\ Len(f) \in Nat
      /\ flight \in [Resources -> Tasks \cup {None}] /\ life \in [Resources -> Lives]
      /\ result \in [Resources -> {"none", "ok", "failed"}] /\ pc \in [Tasks -> Pcs]
      /\ result[r] = "none"
  BY <1>2, ResourceAssumption DEF IInv, TaskOK, StackOK, Types, LifeOK
<1>4. /\ StackOK(Front(f)) /\ Front(f) # << >> /\ Front(f)[Len(Front(f))].todo # << >>
      /\ Head(Front(f)[Len(Front(f))].todo) = r
      /\ Front(f) \in Seq(Frame) /\ Len(Front(f)) = Len(f) - 1
      /\ \A i \in 1 .. Len(f) - 1 : Front(f)[i] = f[i]
  <2>1. r = f[Len(f)].starts BY <1>2
  <2> HIDE DEF f, r
  <2>2. /\ StackOK(Front(f)) /\ Front(f) # << >> /\ Front(f)[Len(Front(f))].todo # << >>
        /\ Head(Front(f)[Len(Front(f))].todo) = f[Len(f)].starts
    BY <1>3, FrontKeepsStack DEF f
  <2>3. /\ Front(f) \in Seq(Frame) /\ Len(Front(f)) = Len(f) - 1
        /\ \A i \in 1 .. Len(f) - 1 : Front(f)[i] = f[i]
    BY <1>3, FrontOfStack DEF f
  <2> QED BY <2>1, <2>2, <2>3
<1> DEFINE g == Advance(Front(f))
           n == Len(f) - 1
<1>5. /\ StackOK(g) /\ g # << >> /\ Len(g) = n /\ n \in Nat /\ n >= 1
      /\ \A i \in 1 .. n - 1 : g[i] = f[i]
      /\ \A i \in 1 .. n : g[i].starts = f[i].starts
      /\ g[n].todo = Tail(f[n].todo) /\ f[n].todo # << >> /\ Head(f[n].todo) = r
      /\ f[n].todo \in Seq(Resources)
  <2>1. n \in Nat /\ n >= 1 /\ n \in 1 .. n /\ Len(Front(f)) = n BY <1>2, <1>3, <1>4
  <2>2. /\ g \in Seq(Frame) /\ Len(g) = Len(Front(f)) /\ g # << >>
        /\ \A i \in 1 .. Len(Front(f)) - 1 : g[i] = Front(f)[i]
        /\ \A i \in 1 .. Len(Front(f)) : g[i].starts = Front(f)[i].starts
        /\ g[Len(Front(f))].todo = Tail(Front(f)[Len(Front(f))].todo)
    BY <1>4, AdvanceStack
  <2>3. StackOK(g) BY <1>4, AdvanceKeepsStack
  <2>4. f[n].todo \in Seq(Resources)
    <3>1. f[n] \in Frame BY <2>1, <1>3
    <3> QED BY <3>1 DEF Frame
  <2>5. Front(f)[n] = f[n] BY <2>1, <1>4
  <2> HIDE DEF g, n, r
  <2>6. \A i \in 1 .. n : i \in 1 .. Len(f) - 1 BY <2>1 DEF n
  <2>7. \A i \in 1 .. n - 1 : i \in 1 .. n BY <2>1
  <2> QED BY <2>1, <2>2, <2>3, <2>4, <2>5, <2>6, <2>7, <1>4
<1>6. /\ DOMAIN frames' = Tasks /\ frames'[t] = g /\ pc'[t] = stage
      /\ \A u \in Tasks \ {t} : frames'[u] = IF waits(u) THEN Advance(frames[u]) ELSE frames[u]
      /\ \A u \in Tasks \ {t} : pc'[u] = IF waits(u) THEN stage ELSE pc[u]
      /\ pc' \in [Tasks -> Pcs]
  BY <1>1, <1>3 DEF Pcs
<1> HIDE DEF r, g
<1>7. /\ flight'[r] = None /\ \A q \in Resources \ {r} : flight'[q] = flight[q]
      /\ flight' \in [Resources -> Tasks \cup {None}]
      /\ result'[r] = outcome /\ \A q \in Resources \ {r} : result'[q] = result[q]
      /\ result' \in [Resources -> {"none", "ok", "failed"}]
      /\ \A q \in Resources : result[q] = "ok" => result'[q] = "ok"
  BY <1>1, <1>2, <1>3
<1>8. /\ \A q \in Resources \ {r} : life'[q] = life[q] /\ life' \in [Resources -> Lives]
      /\ \A q \in Resources : life[q] = "up" => life'[q] = "up"
      /\ outcome = "ok" => life[r] = "starting" /\ life'[r] = "up"
      /\ outcome = "failed" => life'[r] = life[r] /\ life[r] \in {"never", "broken"}
  <2>1. outcome = "ok" => life[r] = "starting" BY TopInFlight DEF r
  <2>2. outcome = "failed" => life[r] \in {"never", "broken"} BY TopInFlight DEF r
  <2> QED BY <2>1, <2>2, <1>2, <1>3 DEF Lives, r
<1>9. life' \in [Resources -> Lives]
  BY <1>2, <1>3 DEF Lives, r
<1>10. Types'
  <2>1. activeStarts' \in Nat BY <1>1, <1>2
  <2> QED BY <2>1, <1>1, <1>6, <1>7, <1>9 DEF IInv, Types
<1>11. TaskOK(t)'
  <2>1. StackOK(frames[t])' BY <1>5, <1>6
  <2>2. Ensured(t)'
    <3>1. ASSUME NEW i \in 1 .. n, ~(i = n /\ stage = "failing"),
                 NEW q \in Elements(ListOf(t, g[i]))
          PROVE  q \in Elements(g[i].todo) \/ result'[q] = "ok"
      <4>1. ListOf(t, g[i]) = ListOf(t, f[i]) BY <1>5 DEF ListOf
      <4>2. i \in 1 .. Len(f) /\ i # Len(f) BY <1>3, <1>5
      <4>3. q \in Elements(f[i].todo) \/ result[q] = "ok"
        BY <4>1, <4>2, <1>3, <3>1 DEF TaskOK, Ensured
      <4>4. q \in Resources
        <5>1. f[i].starts \in Resources \cup {None}
          <6>1. f[i] \in Frame BY <4>2, <1>3
          <6> QED BY <6>1 DEF Frame
        <5>2. ListOf(t, f[i]) \in Seq(Resources) BY <5>1, ResourceAssumption DEF ListOf
        <5> QED BY <5>2, <4>1, ElementsAt
      <4>5. CASE i = n
        <5>1. outcome = "ok" BY <4>5, <3>1
        <5>2. q \in Elements(f[n].todo) => q = r \/ q \in Elements(Tail(f[n].todo))
          BY <1>5, ElementsOfTail
        <5> HIDE DEF n, f
        <5> QED BY <5>1, <5>2, <4>3, <4>4, <4>5, <1>5, <1>7
      <4>6. CASE i # n
        <5>1. i \in 1 .. n - 1 BY <4>6, <1>5
        <5>2. g[i] = f[i] BY <5>1, <1>5
        <5> QED BY <5>2, <4>3, <4>4, <1>7
      <4> QED BY <4>5, <4>6
    <3> QED BY <3>1, <1>5, <1>6 DEF Ensured
  <2>3. Flying(t)'
    <3>1. ASSUME NEW i \in 2 .. n
          PROVE  flight'[g[i].starts] = t /\ life'[g[i].starts] = "never"
      <4>1. /\ i \in 2 .. Len(f) /\ i \in 1 .. Len(f) /\ i < Len(f) /\ i \in 1 .. n
            /\ Len(f) \in 1 .. Len(f) /\ i # Len(f)
        BY <1>3, <1>5
      <4>2. flight[f[i].starts] = t /\ life[f[i].starts] = "never" /\ f[i].starts \in Resources
        BY <4>1, <1>3 DEF TaskOK, Flying, StackOK
      <4>3. f[i].starts # f[Len(f)].starts
        BY <4>1, <1>3 DEF StackOK
      <4>4. f[i].starts # r BY <4>3, <1>2 DEF r
      <4> QED BY <4>1, <4>2, <4>4, <1>5, <1>7, <1>8
    <3>2. stage # "up" OBVIOUS
    <3> QED BY <3>1, <3>2, <1>5, <1>6 DEF Flying
  <2>4. Stage(t)'
    <3>1. stage \in {"ensure", "failing"} OBVIOUS
    <3> QED BY <3>1, <1>5, <1>6 DEF Stage, Over
  <2> QED BY <2>1, <2>2, <2>3, <2>4 DEF TaskOK
<1>12. ASSUME NEW u \in Tasks PROVE TaskOK(u)'
  <2>1. CASE u = t BY <2>1, <1>11
  <2>2. CASE u # t /\ ~waits(u)
    <3>1. \A q \in Resources : flight[q] = u => flight'[q] = u /\ life'[q] = life[q]
      BY <2>2, <1>2, <1>7, <1>8 DEF r
    <3>2. frames'[u] = frames[u] /\ pc'[u] = pc[u] BY <2>2, <1>6
    <3> QED BY <2>2, <3>1, <3>2, <1>7, TaskUntouched, ResourceAssumption DEF IInv
  <2>3. CASE u # t /\ waits(u)
    <3>1. \A q \in Resources : flight[q] = u => flight'[q] = u /\ life'[q] = life[q]
      BY <2>3, <1>2, <1>7, <1>8 DEF r
    <3>2. frames'[u] = Advance(frames[u]) /\ pc'[u] = stage BY <2>3, <1>6
    <3>3. frames[u] # << >> /\ frames[u][Len(frames[u])].todo # << >>
      BY <2>3 DEF IInv, TaskOK, Stage, Over
    <3>4. Top(u).todo # << >> BY <3>3, TopOfStack
    <3>5. pc[u] \notin {"up", "failing"} /\ Wanted(u) = r BY <2>3
    <3>6. \/ pc'[u] = "ensure" /\ result'[Wanted(u)] = "ok"
          \/ pc'[u] = "failing"
      BY <3>2, <3>5, <1>7
    <3> QED BY <3>1, <3>2, <3>3, <3>4, <3>5, <3>6, <1>7, ServedKeepsTask
  <2> QED BY <2>1, <2>2, <2>3
<1>13. ASSUME NEW q \in Resources PROVE OnStack(q)'
  <2>1. CASE q = r BY <2>1, <1>7 DEF OnStack
  <2>2. CASE q # r /\ flight[q] = t
    <3>1. PICK i \in 2 .. Len(f) : f[i].starts = q
      BY <2>2, <1>3 DEF IInv, OnStack
    <3>2. i # Len(f) BY <3>1, <2>2, <1>2 DEF r
    <3>3. i \in 2 .. n /\ i \in 1 .. n BY <3>1, <3>2, <1>3
    <3>4. g[i].starts = q BY <3>1, <3>3, <1>5
    <3>5. i \in 2 .. Len(g) BY <3>3, <1>5
    <3> QED BY <3>4, <3>5, <2>2, <1>6, <1>7 DEF OnStack
  <2>3. CASE q # r /\ flight[q] \notin {t, None}
    <3> DEFINE u == flight[q]
    <3>1. u \in Tasks \ {t} BY <2>3, <1>3
    <3>2. PICK i \in 2 .. Len(frames[u]) : frames[u][i].starts = q
      BY <2>3 DEF IInv, OnStack
    <3>3. flight'[q] = u BY <2>3, <1>7
    <3>4. i \in 2 .. Len(frames'[u]) /\ frames'[u][i].starts = q
      <4>1. CASE ~waits(u) BY <4>1, <3>1, <3>2, <1>6
      <4>2. CASE waits(u)
        <5>1. frames[u] # << >> /\ frames[u][Len(frames[u])].todo # << >> /\ frames[u] \in Seq(Frame)
          BY <4>2, <3>1 DEF IInv, TaskOK, Stage, StackOK, Over
        <5>2. /\ Len(Advance(frames[u])) = Len(frames[u])
              /\ \A k \in 1 .. Len(frames[u]) : Advance(frames[u])[k].starts = frames[u][k].starts
          BY <5>1, AdvanceStack
        <5>3. i \in 1 .. Len(frames[u]) BY <3>2, <5>1
        <5> QED BY <5>2, <5>3, <4>2, <3>1, <3>2, <1>6
      <4> QED BY <4>1, <4>2
    <3> QED BY <3>3, <3>4 DEF OnStack
  <2>4. CASE q # r /\ flight[q] = None BY <2>4, <1>7 DEF OnStack
  <2> QED BY <2>1, <2>2, <2>3, <2>4
<1>14. ASSUME NEW q \in Resources PROVE LifeOK(q)'
  <2>0. LifeOK(q) BY DEF IInv
  <2>d. Elements(DependsOn[q]) \subseteq Resources BY ResourceAssumption, ElementsAt
  <2>1. CASE q = r /\ outcome = "ok"
    <3>1. life[r] = "starting" /\ life'[r] = "up" BY <2>1, <1>8
    <3>2. ups[r] = 1 /\ (Has(started, r) \/ Has(stopping, r))
          /\ \A p \in Elements(DependsOn[r]) : life[p] = "up"
      BY <3>1, <2>0, <2>1 DEF LifeOK, Alive
    <3>3. \A p \in Elements(DependsOn[r]) : life'[p] = "up"
      BY <3>2, <2>1, <2>d, <1>8
    <3> QED BY <3>1, <3>2, <3>3, <2>1, <1>1, <1>7 DEF LifeOK, Alive, TornDown
  <2>2. CASE q = r /\ outcome = "failed"
    <3>1. life'[r] = life[r] /\ life[r] \in {"never", "broken"} BY <2>2, <1>8
    <3> QED BY <3>1, <2>0, <2>2, <1>1, <1>7 DEF LifeOK
  <2>3. CASE q # r
    <3>1. life[q] \in {"starting", "up"} => \A p \in Elements(DependsOn[q]) : life'[p] = "up"
      BY <2>0, <2>d, <1>8 DEF LifeOK
    <3> QED BY <3>1, <2>0, <2>3, <1>1, <1>7, <1>8 DEF LifeOK
  <2> QED BY <2>1, <2>2, <2>3
<1>15. Counted'
  <2>1. r \in InFlight BY <1>2, <1>3 DEF InFlight
  <2>2. \A q : q \in InFlight' <=> q \in InFlight \ {r}
    BY <1>7 DEF InFlight
  <2>3. InFlight' = InFlight \ {r} BY ONLY <2>2
  <2>4. IsFiniteSet(InFlight) /\ activeStarts = Cardinality(InFlight)
    BY DEF IInv, Counted
  <2>5. /\ IsFiniteSet(InFlight \ {r})
        /\ Cardinality(InFlight \ {r}) = Cardinality(InFlight) - 1
    BY <2>1, <2>4, FS_RemoveElement
  <2>6. main' \notin {"stop", "closed"} BY <1>1, <1>2
  <2> QED BY <2>3, <2>4, <2>5, <2>6, <1>1 DEF Counted
<1>16. Orders' BY <1>1 DEF IInv, Orders
<1> QED BY <1>6, <1>10, <1>12, <1>13, <1>14, <1>15, <1>16 DEF IInv

\* Started and Fail are the two ways a start ends.
LEMMA StartedKeeps ==
  ASSUME IInv, NEW t \in Tasks, Started(t)
  PROVE  IInv'
<1>1. /\ pc[t] = "up" /\ life' = [life EXCEPT ![Top(t).starts] = "up"]
      /\ EndStart(t, "ok", "ensure") /\ UNCHANGED <<ups, started, mainVars>>
  BY DEF Started
<1>2. Len(frames[t]) > 1 BY <1>1 DEF IInv, TaskOK, Stage
<1> QED BY <1>1, <1>2, EndStartKeeps

\* An error goes through the frames, one by one.
LEMMA FailKeeps ==
  ASSUME IInv, NEW t \in Tasks, Fail(t)
  PROVE  IInv'
<1>1. CASE Len(frames[t]) > 1
  <2>1. /\ pc[t] = "failing" /\ EndStart(t, "failed", "failing")
        /\ life' = life /\ UNCHANGED <<ups, started, mainVars>>
    BY <1>1 DEF Fail
  <2> QED BY <2>1, <1>1, EndStartKeeps
<1>2. CASE ~(Len(frames[t]) > 1) BY <1>2, EndCommandKeeps
<1> QED BY <1>1, <1>2

-----------------------------------------------------------------------------
(* The teardown                                                            *)

\* A sequence read backwards: who came before comes after.
LEMMA ReverseOfQueue ==
  ASSUME NEW S, NEW s \in Seq(S), Distinct(s)
  PROVE  /\ Reverse(s) \in Seq(S) /\ Len(Reverse(s)) = Len(s) /\ Distinct(Reverse(s))
         /\ \A i \in 1 .. Len(s) : Reverse(s)[i] = s[(Len(s) - i) + 1]
         /\ \A x : Has(Reverse(s), x) <=> Has(s, x)
<1> DEFINE n == Len(s)
           b == Reverse(s)
<1>1. n \in Nat /\ \A i \in 1 .. n : s[i] \in S
  OBVIOUS
<1>2. b = [i \in 1 .. n |-> s[(n - i) + 1]]
  BY DEF Reverse
<1>3. \A i \in 1 .. n : (n - i) + 1 \in 1 .. n
  BY <1>1
<1> HIDE DEF n, b
<1>4. b \in [1 .. n -> S] /\ \A i \in 1 .. n : b[i] = s[(n - i) + 1]
  BY <1>1, <1>2, <1>3
<1>5. b \in Seq(S) /\ Len(b) = n
  BY <1>1, <1>4, LenProperties, SeqDef
<1>6. Distinct(b)
  <2>1. ASSUME NEW i \in 1 .. n, NEW k \in 1 .. n, b[i] = b[k] PROVE i = k
    <3>1. s[(n - i) + 1] = s[(n - k) + 1] BY <2>1, <1>4
    <3>2. (n - i) + 1 = (n - k) + 1 BY <3>1, <1>3 DEF Distinct, n
    <3> QED BY <3>2, <1>1
  <2> QED BY <2>1, <1>5 DEF Distinct
<1>7. ASSUME NEW x PROVE Has(b, x) <=> Has(s, x)
  <2>1. ASSUME NEW i \in 1 .. n, b[i] = x PROVE Has(s, x)
    BY <2>1, <1>3, <1>4 DEF Has, n
  <2>2. ASSUME NEW i \in 1 .. n, s[i] = x PROVE Has(b, x)
    <3>1. (n - i) + 1 \in 1 .. n /\ (n - ((n - i) + 1)) + 1 = i BY <1>1, <1>3
    <3>2. b[(n - i) + 1] = x BY <3>1, <2>2, <1>4
    <3> QED BY <3>1, <3>2, <1>5 DEF Has
  <2> QED BY <2>1, <2>2, <1>5 DEF Has, n
<1> QED BY <1>4, <1>5, <1>6, <1>7 DEF n, b

\* The head of a queue is not in its tail, and the others are.
LEMMA TailOfQueue ==
  ASSUME NEW S, NEW s \in Seq(S), s # << >>, Distinct(s)
  PROVE  /\ Len(s) \in Nat /\ Len(s) >= 1 /\ Head(s) = s[1] /\ Head(s) \in S
         /\ Tail(s) \in Seq(S) /\ Len(Tail(s)) = Len(s) - 1
         /\ \A i \in 1 .. Len(s) - 1 : Tail(s)[i] = s[i + 1]
         /\ Distinct(Tail(s)) /\ Has(s, Head(s))
         /\ \A x : Has(Tail(s), x) <=> x # Head(s) /\ Has(s, x)
<1>1. /\ Len(s) \in Nat /\ Len(s) >= 1 /\ Head(s) = s[1] /\ Head(s) \in S
      /\ Tail(s) \in Seq(S) /\ Len(Tail(s)) = Len(s) - 1
      /\ \A i \in 1 .. Len(s) - 1 : Tail(s)[i] = s[i + 1]
  BY HeadTailProperties, EmptySeq
<1>2. Has(s, Head(s))
  BY <1>1 DEF Has
<1>3. ASSUME NEW i \in 1 .. Len(s) - 1 PROVE i + 1 \in 1 .. Len(s) /\ i + 1 # 1 /\ 1 \in 1 .. Len(s)
  BY <1>1
<1>4. Distinct(Tail(s))
  <2>1. ASSUME NEW i \in 1 .. Len(s) - 1, NEW k \in 1 .. Len(s) - 1, Tail(s)[i] = Tail(s)[k]
        PROVE  i = k
    <3>1. s[i + 1] = s[k + 1] BY <2>1, <1>1
    <3>2. i + 1 = k + 1 BY <3>1, <1>3 DEF Distinct
    <3> QED BY <3>2, <1>1
  <2> QED BY <2>1, <1>1 DEF Distinct
<1>5. ASSUME NEW x PROVE Has(Tail(s), x) <=> x # Head(s) /\ Has(s, x)
  <2>1. ASSUME NEW i \in 1 .. Len(s) - 1, Tail(s)[i] = x PROVE x # Head(s) /\ Has(s, x)
    <3>1. s[i + 1] = x BY <2>1, <1>1
    <3>2. s[i + 1] # s[1] BY <1>3 DEF Distinct
    <3> QED BY <3>1, <3>2, <1>1, <1>3 DEF Has
  <2>2. ASSUME NEW i \in 1 .. Len(s), s[i] = x, x # Head(s) PROVE Has(Tail(s), x)
    <3>1. i # 1 BY <2>2, <1>1
    <3>2. i - 1 \in 1 .. Len(s) - 1 /\ (i - 1) + 1 = i BY <3>1, <1>1
    <3>3. Tail(s)[i - 1] = x BY <3>2, <2>2, <1>1
    <3> QED BY <3>2, <3>3, <1>1 DEF Has
  <2> QED BY <2>1, <2>2, <1>1 DEF Has
<1> QED BY <1>1, <1>2, <1>4, <1>5

\* A step of the teardown that stops nothing
LEMMA CalmKeeps ==
  ASSUME IInv, pc' = pc, frames' = frames, flight' = flight, result' = result, life' = life,
         ups' = ups, activeStarts' = activeStarts,
         Types', Orders',
         main \in {"stop", "closed"} => main' \in {"stop", "closed"},
         main' \in {"stop", "closed"} => activeStarts = 0,
         \A q \in Resources : Has(started', q) \/ Has(stopping', q)
                                <=> Has(started, q) \/ Has(stopping, q)
  PROVE  IInv'
<1>1. ASSUME NEW u \in Tasks PROVE TaskOK(u)'
  BY TaskUntouched, ResourceAssumption DEF IInv
<1>2. ASSUME NEW q \in Resources PROVE OnStack(q)'
  BY DEF IInv, OnStack
<1>3. ASSUME NEW q \in Resources PROVE LifeOK(q)'
  BY DEF IInv, LifeOK
<1>4. Counted'
  <2>1. InFlight' = InFlight BY DEF InFlight
  <2> QED BY <2>1 DEF IInv, Counted
<1> QED BY <1>1, <1>2, <1>3, <1>4 DEF IInv

\* Interrupt, BeginTeardown and Close, and stuttering steps
LEMMA MainKeeps ==
  ASSUME IInv, Interrupt \/ BeginTeardown \/ Close \/ UNCHANGED vars
  PROVE  IInv'
<1>1. /\ pc' = pc /\ frames' = frames /\ flight' = flight /\ result' = result /\ life' = life
      /\ ups' = ups /\ activeStarts' = activeStarts /\ started' = started
      /\ stopping' = stopping
  BY DEF Interrupt, BeginTeardown, Close, vars, startVars, mainVars
<1>2. /\ tearingDown \in BOOLEAN /\ interrupted \in BOOLEAN
      /\ main \in {"walk", "wait", "stop", "closed"}
  BY DEF IInv, Types
<1>3. \/ main' = main /\ tearingDown' = tearingDown /\ interrupted' \in BOOLEAN
      \/ main = "walk" /\ main' = "wait" /\ tearingDown' = TRUE /\ interrupted' = interrupted
      \/ /\ main = "stop" /\ main' = "closed" /\ tearingDown' = tearingDown
         /\ interrupted' = interrupted /\ stopping = << >>
  BY <1>2 DEF Interrupt, BeginTeardown, Close, vars, startVars, mainVars
<1>4. Types'
  <2>1. tearingDown' \in BOOLEAN /\ interrupted' \in BOOLEAN /\ main' \in {"walk", "wait", "stop", "closed"}
    BY <1>2, <1>3
  <2> QED BY <2>1, <1>1 DEF IInv, Types
<1>5. Orders'
  <2>1. Orders BY DEF IInv
  <2>2. /\ main' # "walk" => tearingDown'
        /\ main' \in {"walk", "wait"} => stopping = << >>
        /\ main' \in {"stop", "closed"} => started = << >>
        /\ main' = "closed" => stopping = << >>
    BY <2>1, <1>3 DEF Orders
  <2> QED BY <2>1, <2>2, <1>1 DEF Orders
<1>6. /\ main \in {"stop", "closed"} => main' \in {"stop", "closed"}
      /\ main' \in {"stop", "closed"} => activeStarts = 0
  BY <1>3 DEF IInv, Counted
<1> QED BY <1>1, <1>4, <1>5, <1>6, CalmKeeps

\* TakeStarted: what was started will be stopped, last first.
LEMMA TakeStartedKeeps ==
  ASSUME IInv, TakeStarted
  PROVE  IInv'
<1> DEFINE n == Len(started)
<1>1. /\ main = "wait" /\ activeStarts = 0
      /\ stopping' = Reverse(started) /\ started' = << >> /\ main' = "stop"
      /\ pc' = pc /\ frames' = frames /\ flight' = flight /\ result' = result /\ life' = life
      /\ ups' = ups /\ activeStarts' = activeStarts
      /\ tearingDown' = tearingDown /\ interrupted' = interrupted
  BY DEF TakeStarted, StartsOver, StopOrder
<1>2. Orders /\ Types /\ started \in Seq(Resources) /\ Distinct(started) /\ stopping = << >>
      /\ tearingDown
  BY <1>1 DEF IInv, Orders, Types
<1>3. /\ stopping' \in Seq(Resources) /\ Len(stopping') = n /\ Distinct(stopping') /\ n \in Nat
      /\ \A i \in 1 .. n : stopping'[i] = started[(n - i) + 1]
      /\ \A x : Has(stopping', x) <=> Has(started, x)
  BY <1>1, <1>2, ReverseOfQueue
<1>4. started' \in Seq(Resources) /\ Len(started') = 0
  BY <1>1, EmptySeq
<1>5. \A x : ~Has(started', x) /\ ~Has(stopping, x)
  BY <1>2, <1>4, EmptySeq DEF Has
<1>6. Types' BY <1>1, <1>2, <1>3, <1>4 DEF Types
<1> HIDE DEF n
<1>7. ASSUME NEW i \in 1 .. n, NEW q \in Elements(DependsOn[stopping'[i]])
      PROVE  \E k \in i + 1 .. n : stopping'[k] = q
  <2>1. (n - i) + 1 \in 1 .. n BY <1>3
  <2>2. q \in Elements(DependsOn[started[(n - i) + 1]]) BY <1>3, <1>7
  <2>3. PICK m \in 1 .. ((n - i) + 1) - 1 : started[m] = q
    <3>1. /\ n = Len(started)
          /\ \A k \in 1 .. Len(started) : \A x \in Elements(DependsOn[started[k]]) :
               \E l \in 1 .. k - 1 : started[l] = x
      BY <1>2 DEF Orders, n
    <3> QED BY ONLY <2>1, <2>2, <3>1
  <2>4. (n - m) + 1 \in i + 1 .. n /\ (n - m) + 1 \in 1 .. n /\ (n - ((n - m) + 1)) + 1 = m
    BY <1>3, <2>3
  <2> QED BY <2>3, <2>4, <1>3
<1>8. Orders'
  <2>1. \A i \in 1 .. Len(started') : FALSE BY <1>4
  <2>2. \A i \in 1 .. Len(stopping') : \A q \in Elements(DependsOn[stopping'[i]]) :
          \E k \in i + 1 .. Len(stopping') : stopping'[k] = q
    BY ONLY <1>3, <1>7
  <2>3. Distinct(started') BY <1>4 DEF Distinct
  <2>4. /\ main' # "walk" => tearingDown'
        /\ main' \notin {"walk", "wait"} /\ main' # "closed" /\ started' = << >>
    BY <1>1, <1>2
  <2> QED BY <2>1, <2>2, <2>3, <2>4, <1>3 DEF Orders
<1> QED BY <1>1, <1>3, <1>5, <1>6, <1>8, CalmKeeps

\* Down: what depends on the resource that is stopped was stopped before it.
LEMMA DownKeeps ==
  ASSUME IInv, Down
  PROVE  IInv'
<1> DEFINE r == Head(stopping)
           n == Len(stopping)
<1> PICK outcome \in TornDown : life' = [life EXCEPT ![r] = outcome]
  BY DEF Down
<1>1. /\ main = "stop" /\ stopping # << >>
      /\ life' = [life EXCEPT ![r] = outcome] /\ stopping' = Tail(stopping)
      /\ pc' = pc /\ frames' = frames /\ flight' = flight /\ result' = result
      /\ ups' = ups /\ started' = started /\ activeStarts' = activeStarts
      /\ tearingDown' = tearingDown /\ main' = main /\ interrupted' = interrupted
  BY DEF Down
<1>2. Orders /\ Types /\ stopping \in Seq(Resources) /\ Distinct(stopping) /\ started = << >>
      /\ life \in [Resources -> Lives]
  BY <1>1 DEF IInv, Orders, Types
<1>3. /\ n \in Nat /\ n >= 1 /\ r = stopping[1] /\ r \in Resources
      /\ stopping' \in Seq(Resources) /\ Len(stopping') = n - 1
      /\ \A i \in 1 .. n - 1 : stopping'[i] = stopping[i + 1]
      /\ Distinct(stopping') /\ Has(stopping, r)
      /\ \A x : Has(stopping', x) <=> x # r /\ Has(stopping, x)
  BY <1>1, <1>2, TailOfQueue
<1>4. \A x : ~Has(started, x)
  BY <1>2, EmptySeq DEF Has
<1>5. \A q \in Resources : flight[q] = None
  <2>1. IsFiniteSet(InFlight) /\ Cardinality(InFlight) = 0
    BY <1>1 DEF IInv, Counted
  <2>2. InFlight = {} BY <2>1, FS_EmptySet
  <2> QED BY <2>2 DEF InFlight
<1> HIDE DEF r, n
<1>6. /\ life'[r] \in TornDown /\ \A q \in Resources \ {r} : life'[q] = life[q]
      /\ life' \in [Resources -> Lives]
  BY <1>1, <1>2, <1>3 DEF Lives, TornDown
<1>7. Types' BY <1>1, <1>2, <1>3, <1>6 DEF Types
<1>8. ASSUME NEW u \in Tasks PROVE TaskOK(u)'
  <2>1. \A q \in Resources : flight[q] # u BY <1>5, ResourceAssumption
  <2> QED BY <2>1, <1>1, TaskUntouched, ResourceAssumption DEF IInv
<1>9. ASSUME NEW q \in Resources PROVE OnStack(q)'
  BY <1>1 DEF IInv, OnStack
<1>10. ASSUME NEW q \in Resources, q # r, life[q] \in {"starting", "up"},
              NEW p \in Elements(DependsOn[q])
       PROVE  p # r
  <2>1. Has(stopping, q) BY <1>4, <1>10 DEF IInv, LifeOK, Alive
  <2>2. PICK i \in 1 .. n : stopping[i] = q BY <2>1 DEF Has, n
  <2>3. PICK k \in i + 1 .. n : stopping[k] = p
    BY <2>2, <1>2, <1>10 DEF Orders, n
  <2>4. k \in 1 .. n /\ 1 \in 1 .. n /\ k # 1 BY <2>2, <2>3, <1>3
  <2>5. stopping[k] # stopping[1] BY <2>4, <1>2 DEF Distinct, n
  <2> QED BY <2>3, <2>5, <1>3
<1>11. ASSUME NEW q \in Resources PROVE LifeOK(q)'
  <2>0. LifeOK(q) BY DEF IInv
  <2>1. CASE q = r
    <3>1. life[r] \in Alive /\ ups[r] = 1
      BY <2>0, <2>1, <1>3 DEF LifeOK, Alive
    <3>2. flight[r] = None /\ result[r] \in {"none", "ok", "failed"} /\ result[r] # "none"
      BY <2>0, <2>1, <3>1, <1>2, <1>5 DEF LifeOK, Alive, Types
    <3>3. ~Has(started', r) /\ ~Has(stopping', r) BY <1>1, <1>3, <1>4
    <3>4. life'[q] \notin {"never", "starting", "up", "broken"}
      BY <2>1, <1>6 DEF TornDown
    <3> QED BY <3>1, <3>2, <3>3, <3>4, <2>1, <1>1, <1>6 DEF LifeOK, Alive
  <2>2. CASE q # r
    <3>1. life[q] \in {"starting", "up"} => \A p \in Elements(DependsOn[q]) : life'[p] = "up"
      <4>1. ASSUME life[q] \in {"starting", "up"}, NEW p \in Elements(DependsOn[q])
            PROVE  life'[p] = "up"
        <5>1. p # r BY <4>1, <2>2, <1>10
        <5>2. p \in Resources BY ResourceAssumption, ElementsAt
        <5>3. life[p] = "up" BY <4>1, <2>0 DEF LifeOK
        <5> QED BY <5>1, <5>2, <5>3, <1>6
      <4> QED BY <4>1
    <3>2. Has(stopping', q) <=> Has(stopping, q) BY <2>2, <1>3
    <3> QED BY <3>1, <3>2, <2>0, <2>2, <1>1, <1>6 DEF LifeOK
  <2> QED BY <2>1, <2>2
<1>12. Counted'
  <2>1. InFlight' = InFlight BY <1>1 DEF InFlight
  <2> QED BY <2>1, <1>1 DEF IInv, Counted
<1>13. ASSUME NEW i \in 1 .. n - 1, NEW q \in Elements(DependsOn[stopping'[i]])
       PROVE  \E k \in i + 1 .. n - 1 : stopping'[k] = q
  <2>1. i + 1 \in 1 .. n /\ q \in Elements(DependsOn[stopping[i + 1]])
    BY <1>3, <1>13
  <2>2. PICK m \in (i + 1) + 1 .. n : stopping[m] = q
    BY <2>1, <1>2 DEF Orders, n
  <2>3. m - 1 \in i + 1 .. n - 1 /\ m - 1 \in 1 .. n - 1 /\ (m - 1) + 1 = m
    BY <1>3, <2>2
  <2> QED BY <2>2, <2>3, <1>3
<1>14. Orders'
  <2>1. \A i \in 1 .. Len(stopping') : \A q \in Elements(DependsOn[stopping'[i]]) :
          \E k \in i + 1 .. Len(stopping') : stopping'[k] = q
    BY ONLY <1>3, <1>13
  <2>2. /\ main' # "closed" /\ main' \notin {"walk", "wait"} /\ tearingDown'
        /\ started' = << >> /\ started = << >>
    BY <1>1, <1>2 DEF Orders
  <2>3. /\ Distinct(started') /\ \A i \in 1 .. Len(started') : FALSE
    <3>1. Len(started') = 0 BY <2>2, EmptySeq
    <3> QED BY <3>1 DEF Distinct
  <2> QED BY <2>1, <2>2, <2>3, <1>3 DEF Orders
<1> QED BY <1>1, <1>7, <1>8, <1>9, <1>11, <1>12, <1>14 DEF IInv

-----------------------------------------------------------------------------
(* The theorems                                                            *)

\* Nothing is started in the initial state.
LEMMA InitIInv == Init => IInv
<1> SUFFICES ASSUME Init PROVE IInv
  OBVIOUS
<1>1. /\ \A t \in Tasks : pc[t] = "idle" /\ frames[t] = << >>
      /\ \A r \in Resources : /\ flight[r] = None /\ result[r] = "none"
                              /\ life[r] = "never" /\ ups[r] = 0
      /\ started = << >> /\ stopping = << >> /\ activeStarts = 0 /\ main = "walk"
  BY DEF Init
<1>2. Types
  <2>1. << >> \in Seq(Resources) BY EmptySeq
  <2> QED BY <2>1 DEF Init, Types, Pcs, Lives
<1>3. ASSUME NEW t \in Tasks PROVE TaskOK(t)
  <2>1. << >> \in Seq(Frame) /\ Len(<< >>) = 0 BY EmptySeq
  <2>2. frames[t] = << >> /\ pc[t] = "idle" BY <1>1
  <2>3. StackOK(frames[t]) BY <2>1, <2>2 DEF StackOK
  <2>4. Ensured(t) BY <2>1, <2>2 DEF Ensured
  <2>5. Flying(t) BY <2>1, <2>2 DEF Flying
  <2>6. Stage(t) BY <2>2 DEF Stage, Over
  <2> QED BY <2>3, <2>4, <2>5, <2>6 DEF TaskOK
<1>4. ASSUME NEW r \in Resources PROVE OnStack(r) /\ LifeOK(r)
  <2>1. ~Has(<< >>, r) BY EmptySeq DEF Has
  <2> QED BY <2>1, <1>1 DEF OnStack, LifeOK, Alive, TornDown
<1>5. Counted
  <2>1. InFlight = {} BY <1>1 DEF InFlight
  <2> QED BY <2>1, <1>1, FS_EmptySet DEF Counted
<1>6. Orders
  <2>1. Len(<< >>) = 0 BY EmptySeq
  <2> QED BY <2>1, <1>1 DEF Orders, Distinct
<1>7. DOMAIN frames = Tasks BY DEF Init
<1> QED BY <1>2, <1>3, <1>4, <1>5, <1>6, <1>7 DEF IInv

\* The invariant holds of every reachable state.
THEOREM ResourcesInvariant == Spec => []IInv
<1>1. IInv /\ [Next]_vars => IInv'
  <2> SUFFICES ASSUME IInv, [Next]_vars PROVE IInv'
    OBVIOUS
  <2>1. ASSUME NEW t \in Tasks, StartTask(t) PROVE IInv'
    BY <2>1, StartTaskKeeps
  <2>2. ASSUME NEW t \in Tasks, Task(t) PROVE IInv'
    BY <2>2, LookKeeps, BeginRefusedKeeps, BeginKeeps, UpKeeps, StartedKeeps, StartFailsKeeps,
       FailKeeps, EndCommandKeeps DEF Task
  <2>3. CASE Teardown
    BY <2>3, MainKeeps, TakeStartedKeeps, DownKeeps DEF Teardown
  <2> QED BY <2>1, <2>2, <2>3, MainKeeps DEF Next
<1> QED BY InitIInv, <1>1, PTL DEF Spec

\* The variables have their types, and a task has a stack exactly while it asks
\* for resources or runs its command.
THEOREM ResourcesTypeCorrect == Spec => []TypeOK
<1>1. IInv => TypeOK
  BY DEF IInv, Types, TaskOK, Stage, TypeOK, Pcs, Lives
<1> QED BY <1>1, ResourcesInvariant, PTL

\* Every resource is brought up at most once, after what it depends on, and goes
\* down before it, for any tasks and any dependencies (startWithDependencies).
THEOREM StartsAreOrdered == Spec => []StartedInOrder
<1>1. IInv => StartedInOrder
  BY DEF IInv, LifeOK, StartedInOrder
<1> QED BY <1>1, ResourcesInvariant, PTL

\* A command runs with every resource of its target up, until the teardown.
THEOREM UsedResourcesAreUp == Spec => []UpWhileUsed
<1>1. IInv => UpWhileUsed
  <2> SUFFICES ASSUME IInv, NEW t \in Tasks, pc[t] = "command", main = "walk",
                      NEW r \in Elements(Needs[t])
               PROVE  life[r] = "up"
    BY DEF UpWhileUsed
  <2>1. /\ Len(frames[t]) = 1 /\ frames[t][1].todo = << >> /\ StackOK(frames[t])
        /\ frames[t] # << >>
    BY DEF IInv, TaskOK, Stage, Over
  <2>2. frames[t][1].starts = None BY <2>1 DEF StackOK
  <2>3. ListOf(t, frames[t][1]) = Needs[t] BY <2>2 DEF ListOf
  <2>4. 1 \in 1 .. Len(frames[t]) BY <2>1
  <2>5. r \in Elements(frames[t][1].todo) \/ result[r] = "ok"
    BY <2>3, <2>4 DEF IInv, TaskOK, Ensured
  <2>6. << >> \in Seq(Resources) BY EmptySeq
  <2>7. Elements(frames[t][1].todo) = {} BY <2>1, <2>6, ElementsAt
  <2>8. r \in Resources BY ResourceAssumption, ElementsAt
  <2> QED BY <2>5, <2>7, <2>8, OkIsUp
<1> QED BY <1>1, ResourcesInvariant, PTL

\* TeardownAll passes over no resource, not even one whose start was under way
\* when the build was interrupted or one that failed halfway.
THEOREM NoneIsForgotten == Spec => []NoneForgotten
<1>1. IInv => NoneForgotten
  <2> SUFFICES ASSUME IInv, main = "closed", NEW r \in Resources PROVE life[r] \in {"never"} \cup TornDown
    BY DEF NoneForgotten
  <2>1. started = << >> /\ stopping = << >> BY DEF IInv, Orders
  <2>2. ~Has(<< >>, r) BY EmptySeq DEF Has
  <2>3. life[r] \notin Alive /\ life[r] \in Lives BY <2>1, <2>2 DEF IInv, LifeOK, Types
  <2> QED BY <2>3 DEF Alive, Lives
<1> QED BY <1>1, ResourcesInvariant, PTL
=============================================================================
