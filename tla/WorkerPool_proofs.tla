-------------------------- MODULE WorkerPool_proofs --------------------------
(***************************************************************************)
(* The group limit, the counter of jobs and the promise of a drained pool, *)
(* for any jobs, groups, capacities and workers.                           *)
(*                                                                         *)
(* The inductive invariant IInv ties the four places a job is seen at: the *)
(* stage of its caller, its own stage, the queues (the lines and the       *)
(* channel) and the workers.  The permits and the counter are then the     *)
(* sizes of sets that a step changes by one element.                       *)
(***************************************************************************)
EXTENDS WorkerPool, FiniteSetTheorems, SequenceTheorems, TLAPS

Has(s, e) == \E i \in 1 .. Len(s) : s[i] = e
Distinct(s) == \A i, k \in 1 .. Len(s) : s[i] = s[k] => i = k

CallerStages == {"start", "lined up", "granted", "sending", "waiting", "answered",
                 "returned", "refused"}
Holding == {"granted", "sending", "waiting", "answered"}
UnderWay == {"queued", "running", "run"}
Holders(g) == {j \in Jobs : GroupOf[j] = g /\ caller[j] \in Holding}
OnTheirWay == {j \in Jobs : caller[j] = "sending" \/ job[j] \in UnderWay}

\* How far a job can be when its caller is at a stage
Stages ==
  \A j \in Jobs :
    /\ job[j] = "new" <=> caller[j] \in {"start", "lined up", "granted", "sending", "refused"}
    /\ caller[j] = "waiting" => j \notin Forget /\ job[j] \in {"queued", "running"}
    /\ caller[j] = "answered" => j \notin Forget /\ job[j] \in {"run", "over"}
    /\ caller[j] = "returned" /\ j \notin Forget => job[j] \in {"run", "over"}
    /\ caller[j] \in {"lined up", "granted"} => Grouped(j)

\* The line of a group holds those who wait for a permit of it, each once, and a
\* permit is with a caller between Acquire and Release.
GroupOK(g) ==
  /\ Distinct(line[g])
  /\ \A j \in Jobs : caller[j] = "lined up" /\ GroupOf[j] = g <=> Has(line[g], j)
  /\ permits[g] = Cardinality(Holders(g)) /\ permits[g] <= Capacity[g]
  /\ line[g] # << >> => permits[g] = Capacity[g]

\* The channel holds the queued jobs, each once.
Queue ==
  /\ Distinct(channel)
  /\ \A j \in Jobs : job[j] = "queued" <=> Has(channel, j)

\* A worker's job is running, and no other worker has it.
Busy ==
  \A w \in Workers : worker[w] \in Jobs =>
    /\ job[worker[w]] \in {"running", "run"}
    /\ \A v \in Workers : worker[v] = worker[w] => v = w

Counted == active = Cardinality(OnTheirWay)

\* What was promised was accepted, and is over when the wait is.
Promises ==
  \A j \in promised : job[j] # "new" /\ (drain = "over" => job[j] = "over")

IInv ==
  /\ TypeOK /\ Stages
  /\ \A g \in Groups : GroupOK(g)
  /\ Queue /\ Busy /\ Counted /\ Promises

-----------------------------------------------------------------------------
(* Queues                                                                  *)

\* What is appended to a queue is in it, and the others are.
LEMMA AppendToQueue ==
  ASSUME NEW S, NEW s \in Seq(S), NEW e \in S, Distinct(s), ~Has(s, e)
  PROVE  /\ Append(s, e) \in Seq(S) /\ Append(s, e) # << >> /\ Len(Append(s, e)) = Len(s) + 1
         /\ Distinct(Append(s, e))
         /\ \A x : Has(Append(s, e), x) <=> x = e \/ Has(s, x)
<1>1. /\ Len(s) \in Nat /\ Append(s, e) \in Seq(S) /\ Append(s, e) # << >>
      /\ Len(Append(s, e)) = Len(s) + 1
      /\ \A i \in 1 .. Len(s) : Append(s, e)[i] = s[i]
      /\ Append(s, e)[Len(s) + 1] = e
  BY AppendProperties
<1>2. Distinct(Append(s, e))
  <2>1. ASSUME NEW i \in 1 .. Len(s) + 1, NEW k \in 1 .. Len(s) + 1, Append(s, e)[i] = Append(s, e)[k]
        PROVE  i = k
    <3>1. CASE i \in 1 .. Len(s) /\ k \in 1 .. Len(s)
      BY <3>1, <2>1, <1>1 DEF Distinct
    <3>2. CASE i = Len(s) + 1 \/ k = Len(s) + 1
      BY <3>2, <2>1, <1>1 DEF Has
    <3> QED BY <3>1, <3>2, <1>1
  <2> QED BY <2>1, <1>1 DEF Distinct
<1>3. ASSUME NEW x PROVE Has(Append(s, e), x) <=> x = e \/ Has(s, x)
  <2>1. ASSUME NEW i \in 1 .. Len(s) + 1, Append(s, e)[i] = x PROVE x = e \/ Has(s, x)
    BY <2>1, <1>1 DEF Has
  <2>2. ASSUME NEW i \in 1 .. Len(s), s[i] = x PROVE Has(Append(s, e), x)
    <3>1. i \in 1 .. Len(Append(s, e)) BY <1>1
    <3> QED BY <3>1, <2>2, <1>1 DEF Has
  <2>3. Has(Append(s, e), e)
    <3>1. Len(s) + 1 \in 1 .. Len(Append(s, e)) BY <1>1
    <3> QED BY <3>1, <1>1 DEF Has
  <2> QED BY <2>1, <2>2, <2>3, <1>1 DEF Has
<1> QED BY <1>1, <1>2, <1>3

\* The head of a queue is not in its tail, and the others are.
LEMMA TailOfQueue ==
  ASSUME NEW S, NEW s \in Seq(S), s # << >>, Distinct(s)
  PROVE  /\ Head(s) \in S /\ Has(s, Head(s))
         /\ Tail(s) \in Seq(S) /\ Len(Tail(s)) = Len(s) - 1
         /\ Distinct(Tail(s))
         /\ \A x : Has(Tail(s), x) <=> x # Head(s) /\ Has(s, x)
<1>1. /\ Len(s) \in Nat /\ Len(s) >= 1 /\ Head(s) = s[1] /\ Head(s) \in S
      /\ Tail(s) \in Seq(S) /\ Len(Tail(s)) = Len(s) - 1
      /\ \A i \in 1 .. Len(s) - 1 : Tail(s)[i] = s[i + 1]
  BY HeadTailProperties, EmptySeq
<1>2. Has(s, Head(s))
  BY <1>1 DEF Has
<1>3. ASSUME NEW i \in 1 .. Len(s) - 1 PROVE i + 1 \in 1 .. Len(s) /\ i + 1 # 1 /\ 1 \in 1 .. Len(s)
  BY <1>1
<1>4. Distinct(Tail(s))
  <2>1. ASSUME NEW i \in 1 .. Len(s) - 1, NEW k \in 1 .. Len(s) - 1, Tail(s)[i] = Tail(s)[k]
        PROVE  i = k
    <3>1. s[i + 1] = s[k + 1] BY <2>1, <1>1
    <3>2. i + 1 = k + 1 BY <3>1, <1>3 DEF Distinct
    <3> QED BY <3>2, <1>1
  <2> QED BY <2>1, <1>1 DEF Distinct
<1>5. ASSUME NEW x PROVE Has(Tail(s), x) <=> x # Head(s) /\ Has(s, x)
  <2>1. ASSUME NEW i \in 1 .. Len(s) - 1, Tail(s)[i] = x PROVE x # Head(s) /\ Has(s, x)
    <3>1. s[i + 1] = x BY <2>1, <1>1
    <3>2. s[i + 1] # s[1] BY <1>3 DEF Distinct
    <3> QED BY <3>1, <3>2, <1>1, <1>3 DEF Has
  <2>2. ASSUME NEW i \in 1 .. Len(s), s[i] = x, x # Head(s) PROVE Has(Tail(s), x)
    <3>1. i # 1 BY <2>2, <1>1
    <3>2. i - 1 \in 1 .. Len(s) - 1 /\ (i - 1) + 1 = i BY <3>1, <1>1
    <3>3. Tail(s)[i - 1] = x BY <3>2, <2>2, <1>1
    <3> QED BY <3>2, <3>3, <1>1 DEF Has
  <2> QED BY <2>1, <2>2, <1>1 DEF Has
<1> QED BY <1>1, <1>2, <1>4, <1>5

\* A sequence without its element at i.
LEMMA RemoveAtProperties ==
  ASSUME NEW S, NEW s \in Seq(S), NEW i \in 1 .. Len(s)
  PROVE  /\ RemoveAt(s, i) \in Seq(S)
         /\ Len(RemoveAt(s, i)) = Len(s) - 1
         /\ \A k \in 1 .. Len(s) - 1 : RemoveAt(s, i)[k] = IF k < i THEN s[k] ELSE s[k + 1]
<1> DEFINE a == SubSeq(s, 1, i - 1)
           b == SubSeq(s, i + 1, Len(s))
<1>0. Len(s) \in Nat /\ i \in Int /\ 1 <= i /\ i <= Len(s) /\ \A k \in 1 .. Len(s) : s[k] \in S
  OBVIOUS
<1>1. /\ a \in Seq(S) /\ Len(a) = i - 1
      /\ \A k \in 1 .. i - 1 : a[k] = s[k]
  <2>1. /\ SubSeq(s, 1, i - 1) \in Seq(S)
        /\ Len(SubSeq(s, 1, i - 1)) = IF 1 <= i - 1 THEN (i - 1) - 1 + 1 ELSE 0
        /\ \A k \in 1 .. (i - 1) - 1 + 1 : SubSeq(s, 1, i - 1)[k] = s[1 + k - 1]
    BY <1>0, SubSeqProperties
  <2> QED BY <1>0, <2>1
<1>2. /\ b \in Seq(S) /\ Len(b) = Len(s) - i
      /\ \A k \in 1 .. Len(s) - i : b[k] = s[k + i]
  <2>1. /\ SubSeq(s, i + 1, Len(s)) \in Seq(S)
        /\ Len(SubSeq(s, i + 1, Len(s))) = IF i + 1 <= Len(s) THEN Len(s) - (i + 1) + 1 ELSE 0
        /\ \A k \in 1 .. Len(s) - (i + 1) + 1 : SubSeq(s, i + 1, Len(s))[k] = s[i + 1 + k - 1]
    BY <1>0, SubSeqProperties
  <2>2. \A k \in 1 .. Len(s) - i : k \in 1 .. Len(s) - (i + 1) + 1 /\ i + 1 + k - 1 = k + i
    BY <1>0
  <2> QED BY <1>0, <2>1, <2>2
<1>3. /\ a \o b \in Seq(S) /\ Len(a \o b) = Len(a) + Len(b)
      /\ \A k \in 1 .. Len(a) + Len(b) : (a \o b)[k] = IF k <= Len(a) THEN a[k] ELSE b[k - Len(a)]
  <2> HIDE DEF a, b
  <2> QED BY <1>1, <1>2, ConcatProperties
<1>4. RemoveAt(s, i) = a \o b
  BY DEF RemoveAt
<1> HIDE DEF a, b
<1>5. Len(RemoveAt(s, i)) = Len(s) - 1
  BY <1>0, <1>1, <1>2, <1>3, <1>4
<1>6. ASSUME NEW k \in 1 .. Len(s) - 1
      PROVE  RemoveAt(s, i)[k] = IF k < i THEN s[k] ELSE s[k + 1]
  <2>1. CASE k < i
    BY <2>1, <1>0, <1>1, <1>2, <1>3, <1>4
  <2>2. CASE ~(k < i)
    <3>1. k - (i - 1) \in 1 .. Len(s) - i /\ (k - (i - 1)) + i = k + 1 /\ ~(k <= i - 1) /\ k \in 1 .. Len(a) + Len(b)
      BY <2>2, <1>0, <1>1, <1>2
    <3>2. (a \o b)[k] = b[k - (i - 1)] BY <3>1, <1>1, <1>3
    <3> QED BY <3>1, <3>2, <1>2, <1>4, <2>2
  <2> QED BY <2>1, <2>2
<1> QED BY <1>3, <1>4, <1>5, <1>6

\* One that leaves a queue is no longer in it, and the others are.
LEMMA LeaveQueue ==
  ASSUME NEW S, NEW s \in Seq(S), NEW i \in 1 .. Len(s), Distinct(s)
  PROVE  /\ RemoveAt(s, i) \in Seq(S)
         /\ Distinct(RemoveAt(s, i))
         /\ \A x : Has(RemoveAt(s, i), x) <=> x # s[i] /\ Has(s, x)
<1>0. Len(s) \in Nat /\ i \in Int
  OBVIOUS
<1>a. /\ RemoveAt(s, i) \in Seq(S) /\ Len(RemoveAt(s, i)) = Len(s) - 1
      /\ \A k \in 1 .. Len(s) - 1 : RemoveAt(s, i)[k] = IF k < i THEN s[k] ELSE s[k + 1]
  BY RemoveAtProperties
<1> DEFINE r == RemoveAt(s, i)
<1>1. /\ r \in Seq(S) /\ Len(r) = Len(s) - 1 /\ Len(s) \in Nat /\ i \in Int
      /\ \A k \in 1 .. Len(s) - 1 : r[k] = IF k < i THEN s[k] ELSE s[k + 1]
  BY <1>0, <1>a
<1> DEFINE from(k) == IF k < i THEN k ELSE k + 1
<1> HIDE DEF r
<1>2. ASSUME NEW k \in 1 .. Len(s) - 1
      PROVE  from(k) \in 1 .. Len(s) /\ from(k) # i /\ r[k] = s[from(k)]
  BY <1>1
<1>3. \A k, m \in 1 .. Len(s) - 1 : from(k) = from(m) => k = m
  BY <1>1
<1>4. \A n \in 1 .. Len(s) : n # i => \E k \in 1 .. Len(s) - 1 : from(k) = n
  <2>1. ASSUME NEW n \in 1 .. Len(s), n # i
        PROVE  \E k \in 1 .. Len(s) - 1 : from(k) = n
    <3>1. CASE n < i
      BY <3>1, <1>1
    <3>2. CASE ~(n < i)
      <4>1. n - 1 \in 1 .. Len(s) - 1 /\ from(n - 1) = n BY <3>2, <2>1, <1>1
      <4> QED BY <4>1
    <3> QED BY <3>1, <3>2
  <2> QED BY <2>1
<1> HIDE DEF from
<1>5. Distinct(r)
  BY <1>1, <1>2, <1>3 DEF Distinct
<1>6. ASSUME NEW x PROVE Has(r, x) <=> x # s[i] /\ Has(s, x)
  <2>1. ASSUME NEW k \in 1 .. Len(s) - 1, r[k] = x PROVE x # s[i] /\ Has(s, x)
    BY <2>1, <1>2 DEF Has, Distinct
  <2>2. ASSUME NEW n \in 1 .. Len(s), s[n] = x, x # s[i] PROVE Has(r, x)
    BY <2>2, <1>2, <1>4, <1>1 DEF Has
  <2> QED BY <2>1, <2>2, <1>1 DEF Has
<1> QED BY <1>1, <1>5, <1>6 DEF r

\* Sets of jobs are finite.
LEMMA FiniteJobs ==
  ASSUME NEW S, S \subseteq Jobs
  PROVE  IsFiniteSet(S) /\ Cardinality(S) \in Nat
  BY FS_Subset, FS_CardinalityType, PoolAssumption

-----------------------------------------------------------------------------
(* The semaphores                                                          *)

\* A group is not concerned when its members neither take nor give back a permit
\* and none of them joins or leaves the line.
LEMMA GroupUntouched ==
  ASSUME IInv, NEW q \in Groups, line'[q] = line[q], permits'[q] = permits[q],
         \A k \in Jobs : GroupOf[k] = q =>
           /\ caller'[k] \in Holding <=> caller[k] \in Holding
           /\ caller'[k] = "lined up" <=> caller[k] = "lined up"
  PROVE  GroupOK(q)'
<1>1. Holders(q)' = Holders(q)
  BY DEF Holders
<1>2. GroupOK(q)
  BY DEF IInv
<1>3. \A j \in Jobs : caller'[j] = "lined up" /\ GroupOf[j] = q <=> Has(line'[q], j)
  BY <1>2 DEF GroupOK
<1> QED BY <1>1, <1>2, <1>3 DEF GroupOK

\* The deferred Release keeps the lines and the permits in order: the permit of j
\* is free again or goes to the first in line, whose job has not run.
LEMMA LeavingKeepsGroups ==
  ASSUME IInv, NEW j \in Jobs, NEW outcome \in {"returned", "refused"}, Leaving(j, outcome),
         caller[j] # "lined up", Grouped(j) => caller[j] \in Holding
  PROVE  /\ caller' \in [Jobs -> CallerStages]
         /\ line' \in [Groups -> Seq(Jobs)] /\ permits' \in [Groups -> Nat]
         /\ caller'[j] = outcome
         /\ \A k \in Jobs \ {j} : \/ caller'[k] = caller[k]
                                  \/ caller[k] = "lined up" /\ caller'[k] = "granted" /\ Grouped(k)
         /\ \A q \in Groups : GroupOK(q)'
<1> DEFINE g == GroupOf[j]
<1>0. IF ~Grouped(j)
      THEN UNCHANGED <<line, permits>> /\ caller' = [caller EXCEPT ![j] = outcome]
      ELSE IF line[g] = << >>
      THEN /\ permits' = [permits EXCEPT ![g] = @ - 1]
           /\ caller' = [caller EXCEPT ![j] = outcome]
           /\ UNCHANGED line
      ELSE /\ line' = [line EXCEPT ![g] = Tail(@)]
           /\ caller' = [caller EXCEPT ![j] = outcome, ![Head(line[g])] = "granted"]
           /\ UNCHANGED permits
  BY DEF Leaving, ReleaseAs, groupVars
<1>1. (Grouped(j) => g \in Groups) /\ (~Grouped(j) => g \notin Groups)
  BY PoolAssumption DEF Grouped
<1>2. /\ caller \in [Jobs -> CallerStages]
      /\ line \in [Groups -> Seq(Jobs)] /\ permits \in [Groups -> Nat]
      /\ \A q \in Groups : GroupOK(q)
  BY DEF IInv, TypeOK, CallerStages
<1>3. ASSUME NEW q \in Groups
      PROVE  /\ IsFiniteSet(Holders(q)) /\ Cardinality(Holders(q)) \in Nat
             /\ Capacity[q] \in Nat /\ permits[q] = Cardinality(Holders(q))
             /\ permits[q] <= Capacity[q] /\ line[q] \in Seq(Jobs) /\ Distinct(line[q])
             /\ line[q] # << >> => permits[q] = Capacity[q]
  <2>1. GroupOK(q) /\ line[q] \in Seq(Jobs) /\ Capacity[q] \in Nat
    BY <1>2, PoolAssumption
  <2>2. IsFiniteSet(Holders(q)) /\ Cardinality(Holders(q)) \in Nat
    BY FiniteJobs DEF Holders
  <2> QED BY ONLY <2>1, <2>2 DEF GroupOK
<1>4. \A k \in Jobs : GroupOf[k] = g /\ g \in Groups => Grouped(k)
  BY PoolAssumption DEF Grouped
<1>5. \A q \in Groups \ {g} : \A k \in Jobs : GroupOf[k] = q => k # j
  OBVIOUS
<1>6. ASSUME NEW q \in Groups, NEW k \in Jobs
      PROVE  caller[k] = "lined up" /\ GroupOf[k] = q <=> Has(line[q], k)
  BY <1>2 DEF GroupOK
<1>7. Grouped(j) => j \in Holders(g)
  BY DEF Holders
<1> HIDE DEF g
<1>8. CASE ~Grouped(j)
  <2>1. UNCHANGED <<line, permits>> /\ caller' = [caller EXCEPT ![j] = outcome]
    BY <1>8, <1>0
  <2>2. caller'[j] = outcome /\ \A k \in Jobs \ {j} : caller'[k] = caller[k]
    BY <2>1, <1>2
  <2>3. ASSUME NEW q \in Groups PROVE GroupOK(q)'
    <3>1. q # g BY <1>8, <1>1
    <3> QED BY <3>1, <1>5, <2>1, <2>2, GroupUntouched
  <2>4. caller' \in [Jobs -> CallerStages]
    BY <2>1, <1>2 DEF CallerStages
  <2> QED BY <2>1, <2>2, <2>3, <2>4, <1>2
<1>9. CASE Grouped(j) /\ line[g] = << >>
  <2>1. /\ permits' = [permits EXCEPT ![g] = @ - 1] /\ line' = line
        /\ caller' = [caller EXCEPT ![j] = outcome] /\ g \in Groups
    BY <1>9, <1>0, <1>1
  <2>2. caller'[j] = outcome /\ \A k \in Jobs \ {j} : caller'[k] = caller[k]
    BY <2>1, <1>2
  <2>3. /\ caller' \in [Jobs -> CallerStages]
        /\ permits'[g] = permits[g] - 1 /\ \A q \in Groups \ {g} : permits'[q] = permits[q]
    BY <2>1, <1>2 DEF CallerStages
  <2>4. Holders(g)' = Holders(g) \ {j}
    BY <2>2 DEF Holders, Holding
  <2>5. Cardinality(Holders(g)') = Cardinality(Holders(g)) - 1 /\ Cardinality(Holders(g)') \in Nat
    BY <2>1, <2>4, <1>7, <1>9, <1>3, FS_RemoveElement, FS_CardinalityType
  <2>6. permits'[g] = Cardinality(Holders(g)') /\ permits'[g] <= Capacity[g] /\ permits'[g] \in Nat
    <3>1. /\ permits[g] = Cardinality(Holders(g)) /\ permits[g] <= Capacity[g]
          /\ Capacity[g] \in Nat /\ Cardinality(Holders(g)) \in Nat
      BY <2>1, <1>3
    <3>2. permits'[g] = Cardinality(Holders(g)') BY <2>3, <2>5, <3>1
    <3> QED BY ONLY <3>1, <3>2, <2>5
  <2>7. permits' \in [Groups -> Nat]
    BY <2>1, <2>6, <1>2
  <2>8. GroupOK(g)'
    <3>1. ASSUME NEW k \in Jobs
          PROVE  caller'[k] = "lined up" /\ GroupOf[k] = g <=> Has(line'[g], k)
      BY <2>1, <2>2, <1>6
    <3>2. Distinct(line'[g]) /\ line'[g] = << >> BY <2>1, <1>3, <1>9
    <3> QED BY <3>1, <3>2, <2>6 DEF GroupOK
  <2>9. ASSUME NEW q \in Groups \ {g} PROVE GroupOK(q)'
    BY <1>5, <2>1, <2>2, <2>3, GroupUntouched
  <2> QED BY <2>1, <2>2, <2>3, <2>7, <2>8, <2>9, <1>2
<1>10. CASE Grouped(j) /\ line[g] # << >>
  <2> DEFINE h == Head(line[g])
  <2>1. /\ line' = [line EXCEPT ![g] = Tail(@)]
        /\ caller' = [caller EXCEPT ![j] = outcome, ![h] = "granted"]
        /\ permits' = permits /\ g \in Groups
    BY <1>0, <1>10, <1>1
  <2>2. /\ h \in Jobs /\ Has(line[g], h)
        /\ Tail(line[g]) \in Seq(Jobs) /\ Distinct(Tail(line[g]))
        /\ \A x : Has(Tail(line[g]), x) <=> x # h /\ Has(line[g], x)
    BY <2>1, <1>3, <1>10, TailOfQueue
  <2> HIDE DEF h
  <2>3. caller[h] = "lined up" /\ GroupOf[h] = g /\ h # j
    BY <2>1, <2>2, <1>6
  <2>4. /\ caller'[j] = outcome /\ caller'[h] = "granted"
        /\ \A k \in Jobs \ {j, h} : caller'[k] = caller[k]
        /\ caller' \in [Jobs -> CallerStages]
    BY <2>1, <2>2, <2>3, <1>2 DEF CallerStages
  <2>5. /\ line'[g] = Tail(line[g])
        /\ \A q \in Groups \ {g} : line'[q] = line[q]
        /\ line' \in [Groups -> Seq(Jobs)]
    BY <2>1, <2>2, <1>2
  <2>6. ASSUME NEW k \in Jobs
        PROVE  caller'[k] = "lined up" /\ GroupOf[k] = g <=> Has(line'[g], k)
    <3>1. Has(line'[g], k) <=> k # h /\ Has(line[g], k) BY <2>2, <2>5
    <3>2. caller[k] = "lined up" /\ GroupOf[k] = g <=> Has(line[g], k) BY <1>6, <2>1
    <3>3. caller'[k] = "lined up" <=> k # h /\ caller[k] = "lined up"
      BY <2>3, <2>4
    <3> QED BY <3>1, <3>2, <3>3
  <2>7. j \in Holders(g) /\ h \notin Holders(g) /\ Holders(g)' = (Holders(g) \ {j}) \cup {h}
    BY <1>7, <1>10, <2>2, <2>3, <2>4 DEF Holders, Holding
  <2>8. Cardinality(Holders(g)') = Cardinality(Holders(g))
    <3>1. IsFiniteSet(Holders(g)) /\ Cardinality(Holders(g)) \in Nat
      BY <1>3, <2>1
    <3>2. IsFiniteSet(Holders(g) \ {j}) /\ Cardinality(Holders(g) \ {j}) = Cardinality(Holders(g)) - 1
      BY <2>7, <3>1, FS_RemoveElement
    <3>3. Cardinality((Holders(g) \ {j}) \cup {h}) = Cardinality(Holders(g) \ {j}) + 1
      BY <2>7, <3>2, FS_AddElement
    <3>4. Cardinality(Holders(g)') = Cardinality((Holders(g) \ {j}) \cup {h})
      BY <2>7
    <3> QED BY ONLY <3>1, <3>2, <3>3, <3>4
  <2>9. GroupOK(g)'
    <3>1. permits'[g] = Cardinality(Holders(g)') /\ permits'[g] <= Capacity[g] /\ permits'[g] = Capacity[g]
      BY <1>3, <1>10, <2>1, <2>8
    <3>2. Distinct(line'[g]) BY <2>2, <2>5
    <3> QED BY <3>1, <3>2, <2>6 DEF GroupOK
  <2>10. ASSUME NEW q \in Groups \ {g} PROVE GroupOK(q)'
    <3>1. \A k \in Jobs : GroupOf[k] = q => caller'[k] = caller[k] BY <1>5, <2>3, <2>4
    <3> QED BY <3>1, <2>1, <2>5, GroupUntouched
  <2>11. Grouped(h) BY <1>4, <2>1, <2>2, <2>3
  <2> QED BY <2>1, <2>2, <2>3, <2>4, <2>5, <2>9, <2>10, <2>11, <1>2
<1> QED BY <1>0, <1>8, <1>9, <1>10

-----------------------------------------------------------------------------
(* The counter                                                             *)

\* A job that comes on its way is counted (activeJobs.Add), one whose way is over
\* is not any more (activeJobs.Done).
LEMMA CountOne ==
  ASSUME Counted, NEW j \in Jobs,
         \/ /\ j \notin OnTheirWay /\ OnTheirWay' = OnTheirWay \cup {j} /\ active' = active + 1
         \/ /\ j \in OnTheirWay /\ OnTheirWay' = OnTheirWay \ {j} /\ active' = active - 1
         \/ OnTheirWay' = OnTheirWay /\ active' = active
  PROVE  Counted'
<1>1. IsFiniteSet(OnTheirWay) /\ Cardinality(OnTheirWay) \in Nat
  BY FiniteJobs DEF OnTheirWay
<1>2. active = Cardinality(OnTheirWay)
  BY DEF Counted
<1>3. CASE j \notin OnTheirWay /\ OnTheirWay' = OnTheirWay \cup {j} /\ active' = active + 1
  <2>1. Cardinality(OnTheirWay \cup {j}) = Cardinality(OnTheirWay) + 1
    BY <1>1, <1>3, FS_AddElement
  <2>2. active' = Cardinality(OnTheirWay') BY <2>1, <1>2, <1>3
  <2> QED BY <2>2 DEF Counted
<1>4. CASE j \in OnTheirWay /\ OnTheirWay' = OnTheirWay \ {j} /\ active' = active - 1
  <2>1. Cardinality(OnTheirWay \ {j}) = Cardinality(OnTheirWay) - 1
    BY <1>1, <1>4, FS_RemoveElement
  <2>2. active' = Cardinality(OnTheirWay') BY <2>1, <1>2, <1>4
  <2> QED BY <2>2 DEF Counted
<1>5. CASE OnTheirWay' = OnTheirWay /\ active' = active
  BY <1>2, <1>5 DEF Counted
<1> QED BY <1>3, <1>4, <1>5

-----------------------------------------------------------------------------
(* The steps of a caller                                                   *)

\* A call that returns, with an error before its job was accepted or with the
\* result after it ran.
LEMMA LeavingKeepsInvariant ==
  ASSUME IInv, NEW j \in Jobs, NEW outcome \in {"returned", "refused"}, Leaving(j, outcome),
         caller[j] # "lined up", Grouped(j) => caller[j] \in Holding,
         outcome = "refused" => job[j] = "new",
         outcome = "returned" => job[j] \in {"run", "over"},
         active' = IF caller[j] = "sending" THEN active - 1 ELSE active,
         UNCHANGED <<chanVars, stopVars, worker, job, drainVars>>
  PROVE  IInv'
<1>1. /\ caller' \in [Jobs -> CallerStages]
      /\ line' \in [Groups -> Seq(Jobs)] /\ permits' \in [Groups -> Nat]
      /\ caller'[j] = outcome
      /\ \A k \in Jobs \ {j} : \/ caller'[k] = caller[k]
                               \/ caller[k] = "lined up" /\ caller'[k] = "granted" /\ Grouped(k)
      /\ \A q \in Groups : GroupOK(q)'
  BY LeavingKeepsGroups
<1>2. /\ channel' = channel /\ chanClosed' = chanClosed /\ closed' = closed
      /\ cancelled' = cancelled /\ worker' = worker /\ job' = job
      /\ drain' = drain /\ promised' = promised
  BY DEF chanVars, stopVars, drainVars
<1>3. active' \in Int
  <2>1. active \in Int BY DEF IInv, TypeOK
  <2>2. active' = active \/ active' = active - 1 OBVIOUS
  <2> QED BY ONLY <2>1, <2>2
<1>4. TypeOK'
  BY <1>1, <1>2, <1>3 DEF IInv, TypeOK, CallerStages
<1>5. Stages'
  <2>1. ASSUME NEW k \in Jobs
        PROVE  /\ job'[k] = "new" <=> caller'[k] \in {"start", "lined up", "granted", "sending", "refused"}
               /\ caller'[k] = "waiting" => k \notin Forget /\ job'[k] \in {"queued", "running"}
               /\ caller'[k] = "answered" => k \notin Forget /\ job'[k] \in {"run", "over"}
               /\ caller'[k] = "returned" /\ k \notin Forget => job'[k] \in {"run", "over"}
               /\ caller'[k] \in {"lined up", "granted"} => Grouped(k)
    <3>1. CASE k = j BY <3>1, <1>1, <1>2
    <3>2. CASE k # j BY <3>2, <1>1, <1>2 DEF IInv, Stages
    <3> QED BY <3>1, <3>2
  <2> QED BY <2>1 DEF Stages, Grouped
<1>6. Queue' /\ Busy' /\ Promises'
  <2>1. Queue' BY <1>2 DEF IInv, Queue
  <2>2. Busy' BY <1>2 DEF IInv, Busy
  <2>3. Promises' BY <1>2 DEF IInv, Promises
  <2> QED BY <2>1, <2>2, <2>3
<1>7. Counted'
  <2>1. \A k \in Jobs \ {j} : k \in OnTheirWay' <=> k \in OnTheirWay
    BY <1>1, <1>2 DEF OnTheirWay
  <2>2. j \in OnTheirWay <=> caller[j] = "sending" \/ job[j] \in UnderWay
    BY DEF OnTheirWay
  <2>3. j \in OnTheirWay' <=> job[j] \in UnderWay
    BY <1>1, <1>2 DEF OnTheirWay
  <2>4. caller[j] = "sending" => job[j] = "new"
    BY DEF IInv, Stages
  <2>5. OnTheirWay \subseteq Jobs /\ OnTheirWay' \subseteq Jobs
    BY DEF OnTheirWay
  <2>6. OnTheirWay' = IF caller[j] = "sending" THEN OnTheirWay \ {j} ELSE OnTheirWay
    <3>1. CASE caller[j] = "sending"
      <4>1. j \notin OnTheirWay' BY <3>1, <2>3, <2>4 DEF UnderWay
      <4>2. \A k : k \in OnTheirWay' <=> k \in OnTheirWay \ {j}
        BY <4>1, <2>1, <2>5
      <4>3. OnTheirWay' = OnTheirWay \ {j} BY ONLY <4>2
      <4> QED BY <4>3, <3>1
    <3>2. CASE caller[j] # "sending"
      <4>1. j \in OnTheirWay' <=> j \in OnTheirWay BY <3>2, <2>2, <2>3
      <4>2. \A k : k \in OnTheirWay' <=> k \in OnTheirWay
        BY <4>1, <2>1, <2>5
      <4>3. OnTheirWay' = OnTheirWay BY ONLY <4>2
      <4> QED BY <4>3, <3>2
    <3> QED BY <3>1, <3>2
  <2>7. caller[j] = "sending" => j \in OnTheirWay BY <2>2
  <2> QED BY <2>6, <2>7, CountOne DEF IInv
<1> QED BY <1>1, <1>4, <1>5, <1>6, <1>7 DEF IInv

\* Stages and Counted when the caller of j moves on and no job does.
LEMMA CallerMoves ==
  ASSUME IInv, NEW j \in Jobs, NEW stage \in CallerStages, job' = job,
         caller' = [caller EXCEPT ![j] = stage],
         job[j] = "new" /\ stage \in {"lined up", "granted", "sending", "refused"},
         stage \in {"lined up", "granted"} => Grouped(j),
         caller[j] # "sending",
         active' = IF stage = "sending" THEN active + 1 ELSE active
  PROVE  caller' \in [Jobs -> CallerStages] /\ active' \in Int /\ Stages' /\ Counted'
<1>1. caller \in [Jobs -> CallerStages] /\ active \in Int
  BY DEF IInv, TypeOK, CallerStages
<1>2. /\ caller' \in [Jobs -> CallerStages] /\ active' \in Int /\ caller'[j] = stage
      /\ \A k \in Jobs \ {j} : caller'[k] = caller[k]
  <2>1. active' = active \/ active' = active + 1 OBVIOUS
  <2>2. active' \in Int BY ONLY <1>1, <2>1
  <2> QED BY <1>1, <2>2
<1>3. Stages'
  <2>1. ASSUME NEW k \in Jobs
        PROVE  /\ job'[k] = "new" <=> caller'[k] \in {"start", "lined up", "granted", "sending", "refused"}
               /\ caller'[k] = "waiting" => k \notin Forget /\ job'[k] \in {"queued", "running"}
               /\ caller'[k] = "answered" => k \notin Forget /\ job'[k] \in {"run", "over"}
               /\ caller'[k] = "returned" /\ k \notin Forget => job'[k] \in {"run", "over"}
               /\ caller'[k] \in {"lined up", "granted"} => Grouped(k)
    <3>1. CASE k = j BY <3>1, <1>2
    <3>2. CASE k # j BY <3>2, <1>2 DEF IInv, Stages
    <3> QED BY <3>1, <3>2
  <2> QED BY <2>1 DEF Stages, Grouped
<1>4. Counted'
  <2>1. \A k \in Jobs \ {j} : k \in OnTheirWay' <=> k \in OnTheirWay
    BY <1>2 DEF OnTheirWay
  <2>2. j \notin OnTheirWay /\ (j \in OnTheirWay' <=> stage = "sending")
    BY <1>2 DEF OnTheirWay, UnderWay
  <2>3. OnTheirWay \subseteq Jobs /\ OnTheirWay' \subseteq Jobs
    BY DEF OnTheirWay
  <2>4. OnTheirWay' = IF stage = "sending" THEN OnTheirWay \cup {j} ELSE OnTheirWay
    <3>1. CASE stage = "sending"
      <4>1. \A k : k \in OnTheirWay' <=> k \in OnTheirWay \cup {j}
        BY <3>1, <2>1, <2>2, <2>3
      <4>2. OnTheirWay' = OnTheirWay \cup {j} BY ONLY <4>1
      <4> QED BY <4>2, <3>1
    <3>2. CASE stage # "sending"
      <4>1. \A k : k \in OnTheirWay' <=> k \in OnTheirWay
        BY <3>2, <2>1, <2>2, <2>3
      <4>2. OnTheirWay' = OnTheirWay BY ONLY <4>1
      <4> QED BY <4>2, <3>2
    <3> QED BY <3>1, <3>2
  <2> QED BY <2>2, <2>4, CountOne DEF IInv
<1> QED BY <1>2, <1>3, <1>4

\* Acquire
LEMMA AcquireKeeps ==
  ASSUME IInv, NEW j \in Jobs, Acquire(j)
  PROVE  IInv'
<1> DEFINE g == GroupOf[j]
<1>1. /\ caller[j] = "start" /\ Grouped(j)
      /\ channel' = channel /\ chanClosed' = chanClosed /\ closed' = closed
      /\ cancelled' = cancelled /\ worker' = worker /\ job' = job
      /\ drain' = drain /\ promised' = promised /\ active' = active
  BY DEF Acquire, chanVars, stopVars, drainVars
<1>2. IF permits[g] < Capacity[g] /\ line[g] = << >>
      THEN /\ permits' = [permits EXCEPT ![g] = @ + 1]
           /\ caller' = [caller EXCEPT ![j] = "granted"]
           /\ line' = line
      ELSE /\ line' = [line EXCEPT ![g] = Append(@, j)]
           /\ caller' = [caller EXCEPT ![j] = "lined up"]
           /\ permits' = permits
  BY DEF Acquire, Free
<1>3. g \in Groups /\ job[j] = "new"
  BY <1>1, PoolAssumption DEF Grouped, IInv, Stages
<1>4. /\ caller \in [Jobs -> CallerStages]
      /\ line \in [Groups -> Seq(Jobs)] /\ permits \in [Groups -> Nat]
      /\ line[g] \in Seq(Jobs) /\ Distinct(line[g])
      /\ permits[g] \in Nat /\ Capacity[g] \in Nat /\ permits[g] <= Capacity[g]
      /\ permits[g] = Cardinality(Holders(g))
      /\ line[g] # << >> => permits[g] = Capacity[g]
  <2>1. /\ caller \in [Jobs -> CallerStages] /\ GroupOK(g)
        /\ line \in [Groups -> Seq(Jobs)] /\ permits \in [Groups -> Nat]
    BY <1>3 DEF IInv, TypeOK, CallerStages
  <2>2. Capacity[g] \in Nat /\ line[g] \in Seq(Jobs) /\ permits[g] \in Nat
    BY <2>1, <1>3, PoolAssumption
  <2> HIDE DEF g
  <2> QED BY ONLY <2>1, <2>2 DEF GroupOK
<1>5. ASSUME NEW k \in Jobs
      PROVE  caller[k] = "lined up" /\ GroupOf[k] = g <=> Has(line[g], k)
  <2>1. GroupOK(g) BY <1>3 DEF IInv
  <2> HIDE DEF g
  <2> QED BY <2>1 DEF GroupOK
<1>6. Queue' /\ Busy' /\ Promises'
  BY <1>1 DEF IInv, Queue, Busy, Promises
<1>7. IsFiniteSet(Holders(g)) /\ j \notin Holders(g)
  BY <1>1, FiniteJobs DEF Holders, Holding
<1>8. /\ \A k \in Jobs : GroupOf[k] = g /\ k # j => k \in Jobs \ {j}
      /\ \A q \in Groups \ {g} : \A k \in Jobs : GroupOf[k] = q => k \in Jobs \ {j}
  OBVIOUS
<1> HIDE DEF g
<1>9. CASE permits[g] < Capacity[g] /\ line[g] = << >>
  <2>1. /\ permits' = [permits EXCEPT ![g] = @ + 1]
        /\ caller' = [caller EXCEPT ![j] = "granted"]
        /\ line' = line
    BY <1>2, <1>9
  <2>2. caller' \in [Jobs -> CallerStages] /\ active' \in Int /\ Stages' /\ Counted'
    <3>1. "granted" \in CallerStages BY DEF CallerStages
    <3> QED BY <3>1, <2>1, <1>1, <1>3, CallerMoves
  <2>3. caller'[j] = "granted" /\ \A k \in Jobs \ {j} : caller'[k] = caller[k]
    BY <2>1, <1>4
  <2>4. /\ permits'[g] = permits[g] + 1 /\ permits' \in [Groups -> Nat]
        /\ \A q \in Groups \ {g} : permits'[q] = permits[q]
    BY <2>1, <1>3, <1>4
  <2>5. ASSUME NEW q \in Groups \ {g} PROVE GroupOK(q)'
    BY <1>8, <2>1, <2>3, <2>4, GroupUntouched
  <2>6. GroupOK(g)'
    <3>1. Holders(g)' = Holders(g) \cup {j}
      BY <2>3 DEF Holders, Holding, g
    <3>2. Cardinality(Holders(g)') = Cardinality(Holders(g)) + 1
      BY <3>1, <1>7, FS_AddElement
    <3>3. permits'[g] = Cardinality(Holders(g)') /\ permits'[g] <= Capacity[g]
      BY ONLY <3>2, <2>4, <1>4, <1>9
    <3>4. ASSUME NEW k \in Jobs
          PROVE  caller'[k] = "lined up" /\ GroupOf[k] = g <=> Has(line'[g], k)
      BY <1>1, <1>5, <2>1, <2>3
    <3> QED BY <3>3, <3>4, <2>1, <1>4, <1>9 DEF GroupOK
  <2>7. TypeOK'
    BY <1>1, <1>4, <2>1, <2>2, <2>4 DEF IInv, TypeOK, CallerStages
  <2> QED BY <1>6, <2>2, <2>5, <2>6, <2>7 DEF IInv
<1>10. CASE ~(permits[g] < Capacity[g] /\ line[g] = << >>)
  <2>1. /\ line' = [line EXCEPT ![g] = Append(@, j)]
        /\ caller' = [caller EXCEPT ![j] = "lined up"]
        /\ permits' = permits
    BY <1>2, <1>10
  <2>2. caller' \in [Jobs -> CallerStages] /\ active' \in Int /\ Stages' /\ Counted'
    <3>1. "lined up" \in CallerStages BY DEF CallerStages
    <3> QED BY <3>1, <2>1, <1>1, <1>3, CallerMoves
  <2>3. caller'[j] = "lined up" /\ \A k \in Jobs \ {j} : caller'[k] = caller[k]
    BY <2>1, <1>4
  <2>4. /\ Append(line[g], j) \in Seq(Jobs) /\ Append(line[g], j) # << >>
        /\ Distinct(Append(line[g], j))
        /\ \A x : Has(Append(line[g], j), x) <=> x = j \/ Has(line[g], x)
    BY <1>1, <1>4, <1>5, AppendToQueue
  <2>5. /\ line'[g] = Append(line[g], j) /\ line' \in [Groups -> Seq(Jobs)]
        /\ \A q \in Groups \ {g} : line'[q] = line[q]
    BY <2>1, <2>4, <1>3, <1>4
  <2>6. ASSUME NEW q \in Groups \ {g} PROVE GroupOK(q)'
    BY <1>8, <2>1, <2>3, <2>5, GroupUntouched
  <2>7. GroupOK(g)'
    <3>1. Holders(g)' = Holders(g)
      BY <1>1, <2>3 DEF Holders, Holding
    <3>2. permits'[g] = Cardinality(Holders(g)') /\ permits'[g] <= Capacity[g]
      BY <3>1, <2>1, <1>4
    <3>3. permits'[g] = Capacity[g]
      <4>1. CASE line[g] = << >>
        <5>1. ~(permits[g] < Capacity[g]) BY <4>1, <1>10
        <5>2. permits[g] \in Nat /\ Capacity[g] \in Nat /\ permits[g] <= Capacity[g] BY <1>4
        <5>3. permits[g] = Capacity[g] BY ONLY <5>1, <5>2
        <5> QED BY <5>3, <2>1
      <4>2. CASE line[g] # << >> BY <4>2, <1>4, <2>1
      <4> QED BY <4>1, <4>2
    <3>4. ASSUME NEW k \in Jobs
          PROVE  caller'[k] = "lined up" /\ GroupOf[k] = g <=> Has(line'[g], k)
      <4>1. CASE k = j BY <4>1, <2>3, <2>4, <2>5 DEF g
      <4>2. CASE k # j BY <4>2, <2>3, <2>4, <2>5, <1>5
      <4> QED BY <4>1, <4>2
    <3> QED BY <3>2, <3>3, <3>4, <2>4, <2>5 DEF GroupOK
  <2>8. TypeOK'
    BY <1>1, <1>4, <2>1, <2>2, <2>5 DEF IInv, TypeOK, CallerStages
  <2> QED BY <1>6, <2>2, <2>6, <2>7, <2>8 DEF IInv
<1> QED BY <1>9, <1>10

\* AcquireCancelled: the caller leaves the line, or gives its permit back.
LEMMA AcquireCancelledKeeps ==
  ASSUME IInv, NEW j \in Jobs, AcquireCancelled(j)
  PROVE  IInv'
<1> DEFINE g == GroupOf[j]
<1>1. UNCHANGED <<chanVars, stopVars, worker, job, active, drainVars>>
  BY DEF AcquireCancelled
<1>2. CASE caller[j] = "granted" /\ Leaving(j, "refused")
  <2>1. job[j] = "new" BY <1>2 DEF IInv, Stages
  <2>2. caller[j] \in Holding BY <1>2 DEF Holding
  <2> QED BY <2>1, <2>2, <1>1, <1>2, LeavingKeepsInvariant
<1>3. CASE /\ caller[j] = "lined up"
           /\ \E i \in DOMAIN line[g] :
                line[g][i] = j /\ line' = [line EXCEPT ![g] = RemoveAt(@, i)]
           /\ caller' = [caller EXCEPT ![j] = "refused"]
           /\ UNCHANGED permits
  <2>1. /\ channel' = channel /\ chanClosed' = chanClosed /\ closed' = closed
        /\ cancelled' = cancelled /\ worker' = worker /\ job' = job
        /\ drain' = drain /\ promised' = promised /\ active' = active
        /\ caller[j] = "lined up" /\ caller' = [caller EXCEPT ![j] = "refused"]
        /\ permits' = permits
    BY <1>1, <1>3 DEF chanVars, stopVars, drainVars
  <2>2. g \in Groups /\ job[j] = "new"
    BY <2>1, PoolAssumption DEF Grouped, IInv, Stages
  <2>3. /\ caller \in [Jobs -> CallerStages]
        /\ line \in [Groups -> Seq(Jobs)] /\ line[g] \in Seq(Jobs) /\ Distinct(line[g])
        /\ permits[g] = Cardinality(Holders(g)) /\ permits[g] <= Capacity[g]
        /\ line[g] # << >> => permits[g] = Capacity[g]
    BY <2>2 DEF IInv, TypeOK, CallerStages, GroupOK
  <2>4. ASSUME NEW k \in Jobs
        PROVE  caller[k] = "lined up" /\ GroupOf[k] = g <=> Has(line[g], k)
    <3>1. GroupOK(g) BY <2>2 DEF IInv
    <3> HIDE DEF g
    <3> QED BY <3>1 DEF GroupOK
  <2>5. Queue' /\ Busy' /\ Promises'
    <3>1. Queue' BY <2>1 DEF IInv, Queue
    <3>2. Busy' BY <2>1 DEF IInv, Busy
    <3>3. Promises' BY <2>1 DEF IInv, Promises
    <3> QED BY <3>1, <3>2, <3>3
  <2>6. caller' \in [Jobs -> CallerStages] /\ active' \in Int /\ Stages' /\ Counted'
    <3>1. "refused" \in CallerStages BY DEF CallerStages
    <3> QED BY <3>1, <2>1, <2>2, CallerMoves
  <2>7. caller'[j] = "refused" /\ \A k \in Jobs \ {j} : caller'[k] = caller[k]
    BY <2>1, <2>3
  <2>8. \A q \in Groups \ {g} : \A k \in Jobs : GroupOf[k] = q => k \in Jobs \ {j}
    OBVIOUS
  <2>p. DOMAIN line[g] = 1 .. Len(line[g])
    BY <2>3
  <2> PICK i \in 1 .. Len(line[g]) :
             line[g][i] = j /\ line' = [line EXCEPT ![g] = RemoveAt(@, i)]
    BY <1>3, <2>p
  <2>9. GroupOf[j] = g OBVIOUS
  <2> HIDE DEF g
  <2>10. /\ RemoveAt(line[g], i) \in Seq(Jobs)
         /\ Distinct(RemoveAt(line[g], i))
         /\ \A x : Has(RemoveAt(line[g], i), x) <=> x # j /\ Has(line[g], x)
    BY <2>3, LeaveQueue
  <2>11. /\ line'[g] = RemoveAt(line[g], i) /\ line' \in [Groups -> Seq(Jobs)]
         /\ \A q \in Groups \ {g} : line'[q] = line[q]
    BY <2>2, <2>3, <2>10
  <2>12. ASSUME NEW q \in Groups \ {g} PROVE GroupOK(q)'
    BY <2>8, <2>1, <2>7, <2>11, GroupUntouched
  <2>13. GroupOK(g)'
    <3>1. Holders(g)' = Holders(g)
      BY <2>1, <2>7 DEF Holders, Holding
    <3>2. permits'[g] = Cardinality(Holders(g)') /\ permits'[g] <= Capacity[g]
      BY <3>1, <2>1, <2>3
    <3>3. line[g] # << >>
      BY <2>3
    <3>4. permits'[g] = Capacity[g]
      BY <3>3, <2>1, <2>3
    <3>5. ASSUME NEW k \in Jobs
          PROVE  caller'[k] = "lined up" /\ GroupOf[k] = g <=> Has(line'[g], k)
      <4>1. CASE k = j BY <4>1, <2>7, <2>10, <2>11
      <4>2. CASE k # j BY <4>2, <2>7, <2>10, <2>11, <2>4
      <4> QED BY <4>1, <4>2
    <3> QED BY <3>2, <3>4, <3>5, <2>10, <2>11 DEF GroupOK
  <2>14. TypeOK'
    BY <2>1, <2>6, <2>11 DEF IInv, TypeOK, CallerStages
  <2> QED BY <2>5, <2>6, <2>12, <2>13, <2>14 DEF IInv
<1> QED BY <1>2, <1>3 DEF AcquireCancelled

\* CallClosed: the permit goes back, the job is still new.
LEMMA CallClosedKeeps ==
  ASSUME IInv, NEW j \in Jobs, CallClosed(j)
  PROVE  IInv'
<1>1. /\ caller[j] = IF Grouped(j) THEN "granted" ELSE "start"
      /\ Leaving(j, "refused")
      /\ UNCHANGED <<chanVars, stopVars, worker, job, active, drainVars>>
  BY DEF CallClosed, MayCall
<1>2. job[j] = "new" /\ caller[j] # "lined up" /\ caller[j] # "sending"
  BY <1>1 DEF IInv, Stages
<1>3. Grouped(j) => caller[j] \in Holding
  BY <1>1 DEF Holding
<1> QED BY <1>1, <1>2, <1>3, LeavingKeepsInvariant

\* SendFails: so it does, and the job is not counted any more.
LEMMA SendFailsKeeps ==
  ASSUME IInv, NEW j \in Jobs, SendFails(j)
  PROVE  IInv'
<1>1. /\ caller[j] = "sending" /\ active' = active - 1
      /\ Leaving(j, "refused")
      /\ UNCHANGED <<chanVars, stopVars, worker, job, drainVars>>
  BY DEF SendFails, GiveUp
<1>2. job[j] = "new" /\ caller[j] # "lined up"
  BY <1>1 DEF IInv, Stages
<1>3. Grouped(j) => caller[j] \in Holding
  BY <1>1 DEF Holding
<1> QED BY <1>1, <1>2, <1>3, LeavingKeepsInvariant

\* Return: the permit goes back once the job has run.
LEMMA ReturnKeeps ==
  ASSUME IInv, NEW j \in Jobs, Return(j)
  PROVE  IInv'
<1>1. /\ caller[j] = "answered" /\ Leaving(j, "returned")
      /\ UNCHANGED <<chanVars, stopVars, worker, job, active, drainVars>>
  BY DEF Return
<1>2. job[j] \in {"run", "over"} /\ caller[j] # "lined up" /\ caller[j] # "sending"
  BY <1>1 DEF IInv, Stages
<1>3. Grouped(j) => caller[j] \in Holding
  BY <1>1 DEF Holding
<1> QED BY <1>1, <1>2, <1>3, LeavingKeepsInvariant

\* Call: the job is counted before it is sent.
LEMMA CallKeeps ==
  ASSUME IInv, NEW j \in Jobs, Call(j)
  PROVE  IInv'
<1>1. /\ caller[j] = IF Grouped(j) THEN "granted" ELSE "start"
      /\ active' = active + 1 /\ caller' = [caller EXCEPT ![j] = "sending"]
      /\ channel' = channel /\ chanClosed' = chanClosed /\ closed' = closed
      /\ cancelled' = cancelled /\ worker' = worker /\ job' = job
      /\ drain' = drain /\ promised' = promised
      /\ line' = line /\ permits' = permits
  BY DEF Call, MayCall, chanVars, stopVars, drainVars, groupVars
<1>2. job[j] = "new" /\ caller[j] # "sending"
  BY <1>1 DEF IInv, Stages
<1>3. caller' \in [Jobs -> CallerStages] /\ active' \in Int /\ Stages' /\ Counted'
  <2>1. "sending" \in CallerStages BY DEF CallerStages
  <2> QED BY <2>1, <1>1, <1>2, CallerMoves
<1>4. Queue' /\ Busy' /\ Promises'
  <2>1. Queue' BY <1>1 DEF IInv, Queue
  <2>2. Busy' BY <1>1 DEF IInv, Busy
  <2>3. Promises' BY <1>1 DEF IInv, Promises
  <2> QED BY <2>1, <2>2, <2>3
<1>5. TypeOK'
  BY <1>1, <1>3 DEF IInv, TypeOK, CallerStages
<1>6. caller'[j] = "sending" /\ \A k \in Jobs \ {j} : caller'[k] = caller[k]
  <2>1. caller \in [Jobs -> CallerStages] BY DEF IInv, TypeOK, CallerStages
  <2> QED BY <2>1, <1>1
<1>7. ASSUME NEW q \in Groups PROVE GroupOK(q)'
  <2>1. GroupOf[j] = q => caller[j] = "granted"
    BY <1>1, PoolAssumption DEF Grouped
  <2>2. ASSUME NEW k \in Jobs, GroupOf[k] = q
        PROVE  /\ caller'[k] \in Holding <=> caller[k] \in Holding
               /\ caller'[k] = "lined up" <=> caller[k] = "lined up"
    <3>1. CASE k = j BY <3>1, <2>1, <2>2, <1>6 DEF Holding
    <3>2. CASE k # j BY <3>2, <1>6
    <3> QED BY <3>1, <3>2
  <2> QED BY <2>2, <1>1, GroupUntouched
<1> QED BY <1>3, <1>4, <1>5, <1>7 DEF IInv

\* Send: a call that does not wait is over with it; it has no permit.
LEMMA SendKeeps ==
  ASSUME IInv, NEW j \in Jobs, Send(j)
  PROVE  IInv'
<1> DEFINE stage == IF j \in Forget THEN "returned" ELSE "waiting"
<1>1. /\ caller[j] = "sending" /\ Len(channel) < Cardinality(Workers)
      /\ channel' = Append(channel, j)
      /\ job' = [job EXCEPT ![j] = "queued"]
      /\ caller' = [caller EXCEPT ![j] = stage]
      /\ chanClosed' = chanClosed /\ closed' = closed
      /\ cancelled' = cancelled /\ worker' = worker /\ active' = active
      /\ drain' = drain /\ promised' = promised
      /\ line' = line /\ permits' = permits
  BY DEF Send, Room, stopVars, drainVars, groupVars
<1>2. /\ caller \in [Jobs -> CallerStages]
      /\ job \in [Jobs -> {"new", "queued", "running", "run", "over"}]
      /\ channel \in Seq(Jobs) /\ job[j] = "new" /\ Distinct(channel)
      /\ \A k \in Jobs : job[k] = "queued" <=> Has(channel, k)
  BY <1>1 DEF IInv, TypeOK, CallerStages, Stages, Queue
<1>3. /\ stage \in CallerStages /\ stage \in {"returned", "waiting"}
      /\ stage = "waiting" => j \notin Forget
      /\ stage = "returned" => j \in Forget
  BY DEF CallerStages
<1> HIDE DEF stage
<1>4. /\ caller'[j] = stage /\ \A k \in Jobs \ {j} : caller'[k] = caller[k]
      /\ job'[j] = "queued" /\ \A k \in Jobs \ {j} : job'[k] = job[k]
      /\ caller' \in [Jobs -> CallerStages]
      /\ job' \in [Jobs -> {"new", "queued", "running", "run", "over"}]
  BY <1>1, <1>2, <1>3
<1>5. /\ channel' \in Seq(Jobs) /\ Len(channel') = Len(channel) + 1 /\ Distinct(channel')
      /\ \A x : Has(channel', x) <=> x = j \/ Has(channel, x)
  BY <1>1, <1>2, AppendToQueue
<1>6. Len(channel') <= Cardinality(Workers)
  <2>1. Len(channel) \in Nat /\ Cardinality(Workers) \in Nat
    BY <1>2, PoolAssumption, FS_CardinalityType
  <2> QED BY <2>1, <1>1, <1>5
<1>7. TypeOK'
  BY <1>1, <1>4, <1>5, <1>6 DEF IInv, TypeOK, CallerStages
<1>8. Stages'
  <2>1. ASSUME NEW k \in Jobs
        PROVE  /\ job'[k] = "new" <=> caller'[k] \in {"start", "lined up", "granted", "sending", "refused"}
               /\ caller'[k] = "waiting" => k \notin Forget /\ job'[k] \in {"queued", "running"}
               /\ caller'[k] = "answered" => k \notin Forget /\ job'[k] \in {"run", "over"}
               /\ caller'[k] = "returned" /\ k \notin Forget => job'[k] \in {"run", "over"}
               /\ caller'[k] \in {"lined up", "granted"} => Grouped(k)
    <3>1. CASE k = j BY <3>1, <1>3, <1>4
    <3>2. CASE k # j BY <3>2, <1>4 DEF IInv, Stages
    <3> QED BY <3>1, <3>2
  <2> QED BY <2>1 DEF Stages, Grouped
<1>9. Queue'
  <2>1. ASSUME NEW k \in Jobs PROVE job'[k] = "queued" <=> Has(channel', k)
    <3>1. CASE k = j BY <3>1, <1>4, <1>5
    <3>2. CASE k # j BY <3>2, <1>2, <1>4, <1>5
    <3> QED BY <3>1, <3>2
  <2> QED BY <2>1, <1>5 DEF Queue
<1>10. Busy'
  <2>1. ASSUME NEW w \in Workers, worker[w] \in Jobs PROVE job'[worker[w]] \in {"running", "run"}
    <3>1. job[worker[w]] \in {"running", "run"} BY <2>1 DEF IInv, Busy
    <3>2. worker[w] # j BY <3>1, <1>2
    <3> QED BY <3>1, <3>2, <2>1, <1>4
  <2> QED BY <2>1, <1>1 DEF IInv, Busy
<1>11. Counted'
  <2>1. \A k : k \in OnTheirWay' <=> k \in OnTheirWay
    BY <1>1, <1>4 DEF OnTheirWay, UnderWay
  <2>2. OnTheirWay' = OnTheirWay BY ONLY <2>1
  <2> QED BY <2>2, <1>1 DEF IInv, Counted
<1>12. Promises'
  <2>1. ASSUME NEW k \in promised PROVE job'[k] # "new" /\ (drain = "over" => job'[k] = "over")
    <3>1. job[k] # "new" /\ (drain = "over" => job[k] = "over") /\ k \in Jobs
      BY DEF IInv, Promises, TypeOK
    <3>2. k # j BY <3>1, <1>2
    <3> QED BY <3>1, <3>2, <1>4
  <2> QED BY <2>1, <1>1 DEF Promises
<1>13. ASSUME NEW q \in Groups PROVE GroupOK(q)'
  <2>1. GroupOf[j] = q => stage = "waiting"
    BY <1>3, PoolAssumption
  <2>2. ASSUME NEW k \in Jobs, GroupOf[k] = q
        PROVE  /\ caller'[k] \in Holding <=> caller[k] \in Holding
               /\ caller'[k] = "lined up" <=> caller[k] = "lined up"
    <3>1. CASE k = j BY <3>1, <2>1, <2>2, <1>1, <1>4 DEF Holding
    <3>2. CASE k # j BY <3>2, <1>4
    <3> QED BY <3>1, <3>2
  <2> QED BY <2>2, <1>1, GroupUntouched
<1> QED BY <1>7, <1>8, <1>9, <1>10, <1>11, <1>12, <1>13 DEF IInv

-----------------------------------------------------------------------------
(* The steps of the workers                                                *)

\* Receive: the job leaves the channel, and no other worker gets it.
LEMMA ReceiveKeeps ==
  ASSUME IInv, NEW w \in Workers, Receive(w)
  PROVE  IInv'
<1> DEFINE j == Head(channel)
<1>1. /\ worker[w] = Idle /\ channel # << >>
      /\ worker' = [worker EXCEPT ![w] = j]
      /\ job' = [job EXCEPT ![j] = "running"]
      /\ channel' = Tail(channel)
      /\ caller' = caller /\ line' = line /\ permits' = permits
      /\ chanClosed' = chanClosed /\ closed' = closed
      /\ cancelled' = cancelled /\ active' = active
      /\ drain' = drain /\ promised' = promised
  BY DEF Receive, stopVars, drainVars, groupVars
<1>2. /\ worker \in [Workers -> Jobs \cup {Idle, Gone}]
      /\ job \in [Jobs -> {"new", "queued", "running", "run", "over"}]
      /\ channel \in Seq(Jobs) /\ Distinct(channel) /\ Len(channel) <= Cardinality(Workers)
  BY DEF IInv, TypeOK, Queue
<1>3. ASSUME NEW k \in Jobs PROVE job[k] = "queued" <=> Has(channel, k)
  BY DEF IInv, Queue
<1>4. /\ j \in Jobs /\ Has(channel, j)
      /\ channel' \in Seq(Jobs) /\ Len(channel') = Len(channel) - 1 /\ Distinct(channel')
      /\ \A x : Has(channel', x) <=> x # j /\ Has(channel, x)
  BY <1>1, <1>2, TailOfQueue
<1> HIDE DEF j
<1>5. job[j] = "queued" BY <1>3, <1>4
<1>6. /\ job'[j] = "running" /\ \A k \in Jobs \ {j} : job'[k] = job[k]
      /\ worker'[w] = j /\ \A v \in Workers \ {w} : worker'[v] = worker[v]
      /\ job' \in [Jobs -> {"new", "queued", "running", "run", "over"}]
      /\ worker' \in [Workers -> Jobs \cup {Idle, Gone}]
  BY <1>1, <1>2, <1>4
<1>7. TypeOK'
  <2>1. Len(channel') <= Cardinality(Workers)
    <3>1. Len(channel) \in Nat /\ Cardinality(Workers) \in Nat
      BY <1>2, PoolAssumption, FS_CardinalityType
    <3> QED BY <3>1, <1>2, <1>4
  <2> QED BY <2>1, <1>1, <1>4, <1>6 DEF IInv, TypeOK
<1>8. Stages'
  <2>1. ASSUME NEW k \in Jobs
        PROVE  /\ job'[k] = "new" <=> caller[k] \in {"start", "lined up", "granted", "sending", "refused"}
               /\ caller[k] = "waiting" => k \notin Forget /\ job'[k] \in {"queued", "running"}
               /\ caller[k] = "answered" => k \notin Forget /\ job'[k] \in {"run", "over"}
               /\ caller[k] = "returned" /\ k \notin Forget => job'[k] \in {"run", "over"}
               /\ caller[k] \in {"lined up", "granted"} => Grouped(k)
    <3>1. CASE k = j BY <3>1, <1>5, <1>6 DEF IInv, Stages
    <3>2. CASE k # j BY <3>2, <1>6 DEF IInv, Stages
    <3> QED BY <3>1, <3>2
  <2> QED BY <2>1, <1>1 DEF Stages, Grouped
<1>9. Queue'
  <2>1. ASSUME NEW k \in Jobs PROVE job'[k] = "queued" <=> Has(channel', k)
    <3>1. CASE k = j BY <3>1, <1>4, <1>6
    <3>2. CASE k # j BY <3>2, <1>3, <1>4, <1>6
    <3> QED BY <3>1, <3>2
  <2> QED BY <2>1, <1>4 DEF Queue
<1>10. Busy'
  <2>1. ASSUME NEW v \in Workers \ {w} PROVE worker'[v] = worker[v] /\ worker[v] # j
    <3>1. worker[v] \in Jobs => job[worker[v]] \in {"running", "run"} BY DEF IInv, Busy
    <3> QED BY <3>1, <1>4, <1>5, <1>6
  <2>2. ASSUME NEW v \in Workers, worker'[v] \in Jobs
        PROVE  /\ job'[worker'[v]] \in {"running", "run"}
               /\ \A u \in Workers : worker'[u] = worker'[v] => u = v
    <3>1. CASE v = w BY <3>1, <2>1, <1>6
    <3>2. CASE v # w
      <4>1. /\ worker'[v] = worker[v] /\ worker[v] # j /\ worker[v] \in Jobs
            /\ job[worker[v]] \in {"running", "run"}
            /\ \A u \in Workers : worker[u] = worker[v] => u = v
        BY <2>1, <2>2, <3>2 DEF IInv, Busy
      <4>2. ASSUME NEW u \in Workers, worker'[u] = worker'[v] PROVE u = v
        <5>1. CASE u = w BY <5>1, <4>1, <4>2, <1>6
        <5>2. CASE u # w BY <5>2, <4>1, <4>2, <1>6
        <5> QED BY <5>1, <5>2
      <4> QED BY <4>1, <4>2, <1>6
    <3> QED BY <3>1, <3>2
  <2> QED BY <2>2 DEF Busy
<1>11. Counted'
  <2>1. ASSUME NEW k \in Jobs PROVE job'[k] \in UnderWay <=> job[k] \in UnderWay
    <3>1. CASE k = j BY <3>1, <1>5, <1>6 DEF UnderWay
    <3>2. CASE k # j BY <3>2, <1>6
    <3> QED BY <3>1, <3>2
  <2>2. \A k : k \in OnTheirWay' <=> k \in OnTheirWay
    BY <2>1, <1>1 DEF OnTheirWay
  <2>3. OnTheirWay' = OnTheirWay BY ONLY <2>2
  <2> QED BY <2>3, <1>1 DEF IInv, Counted
<1>12. Promises'
  <2>1. ASSUME NEW k \in promised PROVE job'[k] # "new" /\ (drain = "over" => job'[k] = "over")
    <3>1. job[k] # "new" /\ (drain = "over" => job[k] = "over") /\ k \in Jobs
      BY DEF IInv, Promises, TypeOK
    <3>2. CASE k = j BY <3>1, <3>2, <1>5, <1>6
    <3>3. CASE k # j BY <3>1, <3>3, <1>6
    <3> QED BY <3>2, <3>3
  <2> QED BY <2>1, <1>1 DEF Promises
<1>13. ASSUME NEW q \in Groups PROVE GroupOK(q)'
  BY <1>1, GroupUntouched
<1> QED BY <1>7, <1>8, <1>9, <1>10, <1>11, <1>12, <1>13 DEF IInv

\* Deliver: a caller that waits keeps its permit until it returns.
LEMMA DeliverKeeps ==
  ASSUME IInv, NEW w \in Workers, Deliver(w)
  PROVE  IInv'
<1> DEFINE j == worker[w]
<1>1. /\ j \in Jobs /\ job[j] = "running"
      /\ job' = [job EXCEPT ![j] = "run"]
      /\ caller' = IF j \in Forget THEN caller ELSE [caller EXCEPT ![j] = "answered"]
      /\ worker' = worker /\ channel' = channel /\ line' = line /\ permits' = permits
      /\ chanClosed' = chanClosed /\ closed' = closed
      /\ cancelled' = cancelled /\ active' = active
      /\ drain' = drain /\ promised' = promised
  BY DEF Deliver, chanVars, stopVars, drainVars, groupVars
<1>2. /\ caller \in [Jobs -> CallerStages]
      /\ job \in [Jobs -> {"new", "queued", "running", "run", "over"}]
  BY DEF IInv, TypeOK, CallerStages
<1> HIDE DEF j
<1>3. j \notin Forget => caller[j] = "waiting"
  <2>1. caller[j] \in CallerStages BY <1>1, <1>2
  <2> QED BY <2>1, <1>1 DEF IInv, Stages, CallerStages
<1>4. /\ job'[j] = "run" /\ \A k \in Jobs \ {j} : job'[k] = job[k]
      /\ caller'[j] = IF j \in Forget THEN caller[j] ELSE "answered"
      /\ \A k \in Jobs \ {j} : caller'[k] = caller[k]
      /\ job' \in [Jobs -> {"new", "queued", "running", "run", "over"}]
      /\ caller' \in [Jobs -> CallerStages]
  BY <1>1, <1>2 DEF CallerStages
<1>5. TypeOK'
  BY <1>1, <1>4 DEF IInv, TypeOK, CallerStages
<1>6. Stages'
  <2>1. ASSUME NEW k \in Jobs
        PROVE  /\ job'[k] = "new" <=> caller'[k] \in {"start", "lined up", "granted", "sending", "refused"}
               /\ caller'[k] = "waiting" => k \notin Forget /\ job'[k] \in {"queued", "running"}
               /\ caller'[k] = "answered" => k \notin Forget /\ job'[k] \in {"run", "over"}
               /\ caller'[k] = "returned" /\ k \notin Forget => job'[k] \in {"run", "over"}
               /\ caller'[k] \in {"lined up", "granted"} => Grouped(k)
    <3>1. CASE k = j /\ j \in Forget BY <3>1, <1>1, <1>4 DEF IInv, Stages
    <3>2. CASE k = j /\ j \notin Forget BY <3>2, <1>4
    <3>3. CASE k # j BY <3>3, <1>4 DEF IInv, Stages
    <3> QED BY <3>1, <3>2, <3>3
  <2> QED BY <2>1 DEF Stages, Grouped
<1>7. Queue'
  <2>1. ASSUME NEW k \in Jobs PROVE job'[k] = "queued" <=> Has(channel, k)
    <3>1. job[k] = "queued" <=> Has(channel, k) BY DEF IInv, Queue
    <3>2. CASE k = j BY <3>1, <3>2, <1>1, <1>4
    <3>3. CASE k # j BY <3>1, <3>3, <1>4
    <3> QED BY <3>2, <3>3
  <2> QED BY <2>1, <1>1 DEF IInv, Queue
<1>8. Busy'
  <2>1. ASSUME NEW v \in Workers, worker[v] \in Jobs PROVE job'[worker[v]] \in {"running", "run"}
    <3>1. CASE worker[v] = j BY <3>1, <1>4
    <3>2. CASE worker[v] # j BY <3>2, <2>1, <1>4 DEF IInv, Busy
    <3> QED BY <3>1, <3>2
  <2> QED BY <2>1, <1>1 DEF IInv, Busy
<1>9. Counted'
  <2>1. ASSUME NEW k \in Jobs
        PROVE  /\ job'[k] \in UnderWay <=> job[k] \in UnderWay
               /\ caller'[k] = "sending" <=> caller[k] = "sending"
    <3>1. CASE k = j BY <3>1, <1>1, <1>3, <1>4 DEF UnderWay
    <3>2. CASE k # j BY <3>2, <1>4
    <3> QED BY <3>1, <3>2
  <2>2. \A k : k \in OnTheirWay' <=> k \in OnTheirWay
    BY <2>1 DEF OnTheirWay
  <2>3. OnTheirWay' = OnTheirWay BY ONLY <2>2
  <2> QED BY <2>3, <1>1 DEF IInv, Counted
<1>10. Promises'
  <2>1. ASSUME NEW k \in promised PROVE job'[k] # "new" /\ (drain = "over" => job'[k] = "over")
    <3>1. job[k] # "new" /\ (drain = "over" => job[k] = "over") /\ k \in Jobs
      BY DEF IInv, Promises, TypeOK
    <3>2. CASE k = j BY <3>1, <3>2, <1>1, <1>4
    <3>3. CASE k # j BY <3>1, <3>3, <1>4
    <3> QED BY <3>2, <3>3
  <2> QED BY <2>1, <1>1 DEF Promises
<1>11. ASSUME NEW q \in Groups PROVE GroupOK(q)'
  <2>1. ASSUME NEW k \in Jobs
        PROVE  /\ caller'[k] \in Holding <=> caller[k] \in Holding
               /\ caller'[k] = "lined up" <=> caller[k] = "lined up"
    <3>1. CASE k = j BY <3>1, <1>3, <1>4 DEF Holding
    <3>2. CASE k # j BY <3>2, <1>4
    <3> QED BY <3>1, <3>2
  <2> QED BY <2>1, <1>1, GroupUntouched
<1> QED BY <1>5, <1>6, <1>7, <1>8, <1>9, <1>10, <1>11 DEF IInv

\* CompleteTask: the job is over, and no longer counted.
LEMMA CompleteTaskKeeps ==
  ASSUME IInv, NEW w \in Workers, CompleteTask(w)
  PROVE  IInv'
<1> DEFINE j == worker[w]
<1>1. /\ j \in Jobs /\ job[j] = "run"
      /\ worker' = [worker EXCEPT ![w] = Idle]
      /\ job' = [job EXCEPT ![j] = "over"] /\ active' = active - 1
      /\ caller' = caller /\ channel' = channel /\ line' = line /\ permits' = permits
      /\ chanClosed' = chanClosed /\ closed' = closed
      /\ cancelled' = cancelled /\ drain' = drain /\ promised' = promised
  BY DEF CompleteTask, chanVars, stopVars, drainVars, groupVars
<1>2. /\ worker \in [Workers -> Jobs \cup {Idle, Gone}] /\ active \in Int
      /\ job \in [Jobs -> {"new", "queued", "running", "run", "over"}]
      /\ \A v \in Workers : worker[v] = j => v = w
  BY <1>1 DEF IInv, TypeOK, Busy
<1> HIDE DEF j
<1>3. /\ job'[j] = "over" /\ \A k \in Jobs \ {j} : job'[k] = job[k]
      /\ worker'[w] = Idle /\ \A v \in Workers \ {w} : worker'[v] = worker[v]
      /\ job' \in [Jobs -> {"new", "queued", "running", "run", "over"}]
      /\ worker' \in [Workers -> Jobs \cup {Idle, Gone}]
  BY <1>1, <1>2
<1>4. TypeOK'
  <2>1. active' \in Int BY <1>1, <1>2
  <2> QED BY <2>1, <1>1, <1>3 DEF IInv, TypeOK
<1>5. Stages'
  <2>1. ASSUME NEW k \in Jobs
        PROVE  /\ job'[k] = "new" <=> caller[k] \in {"start", "lined up", "granted", "sending", "refused"}
               /\ caller[k] = "waiting" => k \notin Forget /\ job'[k] \in {"queued", "running"}
               /\ caller[k] = "answered" => k \notin Forget /\ job'[k] \in {"run", "over"}
               /\ caller[k] = "returned" /\ k \notin Forget => job'[k] \in {"run", "over"}
               /\ caller[k] \in {"lined up", "granted"} => Grouped(k)
    <3>1. CASE k = j BY <3>1, <1>1, <1>3 DEF IInv, Stages
    <3>2. CASE k # j BY <3>2, <1>3 DEF IInv, Stages
    <3> QED BY <3>1, <3>2
  <2> QED BY <2>1, <1>1 DEF Stages, Grouped
<1>6. Queue'
  <2>1. ASSUME NEW k \in Jobs PROVE job'[k] = "queued" <=> Has(channel, k)
    <3>1. job[k] = "queued" <=> Has(channel, k) BY DEF IInv, Queue
    <3>2. CASE k = j BY <3>1, <3>2, <1>1, <1>3
    <3>3. CASE k # j BY <3>1, <3>3, <1>3
    <3> QED BY <3>2, <3>3
  <2> QED BY <2>1, <1>1 DEF IInv, Queue
<1>7. Busy'
  <2>1. ASSUME NEW v \in Workers, worker'[v] \in Jobs
        PROVE  /\ job'[worker'[v]] \in {"running", "run"}
               /\ \A u \in Workers : worker'[u] = worker'[v] => u = v
    <3>1. Idle \notin Jobs BY PoolAssumption
    <3>2. v # w /\ worker'[v] = worker[v] BY <3>1, <2>1, <1>3
    <3>3. /\ worker[v] # j /\ job[worker[v]] \in {"running", "run"}
          /\ \A u \in Workers : worker[u] = worker[v] => u = v
      BY <3>2, <2>1, <1>2 DEF IInv, Busy
    <3>4. ASSUME NEW u \in Workers, worker'[u] = worker'[v] PROVE u = v
      <4>1. u # w BY <3>1, <3>4, <2>1, <1>3
      <4> QED BY <4>1, <3>2, <3>3, <3>4, <1>3
    <3> QED BY <3>2, <3>3, <3>4, <2>1, <1>3
  <2> QED BY <2>1 DEF Busy
<1>8. Counted'
  <2>1. \A k \in Jobs \ {j} : job'[k] \in UnderWay <=> job[k] \in UnderWay
    BY <1>3
  <2>2. caller[j] # "sending" BY <1>1 DEF IInv, Stages
  <2>3. job'[j] \notin UnderWay /\ job[j] \in UnderWay BY <1>1, <1>3 DEF UnderWay
  <2>4. \A k : k \in OnTheirWay' <=> k \in OnTheirWay \ {j}
    BY <2>1, <2>2, <2>3, <1>1 DEF OnTheirWay
  <2>5. OnTheirWay' = OnTheirWay \ {j} BY ONLY <2>4
  <2>6. j \in OnTheirWay BY <2>3, <1>1 DEF OnTheirWay
  <2> QED BY <2>5, <2>6, <1>1, CountOne DEF IInv
<1>9. Promises'
  <2>1. ASSUME NEW k \in promised PROVE job'[k] # "new" /\ (drain = "over" => job'[k] = "over")
    <3>1. job[k] # "new" /\ (drain = "over" => job[k] = "over") /\ k \in Jobs
      BY DEF IInv, Promises, TypeOK
    <3>2. CASE k = j BY <3>2, <1>3
    <3>3. CASE k # j BY <3>1, <3>3, <1>3
    <3> QED BY <3>2, <3>3
  <2> QED BY <2>1, <1>1 DEF Promises
<1>10. ASSUME NEW q \in Groups PROVE GroupOK(q)'
  BY <1>1, GroupUntouched
<1> QED BY <1>4, <1>5, <1>6, <1>7, <1>8, <1>9, <1>10 DEF IInv

\* Leave: only a worker without a job leaves.
LEMMA LeaveKeeps ==
  ASSUME IInv, NEW w \in Workers, Leave(w)
  PROVE  IInv'
<1>1. /\ worker[w] = Idle /\ worker' = [worker EXCEPT ![w] = Gone]
      /\ caller' = caller /\ job' = job /\ channel' = channel
      /\ line' = line /\ permits' = permits /\ active' = active
      /\ chanClosed' = chanClosed /\ closed' = closed
      /\ cancelled' = cancelled /\ drain' = drain /\ promised' = promised
  BY DEF Leave, chanVars, stopVars, drainVars, groupVars
<1>2. worker \in [Workers -> Jobs \cup {Idle, Gone}] /\ Gone \notin Jobs
  BY PoolAssumption DEF IInv, TypeOK
<1>3. /\ worker'[w] = Gone /\ \A v \in Workers \ {w} : worker'[v] = worker[v]
      /\ worker' \in [Workers -> Jobs \cup {Idle, Gone}]
  BY <1>1, <1>2
<1>4. TypeOK' BY <1>1, <1>3 DEF IInv, TypeOK
<1>5. Stages' BY <1>1 DEF IInv, Stages, Grouped
<1>6. Queue' BY <1>1 DEF IInv, Queue
<1>7. Busy'
  <2>1. ASSUME NEW v \in Workers, worker'[v] \in Jobs
        PROVE  /\ job'[worker'[v]] \in {"running", "run"}
               /\ \A u \in Workers : worker'[u] = worker'[v] => u = v
    <3>1. v # w /\ worker'[v] = worker[v] BY <2>1, <1>2, <1>3
    <3>2. /\ job[worker[v]] \in {"running", "run"}
          /\ \A u \in Workers : worker[u] = worker[v] => u = v
      BY <3>1, <2>1 DEF IInv, Busy
    <3>3. ASSUME NEW u \in Workers, worker'[u] = worker'[v] PROVE u = v
      <4>1. u # w BY <3>3, <2>1, <1>2, <1>3
      <4> QED BY <4>1, <3>1, <3>2, <3>3, <1>3
    <3> QED BY <3>1, <3>2, <3>3, <1>1
  <2> QED BY <2>1 DEF Busy
<1>8. Counted'
  <2>1. OnTheirWay' = OnTheirWay BY <1>1 DEF OnTheirWay
  <2> QED BY <2>1, <1>1 DEF IInv, Counted
<1>9. Promises' BY <1>1 DEF IInv, Promises
<1>10. ASSUME NEW q \in Groups PROVE GroupOK(q)'
  BY <1>1, GroupUntouched
<1> QED BY <1>4, <1>5, <1>6, <1>7, <1>8, <1>9, <1>10 DEF IInv

-----------------------------------------------------------------------------
(* The end of the pool, and the theorems                                   *)

\* Cancel, Shutdown, CloseChannel, WaitForCompletion and stuttering steps touch
\* no job; the wait is over only when no job is on its way.
LEMMA EndKeeps ==
  ASSUME IInv, Cancel \/ Shutdown \/ CloseChannel \/ WaitForCompletion \/ UNCHANGED vars
  PROVE  IInv'
<1>1. /\ caller' = caller /\ job' = job /\ channel' = channel
      /\ line' = line /\ permits' = permits /\ active' = active /\ worker' = worker
  BY DEF Cancel, Shutdown, CloseChannel, WaitForCompletion, vars, chanVars, groupVars
<1>2. /\ chanClosed' \in BOOLEAN /\ closed' \in BOOLEAN /\ cancelled' \in BOOLEAN
      /\ drain' \in {"no", "waiting", "over"} /\ promised' \subseteq Jobs
  BY DEF IInv, TypeOK, Cancel, Shutdown, CloseChannel, WaitForCompletion, vars, chanVars,
         stopVars, drainVars
<1>3. TypeOK' BY <1>1, <1>2 DEF IInv, TypeOK
<1>4. Stages' BY <1>1 DEF IInv, Stages, Grouped
<1>5. Queue' BY <1>1 DEF IInv, Queue
<1>6. Busy' BY <1>1 DEF IInv, Busy
<1>7. Counted'
  <2>1. OnTheirWay' = OnTheirWay BY <1>1 DEF OnTheirWay
  <2> QED BY <2>1, <1>1 DEF IInv, Counted
<1>8. ASSUME NEW q \in Groups PROVE GroupOK(q)'
  BY <1>1, GroupUntouched
<1>9. Promises'
  <2>1. CASE promised' = promised /\ drain' = drain
    BY <2>1, <1>1 DEF IInv, Promises
  <2>2. CASE drain' = "waiting" /\ promised' = {j \in Jobs : job[j] # "new"}
    BY <2>2, <1>1 DEF Promises
  <2>3. CASE drain = "waiting" /\ active = 0 /\ drain' = "over" /\ promised' = promised
    <3>1. IsFiniteSet(OnTheirWay) BY FiniteJobs DEF OnTheirWay
    <3>2. OnTheirWay = {} BY <3>1, <2>3, FS_EmptySet DEF IInv, Counted
    <3>3. ASSUME NEW k \in promised PROVE job[k] # "new" /\ job[k] = "over"
      <4>1. job[k] # "new" /\ k \in Jobs BY DEF IInv, Promises, TypeOK
      <4>2. job[k] \notin UnderWay BY <4>1, <3>2 DEF OnTheirWay
      <4>3. job[k] \in {"new", "queued", "running", "run", "over"}
        BY <4>1 DEF IInv, TypeOK
      <4> QED BY <4>1, <4>2, <4>3 DEF UnderWay
    <3> QED BY <3>3, <2>3, <1>1 DEF Promises
  <2> QED BY <2>1, <2>2, <2>3 DEF Cancel, Shutdown, CloseChannel, WaitForCompletion, vars, drainVars
<1> QED BY <1>3, <1>4, <1>5, <1>6, <1>7, <1>8, <1>9 DEF IInv

\* Nobody has called, no job is counted.
LEMMA InitIInv == Init => IInv
<1> SUFFICES ASSUME Init PROVE IInv
  OBVIOUS
<1> USE DEF Init
<1>1. TypeOK
  <2>1. Cardinality(Workers) \in Nat BY PoolAssumption, FS_CardinalityType
  <2>2. channel \in Seq(Jobs) /\ Len(channel) <= Cardinality(Workers)
    BY <2>1, EmptySeq
  <2>3. line \in [Groups -> Seq(Jobs)]
    BY EmptySeq
  <2>4. /\ caller \in [Jobs -> CallerStages]
        /\ job \in [Jobs -> {"new", "queued", "running", "run", "over"}]
        /\ permits \in [Groups -> Nat] /\ active \in Int
        /\ worker \in [Workers -> Jobs \cup {Idle, Gone}] /\ promised \subseteq Jobs
    BY DEF CallerStages
  <2>5. /\ chanClosed \in BOOLEAN /\ closed \in BOOLEAN /\ cancelled \in BOOLEAN
        /\ drain \in {"no", "waiting", "over"}
    OBVIOUS
  <2> QED BY ONLY <2>2, <2>3, <2>4, <2>5 DEF TypeOK, CallerStages
<1>2. Stages BY DEF Stages
<1>3. ASSUME NEW q \in Groups PROVE GroupOK(q)
  <2>1. Holders(q) = {} BY DEF Holders, Holding
  <2>2. Cardinality(Holders(q)) = 0 BY <2>1, FS_EmptySet
  <2>3. Capacity[q] \in Nat BY PoolAssumption
  <2>4. \A j \in Jobs : caller[j] # "lined up" /\ ~Has(line[q], j) BY DEF Has
  <2> QED BY <2>2, <2>3, <2>4 DEF GroupOK, Distinct
<1>4. Queue BY DEF Queue, Has, Distinct
<1>5. Busy BY PoolAssumption DEF Busy
<1>6. Counted
  <2>1. OnTheirWay = {} BY DEF OnTheirWay, UnderWay
  <2> QED BY <2>1, FS_EmptySet DEF Counted
<1>7. Promises BY DEF Promises
<1> QED BY <1>1, <1>2, <1>3, <1>4, <1>5, <1>6, <1>7 DEF IInv

\* The invariant holds of every reachable state.
THEOREM PoolInvariant == Spec => []IInv
<1>1. IInv /\ [Next]_vars => IInv'
  <2> SUFFICES ASSUME IInv, [Next]_vars PROVE IInv'
    OBVIOUS
  <2>1. ASSUME NEW j \in Jobs, Caller(j) PROVE IInv'
    BY <2>1, AcquireKeeps, AcquireCancelledKeeps, CallKeeps, CallClosedKeeps, SendKeeps,
       SendFailsKeeps, ReturnKeeps DEF Caller
  <2>2. ASSUME NEW w \in Workers, Work(w) PROVE IInv'
    BY <2>2, ReceiveKeeps, DeliverKeeps, CompleteTaskKeeps, LeaveKeeps DEF Work
  <2> QED BY <2>1, <2>2, EndKeeps DEF Next
<1> QED BY InitIInv, <1>1, PTL DEF Spec

\* The variables of the pool have their types: the counter is an integer and the
\* channel never holds more jobs than there are workers.
THEOREM PoolTypeCorrect == Spec => []TypeOK
  BY PoolInvariant, PTL DEF IInv

\* No more targets of a group run than it has permits, every permit is with a
\* caller that still runs, and none is idle while somebody is in line, for any
\* groups and capacities (Schedule and its deferred Release).
THEOREM GroupLimitHolds == Spec => []GroupLimit
<1>1. IInv => GroupLimit
  <2> SUFFICES ASSUME IInv, NEW g \in Groups
               PROVE  LET members == {j \in Jobs : GroupOf[j] = g}
                      IN /\ Cardinality({j \in members : job[j] = "running"}) <= Capacity[g]
                         /\ permits[g] = Cardinality({j \in members : caller[j] \in
                              {"granted", "sending", "waiting", "answered"}})
                         /\ line[g] # << >> => permits[g] = Capacity[g]
    BY DEF GroupLimit
  <2> DEFINE members == {j \in Jobs : GroupOf[j] = g}
             running == {j \in members : job[j] = "running"}
             holders == {j \in members : caller[j] \in {"granted", "sending", "waiting", "answered"}}
  <2>1. /\ permits[g] = Cardinality(Holders(g)) /\ permits[g] <= Capacity[g]
        /\ line[g] # << >> => permits[g] = Capacity[g]
    BY DEF IInv, GroupOK
  <2>2. holders = Holders(g)
    BY DEF Holders, Holding
  <2>3. running \subseteq Holders(g)
    <3>1. ASSUME NEW j \in Jobs, GroupOf[j] = g, job[j] = "running" PROVE caller[j] = "waiting"
      <4>1. caller[j] \in CallerStages BY DEF IInv, TypeOK, CallerStages
      <4>2. j \notin Forget BY <3>1, PoolAssumption
      <4> QED BY <3>1, <4>1, <4>2 DEF IInv, Stages, CallerStages
    <3> QED BY <3>1 DEF Holders, Holding
  <2>4. Cardinality(running) <= Capacity[g]
    <3>1. /\ Cardinality(running) <= Cardinality(Holders(g))
          /\ Cardinality(Holders(g)) \in Nat /\ Cardinality(running) \in Nat
      BY <2>3, FiniteJobs, FS_Subset DEF Holders
    <3>2. Capacity[g] \in Nat BY PoolAssumption
    <3> HIDE DEF running
    <3> QED BY ONLY <3>1, <3>2, <2>1
  <2> QED BY <2>1, <2>2, <2>4
<1> QED BY <1>1, PoolInvariant, PTL

\* activeJobs is the number of jobs on their way, whatever way out enqueue takes,
\* so that it is never negative and Wait returns when it should.
THEOREM CounterIsExact == Spec => []CounterExact
<1>1. IInv => CounterExact
  <2> SUFFICES ASSUME IInv PROVE CounterExact
    OBVIOUS
  <2> DEFINE under == {j \in Jobs : job[j] \in {"queued", "running", "run"}}
  <2>1. OnTheirWay = At("sending") \cup under
    BY DEF OnTheirWay, At, UnderWay
  <2>2. At("sending") \cap under = {}
    BY DEF At, IInv, Stages
  <2>3. IsFiniteSet(At("sending")) /\ IsFiniteSet(under)
    BY FiniteJobs DEF At
  <2>4. /\ Cardinality(At("sending")) \in Nat /\ Cardinality(under) \in Nat
        /\ Cardinality(At("sending") \cup under) =
             Cardinality(At("sending")) + Cardinality(under) - Cardinality(At("sending") \cap under)
    BY <2>3, FS_Union, FS_CardinalityType
  <2>5. Cardinality(At("sending") \cap under) = 0
    BY <2>2, FS_EmptySet
  <2>6. active = Cardinality(At("sending") \cup under)
    BY <2>1 DEF IInv, Counted
  <2>7. active = Cardinality(At("sending")) + Cardinality(under)
    BY ONLY <2>4, <2>5, <2>6
  <2> QED BY <2>7 DEF CounterExact
<1> QED BY <1>1, PoolInvariant, PTL

\* After WaitForCompletion every job accepted before it has run, and a call that
\* returned an error has not left its job behind.
THEOREM DrainKeepsItsPromise == Spec => []DrainedMeansRun
<1>1. IInv => DrainedMeansRun
  BY DEF IInv, Promises, Stages, DrainedMeansRun, At
<1> QED BY <1>1, PoolInvariant, PTL
=============================================================================
