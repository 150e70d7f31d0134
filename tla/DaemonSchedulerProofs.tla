----------------------- MODULE DaemonSchedulerProofs -----------------------
(***************************************************************************)
(* Theorems about DaemonScheduler, for every set of jobs, clients,         *)
(* workspaces and leases, and every configuration of the limits.           *)
(***************************************************************************)
EXTENDS DaemonScheduler, FiniteSetTheorems, TLAPS

-----------------------------------------------------------------------------
(***************************************************************************)
(* Loops                                                                   *)
(***************************************************************************)

\* A set of naturals that has a member has a least one.
LEMMA LeastNatural ==
    ASSUME NEW T \in SUBSET Nat, T # {}
    PROVE  \E n \in T : \A m \in T : n <= m
<1>1. PICK n \in T : \A m \in T : ~(<<m, n>> \in OpToRel(<, Nat))
  BY WFMin, NatLessThanWellFounded, Zenon
<1>2. \A m \in T : ~(m < n)
  BY <1>1, Zenon DEF OpToRel
<1> QED
  BY <1>2

\* Induction over the naturals, for a set.
LEMMA Induction ==
    ASSUME NEW S, 0 \in S, \A n \in Nat : n \in S => n + 1 \in S
    PROVE  Nat \subseteq S
<1> SUFFICES ASSUME Nat \ S # {} PROVE FALSE
  OBVIOUS
<1>1. PICK n \in Nat \ S : \A m \in Nat \ S : n <= m
  BY LeastNatural, Zenon
<1>2. n # 0 /\ n - 1 \in Nat
  OBVIOUS
<1>3. n - 1 \in S
  BY <1>1, <1>2
<1>4. (n - 1) + 1 \in S
  BY <1>2, <1>3
<1> QED
  BY <1>4

\* The loop of pump is the repetition of its pass.
LEMMA PumpUnfolds ==
    ASSUME NEW w
    PROVE  \E pass :
             /\ pump(w) = pass[max_active]
             /\ pass[0] = w
             /\ \A n \in 1 .. max_active : pass[n] = PumpRound(pass[n - 1])
<1> DEFINE Def(f, m) == f = [n \in 0 .. m |->
                               IF n = 0 THEN w ELSE PumpRound(f[n - 1])]
           S == {m \in Nat : \E f : Def(f, m)}
<1>1. 0 \in S
  <2> DEFINE first == [n \in 0 .. 0 |-> w]
  <2>1. Def(first, 0)
    OBVIOUS
  <2> QED
    BY <2>1, Zenon
<1>2. ASSUME NEW m \in Nat, m \in S
      PROVE  m + 1 \in S
  <2>1. PICK f : Def(f, m)
    BY <1>2
  <2> DEFINE longer == [n \in 0 .. m + 1 |->
                          IF n = 0 THEN w ELSE PumpRound(f[n - 1])]
  <2>2. ASSUME NEW n \in 0 .. m PROVE longer[n] = f[n]
    BY <2>1
  <2>3. ASSUME NEW n \in 0 .. m + 1, n # 0 PROVE longer[n - 1] = f[n - 1]
    <3>1. n - 1 \in 0 .. m
      BY <2>3
    <3> QED
      BY <2>2, <3>1
  <2>4. ASSUME NEW n \in 0 .. m + 1
        PROVE  (IF n = 0 THEN w ELSE PumpRound(f[n - 1]))
                 = (IF n = 0 THEN w ELSE PumpRound(longer[n - 1]))
    BY <2>3, Zenon
  <2>5. Def(longer, m + 1)
    BY <2>4, Zenon
  <2>6. \E g : Def(g, m + 1)
    BY <2>5, Zenon
  <2> QED
    BY <2>6
<1>3. max_active \in S
  <2> HIDE DEF S
  <2> QED
    BY <1>1, <1>2, Induction, SchedulerAssumption
<1> DEFINE pass == CHOOSE f : Def(f, max_active)
<1>4. pump(w) = pass[max_active]
  BY DEF pump
<1>5. Def(pass, max_active)
  BY <1>3, Zenon
<1> HIDE DEF pass
<1>6. pass[0] = w /\ \A n \in 1 .. max_active : pass[n] = PumpRound(pass[n - 1])
  BY <1>5, SchedulerAssumption
<1> QED
  BY <1>4, <1>6

-----------------------------------------------------------------------------
(***************************************************************************)
(* Queues                                                                  *)
(***************************************************************************)

\* No job is in the queue s twice.
Distinct(s) == \A a, b \in 1 .. Len(s) : s[a] = s[b] => a = b

LEMMA TailOfQueue ==
    ASSUME NEW s \in Seq(Jobs), Distinct(s), s # << >>
    PROVE  /\ Head(s) \in Range(s)
           /\ Tail(s) \in Seq(Jobs) /\ Distinct(Tail(s))
           /\ Range(Tail(s)) = Range(s) \ {Head(s)}
<1>1. Len(s) \in Nat \ {0} /\ DOMAIN s = 1 .. Len(s) /\ Head(s) = s[1]
  OBVIOUS
<1>2. /\ Tail(s) \in Seq(Jobs) /\ Len(Tail(s)) = Len(s) - 1
      /\ DOMAIN Tail(s) = 1 .. Len(s) - 1
      /\ \A a \in 1 .. Len(s) - 1 : Tail(s)[a] = s[a + 1]
  OBVIOUS
<1>3. Distinct(Tail(s))
  BY <1>1, <1>2 DEF Distinct
<1>4. Range(Tail(s)) \subseteq Range(s) \ {Head(s)}
  BY <1>1, <1>2 DEF Distinct, Range
<1>5. ASSUME NEW x \in Range(s), x # Head(s)
      PROVE  x \in Range(Tail(s))
  <2>1. PICK a \in 1 .. Len(s) : x = s[a]
    BY <1>1 DEF Range
  <2>2. a - 1 \in 1 .. Len(s) - 1 /\ Tail(s)[a - 1] = s[a]
    BY <1>1, <1>2, <1>5, <2>1
  <2> QED
    BY <1>2, <2>1, <2>2, Zenon DEF Range
<1>6. Head(s) \in Range(s)
  BY <1>1 DEF Range
<1> QED
  BY <1>2, <1>3, <1>4, <1>5, <1>6

LEMMA AppendToQueue ==
    ASSUME NEW s \in Seq(Jobs), Distinct(s), NEW x \in Jobs, x \notin Range(s)
    PROVE  /\ Append(s, x) \in Seq(Jobs) /\ Distinct(Append(s, x))
           /\ Range(Append(s, x)) = Range(s) \cup {x}
<1> DEFINE t == Append(s, x)
<1>1. /\ t \in Seq(Jobs) /\ Len(t) = Len(s) + 1 /\ Len(s) \in Nat
      /\ DOMAIN s = 1 .. Len(s) /\ DOMAIN t = 1 .. Len(s) + 1
      /\ \A a \in 1 .. Len(s) : t[a] = s[a]
      /\ t[Len(s) + 1] = x
  OBVIOUS
<1> HIDE DEF t
<1>2. \A a \in 1 .. Len(s) : s[a] # x
  BY <1>1 DEF Range
<1>3. Distinct(t)
  BY <1>1, <1>2 DEF Distinct
<1>4. Range(t) \subseteq Range(s) \cup {x}
  BY <1>1 DEF Range
<1>5. Range(s) \subseteq Range(t)
  BY <1>1 DEF Range
<1>6. x \in Range(t)
  BY <1>1 DEF Range
<1> QED
  BY <1>1, <1>3, <1>4, <1>5, <1>6 DEF t

\* A queue is as long as its jobs are many.
LEMMA LengthOfQueue ==
    ASSUME NEW s \in Seq(Jobs), Distinct(s)
    PROVE  IsFiniteSet(Range(s)) /\ Cardinality(Range(s)) = Len(s)
<1> DEFINE f == [i \in 1 .. Len(s) |-> s[i]]
<1>1. Len(s) \in Nat /\ DOMAIN s = 1 .. Len(s)
  OBVIOUS
<1>2. f \in Bijection(1 .. Len(s), Range(s))
  <2>1. f \in [1 .. Len(s) -> Range(s)]
    BY <1>1 DEF Range
  <2>2. \A a, b \in 1 .. Len(s) : f[a] = f[b] => a = b
    BY <1>1 DEF Distinct
  <2>3. \A x \in Range(s) : \E a \in 1 .. Len(s) : f[a] = x
    BY <1>1 DEF Range
  <2> HIDE DEF f
  <2>4. f \in Injection(1 .. Len(s), Range(s))
    BY <2>1, <2>2 DEF Injection, IsInjective
  <2>5. f \in Surjection(1 .. Len(s), Range(s))
    BY <2>1, <2>3 DEF Surjection
  <2> QED
    BY <2>4, <2>5 DEF Bijection
<1>3. ExistsBijection(1 .. Len(s), Range(s))
  BY <1>2 DEF ExistsBijection
<1> QED
  BY <1>1, <1>3, FS_CountingElements, FS_NatBijection

\* Splicing out the jobs of js keeps the others, each once.
LEMMA WithoutKeeps ==
    ASSUME NEW s \in Seq(Jobs), Distinct(s), NEW js
    PROVE  /\ Without(s, js) \in Seq(Jobs) /\ Distinct(Without(s, js))
           /\ Range(Without(s, js)) = Range(s) \ js
<1>0. Len(s) \in Nat /\ DOMAIN s = 1 .. Len(s) /\ s \in [1 .. Len(s) -> Jobs]
  OBVIOUS
<1> DEFINE Step(f, n) == IF n = 0 THEN << >>
                         ELSE IF s[n] \in js THEN f[n - 1] ELSE Append(f[n - 1], s[n])
           Def(f, m) == f = [n \in 0 .. m |-> Step(f, n)]
           S == {m \in Nat : \E f : Def(f, m)}
<1>s. \A f : Step(f, 0) = << >>
  OBVIOUS
<1>t. \A f, n : n # 0 => Step(f, n) = IF s[n] \in js THEN f[n - 1]
                                      ELSE Append(f[n - 1], s[n])
  OBVIOUS
<1>u. ASSUME NEW f, NEW g, NEW n, n # 0 => f[n - 1] = g[n - 1]
      PROVE  Step(f, n) = Step(g, n)
  BY <1>u
<1>v. Without(s, js) = (CHOOSE f : Def(f, Len(s)))[Len(s)]
  BY DEF Without
<1> HIDE DEF Step
<1>1. 0 \in S
  <2> DEFINE first == [n \in 0 .. 0 |-> << >>]
  <2>1. Def(first, 0)
    BY <1>s
  <2>2. \E f : Def(f, 0)
    BY <2>1
  <2> QED
    BY <2>2
<1>2. ASSUME NEW m \in Nat, m \in S
      PROVE  m + 1 \in S
  <2>1. PICK f : Def(f, m)
    BY <1>2
  <2> DEFINE longer == [n \in 0 .. m + 1 |-> Step(f, n)]
  <2>2. ASSUME NEW n \in 0 .. m PROVE longer[n] = f[n]
    BY <2>1
  <2>3. ASSUME NEW n \in 0 .. m + 1, n # 0 PROVE longer[n - 1] = f[n - 1]
    <3>1. n - 1 \in 0 .. m
      BY <2>3
    <3> QED
      BY <2>2, <3>1, Zenon
  <2>4. ASSUME NEW n \in 0 .. m + 1
        PROVE  Step(f, n) = Step(longer, n)
    <3>1. n # 0 => f[n - 1] = longer[n - 1]
      BY <2>3
    <3> HIDE DEF longer
    <3> QED
      BY <1>u, <3>1
  <2>5. Def(longer, m + 1)
    BY <2>4
  <2>6. \E g : Def(g, m + 1)
    BY <2>5, Zenon
  <2> QED
    BY <2>6
<1>3. Len(s) \in S
  <2> HIDE DEF S
  <2> QED
    BY <1>0, <1>1, <1>2, Induction
<1> DEFINE kept == CHOOSE f : Def(f, Len(s))
<1>4. Without(s, js) = kept[Len(s)]
  BY <1>v
<1>5. Def(kept, Len(s))
  BY <1>3
<1> HIDE DEF kept
<1>6. /\ kept[0] = << >>
      /\ \A n \in 1 .. Len(s) : kept[n] = IF s[n] \in js THEN kept[n - 1]
                                          ELSE Append(kept[n - 1], s[n])
  <2>1. \A n \in 0 .. Len(s) : kept[n] = Step(kept, n)
    BY <1>5
  <2>2. kept[0] = << >>
    BY <1>0, <1>s, <2>1
  <2>3. ASSUME NEW n \in 1 .. Len(s)
        PROVE  kept[n] = IF s[n] \in js THEN kept[n - 1]
                         ELSE Append(kept[n - 1], s[n])
    <3>1. n \in 0 .. Len(s) /\ n # 0
      BY <1>0
    <3>2. kept[n] = Step(kept, n)
      BY <2>1, <3>1
    <3> QED
      BY <1>t, <3>1, <3>2
  <2> QED
    BY <2>2, <2>3
<1> HIDE DEF Def, S
<1> DEFINE Good(n) == /\ kept[n] \in Seq(Jobs) /\ Distinct(kept[n])
                      /\ Range(kept[n]) = {s[i] : i \in 1 .. n} \ js
           G == {n \in Nat : n \in 0 .. Len(s) => Good(n)}
<1>7. 0 \in G
  <2>1. << >> \in Seq(Jobs) /\ Distinct(<< >>) /\ Range(<< >>) = {}
    BY DEF Distinct, Range
  <2>2. Good(0)
    BY <1>6, <2>1
  <2> QED
    BY <2>2
<1>8. ASSUME NEW n \in Nat, n \in G
      PROVE  n + 1 \in G
  <2> SUFFICES ASSUME n + 1 \in 0 .. Len(s) PROVE Good(n + 1)
    OBVIOUS
  <2>1. n \in 0 .. Len(s) /\ n + 1 \in 1 .. Len(s) /\ (n + 1) - 1 = n
    BY <1>0
  <2>2. Good(n)
    BY <1>8, <2>1
  <2>3. {s[i] : i \in 1 .. n + 1} = {s[i] : i \in 1 .. n} \cup {s[n + 1]}
    OBVIOUS
  <2>4. s[n + 1] \in Jobs /\ s[n + 1] \notin {s[i] : i \in 1 .. n}
    BY <1>0, <2>1 DEF Distinct
  <2>5. CASE s[n + 1] \in js
    <3>1. kept[n + 1] = kept[n]
      BY <1>6, <2>1, <2>5
    <3> QED
      BY <2>2, <2>3, <2>5, <3>1
  <2>6. CASE s[n + 1] \notin js
    <3>1. kept[n + 1] = Append(kept[n], s[n + 1])
      BY <1>6, <2>1, <2>6, Zenon
    <3>2. s[n + 1] \notin Range(kept[n])
      BY <2>2, <2>4
    <3>3. /\ kept[n + 1] \in Seq(Jobs) /\ Distinct(kept[n + 1])
          /\ Range(kept[n + 1]) = Range(kept[n]) \cup {s[n + 1]}
      BY <2>2, <2>4, <3>1, <3>2, AppendToQueue
    <3> QED
      BY <2>2, <2>3, <2>6, <3>3
  <2> QED
    BY <2>5, <2>6
<1>9. Len(s) \in G
  <2> HIDE DEF G
  <2> QED
    BY <1>0, <1>7, <1>8, Induction
<1>10. Good(Len(s))
  BY <1>0, <1>9
<1>11. Range(s) = {s[i] : i \in 1 .. Len(s)}
  BY <1>0 DEF Range
<1> QED
  BY <1>4, <1>10, <1>11

-----------------------------------------------------------------------------
(***************************************************************************)
(* pump                                                                    *)
(***************************************************************************)

WorkType == [queues: [Pools -> Seq(Jobs)], poolActive: [Pools -> Nat],
             phase: [Jobs -> Phases]]
ActiveIn(w, p) == {j \in Jobs : PoolOf[j] = p /\ w.phase[j] \in Active}
QueuedIn(w, p) == {j \in Jobs : PoolOf[j] = p /\ w.phase[j] = "queued"}

\* The counters and the queues agree with the phases, within the limits.
SoundPool(w, p) ==
    /\ IsFiniteSet(ActiveIn(w, p))
    /\ w.poolActive[p] = Cardinality(ActiveIn(w, p))
    /\ w.poolActive[p] <= pool_concurrency[p]
    /\ Distinct(w.queues[p])
    /\ Range(w.queues[p]) = QueuedIn(w, p)

Sound(w) ==
    /\ w \in WorkType
    /\ \A p \in Pools : SoundPool(w, p)
    /\ ActiveCount(w) <= max_active

LEMMA WorkTypes ==
    ASSUME NEW w \in WorkType
    PROVE  /\ w.queues \in [Pools -> Seq(Jobs)]
           /\ w.poolActive \in [Pools -> Nat]
           /\ w.phase \in [Jobs -> Phases]
           /\ \A p \in Pools : w.queues[p] \in Seq(Jobs) /\ w.poolActive[p] \in Nat
           /\ ActiveCount(w) \in Nat /\ Background(w) \in Nat
           /\ ActiveCount(w) = Background(w) + w.poolActive["query"]
<1>1. /\ w.queues \in [Pools -> Seq(Jobs)] /\ w.poolActive \in [Pools -> Nat]
      /\ w.phase \in [Jobs -> Phases]
  BY DEF WorkType
<1>2. \A p \in Pools : w.queues[p] \in Seq(Jobs) /\ w.poolActive[p] \in Nat
  BY <1>1
<1>3. /\ w.poolActive["query"] \in Nat /\ w.poolActive["source"] \in Nat
      /\ w.poolActive["structural"] \in Nat /\ w.poolActive["semantic"] \in Nat
  BY <1>2 DEF Pools
<1>4. /\ ActiveCount(w) \in Nat /\ Background(w) \in Nat
      /\ ActiveCount(w) = Background(w) + w.poolActive["query"]
  BY <1>3 DEF ActiveCount, Background
<1> QED
  BY <1>1, <1>2, <1>4

\* The sum of the pools' counters, when one of them changes.
LEMMA CountOfPools ==
    ASSUME NEW w \in WorkType, NEW v \in WorkType, NEW p \in Pools, NEW d \in {1, -1},
           v.poolActive[p] = w.poolActive[p] + d,
           \A q \in Pools \ {p} : v.poolActive[q] = w.poolActive[q]
    PROVE  /\ ActiveCount(v) = ActiveCount(w) + d
           /\ p = "query" => Background(v) = Background(w)
           /\ p # "query" => Background(v) = Background(w) + d
<1>1. \A q \in Pools : w.poolActive[q] \in Nat /\ v.poolActive[q] \in Nat
  BY WorkTypes
<1>2. /\ w.poolActive["query"] \in Nat /\ w.poolActive["source"] \in Nat
      /\ w.poolActive["structural"] \in Nat /\ w.poolActive["semantic"] \in Nat
      /\ v.poolActive["query"] \in Nat /\ v.poolActive["source"] \in Nat
      /\ v.poolActive["structural"] \in Nat /\ v.poolActive["semantic"] \in Nat
  BY <1>1 DEF Pools
<1> QED
  BY <1>2 DEF Pools, ActiveCount, Background

\* What the start of the job h of pool p changes.
Starts(w, p, h, v) ==
    /\ h \in Jobs /\ PoolOf[h] = p /\ w.phase[h] = "queued"
    /\ v \in WorkType
    /\ v.phase = [w.phase EXCEPT ![h] = "running"]
    /\ v.poolActive = [w.poolActive EXCEPT ![p] = @ + 1]
    /\ v.queues = [w.queues EXCEPT ![p] = Tail(@)]
    /\ ActiveCount(v) = ActiveCount(w) + 1
    /\ p = "query" => Background(v) = Background(w)
    /\ p # "query" => Background(v) = Background(w) + 1

LEMMA StartOneStarts ==
    ASSUME NEW w, Sound(w), NEW p \in Pools, MayStart(w, p)
    PROVE  Starts(w, p, Head(w.queues[p]), StartOne(w, p))
<1> DEFINE h == Head(w.queues[p])
           v == StartOne(w, p)
<1>1. w \in WorkType /\ SoundPool(w, p)
  BY DEF Sound
<1>2. /\ w.queues \in [Pools -> Seq(Jobs)] /\ w.poolActive \in [Pools -> Nat]
      /\ w.phase \in [Jobs -> Phases]
  BY <1>1, WorkTypes
<1>3. w.queues[p] \in Seq(Jobs) /\ w.queues[p] # << >> /\ Distinct(w.queues[p])
  BY <1>1, <1>2 DEF MayStart, SoundPool
<1>4. h \in Range(w.queues[p]) /\ Tail(w.queues[p]) \in Seq(Jobs)
  BY <1>3, TailOfQueue
<1>5. h \in Jobs /\ PoolOf[h] = p /\ w.phase[h] = "queued"
  BY <1>1, <1>4 DEF SoundPool, QueuedIn
<1>6. v = [queues     |-> [w.queues EXCEPT ![p] = Tail(@)],
           poolActive |-> [w.poolActive EXCEPT ![p] = @ + 1],
           phase      |-> [w.phase EXCEPT ![h] = "running"]]
  BY DEF StartOne
<1>7. /\ v.phase = [w.phase EXCEPT ![h] = "running"]
      /\ v.poolActive = [w.poolActive EXCEPT ![p] = @ + 1]
      /\ v.queues = [w.queues EXCEPT ![p] = Tail(@)]
  BY <1>6
<1>8. v \in WorkType
  <2>1. [w.queues EXCEPT ![p] = Tail(@)] \in [Pools -> Seq(Jobs)]
    BY <1>2, <1>4
  <2>2. [w.poolActive EXCEPT ![p] = @ + 1] \in [Pools -> Nat]
    BY <1>2
  <2>3. [w.phase EXCEPT ![h] = "running"] \in [Jobs -> Phases]
    BY <1>2, Zenon DEF Phases
  <2> QED
    BY <1>6, <2>1, <2>2, <2>3 DEF WorkType
<1>9. /\ v.poolActive[p] = w.poolActive[p] + 1
      /\ \A q \in Pools \ {p} : v.poolActive[q] = w.poolActive[q]
  BY <1>2, <1>7
<1>10. /\ ActiveCount(v) = ActiveCount(w) + 1
       /\ p = "query" => Background(v) = Background(w)
       /\ p # "query" => Background(v) = Background(w) + 1
  BY <1>1, <1>8, <1>9, CountOfPools
<1> HIDE DEF h, v
<1>11. Starts(w, p, h, v)
  BY <1>5, <1>7, <1>8, <1>10 DEF Starts
<1> QED
  BY <1>11 DEF h, v

LEMMA StartOneSound ==
    ASSUME NEW w, Sound(w), NEW p \in Pools
    PROVE  Sound(StartOne(w, p))
<1> SUFFICES ASSUME MayStart(w, p) PROVE Sound(StartOne(w, p))
  BY DEF StartOne
<1> DEFINE v == StartOne(w, p)
           h == Head(w.queues[p])
<1>1. /\ h \in Jobs /\ PoolOf[h] = p /\ w.phase[h] = "queued"
      /\ v \in WorkType
      /\ v.phase = [w.phase EXCEPT ![h] = "running"]
      /\ v.poolActive = [w.poolActive EXCEPT ![p] = @ + 1]
      /\ v.queues = [w.queues EXCEPT ![p] = Tail(@)]
      /\ ActiveCount(v) = ActiveCount(w) + 1
  <2>1. Starts(w, p, h, v)
    BY StartOneStarts
  <2> HIDE DEF h, v
  <2> QED
    BY <2>1 DEF Starts
<1>2. w \in WorkType /\ \A q \in Pools : SoundPool(w, q)
  BY DEF Sound
<1>3. /\ w.queues \in [Pools -> Seq(Jobs)] /\ w.poolActive \in [Pools -> Nat]
      /\ w.phase \in [Jobs -> Phases] /\ ActiveCount(w) \in Nat
  BY <1>2, WorkTypes
<1>4. /\ ActiveCount(w) < max_active /\ w.poolActive[p] < pool_concurrency[p]
      /\ w.queues[p] # << >>
  BY DEF MayStart
<1> HIDE DEF v, h
<1>5. ASSUME NEW q \in Pools PROVE SoundPool(v, q)
  <2>1. CASE q # p
    <3>1. ActiveIn(v, q) = ActiveIn(w, q) /\ QueuedIn(v, q) = QueuedIn(w, q)
      BY <1>1, <1>3, <2>1 DEF ActiveIn, QueuedIn
    <3>2. v.queues[q] = w.queues[q] /\ v.poolActive[q] = w.poolActive[q]
      BY <1>1, <1>3, <2>1
    <3> QED
      BY <1>2, <3>1, <3>2 DEF SoundPool
  <2>2. CASE q = p
    <3>1. ActiveIn(v, p) = ActiveIn(w, p) \cup {h} /\ h \notin ActiveIn(w, p)
      BY <1>1, <1>3 DEF ActiveIn, Active
    <3>2. QueuedIn(v, p) = QueuedIn(w, p) \ {h}
      BY <1>1, <1>3 DEF QueuedIn
    <3>3. SoundPool(w, p)
      BY <1>2
    <3>4. /\ IsFiniteSet(ActiveIn(v, p))
          /\ Cardinality(ActiveIn(v, p)) = Cardinality(ActiveIn(w, p)) + 1
      BY <3>1, <3>3, FS_AddElement DEF SoundPool
    <3>5. v.poolActive[p] = w.poolActive[p] + 1 /\ v.queues[p] = Tail(w.queues[p])
      BY <1>1, <1>3
    <3>6. v.poolActive[p] <= pool_concurrency[p]
      <4>1. w.poolActive[p] \in Nat /\ pool_concurrency[p] \in Nat
        BY <1>3, SchedulerAssumption
      <4> QED
        BY <1>4, <3>5, <4>1
    <3>7. w.queues[p] \in Seq(Jobs) /\ Distinct(w.queues[p])
      BY <1>3, <3>3 DEF SoundPool
    <3>8. Distinct(v.queues[p]) /\ Range(v.queues[p]) = Range(w.queues[p]) \ {h}
      BY <1>4, <3>5, <3>7, TailOfQueue DEF h
    <3> QED
      BY <2>2, <3>2, <3>3, <3>4, <3>5, <3>6, <3>8 DEF SoundPool
  <2> QED
    BY <2>1, <2>2
<1>6. ActiveCount(v) <= max_active
  BY <1>1, <1>3, <1>4, SchedulerAssumption
<1>7. Sound(v)
  BY <1>1, <1>5, <1>6 DEF Sound
<1> QED
  BY <1>7 DEF v

\* Of a work w and what the loop has made of it: jobs have only been started,
\* and background jobs only while the reserve was left.
Pumped(w, v) ==
    /\ Sound(v)
    /\ \A j \in Jobs : \/ v.phase[j] = w.phase[j]
                       \/ w.phase[j] = "queued" /\ v.phase[j] = "running"
    /\ v.poolActive["query"] >= w.poolActive["query"]
    /\ Background(v) >= Background(w)
    /\ Background(v) > Background(w) /\ v.queues["query"] # << >>
         => Background(v) + w.poolActive["query"] + query_reserved_slots <= max_active

LEMMA PumpedRefl ==
    ASSUME NEW w, Sound(w)
    PROVE  Pumped(w, w)
<1>1. w \in WorkType
  BY DEF Sound
<1>2. w.poolActive["query"] \in Nat /\ Background(w) \in Nat
  BY <1>1, WorkTypes DEF Pools
<1> QED
  BY <1>2 DEF Pumped

LEMMA PumpedStartOne ==
    ASSUME NEW w, Sound(w), NEW v, Pumped(w, v), NEW p \in Pools
    PROVE  Pumped(w, StartOne(v, p))
<1> SUFFICES ASSUME MayStart(v, p) PROVE Pumped(w, StartOne(v, p))
  BY DEF StartOne
<1> DEFINE u == StartOne(v, p)
           h == Head(v.queues[p])
<1>1. Sound(v)
  BY DEF Pumped
<1>2. /\ h \in Jobs /\ PoolOf[h] = p /\ v.phase[h] = "queued"
      /\ u \in WorkType
      /\ u.phase = [v.phase EXCEPT ![h] = "running"]
      /\ u.poolActive = [v.poolActive EXCEPT ![p] = @ + 1]
      /\ u.queues = [v.queues EXCEPT ![p] = Tail(@)]
      /\ p = "query" => Background(u) = Background(v)
      /\ p # "query" => Background(u) = Background(v) + 1
  <2>1. Starts(v, p, h, u)
    BY <1>1, StartOneStarts
  <2> HIDE DEF h, u
  <2> QED
    BY <2>1 DEF Starts
<1>3. Sound(u)
  BY <1>1, StartOneSound
<1> HIDE DEF u, h
<1>4. w \in WorkType /\ v \in WorkType
  BY <1>1 DEF Sound
<1>5. /\ v.queues \in [Pools -> Seq(Jobs)] /\ v.poolActive \in [Pools -> Nat]
      /\ v.phase \in [Jobs -> Phases] /\ w.phase \in [Jobs -> Phases]
      /\ Background(v) \in Nat /\ Background(w) \in Nat /\ ActiveCount(v) \in Nat
      /\ ActiveCount(v) = Background(v) + v.poolActive["query"]
  BY <1>4, WorkTypes
<1>6. w.poolActive["query"] \in Nat /\ v.poolActive["query"] \in Nat
  BY <1>4, WorkTypes DEF Pools
<1>7. query_reserved_slots \in Nat /\ max_active \in Nat
  BY SchedulerAssumption
<1>8. ASSUME NEW j \in Jobs
      PROVE  \/ u.phase[j] = w.phase[j]
             \/ w.phase[j] = "queued" /\ u.phase[j] = "running"
  <2>1. \/ v.phase[j] = w.phase[j]
        \/ w.phase[j] = "queued" /\ v.phase[j] = "running"
    BY DEF Pumped
  <2> QED
    BY <1>2, <1>5, <2>1
<1>9. u.poolActive["query"] >= v.poolActive["query"]
  BY <1>2, <1>5, <1>6 DEF Pools
<1>10. Background(u) >= Background(v)
  BY <1>2, <1>5
<1>11. u.poolActive["query"] \in Nat /\ Background(u) \in Nat
  BY <1>2, WorkTypes DEF Pools
<1>12. /\ u.poolActive["query"] >= w.poolActive["query"]
       /\ Background(u) >= Background(w)
  BY <1>5, <1>6, <1>9, <1>10, <1>11 DEF Pumped
<1>13. ASSUME Background(u) > Background(w), u.queues["query"] # << >>
       PROVE  Background(u) + w.poolActive["query"] + query_reserved_slots <= max_active
  <2>1. CASE p = "query"
    <3>1. Background(v) > Background(w)
      BY <1>2, <1>13, <2>1
    <3>2. v.queues["query"] # << >>
      BY <2>1 DEF MayStart
    <3>3. Background(v) + w.poolActive["query"] + query_reserved_slots <= max_active
      BY <3>1, <3>2 DEF Pumped
    <3> QED
      BY <1>2, <2>1, <3>3
  <2>2. CASE p # "query"
    <3>1. u.queues["query"] = v.queues["query"]
      BY <1>2, <1>5, <2>2 DEF Pools
    <3>2. ActiveCount(v) + query_reserved_slots < max_active
      BY <1>13, <2>2, <3>1 DEF MayStart
    <3>3. v.poolActive["query"] >= w.poolActive["query"]
      BY DEF Pumped
    <3>4. Background(u) = Background(v) + 1
      BY <1>2, <2>2
    <3> DEFINE bu == Background(u)
               bv == Background(v)
               qv == v.poolActive["query"]
               qw == w.poolActive["query"]
               n  == ActiveCount(v)
    <3>5. /\ bu = bv + 1 /\ n = bv + qv /\ qv >= qw /\ n + query_reserved_slots < max_active
          /\ bv \in Nat /\ qv \in Nat /\ qw \in Nat
      BY <1>5, <1>6, <3>2, <3>3, <3>4
    <3> HIDE DEF bu, bv, qv, qw, n
    <3>6. bu + qw + query_reserved_slots <= max_active
      BY <1>7, <3>5
    <3> QED
      BY <3>6 DEF bu, qw
  <2> QED
    BY <2>1, <2>2
<1>14. Pumped(w, u)
  BY <1>3, <1>8, <1>12, <1>13 DEF Pumped
<1> QED
  BY <1>14 DEF u

\* A pass is one StartOne for each pool.
LEMMA RoundUnfolds ==
    ASSUME NEW w
    PROVE  PumpRound(w) = StartOne(StartOne(StartOne(StartOne(w, "query"), "source"),
                                            "structural"), "semantic")
<1>1. ASSUME NEW x, NEW p PROVE Started({x}, p) = {StartOne(x, p)}
  BY DEF Started
<1> DEFINE a == StartOne(w, "query")
           b == StartOne(a, "source")
           c == StartOne(b, "structural")
           d == StartOne(c, "semantic")
<1>2. Started({w}, "query") = {a}
  BY <1>1
<1>3. Started({a}, "source") = {b}
  BY <1>1
<1>4. Started({b}, "structural") = {c}
  BY <1>1
<1>5. Started({c}, "semantic") = {d}
  BY <1>1
<1>6. PumpRound(w) = CHOOSE r \in {d} : TRUE
  <2> HIDE DEF a, b, c, d
  <2> QED
    BY <1>2, <1>3, <1>4, <1>5, Zenon DEF PumpRound
<1>7. \A x : (CHOOSE r \in {x} : TRUE) = x
  OBVIOUS
<1> QED
  BY <1>6, <1>7

LEMMA PumpedRound ==
    ASSUME NEW w, Sound(w), NEW v, Pumped(w, v)
    PROVE  Pumped(w, PumpRound(v))
<1> DEFINE a == StartOne(v, "query")
           b == StartOne(a, "source")
           c == StartOne(b, "structural")
           d == StartOne(c, "semantic")
<1>1. Pumped(w, a)
  BY PumpedStartOne DEF Pools
<1> HIDE DEF a
<1>2. Pumped(w, b)
  BY <1>1, PumpedStartOne DEF Pools
<1> HIDE DEF b
<1>3. Pumped(w, c)
  BY <1>2, PumpedStartOne DEF Pools
<1> HIDE DEF c
<1>4. Pumped(w, d)
  BY <1>3, PumpedStartOne DEF Pools
<1>5. PumpRound(v) = d
  BY RoundUnfolds DEF a, b, c
<1> QED
  BY <1>4, <1>5

\* A StartOne that changes anything has started a job.
LEMMA StartOneCounts ==
    ASSUME NEW w, Sound(w), NEW p \in Pools
    PROVE  /\ Sound(StartOne(w, p))
           /\ ActiveCount(w) \in Nat
           /\ \/ ActiveCount(StartOne(w, p)) = ActiveCount(w) + 1
              \/ StartOne(w, p) = w /\ ~MayStart(w, p)
<1>1. ActiveCount(w) \in Nat
  BY WorkTypes DEF Sound
<1>2. MayStart(w, p) => ActiveCount(StartOne(w, p)) = ActiveCount(w) + 1
  BY StartOneStarts, Zenon DEF Starts
<1>3. ~MayStart(w, p) => StartOne(w, p) = w
  BY DEF StartOne
<1> QED
  BY <1>1, <1>2, <1>3, StartOneSound

\* A pass starts a job, or there is none to start.
LEMMA RoundProgress ==
    ASSUME NEW w, Sound(w)
    PROVE  /\ Sound(PumpRound(w)) /\ ActiveCount(w) \in Nat
           /\ \/ ActiveCount(PumpRound(w)) >= ActiveCount(w) + 1
              \/ PumpRound(w) = w /\ \A p \in Pools : ~MayStart(w, p)
<1> DEFINE a == StartOne(w, "query")
           b == StartOne(a, "source")
           c == StartOne(b, "structural")
           d == StartOne(c, "semantic")
<1>1. /\ Sound(a) /\ ActiveCount(w) \in Nat
      /\ ActiveCount(a) = ActiveCount(w) + 1 \/ (a = w /\ ~MayStart(w, "query"))
  BY StartOneCounts DEF Pools
<1> HIDE DEF a
<1>2. /\ Sound(b) /\ ActiveCount(a) \in Nat
      /\ ActiveCount(b) = ActiveCount(a) + 1 \/ (b = a /\ ~MayStart(a, "source"))
  BY <1>1, StartOneCounts DEF Pools
<1> HIDE DEF b
<1>3. /\ Sound(c) /\ ActiveCount(b) \in Nat
      /\ ActiveCount(c) = ActiveCount(b) + 1 \/ (c = b /\ ~MayStart(b, "structural"))
  BY <1>2, StartOneCounts DEF Pools
<1> HIDE DEF c
<1>4. /\ Sound(d) /\ ActiveCount(c) \in Nat
      /\ ActiveCount(d) = ActiveCount(c) + 1 \/ (d = c /\ ~MayStart(c, "semantic"))
  BY <1>3, StartOneCounts DEF Pools
<1> HIDE DEF d
<1>5. PumpRound(w) = d
  BY RoundUnfolds DEF a, b, c, d
<1>6. \/ ActiveCount(d) >= ActiveCount(w) + 1
      \/ d = w /\ a = w /\ b = w /\ c = w
  BY <1>1, <1>2, <1>3, <1>4
<1>7. CASE ActiveCount(d) >= ActiveCount(w) + 1
  BY <1>1, <1>4, <1>5, <1>7
<1>8. CASE d = w /\ a = w /\ b = w /\ c = w
  <2>1. ActiveCount(w) # ActiveCount(w) + 1
    BY <1>1
  <2>2. /\ ~MayStart(w, "query") /\ ~MayStart(w, "source")
        /\ ~MayStart(w, "structural") /\ ~MayStart(w, "semantic")
    BY <1>1, <1>2, <1>3, <1>4, <1>8, <2>1
  <2> QED
    BY <1>1, <1>5, <1>8, <2>2 DEF Pools
<1> QED
  BY <1>6, <1>7, <1>8

\* What pump leaves: a sound work, in which no job can be started.
LEMMA PumpWorks ==
    ASSUME NEW w, Sound(w)
    PROVE  /\ Pumped(w, pump(w))
           /\ \A p \in Pools : ~MayStart(pump(w), p)
<1>1. PICK pass : /\ pump(w) = pass[max_active]
                  /\ pass[0] = w
                  /\ \A n \in 1 .. max_active : pass[n] = PumpRound(pass[n - 1])
  BY PumpUnfolds
<1> DEFINE Idle(v) == PumpRound(v) = v /\ \A p \in Pools : ~MayStart(v, p)
           Good(n) == /\ Pumped(w, pass[n])
                      /\ ActiveCount(pass[n]) >= n \/ Idle(pass[n])
           G == {n \in Nat : n \in 0 .. max_active => Good(n)}
<1>2. 0 \in G
  <2>1. ActiveCount(w) \in Nat
    BY RoundProgress
  <2>2. Good(0)
    BY <1>1, <2>1, PumpedRefl
  <2> QED
    BY <2>2
<1>3. ASSUME NEW n \in Nat, n \in G
      PROVE  n + 1 \in G
  <2> SUFFICES ASSUME n + 1 \in 0 .. max_active PROVE Good(n + 1)
    OBVIOUS
  <2>1. n \in 0 .. max_active /\ n + 1 \in 1 .. max_active /\ (n + 1) - 1 = n
    BY SchedulerAssumption
  <2>2. Good(n)
    BY <1>3, <2>1
  <2>3. pass[n + 1] = PumpRound(pass[n])
    BY <1>1, <2>1
  <2>4. Pumped(w, pass[n + 1])
    BY <2>2, <2>3, PumpedRound
  <2>5. Sound(pass[n])
    BY <2>2 DEF Pumped
  <2>6. CASE Idle(pass[n])
    BY <2>3, <2>4, <2>6
  <2>7. CASE ~Idle(pass[n])
    <3>1. ActiveCount(pass[n]) >= n
      BY <2>2, <2>7
    <3>2. /\ ActiveCount(pass[n]) \in Nat /\ Sound(pass[n + 1])
          /\ ActiveCount(pass[n + 1]) >= ActiveCount(pass[n]) + 1
      BY <2>3, <2>5, <2>7, RoundProgress
    <3>3. ActiveCount(pass[n + 1]) \in Nat
      BY <3>2, RoundProgress
    <3>4. ActiveCount(pass[n + 1]) >= n + 1
      BY <3>1, <3>2, <3>3
    <3> QED
      BY <2>4, <3>4
  <2> QED
    BY <2>6, <2>7
<1>4. max_active \in G
  <2> HIDE DEF G
  <2> QED
    BY <1>2, <1>3, Induction, SchedulerAssumption
<1>5. Good(max_active)
  BY <1>4, SchedulerAssumption
<1>6. CASE ActiveCount(pump(w)) >= max_active
  <2>1. Sound(pump(w))
    BY <1>1, <1>5 DEF Pumped
  <2>2. ActiveCount(pump(w)) \in Nat
    BY <2>1, RoundProgress
  <2>3. ~(ActiveCount(pump(w)) < max_active)
    BY <1>6, <2>2, SchedulerAssumption
  <2> QED
    BY <1>1, <1>5, <2>3 DEF MayStart
<1>7. CASE Idle(pump(w))
  BY <1>1, <1>5, <1>7
<1> QED
  BY <1>1, <1>5, <1>6, <1>7

\* A work with a queued job, in which none can be started, has an active one.
LEMMA IdleIsBusy ==
    ASSUME NEW w, Sound(w), \A p \in Pools : ~MayStart(w, p),
           NEW j \in Jobs, w.phase[j] = "queued"
    PROVE  ActiveCount(w) > 0
<1> SUFFICES ASSUME ActiveCount(w) = 0 PROVE FALSE
  BY WorkTypes DEF Sound
<1>1. w \in WorkType
  BY DEF Sound
<1>2. \A p \in Pools : w.poolActive[p] = 0
  <2>1. \A p \in Pools : w.poolActive[p] \in Nat
    BY <1>1, WorkTypes
  <2>2. /\ w.poolActive["query"] \in Nat /\ w.poolActive["source"] \in Nat
        /\ w.poolActive["structural"] \in Nat /\ w.poolActive["semantic"] \in Nat
    BY <2>1 DEF Pools
  <2>3. w.poolActive["query"] + w.poolActive["source"]
          + w.poolActive["structural"] + w.poolActive["semantic"] = 0
    BY DEF ActiveCount
  <2>4. /\ w.poolActive["query"] = 0 /\ w.poolActive["source"] = 0
        /\ w.poolActive["structural"] = 0 /\ w.poolActive["semantic"] = 0
    <3> DEFINE a == w.poolActive["query"]
               b == w.poolActive["source"]
               c == w.poolActive["structural"]
               d == w.poolActive["semantic"]
    <3>1. a \in Nat /\ b \in Nat /\ c \in Nat /\ d \in Nat /\ a + b + c + d = 0
      BY <2>2, <2>3
    <3> HIDE DEF a, b, c, d
    <3>2. a = 0 /\ b = 0 /\ c = 0 /\ d = 0
      BY <3>1
    <3> QED
      BY <3>2 DEF a, b, c, d
  <2> QED
    BY <2>4 DEF Pools
<1>3. \A p \in Pools : 0 < max_active /\ w.poolActive[p] < pool_concurrency[p]
  BY <1>2, SchedulerAssumption
<1>4. w.queues["query"] = << >>
  <2>1. "query" \in Pools
    BY DEF Pools
  <2> QED
    BY <1>3, <2>1 DEF MayStart
<1>5. PoolOf[j] \in Pools
  BY SchedulerAssumption
<1>6. w.queues[PoolOf[j]] = << >>
  BY <1>3, <1>4, <1>5 DEF MayStart
<1>7. j \in Range(w.queues[PoolOf[j]])
  BY <1>5 DEF Sound, SoundPool, QueuedIn
<1> QED
  BY <1>6, <1>7 DEF Range

-----------------------------------------------------------------------------
(***************************************************************************)
(* What the methods hand to pump                                           *)
(***************************************************************************)

\* The record of a work, field by field.
WorkOf(q, a, f) == [queues |-> q, poolActive |-> a, phase |-> f]

LEMMA WorkFields ==
    ASSUME NEW w \in WorkType
    PROVE  w = WorkOf(w.queues, w.poolActive, w.phase)
  BY DEF WorkType, WorkOf

LEMMA WorkExcept ==
    ASSUME NEW q, NEW a, NEW f, NEW x
    PROVE  /\ [WorkOf(q, a, f) EXCEPT !.queues = x] = WorkOf(x, a, f)
           /\ [WorkOf(q, a, f) EXCEPT !.poolActive = x] = WorkOf(q, x, f)
           /\ [WorkOf(q, a, f) EXCEPT !.phase = x] = WorkOf(q, a, x)
           /\ WorkOf(q, a, f).queues = q
           /\ WorkOf(q, a, f).poolActive = a
           /\ WorkOf(q, a, f).phase = f
  BY DEF WorkOf

LEMMA CancelledSound ==
    ASSUME NEW w, Sound(w), NEW js, js \subseteq {j \in Jobs : w.phase[j] = "queued"}
    PROVE  /\ Sound(Cancelled(w, js))
           /\ Cancelled(w, js).poolActive = w.poolActive
           /\ Cancelled(w, js).phase
                = [j \in Jobs |-> IF j \in js THEN "settled" ELSE w.phase[j]]
<1> DEFINE v == Cancelled(w, js)
           qs == [p \in Pools |-> Without(w.queues[p], js)]
           ph == [j \in Jobs |-> IF j \in js THEN "settled" ELSE w.phase[j]]
<1>1. w \in WorkType /\ \A p \in Pools : SoundPool(w, p)
  BY DEF Sound
<1>2. /\ w.queues \in [Pools -> Seq(Jobs)] /\ w.poolActive \in [Pools -> Nat]
      /\ w.phase \in [Jobs -> Phases]
  BY <1>1 DEF WorkType
<1>3. v = WorkOf(qs, w.poolActive, ph)
  <2>1. w = WorkOf(w.queues, w.poolActive, w.phase)
    BY <1>1, WorkFields
  <2> DEFINE u == WorkOf(qs, w.poolActive, w.phase)
  <2>2. [w EXCEPT !.queues = qs] = u
    BY <2>1, WorkExcept
  <2>3. v = [u EXCEPT !.phase = [j \in Jobs |-> IF j \in js THEN "settled" ELSE u.phase[j]]]
    <3> HIDE DEF u
    <3>1. v = Settle(u, js)
      BY <2>2 DEF Cancelled
    <3> QED
      BY <3>1 DEF Settle
  <2>4. u.phase = w.phase
    BY WorkExcept
  <2>5. v = [u EXCEPT !.phase = ph]
    BY <2>3, <2>4
  <2> QED
    BY <2>5, WorkExcept
<1>4. v.queues = qs /\ v.poolActive = w.poolActive /\ v.phase = ph
  BY <1>3, WorkExcept
<1> HIDE DEF v
<1>5. ASSUME NEW p \in Pools
      PROVE  /\ qs[p] \in Seq(Jobs) /\ Distinct(qs[p])
             /\ Range(qs[p]) = Range(w.queues[p]) \ js
  <2>1. w.queues[p] \in Seq(Jobs) /\ Distinct(w.queues[p])
    BY <1>1, <1>2 DEF SoundPool
  <2> QED
    BY <2>1, WithoutKeeps
<1>6. v \in WorkType
  <2>1. qs \in [Pools -> Seq(Jobs)]
    BY <1>5
  <2>2. ph \in [Jobs -> Phases]
    BY <1>2 DEF Phases
  <2> QED
    BY <1>2, <1>3, <2>1, <2>2 DEF WorkType, WorkOf
<1>7. ASSUME NEW p \in Pools PROVE SoundPool(v, p)
  <2>1. ActiveIn(v, p) = ActiveIn(w, p)
    BY <1>4 DEF ActiveIn, Active
  <2>2. QueuedIn(v, p) = QueuedIn(w, p) \ js
    BY <1>4 DEF QueuedIn
  <2> HIDE DEF qs, ph
  <2> QED
    BY <1>1, <1>4, <1>5, <2>1, <2>2 DEF SoundPool
<1>8. ActiveCount(v) <= max_active
  BY <1>4 DEF ActiveCount, Sound
<1>9. Sound(v)
  BY <1>6, <1>7, <1>8 DEF Sound
<1> QED
  BY <1>4, <1>9 DEF v

LEMMA EnqueuedSound ==
    ASSUME Sound(work), NEW j \in Jobs, work.phase[j] = "new"
    PROVE  /\ Sound(Enqueued(j))
           /\ Enqueued(j).poolActive = work.poolActive
           /\ Enqueued(j).phase = [work.phase EXCEPT ![j] = "queued"]
<1> DEFINE v == Enqueued(j)
           p == PoolOf[j]
           qs == [work.queues EXCEPT ![p] = Append(@, j)]
           ph == [work.phase EXCEPT ![j] = "queued"]
<1>1. work \in WorkType /\ \A q \in Pools : SoundPool(work, q)
  BY DEF Sound
<1>2. /\ work.queues \in [Pools -> Seq(Jobs)] /\ work.poolActive \in [Pools -> Nat]
      /\ work.phase \in [Jobs -> Phases]
  BY <1>1 DEF WorkType
<1>3. p \in Pools
  BY SchedulerAssumption
<1>4. v = WorkOf(qs, work.poolActive, ph)
  <2>1. work = WorkOf(work.queues, work.poolActive, work.phase)
    BY <1>1, WorkFields
  <2> DEFINE u == WorkOf(qs, work.poolActive, work.phase)
  <2>2. v = [[work EXCEPT !.queues = qs] EXCEPT !.phase = ph]
    BY <1>1 DEF Enqueued, WorkType
  <2> HIDE DEF v, qs, ph
  <2>3. [work EXCEPT !.queues = qs] = u
    BY <2>1, WorkExcept
  <2>4. [u EXCEPT !.phase = ph] = WorkOf(qs, work.poolActive, ph)
    BY WorkExcept
  <2> HIDE DEF u
  <2> QED
    BY <2>2, <2>3, <2>4, Zenon
<1>5. v.queues = qs /\ v.poolActive = work.poolActive /\ v.phase = ph
  BY <1>4, WorkExcept
<1> HIDE DEF v
<1>6. /\ Append(work.queues[p], j) \in Seq(Jobs) /\ Distinct(Append(work.queues[p], j))
      /\ Range(Append(work.queues[p], j)) = Range(work.queues[p]) \cup {j}
  <2>1. work.queues[p] \in Seq(Jobs) /\ Distinct(work.queues[p])
    BY <1>1, <1>2, <1>3 DEF SoundPool
  <2>2. j \notin Range(work.queues[p])
    BY <1>1, <1>3 DEF SoundPool, QueuedIn
  <2> QED
    BY <2>1, <2>2, AppendToQueue
<1>7. v \in WorkType
  <2>1. qs \in [Pools -> Seq(Jobs)]
    BY <1>2, <1>6, Zenon
  <2>2. ph \in [Jobs -> Phases]
    BY <1>2 DEF Phases
  <2> QED
    BY <1>2, <1>4, <2>1, <2>2 DEF WorkType, WorkOf
<1>8. ASSUME NEW q \in Pools PROVE SoundPool(v, q)
  <2>1. ActiveIn(v, q) = ActiveIn(work, q)
    BY <1>2, <1>5 DEF ActiveIn, Active
  <2>2. CASE q = p
    <3>1. QueuedIn(v, q) = QueuedIn(work, q) \cup {j}
      BY <1>2, <1>5, <2>2 DEF QueuedIn
    <3>2. v.queues[q] = Append(work.queues[p], j)
      BY <1>2, <1>5, <2>2
    <3> HIDE DEF qs, ph
    <3> QED
      BY <1>1, <1>5, <1>6, <2>1, <2>2, <3>1, <3>2 DEF SoundPool
  <2>3. CASE q # p
    <3>1. QueuedIn(v, q) = QueuedIn(work, q)
      BY <1>2, <1>5, <2>3 DEF QueuedIn
    <3>2. v.queues[q] = work.queues[q]
      BY <1>2, <1>5, <2>3
    <3> HIDE DEF qs, ph
    <3> QED
      BY <1>1, <1>5, <2>1, <3>1, <3>2 DEF SoundPool
  <2> QED
    BY <2>2, <2>3
<1>9. ActiveCount(v) <= max_active
  BY <1>5 DEF ActiveCount, Sound
<1>10. Sound(v)
  BY <1>7, <1>8, <1>9 DEF Sound
<1> QED
  BY <1>5, <1>10 DEF v

\* The work once the active job j has given its slot back.
Ended(j) == [Settle(work, {j}) EXCEPT !.poolActive[PoolOf[j]] = @ - 1]

LEMMA EndedSound ==
    ASSUME Sound(work), NEW j \in Jobs, work.phase[j] \in Active
    PROVE  /\ Sound(Ended(j))
           /\ Ended(j).phase = [work.phase EXCEPT ![j] = "settled"]
           /\ Background(Ended(j)) <= Background(work)
<1> DEFINE v == Ended(j)
           p == PoolOf[j]
           pa == [work.poolActive EXCEPT ![p] = @ - 1]
           ph == [work.phase EXCEPT ![j] = "settled"]
<1>1. work \in WorkType /\ \A q \in Pools : SoundPool(work, q)
  BY DEF Sound
<1>2. /\ work.queues \in [Pools -> Seq(Jobs)] /\ work.poolActive \in [Pools -> Nat]
      /\ work.phase \in [Jobs -> Phases]
  BY <1>1 DEF WorkType
<1>3. p \in Pools
  BY SchedulerAssumption
<1>4. v = WorkOf(work.queues, pa, ph)
  <2>1. work = WorkOf(work.queues, work.poolActive, work.phase)
    BY <1>1, WorkFields
  <2> DEFINE u == WorkOf(work.queues, work.poolActive, ph)
  <2>2. ph = [k \in Jobs |-> IF k \in {j} THEN "settled" ELSE work.phase[k]]
    BY <1>2
  <2>3. Settle(work, {j}) = u
    <3>1. Settle(work, {j}) = [work EXCEPT !.phase = ph]
      BY <2>2 DEF Settle
    <3> HIDE DEF ph
    <3> QED
      BY <2>1, <3>1, WorkExcept
  <2>4. u.poolActive = work.poolActive
    BY WorkExcept
  <2>5. v = [u EXCEPT !.poolActive = pa]
    <3>1. v = [u EXCEPT !.poolActive = [u.poolActive EXCEPT ![p] = @ - 1]]
      BY <2>3, Zenon DEF Ended, WorkOf
    <3> QED
      BY <2>4, <3>1
  <2> QED
    BY <2>5, WorkExcept
<1>5. v.queues = work.queues /\ v.poolActive = pa /\ v.phase = ph
  BY <1>4, WorkExcept
<1> HIDE DEF v
<1>6. /\ IsFiniteSet(ActiveIn(work, p)) /\ j \in ActiveIn(work, p)
      /\ work.poolActive[p] = Cardinality(ActiveIn(work, p))
  BY <1>1, <1>3 DEF SoundPool, ActiveIn
<1>7. /\ IsFiniteSet(ActiveIn(work, p) \ {j})
      /\ Cardinality(ActiveIn(work, p) \ {j}) = work.poolActive[p] - 1
      /\ Cardinality(ActiveIn(work, p) \ {j}) \in Nat
  BY <1>6, FS_RemoveElement, FS_CardinalityType
<1>8. work.poolActive[p] - 1 \in Nat
  BY <1>7
<1>9. v \in WorkType
  <2>1. pa \in [Pools -> Nat]
    BY <1>2, <1>8, Zenon
  <2>2. ph \in [Jobs -> Phases]
    BY <1>2 DEF Phases
  <2> QED
    BY <1>2, <1>4, <2>1, <2>2 DEF WorkType, WorkOf
<1>10. /\ v.poolActive[p] = work.poolActive[p] - 1
       /\ \A q \in Pools \ {p} : v.poolActive[q] = work.poolActive[q]
  BY <1>2, <1>3, <1>5
<1>11. /\ ActiveCount(v) = ActiveCount(work) - 1
       /\ Background(v) = Background(work) \/ Background(v) = Background(work) - 1
  <2>1. v.poolActive[p] = work.poolActive[p] + (-1)
    BY <1>2, <1>3, <1>10
  <2>2. /\ ActiveCount(v) = ActiveCount(work) + (-1)
        /\ p = "query" => Background(v) = Background(work)
        /\ p # "query" => Background(v) = Background(work) + (-1)
    BY <1>1, <1>3, <1>9, <1>10, <2>1, CountOfPools
  <2>3. ActiveCount(work) \in Nat /\ Background(work) \in Nat
    BY <1>1, WorkTypes
  <2> QED
    BY <2>2, <2>3
<1>12. ASSUME NEW q \in Pools PROVE SoundPool(v, q)
  <2>1. QueuedIn(v, q) = QueuedIn(work, q)
    BY <1>2, <1>5 DEF QueuedIn, Active
  <2>2. CASE q = p
    <3>1. ActiveIn(v, q) = ActiveIn(work, p) \ {j}
      BY <1>2, <1>5, <2>2 DEF ActiveIn, Active
    <3>2. v.poolActive[q] <= pool_concurrency[q]
      <4>1. pool_concurrency[p] \in Nat /\ work.poolActive[p] \in Nat
        BY <1>2, <1>3, SchedulerAssumption
      <4>2. work.poolActive[p] <= pool_concurrency[p]
        BY <1>1, <1>3 DEF SoundPool
      <4> QED
        BY <1>10, <2>2, <4>1, <4>2
    <3> HIDE DEF pa, ph
    <3> QED
      BY <1>1, <1>5, <1>7, <1>10, <2>1, <2>2, <3>1, <3>2 DEF SoundPool
  <2>3. CASE q # p
    <3>1. ActiveIn(v, q) = ActiveIn(work, q)
      BY <1>2, <1>5, <2>3 DEF ActiveIn
    <3> HIDE DEF pa, ph
    <3> QED
      BY <1>1, <1>5, <1>10, <2>1, <2>3, <3>1 DEF SoundPool
  <2> QED
    BY <2>2, <2>3
<1>13. /\ ActiveCount(v) <= max_active /\ Background(v) <= Background(work)
  <2>1. ActiveCount(work) \in Nat /\ Background(work) \in Nat
    BY <1>1, WorkTypes
  <2>2. ActiveCount(work) <= max_active
    BY DEF Sound
  <2> QED
    BY <1>11, <2>1, <2>2, SchedulerAssumption
<1>14. Sound(v)
  BY <1>9, <1>12, <1>13 DEF Sound
<1> QED
  BY <1>5, <1>13, <1>14 DEF v

\* The work once the job j is in phase x.
At(j, x) == [work EXCEPT !.phase[j] = x]

\* A job that stays active keeps its slot.
LEMMA StillActiveSound ==
    ASSUME Sound(work), NEW j \in Jobs, work.phase[j] \in Active, NEW x \in Active
    PROVE  /\ Sound(At(j, x))
           /\ At(j, x).phase = [work.phase EXCEPT ![j] = x]
           /\ At(j, x).poolActive = work.poolActive
<1> DEFINE ph == [work.phase EXCEPT ![j] = x]
           v  == At(j, x)
<1>1. work \in WorkType /\ \A q \in Pools : SoundPool(work, q)
  BY DEF Sound
<1>2. /\ work.queues \in [Pools -> Seq(Jobs)] /\ work.poolActive \in [Pools -> Nat]
      /\ work.phase \in [Jobs -> Phases]
  BY <1>1 DEF WorkType
<1>3. v = WorkOf(work.queues, work.poolActive, ph)
  <2>1. work = WorkOf(work.queues, work.poolActive, work.phase)
    BY <1>1, WorkFields
  <2>2. v = [work EXCEPT !.phase = ph]
    BY <1>1 DEF At, WorkType
  <2> HIDE DEF v, ph
  <2> QED
    BY <2>1, <2>2, WorkExcept
<1>4. v.queues = work.queues /\ v.poolActive = work.poolActive /\ v.phase = ph
  BY <1>3, WorkExcept
<1> HIDE DEF v
<1>5. v \in WorkType
  <2>1. ph \in [Jobs -> Phases]
    BY <1>2 DEF Phases, Active
  <2> QED
    BY <1>2, <1>3, <2>1 DEF WorkType, WorkOf
<1>6. ASSUME NEW q \in Pools PROVE SoundPool(v, q)
  <2>1. ActiveIn(v, q) = ActiveIn(work, q)
    BY <1>2, <1>4 DEF ActiveIn
  <2>2. QueuedIn(v, q) = QueuedIn(work, q)
    BY <1>2, <1>4 DEF QueuedIn, Active
  <2> QED
    BY <1>1, <1>4, <2>1, <2>2 DEF SoundPool
<1>7. ActiveCount(v) <= max_active
  BY <1>4 DEF ActiveCount, Sound
<1>8. Sound(v)
  BY <1>5, <1>6, <1>7 DEF Sound
<1> QED
  BY <1>4, <1>8 DEF v

\* pump changes no entry but a queued one, which stays queued or runs.
LEMMA PumpKeeps ==
    ASSUME NEW b, Sound(b)
    PROVE  /\ Sound(pump(b))
           /\ entriesOf(pump(b)) = entriesOf(b)
           /\ \A j \in Jobs : /\ b.phase[j] # "queued" => pump(b).phase[j] = b.phase[j]
                              /\ b.phase[j] = "queued"
                                   => pump(b).phase[j] \in {"queued", "running"}
<1>1. Pumped(b, pump(b))
  BY PumpWorks
<1>2. \A j \in Jobs : \/ pump(b).phase[j] = b.phase[j]
                      \/ b.phase[j] = "queued" /\ pump(b).phase[j] = "running"
  BY <1>1 DEF Pumped
<1>3. entriesOf(pump(b)) = entriesOf(b)
  BY <1>2 DEF entriesOf, Active
<1> QED
  BY <1>1, <1>2, <1>3 DEF Pumped

-----------------------------------------------------------------------------
(***************************************************************************)
(* The inductive invariant                                                 *)
(***************************************************************************)

InFlight(w, c) == {j \in entriesOf(w) : ClientOf[j] = c}

\* The counters of the clients are exact and within the quotas.
Counted ==
    \A c \in Clients :
        /\ IsFiniteSet(InFlight(work, c))
        /\ clientInFlight[c] = Cardinality(InFlight(work, c))
        /\ clientInFlight[c] <= max_in_flight[c]

Published(x) == {j \in Jobs : /\ WorkspaceOf[j] = x
                              /\ work.phase[j] \in {"waiting", "publishing"}}
Over(k) == k = None \/ work.phase[k] = "settled"

\* s lists the n publications of workspace x that are not over, in the order
\* in which they were chained: only the first may be under way, and the last
\* is the tail.
Chain(x, n, s) ==
    /\ s \in [1 .. n -> Jobs]
    /\ \A a, b \in 1 .. n : s[a] = s[b] => a = b
    /\ \A j \in Jobs : j \in Published(x) <=> \E i \in 1 .. n : s[i] = j
    /\ n = 0 => Over(publicationTails[x])
    /\ n > 0 => publicationTails[x] = s[n] /\ Over(previous[s[1]])
    /\ \A i \in 2 .. n : previous[s[i]] = s[i - 1] /\ work.phase[s[i]] = "waiting"

Chained == \A x \in Workspaces : \E n \in Nat : \E s : Chain(x, n, s)

\* A lease in force holds up a stop, and a stop that has returned is final.
InForce(l) == {x \in Leases : l[x] \in {"held", "lapsed"}}
Leased ==
    /\ IsFiniteSet(InForce(lease))
    /\ stopped # {} => stopping /\ entries = {} /\ InForce(lease) = {}

IInv == TypeOK /\ Sound(work) /\ NoStall /\ Counted /\ Chained /\ Leased

-----------------------------------------------------------------------------
(***************************************************************************)
(* One conjunct at a time                                                  *)
(***************************************************************************)

LEMMA CountsKept ==
    ASSUME Counted, clientInFlight' = clientInFlight, entriesOf(work') = entriesOf(work)
    PROVE  Counted'
  BY DEF Counted, InFlight

\* Jobs that leave the entries give their clients' slots back.
LEMMA ReleaseCounts ==
    ASSUME TypeOK, Counted, NEW js, js \subseteq entries, Release(js),
           entriesOf(work') = entries \ js
    PROVE  Counted' /\ clientInFlight' \in [Clients -> Nat]
<1>1. ASSUME NEW c \in Clients
      PROVE  /\ IsFiniteSet(InFlight(work', c))
             /\ clientInFlight'[c] = Cardinality(InFlight(work', c))
             /\ clientInFlight'[c] <= max_in_flight[c]
             /\ clientInFlight'[c] \in Nat
  <2> DEFINE S == InFlight(work, c)
             D == {j \in js : ClientOf[j] = c}
  <2>1. InFlight(work', c) = S \ D /\ D \subseteq S
    BY DEF InFlight, entries
  <2>2. /\ IsFiniteSet(S) /\ clientInFlight[c] = Cardinality(S)
        /\ clientInFlight[c] <= max_in_flight[c] /\ clientInFlight[c] \in Nat
    BY DEF Counted, TypeOK
  <2>3. clientInFlight'[c] = clientInFlight[c] - Cardinality(D)
    BY DEF Release
  <2> HIDE DEF S, D
  <2>4. S \cap D = D
    BY <2>1
  <2>5. IsFiniteSet(S \ D) /\ Cardinality(S \ D) = Cardinality(S) - Cardinality(D)
    BY <2>2, <2>4, FS_Difference
  <2>6. Cardinality(S \ D) \in Nat /\ Cardinality(S \ D) <= Cardinality(S)
    BY <2>2, <2>5, FS_CardinalityType, FS_Subset
  <2>7. max_in_flight[c] \in Nat
    BY SchedulerAssumption
  <2> QED
    BY <2>1, <2>2, <2>3, <2>5, <2>6, <2>7
<1>2. clientInFlight' = [c \in Clients |-> clientInFlight'[c]]
  BY DEF Release
<1> QED
  BY <1>1, <1>2 DEF Counted

\* The chains are the same when no publication starts or ends.
LEMMA ChainKept ==
    ASSUME Chained, previous' = previous, publicationTails' = publicationTails,
           \A j \in Jobs :
             /\ work.phase[j] = "settled" => work'.phase[j] = "settled"
             /\ WorkspaceOf[j] # None =>
                  /\ work.phase[j] \in {"waiting", "publishing"}
                       <=> work'.phase[j] \in {"waiting", "publishing"}
                  /\ work.phase[j] = "waiting" => work'.phase[j] = "waiting",
           TypeOK
    PROVE  Chained'
<1> SUFFICES ASSUME NEW x \in Workspaces PROVE \E n \in Nat : \E s : Chain(x, n, s)'
  BY DEF Chained
<1>1. PICK n \in Nat : \E s : Chain(x, n, s)
  BY DEF Chained
<1>2. PICK s : Chain(x, n, s)
  BY <1>1
<1>3. x # None
  BY SchedulerAssumption
<1>4. ASSUME NEW k \in Jobs \cup {None}, Over(k) PROVE Over(k)'
  BY <1>4 DEF Over
<1>5. \A j \in Jobs : j \in Published(x)' <=> j \in Published(x)
  BY <1>3 DEF Published
<1>6. s \in [1 .. n -> Jobs]
  BY <1>2 DEF Chain
<1>7. publicationTails[x] \in Jobs \cup {None} /\ previous \in [Jobs -> Jobs \cup {None}]
  BY DEF TypeOK
<1>8. n = 0 => Over(publicationTails[x])'
  BY <1>2, <1>4, <1>7 DEF Chain, Over
<1>9. n > 0 => publicationTails'[x] = s[n] /\ Over(previous[s[1]])'
  <2> SUFFICES ASSUME n > 0 PROVE publicationTails'[x] = s[n] /\ Over(previous[s[1]])'
    OBVIOUS
  <2>1. publicationTails[x] = s[n] /\ Over(previous[s[1]])
    BY <1>2 DEF Chain
  <2>2. previous[s[1]] \in Jobs \cup {None}
    BY <1>6, <1>7
  <2>3. \/ previous[s[1]] = None
        \/ previous[s[1]] \in Jobs /\ work'.phase[previous[s[1]]] = "settled"
    BY <2>1, <2>2 DEF Over
  <2> QED
    BY <2>1, <2>3 DEF Over
<1>10. \A i \in 2 .. n : previous'[s[i]] = s[i - 1] /\ work'.phase[s[i]] = "waiting"
  <2> SUFFICES ASSUME NEW i \in 2 .. n
               PROVE  previous'[s[i]] = s[i - 1] /\ work'.phase[s[i]] = "waiting"
    OBVIOUS
  <2>1. s[i] \in Jobs /\ s[i] \in Published(x)
    BY <1>2, <1>6 DEF Chain
  <2>2. previous[s[i]] = s[i - 1] /\ work.phase[s[i]] = "waiting"
    BY <1>2 DEF Chain
  <2> QED
    BY <1>3, <2>1, <2>2 DEF Published
<1>11. Chain(x, n, s)'
  BY <1>2, <1>5, <1>6, <1>8, <1>9, <1>10, Zenon DEF Chain
<1> QED
  BY <1>11

LEMMA LeasedKept ==
    ASSUME Leased, stopping => stopping', stopped' = stopped,
           InForce(lease') \subseteq InForce(lease),
           stopping => entriesOf(work') \subseteq entriesOf(work)
    PROVE  Leased'
<1>1. IsFiniteSet(InForce(lease'))
  BY FS_Subset DEF Leased
<1> QED
  BY <1>1 DEF Leased, entries

\* maybeStopResolved lets the waiting stop() calls return only when all is quiet.
LEMMA StopResolved ==
    ASSUME TypeOK, Leased, NEW l \in [Leases -> LeaseStates],
           InForce(l) \subseteq InForce(lease),
           NEW w, w = work', entriesOf(w) \subseteq entriesOf(work),
           stopping' = stopping, maybeStopResolved(w, l)
    PROVE  /\ Leased' /\ lease' \in [Leases -> LeaseStates]
           /\ stopWaiters' \subseteq Stops /\ stopped' \subseteq Stops
<1> DEFINE idle == stopping /\ entriesOf(w) = {}
           done == idle /\ LeaseCount(expireLeases(l)) = 0
<1>1. /\ lease' = IF idle THEN expireLeases(l) ELSE l
      /\ stopWaiters' = IF done THEN {} ELSE stopWaiters
      /\ stopped' = IF done THEN stopped \cup stopWaiters ELSE stopped
  BY DEF maybeStopResolved
<1>2. expireLeases(l) \in [Leases -> LeaseStates] /\ InForce(expireLeases(l)) \subseteq InForce(l)
  BY DEF expireLeases, LeaseStates, InForce
<1>3. IsFiniteSet(InForce(lease)) /\ IsFiniteSet(InForce(expireLeases(l)))
  BY <1>2, FS_Subset DEF Leased
<1>4. done => InForce(expireLeases(l)) = {}
  BY <1>3, FS_EmptySet DEF LeaseCount, InForce
<1> HIDE DEF idle, done
<1>5. InForce(lease') \subseteq InForce(lease)
  BY <1>1, <1>2
<1>6. IsFiniteSet(InForce(lease'))
  BY <1>3, <1>5, FS_Subset
<1>7. lease' \in [Leases -> LeaseStates] /\ stopWaiters' \subseteq Stops /\ stopped' \subseteq Stops
  BY <1>1, <1>2 DEF TypeOK
<1>8. ASSUME stopped' # {}
      PROVE  stopping' /\ entriesOf(work') = {} /\ InForce(lease') = {}
  <2>1. CASE done
    BY <1>1, <1>4, <2>1 DEF done, idle
  <2>2. CASE ~done
    <3>1. stopped # {}
      BY <1>1, <1>8, <2>2
    <3> QED
      BY <1>5, <3>1 DEF Leased, entries
  <2> QED
    BY <2>1, <2>2
<1>9. Leased'
  BY <1>6, <1>8 DEF Leased, entries
<1> QED
  BY <1>7, <1>9

LEMMA StallKept ==
    ASSUME NoStall, work'.poolActive = work.poolActive,
           \A j \in Jobs : work'.phase[j] = "queued" => work.phase[j] = "queued"
    PROVE  NoStall'
  BY DEF NoStall, ActiveCount

LEMMA PumpNoStall ==
    ASSUME NEW b, Sound(b), work' = pump(b)
    PROVE  NoStall'
<1>1. Sound(work') /\ \A p \in Pools : ~MayStart(work', p)
  BY PumpWorks DEF Pumped
<1> QED
  BY <1>1, IdleIsBusy DEF NoStall

-----------------------------------------------------------------------------
(***************************************************************************)
(* One action at a time                                                    *)
(***************************************************************************)

\* The conjuncts of IInv, with the type of each variable.
LEMMA Assemble ==
    ASSUME Sound(work'), NoStall', Counted', Chained', Leased',
           aborted' \subseteq Jobs, clientInFlight' \in [Clients -> Nat],
           previous' \in [Jobs -> Jobs \cup {None}],
           publicationTails' \in [Workspaces -> Jobs \cup {None}],
           lease' \in [Leases -> LeaseStates], stopping' \in BOOLEAN,
           stopWaiters' \subseteq Stops, stopped' \subseteq Stops
    PROVE  IInv'
<1>1. TypeOK'
  BY DEF TypeOK, Sound, WorkType
<1> QED
  BY <1>1 DEF IInv

LEMMA SubmitStep ==
    ASSUME IInv, NEW j \in Jobs, submit(j)
    PROVE  IInv'
<1> DEFINE b == Enqueued(j)
           c == ClientOf[j]
<1>1. /\ work.phase[j] = "new" /\ ~stopping /\ clientInFlight[c] < max_in_flight[c]
      /\ work' = pump(b)
      /\ clientInFlight' = [clientInFlight EXCEPT ![c] = @ + 1]
      /\ UNCHANGED <<aborted, previous, publicationTails, lease, stopping,
                     stopWaiters, stopped>>
  BY DEF submit, publication
<1>2. TypeOK /\ Sound(work) /\ Counted /\ Chained /\ Leased /\ c \in Clients
  BY SchedulerAssumption DEF IInv
<1>3. Sound(b) /\ b.phase = [work.phase EXCEPT ![j] = "queued"]
  BY <1>1, <1>2, EnqueuedSound
<1> HIDE DEF b
<1>4. work.phase \in [Jobs -> Phases]
  BY <1>2, WorkTypes DEF Sound
<1>5. /\ Sound(work') /\ entriesOf(work') = entriesOf(b)
      /\ \A k \in Jobs : /\ b.phase[k] # "queued" => work'.phase[k] = b.phase[k]
                         /\ b.phase[k] = "queued"
                              => work'.phase[k] \in {"queued", "running"}
  <2>1. Sound(b)
    BY <1>3
  <2>2. /\ Sound(pump(b)) /\ entriesOf(pump(b)) = entriesOf(b)
        /\ \A k \in Jobs : /\ b.phase[k] # "queued" => pump(b).phase[k] = b.phase[k]
                           /\ b.phase[k] = "queued"
                                => pump(b).phase[k] \in {"queued", "running"}
    BY <2>1, PumpKeeps
  <2> QED
    BY <1>1, <2>2
<1>6. NoStall'
  BY <1>1, <1>3, PumpNoStall
<1>7. entriesOf(work') = entries \cup {j} /\ j \notin entries
  BY <1>1, <1>3, <1>4, <1>5 DEF entries, entriesOf, Active
<1>8. clientInFlight \in [Clients -> Nat] /\ clientInFlight' \in [Clients -> Nat]
  BY <1>1, <1>2 DEF TypeOK
<1>9. Counted'
  <2> SUFFICES ASSUME NEW d \in Clients
               PROVE  /\ IsFiniteSet(InFlight(work', d))
                      /\ clientInFlight'[d] = Cardinality(InFlight(work', d))
                      /\ clientInFlight'[d] <= max_in_flight[d]
    BY DEF Counted
  <2>1. /\ IsFiniteSet(InFlight(work, d))
        /\ clientInFlight[d] = Cardinality(InFlight(work, d))
        /\ clientInFlight[d] <= max_in_flight[d]
    BY <1>2 DEF Counted
  <2>2. CASE d = c
    <3>1. InFlight(work', d) = InFlight(work, d) \cup {j} /\ j \notin InFlight(work, d)
      BY <1>7, <2>2 DEF InFlight, entries
    <3>2. /\ IsFiniteSet(InFlight(work', d))
          /\ Cardinality(InFlight(work', d)) = Cardinality(InFlight(work, d)) + 1
      BY <2>1, <3>1, FS_AddElement
    <3>3. clientInFlight'[d] = clientInFlight[d] + 1
      BY <1>1, <1>8, <2>2
    <3>4. max_in_flight[d] \in Nat /\ clientInFlight[d] \in Nat
      BY <1>8, SchedulerAssumption
    <3> QED
      BY <1>1, <2>1, <2>2, <3>2, <3>3, <3>4
  <2>3. CASE d # c
    <3>1. InFlight(work', d) = InFlight(work, d)
      BY <1>7, <2>3 DEF InFlight, entries
    <3>2. clientInFlight'[d] = clientInFlight[d]
      BY <1>1, <1>8, <2>3
    <3> QED
      BY <2>1, <3>1, <3>2
  <2> QED
    BY <2>2, <2>3
<1>10. Chained'
  <2>1. ASSUME NEW k \in Jobs
        PROVE  /\ work.phase[k] = "settled" => work'.phase[k] = "settled"
               /\ work.phase[k] \in {"waiting", "publishing"}
                    <=> work'.phase[k] \in {"waiting", "publishing"}
               /\ work.phase[k] = "waiting" => work'.phase[k] = "waiting"
    BY <1>1, <1>3, <1>4, <1>5
  <2> QED
    BY <1>1, <1>2, <2>1, ChainKept
<1>11. Leased'
  BY <1>1, <1>2, LeasedKept
<1> QED
  BY <1>1, <1>2, <1>5, <1>6, <1>8, <1>9, <1>10, <1>11, Assemble DEF TypeOK

\* The settled jobs of js were queued: what that leaves alone.
LEMMA CancelledKeeps ==
    ASSUME IInv, NEW js, js \subseteq {j \in Jobs : work.phase[j] = "queued"}
    PROVE  /\ Sound(Cancelled(work, js))
           /\ Cancelled(work, js).poolActive = work.poolActive
           /\ Cancelled(work, js).phase
                = [j \in Jobs |-> IF j \in js THEN "settled" ELSE work.phase[j]]
           /\ entriesOf(Cancelled(work, js)) = entries \ js
           /\ js \subseteq entries
<1>1. Sound(work)
  BY DEF IInv
<1>2. /\ Sound(Cancelled(work, js))
      /\ Cancelled(work, js).poolActive = work.poolActive
      /\ Cancelled(work, js).phase
           = [j \in Jobs |-> IF j \in js THEN "settled" ELSE work.phase[j]]
  BY <1>1, CancelledSound
<1>3. entriesOf(Cancelled(work, js)) = entries \ js
  BY <1>2 DEF entries, entriesOf, Active
<1>4. js \subseteq entries
  BY DEF entries, entriesOf
<1> QED
  BY <1>2, <1>3, <1>4

LEMMA CancelStep ==
    ASSUME IInv, NEW j \in Jobs, cancel(j)
    PROVE  IInv'
<1> DEFINE queued == {j} \cap {k \in Jobs : work.phase[k] = "queued"}
<1>1. /\ aborted' = aborted \cup {j} /\ work' = Cancelled(work, queued)
      /\ Release(queued)
      /\ UNCHANGED <<previous, publicationTails, lease, stopping, stopWaiters, stopped>>
  BY DEF cancel, publication
<1>2. queued \subseteq {k \in Jobs : work.phase[k] = "queued"}
  OBVIOUS
<1> HIDE DEF queued
<1>3. /\ Sound(work') /\ work'.poolActive = work.poolActive
      /\ work'.phase = [k \in Jobs |-> IF k \in queued THEN "settled" ELSE work.phase[k]]
      /\ entriesOf(work') = entries \ queued /\ queued \subseteq entries
  BY <1>1, <1>2, CancelledKeeps
<1>4. TypeOK /\ NoStall /\ Counted /\ Chained /\ Leased
  BY DEF IInv
<1>5. NoStall'
  BY <1>3, <1>4, StallKept
<1>6. Counted' /\ clientInFlight' \in [Clients -> Nat]
  BY <1>1, <1>3, <1>4, ReleaseCounts
<1>7. Chained'
  <2>1. ASSUME NEW k \in Jobs
        PROVE  /\ work.phase[k] = "settled" => work'.phase[k] = "settled"
               /\ work.phase[k] \in {"waiting", "publishing"}
                    <=> work'.phase[k] \in {"waiting", "publishing"}
               /\ work.phase[k] = "waiting" => work'.phase[k] = "waiting"
    BY <1>2, <1>3
  <2> QED
    BY <1>1, <1>4, <2>1, ChainKept
<1>8. Leased'
  BY <1>1, <1>3, <1>4, LeasedKept DEF entries
<1> QED
  BY <1>1, <1>3, <1>4, <1>5, <1>6, <1>7, <1>8, Assemble DEF TypeOK

LEMMA CancelPoolStep ==
    ASSUME IInv, NEW pool \in Pools, cancelPool(pool)
    PROVE  IInv'
<1> DEFINE cancelled == {j \in entries : PoolOf[j] = pool}
           queued    == {j \in cancelled : work.phase[j] = "queued"}
           b         == Cancelled(work, queued)
<1>1. /\ aborted' = aborted \cup cancelled /\ work' = pump(b)
      /\ Release(queued)
      /\ UNCHANGED <<previous, publicationTails, lease, stopping, stopWaiters, stopped>>
  BY DEF cancelPool, publication
<1>2. queued \subseteq {k \in Jobs : work.phase[k] = "queued"} /\ cancelled \subseteq Jobs
  BY DEF entries, entriesOf
<1> HIDE DEF queued, cancelled
<1>3. /\ Sound(b)
      /\ b.phase = [k \in Jobs |-> IF k \in queued THEN "settled" ELSE work.phase[k]]
      /\ entriesOf(b) = entries \ queued /\ queued \subseteq entries
  BY <1>2, CancelledKeeps
<1> HIDE DEF b
<1>4. TypeOK /\ Counted /\ Chained /\ Leased
  BY DEF IInv
<1>5. /\ Sound(work') /\ entriesOf(work') = entriesOf(b)
      /\ \A k \in Jobs : /\ b.phase[k] # "queued" => work'.phase[k] = b.phase[k]
                         /\ b.phase[k] = "queued"
                              => work'.phase[k] \in {"queued", "running"}
  <2>1. Sound(b)
    BY <1>3
  <2>2. /\ Sound(pump(b)) /\ entriesOf(pump(b)) = entriesOf(b)
        /\ \A k \in Jobs : /\ b.phase[k] # "queued" => pump(b).phase[k] = b.phase[k]
                           /\ b.phase[k] = "queued"
                                => pump(b).phase[k] \in {"queued", "running"}
    BY <2>1, PumpKeeps
  <2> QED
    BY <1>1, <2>2
<1>6. NoStall'
  BY <1>1, <1>3, PumpNoStall
<1>7. Counted' /\ clientInFlight' \in [Clients -> Nat]
  BY <1>1, <1>3, <1>4, <1>5, ReleaseCounts
<1>8. Chained'
  <2>1. ASSUME NEW k \in Jobs
        PROVE  /\ work.phase[k] = "settled" => work'.phase[k] = "settled"
               /\ work.phase[k] \in {"waiting", "publishing"}
                    <=> work'.phase[k] \in {"waiting", "publishing"}
               /\ work.phase[k] = "waiting" => work'.phase[k] = "waiting"
    BY <1>2, <1>3, <1>5
  <2> QED
    BY <1>1, <1>4, <2>1, ChainKept
<1>9. Leased'
  BY <1>1, <1>3, <1>4, <1>5, LeasedKept DEF entries
<1> QED
  BY <1>1, <1>2, <1>4, <1>5, <1>6, <1>7, <1>8, <1>9, Assemble DEF TypeOK

\* The end of run: all but the chains.
FinishLeaves(j) ==
    /\ Sound(work') /\ NoStall' /\ Counted' /\ Leased'
    /\ clientInFlight' \in [Clients -> Nat] /\ lease' \in [Leases -> LeaseStates]
    /\ stopWaiters' \subseteq Stops /\ stopped' \subseteq Stops
    /\ work'.phase[j] = "settled"
    /\ \A k \in Jobs \ {j} :
         /\ work.phase[k] # "queued" => work'.phase[k] = work.phase[k]
         /\ work.phase[k] = "queued" => work'.phase[k] \in {"queued", "running"}

LEMMA FinishStep ==
    ASSUME IInv, NEW j \in Jobs, work.phase[j] \in Active, Finish(j), stopping' = stopping
    PROVE  FinishLeaves(j)
<1> DEFINE b == Ended(j)
<1>1. work' = pump(b) /\ Release({j}) /\ maybeStopResolved(work', lease)
  BY DEF Finish, Ended
<1>2. TypeOK /\ Sound(work) /\ Counted /\ Leased
  BY DEF IInv
<1>3. Sound(b) /\ b.phase = [work.phase EXCEPT ![j] = "settled"]
  BY <1>2, EndedSound
<1> HIDE DEF b
<1>4. work.phase \in [Jobs -> Phases]
  BY <1>2, WorkTypes DEF Sound
<1>5. /\ Sound(work') /\ entriesOf(work') = entriesOf(b)
      /\ \A k \in Jobs : /\ b.phase[k] # "queued" => work'.phase[k] = b.phase[k]
                         /\ b.phase[k] = "queued"
                              => work'.phase[k] \in {"queued", "running"}
  <2>1. Sound(b)
    BY <1>3
  <2>2. /\ Sound(pump(b)) /\ entriesOf(pump(b)) = entriesOf(b)
        /\ \A k \in Jobs : /\ b.phase[k] # "queued" => pump(b).phase[k] = b.phase[k]
                           /\ b.phase[k] = "queued"
                                => pump(b).phase[k] \in {"queued", "running"}
    BY <2>1, PumpKeeps
  <2> QED
    BY <1>1, <2>2
<1>6. NoStall'
  BY <1>1, <1>3, PumpNoStall
<1>7. entriesOf(work') = entries \ {j} /\ {j} \subseteq entries
  BY <1>3, <1>4, <1>5 DEF entries, entriesOf, Active
<1>8. Counted' /\ clientInFlight' \in [Clients -> Nat]
  BY <1>1, <1>2, <1>7, ReleaseCounts
<1>9. /\ Leased' /\ lease' \in [Leases -> LeaseStates]
      /\ stopWaiters' \subseteq Stops /\ stopped' \subseteq Stops
  <2>1. lease \in [Leases -> LeaseStates]
    BY <1>2 DEF TypeOK
  <2> QED
    BY <1>1, <1>2, <1>7, <2>1, StopResolved DEF entries
<1>10. /\ work'.phase[j] = "settled"
       /\ \A k \in Jobs \ {j} :
            /\ work.phase[k] # "queued" => work'.phase[k] = work.phase[k]
            /\ work.phase[k] = "queued" => work'.phase[k] \in {"queued", "running"}
  BY <1>3, <1>4, <1>5
<1> QED
  BY <1>5, <1>6, <1>8, <1>9, <1>10 DEF FinishLeaves

\* A job without publication ends.
LEMMA RunEndsStep ==
    ASSUME IInv, NEW j \in Jobs, work.phase[j] = "running", Finish(j),
           UNCHANGED <<aborted, previous, publicationTails, stopping>>
    PROVE  IInv'
<1>1. FinishLeaves(j)
  BY FinishStep DEF Active
<1>2. TypeOK /\ Chained
  BY DEF IInv
<1>3. Chained'
  <2>1. ASSUME NEW k \in Jobs
        PROVE  /\ work.phase[k] = "settled" => work'.phase[k] = "settled"
               /\ work.phase[k] \in {"waiting", "publishing"}
                    <=> work'.phase[k] \in {"waiting", "publishing"}
               /\ work.phase[k] = "waiting" => work'.phase[k] = "waiting"
    BY <1>1 DEF FinishLeaves
  <2> QED
    BY <1>2, <2>1, ChainKept
<1> QED
  BY <1>1, <1>2, <1>3, Assemble DEF FinishLeaves, TypeOK

LEMMA RunThrowsStep ==
    ASSUME IInv, NEW j \in Jobs, RunThrows(j)
    PROVE  IInv'
  BY RunEndsStep DEF RunThrows, publication

\* An active job goes on to a later phase without giving anything back.
LEMMA GoesOn ==
    ASSUME IInv, NEW j \in Jobs, work.phase[j] \in Active, NEW x \in Active,
           work' = [work EXCEPT !.phase[j] = x],
           UNCHANGED <<clientInFlight, lease, stopping, stopWaiters, stopped>>
    PROVE  /\ Sound(work') /\ NoStall' /\ Counted' /\ Leased'
           /\ work'.phase = [work.phase EXCEPT ![j] = x]
           /\ work.phase \in [Jobs -> Phases]
<1>1. TypeOK /\ Sound(work) /\ NoStall /\ Counted /\ Leased
  BY DEF IInv
<1>2. /\ Sound(work') /\ work'.phase = [work.phase EXCEPT ![j] = x]
      /\ work'.poolActive = work.poolActive
  <2>1. /\ Sound(At(j, x)) /\ At(j, x).phase = [work.phase EXCEPT ![j] = x]
        /\ At(j, x).poolActive = work.poolActive
    BY <1>1, StillActiveSound
  <2>2. work' = At(j, x)
    BY DEF At
  <2> QED
    BY <2>1, <2>2
<1>3. work.phase \in [Jobs -> Phases]
  BY <1>1, WorkTypes DEF Sound
<1>4. NoStall'
  <2>1. \A k \in Jobs : work'.phase[k] = "queued" => work.phase[k] = "queued"
    BY <1>2, <1>3 DEF Active
  <2> QED
    BY <1>1, <1>2, <2>1, StallKept
<1>5. entriesOf(work') = entriesOf(work)
  BY <1>2, <1>3 DEF entriesOf
<1>6. Counted'
  BY <1>1, <1>5, CountsKept
<1>7. Leased'
  BY <1>1, <1>5, LeasedKept
<1> QED
  BY <1>2, <1>3, <1>4, <1>6, <1>7

\* A publication joins the end of its workspace's chain.
LEMMA ChainGrows ==
    ASSUME TypeOK, Chained, NEW j \in Jobs, work.phase[j] = "running",
           WorkspaceOf[j] # None,
           work'.phase = [work.phase EXCEPT ![j] = "waiting"],
           previous' = [previous EXCEPT ![j] = publicationTails[WorkspaceOf[j]]],
           publicationTails' = [publicationTails EXCEPT ![WorkspaceOf[j]] = j]
    PROVE  Chained'
<1>1. /\ work.phase \in [Jobs -> Phases] /\ previous \in [Jobs -> Jobs \cup {None}]
      /\ publicationTails \in [Workspaces -> Jobs \cup {None}]
  BY DEF TypeOK
<1>2. WorkspaceOf[j] \in Workspaces /\ None \notin Jobs
  BY SchedulerAssumption
<1> SUFFICES ASSUME NEW x \in Workspaces PROVE \E n \in Nat : \E s : Chain(x, n, s)'
  BY DEF Chained
<1>3. PICK n \in Nat : \E s : Chain(x, n, s)
  BY DEF Chained
<1>4. PICK s : Chain(x, n, s)
  BY <1>3
<1>5. s \in [1 .. n -> Jobs]
  BY <1>4 DEF Chain
<1>6. \A i \in 1 .. n : /\ s[i] \in Jobs /\ s[i] # j /\ WorkspaceOf[s[i]] = x
                        /\ work.phase[s[i]] \in {"waiting", "publishing"}
                        /\ work'.phase[s[i]] = work.phase[s[i]]
                        /\ previous'[s[i]] = previous[s[i]]
  <2> SUFFICES ASSUME NEW i \in 1 .. n
               PROVE  /\ s[i] \in Jobs /\ s[i] # j /\ WorkspaceOf[s[i]] = x
                      /\ work.phase[s[i]] \in {"waiting", "publishing"}
                      /\ work'.phase[s[i]] = work.phase[s[i]]
                      /\ previous'[s[i]] = previous[s[i]]
    OBVIOUS
  <2>1. s[i] \in Jobs /\ s[i] \in Published(x)
    BY <1>4, <1>5 DEF Chain
  <2> QED
    BY <1>1, <2>1 DEF Published
<1>7. \A k \in Jobs \cup {None} : Over(k) => Over(k)'
  BY <1>1 DEF Over
<1>8. CASE x # WorkspaceOf[j]
  <2>1. publicationTails'[x] = publicationTails[x]
    BY <1>1, <1>8
  <2>2. \A k \in Jobs : k \in Published(x)' <=> k \in Published(x)
    BY <1>1, <1>8 DEF Published
  <2>3. n = 0 => Over(publicationTails[x])'
    BY <1>1, <1>4, <1>7, <2>1 DEF Chain, Over
  <2>4. n > 0 => publicationTails'[x] = s[n] /\ Over(previous[s[1]])'
    <3> SUFFICES ASSUME n > 0 PROVE publicationTails'[x] = s[n] /\ Over(previous[s[1]])'
      OBVIOUS
    <3>1. publicationTails[x] = s[n] /\ Over(previous[s[1]]) /\ 1 \in 1 .. n
      BY SMTT(20), <1>4 DEF Chain
    <3>2. previous[s[1]] \in Jobs \cup {None} /\ previous'[s[1]] = previous[s[1]]
      BY <1>1, <1>6, <3>1
    <3> QED
      BY <1>1, <2>1, <3>1, <3>2 DEF Over
  <2>5. \A i \in 2 .. n : previous'[s[i]] = s[i - 1] /\ work'.phase[s[i]] = "waiting"
    BY SMTT(20), <1>4, <1>6 DEF Chain
  <2>6. Chain(x, n, s)'
    BY <1>4, <1>5, <2>2, <2>3, <2>4, <2>5 DEF Chain
  <2> QED
    BY <2>6
<1>9. CASE x = WorkspaceOf[j]
  <2> DEFINE t == [i \in 1 .. n + 1 |-> IF i = n + 1 THEN j ELSE s[i]]
  <2>1. /\ t \in [1 .. n + 1 -> Jobs] /\ t[n + 1] = j
        /\ \A i \in 1 .. n : t[i] = s[i]
    BY SMTT(20), <1>5
  <2> HIDE DEF t
  <2>2. \A a, b \in 1 .. n + 1 : t[a] = t[b] => a = b
    <3>1. \A a, b \in 1 .. n : s[a] = s[b] => a = b
      BY <1>4 DEF Chain
    <3> QED
      BY <1>6, <2>1, <3>1
  <2>3. ASSUME NEW k \in Jobs
        PROVE  k \in Published(x)' <=> \E i \in 1 .. n + 1 : t[i] = k
    <3>1. CASE k = j
      BY SMTT(20), <1>1, <1>9, <2>1, <3>1 DEF Published
    <3>2. CASE k # j
      <4>1. k \in Published(x)' <=> k \in Published(x)
        BY <1>1, <3>2 DEF Published
      <4>2. k \in Published(x) <=> \E i \in 1 .. n : s[i] = k
        BY <1>4 DEF Chain
      <4>3. (\E i \in 1 .. n : s[i] = k) <=> (\E i \in 1 .. n + 1 : t[i] = k)
        BY <2>1, <3>2
      <4> QED
        BY <4>1, <4>2, <4>3
    <3> QED
      BY <3>1, <3>2
  <2>4. publicationTails'[x] = t[n + 1] /\ previous'[j] = publicationTails[x]
    BY <1>1, <1>2, <1>9, <2>1
  <2>5. Over(previous[t[1]])'
    <3>1. CASE n = 0
      <4>1. Over(publicationTails[x]) /\ t[1] = j
        BY SMTT(20), <1>4, <2>1, <3>1 DEF Chain
      <4>2. publicationTails[x] \in Jobs \cup {None}
        BY <1>1
      <4> QED
        BY SMTT(20), <1>1, <2>4, <4>1, <4>2 DEF Over
    <3>2. CASE n > 0
      <4>1. Over(previous[s[1]]) /\ 1 \in 1 .. n
        BY <1>4, <3>2 DEF Chain
      <4>2. t[1] = s[1] /\ previous'[s[1]] = previous[s[1]]
            /\ previous[s[1]] \in Jobs \cup {None}
        BY <1>1, <1>6, <2>1, <4>1
      <4> QED
        BY <1>1, <4>1, <4>2 DEF Over
    <3> QED
      BY <3>1, <3>2
  <2>6. ASSUME NEW i \in 2 .. n + 1
        PROVE  previous'[t[i]] = t[i - 1] /\ work'.phase[t[i]] = "waiting"
    <3>1. CASE i = n + 1
      <4>1. n > 0 /\ t[i] = j /\ n \in 1 .. n /\ i - 1 = n
        BY <2>1, <3>1
      <4>2. publicationTails[x] = s[n] /\ t[n] = s[n]
        BY <1>4, <2>1, <4>1 DEF Chain
      <4> QED
        BY <1>1, <2>4, <4>1, <4>2
    <3>2. CASE i # n + 1
      <4>1. i \in 2 .. n /\ i \in 1 .. n /\ i - 1 \in 1 .. n
        BY <3>2
      <4>2. previous[s[i]] = s[i - 1] /\ work.phase[s[i]] = "waiting"
        BY <1>4, <4>1, Zenon DEF Chain
      <4> QED
        BY <1>6, <2>1, <4>1, <4>2
    <3> QED
      BY <3>1, <3>2
  <2>7. Chain(x, n + 1, t)'
    <3> DEFINE m == n + 1
    <3>1. m \in Nat /\ m # 0 /\ m > 0
      OBVIOUS
    <3>2. /\ t \in [1 .. m -> Jobs] /\ \A a, b \in 1 .. m : t[a] = t[b] => a = b
          /\ \A k \in Jobs : k \in Published(x)' <=> \E i \in 1 .. m : t[i] = k
          /\ publicationTails'[x] = t[m] /\ Over(previous[t[1]])'
          /\ \A i \in 2 .. m : previous'[t[i]] = t[i - 1] /\ work'.phase[t[i]] = "waiting"
      BY <2>1, <2>2, <2>3, <2>4, <2>5, <2>6
    <3> HIDE DEF m
    <3>3. Chain(x, m, t)'
      BY <3>1, <3>2, Zenon DEF Chain
    <3> QED
      BY <3>3 DEF m
  <2> QED
    BY <2>7
<1> QED
  BY <1>8, <1>9

LEMMA RunReturnsStep ==
    ASSUME IInv, NEW j \in Jobs, RunReturns(j)
    PROVE  IInv'
<1>1. work.phase[j] = "running" /\ UNCHANGED <<aborted, stopping>>
  BY DEF RunReturns
<1>2. TypeOK /\ Chained
  BY DEF IInv
<1>3. CASE j \notin Publishers
  <2>1. Finish(j) /\ UNCHANGED <<previous, publicationTails>>
    BY <1>3 DEF RunReturns, publication
  <2> QED
    BY <1>1, <2>1, RunEndsStep
<1>4. CASE j \in Publishers /\ WorkspaceOf[j] = None
  <2>1. /\ work' = [work EXCEPT !.phase[j] = "publishing"]
        /\ UNCHANGED <<previous, publicationTails, clientInFlight, lease,
                       stopWaiters, stopped>>
    BY <1>4 DEF RunReturns, publication
  <2>2. /\ Sound(work') /\ NoStall' /\ Counted' /\ Leased'
        /\ work'.phase = [work.phase EXCEPT ![j] = "publishing"]
        /\ work.phase \in [Jobs -> Phases]
    BY <1>1, <2>1, GoesOn, Zenon DEF Active
  <2>3. Chained'
    <3>1. ASSUME NEW k \in Jobs
          PROVE  /\ work.phase[k] = "settled" => work'.phase[k] = "settled"
                 /\ WorkspaceOf[k] # None =>
                      /\ work.phase[k] \in {"waiting", "publishing"}
                           <=> work'.phase[k] \in {"waiting", "publishing"}
                      /\ work.phase[k] = "waiting" => work'.phase[k] = "waiting"
      BY <1>1, <1>4, <2>2
    <3> QED
      BY <1>2, <2>1, <3>1, ChainKept
  <2> QED
    BY <1>1, <1>2, <2>1, <2>2, <2>3, Assemble DEF TypeOK
<1>5. CASE j \in Publishers /\ WorkspaceOf[j] # None
  <2>1. /\ work' = [work EXCEPT !.phase[j] = "waiting"]
        /\ previous' = [previous EXCEPT ![j] = publicationTails[WorkspaceOf[j]]]
        /\ publicationTails' = [publicationTails EXCEPT ![WorkspaceOf[j]] = j]
        /\ UNCHANGED <<clientInFlight, lease, stopWaiters, stopped>>
    BY <1>5 DEF RunReturns
  <2>2. /\ Sound(work') /\ NoStall' /\ Counted' /\ Leased'
        /\ work'.phase = [work.phase EXCEPT ![j] = "waiting"]
    BY <1>1, <2>1, GoesOn, Zenon DEF Active
  <2>3. Chained'
    BY <1>1, <1>2, <1>5, <2>1, <2>2, ChainGrows, Zenon
  <2>4. /\ previous' \in [Jobs -> Jobs \cup {None}]
        /\ publicationTails' \in [Workspaces -> Jobs \cup {None}]
    <3>1. WorkspaceOf[j] \in Workspaces
      BY <1>5, SchedulerAssumption
    <3> QED
      BY <1>2, <2>1, <3>1 DEF TypeOK
  <2> QED
    BY <1>1, <1>2, <2>1, <2>2, <2>3, <2>4, Assemble DEF TypeOK
<1> QED
  BY <1>3, <1>4, <1>5

\* Only the first publication of a chain may start.
LEMMA PublishStartsStep ==
    ASSUME IInv, NEW j \in Jobs, PublishStarts(j)
    PROVE  IInv'
<1>1. /\ work.phase[j] = "waiting" /\ Over(previous[j])
      /\ work' = [work EXCEPT !.phase[j] = "publishing"]
      /\ UNCHANGED <<aborted, clientInFlight, previous, publicationTails, lease,
                     stopping, stopWaiters, stopped>>
  BY DEF PublishStarts, publication, Over
<1>2. TypeOK /\ Chained
  BY DEF IInv
<1>3. /\ Sound(work') /\ NoStall' /\ Counted' /\ Leased'
      /\ work'.phase = [work.phase EXCEPT ![j] = "publishing"]
      /\ work.phase \in [Jobs -> Phases]
  BY <1>1, GoesOn, Zenon DEF Active
<1>4. previous \in [Jobs -> Jobs \cup {None}] /\ None \notin Jobs
      /\ publicationTails \in [Workspaces -> Jobs \cup {None}]
  BY <1>2, SchedulerAssumption DEF TypeOK
<1>5. Chained'
  <2> SUFFICES ASSUME NEW x \in Workspaces PROVE \E n \in Nat : \E s : Chain(x, n, s)'
    BY DEF Chained
  <2>1. PICK n \in Nat : \E s : Chain(x, n, s)
    BY <1>2 DEF Chained
  <2>2. PICK s : Chain(x, n, s)
    BY <2>1
  <2>3. s \in [1 .. n -> Jobs]
    BY <2>2 DEF Chain
  <2>4. \A k \in Jobs : k \in Published(x)' <=> k \in Published(x)
    BY <1>1, <1>3 DEF Published
  <2>5. ASSUME NEW k \in Jobs \cup {None}, Over(k)
        PROVE  k = None \/ work'.phase[k] = "settled"
    BY <1>1, <1>3, <2>5 DEF Over
  <2>6. n = 0 => Over(publicationTails[x])'
    BY <1>1, <1>4, <2>2, <2>5 DEF Chain, Over
  <2>7. n > 0 => publicationTails'[x] = s[n] /\ Over(previous[s[1]])'
    <3> SUFFICES ASSUME n > 0 PROVE publicationTails'[x] = s[n] /\ Over(previous[s[1]])'
      OBVIOUS
    <3>1. publicationTails[x] = s[n] /\ Over(previous[s[1]])
      BY <2>2 DEF Chain
    <3>2. previous[s[1]] \in Jobs \cup {None}
      BY <1>4, <2>3
    <3>3. previous[s[1]] = None \/ work'.phase[previous[s[1]]] = "settled"
      BY <2>5, <3>1, <3>2
    <3> QED
      BY <1>1, <3>1, <3>3 DEF Over
  <2>8. ASSUME NEW i \in 2 .. n
        PROVE  previous'[s[i]] = s[i - 1] /\ work'.phase[s[i]] = "waiting"
    <3>1. previous[s[i]] = s[i - 1] /\ work.phase[s[i]] = "waiting"
      BY <2>2 DEF Chain
    <3>2. i - 1 \in 1 .. n /\ s[i] \in Jobs /\ s[i - 1] \in Jobs
      BY <2>3
    <3>3. s[i - 1] \in Published(x)
      BY <2>2, <3>2 DEF Chain
    <3>4. ~Over(s[i - 1])
      BY <1>4, <3>2, <3>3 DEF Over, Published
    <3>5. s[i] # j
      BY <1>1, <3>1, <3>4
    <3> QED
      BY <1>1, <1>3, <3>1, <3>2, <3>5
  <2>9. Chain(x, n, s)'
    BY <2>2, <2>3, <2>4, <2>6, <2>7, <2>8 DEF Chain
  <2> QED
    BY <2>9
<1> QED
  BY <1>1, <1>2, <1>3, <1>5, Assemble DEF TypeOK

\* The first publication of its chain ends, and the next may start; a tail that
\* has been fulfilled is forgotten.
LEMMA PublishEndsStep ==
    ASSUME IInv, NEW j \in Jobs, NEW ok \in BOOLEAN, PublishEnds(j, ok)
    PROVE  IInv'
<1>1. /\ work.phase[j] = "publishing" /\ Finish(j)
      /\ publicationTails' = [x \in Workspaces |->
             IF ok /\ publicationTails[x] = j THEN None ELSE publicationTails[x]]
      /\ UNCHANGED <<aborted, previous, stopping>>
  BY DEF PublishEnds
<1>2. TypeOK /\ Chained
  BY DEF IInv
<1>3. FinishLeaves(j)
  BY <1>1, FinishStep DEF Active
<1>4. /\ previous \in [Jobs -> Jobs \cup {None}] /\ None \notin Jobs
      /\ publicationTails \in [Workspaces -> Jobs \cup {None}]
      /\ publicationTails' \in [Workspaces -> Jobs \cup {None}]
  BY <1>1, <1>2, SchedulerAssumption DEF TypeOK
<1>5. /\ work'.phase[j] = "settled"
      /\ \A k \in Jobs \ {j} :
           /\ work.phase[k] # "queued" => work'.phase[k] = work.phase[k]
           /\ work.phase[k] = "queued" => work'.phase[k] \in {"queued", "running"}
  BY <1>3 DEF FinishLeaves
<1>6. \A k \in Jobs \cup {None} :
         Over(k) => k = None \/ work'.phase[k] = "settled"
  BY <1>5 DEF Over
<1>7. Chained'
  <2> SUFFICES ASSUME NEW x \in Workspaces PROVE \E n \in Nat : \E s : Chain(x, n, s)'
    BY DEF Chained
  <2>1. PICK n \in Nat : \E s : Chain(x, n, s)
    BY <1>2 DEF Chained
  <2>2. PICK s : Chain(x, n, s)
    BY <2>1
  <2>3. s \in [1 .. n -> Jobs] /\ \A a, b \in 1 .. n : s[a] = s[b] => a = b
    BY <2>2 DEF Chain
  <2>4. \A i \in 1 .. n : s[i] \in Jobs /\ s[i] \in Published(x)
    BY <2>2, <2>3 DEF Chain
  <2>5. ASSUME NEW i \in 2 .. n
        PROVE  /\ previous[s[i]] = s[i - 1] /\ work.phase[s[i]] = "waiting"
               /\ s[i] # j /\ s[i] \in Jobs
    <3>1. previous[s[i]] = s[i - 1] /\ work.phase[s[i]] = "waiting"
      BY <2>2 DEF Chain
    <3> QED
      BY <1>1, <2>3, <3>1
  <2>6. CASE WorkspaceOf[j] # x
    <3>1. \A i \in 1 .. n : s[i] # j
      BY <2>4, <2>6 DEF Published
    <3>2. \A k \in Jobs : k \in Published(x)' <=> k \in Published(x)
      BY <1>1, <1>5, <2>6 DEF Published
    <3>3. publicationTails[x] # j
      <4>1. CASE n = 0
        BY <1>1, <1>4, <2>2, <4>1 DEF Chain, Over
      <4>2. CASE n > 0
        <5>1. publicationTails[x] = s[n] /\ n \in 1 .. n
          BY <2>2, <4>2 DEF Chain
        <5> QED
          BY <3>1, <5>1
      <4> QED
        BY <4>1, <4>2
    <3>4. publicationTails'[x] = publicationTails[x]
      BY <1>1, <3>3
    <3>5. n = 0 => Over(publicationTails[x])'
      BY <1>4, <1>6, <2>2, <3>4 DEF Chain, Over
    <3>6. n > 0 => publicationTails'[x] = s[n] /\ Over(previous[s[1]])'
      <4> SUFFICES ASSUME n > 0 PROVE publicationTails'[x] = s[n] /\ Over(previous[s[1]])'
        OBVIOUS
      <4>1. publicationTails[x] = s[n] /\ Over(previous[s[1]])
        BY <2>2 DEF Chain
      <4>2. previous[s[1]] \in Jobs \cup {None}
        BY <1>4, <2>3
      <4>3. previous[s[1]] = None \/ work'.phase[previous[s[1]]] = "settled"
        BY <1>6, <4>1, <4>2
      <4> QED
        BY <1>1, <3>4, <4>1, <4>3 DEF Over
    <3>7. \A i \in 2 .. n : previous'[s[i]] = s[i - 1] /\ work'.phase[s[i]] = "waiting"
      BY <1>1, <1>5, <2>5
    <3>8. Chain(x, n, s)'
      BY <2>2, <2>3, <3>2, <3>5, <3>6, <3>7 DEF Chain
    <3> QED
      BY <3>8
  <2>7. CASE WorkspaceOf[j] = x
    <3>1. j \in Published(x)
      BY <1>1, <2>7 DEF Published
    <3>2. PICK i \in 1 .. n : s[i] = j
      BY <2>2, <3>1 DEF Chain
    <3>3. i = 1 /\ n > 0 /\ s[1] = j
      BY <2>5, <3>2
    <3> DEFINE m == n - 1
               t == [a \in 1 .. m |-> s[a + 1]]
    <3>4. /\ m \in Nat /\ t \in [1 .. m -> Jobs] /\ n = m + 1
          /\ \A a \in 1 .. m : t[a] = s[a + 1] /\ a + 1 \in 2 .. n
      BY <2>3, <3>3
    <3> HIDE DEF m, t
    <3>5. \A a, b \in 1 .. m : t[a] = t[b] => a = b
      BY <2>3, <3>4
    <3>6. ASSUME NEW k \in Jobs
          PROVE  k \in Published(x)' <=> \E a \in 1 .. m : t[a] = k
      <4>1. CASE k = j
        <5>1. k \notin Published(x)'
          BY <1>5, <4>1 DEF Published
        <5>2. \A a \in 1 .. m : t[a] # k
          BY <2>5, <3>4, <4>1
        <5> QED
          BY <5>1, <5>2
      <4>2. CASE k # j
        <5>1. k \in Published(x)' <=> k \in Published(x)
          BY <1>5, <4>2 DEF Published
        <5>2. k \in Published(x) <=> \E a \in 1 .. n : s[a] = k
          BY <2>2 DEF Chain
        <5>3. ASSUME NEW a \in 1 .. n, s[a] = k PROVE \E d \in 1 .. m : t[d] = k
          <6>1. a # 1 /\ a - 1 \in 1 .. m /\ (a - 1) + 1 = a
            BY <3>3, <3>4, <4>2, <5>3
          <6> QED
            BY <3>4, <5>3, <6>1
        <5>4. ASSUME NEW d \in 1 .. m, t[d] = k PROVE \E a \in 1 .. n : s[a] = k
          <6>1. d + 1 \in 1 .. n
            BY <3>4
          <6> QED
            BY <3>4, <5>4, <6>1
        <5> QED
          BY <5>1, <5>2, <5>3, <5>4
      <4> QED
        BY <4>1, <4>2
    <3>7. publicationTails[x] = s[n]
      BY <2>2, <3>3 DEF Chain
    <3>8. m = 0 => Over(publicationTails[x])'
      <4> SUFFICES ASSUME m = 0 PROVE Over(publicationTails[x])'
        OBVIOUS
      <4>1. publicationTails[x] = j
        BY <3>3, <3>4, <3>7
      <4>2. publicationTails'[x] = None \/ publicationTails'[x] = j
        BY <1>1, <4>1
      <4> QED
        BY <1>5, <4>2 DEF Over
    <3>9. m > 0 => publicationTails'[x] = t[m] /\ Over(previous[t[1]])'
      <4> SUFFICES ASSUME m > 0
                   PROVE  publicationTails'[x] = t[m] /\ Over(previous[t[1]])'
        OBVIOUS
      <4>1. m \in 1 .. m /\ 1 \in 1 .. m /\ n \in 2 .. n /\ 2 \in 2 .. n
            /\ t[m] = s[n] /\ t[1] = s[2]
        BY <3>4
      <4>2. s[n] # j /\ previous[s[2]] = s[1]
        BY <2>5, <4>1
      <4>3. publicationTails'[x] = s[n]
        BY <1>1, <3>7, <4>2
      <4>4. previous'[t[1]] = j
        BY <1>1, <3>3, <4>1, <4>2
      <4> QED
        BY <1>5, <4>1, <4>3, <4>4 DEF Over
    <3>10. ASSUME NEW a \in 2 .. m
           PROVE  previous'[t[a]] = t[a - 1] /\ work'.phase[t[a]] = "waiting"
      <4>1. a \in 1 .. m /\ a - 1 \in 1 .. m /\ (a - 1) + 1 = a /\ (a + 1) - 1 = a
        BY <3>4
      <4>2. t[a] = s[a + 1] /\ t[a - 1] = s[a] /\ a + 1 \in 2 .. n
        BY <3>4, <4>1
      <4>3. /\ previous[s[a + 1]] = s[a] /\ work.phase[s[a + 1]] = "waiting"
            /\ s[a + 1] # j /\ s[a + 1] \in Jobs
        BY <2>5, <4>1, <4>2
      <4> QED
        BY <1>1, <1>5, <4>2, <4>3
    <3>11. Chain(x, m, t)'
      BY <3>4, <3>5, <3>6, <3>8, <3>9, <3>10 DEF Chain
    <3> QED
      BY <3>4, <3>11
  <2> QED
    BY <2>6, <2>7
<1> QED
  BY <1>1, <1>2, <1>3, <1>4, <1>7, Assemble DEF FinishLeaves, TypeOK

\* The work and all that depends on it stay as they are.
LEMMA LeaseStep ==
    ASSUME IInv, UNCHANGED <<work, aborted, clientInFlight, previous,
                             publicationTails, stopping, stopWaiters, stopped>>,
           lease' \in [Leases -> LeaseStates], Leased'
    PROVE  IInv'
<1>1. TypeOK /\ Sound(work) /\ NoStall /\ Counted /\ Chained
  BY DEF IInv
<1>2. Sound(work') /\ NoStall' /\ Counted'
  BY <1>1, CountsKept DEF NoStall
<1>3. Chained'
  BY <1>1, ChainKept
<1> QED
  BY <1>1, <1>2, <1>3, Assemble DEF TypeOK

LEMMA AcquireStep ==
    ASSUME IInv, NEW l \in Leases, acquireRestartLease(l)
    PROVE  IInv'
<1>1. TypeOK /\ Leased
  BY DEF IInv
<1>2. /\ ~stopping /\ lease' = [lease EXCEPT ![l] = "held"]
      /\ UNCHANGED <<work, aborted, clientInFlight, previous, publicationTails,
                     stopping, stopWaiters, stopped>>
  BY DEF acquireRestartLease, publication
<1>3. lease \in [Leases -> LeaseStates] /\ lease' \in [Leases -> LeaseStates]
  BY <1>1, <1>2 DEF TypeOK, LeaseStates
<1>4. InForce(lease') = InForce(lease) \cup {l}
  BY <1>2, <1>3 DEF InForce
<1>5. IsFiniteSet(InForce(lease'))
  BY <1>1, <1>4, FS_AddElement DEF Leased
<1>6. Leased'
  BY <1>1, <1>2, <1>5 DEF Leased
<1> QED
  BY <1>2, <1>3, <1>6, LeaseStep

\* A lease lapses, is found lapsed, or is reaped.
LEMMA LapseStep ==
    ASSUME IInv,
           \/ \E l \in Leases : Lapse(l) \/ RenewTooLate(l)
           \/ ReadStatus
    PROVE  IInv'
<1>1. TypeOK /\ Leased
  BY DEF IInv
<1>2. UNCHANGED <<work, aborted, clientInFlight, previous, publicationTails,
                  stopping, stopWaiters, stopped>>
  BY DEF Lapse, RenewTooLate, ReadStatus, publication
<1>3. lease' \in [Leases -> LeaseStates] /\ InForce(lease') \subseteq InForce(lease)
  <2>1. lease \in [Leases -> LeaseStates]
    BY <1>1 DEF TypeOK
  <2>2. ASSUME NEW l \in Leases, Lapse(l) \/ RenewTooLate(l)
        PROVE  lease' \in [Leases -> LeaseStates] /\ InForce(lease') \subseteq InForce(lease)
    BY <2>1, <2>2 DEF Lapse, RenewTooLate, LeaseStates, InForce
  <2>3. ASSUME ReadStatus
        PROVE  lease' \in [Leases -> LeaseStates] /\ InForce(lease') \subseteq InForce(lease)
    BY <2>1, <2>3 DEF ReadStatus, expireLeases, LeaseStates, InForce
  <2> QED
    BY <2>2, <2>3
<1>4. Leased'
  BY <1>1, <1>2, <1>3, LeasedKept
<1> QED
  BY <1>2, <1>3, <1>4, LeaseStep

LEMMA ReleaseLeaseStep ==
    ASSUME IInv, NEW l \in Leases, ReleaseLease(l)
    PROVE  IInv'
<1> DEFINE left == [lease EXCEPT ![l] = "released"]
<1>1. TypeOK /\ Sound(work) /\ NoStall /\ Counted /\ Chained /\ Leased
  BY DEF IInv
<1>2. /\ maybeStopResolved(work, left)
      /\ UNCHANGED <<work, aborted, clientInFlight, previous, publicationTails, stopping>>
  BY DEF ReleaseLease, publication
<1>3. left \in [Leases -> LeaseStates] /\ InForce(left) \subseteq InForce(lease)
  BY <1>1 DEF TypeOK, LeaseStates, InForce
<1> HIDE DEF left
<1>4. /\ Leased' /\ lease' \in [Leases -> LeaseStates]
      /\ stopWaiters' \subseteq Stops /\ stopped' \subseteq Stops
  BY <1>1, <1>2, <1>3, StopResolved
<1>5. Sound(work') /\ NoStall' /\ Counted'
  BY <1>1, <1>2, CountsKept DEF NoStall
<1>6. Chained'
  BY <1>1, <1>2, ChainKept
<1> QED
  BY <1>1, <1>2, <1>4, <1>5, <1>6, Assemble DEF TypeOK

LEMMA StopStep ==
    ASSUME IInv, NEW c \in Stops, NEW force \in BOOLEAN, stop(c, force)
    PROVE  IInv'
<1> DEFINE queued == IF force THEN {j \in entries : work.phase[j] = "queued"} ELSE {}
           w      == Cancelled(work, queued)
           left   == IF force THEN [x \in Leases |->
                                      IF lease[x] = "none" THEN "none" ELSE "released"]
                     ELSE lease
           reaped == IF entriesOf(w) = {} THEN expireLeases(left) ELSE left
           done   == entriesOf(w) = {} /\ LeaseCount(reaped) = 0
<1>1. /\ stopping' = TRUE
      /\ aborted' = IF force THEN aborted \cup entries ELSE aborted
      /\ work' = w /\ Release(queued) /\ lease' = reaped
      /\ stopWaiters' = IF done THEN stopWaiters ELSE stopWaiters \cup {c}
      /\ stopped' = IF done THEN stopped \cup {c} ELSE stopped
      /\ previous' = previous /\ publicationTails' = publicationTails
  BY DEF stop, publication
<1>2. TypeOK /\ NoStall /\ Counted /\ Chained /\ Leased
  BY DEF IInv
<1>3. queued \subseteq {k \in Jobs : work.phase[k] = "queued"} /\ entries \subseteq Jobs
  BY DEF entries, entriesOf
<1>4. left \in [Leases -> LeaseStates] /\ InForce(left) \subseteq InForce(lease)
  BY <1>2 DEF TypeOK, LeaseStates, InForce
<1> HIDE DEF queued, left
<1>5. /\ Sound(w) /\ w.poolActive = work.poolActive
      /\ w.phase = [k \in Jobs |-> IF k \in queued THEN "settled" ELSE work.phase[k]]
      /\ entriesOf(w) = entries \ queued /\ queued \subseteq entries
  BY <1>3, CancelledKeeps
<1> HIDE DEF w
<1>6. reaped \in [Leases -> LeaseStates] /\ InForce(reaped) \subseteq InForce(lease)
  <2>1. expireLeases(left) \in [Leases -> LeaseStates]
        /\ InForce(expireLeases(left)) \subseteq InForce(left)
    BY <1>4 DEF expireLeases, LeaseStates, InForce
  <2> QED
    BY <1>4, <2>1
<1> HIDE DEF reaped
<1>7. IsFiniteSet(InForce(reaped))
  BY <1>2, <1>6, FS_Subset DEF Leased
<1>8. done => entriesOf(w) = {} /\ InForce(reaped) = {}
  BY <1>7, FS_EmptySet DEF LeaseCount, InForce
<1> HIDE DEF done
<1>9. NoStall'
  <2>1. work'.poolActive = work.poolActive
    BY <1>1, <1>5
  <2>2. \A k \in Jobs : work'.phase[k] = "queued" => work.phase[k] = "queued"
    BY <1>1, <1>5
  <2> QED
    BY <1>2, <2>1, <2>2, StallKept
<1>10. Counted' /\ clientInFlight' \in [Clients -> Nat]
  <2>1. entriesOf(work') = entries \ queued
    BY <1>1, <1>5
  <2> QED
    BY <1>1, <1>2, <1>5, <2>1, ReleaseCounts
<1>11. Chained'
  <2>1. ASSUME NEW k \in Jobs
        PROVE  /\ work.phase[k] = "settled" => work'.phase[k] = "settled"
               /\ work.phase[k] \in {"waiting", "publishing"}
                    <=> work'.phase[k] \in {"waiting", "publishing"}
               /\ work.phase[k] = "waiting" => work'.phase[k] = "waiting"
    BY <1>1, <1>3, <1>5
  <2> QED
    BY <1>1, <1>2, <2>1, ChainKept
<1>12. Leased'
  <2>1. ASSUME stopped' # {} PROVE entriesOf(work') = {} /\ InForce(lease') = {}
    <3>1. CASE done
      BY <1>1, <1>8, <3>1
    <3>2. CASE ~done
      <4>1. stopped # {}
        BY <1>1, <2>1, <3>2
      <4>2. entries = {} /\ InForce(lease) = {}
        BY <1>2, <4>1 DEF Leased
      <4> QED
        BY <1>1, <1>5, <1>6, <4>2
    <3> QED
      BY <3>1, <3>2
  <2> QED
    BY <1>1, <1>7, <2>1 DEF Leased, entries
<1>13. Sound(work') /\ aborted' \subseteq Jobs
  BY <1>1, <1>2, <1>3, <1>5 DEF TypeOK
<1>14. stopWaiters' \subseteq Stops /\ stopped' \subseteq Stops
  BY <1>1, <1>2 DEF TypeOK
<1>15. lease' \in [Leases -> LeaseStates] /\ stopping' \in BOOLEAN
  BY <1>1, <1>6
<1>16. /\ previous' \in [Jobs -> Jobs \cup {None}]
       /\ publicationTails' \in [Workspaces -> Jobs \cup {None}]
  BY <1>1, <1>2 DEF TypeOK
<1> QED
  BY <1>9, <1>10, <1>11, <1>12, <1>13, <1>14, <1>15, <1>16, Assemble

LEMMA InitInv ==
    ASSUME Init
    PROVE  IInv
<1>1. /\ work = WorkOf([p \in Pools |-> << >>], [p \in Pools |-> 0], [j \in Jobs |-> "new"])
      /\ aborted = {} /\ clientInFlight = [c \in Clients |-> 0]
      /\ previous = [j \in Jobs |-> None]
      /\ publicationTails = [w \in Workspaces |-> None]
      /\ lease = [l \in Leases |-> "none"]
      /\ stopping = FALSE /\ stopWaiters = {} /\ stopped = {}
  BY DEF Init, WorkOf
<1>2. /\ work.queues = [p \in Pools |-> << >>] /\ work.poolActive = [p \in Pools |-> 0]
      /\ work.phase = [j \in Jobs |-> "new"]
  BY <1>1, WorkExcept
<1>3. work \in WorkType
  <2>1. [p \in Pools |-> << >>] \in [Pools -> Seq(Jobs)]
    OBVIOUS
  <2>2. [p \in Pools |-> 0] \in [Pools -> Nat] /\ [j \in Jobs |-> "new"] \in [Jobs -> Phases]
    BY DEF Phases
  <2> QED
    BY <1>1, <2>1, <2>2 DEF WorkType, WorkOf
<1>4. ASSUME NEW p \in Pools PROVE SoundPool(work, p)
  <2>1. ActiveIn(work, p) = {} /\ QueuedIn(work, p) = {}
    BY <1>2 DEF ActiveIn, QueuedIn, Active
  <2>2. work.poolActive[p] = 0 /\ work.queues[p] = << >>
    BY <1>2
  <2>3. Distinct(<< >>) /\ Range(<< >>) = {}
    BY DEF Distinct, Range
  <2>4. 0 <= pool_concurrency[p]
    BY SchedulerAssumption
  <2> QED
    BY <2>1, <2>2, <2>3, <2>4, FS_EmptySet DEF SoundPool
<1>5. ActiveCount(work) = 0
  <2>1. /\ work.poolActive["query"] = 0 /\ work.poolActive["source"] = 0
        /\ work.poolActive["structural"] = 0 /\ work.poolActive["semantic"] = 0
    BY <1>2 DEF Pools
  <2> QED
    BY SMTT(20), <2>1 DEF ActiveCount
<1>6. Sound(work)
  BY <1>3, <1>4, <1>5, SchedulerAssumption DEF Sound
<1>7. NoStall
  BY <1>2 DEF NoStall
<1>8. entries = {}
  BY <1>2 DEF entries, entriesOf, Active
<1>9. Counted
  <2> SUFFICES ASSUME NEW c \in Clients
               PROVE  /\ IsFiniteSet(InFlight(work, c))
                      /\ clientInFlight[c] = Cardinality(InFlight(work, c))
                      /\ clientInFlight[c] <= max_in_flight[c]
    BY DEF Counted
  <2>1. InFlight(work, c) = {}
    BY <1>8 DEF InFlight, entries
  <2>2. clientInFlight[c] = 0 /\ 0 <= max_in_flight[c]
    BY <1>1, SchedulerAssumption
  <2> QED
    BY <2>1, <2>2, FS_EmptySet
<1>10. Chained
  <2> SUFFICES ASSUME NEW x \in Workspaces PROVE \E n \in Nat : \E s : Chain(x, n, s)
    BY DEF Chained
  <2> DEFINE s == [i \in 1 .. 0 |-> x]
  <2>1. s \in [1 .. 0 -> Jobs]
    OBVIOUS
  <2>2. Published(x) = {} /\ publicationTails[x] = None
    BY <1>1, <1>2 DEF Published
  <2> HIDE DEF s
  <2>3. Chain(x, 0, s)
    BY <2>1, <2>2 DEF Chain, Over
  <2> QED
    BY <2>3
<1>11. Leased
  <2>1. InForce(lease) = {}
    BY <1>1 DEF InForce
  <2> QED
    BY <1>1, <2>1, FS_EmptySet, Zenon DEF Leased
<1>12. TypeOK
  BY <1>1, <1>3, Zenon DEF TypeOK, WorkType, LeaseStates
<1> QED
  BY <1>6, <1>7, <1>9, <1>10, <1>11, <1>12 DEF IInv

LEMMA NextInv ==
    ASSUME IInv, [Next]_vars
    PROVE  IInv'
<1>1. CASE UNCHANGED vars
  <2>1. UNCHANGED <<work, aborted, clientInFlight, previous, publicationTails,
                    stopping, stopWaiters, stopped>> /\ lease' = lease
    BY <1>1 DEF vars
  <2>2. TypeOK /\ Leased
    BY DEF IInv
  <2>3. Leased' /\ lease' \in [Leases -> LeaseStates]
    BY <2>1, <2>2, LeasedKept DEF TypeOK
  <2> QED
    BY <2>1, <2>3, LeaseStep
<1>2. ASSUME NEW j \in Jobs, submit(j) PROVE IInv'
  BY <1>2, SubmitStep
<1>3. ASSUME NEW j \in Jobs, cancel(j) PROVE IInv'
  BY <1>3, CancelStep
<1>4. ASSUME NEW p \in Pools, cancelPool(p) PROVE IInv'
  BY <1>4, CancelPoolStep
<1>5. ASSUME NEW j \in Jobs, RunThrows(j) PROVE IInv'
  BY <1>5, RunThrowsStep
<1>6. ASSUME NEW j \in Jobs, RunReturns(j) PROVE IInv'
  BY <1>6, RunReturnsStep
<1>7. ASSUME NEW j \in Jobs, PublishStarts(j) PROVE IInv'
  BY <1>7, PublishStartsStep
<1>8. ASSUME NEW j \in Jobs, NEW ok \in BOOLEAN, PublishEnds(j, ok) PROVE IInv'
  BY <1>8, PublishEndsStep
<1>9. ASSUME NEW l \in Leases, acquireRestartLease(l) PROVE IInv'
  BY <1>9, AcquireStep
<1>10. ASSUME NEW l \in Leases, Lapse(l) \/ RenewTooLate(l) PROVE IInv'
  BY <1>10, LapseStep
<1>11. ASSUME ReadStatus PROVE IInv'
  BY <1>11, LapseStep
<1>12. ASSUME NEW l \in Leases, ReleaseLease(l) PROVE IInv'
  BY <1>12, ReleaseLeaseStep
<1>13. ASSUME NEW c \in Stops, NEW force \in BOOLEAN, stop(c, force) PROVE IInv'
  BY <1>13, StopStep
<1> QED
  BY <1>1, <1>2, <1>3, <1>4, <1>5, <1>6, <1>7, <1>8, <1>9, <1>10, <1>11, <1>12,
     <1>13 DEF Next

LEMMA InvHolds == Spec => []IInv
<1>1. Init => IInv
  BY InitInv
<1>2. IInv /\ [Next]_vars => IInv'
  BY NextInv
<1> QED
  BY <1>1, <1>2, PTL DEF Spec

-----------------------------------------------------------------------------
(***************************************************************************)
(* The reserve                                                             *)
(***************************************************************************)

\* The step that ReserveHonoured allows.
ReserveKept ==
    Background(work') > Background(work) /\ work'.queues["query"] # << >>
      => LET queries == {j \in Jobs : /\ PoolOf[j] = "query"
                                      /\ work.phase[j] \in Active
                                      /\ work'.phase[j] \in Active}
         IN  Background(work') + Cardinality(queries) + query_reserved_slots
               <= max_active

\* The work that is pumped has no more background jobs than the last one, and
\* the queries that keep running are among its active ones.
LEMMA PumpKeepsReserve ==
    ASSUME Sound(work), NEW b, Sound(b), work' = pump(b),
           Background(b) <= Background(work),
           \A k \in Jobs : work.phase[k] \in Active /\ work'.phase[k] \in Active
                             => b.phase[k] \in Active
    PROVE  ReserveKept
<1> DEFINE queries == {j \in Jobs : /\ PoolOf[j] = "query"
                                    /\ work.phase[j] \in Active
                                    /\ work'.phase[j] \in Active}
<1> SUFFICES ASSUME Background(work') > Background(work), work'.queues["query"] # << >>
             PROVE  Background(work') + Cardinality(queries) + query_reserved_slots
                      <= max_active
  BY DEF ReserveKept
<1>1. Pumped(b, work')
  BY PumpWorks
<1>2. b \in WorkType /\ work \in WorkType /\ work' \in WorkType /\ "query" \in Pools
  BY <1>1 DEF Pumped, Sound, Pools
<1>3. Background(b) \in Nat /\ Background(work) \in Nat /\ Background(work') \in Nat
  BY <1>2, WorkTypes
<1>4. Background(work') + b.poolActive["query"] + query_reserved_slots <= max_active
  <2>1. Background(work') > Background(b)
    BY <1>3
  <2> QED
    BY <1>1, <2>1 DEF Pumped
<1>5. queries \subseteq ActiveIn(b, "query")
  BY DEF ActiveIn
<1>6. /\ IsFiniteSet(ActiveIn(b, "query"))
      /\ b.poolActive["query"] = Cardinality(ActiveIn(b, "query"))
  BY <1>2 DEF Sound, SoundPool
<1> HIDE DEF queries
<1>7. Cardinality(queries) \in Nat /\ Cardinality(queries) <= b.poolActive["query"]
  BY <1>5, <1>6, FS_Subset, FS_CardinalityType
<1>8. b.poolActive["query"] \in Nat /\ query_reserved_slots \in Nat /\ max_active \in Nat
  BY SMTT(20), <1>2, WorkTypes, SchedulerAssumption
<1> DEFINE q == b.poolActive["query"]
           bg == Background(work')
           n == Cardinality(queries)
<1>9. /\ bg + q + query_reserved_slots <= max_active /\ n <= q
      /\ bg \in Nat /\ q \in Nat /\ n \in Nat
  BY <1>3, <1>4, <1>7, <1>8
<1> HIDE DEF q, bg, n
<1>10. bg + n + query_reserved_slots <= max_active
  BY <1>8, <1>9
<1> QED
  BY <1>10 DEF bg, n

\* No background job starts.
LEMMA NoStartKeepsReserve ==
    ASSUME Sound(work), work'.poolActive = work.poolActive
    PROVE  ReserveKept
<1>1. Background(work') = Background(work) /\ Background(work) \in Nat
  BY WorkTypes DEF Sound, Background, ActiveCount
<1> QED
  BY <1>1 DEF ReserveKept

LEMMA FinishKeepsReserve ==
    ASSUME IInv, NEW j \in Jobs, work.phase[j] \in Active, Finish(j)
    PROVE  ReserveKept
<1> DEFINE b == Ended(j)
<1>1. Sound(work) /\ work' = pump(b)
  BY DEF IInv, Finish, Ended
<1>2. /\ Sound(b) /\ b.phase = [work.phase EXCEPT ![j] = "settled"]
      /\ Background(b) <= Background(work)
  BY <1>1, EndedSound
<1> HIDE DEF b
<1>3. work.phase \in [Jobs -> Phases]
  BY <1>1, WorkTypes DEF Sound
<1>4. Pumped(b, work')
  BY <1>1, <1>2, PumpWorks
<1>5. ASSUME NEW k \in Jobs, work.phase[k] \in Active, work'.phase[k] \in Active
      PROVE  b.phase[k] \in Active
  <2>1. work'.phase[k] = b.phase[k] \/ b.phase[k] = "queued"
    BY <1>4 DEF Pumped
  <2> QED
    BY <1>2, <1>3, <1>5, <2>1 DEF Active
<1> QED
  BY <1>1, <1>2, <1>5, PumpKeepsReserve, Zenon

LEMMA NextKeepsReserve ==
    ASSUME IInv, Next
    PROVE  ReserveKept
<1>1. Sound(work) /\ work.phase \in [Jobs -> Phases]
  BY WorkTypes DEF IInv, Sound
<1>2. ASSUME NEW j \in Jobs, submit(j) PROVE ReserveKept
  <2> DEFINE b == Enqueued(j)
  <2>1. work.phase[j] = "new" /\ work' = pump(b)
    BY <1>2 DEF submit
  <2>2. /\ Sound(b) /\ b.poolActive = work.poolActive
        /\ b.phase = [work.phase EXCEPT ![j] = "queued"]
    BY <1>1, <2>1, EnqueuedSound
  <2> HIDE DEF b
  <2>3. Background(b) = Background(work) /\ Background(work) \in Nat
    BY <1>1, <2>2, WorkTypes DEF Sound, Background, ActiveCount
  <2>4. \A k \in Jobs : work.phase[k] \in Active => b.phase[k] \in Active
    BY <1>1, <2>1, <2>2 DEF Active
  <2> QED
    BY SMTT(20), <1>1, <2>1, <2>2, <2>3, <2>4, PumpKeepsReserve
<1>3. ASSUME NEW j \in Jobs, cancel(j) PROVE ReserveKept
  <2> DEFINE queued == {j} \cap {k \in Jobs : work.phase[k] = "queued"}
  <2>1. work' = Cancelled(work, queued)
    BY <1>3 DEF cancel
  <2>2. work'.poolActive = work.poolActive
    BY <2>1, CancelledKeeps, Zenon
  <2> QED
    BY <1>1, <2>2, NoStartKeepsReserve
<1>4. ASSUME NEW pool \in Pools, cancelPool(pool) PROVE ReserveKept
  <2> DEFINE cancelled == {j \in entries : PoolOf[j] = pool}
             queued    == {j \in cancelled : work.phase[j] = "queued"}
             b         == Cancelled(work, queued)
  <2>1. work' = pump(b)
    BY <1>4 DEF cancelPool
  <2>2. queued \subseteq {k \in Jobs : work.phase[k] = "queued"}
    BY DEF entries, entriesOf
  <2> HIDE DEF queued
  <2>3. /\ Sound(b) /\ b.poolActive = work.poolActive
        /\ b.phase = [k \in Jobs |-> IF k \in queued THEN "settled" ELSE work.phase[k]]
    BY <2>2, CancelledKeeps
  <2> HIDE DEF b
  <2>4. Background(b) = Background(work) /\ Background(work) \in Nat
    BY <1>1, <2>3, WorkTypes DEF Sound, Background, ActiveCount
  <2>5. \A k \in Jobs : work.phase[k] \in Active => b.phase[k] \in Active
    BY <2>2, <2>3 DEF Active
  <2> QED
    BY SMTT(20), <1>1, <2>1, <2>3, <2>4, <2>5, PumpKeepsReserve
<1>5. ASSUME NEW j \in Jobs, RunThrows(j) PROVE ReserveKept
  BY <1>5, FinishKeepsReserve DEF RunThrows, Active
<1>6. ASSUME NEW j \in Jobs, work.phase[j] \in Active, NEW x \in Active, work' = At(j, x)
      PROVE  ReserveKept
  <2>1. At(j, x).poolActive = work.poolActive
    BY <1>1, <1>6, StillActiveSound, Zenon
  <2> QED
    BY <1>1, <1>6, <2>1, NoStartKeepsReserve
<1>7. ASSUME NEW j \in Jobs, RunReturns(j) PROVE ReserveKept
  <2>1. work.phase[j] \in Active /\ "publishing" \in Active /\ "waiting" \in Active
    BY <1>7 DEF RunReturns, Active
  <2>2. Finish(j) \/ work' = At(j, "publishing") \/ work' = At(j, "waiting")
    BY <1>7 DEF RunReturns, At
  <2> QED
    BY <1>6, <2>1, <2>2, FinishKeepsReserve
<1>8. ASSUME NEW j \in Jobs, PublishStarts(j) PROVE ReserveKept
  <2>1. work.phase[j] \in Active /\ "publishing" \in Active /\ work' = At(j, "publishing")
    BY <1>8 DEF PublishStarts, Active, At
  <2> QED
    BY <1>6, <2>1
<1>9. ASSUME NEW j \in Jobs, NEW ok \in BOOLEAN, PublishEnds(j, ok) PROVE ReserveKept
  <2>1. work.phase[j] \in Active /\ Finish(j)
    BY <1>9 DEF PublishEnds, Active
  <2> QED
    BY <2>1, FinishKeepsReserve
<1>10. ASSUME work' = work PROVE ReserveKept
  BY <1>1, <1>10, NoStartKeepsReserve
<1>11. ASSUME NEW l \in Leases,
              \/ acquireRestartLease(l) \/ Lapse(l) \/ RenewTooLate(l) \/ ReleaseLease(l)
       PROVE  ReserveKept
  BY <1>10, <1>11 DEF acquireRestartLease, Lapse, RenewTooLate, ReleaseLease
<1>12. ASSUME ReadStatus PROVE ReserveKept
  BY <1>10, <1>12 DEF ReadStatus
<1>13. ASSUME NEW c \in Stops, NEW force \in BOOLEAN, stop(c, force) PROVE ReserveKept
  <2> DEFINE queued == IF force THEN {j \in entries : work.phase[j] = "queued"} ELSE {}
  <2>1. work' = Cancelled(work, queued)
    BY <1>13 DEF stop
  <2>2. queued \subseteq {k \in Jobs : work.phase[k] = "queued"}
    BY DEF entries, entriesOf
  <2> HIDE DEF queued
  <2>3. work'.poolActive = work.poolActive
    BY <2>1, <2>2, CancelledKeeps, Zenon
  <2> QED
    BY <1>1, <2>3, NoStartKeepsReserve
<1> QED
  BY <1>2, <1>3, <1>4, <1>5, <1>7, <1>8, <1>9, <1>11, <1>12, <1>13 DEF Next

-----------------------------------------------------------------------------
(***************************************************************************)
(* Theorems                                                                *)
(***************************************************************************)

\* Every variable keeps its shape; in particular no counter of the scheduler
\* goes below zero, whichever of cancel, cancelPool, stop and the end of run
\* settles a job.
THEOREM SchedulerTypes == Spec => []TypeOK
<1>1. IInv => TypeOK
  BY DEF IInv
<1> QED
  BY <1>1, InvHolds, PTL

\* The counters of the pools and of the clients are exact, every queue holds
\* each queued job of its pool once, and pool concurrency, max_active and the
\* clients' quotas are never exceeded, for any limits and any number of jobs.
THEOREM LimitsHold == Spec => []AdmissionLimits
<1>1. ASSUME IInv PROVE AdmissionLimits
  <2>1. Sound(work) /\ Counted
    BY <1>1 DEF IInv
  <2>2. ASSUME NEW p \in Pools
        PROVE  /\ work.poolActive[p]
                    = Cardinality({j \in Jobs : PoolOf[j] = p /\ work.phase[j] \in Active})
               /\ work.poolActive[p] <= pool_concurrency[p]
               /\ Range(work.queues[p])
                    = {j \in Jobs : PoolOf[j] = p /\ work.phase[j] = "queued"}
               /\ Len(work.queues[p]) = Cardinality(Range(work.queues[p]))
    <3>1. SoundPool(work, p) /\ work.queues[p] \in Seq(Jobs)
      BY <2>1, WorkTypes DEF Sound
    <3>2. Len(work.queues[p]) = Cardinality(Range(work.queues[p]))
      BY <3>1, LengthOfQueue DEF SoundPool
    <3> QED
      BY <3>1, <3>2 DEF SoundPool, ActiveIn, QueuedIn
  <2>3. ActiveCount(work) <= max_active
    BY <2>1 DEF Sound
  <2>4. \A c \in Clients :
           /\ clientInFlight[c] = Cardinality({j \in entries : ClientOf[j] = c})
           /\ clientInFlight[c] <= max_in_flight[c]
    BY <2>1 DEF Counted, InFlight, entries
  <2> QED
    BY <2>2, <2>3, <2>4 DEF AdmissionLimits
<1> QED
  BY <1>1, InvHolds, PTL

\* A queued job is never left without an active one whose end pumps the
\* queues, although cancel and stop do not pump and the reserve holds jobs
\* back: pump, however many passes it makes, ends only when no pool may start.
THEOREM NeverStalls == Spec => []NoStall
<1>1. IInv => NoStall
  BY DEF IInv
<1> QED
  BY <1>1, InvHolds, PTL

\* Publications of a workspace do not overlap: the chain of promises through
\* publicationTails is a queue of which only the first may publish.
THEOREM PublicationsSerialised == Spec => []OnePublication
<1>1. ASSUME IInv PROVE OnePublication
  <2> SUFFICES ASSUME NEW j \in Jobs, NEW k \in Jobs,
                      work.phase[j] = "publishing", work.phase[k] = "publishing",
                      WorkspaceOf[j] = WorkspaceOf[k], WorkspaceOf[j] # None
               PROVE  j = k
    BY DEF OnePublication
  <2> DEFINE x == WorkspaceOf[j]
  <2>1. x \in Workspaces /\ j \in Published(x) /\ k \in Published(x)
    BY SchedulerAssumption DEF Published
  <2> HIDE DEF x
  <2>2. PICK n \in Nat : \E s : Chain(x, n, s)
    BY <1>1, <2>1 DEF IInv, Chained
  <2>3. PICK s : Chain(x, n, s)
    BY <2>2
  <2>4. PICK a \in 1 .. n : s[a] = j
    BY <2>1, <2>3 DEF Chain
  <2>5. PICK b \in 1 .. n : s[b] = k
    BY <2>1, <2>3 DEF Chain
  <2>6. \A i \in 2 .. n : work.phase[s[i]] = "waiting"
    BY <2>3 DEF Chain
  <2>7. a = 1 /\ b = 1
    BY <2>4, <2>5, <2>6
  <2> QED
    BY <2>4, <2>5, <2>7
<1> QED
  BY <1>1, InvHolds, PTL

\* Once a stop() call has returned nothing is queued or runs and no lease is
\* in force, and that stays so: the daemon may close its stores.
THEOREM StopIsQuiet == Spec => []StoppedIsQuiet
<1>1. ASSUME IInv PROVE StoppedIsQuiet
  <2> SUFFICES ASSUME stopped # {}
               PROVE  /\ stopping /\ entries = {}
                      /\ ActiveCount(work) = 0 /\ LeaseCount(lease) = 0
    BY DEF StoppedIsQuiet
  <2>1. stopping /\ entries = {} /\ InForce(lease) = {} /\ Sound(work)
    BY <1>1 DEF IInv, Leased
  <2>2. \A p \in Pools : work.poolActive[p] = 0
    <3>1. \A p \in Pools : ActiveIn(work, p) = {}
      BY <2>1 DEF ActiveIn, entries, entriesOf
    <3> QED
      BY <2>1, <3>1, FS_EmptySet DEF Sound, SoundPool
  <2>3. /\ work.poolActive["query"] = 0 /\ work.poolActive["source"] = 0
        /\ work.poolActive["structural"] = 0 /\ work.poolActive["semantic"] = 0
    BY <2>2 DEF Pools
  <2>4. ActiveCount(work) = 0
    BY <2>3 DEF ActiveCount
  <2>5. LeaseCount(lease) = 0
    BY <2>1, FS_EmptySet DEF LeaseCount, InForce
  <2> QED
    BY <2>1, <2>4, <2>5
<1> QED
  BY <1>1, InvHolds, PTL

\* Whatever frees a slot or adds a job, pump starts background jobs past a
\* queued query only while the reserved slots stay free, for any reserve.
THEOREM ReserveIsHonoured == Spec => ReserveHonoured
<1>1. IInv /\ [Next]_vars => [ReserveKept]_vars
  BY NextKeepsReserve
<1>2. ReserveHonoured <=> [][ReserveKept]_vars
  BY DEF ReserveHonoured, ReserveKept
<1> QED
  BY <1>1, <1>2, InvHolds, PTL DEF Spec

=============================================================================
