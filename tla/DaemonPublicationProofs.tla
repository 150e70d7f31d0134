----------------------- MODULE DaemonPublicationProofs -----------------------
(***************************************************************************)
(* DaemonScheduler keeps the order of publications, for every set of jobs  *)
(* and workspaces.  The chain of previous that DaemonSchedulerProofs finds *)
(* for each workspace (Chain) is the only way to line its publications up  *)
(* (LineUnique), so that the line a step leaves is known once a chain of   *)
(* the step's outcome is exhibited.                                        *)
(***************************************************************************)
EXTENDS DaemonSchedulerProofs

\* s lists the n members of js, along a chain that starts outside js.
Lists(s, n, js, chain) ==
    /\ s \in [1 .. n -> js]
    /\ \A a, b \in 1 .. n : s[a] = s[b] => a = b
    /\ \A p \in js : \E i \in 1 .. n : s[i] = p
    /\ n > 0 => chain[s[1]] \notin js
    /\ \A i \in 2 .. n : chain[s[i]] = s[i - 1]

LEMMA LineUnique ==
    ASSUME NEW js, NEW chain, NEW n \in Nat, NEW s, Lists(s, n, js, chain)
    PROVE  InLine(js, chain) = s
<1>0. /\ s \in [1 .. n -> js]
      /\ \A a, b \in 1 .. n : s[a] = s[b] => a = b
      /\ \A p \in js : \E i \in 1 .. n : s[i] = p
      /\ n > 0 => chain[s[1]] \notin js
      /\ \A i \in 2 .. n : chain[s[i]] = s[i - 1]
  BY DEF Lists
<1>1. Cardinality(js) = n
  <2>1. s \in Injection(1 .. n, js) /\ s \in Surjection(1 .. n, js)
    BY <1>0 DEF Injection, IsInjective, Surjection
  <2>2. ExistsBijection(1 .. n, js)
    BY <2>1 DEF Bijection, ExistsBijection
  <2> QED
    BY <2>2, FS_CountingElements, FS_NatBijection
<1> DEFINE Lined(t) == Range(t) = js /\ \A i \in 2 .. n : chain[t[i]] = t[i - 1]
<1>2. InLine(js, chain) = CHOOSE t \in [1 .. n -> js] : Lined(t)
  BY <1>1 DEF InLine
<1>3. Lined(s) /\ s \in [1 .. n -> js]
  BY <1>0 DEF Range
<1>4. ASSUME NEW t \in [1 .. n -> js], Lined(t) PROVE t = s
  <2>1. \A p \in js : \E k \in 1 .. n : t[k] = p
    BY <1>4 DEF Range
  <2>2. ASSUME NEW i \in 2 .. n PROVE chain[t[i]] = t[i - 1] /\ t[i - 1] \in js
    <3>1. i - 1 \in 1 .. n
      OBVIOUS
    <3>2. t[i - 1] \in js
      BY <3>1
    <3> QED
      BY <1>4, <3>2
  <2> DEFINE S == {m \in Nat : m + 1 \in 1 .. n => t[m + 1] = s[m + 1]}
  <2>3. 0 \in S
    <3> SUFFICES ASSUME 1 \in 1 .. n PROVE t[1] = s[1]
      OBVIOUS
    <3>1. PICK k \in 1 .. n : t[k] = s[1]
      BY <1>0, <2>1
    <3>2. n > 0 /\ chain[s[1]] \notin js
      BY <1>0
    <3>3. k = 1
      <4> SUFFICES ASSUME k \in 2 .. n PROVE FALSE
        OBVIOUS
      <4>1. chain[t[k]] = t[k - 1] /\ t[k - 1] \in js
        BY <2>2
      <4> QED
        BY <3>1, <3>2, <4>1
    <3> QED
      BY <3>1, <3>3
  <2>4. ASSUME NEW m \in Nat, m \in S PROVE m + 1 \in S
    <3> SUFFICES ASSUME m + 2 \in 1 .. n PROVE t[m + 2] = s[m + 2]
      OBVIOUS
    <3>1. m + 1 \in 1 .. n /\ m + 2 \in 2 .. n /\ (m + 2) - 1 = m + 1
      OBVIOUS
    <3>2. t[m + 1] = s[m + 1]
      BY <2>4, <3>1
    <3>3. chain[t[m + 2]] = s[m + 1] /\ s[m + 1] \in js /\ t[m + 2] \in js
      BY <1>0, <2>2, <3>1, <3>2
    <3>4. PICK k \in 1 .. n : s[k] = t[m + 2]
      BY <1>0, <3>3
    <3>5. k # 1
      <4>1. n > 0
        BY <3>1
      <4>2. chain[s[1]] \notin js
        BY <1>0, <4>1
      <4> QED
        BY <3>3, <3>4, <4>2
    <3>6. k \in 2 .. n /\ k - 1 \in 1 .. n
      BY <3>5
    <3>7. s[k - 1] = s[m + 1]
      BY <1>0, <3>3, <3>4, <3>6
    <3>8. k - 1 = m + 1
      BY <1>0, <3>1, <3>6, <3>7
    <3>9. k = m + 2
      BY <3>6, <3>8
    <3> QED
      BY <3>4, <3>9
  <2>5. Nat \subseteq S
    <3> HIDE DEF S
    <3> QED
      BY <2>3, <2>4, Induction
  <2>6. ASSUME NEW i \in 1 .. n PROVE t[i] = s[i]
    <3>1. i - 1 \in Nat /\ (i - 1) + 1 = i
      OBVIOUS
    <3>2. i - 1 \in S
      BY <2>5, <3>1
    <3> QED
      BY <3>1, <3>2
  <2> QED
    BY <1>0, <2>6
<1> HIDE DEF Lined
<1> QED
  BY <1>2, <1>3, <1>4

LEMMA AppendIs ==
    ASSUME NEW s \in Seq(Jobs), NEW j \in Jobs
    PROVE  /\ Append(s, j) \in [1 .. Len(s) + 1 -> Jobs] /\ Append(s, j)[Len(s) + 1] = j
           /\ \A i \in 1 .. Len(s) : Append(s, j)[i] = s[i]
<1> DEFINE t == Append(s, j)
<1>1. /\ t \in Seq(Jobs) /\ Len(t) = Len(s) + 1 /\ t[Len(s) + 1] = j
      /\ \A i \in 1 .. Len(s) : t[i] = s[i]
  OBVIOUS
<1> HIDE DEF t
<1>2. t \in [1 .. Len(s) + 1 -> Jobs]
  BY <1>1
<1> QED
  BY <1>1, <1>2 DEF t

-----------------------------------------------------------------------------
Line(x) == InLine(PublicationsOf(x, work.phase), previous)
Begun == {j \in Jobs : WorkspaceOf[j] # None /\ work.phase[j] = "publishing"}

\* The chain of a workspace is its line.
LEMMA LineIsChain ==
    ASSUME TypeOK, NEW x, NEW n \in Nat, NEW s, Chain(x, n, s)
    PROVE  /\ Line(x) = s /\ s \in [1 .. n -> Jobs]
           /\ s \in Seq(Jobs) /\ Len(s) = n /\ DOMAIN s = 1 .. n
<1> DEFINE js == PublicationsOf(x, work.phase)
<1>1. js = Published(x) /\ None \notin Jobs /\ js \subseteq Jobs
  BY SchedulerAssumption DEF PublicationsOf, Published
<1>2. s \in [1 .. n -> Jobs]
  BY DEF Chain
<1>3. \A i \in 1 .. n : s[i] \in js
  BY <1>1, <1>2 DEF Chain
<1>4. s \in [1 .. n -> js]
  BY <1>2, <1>3
<1>5. n > 0 => previous[s[1]] \notin js
  BY <1>1 DEF Chain, Over, PublicationsOf
<1>6. /\ \A a, b \in 1 .. n : s[a] = s[b] => a = b
      /\ \A p \in js : \E i \in 1 .. n : s[i] = p
      /\ \A i \in 2 .. n : previous[s[i]] = s[i - 1]
  BY <1>1 DEF Chain
<1> HIDE DEF js
<1>7. InLine(js, previous) = s
  <2>1. Lists(s, n, js, previous)
    BY <1>4, <1>5, <1>6 DEF Lists
  <2> QED
    BY <2>1, LineUnique
<1> QED
  BY <1>2, <1>7 DEF Line, js

\* A step that moves no publication of a workspace.
LEMMA Unmoved ==
    ASSUME previous' = previous,
           \A j \in Jobs : WorkspaceOf[j] # None =>
             /\ work'.phase[j] = "waiting" <=> work.phase[j] = "waiting"
             /\ work'.phase[j] = "publishing" <=> work.phase[j] = "publishing"
    PROVE  (\A x \in Workspaces : Line(x)' = Line(x)) /\ Begun' = Begun
<1>1. ASSUME NEW x \in Workspaces
      PROVE  PublicationsOf(x, work'.phase) = PublicationsOf(x, work.phase)
  <2>1. x # None
    BY SchedulerAssumption
  <2> QED
    BY <2>1 DEF PublicationsOf
<1>2. Begun' = Begun
  BY DEF Begun
<1> QED
  BY <1>1, <1>2 DEF Line

\* What a waiting or publishing job of a workspace is in its line.
LEMMA InItsLine ==
    ASSUME IInv, NEW j \in Jobs, WorkspaceOf[j] # None,
           \/ work.phase[j] = "publishing"
           \/ work.phase[j] = "waiting" /\ Over(previous[j])
    PROVE  Line(WorkspaceOf[j]) # << >> /\ Head(Line(WorkspaceOf[j])) = j
<1> DEFINE x == WorkspaceOf[j]
<1>1. x \in Workspaces /\ j \in Published(x) /\ None \notin Jobs
  BY SchedulerAssumption DEF Published
<1>2. PICK n \in Nat : \E s : Chain(x, n, s)
  BY <1>1 DEF IInv, Chained
<1>3. PICK s : Chain(x, n, s)
  BY <1>2
<1> HIDE DEF x
<1>4. /\ Line(x) = s /\ s \in [1 .. n -> Jobs]
      /\ s \in Seq(Jobs) /\ Len(s) = n /\ DOMAIN s = 1 .. n
  BY <1>3, LineIsChain DEF IInv
<1>5. PICK i \in 1 .. n : s[i] = j
  BY <1>1, <1>3 DEF Chain
<1>6. i = 1
  <2> SUFFICES ASSUME i \in 2 .. n PROVE FALSE
    OBVIOUS
  <2>1. previous[j] = s[i - 1] /\ work.phase[j] = "waiting"
    BY <1>3, <1>5 DEF Chain
  <2>2. i - 1 \in 1 .. n /\ s[i - 1] \in Jobs
    BY <1>4
  <2>3. s[i - 1] \in Published(x)
    BY <1>3, <2>2 DEF Chain
  <2> QED
    BY <1>1, <2>1, <2>2, <2>3 DEF Over, Published
<1>7. s # << >> /\ Head(s) = s[1]
  BY <1>4, <1>5
<1> QED
  BY <1>4, <1>5, <1>6, <1>7 DEF x

\* The line of a workspace when a publication joins it.
LEMMA LineGrows ==
    ASSUME IInv, NEW j \in Jobs, work.phase[j] = "running", NEW x \in Workspaces,
           WorkspaceOf[j] # None,
           work'.phase = [work.phase EXCEPT ![j] = "waiting"],
           previous' = [previous EXCEPT ![j] = publicationTails[WorkspaceOf[j]]]
    PROVE  /\ Line(x)' = IF x = WorkspaceOf[j] THEN Append(Line(x), j) ELSE Line(x)
           /\ \A i \in DOMAIN Line(x) : Line(x)[i] # j
<1>1. /\ work.phase \in [Jobs -> Phases] /\ previous \in [Jobs -> Jobs \cup {None}]
      /\ publicationTails \in [Workspaces -> Jobs \cup {None}] /\ TypeOK
  BY DEF IInv, TypeOK
<1>2. WorkspaceOf[j] \in Workspaces /\ None \notin Jobs
  BY SchedulerAssumption
<1>3. PICK n \in Nat : \E s : Chain(x, n, s)
  BY DEF IInv, Chained
<1>4. PICK s : Chain(x, n, s)
  BY <1>3
<1>5. /\ Line(x) = s /\ s \in [1 .. n -> Jobs]
      /\ s \in Seq(Jobs) /\ Len(s) = n /\ DOMAIN s = 1 .. n
  BY <1>1, <1>4, LineIsChain
<1>6. \A i \in 1 .. n : /\ s[i] \in Published(x) /\ s[i] # j
                        /\ previous'[s[i]] = previous[s[i]]
  <2> SUFFICES ASSUME NEW i \in 1 .. n
               PROVE  /\ s[i] \in Published(x) /\ s[i] # j
                      /\ previous'[s[i]] = previous[s[i]]
    OBVIOUS
  <2>1. s[i] \in Jobs /\ s[i] \in Published(x)
    BY <1>4, <1>5 DEF Chain
  <2> QED
    BY <1>1, <2>1 DEF Published
<1> DEFINE js == PublicationsOf(x, work'.phase)
           t == IF x = WorkspaceOf[j] THEN Append(s, j) ELSE s
           m == IF x = WorkspaceOf[j] THEN n + 1 ELSE n
<1>7. js = Published(x) \cup (IF x = WorkspaceOf[j] THEN {j} ELSE {})
  BY <1>1 DEF PublicationsOf, Published
<1>8. /\ m \in Nat /\ t \in [1 .. m -> Jobs] /\ \A i \in 1 .. n : i \in 1 .. m /\ t[i] = s[i]
      /\ x = WorkspaceOf[j] => m = n + 1 /\ t[m] = j
      /\ x # WorkspaceOf[j] => m = n
  <2>1. CASE x = WorkspaceOf[j]
    <3>1. m = n + 1 /\ t = Append(s, j)
      BY <2>1
    <3>2. /\ Append(s, j) \in [1 .. n + 1 -> Jobs] /\ Append(s, j)[n + 1] = j
          /\ \A i \in 1 .. n : Append(s, j)[i] = s[i]
      <4>1. s \in Seq(Jobs) /\ Len(s) = n
        BY <1>5
      <4>2. /\ Append(s, j) \in [1 .. Len(s) + 1 -> Jobs]
            /\ Append(s, j)[Len(s) + 1] = j
            /\ \A i \in 1 .. Len(s) : Append(s, j)[i] = s[i]
        BY <4>1, AppendIs, Zenon
      <4> QED
        BY <4>1, <4>2, Zenon
    <3> QED
      BY <2>1, <3>1, <3>2
  <2>2. CASE x # WorkspaceOf[j]
    BY <1>5, <2>2
  <2> QED
    BY <2>1, <2>2
<1>j. j \notin Published(x)
  BY DEF Published
<1> HIDE DEF js, t, m
<1>9. t \in [1 .. m -> js] /\ \A p \in js : \E i \in 1 .. m : t[i] = p
  <2>1. ASSUME NEW i \in 1 .. m PROVE t[i] \in js
    <3>1. CASE i \in 1 .. n
      BY <1>6, <1>7, <1>8, <3>1
    <3>2. CASE i \notin 1 .. n
      BY <1>7, <1>8, <3>2
    <3> QED
      BY <3>1, <3>2
  <2>2. ASSUME NEW p \in js PROVE \E i \in 1 .. m : t[i] = p
    <3>1. CASE p \in Published(x)
      <4>1. PICK i \in 1 .. n : s[i] = p
        BY <1>4, <3>1 DEF Chain, Published
      <4> QED
        BY <1>8, <4>1
    <3>2. CASE p \notin Published(x)
      <4>1. p = j /\ x = WorkspaceOf[j]
        BY <1>7, <3>2
      <4>2. m \in 1 .. m /\ t[m] = j
        BY <1>8, <4>1
      <4> QED
        BY <4>1, <4>2
    <3> QED
      BY <3>1, <3>2
  <2> QED
    BY <1>8, <2>1, <2>2
<1>10. \A a, b \in 1 .. m : t[a] = t[b] => a = b
  <2>1. \A a, b \in 1 .. n : s[a] = s[b] => a = b
    BY <1>4 DEF Chain
  <2> QED
    BY <1>6, <1>8, <2>1
<1>11. \A i \in 2 .. m : previous'[t[i]] = t[i - 1]
  <2> SUFFICES ASSUME NEW i \in 2 .. m PROVE previous'[t[i]] = t[i - 1]
    OBVIOUS
  <2>1. CASE i \in 1 .. n
    <3>1. i \in 2 .. n /\ i - 1 \in 1 .. n
      BY <2>1
    <3>2. previous[s[i]] = s[i - 1]
      BY <1>4, <3>1 DEF Chain
    <3> QED
      BY <1>6, <1>8, <2>1, <3>1, <3>2
  <2>2. CASE i \notin 1 .. n
    <3>1. x = WorkspaceOf[j] /\ i = n + 1 /\ t[i] = j /\ n > 0 /\ n \in 1 .. n /\ i - 1 = n
      BY <1>8, <2>2
    <3>2. previous'[j] = publicationTails[x] /\ publicationTails[x] = s[n]
      BY <1>1, <1>4, <3>1 DEF Chain
    <3> QED
      BY <1>8, <3>1, <3>2
  <2> QED
    BY <2>1, <2>2
<1>12. m > 0 => previous'[t[1]] \notin js
  <2> SUFFICES ASSUME m > 0 PROVE previous'[t[1]] \notin js
    OBVIOUS
  <2>1. ASSUME NEW k \in Jobs \cup {None}, Over(k) PROVE k \notin js
    BY <1>1, <1>2, <1>7, <2>1 DEF Over, Published
  <2>2. CASE n > 0
    <3>1. 1 \in 1 .. n /\ Over(previous[s[1]])
      BY <1>4, <2>2 DEF Chain
    <3>2. previous'[t[1]] = previous[s[1]] /\ previous[s[1]] \in Jobs \cup {None}
      BY <1>1, <1>5, <1>6, <1>8, <3>1
    <3> QED
      BY <2>1, <3>1, <3>2
  <2>3. CASE n = 0
    <3>1. x = WorkspaceOf[j] /\ t[1] = j /\ Over(publicationTails[x])
      BY <1>4, <1>8, <2>3 DEF Chain
    <3>2. previous'[j] = publicationTails[x] /\ publicationTails[x] \in Jobs \cup {None}
      BY <1>1, <3>1
    <3> QED
      BY <2>1, <3>1, <3>2
  <2> QED
    BY <2>2, <2>3
<1>13. InLine(js, previous') = t
  <2>1. /\ m \in Nat /\ t \in [1 .. m -> js]
        /\ \A p \in js : \E i \in 1 .. m : t[i] = p
    BY <1>8, <1>9
  <2> DEFINE chain == previous'
  <2>2. /\ \A a, b \in 1 .. m : t[a] = t[b] => a = b
        /\ m > 0 => chain[t[1]] \notin js
        /\ \A i \in 2 .. m : chain[t[i]] = t[i - 1]
    BY <1>10, <1>11, <1>12
  <2> HIDE DEF chain
  <2>3. Lists(t, m, js, chain)
    BY <2>1, <2>2 DEF Lists
  <2> QED
    BY <2>1, <2>3, LineUnique DEF chain
<1>14. Line(x)' = t
  BY <1>13 DEF Line, js
<1> QED
  BY <1>5, <1>6, <1>14 DEF t

\* The line of a workspace when a publication ends, which is the first of it.
LEMMA LineShrinks ==
    ASSUME IInv, NEW j \in Jobs, work.phase[j] = "publishing", NEW x \in Workspaces,
           previous' = previous, work'.phase[j] = "settled",
           \A k \in Jobs \ {j} :
             /\ work'.phase[k] = "waiting" <=> work.phase[k] = "waiting"
             /\ work'.phase[k] = "publishing" <=> work.phase[k] = "publishing"
    PROVE  Line(x)' = IF x = WorkspaceOf[j] THEN Tail(Line(x)) ELSE Line(x)
<1>1. TypeOK /\ None \notin Jobs /\ previous \in [Jobs -> Jobs \cup {None}] /\ x # None
  BY SchedulerAssumption DEF IInv, TypeOK
<1>2. PICK n \in Nat : \E s : Chain(x, n, s)
  BY DEF IInv, Chained
<1>3. PICK s : Chain(x, n, s)
  BY <1>2
<1>4. /\ Line(x) = s /\ s \in [1 .. n -> Jobs]
      /\ s \in Seq(Jobs) /\ Len(s) = n /\ DOMAIN s = 1 .. n
  BY <1>1, <1>3, LineIsChain
<1>5. CASE x # WorkspaceOf[j]
  <2>1. PublicationsOf(x, work'.phase) = PublicationsOf(x, work.phase)
    BY <1>5 DEF PublicationsOf
  <2> QED
    BY <1>5, <2>1 DEF Line
<1>6. CASE x = WorkspaceOf[j]
  <2>1. s # << >> /\ Head(s) = j /\ n > 0 /\ s[1] = j
    BY <1>1, <1>4, <1>6, InItsLine
  <2> DEFINE js == PublicationsOf(x, work'.phase)
             t == Tail(s)
             m == n - 1
  <2>2. js = Published(x) \ {j}
    BY <1>6 DEF PublicationsOf, Published
  <2>3. /\ m \in Nat /\ n = m + 1 /\ t \in [1 .. m -> Jobs]
        /\ \A i \in 1 .. m : t[i] = s[i + 1] /\ i + 1 \in 2 .. n
    <3>1. m \in Nat /\ n = m + 1 /\ \A i \in 1 .. m : i + 1 \in 2 .. n
      BY <2>1
    <3>2. t \in Seq(Jobs) /\ Len(t) = m /\ \A i \in 1 .. m : t[i] = s[i + 1]
      BY <1>4, <2>1, <3>1
    <3>3. t \in [1 .. m -> Jobs]
      <4> HIDE DEF t
      <4> QED
        BY <3>2
    <3> QED
      BY <3>1, <3>2, <3>3
  <2>4. \A a, b \in 1 .. n : s[a] = s[b] => a = b
    BY <1>3 DEF Chain
  <2>5. \A k \in Jobs : k \in Published(x) <=> \E i \in 1 .. n : s[i] = k
    BY <1>3 DEF Chain
  <2> HIDE DEF js, t, m
  <2>6. t \in [1 .. m -> js]
    <3> SUFFICES ASSUME NEW i \in 1 .. m PROVE t[i] \in js
      BY <2>3
    <3>1. t[i] = s[i + 1] /\ i + 1 \in 1 .. n /\ i + 1 # 1 /\ 1 \in 1 .. n
      BY <2>3
    <3>2. s[i + 1] # j /\ s[i + 1] \in Jobs
      BY <1>4, <2>1, <2>4, <3>1
    <3> QED
      BY <2>2, <2>5, <3>1, <3>2
  <2>7. ASSUME NEW p \in js PROVE \E i \in 1 .. m : t[i] = p
    <3>1. p \in Published(x) /\ p # j /\ p \in Jobs
      BY <2>2 DEF Published
    <3>2. PICK k \in 1 .. n : s[k] = p
      BY <2>5, <3>1
    <3>3. k # 1 /\ k - 1 \in 1 .. m /\ (k - 1) + 1 = k
      BY <2>1, <2>3, <3>1, <3>2
    <3> QED
      BY <2>3, <3>2, <3>3
  <2>8. \A a, b \in 1 .. m : t[a] = t[b] => a = b
    <3> SUFFICES ASSUME NEW a \in 1 .. m, NEW b \in 1 .. m, t[a] = t[b] PROVE a = b
      OBVIOUS
    <3>1. s[a + 1] = s[b + 1] /\ a + 1 \in 1 .. n /\ b + 1 \in 1 .. n
      BY <2>3
    <3>2. a + 1 = b + 1
      BY <2>4, <3>1
    <3> QED
      BY <3>2
  <2>9. \A i \in 2 .. n : previous[s[i]] = s[i - 1]
    BY <1>3 DEF Chain
  <2>10. ASSUME NEW i \in 2 .. m PROVE previous[t[i]] = t[i - 1]
    <3>1. i \in 1 .. m /\ i - 1 \in 1 .. m /\ (i - 1) + 1 = i /\ (i + 1) - 1 = i
      BY <2>3
    <3>2. t[i] = s[i + 1] /\ i + 1 \in 2 .. n /\ t[i - 1] = s[i]
      BY <2>3, <3>1
    <3> QED
      BY <2>9, <3>1, <3>2
  <2>11. m > 0 => previous[t[1]] \notin js
    <3> SUFFICES ASSUME m > 0 PROVE previous[t[1]] \notin js
      OBVIOUS
    <3>1. t[1] = s[2] /\ 2 \in 2 .. n
      BY <2>3
    <3>2. previous[t[1]] = j
      BY <2>1, <2>9, <3>1
    <3> QED
      BY <2>2, <3>2
  <2>12. InLine(js, previous) = t
    <3>1. /\ m \in Nat
          /\ \A p \in js : \E i \in 1 .. m : t[i] = p
          /\ \A i \in 2 .. m : previous[t[i]] = t[i - 1]
      BY <2>3, <2>7, <2>10
    <3>2. Lists(t, m, js, previous)
      BY <3>1, <2>6, <2>8, <2>11 DEF Lists
    <3> QED
      BY <3>1, <3>2, LineUnique
  <2> QED
    BY <1>4, <1>6, <2>12 DEF Line, js, t
<1> QED
  BY <1>5, <1>6

-----------------------------------------------------------------------------
Lines == [x \in Workspaces |-> Line(x)]

LEMMA OrderStep ==
    ASSUME IInv, [Next]_vars
    PROVE  Order!OrderNext \/ UNCHANGED <<Lines, Begun>>
<1>1. /\ Sound(work) /\ TypeOK /\ work.phase \in [Jobs -> Phases]
      /\ \A j \in Jobs : WorkspaceOf[j] # None => WorkspaceOf[j] \in Workspaces
  BY WorkTypes, SchedulerAssumption DEF IInv, Sound
<1>2. ASSUME previous' = previous,
             \A j \in Jobs : WorkspaceOf[j] # None =>
               /\ work'.phase[j] = "waiting" <=> work.phase[j] = "waiting"
               /\ work'.phase[j] = "publishing" <=> work.phase[j] = "publishing"
      PROVE  UNCHANGED <<Lines, Begun>>
  BY <1>2, Unmoved DEF Lines
<1>3. ASSUME work' = work, previous' = previous
      PROVE  UNCHANGED <<Lines, Begun>>
  BY <1>2, <1>3
<1>4. ASSUME NEW b, Sound(b), work' = pump(b), previous' = previous,
             \A j \in Jobs : /\ b.phase[j] = "waiting" <=> work.phase[j] = "waiting"
                             /\ b.phase[j] = "publishing" <=> work.phase[j] = "publishing"
      PROVE  UNCHANGED <<Lines, Begun>>
  <2>1. \A j \in Jobs : /\ b.phase[j] # "queued" => work'.phase[j] = b.phase[j]
                        /\ b.phase[j] = "queued" => work'.phase[j] \in {"queued", "running"}
    BY <1>4, PumpKeeps
  <2> QED
    BY <1>2, <1>4, <2>1
<1>5. ASSUME NEW j \in Jobs, work.phase[j] = "running", Finish(j), previous' = previous,
             stopping' = stopping
      PROVE  UNCHANGED <<Lines, Begun>>
  <2>1. FinishLeaves(j)
    BY <1>5, FinishStep DEF Active
  <2> QED
    BY <1>2, <1>5, <2>1 DEF FinishLeaves
<1>6. ASSUME NEW j \in Jobs, submit(j) PROVE UNCHANGED <<Lines, Begun>>
  <2>1. work.phase[j] = "new" /\ work' = pump(Enqueued(j)) /\ previous' = previous
    BY <1>6 DEF submit, publication
  <2>2. Sound(Enqueued(j)) /\ Enqueued(j).phase = [work.phase EXCEPT ![j] = "queued"]
    BY <1>1, <2>1, EnqueuedSound
  <2> QED
    BY <1>1, <1>4, <2>1, <2>2
<1>7. ASSUME NEW js, js \subseteq {j \in Jobs : work.phase[j] = "queued"},
             previous' = previous,
             work' = Cancelled(work, js) \/ work' = pump(Cancelled(work, js))
      PROVE  UNCHANGED <<Lines, Begun>>
  <2> DEFINE b == Cancelled(work, js)
  <2>1. /\ Sound(b)
        /\ b.phase = [j \in Jobs |-> IF j \in js THEN "settled" ELSE work.phase[j]]
    BY <1>7, CancelledKeeps
  <2>2. work' = b \/ work' = pump(b)
    BY <1>7
  <2> HIDE DEF b
  <2>3. \A j \in Jobs : /\ b.phase[j] = "waiting" <=> work.phase[j] = "waiting"
                        /\ b.phase[j] = "publishing" <=> work.phase[j] = "publishing"
    BY <1>7, <2>1
  <2>4. CASE work' = b
    BY <1>2, <1>7, <2>3, <2>4
  <2>5. CASE work' = pump(b)
    BY <1>4, <1>7, <2>1, <2>3, <2>5
  <2> QED
    BY <2>2, <2>4, <2>5
<1>8. ASSUME NEW j \in Jobs, cancel(j) PROVE UNCHANGED <<Lines, Begun>>
  <2> DEFINE queued == {j} \cap {k \in Jobs : work.phase[k] = "queued"}
  <2>1. work' = Cancelled(work, queued) /\ previous' = previous
    BY <1>8 DEF cancel, publication
  <2>2. queued \subseteq {k \in Jobs : work.phase[k] = "queued"}
    OBVIOUS
  <2> HIDE DEF queued
  <2> QED
    BY <1>7, <2>1, <2>2
<1>9. ASSUME NEW p \in Pools, cancelPool(p) PROVE UNCHANGED <<Lines, Begun>>
  <2> DEFINE queued == {j \in {k \in entries : PoolOf[k] = p} : work.phase[j] = "queued"}
  <2>1. work' = pump(Cancelled(work, queued)) /\ previous' = previous
    BY <1>9 DEF cancelPool, publication
  <2>2. queued \subseteq {k \in Jobs : work.phase[k] = "queued"}
    BY DEF entries, entriesOf
  <2> HIDE DEF queued
  <2> QED
    BY <1>7, <2>1, <2>2
<1>10. ASSUME NEW c \in Stops, NEW force \in BOOLEAN, stop(c, force)
       PROVE  UNCHANGED <<Lines, Begun>>
  <2> DEFINE queued == IF force THEN {j \in entries : work.phase[j] = "queued"} ELSE {}
  <2>1. work' = Cancelled(work, queued) /\ previous' = previous
    BY <1>10 DEF stop, publication
  <2>2. queued \subseteq {k \in Jobs : work.phase[k] = "queued"}
    BY DEF entries, entriesOf
  <2> HIDE DEF queued
  <2> QED
    BY <1>7, <2>1, <2>2
<1>11. ASSUME NEW j \in Jobs, RunThrows(j) PROVE UNCHANGED <<Lines, Begun>>
  BY <1>5, <1>11 DEF RunThrows, publication
<1>12. ASSUME NEW j \in Jobs, RunReturns(j)
       PROVE  Order!OrderNext \/ UNCHANGED <<Lines, Begun>>
  <2>1. work.phase[j] = "running" /\ stopping' = stopping
    BY <1>12 DEF RunReturns
  <2>2. CASE j \notin Publishers
    BY <1>5, <1>12, <2>1, <2>2 DEF RunReturns, publication
  <2>3. CASE j \in Publishers /\ WorkspaceOf[j] = None
    <3>1. work' = At(j, "publishing") /\ previous' = previous
      BY <1>12, <2>3 DEF RunReturns, publication, At
    <3>2. At(j, "publishing").phase = [work.phase EXCEPT ![j] = "publishing"]
      BY <1>1, <2>1, StillActiveSound DEF Active
    <3> QED
      BY <1>1, <1>2, <2>3, <3>1, <3>2
  <2>4. CASE j \in Publishers /\ WorkspaceOf[j] # None
    <3> DEFINE x == WorkspaceOf[j]
    <3>1. /\ work' = At(j, "waiting")
          /\ previous' = [previous EXCEPT ![j] = publicationTails[x]]
      BY <1>12, <2>4 DEF RunReturns, At
    <3>2. At(j, "waiting").phase = [work.phase EXCEPT ![j] = "waiting"]
      BY <1>1, <2>1, StillActiveSound DEF Active
    <3>3. work'.phase = [work.phase EXCEPT ![j] = "waiting"]
      BY <3>1, <3>2
    <3>4. ASSUME NEW y \in Workspaces
          PROVE  /\ Line(y)' = IF y = x THEN Append(Line(y), j) ELSE Line(y)
                 /\ \A i \in DOMAIN Line(y) : Line(y)[i] # j
      BY <2>1, <2>4, <3>1, <3>3, LineGrows
    <3>5. Lines' = [Lines EXCEPT ![x] = Append(@, j)]
      BY <1>1, <2>4, <3>4 DEF Lines
    <3>6. Begun' = Begun /\ j \notin Begun
      BY <1>1, <2>1, <3>3 DEF Begun
    <3>7. \A y \in Workspaces : \A i \in DOMAIN Lines[y] : Lines[y][i] # j
      BY <3>4 DEF Lines
    <3>8. Order!Join(x, j)
      BY <3>5, <3>6, <3>7 DEF Order!Join, Lines, Line, Begun
    <3> QED
      BY <1>1, <2>4, <3>8 DEF Order!OrderNext
  <2> QED
    BY <2>2, <2>3, <2>4
<1>13. ASSUME NEW j \in Jobs, PublishStarts(j)
       PROVE  Order!OrderNext \/ UNCHANGED <<Lines, Begun>>
  <2>1. /\ work.phase[j] = "waiting" /\ Over(previous[j]) /\ previous' = previous
        /\ work' = At(j, "publishing")
    BY <1>13 DEF PublishStarts, publication, Over, At
  <2>2. At(j, "publishing").phase = [work.phase EXCEPT ![j] = "publishing"]
    BY <1>1, <2>1, StillActiveSound DEF Active
  <2>3. work'.phase = [work.phase EXCEPT ![j] = "publishing"]
    BY <2>1, <2>2
  <2>4. CASE WorkspaceOf[j] = None
    BY <1>1, <1>2, <2>1, <2>3, <2>4
  <2>5. CASE WorkspaceOf[j] # None
    <3> DEFINE x == WorkspaceOf[j]
    <3>1. x \in Workspaces /\ Line(x) # << >> /\ Head(Line(x)) = j
      BY <1>1, <2>1, <2>5, InItsLine
    <3>2. ASSUME NEW y \in Workspaces PROVE Line(y)' = Line(y)
      <4>1. PublicationsOf(y, work'.phase) = PublicationsOf(y, work.phase)
        BY <1>1, <2>1, <2>3 DEF PublicationsOf
      <4> QED
        BY <2>1, <4>1 DEF Line
    <3>3. Lines' = Lines
      BY <3>2 DEF Lines
    <3>4. Lines[x] # << >> /\ Head(Lines[x]) = j
      BY <3>1 DEF Lines
    <3>5. j \notin Begun /\ Begun' = Begun \cup {j}
      BY <1>1, <2>1, <2>3, <2>5 DEF Begun
    <3>6. Order!Begin(x)
      BY <3>3, <3>4, <3>5 DEF Order!Begin, Lines, Line, Begun
    <3> QED
      BY <3>1, <3>6 DEF Order!OrderNext
  <2> QED
    BY <2>4, <2>5
<1>14. ASSUME NEW j \in Jobs, NEW ok \in BOOLEAN, PublishEnds(j, ok)
       PROVE  Order!OrderNext \/ UNCHANGED <<Lines, Begun>>
  <2>1. work.phase[j] = "publishing" /\ Finish(j) /\ previous' = previous
    BY <1>14 DEF PublishEnds
  <2>2. FinishLeaves(j)
    BY <1>14, <2>1, FinishStep DEF PublishEnds, Active
  <2>3. /\ work'.phase[j] = "settled"
        /\ \A k \in Jobs \ {j} :
             /\ work'.phase[k] = "waiting" <=> work.phase[k] = "waiting"
             /\ work'.phase[k] = "publishing" <=> work.phase[k] = "publishing"
    BY <2>2 DEF FinishLeaves
  <2>4. CASE WorkspaceOf[j] = None
    BY <1>2, <2>1, <2>3, <2>4
  <2>5. CASE WorkspaceOf[j] # None
    <3> DEFINE x == WorkspaceOf[j]
    <3>1. x \in Workspaces /\ Line(x) # << >> /\ Head(Line(x)) = j
      BY <1>1, <2>1, <2>5, InItsLine
    <3>2. ASSUME NEW y \in Workspaces
          PROVE  Line(y)' = IF y = x THEN Tail(Line(y)) ELSE Line(y)
      BY <2>1, <2>3, LineShrinks
    <3>3. Lines' = [Lines EXCEPT ![x] = Tail(@)]
      BY <3>1, <3>2 DEF Lines
    <3>4. Lines[x] # << >> /\ Head(Lines[x]) = j
      BY <3>1 DEF Lines
    <3>5. j \in Begun /\ Begun' = Begun \ {j}
      BY <2>1, <2>3, <2>5 DEF Begun
    <3>6. Order!End(x)
      BY <3>3, <3>4, <3>5 DEF Order!End, Lines, Line, Begun
    <3> QED
      BY <3>1, <3>6 DEF Order!OrderNext
  <2> QED
    BY <2>4, <2>5
<1>15. ASSUME NEW l \in Leases,
              \/ acquireRestartLease(l) \/ Lapse(l) \/ RenewTooLate(l) \/ ReleaseLease(l)
       PROVE  UNCHANGED <<Lines, Begun>>
  <2>1. work' = work /\ previous' = previous
    BY <1>15 DEF acquireRestartLease, Lapse, RenewTooLate, ReleaseLease, publication
  <2> QED
    BY <1>3, <2>1
<1>16. CASE ReadStatus
  BY <1>3, <1>16 DEF ReadStatus, publication
<1>17. CASE UNCHANGED vars
  BY <1>3, <1>17 DEF vars
<1> QED
  BY <1>6, <1>8, <1>9, <1>10, <1>11, <1>12, <1>13, <1>14, <1>15, <1>16, <1>17 DEF Next

LEMMA OrderStart == Init => Order!OrderInit
<1> SUFFICES ASSUME Init PROVE Order!OrderInit
  OBVIOUS
<1>1. ASSUME NEW x \in Workspaces PROVE Line(x) = << >>
  <2> DEFINE js == PublicationsOf(x, work.phase)
  <2>1. js = {}
    BY DEF Init, PublicationsOf
  <2> HIDE DEF js
  <2>2. Lists(<< >>, 0, js, previous)
    BY <2>1 DEF Lists
  <2>3. InLine(js, previous) = << >>
    BY <2>2, LineUnique
  <2> QED
    BY <2>3 DEF Line, js
<1>2. Begun = {}
  BY DEF Init, Begun
<1> QED
  BY <1>1, <1>2 DEF Order!OrderInit, Line, Begun

\* The publications of a workspace take place one at a time and in the order
\* in which their runs returned, whichever of them fail, whatever is cancelled
\* or stopped meanwhile and however many wait (run, publicationTails).
THEOREM SchedulerImplementsOrder == Spec => ImplementsOrder
<1>1. Init => Order!OrderInit
  BY OrderStart
<1>2. IInv /\ [Next]_vars
        => [Order!OrderNext]_<<[x \in Workspaces |-> InLine(PublicationsOf(x, work.phase), previous)],
                               {j \in Jobs : WorkspaceOf[j] # None /\ work.phase[j] = "publishing"}>>
  BY OrderStep DEF Lines, Line, Begun
<1> QED
  BY <1>1, <1>2, InvHolds, PTL DEF Spec, ImplementsOrder, Order!OrderSpec

=============================================================================
