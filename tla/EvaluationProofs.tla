-------------------------- MODULE EvaluationProofs --------------------------
(***************************************************************************)
(* Proofs about the threads and their parents (ThreadTree) and about the   *)
(* program that records and evaluates them (Evaluation), for any number of *)
(* process ids and recordings of any length.                               *)
(*                                                                         *)
(* Threads.  An ancestor's entry never has a birth later than the last     *)
(* birth of its id, the recorded parent of a thread is among its           *)
(* ancestors, and the ancestors of an ancestor are too.  So a fork that    *)
(* uses an id again leaves no descendant of the id's earlier owners        *)
(* Current, and a thread that is Current is not touched by the fork.  The  *)
(* search climbs to a set the way up does not leave, which is the family.  *)
(*                                                                         *)
(* Files.  What is recorded is in the order of time; every file is a       *)
(* function of it (Written), and what the evaluation keeps a function of   *)
(* the files.                                                              *)
(*                                                                         *)
(* Energy.  Each time of the measurements lies in one phase, the one in    *)
(* force (OnePhase); the time computed for a phase in a measurement is the *)
(* size of what they share (ShareSize); and the shares are a partition.    *)
(***************************************************************************)
EXTENDS Evaluation, InductionLemmas

USE DEF treeVars

BirthsPast ==
    \A p \in Pids : \A a \in lineage[p] : a[2] <= born[a[1]]

ParentIsAncestor ==
    \A p \in Pids : ppid[p] # NoPid => \E a \in lineage[p] : a[1] = ppid[p]

\* The ancestors of an ancestor whose id is still its own are ancestors too.
AncestorsNested ==
    \A p \in Pids : \A a \in lineage[p] : born[a[1]] = a[2] => lineage[a[1]] \subseteq lineage[p]

\* The two properties, for every id instead of those in the table.
AllParentsKnown == \A p \in Pids : ppid[p] \in threads \cup {NoPid}

Followed(p) ==
    Current(p) =>
        /\ \A a \in lineage[p] : a[1] # p
        /\ lineage[p] = IF ppid[p] = NoPid THEN {}
                        ELSE lineage[ppid[p]] \cup {<<ppid[p], born[ppid[p]]>>}

TreeInv ==
    /\ TreeTypeOK
    /\ BirthsPast
    /\ ParentIsAncestor
    /\ AncestorsNested
    /\ AllParentsKnown
    /\ \A p \in Pids : Followed(p)

\* The first state: no thread, no parent.
LEMMA TreeInitInv == TreeInit => TreeInv
  <1> SUFFICES ASSUME TreeInit PROVE TreeInv
    OBVIOUS
  <1>1. TreeTypeOK
    BY ThreadTreeAssumption DEF TreeInit, TreeTypeOK
  <1>2. \A p \in Pids : ppid[p] = NoPid /\ lineage[p] = {}
    BY DEF TreeInit
  <1> QED BY <1>1, <1>2 DEF TreeInv, BirthsPast, ParentIsAncestor, AncestorsNested, AllParentsKnown,
        Followed

\* A fork keeps the types of the table and of the histories.
LEMMA ForkType ==
    ASSUME TreeTypeOK, NEW p \in Pids, NEW c \in Pids, NEW name \in Names, Fork(p, c, name)
    PROVE  TreeTypeOK'
  <1>1. threads' \subseteq Pids /\ comm' \in [Pids -> Names]
    BY DEF TreeTypeOK, Fork, Enter
  <1>2. ppid' \in [Pids -> Pids \cup {NoPid}]
    BY DEF TreeTypeOK, Fork, NewParent
  <1>3. born' \in [Pids -> Nat]
    BY DEF TreeTypeOK, Fork
  <1>4. lineage' \in [Pids -> SUBSET (Pids \X Nat)]
    BY DEF TreeTypeOK, Fork
  <1> QED BY <1>1, <1>2, <1>3, <1>4 DEF TreeTypeOK

\* A fork keeps the invariant.
LEMMA ForkInv ==
    ASSUME TreeInv, NEW p \in Pids, NEW c \in Pids, NEW name \in Names, Fork(p, c, name)
    PROVE  TreeInv'
  <1>1. TreeTypeOK'
    BY ForkType DEF TreeInv
  <1>2. /\ p # c /\ p # NoPid
        /\ born' = [born EXCEPT ![c] = born[c] + 1]
        /\ ppid' = [ppid EXCEPT ![c] = p]
        /\ lineage' = [lineage EXCEPT ![c] = lineage[p] \cup {<<p, born[p]>>}]
        /\ threads' = threads \cup {p, c}
    BY ThreadTreeAssumption DEF Fork, NewParent, Enter, TreeInv, TreeTypeOK
  <1>3. /\ born'[c] = born[c] + 1 /\ ppid'[c] = p
        /\ lineage'[c] = lineage[p] \cup {<<p, born[p]>>}
        /\ \A q \in Pids \ {c} : /\ born'[q] = born[q] /\ ppid'[q] = ppid[q]
                                 /\ lineage'[q] = lineage[q]
    BY <1>2 DEF TreeInv, TreeTypeOK
  <1>4. \A q \in Pids : born[q] \in Nat /\ born[q] <= born'[q]
    BY <1>3 DEF TreeInv, TreeTypeOK
  <1>5. \A q \in Pids : \A a \in lineage[q] : a[1] \in Pids /\ a[2] \in Nat
    BY DEF TreeInv, TreeTypeOK
  <1>6. BirthsPast'
    <2> SUFFICES ASSUME NEW q \in Pids, NEW a \in lineage'[q]
                 PROVE  a[2] <= born'[a[1]]
      BY DEF BirthsPast
    <2>1. CASE a = <<p, born[p]>>
      BY <2>1, <1>3, <1>2, <1>4
    <2>2. CASE a # <<p, born[p]>>
      <3>1. \E r \in Pids : a \in lineage[r]
        BY <2>2, <1>3
      <3>2. a[1] \in Pids /\ a[2] \in Nat /\ a[2] <= born[a[1]]
        BY <3>1, <1>5 DEF TreeInv, BirthsPast
      <3> QED BY <3>2, <1>4, <1>1 DEF TreeTypeOK
    <2> QED BY <2>1, <2>2
  <1>7. ParentIsAncestor'
    <2> SUFFICES ASSUME NEW q \in Pids, ppid'[q] # NoPid
                 PROVE  \E a \in lineage'[q] : a[1] = ppid'[q]
      BY DEF ParentIsAncestor
    <2>1. CASE q = c
      <3>1. <<p, born[p]>> \in lineage'[q] /\ <<p, born[p]>>[1] = ppid'[q]
        BY <2>1, <1>3
      <3> QED BY <3>1
    <2>2. CASE q # c
      BY <2>2, <1>3 DEF TreeInv, ParentIsAncestor
    <2> QED BY <2>1, <2>2
  <1>8. AllParentsKnown'
    BY <1>2, <1>3 DEF TreeInv, AllParentsKnown
  <1>9. ASSUME NEW q \in Pids PROVE Followed(q)'
    <2> SUFFICES ASSUME \A a \in lineage'[q] : born'[a[1]] = a[2]
                 PROVE  /\ \A a \in lineage'[q] : a[1] # q
                        /\ lineage'[q] = IF ppid'[q] = NoPid THEN {}
                                         ELSE lineage'[ppid'[q]]
                                                  \cup {<<ppid'[q], born'[ppid'[q]]>>}
      BY DEF Followed, Current
    <2>1. ASSUME NEW r \in Pids, NEW a \in lineage[r], a \in lineage'[q]
          PROVE  a[1] # c
      <3>1. a[2] <= born[a[1]] /\ a[2] \in Nat /\ a[1] \in Pids
        BY <1>5 DEF TreeInv, BirthsPast
      <3>2. born'[a[1]] = a[2]
        BY <2>1
      <3> QED BY <3>1, <3>2, <1>3, <1>4
    <2>2. CASE q = c
      <3>1. \A a \in lineage'[q] : a[1] # q
        <4> SUFFICES ASSUME NEW a \in lineage'[q] PROVE a[1] # c
          BY <2>2
        <4>1. CASE a = <<p, born[p]>>
          BY <4>1, <1>2
        <4>2. CASE a \in lineage[p]
          BY <4>2, <2>1
        <4> QED BY <4>1, <4>2, <2>2, <1>3
      <3>2. lineage'[q] = lineage'[p] \cup {<<p, born'[p]>>}
        BY <2>2, <1>3, <1>2
      <3> QED BY <3>1, <3>2, <2>2, <1>3, <1>2
    <2>3. CASE q # c
      <3>1. lineage'[q] = lineage[q] /\ ppid'[q] = ppid[q]
        BY <2>3, <1>3
      <3>2. \A a \in lineage[q] : a[1] # c /\ born[a[1]] = a[2]
        <4> SUFFICES ASSUME NEW a \in lineage[q] PROVE a[1] # c /\ born[a[1]] = a[2]
          OBVIOUS
        <4>1. a \in lineage'[q]
          BY <3>1
        <4>2. a[1] # c
          BY <4>1, <2>1
        <4>3. a[1] \in Pids /\ born'[a[1]] = a[2]
          BY <4>1, <1>5
        <4> QED BY <4>2, <4>3, <1>3
      <3>3. /\ \A a \in lineage[q] : a[1] # q
            /\ lineage[q] = IF ppid[q] = NoPid THEN {}
                            ELSE lineage[ppid[q]] \cup {<<ppid[q], born[ppid[q]]>>}
        BY <3>2 DEF TreeInv, Followed, Current
      <3>4. CASE ppid[q] = NoPid
        BY <3>1, <3>3, <3>4
      <3>5. CASE ppid[q] # NoPid
        <4>1. ppid[q] \in Pids /\ ppid[q] # c
          BY <3>2, <3>5 DEF TreeInv, ParentIsAncestor, TreeTypeOK
        <4>2. lineage'[ppid[q]] = lineage[ppid[q]] /\ born'[ppid[q]] = born[ppid[q]]
          BY <4>1, <1>3
        <4> QED BY <4>2, <3>1, <3>3, <3>5
      <3> QED BY <3>4, <3>5
    <2> QED BY <2>2, <2>3
  <1>10. AncestorsNested'
    <2> SUFFICES ASSUME NEW q \in Pids, NEW a \in lineage'[q], born'[a[1]] = a[2]
                 PROVE  lineage'[a[1]] \subseteq lineage'[q]
      BY DEF AncestorsNested
    <2>1. ASSUME NEW r \in Pids, a \in lineage[r]
          PROVE  a[1] \in Pids \ {c} /\ lineage'[a[1]] \subseteq lineage[r]
      <3>1. a[2] <= born[a[1]] /\ a[2] \in Nat /\ a[1] \in Pids
        BY <1>5, <2>1 DEF TreeInv, BirthsPast
      <3>2. a[1] # c
        BY <1>3, <1>4, <3>1
      <3>3. born[a[1]] = a[2] /\ lineage'[a[1]] = lineage[a[1]]
        BY <1>3, <3>1, <3>2
      <3> QED BY <2>1, <3>1, <3>2, <3>3 DEF TreeInv, AncestorsNested
    <2>2. CASE q = c /\ a = <<p, born[p]>>
      BY <1>2, <1>3, <2>2
    <2>3. CASE q = c /\ a \in lineage[p]
      BY <1>3, <2>1, <2>3
    <2>4. CASE q # c
      BY <1>3, <2>1, <2>4
    <2> QED BY <1>3, <2>2, <2>3, <2>4
  <1> QED BY <1>1, <1>6, <1>7, <1>8, <1>9, <1>10 DEF TreeInv

\* Any other event of a thread keeps the invariant: it touches no parent.
LEMMA HeardInv ==
    ASSUME TreeInv, NEW p \in Pids, NEW name \in Names, Heard(p, name)
    PROVE  TreeInv'
  <1>1. TreeTypeOK'
    BY DEF TreeInv, TreeTypeOK, Heard
  <1>2. BirthsPast' /\ ParentIsAncestor' /\ AncestorsNested' /\ AllParentsKnown'
    BY DEF TreeInv, BirthsPast, ParentIsAncestor, AncestorsNested, AllParentsKnown, Heard
  <1>3. \A q \in Pids : Followed(q)'
    BY ZenonT(30) DEF TreeInv, Followed, Current, Heard
  <1> QED BY <1>1, <1>2, <1>3 DEF TreeInv

\* As does a step that leaves the table alone.
LEMMA IdleInv == ASSUME TreeInv, UNCHANGED treeVars PROVE TreeInv'
  BY DEF TreeInv, TreeTypeOK, BirthsPast, ParentIsAncestor, AncestorsNested,
     AllParentsKnown, Followed, Current

\* Every event the reader handles is one of ThreadTree or leaves it alone.
LEMMA StepIsTreeStep == [Next]_vars => [TreeNext]_treeVars
  <1> SUFFICES ASSUME [Next]_vars PROVE [TreeNext]_treeVars
    OBVIOUS
  <1>1. CASE TraceFork
    BY <1>1 DEF TraceFork, TreeNext
  <1>2. CASE TraceName
    BY <1>2 DEF TraceName, TreeNext
  <1>3. CASE TraceRuntime
    BY <1>3 DEF TraceRuntime, TreeNext
  <1>4. CASE TimePasses \/ TraceChrome \/ TraceIteration \/ Convert \/ ReadRun \/ OutputFiles
    BY <1>4 DEF TimePasses, TraceChrome, TraceIteration, Convert, ReadRun, OutputFiles
  <1>5. CASE UNCHANGED vars
    BY <1>5 DEF vars
  <1> QED BY <1>1, <1>2, <1>3, <1>4, <1>5 DEF Next

\* No event breaks the invariant.
LEMMA TreeStep ==
    ASSUME TreeInv, [Next]_vars
    PROVE  TreeInv'
  <1>1. [TreeNext]_treeVars
    BY StepIsTreeStep
  <1>2. CASE UNCHANGED treeVars
    BY <1>2, IdleInv
  <1>3. CASE TreeNext
    BY <1>3, ForkInv, HeardInv DEF TreeNext
  <1> QED BY <1>1, <1>2, <1>3

\* The invariant of the whole program.
LEMMA TreeInvariant == Spec => []TreeInv
  <1>1. Init => TreeInv
    BY TreeInitInv DEF Init
  <1>2. TreeInv /\ [Next]_vars => TreeInv'
    BY TreeStep
  <1> QED BY <1>1, <1>2, PTL DEF Spec

-----------------------------------------------------------------------------
\* However many forks and other events a trace has and whichever of them it
\* misses, a recorded parent has an entry: the search never asks for a thread
\* that is not in the table (trace_conv.py:462-470).
THEOREM ParentsInTable == Spec => []ParentsKnown
  <1>1. TreeInv => ParentsKnown
    BY DEF TreeInv, TreeTypeOK, AllParentsKnown, ParentsKnown
  <1> QED BY <1>1, TreeInvariant, PTL

\* For any number of threads and forks: as long as no ancestor's id was used
\* again, the recorded parents of a thread lead to exactly the ancestors it was
\* born with, none of which is the thread itself (evaluate_data.py:37-55).
THEOREM RecordedLineage == Spec => []LineageFollowed
  <1>1. TreeInv => LineageFollowed
    BY DEF TreeInv, TreeTypeOK, Followed, LineageFollowed
  <1> QED BY <1>1, TreeInvariant, PTL

\* The recording and evaluation behaves, to the table of threads, as the events
\* of ThreadTree do.
THEOREM ImplementsTree == Spec => TreeSpec
  <1>1. Init => TreeInit
    BY DEF Init
  <1> QED BY <1>1, StepIsTreeStep, PTL DEF Spec, TreeSpec

-----------------------------------------------------------------------------
(* The search.  A closed set is one the way up does not leave.             *)

Closed(S) == \A q \in S : ppid[q] \in S \cup {NoPid}

\* A thread's ancestors and itself.
Family(p) == {p} \cup {a[1] : a \in lineage[p]}

\* The steps of the climb: they start with the thread, and each adds the parents.
LEMMA Climb ==
    ASSUME TreeTypeOK, NEW p \in Pids
    PROVE  \E f \in [Nat -> SUBSET Pids] :
               /\ f[0] = {p}
               /\ \A n \in Nat : f[n + 1] = f[n] \cup ({ppid[q] : q \in f[n]} \ {NoPid})
               /\ Upward(p) = f[Cardinality(Pids)]
<1> DEFINE step == [U \in SUBSET Pids |-> U \cup ({ppid[q] : q \in U} \ {NoPid})]
           Climbs(g) == g = [n \in Nat |-> IF n = 0 THEN {p}
                                           ELSE g[n - 1] \cup ({ppid[q] : q \in g[n - 1]} \ {NoPid})]
           climb == CHOOSE g : Climbs(g)
<1>1. step \in [SUBSET Pids -> SUBSET Pids] /\ {p} \in SUBSET Pids
  BY DEF TreeTypeOK
<1>2. \A U \in SUBSET Pids : step[U] = U \cup ({ppid[q] : q \in U} \ {NoPid})
  OBVIOUS
<1> HIDE DEF step
<1>3. PICK f \in [Nat -> SUBSET Pids] : f[0] = {p} /\ \A n \in Nat : f[n + 1] = step[f[n]]
  <2> DEFINE W == SUBSET Pids
             first == {p}
  <2>1. first \in W /\ step \in [W -> W]
    BY <1>1
  <2> HIDE DEF W, first
  <2>2. \E f \in [Nat -> W] : f[0] = first /\ \A n \in Nat : f[n + 1] = step[f[n]]
    BY <2>1, Iteration
  <2> QED
    BY <2>2 DEF W, first
<1>4. \A n \in Nat : f[n + 1] = f[n] \cup ({ppid[q] : q \in f[n]} \ {NoPid})
  BY <1>2, <1>3
<1>5. Climbs(f)
  <2>1. ASSUME NEW n \in Nat
        PROVE  f[n] = IF n = 0 THEN {p} ELSE f[n - 1] \cup ({ppid[q] : q \in f[n - 1]} \ {NoPid})
    <3>1. CASE n = 0
      BY <1>3, <3>1
    <3>2. CASE n # 0
      <4>1. n - 1 \in Nat /\ (n - 1) + 1 = n
        BY <3>2
      <4> QED
        BY <1>4, <3>2, <4>1
    <3> QED
      BY <3>1, <3>2
  <2> QED
    BY <1>3, <2>1
<1>6. Climbs(climb)
  BY <1>5
<1>7. Upward(p) = climb[Cardinality(Pids)] /\ Cardinality(Pids) \in Nat
  BY FS_CardinalityType, ThreadTreeAssumption DEF Upward
<1> HIDE DEF climb
<1>8. climb[0] = {p} /\ \A n \in Nat : climb[n + 1] = climb[n] \cup ({ppid[q] : q \in climb[n]} \ {NoPid})
  <2>1. climb[0] = {p}
    BY <1>6
  <2>2. ASSUME NEW n \in Nat
        PROVE  climb[n + 1] = climb[n] \cup ({ppid[q] : q \in climb[n]} \ {NoPid})
    <3>1. n + 1 \in Nat /\ n + 1 # 0 /\ (n + 1) - 1 = n
      OBVIOUS
    <3> QED
      BY <1>6, <3>1
  <2> QED
    BY <2>1, <2>2
<1> DEFINE T == {n \in Nat : climb[n] = f[n]}
<1>9. Cardinality(Pids) \in T
  <2>1. 0 \in T
    BY <1>3, <1>8
  <2> DEFINE Up(U) == U \cup ({ppid[q] : q \in U} \ {NoPid})
  <2>2. \A n \in Nat : f[n + 1] = Up(f[n]) /\ climb[n + 1] = Up(climb[n])
    BY <1>4, <1>8
  <2> HIDE DEF Up
  <2>3. \A n \in Nat : n \in T => n + 1 \in T
    BY <2>2
  <2> HIDE DEF T
  <2> QED
    BY <1>7, <2>1, <2>3, NatSetInduction
<1> QED
  BY <1>3, <1>4, <1>7, <1>9

\* As many steps as there are ids reach everything: each step that is not the
\* last one adds an id.
LEMMA UpwardClosed ==
    ASSUME TreeTypeOK, NEW p \in Pids
    PROVE  /\ Upward(p) \subseteq Pids /\ p \in Upward(p) /\ Closed(Upward(p))
           /\ \A S \in SUBSET Pids : p \in S /\ Closed(S) => Upward(p) \subseteq S
<1>1. PICK f \in [Nat -> SUBSET Pids] :
          /\ f[0] = {p}
          /\ \A n \in Nat : f[n + 1] = f[n] \cup ({ppid[q] : q \in f[n]} \ {NoPid})
          /\ Upward(p) = f[Cardinality(Pids)]
  BY Climb
<1> DEFINE N == Cardinality(Pids)
           Grown(n) == Closed(f[n]) \/ Cardinality(f[n]) >= n + 1
           T == {n \in Nat : p \in f[n] /\ Grown(n)}
<1>2. IsFiniteSet(Pids) /\ N \in Nat
  BY ThreadTreeAssumption, FS_CardinalityType
<1>3. \A U \in SUBSET Pids : IsFiniteSet(U) /\ Cardinality(U) \in Nat /\ Cardinality(U) <= N
  BY <1>2, FS_Subset, FS_CardinalityType
<1>4. \A n \in Nat : f[n] \in SUBSET Pids /\ f[n] \subseteq f[n + 1]
  BY <1>1
<1>5. ASSUME NEW n \in Nat, Closed(f[n])
      PROVE  f[n + 1] = f[n]
  BY <1>1, <1>5 DEF Closed
<1>6. ASSUME NEW n \in Nat, f[n + 1] = f[n]
      PROVE  Closed(f[n])
  <2>1. \A q \in f[n] : ppid[q] \in f[n] \cup {NoPid}
    BY <1>1, <1>6
  <2> QED
    BY <2>1 DEF Closed
<1>7. 0 \in T
  <2>1. Cardinality(f[0]) = 1
    BY <1>1, FS_Singleton
  <2>2. p \in f[0]
    BY <1>1
  <2>3. 1 >= 0 + 1
    OBVIOUS
  <2> QED
    BY <2>1, <2>2, <2>3
<1>8. ASSUME NEW n \in Nat, n \in T
      PROVE  n + 1 \in T
  <2>1. p \in f[n + 1] /\ n + 1 \in Nat
    BY <1>4, <1>8
  <2>2. CASE Closed(f[n])
    BY <1>5, <2>1, <2>2
  <2>3. CASE ~Closed(f[n])
    <3>1. f[n] # f[n + 1] /\ f[n] \subseteq f[n + 1]
      BY <1>4, <1>6, <2>3
    <3>2. IsFiniteSet(f[n + 1]) /\ Cardinality(f[n]) \in Nat /\ Cardinality(f[n + 1]) \in Nat
      BY <1>3, <1>4, <2>1
    <3>3. Cardinality(f[n]) < Cardinality(f[n + 1])
      <4>1. /\ Cardinality(f[n]) <= Cardinality(f[n + 1])
            /\ Cardinality(f[n]) = Cardinality(f[n + 1]) => f[n] = f[n + 1]
        BY <3>1, <3>2, FS_Subset
      <4> QED
        BY <3>1, <3>2, <4>1
    <3>4. Cardinality(f[n]) >= n + 1
      BY <1>8, <2>3
    <3>5. Cardinality(f[n + 1]) >= (n + 1) + 1
      BY <3>2, <3>3, <3>4
    <3> QED
      BY <2>1, <3>5
  <2> QED
    BY <2>2, <2>3
<1>9. N \in T
  <2> HIDE DEF T
  <2> QED
    BY <1>2, <1>7, <1>8, NatSetInduction
<1>10. Closed(f[N])
  <2>1. ~(Cardinality(f[N]) >= N + 1)
    BY <1>2, <1>3, <1>4
  <2> QED
    BY <1>9, <2>1
<1>11. ASSUME NEW S \in SUBSET Pids, p \in S, Closed(S)
       PROVE  f[N] \subseteq S
  <2> DEFINE V == {n \in Nat : f[n] \subseteq S}
  <2>1. 0 \in V
    BY <1>1, <1>11
  <2>2. \A n \in Nat : n \in V => n + 1 \in V
    BY <1>1, <1>11 DEF Closed
  <2> HIDE DEF V
  <2>3. N \in V
    BY <1>2, <2>1, <2>2, NatSetInduction
  <2> QED
    BY <2>3 DEF V
<1> QED
  BY <1>1, <1>2, <1>4, <1>9, <1>10, <1>11

\* In a family whose ids are not used again since, every set of threads has one
\* without a parent in it: going up, there are fewer ancestors each time.
LEMMA Descent ==
    ASSUME TreeInv, NEW p \in Pids, Current(p), NEW B \in SUBSET Family(p), B # {}
    PROVE  \E q \in B : ppid[q] = NoPid \/ ppid[q] \notin B
<1>1. Family(p) \subseteq Pids
  BY DEF Family, TreeInv, TreeTypeOK
<1>2. ASSUME NEW q \in Family(p)
      PROVE  q \in Pids /\ lineage[q] \subseteq lineage[p] /\ Current(q)
  <2>1. lineage[q] \subseteq lineage[p]
    BY DEF Family, TreeInv, AncestorsNested, Current
  <2> QED
    BY <1>1, <2>1 DEF Current
<1>3. IsFiniteSet(lineage[p])
  <2> DEFINE Once == {<<q, born[q]>> : q \in Pids}
  <2>1. lineage[p] \subseteq Once
    <3>1. \A a \in lineage[p] : a[1] \in Pids /\ a = <<a[1], a[2]>> /\ a[2] = born[a[1]]
      BY DEF TreeInv, TreeTypeOK, Current
    <3> QED
      BY <3>1
  <2>2. IsFiniteSet(Once)
    <3> DEFINE g == [q \in Pids |-> <<q, born[q]>>]
    <3>1. g \in Surjection(Pids, Once)
      BY DEF Surjection
    <3> HIDE DEF g, Once
    <3> QED
      BY <3>1, FS_Surjection, ThreadTreeAssumption
  <2> HIDE DEF Once
  <2> QED
    BY <2>1, <2>2, FS_Subset
<1> DEFINE size(q) == Cardinality(lineage[q])
           Sizes == {size(q) : q \in B}
<1>4. \A q \in B : IsFiniteSet(lineage[q]) /\ size(q) \in Nat
  BY <1>2, <1>3, FS_Subset, FS_CardinalityType
<1>5. PICK q \in B : \A r \in B : size(q) <= size(r)
  <2>1. Sizes \subseteq Nat /\ Sizes # {}
    BY <1>4
  <2>2. PICK k \in Sizes : \A l \in Sizes : k <= l
    <3> HIDE DEF Sizes
    <3> QED
      BY <2>1, LeastNat
  <2> QED
    BY <2>2
<1>6. ASSUME ppid[q] # NoPid, ppid[q] \in B
      PROVE  FALSE
  <2> DEFINE u == ppid[q]
             own == <<u, born[u]>>
  <2>1. q \in Pids /\ Current(q) /\ u \in Pids /\ Current(u)
    BY <1>2, <1>6
  <2>2. lineage[q] = lineage[u] \cup {own}
    BY <1>6, <2>1 DEF TreeInv, Followed
  <2>3. own \notin lineage[u]
    <3>1. \A a \in lineage[u] : a[1] # u
      BY <2>1 DEF TreeInv, Followed
    <3> QED
      BY <3>1
  <2>4. size(q) = size(u) + 1
    <3>1. IsFiniteSet(lineage[u])
      BY <1>4, <1>6
    <3> HIDE DEF own, u
    <3> QED
      BY <2>2, <2>3, <3>1, FS_AddElement
  <2>5. size(q) <= size(u) /\ size(q) \in Nat /\ size(u) \in Nat
    BY <1>4, <1>5, <1>6
  <2> HIDE DEF size
  <2> QED
    BY <2>4, <2>5
<1> QED
  BY <1>5, <1>6

\* The way up is the family, and ends.
LEMMA UpwardIsFamily ==
    ASSUME TreeInv, NEW p \in Pids, Current(p)
    PROVE  Upward(p) = Family(p) /\ \E q \in Upward(p) : ppid[q] = NoPid
<1> DEFINE up == Upward(p)
<1>1. /\ up \subseteq Pids /\ p \in up /\ Closed(up)
      /\ \A S \in SUBSET Pids : p \in S /\ Closed(S) => up \subseteq S
  BY UpwardClosed DEF TreeInv
<1> HIDE DEF up
<1>2. Family(p) \subseteq Pids /\ p \in Family(p)
  BY DEF Family, TreeInv, TreeTypeOK
<1>3. ASSUME NEW q \in Family(p)
      PROVE  lineage[q] \subseteq lineage[p] /\ Current(q)
  <2>1. lineage[q] \subseteq lineage[p]
    BY DEF Family, TreeInv, AncestorsNested, Current
  <2> QED
    BY <2>1 DEF Current
<1>4. Closed(Family(p))
  <2>1. ASSUME NEW q \in Family(p), ppid[q] # NoPid
        PROVE  ppid[q] \in Family(p)
    <3>1. PICK a \in lineage[q] : a[1] = ppid[q]
      BY <1>2, <2>1 DEF TreeInv, ParentIsAncestor
    <3> QED
      BY <1>3, <3>1 DEF Family
  <2> QED
    BY <2>1 DEF Closed
<1>5. up \subseteq Family(p)
  BY <1>1, <1>2, <1>4
<1>6. PICK root \in up : ppid[root] = NoPid
  <2>1. up \in SUBSET Family(p) /\ up # {}
    BY <1>1, <1>5
  <2>2. PICK q \in up : ppid[q] = NoPid \/ ppid[q] \notin up
    BY <2>1, Descent
  <2> QED
    BY <1>1, <2>2 DEF Closed
<1>7. ASSUME NEW a \in lineage[p]
      PROVE  a[1] \in up
  <2> DEFINE B == {q \in up : a \in lineage[q]}
  <2> SUFFICES ASSUME a[1] \notin up
               PROVE  FALSE
    OBVIOUS
  <2>1. B \in SUBSET Family(p) /\ B # {}
    BY <1>1, <1>5
  <2>2. PICK q \in B : ppid[q] = NoPid \/ ppid[q] \notin B
    <3> HIDE DEF B
    <3> QED
      BY <2>1, Descent
  <2>3. /\ q \in up /\ q \in Pids /\ Current(q) /\ a \in lineage[q]
    BY <1>1, <1>3, <1>5
  <2>4. lineage[q] = IF ppid[q] = NoPid THEN {} ELSE lineage[ppid[q]] \cup {<<ppid[q], born[ppid[q]]>>}
    BY <2>3 DEF TreeInv, Followed
  <2>5. ppid[q] # NoPid /\ ppid[q] \in up /\ a # <<ppid[q], born[ppid[q]]>>
    BY <1>1, <2>3, <2>4 DEF Closed
  <2>6. a \in lineage[ppid[q]]
    BY <2>3, <2>4, <2>5
  <2> QED
    BY <2>2, <2>5, <2>6
<1>8. Family(p) \subseteq up
  BY <1>1, <1>7 DEF Family
<1> QED
  BY <1>5, <1>6, <1>8 DEF up

\* The search is right for a thread in the table.
LEMMA SearchRight ==
    ASSUME TreeInv, NEW p \in threads, Current(p), NEW kind
    PROVE  /\ Search(kind, p) \in {"yes", "no"}
           /\ Search(kind, p) = IF \E q \in Family(p) : Matches(kind, comm[q]) THEN "yes" ELSE "no"
<1>1. p \in Pids /\ threads \in SUBSET Pids /\ Closed(threads)
  BY DEF TreeInv, TreeTypeOK, AllParentsKnown, Closed
<1>2. Upward(p) = Family(p) /\ \E q \in Upward(p) : ppid[q] = NoPid
  BY <1>1, UpwardIsFamily
<1>3. Upward(p) \subseteq threads
  BY <1>1, UpwardClosed DEF TreeInv
<1>4. Search(kind, p) = IF \E q \in Upward(p) : q \in threads /\ Matches(kind, comm[q]) THEN "yes" ELSE "no"
  BY <1>2, <1>3 DEF Search
<1> QED
  BY <1>2, <1>3, <1>4

\* A search asks for no thread that is not in the table, whatever ids are used
\* again.
LEMMA SearchKnown ==
    ASSUME TreeInv, NEW p \in threads, NEW kind
    PROVE  Search(kind, p) \in {"yes", "no", "RecursionError"}
<1>1. p \in Pids /\ threads \in SUBSET Pids /\ Closed(threads)
  BY DEF TreeInv, TreeTypeOK, AllParentsKnown, Closed
<1>2. Upward(p) \subseteq threads
  BY <1>1, UpwardClosed DEF TreeInv
<1> QED
  BY <1>2 DEF Search

\* However many threads are forked and whichever ids are used again: the search
\* of a thread whose ancestors' ids are their own ends, asks for no thread that
\* is not in the table, and answers by the names of the thread and the
\* ancestors it was born with (evaluate_data.py:37-70).
THEOREM SearchAnswersRight == Spec => []AncestryRight
  <1>1. TreeInv => AncestryRight
    BY SearchRight DEF AncestryRight, Family
  <1> QED BY <1>1, TreeInvariant, PTL

-----------------------------------------------------------------------------
(* The recording and the files.                                            *)

\* q has the elements of s at the positions I, in their order.
Lists(q, s, I) ==
    \E at \in [1 .. Len(q) -> I] :
        /\ \A k \in 1 .. Len(q) : q[k] = s[at[k]]
        /\ \A k, l \in 1 .. Len(q) : k < l => at[k] < at[l]
        /\ \A i \in I : \E k \in 1 .. Len(q) : at[k] = i

LEMMA ElementsListed ==
    ASSUME NEW R, NEW s, s \in Seq(R), NEW I, I \subseteq DOMAIN s
    PROVE  ElementsAt(s, I) \in Seq(R) /\ Lists(ElementsAt(s, I), s, I)
  <1> DEFINE n == Cardinality(I)
             at == Ascending(I)
  <1>1. I \subseteq Nat /\ IsFiniteSet(I)
    <2>1. DOMAIN s = 1 .. Len(s) /\ Len(s) \in Nat
      OBVIOUS
    <2>2. IsFiniteSet(1 .. Len(s))
      BY <2>1, FS_Interval
    <2> QED BY <2>1, <2>2, FS_Subset
  <1>2. n \in Nat
    BY <1>1, FS_CardinalityType
  <1>3. /\ at \in Seq(Nat) /\ Len(at) = n
        /\ \A i, j \in 1 .. n : i < j => at[i] < at[j]
        /\ \A i \in 1 .. n : at[i] \in I
        /\ \A c \in I : \E i \in 1 .. n : at[i] = c
    BY <1>1, AscendingLists
  <1>4. ElementsAt(s, I) = [k \in 1 .. n |-> s[at[k]]]
    BY DEF ElementsAt
  <1> HIDE DEF n, at
  <1>5. at \in [1 .. n -> I]
    <2>1. at = [i \in 1 .. n |-> at[i]]
      BY <1>2, <1>3
    <2> QED BY <1>3, <2>1
  <1>6. \A i \in I : s[i] \in R
    OBVIOUS
  <1>7. ElementsAt(s, I) \in Seq(R) /\ Len(ElementsAt(s, I)) = n
    BY <1>2, <1>4, <1>5, <1>6
  <1>8. ElementsAt(s, I) = [k \in 1 .. n |-> s[at[k]]] /\ at \in [1 .. n -> I]
    BY <1>4, <1>5
  <1>9. \A k \in 1 .. n : ElementsAt(s, I)[k] = s[at[k]]
    BY <1>8
  <1> DEFINE q == ElementsAt(s, I)
  <1>10. /\ at \in [1 .. Len(q) -> I]
         /\ \A k \in 1 .. Len(q) : q[k] = s[at[k]]
         /\ \A k, l \in 1 .. Len(q) : k < l => at[k] < at[l]
         /\ \A i \in I : \E k \in 1 .. Len(q) : at[k] = i
    BY <1>3, <1>5, <1>7, <1>9
  <1> HIDE DEF q
  <1>11. Lists(q, s, I)
    BY <1>10 DEF Lists
  <1> QED BY <1>7, <1>11 DEF q

ChromeEvents == [name : ChromeNames, ts : 0 .. MaxTime, data : Phases]
Measured == [start : 0 .. MaxTime, power : Powers \cup {-1}]

\* The runs of a CPU by time t are not empty and are those of threads of T; they
\* end in the order they were recorded in, and from the third on begin after the
\* ones before ended.
RunsInv(runs, t, T) ==
    /\ runs \in Seq(ThreadRunInfo)
    /\ \A i \in 1 .. Len(runs) :
           runs[i].start < runs[i].stop /\ runs[i].stop <= t /\ runs[i].pid \in T
    /\ \A i, j \in 1 .. Len(runs) : i < j =>
           /\ runs[i].stop <= runs[j].stop
           /\ j >= 3 => runs[i].stop < runs[j].start

ActivityInv ==
    /\ DOMAIN cpu_activity \subseteq CPUs
    /\ \A cpu \in DOMAIN cpu_activity : RunsInv(cpu_activity[cpu], now, threads)

\* What is recorded is in the order of time.
RecordInv ==
    /\ now \in 0 .. MaxTime
    /\ "ticks" \in DOMAIN budget /\ budget["ticks"] \in Nat /\ now + budget["ticks"] <= MaxTime
    /\ ActivityInv
    /\ chrome_events \in Seq(ChromeEvents)
    /\ \A i \in 1 .. Len(chrome_events) : chrome_events[i].ts <= now
    /\ \A i, j \in 1 .. Len(chrome_events) : i < j => chrome_events[i].ts <= chrome_events[j].ts
    /\ recorded \in Seq(Measured)
    /\ \A i \in 1 .. Len(recorded) : recorded[i].start <= now
    /\ \A i, j \in 1 .. Len(recorded) : i < j => recorded[i].start < recorded[j].start

\* What trace_conv.py writes of a recording.
Written ==
    [powerlogger |-> PowerRows,
     cg_events |-> CgRows,
     task_load |-> ElementsAt(chrome_events, PhaseChanges),
     cpu_activity |-> [cpu \in DOMAIN cpu_activity |-> Lines(cpu)]]

\* The phases when all have their ends.
PhasesEnded ==
    LET s == FromTheStart(PhasesRead)
    IN [i \in DOMAIN s |-> [s[i] EXCEPT !.stop = PhaseStop(s, i)]]

\* How the evaluation may have ended.
Ended ==
    \/ /\ failed = "KeyError" /\ TimeColumn # "Time [ns]" /\ recorded # <<>>
       /\ measurements = <<>> /\ phases = <<>>
    \/ /\ failed = "FileNotFoundError" /\ CPUs # DOMAIN folder.cpu_activity
       /\ measurements = <<>> /\ phases = <<>>
    \/ /\ failed = "AssertionError" /\ ~RunningFits /\ CPUs = DOMAIN folder.cpu_activity
       /\ measurements = MeasurementsRead /\ phases = PhasesRead
    \/ failed = "IndexError" /\ measurements = <<>> /\ measurements = MeasurementsRead /\ phases = PhasesRead
    \/ /\ failed \in SearchErrors \/ (failed = "none" /\ SearchErrors = {})
       /\ CPUs = DOMAIN folder.cpu_activity
       /\ measurements # <<>> /\ measurements = MeasurementsRead /\ phases = PhasesEnded

FilesInv ==
    /\ stage \in {"recording", "converted", "read", "done"}
    /\ folder = IF stage = "recording" THEN NoFolder ELSE Written
    /\ stage \in {"recording", "converted"} => failed = "none" /\ measurements = <<>> /\ phases = <<>>
    /\ stage = "read" => /\ failed = "none" /\ CPUs = DOMAIN folder.cpu_activity
                         /\ measurements = MeasurementsRead /\ phases = PhasesRead
    /\ stage = "done" => Ended

\* Runs stay what they are when time passes and threads are added.
LEMMA RunsKept ==
    ASSUME NEW runs, NEW t \in Int, NEW T, RunsInv(runs, t, T), NEW u \in Int, t <= u, NEW U, T \subseteq U
    PROVE  RunsInv(runs, u, U)
  <1>1. runs \in Seq(ThreadRunInfo)
    BY DEF RunsInv
  <1>2. ASSUME NEW i \in 1 .. Len(runs)
        PROVE  runs[i].start < runs[i].stop /\ runs[i].stop <= u /\ runs[i].pid \in U
    <2>1. runs[i] \in ThreadRunInfo
      BY <1>1
    <2>2. runs[i].stop \in Int
      BY <2>1, EvaluationAssumption DEF ThreadRunInfo
    <2>3. runs[i].start < runs[i].stop /\ runs[i].stop <= t /\ runs[i].pid \in T
      BY DEF RunsInv
    <2> QED BY <2>2, <2>3
  <1> QED BY <1>1, <1>2 DEF RunsInv

\* So they do when a run up to t is added, from its repaired start on.
LEMMA RunAdded ==
    ASSUME NEW runs, NEW t \in 0 .. MaxTime, NEW T, RunsInv(runs, t, T), NEW runtime \in Nat,
           NEW p \in Pids, p \in T, FixedStart(runs, t, runtime) < t
    PROVE  RunsInv(Append(runs, [pid |-> p, start |-> FixedStart(runs, t, runtime), stop |-> t]), t, T)
  <1> DEFINE n == Len(runs)
             start == FixedStart(runs, t, runtime)
             r == [pid |-> p, start |-> start, stop |-> t]
             q == Append(runs, r)
  <1>1. /\ runs \in Seq(ThreadRunInfo) /\ n \in Nat /\ t \in Int
        /\ \A i \in 1 .. n : runs[i] \in ThreadRunInfo
    BY EvaluationAssumption DEF RunsInv
  <1>2. \A i \in 1 .. n : runs[i].stop \in Int
    BY <1>1, EvaluationAssumption DEF ThreadRunInfo
  <1>3. start \in Int /\ (n >= 2 => runs[n].stop < start)
    <2>1. n >= 2 => runs[n].stop \in Int
      BY <1>1, <1>2
    <2> QED BY <1>1, <2>1 DEF FixedStart, LastOf
  <1>4. r \in ThreadRunInfo /\ r.pid = p /\ r.start = start /\ r.stop = t
    BY <1>3 DEF ThreadRunInfo
  <1> HIDE DEF start, r
  <1>5. /\ q \in Seq(ThreadRunInfo) /\ Len(q) = n + 1 /\ q[n + 1] = r
        /\ \A i \in 1 .. n : q[i] = runs[i]
    BY <1>1, <1>4
  <1> HIDE DEF q
  <1>6. ASSUME NEW i \in 1 .. n + 1
        PROVE  q[i].start < q[i].stop /\ q[i].stop <= t /\ q[i].pid \in T
    <2>1. CASE i = n + 1
      BY <1>1, <1>4, <1>5, <2>1 DEF start
    <2>2. CASE i # n + 1
      <3>1. i \in 1 .. n /\ q[i] = runs[i]
        BY <1>1, <1>5, <2>2
      <3> QED BY <3>1 DEF RunsInv
    <2> QED BY <2>1, <2>2
  <1>7. ASSUME NEW i \in 1 .. n + 1, NEW j \in 1 .. n + 1, i < j
        PROVE  q[i].stop <= q[j].stop /\ (j >= 3 => q[i].stop < q[j].start)
    <2>1. i \in 1 .. n /\ q[i] = runs[i] /\ runs[i].stop \in Int
      BY <1>1, <1>2, <1>5, <1>7, SMTT(30)
    <2>2. CASE j = n + 1
      <3>1. runs[i].stop <= t
        BY <2>1 DEF RunsInv
      <3>2. ASSUME j >= 3
            PROVE  runs[i].stop < start
        <4>1. n \in 1 .. n /\ n >= 2
          BY <1>1, <2>2, <3>2
        <4>2. i = n \/ runs[i].stop <= runs[n].stop
          <5>1. i = n \/ i < n
            BY <1>1, <2>1
          <5> QED BY <2>1, <4>1, <5>1 DEF RunsInv
        <4>3. runs[n].stop \in Int
          BY <1>2, <4>1
        <4> QED BY <1>3, <2>1, <4>1, <4>2, <4>3, SMTT(30)
      <3> QED BY <1>4, <1>5, <2>1, <2>2, <3>1, <3>2
    <2>3. CASE j # n + 1
      <3>1. j \in 1 .. n /\ q[j] = runs[j]
        BY <1>1, <1>5, <2>3
      <3> QED BY <1>7, <2>1, <3>1 DEF RunsInv
    <2> QED BY <2>2, <2>3
  <1>8. RunsInv(q, t, T)
    BY <1>5, <1>6, <1>7 DEF RunsInv
  <1> QED BY <1>8 DEF q, r, start

\* At first there is nothing.
LEMMA FilesInit == Init => RecordInv /\ FilesInv
  <1> SUFFICES ASSUME Init PROVE RecordInv /\ FilesInv
    OBVIOUS
  <1>1. MaxTime \in Nat /\ now = 0 /\ budget \in Budgets
    BY EvaluationAssumption DEF Init
  <1>2. budget \in [names : Nat, forks : Nat, runtimes : Nat, chrome : Nat,
                    iterations : Nat, ticks : 0 .. MaxTime, busy : Nat, longest : Nat]
    BY <1>1, EvaluationAssumption
  <1>3. RecordInv
    <2>1. ActivityInv
      BY DEF Init, ActivityInv
    <2> QED BY <1>1, <1>2, <2>1 DEF Init, RecordInv
  <1>4. FilesInv
    BY DEF Init, FilesInv
  <1> QED BY <1>3, <1>4

\* While recording, the files are not there; otherwise nothing recorded changes.
LEMMA RecordStep ==
    ASSUME RecordInv, TreeInv, [Next]_vars
    PROVE  RecordInv'
  <1> DEFINE ticks == budget["ticks"]
             Left == "ticks" \in DOMAIN budget /\ budget["ticks"] \in Nat /\ now + budget["ticks"] <= MaxTime
  <1>1. ASSUME NEW kind, Spend(kind)
        PROVE  "ticks" \in DOMAIN budget' /\ budget'["ticks"] = IF kind = "ticks" THEN ticks - 1 ELSE ticks
    BY <1>1 DEF Spend, RecordInv
  <1>2. now \in Nat /\ MaxTime \in Nat /\ ticks \in Nat /\ now + ticks <= MaxTime /\ now \in 0 .. MaxTime
    BY EvaluationAssumption DEF RecordInv
  <1>3. CASE TimePasses
    <2>1. now' = now + 1 /\ UNCHANGED <<threads, cpu_activity, chrome_events, recorded>> /\ Spend("ticks")
      BY <1>3 DEF TimePasses
    <2>2. "ticks" \in DOMAIN budget' /\ budget'["ticks"] = ticks - 1
      BY <1>1, <2>1
    <2>3. ticks > 0
      BY <2>1 DEF Spend
    <2>4. /\ now' \in 0 .. MaxTime /\ Left'
          /\ \A x \in Int : x <= now => x <= now'
      <3> HIDE DEF ticks
      <3> QED BY <1>2, <2>1, <2>2, <2>3
    <2>5. \A i \in 1 .. Len(chrome_events) : chrome_events[i].ts \in Int
      <3>1. \A i \in 1 .. Len(chrome_events) : chrome_events[i] \in ChromeEvents
        BY DEF RecordInv
      <3>2. \A e \in ChromeEvents : e.ts \in Int
        BY <1>2 DEF ChromeEvents
      <3> QED BY <3>1, <3>2
    <2>6. \A i \in 1 .. Len(recorded) : recorded[i].start \in Int
      <3>1. \A i \in 1 .. Len(recorded) : recorded[i] \in Measured
        BY DEF RecordInv
      <3>2. \A m \in Measured : m.start \in Int
        BY <1>2 DEF Measured
      <3> QED BY <3>1, <3>2
    <2>7. ActivityInv'
      <3>1. ASSUME NEW cpu \in DOMAIN cpu_activity
            PROVE  RunsInv(cpu_activity[cpu], now + 1, threads)
        <4>1. RunsInv(cpu_activity[cpu], now, threads)
          BY DEF RecordInv, ActivityInv
        <4> QED BY <1>2, <4>1, RunsKept
      <3> QED BY <2>1, <3>1 DEF RecordInv, ActivityInv
    <2> HIDE DEF ticks
    <2> QED BY <2>1, <2>4, <2>5, <2>6, <2>7 DEF RecordInv
  <1>4. ASSUME NEW kind \in {"forks", "names", "runtimes", "chrome", "iterations"}, Spend(kind), now' = now
        PROVE  Left'
    <2>1. kind # "ticks"
      OBVIOUS
    <2>2. "ticks" \in DOMAIN budget' /\ budget'["ticks"] = ticks
      BY <1>1, <1>4, <2>1
    <2> HIDE DEF ticks
    <2> QED BY <1>2, <1>4, <2>2
  <1>5. CASE TraceFork \/ TraceName
    <2>1. /\ UNCHANGED <<now, cpu_activity, chrome_events, recorded>>
          /\ Spend("forks") \/ Spend("names")
      BY <1>5 DEF TraceFork, TraceName
    <2>2. threads \subseteq threads'
      BY <1>5 DEF TraceFork, TraceName, Fork, Enter, Heard
    <2>3. ActivityInv'
      <3>1. ASSUME NEW cpu \in DOMAIN cpu_activity
            PROVE  RunsInv(cpu_activity[cpu], now, threads')
        <4>1. RunsInv(cpu_activity[cpu], now, threads)
          BY DEF RecordInv, ActivityInv
        <4> QED BY <1>2, <2>2, <4>1, RunsKept
      <3> QED BY <2>1, <3>1 DEF RecordInv, ActivityInv
    <2> QED BY <1>4, <2>1, <2>3 DEF RecordInv
  <1>6. CASE TraceRuntime
    <2>1. UNCHANGED <<now, chrome_events, recorded>> /\ Spend("runtimes")
      BY <1>6 DEF TraceRuntime
    <2>2. PICK p \in Pids, cpu \in CPUs, runtime \in 1 .. budget.longest :
              LET start == FixedStart(Runs(cpu), now, runtime)
              IN /\ threads' = threads \cup {p}
                 /\ cpu_activity' = [c \in DOMAIN cpu_activity \cup {cpu} |->
                        IF c = cpu /\ start < now
                        THEN Append(Runs(c), [pid |-> p, start |-> start, stop |-> now])
                        ELSE Runs(c)]
      BY <1>6 DEF TraceRuntime, Heard
    <2> DEFINE start == FixedStart(Runs(cpu), now, runtime)
               run == [pid |-> p, start |-> start, stop |-> now]
    <2>3. ASSUME NEW c \in CPUs
          PROVE  RunsInv(Runs(c), now, threads')
      <3>1. CASE c \in DOMAIN cpu_activity
        <4>1. RunsInv(Runs(c), now, threads)
          BY <3>1 DEF RecordInv, ActivityInv, Runs
        <4> QED BY <1>2, <2>2, <4>1, RunsKept
      <3>2. CASE c \notin DOMAIN cpu_activity
        BY <3>2 DEF Runs, RunsInv
      <3> QED BY <3>1, <3>2
    <2>4. ASSUME start < now
          PROVE  RunsInv(Append(Runs(cpu), run), now, threads')
      <3>1. RunsInv(Runs(cpu), now, threads')
        <4> HIDE DEF start, run
        <4> QED BY <2>3
      <3>2. p \in threads'
        <4> HIDE DEF start, run
        <4> QED BY <2>2
      <3>3. runtime \in Nat
        OBVIOUS
      <3> QED BY <1>2, <2>4, <3>1, <3>2, <3>3, RunAdded
    <2> HIDE DEF start, run
    <2>5. ActivityInv'
      <3>1. cpu_activity' = [c \in DOMAIN cpu_activity \cup {cpu} |->
                                IF c = cpu /\ start < now THEN Append(Runs(c), run) ELSE Runs(c)]
        BY <2>2 DEF start, run
      <3>2. DOMAIN cpu_activity' \subseteq CPUs
        BY <3>1 DEF RecordInv, ActivityInv
      <3>3. ASSUME NEW c \in DOMAIN cpu_activity'
            PROVE  RunsInv(cpu_activity'[c], now, threads')
        <4>1. CASE c = cpu /\ start < now
          BY <2>4, <3>1, <4>1
        <4>2. CASE ~(c = cpu /\ start < now)
          <5>1. cpu_activity'[c] = Runs(c)
            BY <3>1, <4>2
          <5> QED BY <2>3, <3>2, <5>1
        <4> QED BY <4>1, <4>2
      <3> QED BY <2>1, <3>2, <3>3 DEF ActivityInv
    <2> QED BY <1>4, <2>1, <2>5 DEF RecordInv
  <1>7. CASE TraceChrome
    <2>1. UNCHANGED <<threads, cpu_activity, now, recorded>> /\ Spend("chrome")
      BY <1>7 DEF TraceChrome
    <2>2. PICK e \in ChromeEvents : e.ts = now /\ chrome_events' = Append(chrome_events, e)
      <3>1. PICK name \in ChromeNames, data \in Phases :
                chrome_events' = Append(chrome_events, [name |-> name, ts |-> now, data |-> data])
        BY <1>7 DEF TraceChrome
      <3>2. [name |-> name, ts |-> now, data |-> data] \in ChromeEvents
        BY DEF ChromeEvents, RecordInv
      <3> QED BY <3>1, <3>2
    <2> DEFINE n == Len(chrome_events)
               q == chrome_events'
    <2>3. /\ q \in Seq(ChromeEvents) /\ Len(q) = n + 1 /\ q[n + 1] = e /\ n \in Nat
          /\ \A i \in 1 .. n : q[i] = chrome_events[i] /\ chrome_events[i].ts <= now
          /\ \A i, j \in 1 .. n : i < j => chrome_events[i].ts <= chrome_events[j].ts
      BY <2>2 DEF RecordInv
    <2> HIDE DEF n, q
    <2>4. \A i \in 1 .. n + 1 : q[i].ts <= now
      <3> SUFFICES ASSUME NEW i \in 1 .. n + 1 PROVE q[i].ts <= now
        OBVIOUS
      <3>1. i \in 1 .. n \/ i = n + 1
        BY <2>3
      <3> QED BY <1>2, <2>2, <2>3, <3>1
    <2>5. \A i, j \in 1 .. n + 1 : i < j => q[i].ts <= q[j].ts
      <3> SUFFICES ASSUME NEW i \in 1 .. n + 1, NEW j \in 1 .. n + 1, i < j
                   PROVE  q[i].ts <= q[j].ts
        OBVIOUS
      <3>1. i \in 1 .. n /\ (j \in 1 .. n \/ j = n + 1)
        BY <2>3
      <3> QED BY <2>2, <2>3, <3>1
    <2>7. ActivityInv'
      BY <2>1 DEF RecordInv, ActivityInv
    <2> QED BY <1>4, <2>1, <2>3, <2>4, <2>5, <2>7 DEF RecordInv, q
  <1>8. CASE TraceIteration
    <2>1. /\ UNCHANGED <<threads, cpu_activity, now, chrome_events>> /\ Spend("iterations")
          /\ \A m \in ToSet(recorded) : m.start < now
      BY <1>8 DEF TraceIteration
    <2>2. PICK m \in Measured : m.start = now /\ recorded' = Append(recorded, m)
      <3>1. PICK power \in Powers \cup {-1} : recorded' = Append(recorded, [start |-> now, power |-> power])
        BY <1>8 DEF TraceIteration
      <3>2. [start |-> now, power |-> power] \in Measured
        BY DEF Measured, RecordInv
      <3> QED BY <3>1, <3>2
    <2> DEFINE n == Len(recorded)
               q == recorded'
    <2>3. /\ q \in Seq(Measured) /\ Len(q) = n + 1 /\ q[n + 1] = m /\ n \in Nat
          /\ \A i \in 1 .. n : q[i] = recorded[i] /\ recorded[i].start <= now
          /\ \A i, j \in 1 .. n : i < j => recorded[i].start < recorded[j].start
      BY <2>2 DEF RecordInv
    <2>6. \A i \in 1 .. n : recorded[i].start < now
      BY <2>1 DEF ToSet, RecordInv
    <2> HIDE DEF n, q
    <2>4. \A i \in 1 .. n + 1 : q[i].start <= now
      <3> SUFFICES ASSUME NEW i \in 1 .. n + 1 PROVE q[i].start <= now
        OBVIOUS
      <3>1. i \in 1 .. n \/ i = n + 1
        BY <2>3
      <3> QED BY <1>2, <2>2, <2>3, <3>1
    <2>5. \A i, j \in 1 .. n + 1 : i < j => q[i].start < q[j].start
      <3> SUFFICES ASSUME NEW i \in 1 .. n + 1, NEW j \in 1 .. n + 1, i < j
                   PROVE  q[i].start < q[j].start
        OBVIOUS
      <3>1. i \in 1 .. n /\ (j \in 1 .. n \/ j = n + 1)
        BY <2>3
      <3> QED BY <2>2, <2>3, <2>6, <3>1
    <2>7. ActivityInv'
      BY <2>1 DEF RecordInv, ActivityInv
    <2> QED BY <1>4, <2>1, <2>3, <2>4, <2>5, <2>7 DEF RecordInv, q
  <1>9. CASE Convert \/ ReadRun \/ OutputFiles \/ UNCHANGED vars
    <2>1. UNCHANGED <<threads, now, budget, cpu_activity, chrome_events, recorded>>
      BY <1>9 DEF Convert, ReadRun, OutputFiles, vars, recordVars
    <2>2. ActivityInv'
      BY <2>1 DEF RecordInv, ActivityInv
    <2> QED BY <2>1, <2>2 DEF RecordInv
  <1> QED BY <1>3, <1>5, <1>6, <1>7, <1>8, <1>9 DEF Next

\* One measurement is read for each that was recorded.
LEMMA RowsRead ==
    ASSUME RecordInv, folder = Written
    PROVE  /\ Len(recorded) \in Nat /\ Len(MeasurementsRead) = Len(recorded)
           /\ MeasurementsRead \in Seq([start : Nat, stop : Nat, power2 : Nat])
           /\ \A i \in 1 .. Len(recorded) :
                  /\ MeasurementsRead[i].start = recorded[i].start
                  /\ MeasurementsRead[i].start <= MeasurementsRead[i].stop
                  /\ i < Len(recorded) => MeasurementsRead[i].stop = recorded[i + 1].start - 1
  <1> DEFINE n == Len(recorded)
             rows == folder.powerlogger
             M == MeasurementsRead
             Row == [time : Nat, power : Nat]
  <1>1. n \in Nat /\ DOMAIN recorded = 1 .. n /\ (\A i \in 1 .. n : recorded[i] \in Measured)
        /\ (\A i, j \in 1 .. n : i < j => recorded[i].start < recorded[j].start)
    BY DEF RecordInv
  <1>2. \A m \in Measured : m.start \in Nat /\ (m.power = -1 \/ m.power \in Nat)
    BY EvaluationAssumption DEF Measured
  <1>3. rows = [i \in 1 .. n |-> [time |-> recorded[i].start,
                                  power |-> IF recorded[i].power # -1 THEN recorded[i].power ELSE 0]]
    BY <1>1 DEF Written, PowerRows
  <1> HIDE DEF n, rows
  <1>4. DOMAIN rows = 1 .. n /\ rows \in Seq(Row) /\ Len(rows) = n
        /\ \A i \in 1 .. n : rows[i].time = recorded[i].start /\ rows[i].time \in Nat /\ rows[i].power \in Nat
    <2>1. \A i \in 1 .. n : rows[i] \in Row /\ rows[i].time = recorded[i].start
      BY <1>1, <1>2, <1>3
    <2>2. rows \in [1 .. n -> Row]
      BY <1>3, <2>1
    <2>3. rows \in Seq(Row) /\ Len(rows) = n /\ DOMAIN rows = 1 .. n
      BY <1>1, <2>2, FunctionIsSeq
    <2> QED BY <2>1, <2>3
  <1>5. M = [i \in 1 .. n |->
               IF i < n
               THEN [start |-> rows[i].time, stop |-> rows[i + 1].time - 1,
                     power2 |-> rows[i].power + rows[i + 1].power]
               ELSE [start |-> rows[i].time, stop |-> rows[i].time + TailInterval - 1,
                     power2 |-> 2 * rows[i].power]]
    BY <1>4 DEF MeasurementsRead, rows
  <1> HIDE DEF M
  <1>6. ASSUME NEW i \in 1 .. n
        PROVE  /\ M[i] \in [start : Nat, stop : Nat, power2 : Nat]
               /\ M[i].start = recorded[i].start /\ M[i].start <= M[i].stop
               /\ i < n => M[i].stop = recorded[i + 1].start - 1
    <2>1. CASE i < n
      <3>1. i + 1 \in 1 .. n /\ i < i + 1
        BY <1>1, <2>1
      <3> DEFINE t == rows[i].time
                 u == rows[i + 1].time
                 p == rows[i].power + rows[i + 1].power
      <3>2. t \in Nat /\ u \in Nat /\ t < u /\ p \in Nat /\ t = recorded[i].start /\ u = recorded[i + 1].start
        <4>1. recorded[i].start < recorded[i + 1].start
          BY <1>1, <3>1
        <4>2. /\ rows[i].time = recorded[i].start /\ rows[i].time \in Nat /\ rows[i].power \in Nat
              /\ rows[i + 1].time = recorded[i + 1].start /\ rows[i + 1].time \in Nat /\ rows[i + 1].power \in Nat
          BY <1>4, <3>1
        <4> QED BY <4>1, <4>2
      <3>3. M[i] = [start |-> t, stop |-> u - 1, power2 |-> p]
        BY <1>5, <2>1
      <3> HIDE DEF t, u, p
      <3>4. u - 1 \in Nat /\ t <= u - 1
        BY <3>2
      <3> QED BY <3>2, <3>3, <3>4
    <2>2. CASE ~(i < n)
      <3> DEFINE t == rows[i].time
                 p == 2 * rows[i].power
      <3>1. t \in Nat /\ p \in Nat /\ t = recorded[i].start
        BY <1>4
      <3>2. M[i] = [start |-> t, stop |-> t + TailInterval - 1, power2 |-> p]
        BY <1>5, <2>2
      <3> HIDE DEF t, p
      <3>3. t + TailInterval - 1 \in Nat /\ t <= t + TailInterval - 1
        BY <3>1, EvaluationAssumption
      <3> QED BY <2>2, <3>1, <3>2, <3>3
    <2> QED BY <2>1, <2>2
  <1>7. M \in [1 .. n -> [start : Nat, stop : Nat, power2 : Nat]]
    BY <1>5, <1>6
  <1>8. M \in Seq([start : Nat, stop : Nat, power2 : Nat]) /\ Len(M) = n
    <2> DEFINE R == [start : Nat, stop : Nat, power2 : Nat]
    <2>1. M \in [1 .. n -> R]
      BY <1>7
    <2> HIDE DEF R
    <2>2. M \in Seq(R) /\ Len(M) = n
      BY <1>1, <2>1, FunctionIsSeq
    <2> QED BY <2>2 DEF R
  <1> QED BY <1>1, <1>6, <1>8 DEF M, n

-----------------------------------------------------------------------------
(* The lines of a CPU, and what they come to.                              *)

\* Measurements one after the other, without a gap.
Axis(ms) ==
    /\ ms \in Seq([start : Nat, stop : Nat, power2 : Nat]) /\ Len(ms) \in Nat \ {0}
    /\ \A i \in 1 .. Len(ms) : ms[i].start <= ms[i].stop
    /\ \A i, j \in 1 .. Len(ms) : i < j => ms[i].start < ms[j].start
    /\ \A i \in 1 .. Len(ms) - 1 : ms[i].stop = ms[i + 1].start - 1

\* Lines that lie within the measurements and end in their order.
Fitting(ms, lines) ==
    /\ lines \in Seq(Line)
    /\ \A k \in 1 .. Len(lines) :
           /\ ms[1].start <= lines[k].start /\ lines[k].start <= lines[k].stop
           /\ lines[k].stop <= ms[Len(ms)].stop
    /\ \A k, l \in 1 .. Len(lines) : k < l => lines[k].stop <= lines[l].stop

\* Lines of which none begins before those before it ended.
Apart(lines) == \A k, l \in 1 .. Len(lines) : k < l => lines[k].stop < lines[l].start

LEMMA AxisRead ==
    ASSUME RecordInv, folder = Written, Len(recorded) > 0
    PROVE  Axis(MeasurementsRead)
  <1> DEFINE n == Len(recorded)
             M == MeasurementsRead
  <1>1. /\ n \in Nat \ {0} /\ Len(M) = n /\ M \in Seq([start : Nat, stop : Nat, power2 : Nat])
        /\ \A i \in 1 .. n : /\ M[i].start = recorded[i].start
                             /\ M[i].start <= M[i].stop
                             /\ i < n => M[i].stop = recorded[i + 1].start - 1
    BY RowsRead
  <1>2. \A i, j \in 1 .. n : i < j => recorded[i].start < recorded[j].start
    BY DEF RecordInv
  <1> HIDE DEF n, M
  <1>3. ASSUME NEW i \in 1 .. n - 1
        PROVE  M[i].stop = M[i + 1].start - 1
    <2>1. i \in 1 .. n /\ i + 1 \in 1 .. n /\ i < n
      BY <1>1
    <2> QED BY <1>1, <2>1
  <1>4. Axis(M)
    BY <1>1, <1>2, <1>3 DEF Axis
  <1> QED BY <1>4 DEF M

\* The lines written are clipped runs of known threads, in their order, and
\* overlap only if the first two runs did.
LEMMA LinesWritten ==
    ASSUME RecordInv, NEW cpu \in DOMAIN cpu_activity
    PROVE  LET q == Lines(cpu)
           IN /\ q \in Seq(Line)
              /\ Len(recorded) < 2 => q = <<>>
              /\ \A k \in 1 .. Len(q) :
                     /\ q[k].pid \in threads
                     /\ recorded[1].start <= q[k].start /\ q[k].start <= q[k].stop
                     /\ q[k].stop <= recorded[Len(recorded)].start
              /\ \A k, l \in 1 .. Len(q) : k < l => q[k].stop <= q[l].stop
              /\ ~FirstRunsOverlap(cpu) => Apart(q)
  <1>1. CASE Len(recorded) < 2
    BY <1>1 DEF Lines, Apart
  <1>2. CASE ~(Len(recorded) < 2)
    <2> DEFINE runs == cpu_activity[cpu]
               first == recorded[1].start
               last == recorded[Len(recorded)].start
               I == {i \in DOMAIN runs : /\ runs[i].stop >= first
                                         /\ \A j \in 1 .. i : runs[j].start <= last}
               kept == ElementsAt(runs, I)
               q == [k \in DOMAIN kept |-> [pid |-> kept[k].pid,
                                            start |-> Max({kept[k].start, first}),
                                            stop |-> Min({kept[k].stop, last})]]
    <2>1. Lines(cpu) = q
      BY <1>2 DEF Lines
    <2>2. first \in 0 .. MaxTime /\ last \in 0 .. MaxTime /\ first < last /\ MaxTime \in Nat
      <3>1. /\ recorded \in Seq(Measured)
            /\ \A i, j \in 1 .. Len(recorded) : i < j => recorded[i].start < recorded[j].start
        BY DEF RecordInv
      <3>2. 1 \in 1 .. Len(recorded) /\ Len(recorded) \in 1 .. Len(recorded) /\ 1 < Len(recorded)
        BY <1>2, <3>1
      <3>3. recorded[1] \in Measured /\ recorded[Len(recorded)] \in Measured
        BY <3>1, <3>2
      <3> QED BY <3>1, <3>2, <3>3, EvaluationAssumption DEF Measured
    <2>3. RunsInv(runs, now, threads) /\ now \in 0 .. MaxTime
      BY DEF RecordInv, ActivityInv
    <2>4. /\ runs \in Seq(ThreadRunInfo) /\ DOMAIN runs = 1 .. Len(runs) /\ Len(runs) \in Nat
          /\ \A i \in 1 .. Len(runs) : /\ runs[i] \in ThreadRunInfo
                                       /\ runs[i].start < runs[i].stop /\ runs[i].pid \in threads
          /\ \A i, j \in 1 .. Len(runs) : i < j => /\ runs[i].stop <= runs[j].stop
                                                   /\ j >= 3 => runs[i].stop < runs[j].start
      BY <2>3 DEF RunsInv
    <2>5. \A i \in 1 .. Len(runs) : /\ runs[i].start \in Int /\ runs[i].stop \in 0 .. MaxTime
                                    /\ runs[i].pid \in Pids
      BY <2>4 DEF ThreadRunInfo
    <2>6. kept \in Seq(ThreadRunInfo) /\ Lists(kept, runs, I)
      BY <2>4, ElementsListed
    <2> HIDE DEF kept
    <2> DEFINE n == Len(kept)
    <2>7. PICK at \in [1 .. n -> I] :
              /\ \A k \in 1 .. n : kept[k] = runs[at[k]]
              /\ \A k, l \in 1 .. n : k < l => at[k] < at[l]
      BY <2>6 DEF Lists
    <2>8. n \in Nat /\ DOMAIN kept = 1 .. n
      BY <2>6
    <2>9. ASSUME NEW i \in I
          PROVE  i \in 1 .. Len(runs) /\ first <= runs[i].stop /\ runs[i].start <= last
      <3>1. i \in 1 .. Len(runs) /\ runs[i].stop >= first /\ \A j \in 1 .. i : runs[j].start <= last
        BY <2>4
      <3>2. i \in 1 .. i /\ runs[i].stop \in Int
        BY <2>5, <3>1
      <3> QED BY <2>2, <3>1, <3>2
    <2>10. \A k \in 1 .. n : /\ at[k] \in 1 .. Len(runs)
                             /\ first <= runs[at[k]].stop /\ runs[at[k]].start <= last
      BY <2>7, <2>9
    <2> DEFINE start(k) == IF runs[at[k]].start >= first THEN runs[at[k]].start ELSE first
               stop(k) == IF runs[at[k]].stop <= last THEN runs[at[k]].stop ELSE last
    <2>11. ASSUME NEW k \in 1 .. n
           PROVE  q[k].pid = runs[at[k]].pid /\ q[k].start = start(k) /\ q[k].stop = stop(k)
      <3>1. q[k] = [pid |-> runs[at[k]].pid, start |-> Max({runs[at[k]].start, first}),
                    stop |-> Min({runs[at[k]].stop, last})]
        BY <2>7, <2>8
      <3>2. runs[at[k]].start \in Int /\ runs[at[k]].stop \in Int /\ first \in Int /\ last \in Int
        BY <2>2, <2>5, <2>10
      <3> DEFINE x == runs[at[k]].start
                 y == runs[at[k]].stop
      <3> HIDE DEF x, y, first, last
      <3>4. Max({x, first}) = (IF x >= first THEN x ELSE first) /\ Min({y, last}) = (IF y <= last THEN y ELSE last)
        BY <3>2, MinMaxOfTwo DEF x, y
      <3>3. Max({runs[at[k]].start, first}) = start(k) /\ Min({runs[at[k]].stop, last}) = stop(k)
        BY <3>4 DEF x, y
      <3> QED BY <3>1, <3>3
    <2> DEFINE r(k) == runs[at[k]]
    <2>12. ASSUME NEW k \in 1 .. n
           PROVE  /\ r(k).start \in Int /\ r(k).stop \in 0 .. MaxTime /\ r(k).start < r(k).stop
                  /\ first <= r(k).stop /\ r(k).start <= last
                  /\ r(k).pid \in threads /\ r(k).pid \in Pids
      BY <2>4, <2>5, <2>10
    <2> HIDE DEF first, last, I
    <2>13. ASSUME NEW k \in 1 .. n
           PROVE  /\ start(k) \in 0 .. MaxTime /\ stop(k) \in 0 .. MaxTime
                  /\ first <= start(k) /\ start(k) <= stop(k) /\ stop(k) <= last
      BY <2>2, <2>12
    <2>14. ASSUME NEW k \in 1 .. n, NEW l \in 1 .. n, k < l
           PROVE  stop(k) <= stop(l) /\ (~FirstRunsOverlap(cpu) => stop(k) < start(l))
      <3>1. at[k] < at[l] /\ at[k] \in 1 .. Len(runs) /\ at[l] \in 1 .. Len(runs)
        BY <2>7, <2>10, <2>14
      <3>2. r(k).stop <= r(l).stop /\ (at[l] >= 3 => r(k).stop < r(l).start)
        <4>1. \A i, j \in 1 .. Len(runs) : i < j => /\ runs[i].stop <= runs[j].stop
                                                    /\ j >= 3 => runs[i].stop < runs[j].start
          <5> HIDE DEF runs
          <5> QED BY <2>4
        <4> DEFINE x == at[k]
                   y == at[l]
        <4>2. x < y /\ x \in 1 .. Len(runs) /\ y \in 1 .. Len(runs)
          BY <3>1
        <4> HIDE DEF x, y, runs
        <4>3. runs[x].stop <= runs[y].stop /\ (y >= 3 => runs[x].stop < runs[y].start)
          BY <4>1, <4>2
        <4> QED BY <4>3 DEF x, y
      <3>3. ASSUME ~FirstRunsOverlap(cpu), ~(at[l] >= 3)
            PROVE  r(k).stop < r(l).start
        <4>1. at[k] = 1 /\ at[l] = 2 /\ Len(runs) >= 2
          BY <2>4, <3>1, <3>3
        <4>2. ~(runs[2].start <= runs[1].stop)
          BY <3>3, <4>1 DEF FirstRunsOverlap, Runs
        <4> QED BY <2>12, <4>1, <4>2
      <3> QED BY <2>2, <2>12, <3>2, <3>3, SMTT(30)
    <2>15. q \in Seq(Line) /\ Len(q) = n
      <3>1. ASSUME NEW k \in 1 .. n
            PROVE  q[k] \in Line
        <4>1. q[k] = [pid |-> q[k].pid, start |-> q[k].start, stop |-> q[k].stop]
          BY <2>8
        <4> QED BY <2>11, <2>12, <2>13, <4>1, ZenonT(30) DEF Line
      <3>2. q = [k \in 1 .. n |-> q[k]]
        BY <2>8
      <3> HIDE DEF q, n
      <3>3. q \in [1 .. n -> Line]
        BY <3>1, <3>2
      <3> QED BY <2>8, <3>3, FunctionIsSeq
    <2>16. ASSUME NEW k \in 1 .. n
           PROVE  /\ q[k].pid \in threads
                  /\ first <= q[k].start /\ q[k].start <= q[k].stop /\ q[k].stop <= last
      <3> HIDE DEF q, n, start, stop
      <3> QED BY <2>11, <2>12, <2>13
    <2>17. ASSUME NEW k \in 1 .. n, NEW l \in 1 .. n, k < l
           PROVE  q[k].stop <= q[l].stop /\ (~FirstRunsOverlap(cpu) => q[k].stop < q[l].start)
      <3> HIDE DEF q, n, start, stop
      <3> QED BY <2>11, <2>14, <2>17
    <2> HIDE DEF q, n
    <2> QED BY <1>2, <2>1, <2>15, <2>16, <2>17 DEF Apart, first, last
  <1> QED BY <1>1, <1>2

LEMMA LinesFit ==
    ASSUME RecordInv, folder = Written, Len(recorded) > 0, NEW cpu \in DOMAIN cpu_activity
    PROVE  Fitting(MeasurementsRead, Lines(cpu))
  <1> DEFINE q == Lines(cpu)
             n == Len(recorded)
             M == MeasurementsRead
  <1>1. /\ q \in Seq(Line)
        /\ \A k \in 1 .. Len(q) : /\ recorded[1].start <= q[k].start /\ q[k].start <= q[k].stop
                                  /\ q[k].stop <= recorded[n].start
        /\ \A k, l \in 1 .. Len(q) : k < l => q[k].stop <= q[l].stop
    BY LinesWritten
  <1>2. /\ Len(M) = n /\ n \in Nat
        /\ M \in Seq([start : Nat, stop : Nat, power2 : Nat])
        /\ \A i \in 1 .. n : M[i].start = recorded[i].start /\ M[i].start <= M[i].stop
    BY RowsRead
  <1>3. 1 \in 1 .. n /\ n \in 1 .. n
    BY <1>2
  <1> HIDE DEF q, n, M
  <1>4. M[1].start = recorded[1].start /\ M[n].start = recorded[n].start
        /\ M[n].start \in Int /\ M[n].stop \in Int /\ M[n].start <= M[n].stop
    <2> DEFINE X == [start : Nat, stop : Nat, power2 : Nat]
    <2>1. M[n] \in X
      <3>1. M \in Seq(X) /\ Len(M) = n
        BY <1>2
      <3> HIDE DEF X
      <3> QED BY <1>3, <3>1
    <2>2. M[n].start \in Int /\ M[n].stop \in Int
      BY <2>1
    <2> QED BY <1>2, <1>3, <2>2
  <1>5. ASSUME NEW k \in 1 .. Len(q)
        PROVE  M[1].start <= q[k].start /\ q[k].start <= q[k].stop /\ q[k].stop <= M[n].stop
    <2>1. q[k] \in Line
      BY <1>1
    <2>2. q[k].stop \in Int
      BY <2>1, EvaluationAssumption DEF Line
    <2> QED BY <1>1, <1>4, <2>2
  <1>6. Fitting(M, q)
    BY <1>1, <1>2, <1>5 DEF Fitting
  <1> QED BY <1>6 DEF M, q

\* Before the first line.
NoLines(ms) == [last_index |-> 0, running_ns |-> [i \in DOMAIN ms |-> 0], held |-> TRUE]

\* The accounts after the lines up to m.
Accounts(ms, lines, m, g) ==
    g = [k \in 0 .. m |-> IF k = 0 THEN NoLines(ms) ELSE AddCpuActivity(ms, g[k - 1], lines[k])]

\* The account is taken line by line.
LEMMA AccountSteps ==
    ASSUME NEW ms, NEW lines, Len(lines) \in Nat
    PROVE  \E g : /\ g[0] = NoLines(ms)
                  /\ \A k \in 1 .. Len(lines) : g[k] = AddCpuActivity(ms, g[k - 1], lines[k])
                  /\ Account(ms, lines) = g[Len(lines)]
  <1> DEFINE n == Len(lines)
             T == {m \in Nat : \E g : Accounts(ms, lines, m, g)}
             account == CHOOSE g : Accounts(ms, lines, n, g)
  <1>1. 0 \in T
    <2>1. Accounts(ms, lines, 0, [k \in 0 .. 0 |-> NoLines(ms)])
      BY DEF Accounts
    <2> QED BY <2>1
  <1>2. ASSUME NEW m \in Nat, m \in T
        PROVE  m + 1 \in T
    <2>1. PICK g : Accounts(ms, lines, m, g)
      BY <1>2
    <2> DEFINE h == [k \in 0 .. m + 1 |-> IF k = m + 1 THEN AddCpuActivity(ms, g[m], lines[m + 1]) ELSE g[k]]
    <2>2. ASSUME NEW k \in 0 .. m + 1
          PROVE  h[k] = IF k = 0 THEN NoLines(ms) ELSE AddCpuActivity(ms, h[k - 1], lines[k])
      <3>1. CASE k = m + 1
        <4>1. k # 0 /\ k - 1 = m /\ m \in 0 .. m + 1 /\ m # m + 1
          BY <3>1
        <4> QED BY <3>1, <4>1
      <3>2. CASE k # m + 1
        <4>1. k \in 0 .. m /\ h[k] = g[k]
          BY <3>2
        <4>2. g[k] = IF k = 0 THEN NoLines(ms) ELSE AddCpuActivity(ms, g[k - 1], lines[k])
          BY <2>1, <4>1 DEF Accounts
        <4>3. k # 0 => k - 1 \in 0 .. m + 1 /\ k - 1 # m + 1 /\ h[k - 1] = g[k - 1]
          BY <4>1
        <4> QED BY <4>1, <4>2, <4>3
      <3> QED BY <3>1, <3>2
    <2>3. h = [k \in 0 .. m + 1 |-> h[k]]
      OBVIOUS
    <2> HIDE DEF h
    <2>4. Accounts(ms, lines, m + 1, h)
      BY <2>2, <2>3 DEF Accounts
    <2> QED BY <2>4
  <1>3. n \in T
    <2> HIDE DEF T
    <2> QED BY <1>1, <1>2, NatSetInduction
  <1>4. Accounts(ms, lines, n, account)
    BY <1>3
  <1>5. Account(ms, lines) = account[n]
    BY DEF Account, Accounts, NoLines
  <1> HIDE DEF account
  <1>6. /\ account[0] = NoLines(ms)
        /\ \A k \in 1 .. n : account[k] = AddCpuActivity(ms, account[k - 1], lines[k])
    BY <1>4 DEF Accounts
  <1> QED BY <1>5, <1>6

LEMMA AxisTypes ==
    ASSUME NEW ms, Axis(ms)
    PROVE  /\ Len(ms) \in Nat \ {0} /\ DOMAIN ms = 1 .. Len(ms)
           /\ \A i \in 1 .. Len(ms) :
                  ms[i].start \in Int /\ ms[i].stop \in Int /\ ms[i].start <= ms[i].stop
  <1> DEFINE X == [start : Nat, stop : Nat, power2 : Nat]
  <1>1. ms \in Seq(X) /\ Len(ms) \in Nat \ {0} /\ \A i \in 1 .. Len(ms) : ms[i].start <= ms[i].stop
    BY DEF Axis
  <1>2. \A x \in X : x.start \in Int /\ x.stop \in Int
    OBVIOUS
  <1> HIDE DEF X
  <1>3. DOMAIN ms = 1 .. Len(ms) /\ \A i \in 1 .. Len(ms) : ms[i] \in X
    BY <1>1
  <1> QED BY <1>1, <1>2, <1>3

\* A line within the measurements, and the account it is added to.
Ready(ms, a, l) ==
    /\ l \in Line /\ ms[1].start <= l.start /\ l.start <= l.stop /\ l.stop <= ms[Len(ms)].stop
    /\ a.held = TRUE /\ a.running_ns \in [1 .. Len(ms) -> Int]
    /\ a.last_index \in 0 .. Len(ms) - 1 /\ ms[a.last_index + 1].start <= l.stop

\* b is account a with what line l overlaps of each measurement.
Counted(ms, a, l, b) ==
    /\ b.held = TRUE /\ b.running_ns \in [1 .. Len(ms) -> Int]
    /\ b.last_index \in 0 .. Len(ms) - 1 /\ ms[b.last_index + 1].start <= l.stop
    /\ \A i \in 1 .. Len(ms) :
           \/ b.running_ns[i] = a.running_ns[i]
           \/ /\ ms[i].start <= l.stop /\ ms[i].stop >= l.start
              /\ b.running_ns[i] = a.running_ns[i]
                     + (IF l.stop <= ms[i].stop THEN l.stop ELSE ms[i].stop)
                     - (IF l.start >= ms[i].start THEN l.start ELSE ms[i].start) + 1

\* One more line: the measurement in which it ends is among those searched, and
\* the next search begins at one that has begun by then.
LEMMA LineCounted ==
    ASSUME NEW ms, Axis(ms), NEW a, NEW l, Ready(ms, a, l)
    PROVE  Counted(ms, a, l, AddCpuActivity(ms, a, l))
  <1> DEFINE N == Len(ms)
             f == a.last_index
             searched == f + 1 .. N
             past == {i \in searched : ms[i].start > l.stop}
             end == Min(past \cup {N})
             hit == {i \in searched : ms[i].start <= l.stop /\ ms[i].stop >= l.start}
             Ns(i) == Min({l.stop, ms[i].stop}) - Max({l.start, ms[i].start}) + 1
             b == AddCpuActivity(ms, a, l)
  <1>1. /\ b.last_index = Max({0, end - 2})
        /\ b.running_ns = [i \in DOMAIN ms |-> a.running_ns[i] + IF i \in hit THEN Ns(i) ELSE 0]
        /\ b.held = (a.held /\ (\A i \in hit : Ns(i) > 0) /\ \E i \in hit : l.stop <= ms[i].stop)
    BY DEF AddCpuActivity
  <1>2. /\ N \in Nat \ {0} /\ DOMAIN ms = 1 .. N
    BY AxisTypes
  <1>3. \A i \in 1 .. N : ms[i].start \in Int /\ ms[i].stop \in Int /\ ms[i].start <= ms[i].stop
    BY AxisTypes
  <1>4. \A i, j \in 1 .. N : i < j => ms[i].start < ms[j].start
    BY DEF Axis
  <1>5. \A i \in 1 .. N - 1 : ms[i].stop = ms[i + 1].start - 1
    BY DEF Axis
  <1>6. l.start \in Int /\ l.stop \in Int /\ f \in Nat /\ f + 1 \in 1 .. N
    <2>1. l \in Line /\ f \in 0 .. N - 1
      BY DEF Ready
    <2>2. l.start \in 0 .. MaxTime /\ l.stop \in 0 .. MaxTime
      BY <2>1 DEF Line
    <2> HIDE DEF N, f
    <2> QED BY <1>2, <2>1, <2>2
  <1>7. /\ ms[f + 1].start <= l.stop /\ l.stop <= ms[N].stop /\ l.start <= l.stop
        /\ a.running_ns \in [1 .. N -> Int] /\ a.held = TRUE
    BY DEF Ready
  <1>8. ASSUME NEW i \in 1 .. N
        PROVE  Ns(i) = (IF l.stop <= ms[i].stop THEN l.stop ELSE ms[i].stop)
                       - (IF l.start >= ms[i].start THEN l.start ELSE ms[i].start) + 1
    <2>1. l.stop \in Int /\ ms[i].stop \in Int /\ l.start \in Int /\ ms[i].start \in Int
      BY <1>6, <1>3
    <2> QED BY <2>1, MinMaxOfTwo
  <1> DEFINE W(i) == (IF l.stop <= ms[i].stop THEN l.stop ELSE ms[i].stop)
                     - (IF l.start >= ms[i].start THEN l.start ELSE ms[i].start) + 1
  <1>9. ASSUME NEW i \in 1 .. N
        PROVE  Ns(i) = W(i) /\ W(i) \in Int
    <2>1. Ns(i) = W(i)
      <3> HIDE DEF Ns
      <3> QED BY <1>8
    <2>2. l.stop \in Int /\ ms[i].stop \in Int /\ l.start \in Int /\ ms[i].start \in Int
      BY <1>6, <1>3
    <2>3. W(i) \in Int
      <3> DEFINE t == ms[i].start
                 u == ms[i].stop
                 x == l.start
                 y == l.stop
      <3>1. t \in Int /\ u \in Int /\ x \in Int /\ y \in Int
        BY <2>2
      <3> HIDE DEF t, u, x, y
      <3>2. (IF y <= u THEN y ELSE u) - (IF x >= t THEN x ELSE t) + 1 \in Int
        BY <3>1
      <3> QED BY <3>2 DEF t, u, x, y
    <2> QED BY <2>1, <2>3
  <1> HIDE DEF b, N, f, Ns
  <1>10. hit \subseteq 1 .. N /\ \A i \in hit : Ns(i) > 0
    <2>1. ASSUME NEW i \in hit
          PROVE  i \in 1 .. N /\ Ns(i) > 0
      <3>1. i \in 1 .. N /\ ms[i].start <= l.stop /\ ms[i].stop >= l.start
        BY <1>2, <1>6
      <3>2. /\ l.stop \in Int /\ ms[i].stop \in Int /\ l.start \in Int /\ ms[i].start \in Int
            /\ ms[i].start <= ms[i].stop /\ l.start <= l.stop
        BY <1>6, <1>7, <1>3, <3>1
      <3>3. W(i) > 0
        BY <3>1, <3>2
      <3> HIDE DEF W
      <3> QED BY <1>9, <3>1, <3>3
    <2> QED BY <2>1
  <1>11. \E i \in hit : l.stop <= ms[i].stop
    <2>1. CASE past = {}
      <3>1. N \in searched /\ N \in 1 .. N
        BY <1>2, <1>6
      <3>2. ~(ms[N].start > l.stop)
        BY <2>1, <3>1
      <3>3. /\ l.stop \in Int /\ ms[N].stop \in Int /\ l.start \in Int /\ ms[N].start \in Int
            /\ l.start <= l.stop /\ l.stop <= ms[N].stop
        BY <1>6, <1>7, <1>3, <3>1
      <3>4. ms[N].start <= l.stop /\ ms[N].stop >= l.start
        BY <3>2, <3>3
      <3>5. N \in hit
        BY <3>1, <3>4
      <3> QED BY <3>3, <3>5
    <2>2. CASE past # {}
      <3>1. past \subseteq Nat
        BY <1>6
      <3>2. PICK e \in past : \A y \in past : e <= y
        BY <2>2, <3>1, LeastNat
      <3>3. e \in f + 1 .. N /\ ms[e].start > l.stop
        BY <3>2
      <3>4. e # f + 1
        <4>1. ms[f + 1].start \in Int /\ l.stop \in Int
          BY <1>6, <1>3
        <4> QED BY <1>7, <3>3, <4>1
      <3>5. e - 1 \in searched /\ e - 1 \in 1 .. N - 1 /\ e - 1 \in 1 .. N /\ (e - 1) + 1 = e /\ e \in 1 .. N
        BY <1>2, <1>6, <3>3, <3>4
      <3>6. ~(e <= e - 1)
        BY <3>5
      <3>7. e - 1 \notin past
        BY <3>2, <3>6
      <3>8. ~(ms[e - 1].start > l.stop)
        BY <3>5, <3>7
      <3>9. ms[e - 1].stop = ms[e].start - 1
        BY <1>5, <3>5
      <3>10. l.stop <= ms[e - 1].stop /\ ms[e - 1].start <= l.stop /\ ms[e - 1].stop >= l.start
        <4>1. /\ ms[e].start \in Int /\ ms[e - 1].start \in Int /\ ms[e - 1].stop \in Int
              /\ l.start \in Int /\ l.stop \in Int
          BY <1>6, <1>3, <3>5
        <4>2. l.start <= l.stop
          BY <1>7
        <4> DEFINE x == ms[e].start
                   y == ms[e - 1].start
                   z == ms[e - 1].stop
        <4> HIDE DEF x, y, z
        <4>3. x > l.stop /\ ~(y > l.stop) /\ z = x - 1 /\ x \in Int /\ y \in Int /\ z \in Int
          BY <3>3, <3>8, <3>9, <4>1 DEF x, y, z
        <4>4. l.stop <= z /\ y <= l.stop /\ z >= l.start
          BY <4>1, <4>2, <4>3
        <4> QED BY <4>4 DEF y, z
      <3> QED BY <3>5, <3>10
    <2> QED BY <2>1, <2>2
  <1>12. b.held = TRUE
    BY <1>1, <1>7, <1>10, <1>11
  <1>13. end \in past \cup {N} /\ (\A y \in past \cup {N} : end <= y) /\ end \in 1 .. N
    <2>1. past \cup {N} \subseteq 1 .. N /\ past \cup {N} # {}
      BY <1>2, <1>6
    <2>2. past \cup {N} \subseteq Nat
      BY <1>2, <2>1
    <2> HIDE DEF past
    <2>3. end \in past \cup {N} /\ \A y \in past \cup {N} : end <= y
      BY <2>1, <2>2, MinIs
    <2> QED BY <2>1, <2>3
  <1> HIDE DEF end
  <1>14. b.last_index = IF end <= 2 THEN 0 ELSE end - 2
    <2>1. end - 2 \in Int /\ 0 \in Int /\ end \in Int
      BY <1>13
    <2>2. Max({0, end - 2}) = IF 0 >= end - 2 THEN 0 ELSE end - 2
      BY <2>1, MinMaxOfTwo
    <2> QED BY <1>1, <2>1, <2>2
  <1>15. b.last_index \in 0 .. N - 1
    BY <1>2, <1>13, <1>14
  <1>16. ASSUME NEW i \in 1 .. N, i <= f + 1
         PROVE  ms[i].start <= l.stop
    <2>1. i = f + 1 \/ ms[i].start < ms[f + 1].start
      <3>1. i = f + 1 \/ i < f + 1
        BY <1>6, <1>16
      <3> QED BY <1>6, <1>4, <3>1
    <2>2. ms[i].start \in Int /\ ms[f + 1].start \in Int /\ l.stop \in Int
      BY <1>6, <1>3
    <2> QED BY <1>7, <2>1, <2>2
  <1>17. ms[b.last_index + 1].start <= l.stop
    <2>1. CASE end <= 2
      <3>1. b.last_index + 1 = 1 /\ 1 \in 1 .. N /\ 1 <= f + 1
        BY <1>2, <1>6, <1>14, <2>1
      <3> QED BY <1>16, <3>1
    <2>2. CASE ~(end <= 2)
      <3>1. b.last_index + 1 = end - 1 /\ end - 1 \in 1 .. N /\ ~(end <= end - 1)
        <4>1. end \in 1 .. N /\ end \in Int /\ N \in Nat
          BY <1>2, <1>13
        <4>2. b.last_index = end - 2
          BY <1>14, <2>2
        <4> QED BY <2>2, <4>1, <4>2
      <3>2. CASE end - 1 <= f + 1
        BY <1>16, <3>1, <3>2
      <3>3. CASE ~(end - 1 <= f + 1)
        <4>1. end - 1 \in searched
          BY <1>6, <3>1, <3>3
        <4>2. end - 1 \notin past
          BY <1>13, <3>1
        <4>3. ~(ms[end - 1].start > l.stop)
          BY <4>1, <4>2
        <4>4. ms[end - 1].start \in Int /\ l.stop \in Int
          BY <1>6, <1>3, <3>1
        <4> QED BY <3>1, <4>3, <4>4
      <3> QED BY <3>2, <3>3
    <2> QED BY <2>1, <2>2
  <1>18. ASSUME NEW i \in 1 .. N
         PROVE  /\ b.running_ns[i] \in Int
                /\ \/ b.running_ns[i] = a.running_ns[i]
                   \/ /\ ms[i].start <= l.stop /\ ms[i].stop >= l.start
                      /\ b.running_ns[i] = a.running_ns[i] + W(i)
    <2>1. b.running_ns[i] = a.running_ns[i] + IF i \in hit THEN Ns(i) ELSE 0
      BY <1>1, <1>2
    <2>2. a.running_ns[i] \in Int
      BY <1>7
    <2>3. CASE i \in hit
      <3>1. ms[i].start <= l.stop /\ ms[i].stop >= l.start
        BY <2>3
      <3>2. b.running_ns[i] = a.running_ns[i] + W(i) /\ W(i) \in Int
        <4> HIDE DEF hit, W
        <4> QED BY <1>9, <2>1, <2>3
      <3> HIDE DEF W
      <3> QED BY <2>2, <3>1, <3>2
    <2>4. CASE i \notin hit
      <3> HIDE DEF hit
      <3> QED BY <2>1, <2>2, <2>4
    <2> QED BY <2>3, <2>4
  <1>19. \A i \in 1 .. N :
            \/ b.running_ns[i] = a.running_ns[i]
            \/ /\ ms[i].start <= l.stop /\ ms[i].stop >= l.start
               /\ b.running_ns[i] = a.running_ns[i]
                      + (IF l.stop <= ms[i].stop THEN l.stop ELSE ms[i].stop)
                      - (IF l.start >= ms[i].start THEN l.start ELSE ms[i].start) + 1
    <2> SUFFICES ASSUME NEW i \in 1 .. N, b.running_ns[i] # a.running_ns[i]
                 PROVE  /\ ms[i].start <= l.stop /\ ms[i].stop >= l.start
                        /\ b.running_ns[i] = a.running_ns[i]
                               + (IF l.stop <= ms[i].stop THEN l.stop ELSE ms[i].stop)
                               - (IF l.start >= ms[i].start THEN l.start ELSE ms[i].start) + 1
      OBVIOUS
    <2>1. ms[i].start <= l.stop /\ ms[i].stop >= l.start /\ b.running_ns[i] = a.running_ns[i] + W(i)
      <3> HIDE DEF W
      <3> QED BY <1>18
    <2>2. /\ a.running_ns[i] \in Int /\ l.stop \in Int /\ l.start \in Int
          /\ ms[i].start \in Int /\ ms[i].stop \in Int
      BY <1>6, <1>7, <1>3
    <2> DEFINE old == a.running_ns[i]
               new == b.running_ns[i]
               t == ms[i].start
               u == ms[i].stop
               x == l.start
               y == l.stop
    <2>3. /\ old \in Int /\ t \in Int /\ u \in Int /\ x \in Int /\ y \in Int
          /\ new = old + ((IF y <= u THEN y ELSE u) - (IF x >= t THEN x ELSE t) + 1)
      BY <2>1, <2>2
    <2> HIDE DEF old, new, t, u, x, y
    <2>4. new = old + (IF y <= u THEN y ELSE u) - (IF x >= t THEN x ELSE t) + 1
      BY <2>3
    <2> QED BY <2>1, <2>4 DEF old, new, t, u, x, y
  <1>20. b.running_ns \in [1 .. N -> Int]
    <2>1. b.running_ns = [i \in 1 .. N |-> b.running_ns[i]]
      BY <1>1, <1>2
    <2>2. \A i \in 1 .. N : b.running_ns[i] \in Int
      <3> HIDE DEF W
      <3> QED BY <1>18
    <2> QED BY <2>1, <2>2
  <1> QED BY <1>12, <1>15, <1>17, <1>19, <1>20 DEF Counted, b, N

\* The assertions on the lines hold; and no measurement is overfull if no line
\* begins before those before it ended.
LEMMA AccountHolds ==
    ASSUME NEW ms, Axis(ms), NEW lines, Fitting(ms, lines)
    PROVE  /\ Account(ms, lines).held = TRUE
           /\ Apart(lines) => \A i \in 1 .. Len(ms) :
                  Account(ms, lines).running_ns[i] <= ms[i].stop - ms[i].start + 1
  <1> DEFINE n == Len(lines)
             N == Len(ms)
  <1>1. /\ n \in Nat /\ N \in Nat \ {0} /\ DOMAIN ms = 1 .. N
        /\ \A i \in 1 .. N : ms[i].start \in Int /\ ms[i].stop \in Int /\ ms[i].start <= ms[i].stop
        /\ \A k \in 1 .. n : lines[k] \in Line
    <2>1. lines \in Seq(Line)
      BY DEF Fitting
    <2>2. n \in Nat /\ \A k \in 1 .. n : lines[k] \in Line
      BY <2>1
    <2> HIDE DEF n
    <2> QED BY <2>2, AxisTypes
  <1>2. \A k \in 1 .. n : lines[k].start \in Int /\ lines[k].stop \in Int
    BY <1>1, EvaluationAssumption DEF Line
  <1>3. PICK g : /\ g[0] = NoLines(ms)
                 /\ \A k \in 1 .. n : g[k] = AddCpuActivity(ms, g[k - 1], lines[k])
                 /\ Account(ms, lines) = g[n]
    BY <1>1, AccountSteps
  <1> DEFINE Filled(k, i) == \/ g[k].running_ns[i] <= 0
                             \/ /\ k > 0
                                /\ g[k].running_ns[i] <= lines[k].stop + 1 - ms[i].start
                                /\ g[k].running_ns[i] <= ms[i].stop + 1 - ms[i].start
             Good(k) == /\ g[k].held = TRUE /\ g[k].running_ns \in [1 .. N -> Int]
                        /\ g[k].last_index \in 0 .. N - 1
                        /\ k = 0 => g[k].last_index = 0
                        /\ k > 0 => ms[g[k].last_index + 1].start <= lines[k].stop
                        /\ Apart(lines) => \A i \in 1 .. N : Filled(k, i)
             T == {k \in Nat : k <= n => Good(k)}
  <1>4. 0 \in T
    <2>1. /\ g[0].held = TRUE /\ g[0].last_index = 0
          /\ g[0].running_ns = [i \in 1 .. N |-> 0]
      BY <1>1, <1>3 DEF NoLines
    <2>2. g[0].running_ns \in [1 .. N -> Int] /\ \A i \in 1 .. N : g[0].running_ns[i] = 0
      <3> HIDE DEF N
      <3> QED BY <2>1
    <2> QED BY <1>1, <2>1, <2>2
  <1>5. ASSUME NEW m \in Nat, m \in T
        PROVE  m + 1 \in T
    <2> SUFFICES ASSUME m + 1 <= n
                 PROVE  Good(m + 1)
      <3> HIDE DEF Good
      <3> QED OBVIOUS
    <2> DEFINE k == m + 1
               l == lines[k]
               a == g[m]
    <2>1. Good(m) /\ k \in 1 .. n /\ k - 1 = m /\ (m > 0 => m \in 1 .. n /\ m < k)
      BY <1>1, <1>5
    <2>2. g[k] = AddCpuActivity(ms, a, l)
      BY <1>3, <2>1
    <2>3. /\ l \in Line /\ l.start \in Int /\ l.stop \in Int
          /\ ms[1].start <= l.start /\ l.start <= l.stop /\ l.stop <= ms[N].stop
          /\ m > 0 => lines[m].stop <= l.stop
          /\ m > 0 /\ Apart(lines) => lines[m].stop < l.start
      BY <1>1, <1>2, <2>1 DEF Fitting, Apart
    <2>4. ms[a.last_index + 1].start <= l.stop
      <3>1. CASE m = 0
        <4>1. a.last_index + 1 = 1 /\ 1 \in 1 .. N
          BY <1>1, <2>1, <3>1
        <4> QED BY <1>1, <2>3, <4>1, SMTT(30)
      <3>2. CASE m > 0
        <4>1. a.last_index + 1 \in 1 .. N
          BY <1>1, <2>1
        <4>2. ms[a.last_index + 1].start \in Int /\ lines[m].stop \in Int
          BY <1>1, <1>2, <2>1, <3>2, <4>1
        <4>3. ms[a.last_index + 1].start <= lines[m].stop
          BY <2>1, <3>2
        <4> QED BY <2>3, <3>2, <4>2, <4>3
      <3> QED BY <3>1, <3>2
    <2>5. a.held = TRUE /\ a.running_ns \in [1 .. N -> Int] /\ a.last_index \in 0 .. N - 1
      BY <2>1
    <2> HIDE DEF k, l, a
    <2>6. /\ g[k].held = TRUE /\ g[k].running_ns \in [1 .. N -> Int]
          /\ g[k].last_index \in 0 .. N - 1 /\ ms[g[k].last_index + 1].start <= l.stop
          /\ \A i \in 1 .. N :
                 \/ g[k].running_ns[i] = a.running_ns[i]
                 \/ /\ ms[i].start <= l.stop /\ ms[i].stop >= l.start
                    /\ g[k].running_ns[i] = a.running_ns[i]
                           + (IF l.stop <= ms[i].stop THEN l.stop ELSE ms[i].stop)
                           - (IF l.start >= ms[i].start THEN l.start ELSE ms[i].start) + 1
      <3>1. Ready(ms, a, l)
        BY <2>3, <2>4, <2>5 DEF Ready
      <3>2. Counted(ms, a, l, g[k])
        BY <2>2, <3>1, LineCounted
      <3> QED BY <3>2 DEF Counted
    <2>7. ASSUME Apart(lines), NEW i \in 1 .. N
          PROVE  Filled(k, i)
      <3> DEFINE old == a.running_ns[i]
                 new == g[k].running_ns[i]
                 t == ms[i].start
                 u == ms[i].stop
                 x == l.start
                 y == l.stop
                 z == lines[m].stop
      <3>1. old \in Int /\ new \in Int /\ t \in Int /\ u \in Int /\ x \in Int /\ y \in Int /\ t <= u /\ x <= y
        BY <1>1, <2>3, <2>5, <2>6
      <3>2. old <= 0 \/ (m > 0 /\ old <= z + 1 - t /\ old <= u + 1 - t)
        BY <2>1, <2>7 DEF a
      <3>3. m > 0 => z \in Int /\ z < x
        BY <1>2, <2>1, <2>3, <2>7
      <3>4. \/ new = old
            \/ /\ t <= y /\ u >= x
               /\ new = old + (IF y <= u THEN y ELSE u) - (IF x >= t THEN x ELSE t) + 1
        BY <2>6
      <3> HIDE DEF old, new, t, u, x, y, z
      <3>5. new <= 0 \/ (new <= y + 1 - t /\ new <= u + 1 - t)
        BY <3>1, <3>2, <3>3, <3>4
      <3>6. k > 0
        BY DEF k
      <3> QED BY <3>5, <3>6 DEF new, t, u, y, l
    <2>8. k > 0 /\ k # 0
      BY DEF k
    <2>9. Good(k)
      <3> HIDE DEF Filled
      <3> QED BY <2>6, <2>7, <2>8 DEF l
    <2> QED BY <2>9 DEF k
  <1>6. n \in T
    <2> HIDE DEF T
    <2> QED BY <1>1, <1>4, <1>5, NatSetInduction
  <1>7. Good(n)
    BY <1>1, <1>6
  <1>8. ASSUME Apart(lines), NEW i \in 1 .. N
        PROVE  g[n].running_ns[i] <= ms[i].stop - ms[i].start + 1
    <2>1. Filled(n, i) /\ g[n].running_ns[i] \in Int
      BY <1>7, <1>8
    <2> QED BY <1>1, <2>1, SMTT(30)
  <1> QED BY <1>3, <1>7, <1>8

\* Without measurements there are no lines.
LEMMA AccountEmpty ==
    ASSUME NEW ms
    PROVE  Account(ms, <<>>) = NoLines(ms)
  <1>1. Len(<<>>) = 0
    OBVIOUS
  <1> QED BY <1>1, AccountSteps

\* What is read of the file of a CPU.
LEMMA FileRead ==
    ASSUME RecordInv, folder = Written, NEW cpu \in DOMAIN folder.cpu_activity
    PROVE  LET account == Account(MeasurementsRead, folder.cpu_activity[cpu])
           IN /\ cpu \in CPUs /\ folder.cpu_activity[cpu] = Lines(cpu) /\ account.held = TRUE
              /\ ~FirstRunsOverlap(cpu) => \A i \in 1 .. Len(MeasurementsRead) :
                     account.running_ns[i] <= MeasurementsRead[i].stop - MeasurementsRead[i].start + 1
  <1>1. folder.cpu_activity = [c \in DOMAIN cpu_activity |-> Lines(c)]
    BY DEF Written
  <1>2. cpu \in DOMAIN cpu_activity /\ cpu \in CPUs /\ folder.cpu_activity[cpu] = Lines(cpu)
    BY <1>1 DEF RecordInv, ActivityInv
  <1>3. Len(recorded) \in Nat /\ Len(MeasurementsRead) = Len(recorded)
    BY RowsRead
  <1>4. CASE Len(recorded) > 0
    <2>1. Axis(MeasurementsRead) /\ Fitting(MeasurementsRead, Lines(cpu))
      BY <1>2, <1>4, AxisRead, LinesFit
    <2>2. ~FirstRunsOverlap(cpu) => Apart(Lines(cpu))
      BY <1>2, LinesWritten
    <2> QED BY <1>2, <2>1, <2>2, AccountHolds
  <1>5. CASE ~(Len(recorded) > 0)
    <2>1. Lines(cpu) = <<>>
      BY <1>2, <1>3, <1>5, LinesWritten
    <2>2. Account(MeasurementsRead, Lines(cpu)).held = TRUE
      BY <2>1, AccountEmpty DEF NoLines
    <2>3. 1 .. Len(MeasurementsRead) = {}
      BY <1>3, <1>5
    <2> QED BY <1>2, <2>2, <2>3
  <1> QED BY <1>4, <1>5

LEMMA FilesStep ==
    ASSUME RecordInv, FilesInv, [Next]_vars
    PROVE  FilesInv'
  <1>1. CASE TimePasses \/ TraceFork \/ TraceName \/ TraceRuntime \/ TraceChrome \/ TraceIteration
    <2>1. \E kind : Spend(kind)
      BY <1>1 DEF TimePasses, TraceFork, TraceName, TraceRuntime, TraceChrome, TraceIteration
    <2>2. stage = "recording" /\ UNCHANGED <<stage, failed, folder, measurements, phases>>
      BY <2>1 DEF Spend, fileVars
    <2> QED BY <2>2 DEF FilesInv
  <1>2. ASSUME UNCHANGED <<threads, ppid, comm, cpu_activity, chrome_events, recorded, folder>>
        PROVE  Written' = Written /\ MeasurementsRead' = MeasurementsRead /\ PhasesRead' = PhasesRead
               /\ SearchErrors' = SearchErrors
    <2>1. Written' = Written
      BY <1>2 DEF Written, PowerRows, CgRows, IsNews, PhaseChanges, Lines
    <2>2. MeasurementsRead' = MeasurementsRead
      BY <1>2 DEF MeasurementsRead
    <2>3. PhasesRead' = PhasesRead
      BY <1>2 DEF PhasesRead
    <2>4. SearchErrors' = SearchErrors
      BY <1>2 DEF SearchErrors, Ran, Search, Upward
    <2> QED BY <2>1, <2>2, <2>3, <2>4
  <1>3. CASE Convert
    <2>1. /\ stage = "recording" /\ stage' = "converted"
          /\ UNCHANGED <<failed, measurements, phases>>
          /\ UNCHANGED <<threads, ppid, comm, cpu_activity, chrome_events, recorded>>
      BY <1>3 DEF Convert, recordVars
    <2>2. folder' = Written
      BY <1>3 DEF Convert, Written
    <2>3. Written' = Written
      BY <2>1 DEF Written, PowerRows, CgRows, IsNews, PhaseChanges, Lines
    <2> QED BY <2>1, <2>2, <2>3 DEF FilesInv
  <1>4. CASE ReadRun
    <2>1. /\ stage = "converted"
          /\ UNCHANGED <<threads, ppid, comm, cpu_activity, chrome_events, recorded, folder>>
      BY <1>4 DEF ReadRun, recordVars
    <2>3. folder = Written /\ measurements = <<>> /\ phases = <<>>
      BY <2>1 DEF FilesInv
    <2>5. Unread = CPUs \ DOMAIN folder.cpu_activity
      BY <2>3, FileRead DEF Unread
    <2>6. Unread # {} => Min(Unread) \in Unread
      <3>1. Unread \subseteq Nat
        BY <2>5, EvaluationAssumption
      <3> QED BY <3>1, MinIs
    <2>7. folder.powerlogger # <<>> => recorded # <<>>
      <3>1. folder.powerlogger = PowerRows
        BY <2>3 DEF Written
      <3>2. recorded = <<>> => PowerRows = <<>>
        BY DEF PowerRows
      <3> QED BY <3>1, <3>2
    <2>8. DOMAIN folder.cpu_activity \subseteq CPUs
      BY <2>3 DEF Written, RecordInv, ActivityInv
    <2>2. \/ /\ stage' = "read" /\ failed' = "none" /\ measurements' = MeasurementsRead /\ phases' = PhasesRead
             /\ CPUs = DOMAIN folder.cpu_activity
          \/ /\ stage' = "done" /\ failed' = "KeyError" /\ TimeColumn # "Time [ns]" /\ recorded # <<>>
             /\ UNCHANGED <<measurements, phases>>
          \/ /\ stage' = "done" /\ failed' = "FileNotFoundError" /\ CPUs # DOMAIN folder.cpu_activity
             /\ UNCHANGED <<measurements, phases>>
      <3>1. CASE folder.powerlogger # <<>> /\ TimeColumn # "Time [ns]"
        BY <1>4, <2>7, <3>1 DEF ReadRun
      <3>2. CASE ~(folder.powerlogger # <<>> /\ TimeColumn # "Time [ns]") /\ Unread = {}
        <4>1. CPUs = DOMAIN folder.cpu_activity
          BY <2>5, <2>8, <3>2
        <4> QED BY <1>4, <3>2, <4>1 DEF ReadRun
      <3>3. CASE ~(folder.powerlogger # <<>> /\ TimeColumn # "Time [ns]") /\ Unread # {}
        <4>1. Min(Unread) \notin DOMAIN folder.cpu_activity /\ CPUs # DOMAIN folder.cpu_activity
          BY <2>5, <2>6, <3>3
        <4> QED BY <1>4, <3>3, <4>1 DEF ReadRun
      <3> QED BY <3>1, <3>2, <3>3
    <2>4. Written' = Written /\ MeasurementsRead' = MeasurementsRead /\ PhasesRead' = PhasesRead
      BY <1>2, <2>1
    <2> QED BY <2>1, <2>2, <2>3, <2>4 DEF FilesInv, Ended
  <1>5. CASE OutputFiles
    <2>1. /\ stage = "read" /\ stage' = "done" /\ UNCHANGED measurements
          /\ UNCHANGED <<threads, ppid, comm, cpu_activity, chrome_events, recorded, folder>>
      BY <1>5 DEF OutputFiles, recordVars
    <2>2. /\ folder = Written /\ measurements = MeasurementsRead /\ phases = PhasesRead
          /\ CPUs = DOMAIN folder.cpu_activity
      BY <2>1 DEF FilesInv
    <2>3. /\ Written' = Written /\ MeasurementsRead' = MeasurementsRead /\ PhasesRead' = PhasesRead
          /\ SearchErrors' = SearchErrors
      BY <1>2, <2>1
    <2>4. PhasesEnded' = PhasesEnded
      BY <2>1, <2>3 DEF PhasesEnded, FromTheStart, PhaseStop
    <2>7. CASE ~RunningFits
      <3>1. failed' = "AssertionError" /\ UNCHANGED phases
        BY <1>5, <2>7 DEF OutputFiles
      <3>2. ~RunningFits'
        BY <2>1, <2>7 DEF RunningFits
      <3> QED BY <2>1, <2>2, <2>3, <3>1, <3>2 DEF FilesInv, Ended
    <2>5. CASE RunningFits /\ measurements = <<>>
      <3>1. failed' = "IndexError" /\ UNCHANGED phases
        BY <1>5, <2>5 DEF OutputFiles
      <3> QED BY <2>1, <2>2, <2>3, <2>5, <3>1 DEF FilesInv, Ended
    <2>6. CASE RunningFits /\ measurements # <<>>
      <3>1. phases' = PhasesEnded
        BY <1>5, <2>2, <2>6 DEF OutputFiles, PhasesEnded
      <3>2. failed' \in SearchErrors \/ (failed' = "none" /\ SearchErrors = {})
        BY <1>5, <2>6 DEF OutputFiles
      <3> QED BY <2>1, <2>2, <2>3, <2>4, <2>6, <3>1, <3>2 DEF FilesInv, Ended
    <2> QED BY <2>5, <2>6, <2>7
  <1>6. CASE UNCHANGED vars
    <2>1. /\ UNCHANGED <<threads, ppid, comm, cpu_activity, chrome_events, recorded, folder>>
          /\ UNCHANGED <<stage, failed, measurements, phases>>
      BY <1>6 DEF vars, recordVars, fileVars
    <2>2. /\ Written' = Written /\ MeasurementsRead' = MeasurementsRead /\ PhasesRead' = PhasesRead
          /\ SearchErrors' = SearchErrors
      BY <1>2, <2>1
    <2>3. PhasesEnded' = PhasesEnded
      BY <2>1, <2>2 DEF PhasesEnded, FromTheStart, PhaseStop
    <2>4. RunningFits' = RunningFits
      BY <2>1 DEF RunningFits
    <2> QED BY <2>1, <2>2, <2>3, <2>4 DEF FilesInv, Ended
  <1> QED BY <1>1, <1>3, <1>4, <1>5, <1>6 DEF Next

\* The threads that are searched are in the table.
LEMMA RanKnown ==
    ASSUME RecordInv, folder = Written, CPUs = DOMAIN folder.cpu_activity
    PROVE  Ran \subseteq threads
  <1> SUFFICES ASSUME NEW cpu \in CPUs, NEW l \in ToSet(folder.cpu_activity[cpu])
               PROVE  l.pid \in threads
    BY DEF Ran
  <1>1. folder.cpu_activity[cpu] = Lines(cpu) /\ cpu \in DOMAIN cpu_activity
    BY FileRead DEF Written
  <1> DEFINE q == Lines(cpu)
  <1>2. q \in Seq(Line) /\ \A k \in 1 .. Len(q) : q[k].pid \in threads
    BY <1>1, LinesWritten
  <1> HIDE DEF q
  <1>3. PICK k \in 1 .. Len(q) : l = q[k]
    BY <1>1, <1>2 DEF ToSet, q
  <1> QED BY <1>2, <1>3

EvalInv == TreeInv /\ RecordInv /\ FilesInv

LEMMA EvalInvariant == Spec => []EvalInv
  <1>1. Init => EvalInv
    BY FilesInit, TreeInitInv DEF Init, EvalInv
  <1>2. EvalInv /\ [Next]_vars => EvalInv'
    BY TreeStep, RecordStep, FilesStep DEF EvalInv
  <1> QED BY <1>1, <1>2, PTL DEF Spec

-----------------------------------------------------------------------------
\* Whatever the heading of the time stamps, and for any number of threads, CPUs
\* and events, the evaluation ends with an error only for the cause the error
\* has: an unknown heading, a CPU that never ran anything, no measurement, an id
\* used again, or two overlapping first runs of a CPU.  Its assertions on the
\* lines never fail (evaluate_data.py:37-66, 91, 168-178, 249-259, 541-569).
THEOREM WrittenIsRead == Spec => []EvaluationReads
  <1>1. ASSUME EvalInv
        PROVE  EvaluationReads
    <2> SUFFICES ASSUME failed # "none"
                 PROVE  EvaluationReads
      BY DEF EvaluationReads
    <2>1. stage = "done" /\ folder = Written /\ Ended /\ RecordInv
      BY <1>1 DEF EvalInv, FilesInv
    <2>2. DOMAIN folder.cpu_activity = DOMAIN cpu_activity /\ DOMAIN cpu_activity \subseteq CPUs
      BY <2>1 DEF RecordInv, ActivityInv, Written
    <2>3. Len(MeasurementsRead) = Len(recorded) /\ Len(recorded) \in Nat /\ recorded \in Seq(Measured)
      BY <2>1, RowsRead DEF RecordInv
    <2>4. CASE failed = "KeyError" /\ TimeColumn # "Time [ns]" /\ recorded # <<>>
      BY <2>4 DEF EvaluationReads
    <2>5. CASE failed = "FileNotFoundError" /\ CPUs # DOMAIN folder.cpu_activity
      BY <2>2, <2>5 DEF EvaluationReads
    <2>6. CASE failed = "IndexError" /\ measurements = <<>> /\ measurements = MeasurementsRead
      <3>1. Len(recorded) = 0
        BY <2>3, <2>6
      <3>2. recorded = <<>>
        BY <2>3, <3>1
      <3> QED BY <2>6, <3>2 DEF EvaluationReads
    <2>7. CASE /\ failed = "AssertionError" /\ ~RunningFits /\ measurements = MeasurementsRead
               /\ CPUs = DOMAIN folder.cpu_activity
      <3>1. PICK cpu \in CPUs, i \in DOMAIN measurements :
                ~(Account(measurements, folder.cpu_activity[cpu]).running_ns[i]
                      <= measurements[i].stop - measurements[i].start + 1)
        BY <2>7 DEF RunningFits
      <3>2. i \in 1 .. Len(MeasurementsRead)
        <4>1. MeasurementsRead \in Seq([start : Nat, stop : Nat, power2 : Nat])
          BY <2>1, RowsRead
        <4> QED BY <2>7, <4>1
      <3> QED BY <2>1, <2>7, <3>1, <3>2, FileRead DEF EvaluationReads
    <2>8. CASE failed \in SearchErrors /\ CPUs = DOMAIN folder.cpu_activity
      <3>1. PICK kind \in Kinds, p \in Ran : failed = Search(kind, p) /\ failed \notin {"yes", "no"}
        BY <2>8 DEF SearchErrors
      <3>2. p \in threads
        BY <2>1, <2>8, <3>1, RanKnown
      <3>3. ~Current(p)
        BY <1>1, <3>1, <3>2, SearchRight DEF EvalInv
      <3>4. failed = "RecursionError"
        BY <1>1, <3>1, <3>2, SearchKnown DEF EvalInv
      <3> QED BY <3>2, <3>3, <3>4 DEF EvaluationReads
    <2> QED BY <2>1, <2>4, <2>5, <2>6, <2>7, <2>8 DEF Ended
  <1> QED BY <1>1, EvalInvariant, PTL

-----------------------------------------------------------------------------
(* The phases.                                                             *)

\* The phase events that tell a new phase.
News == {i \in PhaseChanges : IsNews(i)}

PhaseStarts == [start : Nat, stop : Int, phase : Phases \cup {-1}]

\* The evaluation reads these events, in their order.
LEMMA PhasesListed ==
    ASSUME RecordInv, folder = Written
    PROVE  /\ PhasesRead \in Seq(PhaseStarts)
           /\ \E at \in [1 .. Len(PhasesRead) -> News] :
                  /\ \A k \in 1 .. Len(PhasesRead) :
                         /\ PhasesRead[k].start = chrome_events[at[k]].ts
                         /\ PhasesRead[k].phase = chrome_events[at[k]].data
                  /\ \A k, l \in 1 .. Len(PhasesRead) : k < l => at[k] < at[l]
                  /\ \A i \in News : \E k \in 1 .. Len(PhasesRead) : at[k] = i
  <1> DEFINE Row == [ts : 0 .. MaxTime, event : Nat, value : Phases]
             kept == {i \in DOMAIN chrome_events : IsNews(i)}
             events == ElementsAt(chrome_events, kept)
             n == Len(events)
             rows == folder.cg_events
             told == {i \in DOMAIN rows : rows[i].event = 11}
             listed == ElementsAt(rows, told)
             m == Len(listed)
  <1>1. chrome_events \in Seq(ChromeEvents) /\ kept \in SUBSET DOMAIN chrome_events
    BY DEF RecordInv
  <1> HIDE DEF kept
  <1>2. events \in Seq(ChromeEvents) /\ Lists(events, chrome_events, kept)
    BY <1>1, ElementsListed
  <1>3. /\ n \in Nat /\ events \in Seq(ChromeEvents) /\ DOMAIN events = 1 .. n
        /\ \E f \in [1 .. n -> kept] :
               /\ \A k \in 1 .. n : events[k] = chrome_events[f[k]]
               /\ \A k, l \in 1 .. n : k < l => f[k] < f[l]
               /\ \A i \in kept : \E k \in 1 .. n : f[k] = i
    BY <1>2 DEF Lists
  <1>4. PICK f \in [1 .. n -> kept] :
               /\ \A k \in 1 .. n : events[k] = chrome_events[f[k]]
               /\ \A k, l \in 1 .. n : k < l => f[k] < f[l]
               /\ \A i \in kept : \E k \in 1 .. n : f[k] = i
    BY <1>3
  <1>5. rows = [k \in DOMAIN events |->
                   [ts |-> events[k].ts, event |-> CgType[events[k].name], value |-> events[k].data]]
    BY DEF Written, CgRows, kept
  <1> HIDE DEF events, n
  <1>6. DOMAIN events = 1 .. n
    BY <1>3
  <1>7. ASSUME NEW k \in 1 .. n
        PROVE  /\ rows[k] \in Row /\ rows[k].ts = chrome_events[f[k]].ts
               /\ rows[k].value = chrome_events[f[k]].data
               /\ rows[k].event = 11 <=> chrome_events[f[k]].name = "phase_change"
    <2>1. events[k] \in ChromeEvents /\ events[k] = chrome_events[f[k]]
      BY <1>3, <1>4
    <2>2. \A e \in ChromeEvents : /\ e.ts \in 0 .. MaxTime /\ e.data \in Phases
                                  /\ e.name \in {"phase_change", "touch_start_notifier"}
      BY DEF ChromeEvents, ChromeNames
    <2>3. \A name \in {"phase_change", "touch_start_notifier"} :
              CgType[name] \in Nat /\ (CgType[name] = 11 <=> name = "phase_change")
      BY DEF CgType
    <2>4. rows[k] = [ts |-> events[k].ts, event |-> CgType[events[k].name], value |-> events[k].data]
      BY <1>5, <1>6
    <2> DEFINE e == events[k]
               type == CgType[e.name]
    <2>5. e.ts \in 0 .. MaxTime /\ e.data \in Phases /\ type \in Nat /\ (type = 11 <=> e.name = "phase_change")
      BY <2>1, <2>2, <2>3
    <2>6. rows[k] = [ts |-> e.ts, event |-> type, value |-> e.data] /\ e = chrome_events[f[k]]
      BY <2>1, <2>4
    <2> HIDE DEF e, type, rows
    <2> QED BY <2>5, <2>6
  <1>8. rows \in Seq(Row) /\ Len(rows) = n /\ DOMAIN rows = 1 .. n
    <2>1. DOMAIN rows = 1 .. n /\ rows = [k \in 1 .. n |-> rows[k]]
      BY <1>5, <1>6
    <2> HIDE DEF rows, Row
    <2>2. rows \in [1 .. n -> Row]
      BY <1>7, <2>1
    <2> QED BY <1>3, <2>2, FunctionIsSeq
  <1> HIDE DEF rows, Row
  <1>9. told \in SUBSET DOMAIN rows /\ told = {k \in 1 .. n : rows[k].event = 11}
    BY <1>8
  <1> HIDE DEF told
  <1>10. listed \in Seq(Row) /\ Lists(listed, rows, told)
    BY <1>8, <1>9, ElementsListed
  <1>11. /\ m \in Nat /\ listed \in Seq(Row) /\ DOMAIN listed = 1 .. m
         /\ \E g \in [1 .. m -> told] :
                /\ \A k \in 1 .. m : listed[k] = rows[g[k]]
                /\ \A k, l \in 1 .. m : k < l => g[k] < g[l]
               /\ \A i \in told : \E k \in 1 .. m : g[k] = i
    BY <1>10 DEF Lists
  <1>12. PICK g \in [1 .. m -> told] :
               /\ \A k \in 1 .. m : listed[k] = rows[g[k]]
               /\ \A k, l \in 1 .. m : k < l => g[k] < g[l]
               /\ \A i \in told : \E k \in 1 .. m : g[k] = i
    BY <1>11
  <1>13. PhasesRead = [i \in DOMAIN listed |-> [start |-> listed[i].ts, stop |-> -1, phase |-> listed[i].value]]
    BY DEF PhasesRead, rows, told
  <1> HIDE DEF listed, m
  <1>14. DOMAIN listed = 1 .. m
    BY <1>11
  <1> DEFINE at == [k \in 1 .. m |-> f[g[k]]]
  <1>15. \A k \in 1 .. m : g[k] \in told /\ g[k] \in 1 .. n
    BY <1>9, <1>12
  <1>16. \A k \in told : f[k] \in News
    <2>1. ASSUME NEW k \in told
          PROVE  f[k] \in News
      <3>1. k \in 1 .. n /\ f[k] \in kept /\ chrome_events[f[k]].name = "phase_change"
        BY <1>4, <1>7, <1>9
      <3> QED BY <3>1 DEF News, PhaseChanges, kept
    <2> QED BY <2>1
  <1>17. at \in [1 .. m -> News] /\ \A k \in 1 .. m : at[k] = f[g[k]]
    BY <1>15, <1>16
  <1>18. ASSUME NEW k \in 1 .. m, NEW l \in 1 .. m, k < l
         PROVE  at[k] < at[l]
    BY <1>4, <1>12, <1>15, <1>17, <1>18
  <1>19. ASSUME NEW i \in News
         PROVE  \E k \in 1 .. m : at[k] = i
    <2>1. i \in kept /\ chrome_events[i].name = "phase_change"
      BY DEF News, PhaseChanges, kept
    <2>2. PICK j \in 1 .. n : f[j] = i
      BY <1>4, <2>1
    <2>3. j \in told
      BY <1>7, <1>9, <2>1, <2>2
    <2>4. PICK k \in 1 .. m : g[k] = j
      BY <1>12, <2>3
    <2> QED BY <1>17, <2>2, <2>4
  <1>20. ASSUME NEW k \in 1 .. m
         PROVE  /\ PhasesRead[k] \in PhaseStarts
                /\ PhasesRead[k].start = chrome_events[at[k]].ts
                /\ PhasesRead[k].phase = chrome_events[at[k]].data
    <2>1. PhasesRead[k] = [start |-> listed[k].ts, stop |-> -1, phase |-> listed[k].value]
      BY <1>13, <1>14
    <2>2. listed[k] = rows[g[k]] /\ listed[k] \in Row
      BY <1>11, <1>12
    <2>3. listed[k].ts = chrome_events[at[k]].ts /\ listed[k].value = chrome_events[at[k]].data
      BY <1>7, <1>15, <1>17, <2>2
    <2>4. listed[k].ts \in Nat /\ listed[k].value \in Phases
      BY <2>2, EvaluationAssumption DEF Row
    <2> DEFINE t == listed[k].ts
               v == listed[k].value
    <2> HIDE DEF t, v
    <2>5. t \in Nat /\ v \in Phases /\ PhasesRead[k] = [start |-> t, stop |-> -1, phase |-> v]
          /\ t = chrome_events[at[k]].ts /\ v = chrome_events[at[k]].data
      BY <2>1, <2>3, <2>4 DEF t, v
    <2> HIDE DEF at
    <2> QED BY <2>5 DEF PhaseStarts
  <1>21. PhasesRead \in Seq(PhaseStarts) /\ Len(PhasesRead) = m
    <2>1. PhasesRead = [k \in 1 .. m |-> PhasesRead[k]]
      BY <1>13, <1>14
    <2>2. PhasesRead \in [1 .. m -> PhaseStarts]
      BY <1>20, <2>1
    <2> QED BY <1>11, <2>2, FunctionIsSeq
  <1> HIDE DEF at
  <1> QED BY <1>17, <1>18, <1>19, <1>20, <1>21, SMTT(30)

\* The phases with their ends.
LEMMA PhasesAre ==
    ASSUME RecordInv, folder = Written, measurements = MeasurementsRead, measurements # <<>>
    PROVE  LET s == FromTheStart(PhasesRead)
           IN /\ s \in Seq(PhaseStarts) /\ s # <<>>
              /\ PhasesEnded \in Seq(PhaseStarts) /\ Len(PhasesEnded) = Len(s)
              /\ \A i \in 1 .. Len(s) : /\ PhasesEnded[i].start = s[i].start
                                        /\ PhasesEnded[i].phase = s[i].phase
                                        /\ PhasesEnded[i].stop = PhaseStop(s, i)
  <1> DEFINE s == FromTheStart(PhasesRead)
             read == PhasesRead
             front == [start |-> measurements[1].start, stop |-> -1, phase |-> -1]
             Measurement == [start : Nat, stop : Nat, power2 : Nat]
  <1>1. measurements \in Seq(Measurement) /\ read \in Seq(PhaseStarts)
    BY RowsRead, PhasesListed
  <1>2. Len(measurements) \in Nat \ {0} /\ (\A i \in 1 .. Len(measurements) : measurements[i] \in Measurement)
    <2> HIDE DEF Measurement
    <2> QED BY <1>1, NotEmpty
  <1>3. \A m \in Measurement : m.start \in Nat /\ m.stop \in Int
    OBVIOUS
  <1>4. measurements[1].start \in Nat /\ measurements[Len(measurements)].stop \in Int
    BY <1>2, <1>3
  <1>5. front \in PhaseStarts
    BY <1>4 DEF PhaseStarts
  <1>6. s = IF read = <<>> \/ read[1].start # measurements[1].start THEN <<front>> \o read ELSE read
    BY DEF FromTheStart
  <1> HIDE DEF front, read
  <1>7. s \in Seq(PhaseStarts) /\ s # <<>>
    <2>1. <<front>> \o read \in Seq(PhaseStarts) /\ Len(<<front>> \o read) = 1 + Len(read) /\ Len(read) \in Nat
      BY <1>1, <1>5
    <2>2. <<front>> \o read # <<>>
      <3> SUFFICES ASSUME <<front>> \o read = <<>> PROVE FALSE
        OBVIOUS
      <3>1. Len(<<front>> \o read) = 0
        OBVIOUS
      <3> QED BY <2>1, <3>1
    <2> HIDE DEF s
    <2> QED BY <1>1, <1>6, <2>1, <2>2
  <1> HIDE DEF s
  <1>8. DOMAIN s = 1 .. Len(s) /\ Len(s) \in Nat /\ (\A i \in 1 .. Len(s) : s[i] \in PhaseStarts)
    BY <1>7
  <1>9. \A i \in 1 .. Len(s) : PhaseStop(s, i) \in Int
    <2> SUFFICES ASSUME NEW i \in 1 .. Len(s) PROVE PhaseStop(s, i) \in Int
      OBVIOUS
    <2>1. CASE i < Len(s)
      <3>1. i + 1 \in 1 .. Len(s)
        BY <1>8, <2>1
      <3>2. s[i + 1].start \in Nat
        BY <1>8, <3>1 DEF PhaseStarts
      <3> QED BY <2>1, <3>2 DEF PhaseStop
    <2>2. CASE ~(i < Len(s))
      BY <1>4, <2>2 DEF PhaseStop
    <2> QED BY <2>1, <2>2
  <1>10. PhasesEnded = [i \in 1 .. Len(s) |-> [s[i] EXCEPT !.stop = PhaseStop(s, i)]]
    BY <1>8 DEF PhasesEnded, s, read
  <1>11. ASSUME NEW i \in 1 .. Len(s)
         PROVE  /\ PhasesEnded[i] \in PhaseStarts
                /\ PhasesEnded[i].start = s[i].start /\ PhasesEnded[i].phase = s[i].phase
                /\ PhasesEnded[i].stop = PhaseStop(s, i)
    <2> DEFINE ph == s[i]
               stop == PhaseStop(s, i)
    <2>1. ph \in PhaseStarts /\ stop \in Int /\ PhasesEnded[i] = [ph EXCEPT !.stop = stop]
      BY <1>8, <1>9, <1>10
    <2> HIDE DEF ph, stop
    <2>2. /\ PhasesEnded[i] \in PhaseStarts /\ PhasesEnded[i].start = ph.start
          /\ PhasesEnded[i].phase = ph.phase /\ PhasesEnded[i].stop = stop
      BY <2>1 DEF PhaseStarts
    <2> QED BY <2>2 DEF ph, stop
  <1>12. PhasesEnded \in Seq(PhaseStarts) /\ Len(PhasesEnded) = Len(s)
    <2>1. PhasesEnded \in [1 .. Len(s) -> PhaseStarts]
      BY <1>10, <1>11
    <2> QED BY <1>8, <2>1, FunctionIsSeq
  <1> QED BY <1>7, <1>11, <1>12 DEF s, read

\* Every variable of the recording and of the evaluation keeps its type, for any
\* number of threads, CPUs and events.
THEOREM EvaluationTypeCorrect == Spec => []TypeOK
  <1>1. ASSUME EvalInv
        PROVE  TypeOK
    <2>1. TreeTypeOK /\ RecordInv /\ FilesInv
      BY <1>1 DEF EvalInv, TreeInv
    <2>2. /\ now \in 0 .. MaxTime /\ chrome_events \in Seq([name : ChromeNames, ts : 0 .. MaxTime, data : Phases])
          /\ recorded \in Seq([start : 0 .. MaxTime, power : Powers \cup {-1}])
      BY <2>1 DEF RecordInv, ChromeEvents, Measured
    <2>3. /\ DOMAIN cpu_activity \subseteq CPUs
          /\ \A cpu \in DOMAIN cpu_activity : cpu_activity[cpu] \in Seq(ThreadRunInfo)
      BY <2>1 DEF RecordInv, ActivityInv, RunsInv
    <2>4. /\ DOMAIN folder.cpu_activity \subseteq CPUs
          /\ \A cpu \in DOMAIN folder.cpu_activity : folder.cpu_activity[cpu] \in Seq(Line)
      <3>1. CASE stage = "recording"
        <4>1. folder.cpu_activity = <<>>
          BY <2>1, <3>1 DEF FilesInv, NoFolder
        <4>2. DOMAIN folder.cpu_activity = {}
          BY <4>1
        <4> QED BY <4>2
      <3>2. CASE stage # "recording"
        <4>1. folder.cpu_activity = [cpu \in DOMAIN cpu_activity |-> Lines(cpu)]
          BY <2>1, <3>2 DEF FilesInv, Written
        <4> QED BY <2>1, <2>3, <4>1, LinesWritten
      <3> QED BY <3>1, <3>2
    <2>5. failed \in {"none", "KeyError", "FileNotFoundError", "AssertionError", "IndexError",
                      "RecursionError"}
      <3>1. SearchErrors \subseteq {"KeyError", "RecursionError"}
        <4>1. \A kind \in Kinds, p \in Ran : Search(kind, p) \in {"yes", "no", "KeyError", "RecursionError"}
          BY DEF Search
        <4> QED BY <4>1 DEF SearchErrors
      <3> QED BY <2>1, <3>1 DEF FilesInv, Ended
    <2>6. measurements \in Seq([start : Nat, stop : Nat, power2 : Nat])
      <3>1. measurements = <<>> \/ (folder = Written /\ measurements = MeasurementsRead)
        BY <2>1 DEF FilesInv, Ended
      <3>2. CASE measurements = <<>>
        BY <3>2
      <3>3. CASE folder = Written /\ measurements = MeasurementsRead
        <4>1. MeasurementsRead \in Seq([start : Nat, stop : Nat, power2 : Nat])
          BY <2>1, <3>3, RowsRead
        <4> QED BY <3>3, <4>1
      <3> QED BY <3>1, <3>2, <3>3
    <2>7. phases \in Seq([start : Nat, stop : Int, phase : Phases \cup {-1}])
      <3>1. \/ phases = <<>>
            \/ folder = Written /\ phases = PhasesRead
            \/ folder = Written /\ measurements # <<>> /\ measurements = MeasurementsRead /\ phases = PhasesEnded
        BY <2>1 DEF FilesInv, Ended
      <3>2. phases \in Seq(PhaseStarts)
        <4>1. CASE phases = <<>>
          BY <4>1
        <4>2. CASE folder = Written /\ phases = PhasesRead
          <5>1. PhasesRead \in Seq(PhaseStarts)
            BY <2>1, <4>2, PhasesListed
          <5> QED BY <4>2, <5>1
        <4>3. CASE folder = Written /\ measurements # <<>> /\ measurements = MeasurementsRead /\ phases = PhasesEnded
          <5>1. PhasesEnded \in Seq(PhaseStarts)
            BY <2>1, <4>3, PhasesAre
          <5> QED BY <4>3, <5>1
        <4> QED BY <3>1, <4>1, <4>2, <4>3
      <3> QED BY <3>2 DEF PhaseStarts
    <2>8. stage \in {"recording", "converted", "read", "done"}
      BY <2>1 DEF FilesInv
    <2> QED BY <2>1, <2>2, <2>3, <2>4, <2>5, <2>6, <2>7, <2>8 DEF TypeOK
  <1> QED BY <1>1, EvalInvariant, PTL

\* Times and phases of the recorded events.
LEMMA EventTypes ==
    ASSUME RecordInv
    PROVE  /\ Len(chrome_events) \in Nat /\ DOMAIN chrome_events = 1 .. Len(chrome_events)
           /\ PhaseChanges \subseteq 1 .. Len(chrome_events)
           /\ \A i \in 1 .. Len(chrome_events) :
                  chrome_events[i].ts \in Int /\ chrome_events[i].data \in Int
           /\ \A i, j \in 1 .. Len(chrome_events) : i <= j => chrome_events[i].ts <= chrome_events[j].ts
  <1>1. chrome_events \in Seq(ChromeEvents)
    BY DEF RecordInv
  <1>2. \A e \in ChromeEvents : e.ts \in Int /\ e.data \in Int
    BY EvaluationAssumption DEF ChromeEvents
  <1>3. /\ Len(chrome_events) \in Nat /\ DOMAIN chrome_events = 1 .. Len(chrome_events)
        /\ \A i \in 1 .. Len(chrome_events) : chrome_events[i] \in ChromeEvents
    BY <1>1
  <1>4. \A i \in 1 .. Len(chrome_events) : chrome_events[i].ts \in Int /\ chrome_events[i].data \in Int
    BY <1>2, <1>3
  <1>5. ASSUME NEW i \in 1 .. Len(chrome_events), NEW j \in 1 .. Len(chrome_events), i <= j
        PROVE  chrome_events[i].ts <= chrome_events[j].ts
    <2>1. CASE i = j
      BY <1>4, <2>1
    <2>2. CASE i < j
      BY <2>2 DEF RecordInv
    <2> QED BY <1>5, <2>1, <2>2
  <1> QED BY <1>3, <1>4, <1>5 DEF PhaseChanges

\* The phase in force is that of the last phase event.
LEMMA LastPhase ==
    ASSUME RecordInv, folder = Written, NEW t \in Int
    PROVE  \/ InForce(t) = -1 /\ \A i \in PhaseChanges : ~(chrome_events[i].ts <= t)
           \/ \E j \in PhaseChanges :
                  /\ chrome_events[j].ts <= t /\ InForce(t) = chrome_events[j].data
                  /\ \A i \in PhaseChanges : chrome_events[i].ts <= t => i <= j
  <1> DEFINE log == folder.task_load
             n == Len(log)
             before == {i \in DOMAIN log : log[i].ts <= t}
  <1>1. chrome_events \in Seq(ChromeEvents) /\ PhaseChanges \subseteq DOMAIN chrome_events
    BY DEF RecordInv, PhaseChanges
  <1>2. log = ElementsAt(chrome_events, PhaseChanges)
    BY DEF Written
  <1> HIDE DEF log
  <1>3. log \in Seq(ChromeEvents) /\ Lists(log, chrome_events, PhaseChanges)
    BY <1>1, <1>2, ElementsListed
  <1>4. n \in Nat /\ DOMAIN log = 1 .. n
    BY <1>3
  <1>5. PICK at \in [1 .. n -> PhaseChanges] :
            /\ \A k \in 1 .. n : log[k] = chrome_events[at[k]]
            /\ \A k, l \in 1 .. n : k < l => at[k] < at[l]
            /\ \A i \in PhaseChanges : \E k \in 1 .. n : at[k] = i
    BY <1>3 DEF Lists
  <1>6. before \subseteq 1 .. n /\ IsFiniteSet(before) /\ before \subseteq Int
    <2>1. before \subseteq 1 .. n /\ IsFiniteSet(1 .. n) /\ 1 .. n \subseteq Int
      <3>1. before \subseteq 1 .. n
        BY <1>4
      <3> HIDE DEF before, n
      <3> QED BY <1>4, <3>1, FS_Interval
    <2> HIDE DEF before, n
    <2>2. IsFiniteSet(before)
      BY <2>1, FS_Subset
    <2> QED BY <2>1, <2>2
  <1>10. PhaseChanges \subseteq Int
    <2> DEFINE N == Len(chrome_events)
    <2>1. PhaseChanges \subseteq 1 .. N /\ N \in Nat
      BY EventTypes
    <2> HIDE DEF N
    <2> QED BY <2>1
  <1>7. InForce(t) = IF before = {} THEN -1 ELSE log[Max(before)].data
    BY DEF InForce, log
  <1>8. CASE before = {}
    <2>1. ASSUME NEW i \in PhaseChanges
          PROVE  ~(chrome_events[i].ts <= t)
      <3>1. PICK k \in 1 .. n : at[k] = i
        BY <1>5
      <3>2. k \in DOMAIN log /\ log[k] = chrome_events[i]
        BY <1>4, <1>5, <3>1
      <3> QED BY <1>8, <3>2
    <2> QED BY <1>7, <1>8, <2>1
  <1>9. CASE before # {}
    <2> DEFINE k == Max(before)
    <2>1. k \in before /\ \A l \in before : l <= k
      <3> HIDE DEF before
      <3>1. \E x \in before : \A y \in before : x >= y
        BY <1>6, <1>9, GreatestInt
      <3>2. k \in before /\ \A l \in before : k >= l
        BY <3>1 DEF Max
      <3> QED BY <1>6, <3>2
    <2> HIDE DEF k
    <2>2. k \in 1 .. n /\ log[k] = chrome_events[at[k]] /\ log[k].ts <= t
      BY <1>5, <1>6, <2>1
    <2>3. InForce(t) = chrome_events[at[k]].data
      BY <1>7, <1>9, <2>2 DEF k
    <2>4. ASSUME NEW i \in PhaseChanges, chrome_events[i].ts <= t
          PROVE  i <= at[k]
      <3>1. PICK l \in 1 .. n : at[l] = i
        BY <1>5
      <3>2. l \in before
        BY <1>4, <1>5, <2>4, <3>1
      <3>3. l = k \/ l < k
        BY <1>4, <1>6, <2>1, <2>2, <3>2
      <3>4. at[k] \in Int /\ at[l] \in Int
        BY <1>5, <1>10, <2>2
      <3> QED BY <1>5, <2>2, <3>1, <3>3, <3>4
    <2>5. at[k] \in PhaseChanges
      BY <1>5, <2>2
    <2> QED BY <2>2, <2>3, <2>4, <2>5
  <1> QED BY <1>8, <1>9

\* Each phase event repeats a phase told before, without another one told since.
LEMMA ToldBefore ==
    ASSUME RecordInv, NEW j \in PhaseChanges
    PROVE  \E k \in News : /\ k <= j /\ chrome_events[k].data = chrome_events[j].data
                           /\ \A x \in News : x <= j => x <= k
  <1> DEFINE data(i) == chrome_events[i].data
             Same == {i \in PhaseChanges : i <= j /\ \A x \in PhaseChanges : i <= x /\ x <= j => data(x) = data(j)}
             before(i) == {x \in PhaseChanges : x < i}
  <1>1. PhaseChanges \subseteq Nat /\ \A i : IsFiniteSet(before(i)) /\ before(i) \subseteq Int
    <2> DEFINE n == Len(chrome_events)
    <2>1. PhaseChanges \subseteq 1 .. n /\ n \in Nat
      BY EventTypes
    <2> HIDE DEF n
    <2>2. IsFiniteSet(1 .. n) /\ PhaseChanges \subseteq Nat
      BY <2>1, FS_Interval
    <2>3. ASSUME NEW i
          PROVE  before(i) \subseteq 1 .. n /\ before(i) \subseteq Int
      <3> DEFINE b == before(i)
      <3>1. b \subseteq PhaseChanges
        OBVIOUS
      <3> HIDE DEF before, b
      <3>2. b \subseteq 1 .. n
        BY <2>1, <3>1
      <3>3. b \subseteq Int
        BY <2>2, <3>1
      <3> QED BY <3>2, <3>3 DEF b
    <2> HIDE DEF before
    <2> QED BY <2>2, <2>3, FS_Subset
  <1>2. \A i \in PhaseChanges : IsNews(i) <=> before(i) = {} \/ data(Max(before(i))) # data(i)
    BY DEF IsNews
  <1>3. ASSUME NEW i \in PhaseChanges, before(i) # {}
        PROVE  Max(before(i)) \in before(i) /\ \A x \in before(i) : x <= Max(before(i))
    <2> DEFINE b == before(i)
    <2>1. b \subseteq Int /\ IsFiniteSet(b) /\ b # {}
      BY <1>1, <1>3
    <2> HIDE DEF b
    <2>2. \E x \in b : \A y \in b : x >= y
      BY <2>1, GreatestInt
    <2>3. Max(b) \in b /\ \A x \in b : Max(b) >= x
      BY <2>2 DEF Max
    <2>4. Max(b) \in b /\ \A x \in b : x <= Max(b)
      BY <2>1, <2>3
    <2> QED BY <2>4 DEF b
  <1> HIDE DEF data
  <1>4. j \in Nat /\ \A x \in PhaseChanges : x \in Nat
    BY <1>1
  <1>5. Same \subseteq Nat /\ Same # {}
    <2>1. ASSUME NEW x \in PhaseChanges, j <= x, x <= j
          PROVE  data(x) = data(j)
      <3>1. x = j
        BY <1>4, <2>1
      <3> QED BY <3>1
    <2>2. j \in Same
      BY <1>4, <2>1
    <2> QED BY <1>4, <2>2
  <1>6. PICK k \in Same : \A x \in Same : k <= x
    <2> HIDE DEF Same
    <2> QED BY <1>5, LeastNat
  <1>7. /\ k \in PhaseChanges /\ k <= j /\ k \in Nat
        /\ \A x \in PhaseChanges : k <= x /\ x <= j => data(x) = data(j)
    BY <1>4, <1>6
  <1>8. data(k) = data(j)
    BY <1>7
  <1>9. IsNews(k)
    <2> SUFFICES ASSUME before(k) # {}, data(Max(before(k))) = data(k)
                 PROVE  FALSE
      BY <1>2, <1>7
    <2> DEFINE l == Max(before(k))
    <2>1. l \in before(k) /\ \A x \in before(k) : x <= l
      BY <1>3, <1>7
    <2> HIDE DEF l
    <2>2. l \in PhaseChanges /\ l < k /\ l \in Nat
      BY <1>4, <2>1
    <2>3. ASSUME NEW x \in PhaseChanges, l <= x, x <= j
          PROVE  data(x) = data(j)
      <3>1. CASE x < k
        <4>1. x <= l
          BY <2>1, <3>1
        <4>2. x = l
          BY <1>4, <2>2, <2>3, <4>1
        <4> QED BY <1>8, <4>2 DEF l
      <3>2. CASE ~(x < k)
        <4>1. k <= x
          BY <1>4, <1>7, <3>2
        <4> QED BY <1>7, <2>3, <4>1
      <3> QED BY <3>1, <3>2
    <2>4. l <= j
      BY <1>4, <1>7, <2>2
    <2>5. l \in Same
      BY <2>2, <2>3, <2>4
    <2> HIDE DEF Same
    <2>6. k <= l
      BY <1>6, <2>5
    <2> QED BY <1>7, <2>2, <2>6
  <1>10. ASSUME NEW x \in News, x <= j
         PROVE  x <= k
    <2> SUFFICES ASSUME k < x
                 PROVE  FALSE
      BY <1>4, <1>7 DEF News
    <2>1. x \in PhaseChanges /\ IsNews(x) /\ x \in Nat
      BY <1>4 DEF News
    <2> DEFINE l == Max(before(x))
    <2>2. k \in before(x)
      BY <1>7
    <2>3. l \in before(x) /\ k <= l
      BY <1>3, <2>1, <2>2
    <2>4. data(l) # data(x)
      BY <1>2, <2>1, <2>2
    <2> HIDE DEF l
    <2>5. l \in PhaseChanges /\ l < x /\ l \in Nat
      BY <1>4, <2>3
    <2>6. l <= j /\ k <= x
      BY <1>4, <1>7, <1>10, <2>1, <2>5
    <2>7. data(l) = data(j) /\ data(x) = data(j)
      BY <1>7, <1>10, <2>1, <2>3, <2>5, <2>6
    <2> QED BY <2>4, <2>7
  <1>11. k \in News
    BY <1>7, <1>9 DEF News
  <1> QED BY <1>7, <1>8, <1>10, <1>11 DEF data

\* By the phase events that are read, the phase in force is that of the last
\* one that is not later; none is out of order.
LEMMA Succession ==
    ASSUME RecordInv, folder = Written, NEW t \in Int
    PROVE  \E c \in 0 .. Len(PhasesRead) :
               /\ \A m \in 1 .. Len(PhasesRead) : PhasesRead[m].start <= t <=> m <= c
               /\ InForce(t) = IF c = 0 THEN -1 ELSE PhasesRead[c].phase
  <1> DEFINE r == PhasesRead
             R == Len(r)
             ts(i) == chrome_events[i].ts
             data(i) == chrome_events[i].data
             N == Len(chrome_events)
  <1>1. R \in Nat
    BY PhasesListed
  <1>2. PICK at \in [1 .. R -> News] :
            /\ \A k \in 1 .. R : r[k].start = ts(at[k]) /\ r[k].phase = data(at[k])
            /\ \A k, l \in 1 .. R : k < l => at[k] < at[l]
            /\ \A i \in News : \E k \in 1 .. R : at[k] = i
    BY PhasesListed
  <1>3. /\ N \in Nat /\ News \subseteq PhaseChanges /\ PhaseChanges \subseteq 1 .. N
        /\ \A i \in 1 .. N : ts(i) \in Int
        /\ \A i, j \in 1 .. N : i <= j => ts(i) <= ts(j)
    BY EventTypes DEF News
  <1>4. \/ InForce(t) = -1 /\ \A i \in PhaseChanges : ~(ts(i) <= t)
        \/ \E j \in PhaseChanges :
               /\ ts(j) <= t /\ InForce(t) = data(j)
               /\ \A i \in PhaseChanges : ts(i) <= t => i <= j
    BY LastPhase
  <1>5. \A j \in PhaseChanges :
            \E k \in News : k <= j /\ data(k) = data(j) /\ \A x \in News : x <= j => x <= k
    BY ToldBefore
  <1> HIDE DEF r, R, ts, data, N
  <1>6. \A k \in 1 .. R : at[k] \in News /\ at[k] \in PhaseChanges /\ at[k] \in 1 .. N /\ at[k] \in Int
    <2> SUFFICES ASSUME NEW k \in 1 .. R
                 PROVE  at[k] \in News /\ at[k] \in PhaseChanges /\ at[k] \in 1 .. N /\ at[k] \in Int
      OBVIOUS
    <2>1. at[k] \in News
      BY <1>2
    <2>2. at[k] \in PhaseChanges /\ at[k] \in 1 .. N
      BY <1>3, <2>1
    <2>3. at[k] \in Int
      BY <1>3, <2>2
    <2> QED BY <2>1, <2>2, <2>3
  <1>7. CASE InForce(t) = -1 /\ \A i \in PhaseChanges : ~(ts(i) <= t)
    <2>1. 0 \in 0 .. R
      BY <1>1
    <2>2. \A m \in 1 .. R : ~(r[m].start <= t) /\ ~(m <= 0)
      BY <1>1, <1>2, <1>6, <1>7
    <2> QED BY <1>7, <2>1, <2>2 DEF r, R
  <1>8. ASSUME NEW j \in PhaseChanges, ts(j) <= t, InForce(t) = data(j),
               \A i \in PhaseChanges : ts(i) <= t => i <= j
        PROVE  \E c \in 0 .. R :
                   /\ \A m \in 1 .. R : r[m].start <= t <=> m <= c
                   /\ InForce(t) = IF c = 0 THEN -1 ELSE r[c].phase
    <2>1. PICK k \in News : k <= j /\ data(k) = data(j) /\ \A x \in News : x <= j => x <= k
      BY <1>5, <1>8
    <2>2. PICK c \in 1 .. R : at[c] = k
      BY <1>2, <2>1
    <2>3. c \in 0 .. R /\ c # 0 /\ c \in Int
      BY <1>1, <2>2
    <2>4. ASSUME NEW m \in 1 .. R, m <= c
          PROVE  r[m].start <= t
      <3>1. m = c \/ m < c
        BY <2>3, <2>4
      <3>2. at[m] = at[c] \/ at[m] < at[c]
        BY <1>2, <2>2, <3>1
      <3>3. at[m] <= j /\ at[m] \in 1 .. N /\ j \in 1 .. N
        <4>1. j \in Int /\ k \in Int /\ j \in 1 .. N
          BY <1>3, <1>8, <2>1
        <4> QED BY <1>6, <2>1, <2>2, <2>4, <3>2, <4>1
      <3>4. ts(at[m]) <= ts(j) /\ ts(at[m]) \in Int /\ ts(j) \in Int
        BY <1>3, <3>3
      <3>5. ts(at[m]) <= t
        BY <1>8, <3>4
      <3> QED BY <1>2, <2>4, <3>5
    <2>5. ASSUME NEW m \in 1 .. R, r[m].start <= t
          PROVE  m <= c
      <3>1. ts(at[m]) <= t /\ at[m] \in PhaseChanges /\ at[m] \in News
        BY <1>2, <1>6, <2>5
      <3>2. at[m] <= k
        BY <1>8, <2>1, <3>1
      <3> SUFFICES ASSUME c < m PROVE FALSE
        BY <2>3, <2>5
      <3>3. at[c] < at[m]
        BY <1>2, <2>2, <2>5
      <3>4. k < at[m] /\ k \in Int /\ at[m] \in Int
        BY <1>6, <2>2, <2>5, <3>3
      <3> QED BY <3>2, <3>4
    <2>6. InForce(t) = r[c].phase
      BY <1>2, <1>8, <2>1, <2>2
    <2> QED BY <2>3, <2>4, <2>5, <2>6
  <1>9. \E c \in 0 .. R :
            /\ \A m \in 1 .. R : r[m].start <= t <=> m <= c
            /\ InForce(t) = IF c = 0 THEN -1 ELSE r[c].phase
    <2>1. CASE InForce(t) = -1 /\ \A i \in PhaseChanges : ~(ts(i) <= t)
      BY <1>7, <2>1 DEF r, R
    <2>2. CASE \E j \in PhaseChanges :
                   /\ ts(j) <= t /\ InForce(t) = data(j)
                   /\ \A i \in PhaseChanges : ts(i) <= t => i <= j
      BY <1>8, <2>2
    <2> QED BY <1>4, <2>1, <2>2
  <1> QED BY <1>9 DEF r, R

\* Every time since the measurements began has its phase: it is the last of
\* those that do not begin later, and the phase in force.
LEMMA Cover ==
    ASSUME RecordInv, folder = Written, measurements = MeasurementsRead, measurements # <<>>,
           NEW t \in Int, measurements[1].start <= t
    PROVE  \E k \in 1 .. Len(PhasesEnded) :
               /\ \A l \in 1 .. Len(PhasesEnded) : PhasesEnded[l].start <= t <=> l <= k
               /\ PhasesEnded[k].phase = InForce(t)
  <1> DEFINE r == PhasesRead
             R == Len(r)
             s == FromTheStart(r)
             N == Len(PhasesEnded)
             front == [start |-> measurements[1].start, stop |-> -1, phase |-> -1]
             start == measurements[1].start
  <1>1. r \in Seq(PhaseStarts) /\ R \in Nat
    BY PhasesListed
  <1>2. /\ s \in Seq(PhaseStarts) /\ N = Len(s)
        /\ \A l \in 1 .. N : PhasesEnded[l].start = s[l].start /\ PhasesEnded[l].phase = s[l].phase
    BY PhasesAre
  <1>3. PICK c \in 0 .. R :
            /\ \A m \in 1 .. R : r[m].start <= t <=> m <= c
            /\ InForce(t) = IF c = 0 THEN -1 ELSE r[c].phase
    BY Succession
  <1>4. s = IF r = <<>> \/ r[1].start # start THEN <<front>> \o r ELSE r
    BY DEF FromTheStart
  <1>5. front.start = start /\ front.phase = -1
    OBVIOUS
  <1>6. c \in Int /\ 0 <= c /\ c <= R
    BY <1>1
  <1> HIDE DEF r, s, front
  <1>7. CASE r = <<>> \/ r[1].start # start
    <2>1. s = <<front>> \o r
      BY <1>4, <1>7
    <2>2. /\ Len(s) = R + 1 /\ s[1] = front
          /\ \A m \in 1 .. R : s[m + 1] = r[m]
      BY <1>1, <2>1
    <2> HIDE DEF R, N, start
    <2>3. N = R + 1
      BY <1>2, <2>2
    <2>4. c + 1 \in 1 .. N
      BY <1>1, <1>6, <2>3
    <2>5. ASSUME NEW l \in 1 .. N
          PROVE  PhasesEnded[l].start <= t <=> l <= c + 1
      <3>1. CASE l = 1
        <4>1. PhasesEnded[l].start = start
          BY <1>2, <1>5, <2>2, <2>5, <3>1
        <4>2. start <= t
          BY DEF start
        <4>3. l <= c + 1
          BY <1>6, <3>1
        <4> QED BY <4>1, <4>2, <4>3
      <3>2. CASE l # 1
        <4>1. l - 1 \in 1 .. R /\ (l - 1) + 1 = l
          BY <1>1, <2>3, <2>5, <3>2
        <4>2. PhasesEnded[l].start = r[l - 1].start
          BY <1>2, <2>2, <2>5, <4>1
        <4>3. r[l - 1].start <= t <=> l - 1 <= c
          BY <1>3, <4>1
        <4>4. l - 1 <= c <=> l <= c + 1
          BY <1>6, <2>5, <4>1
        <4> QED BY <4>2, <4>3, <4>4
      <3> QED BY <3>1, <3>2
    <2>6. PhasesEnded[c + 1].phase = InForce(t)
      <3>1. CASE c = 0
        BY <1>2, <1>3, <1>5, <2>2, <2>4, <3>1
      <3>2. CASE c # 0
        <4>1. c \in 1 .. R
          BY <1>1, <1>6, <3>2
        <4>2. s[c + 1] = r[c]
          BY <2>2, <4>1
        <4> QED BY <1>2, <1>3, <2>4, <3>2, <4>2
      <3> QED BY <3>1, <3>2
    <2> QED BY <2>4, <2>5, <2>6 DEF N
  <1>8. CASE ~(r = <<>> \/ r[1].start # start)
    <2>1. s = r /\ r # <<>> /\ r[1].start = start
      BY <1>4, <1>8
    <2>2. N = R
      BY <1>2, <2>1
    <2>3. R \in Nat \ {0}
      BY <1>1, <2>1, NotEmpty
    <2> HIDE DEF R, N, start
    <2>4. 1 <= c
      <3>1. 1 \in 1 .. R /\ start <= t
        BY <2>3 DEF start
      <3> QED BY <1>3, <2>1, <3>1
    <2>5. c \in 1 .. N /\ c # 0
      BY <1>1, <1>6, <2>2, <2>4
    <2>6. \A l \in 1 .. N : PhasesEnded[l].start <= t <=> l <= c
      BY <1>2, <1>3, <2>1, <2>2
    <2>7. PhasesEnded[c].phase = InForce(t)
      BY <1>2, <1>3, <2>1, <2>5
    <2> QED BY <2>5, <2>6, <2>7 DEF N
  <1> QED BY <1>7, <1>8

\* The evaluation has read what was written and ended the phases.
Evaluated ==
    /\ RecordInv /\ folder = Written
    /\ measurements = MeasurementsRead /\ measurements # <<>>

LEMMA Spans ==
    ASSUME Evaluated
    PROVE  /\ Len(measurements) \in Nat \ {0} /\ DOMAIN measurements = 1 .. Len(measurements)
           /\ \A i \in 1 .. Len(measurements) :
                  /\ measurements[i].start \in Int /\ measurements[i].stop \in Int
                  /\ measurements[i].power2 \in Int
                  /\ measurements[i].start <= measurements[i].stop
                  /\ measurements[i].stop <= measurements[Len(measurements)].stop
                  /\ \A j \in 1 .. i : measurements[j].start <= measurements[i].start
  <1> DEFINE M == measurements
             n == Len(M)
             Measurement == [start : Nat, stop : Nat, power2 : Nat]
  <1>1. M \in Seq(Measurement) /\ M # <<>> /\ n = Len(recorded)
    BY RowsRead DEF Evaluated
  <1>2. n \in Nat \ {0} /\ DOMAIN M = 1 .. n /\ \A i \in 1 .. n : M[i] \in Measurement
    <2> HIDE DEF M, Measurement
    <2> QED BY <1>1, NotEmpty
  <1>3. \A i \in 1 .. n : M[i].start \in Int /\ M[i].stop \in Int /\ M[i].power2 \in Int
    BY <1>2
  <1>4. \A i \in 1 .. n : /\ M[i].start = recorded[i].start /\ M[i].start <= M[i].stop
                          /\ i < n => M[i].stop = recorded[i + 1].start - 1
    BY <1>1, RowsRead DEF Evaluated
  <1>5. \A i, j \in 1 .. n : i < j => recorded[i].start < recorded[j].start
    BY <1>1 DEF Evaluated, RecordInv
  <1> HIDE DEF M, n
  <1>6. \A i, j \in 1 .. n : i < j => M[i].start < M[j].start
    BY <1>4, <1>5
  <1>7. ASSUME NEW i \in 1 .. n, NEW j \in 1 .. i
        PROVE  M[j].start <= M[i].start
    <2>1. j \in 1 .. n /\ (j = i \/ j < i)
      BY <1>2, <1>7
    <2>2. M[i].start \in Int /\ M[j].start \in Int
      BY <1>3, <2>1
    <2> QED BY <1>6, <2>1, <2>2
  <1>8. ASSUME NEW i \in 1 .. n
        PROVE  M[i].stop <= M[n].stop
    <2>0. n \in 1 .. n /\ i \in Int
      BY <1>2
    <2>1. CASE i = n
      BY <1>3, <2>1
    <2>2. CASE i # n
      <3>1. i < n /\ i + 1 \in 1 .. n
        BY <1>2, <2>0, <2>2
      <3>2. M[i].stop = M[i + 1].start - 1
        BY <1>4, <3>1
      <3>3. M[i + 1].start <= M[n].start
        <4>1. i + 1 \in 1 .. n /\ n \in 1 .. n /\ i + 1 <= n /\ i + 1 \in 1 .. n
          BY <1>2, <2>0, <3>1
        <4> QED BY <1>7, <4>1
      <3>4. M[n].start <= M[n].stop
        BY <1>4, <2>0
      <3>5. M[i + 1].start \in Int /\ M[n].start \in Int /\ M[n].stop \in Int /\ M[i].stop \in Int
        BY <1>3, <2>0, <3>1
      <3> QED BY <3>2, <3>3, <3>4, <3>5
    <2> QED BY <2>1, <2>2
  <1> QED BY <1>2, <1>3, <1>4, <1>7, <1>8 DEF M, n

\* Time t lies in phase k.
Within(k, t) == PhasesEnded[k].start <= t /\ t <= PhasesEnded[k].stop

\* While the measurements last, a time lies in one phase and no other: the one
\* in force.
LEMMA OnePhase ==
    ASSUME Evaluated, NEW t \in Int,
           measurements[1].start <= t, t <= measurements[Len(measurements)].stop
    PROVE  \E k \in 1 .. Len(PhasesEnded) :
               /\ PhasesEnded[k].phase = InForce(t)
               /\ \A l \in 1 .. Len(PhasesEnded) : Within(l, t) <=> l = k
               /\ \A l \in 1 .. Len(PhasesEnded) : PhasesEnded[l].start <= t <=> l <= k
               /\ \A l \in 1 .. Len(PhasesEnded) : PhasesEnded[l].stop < t => l < k
  <1> DEFINE P == PhasesEnded
             N == Len(P)
             s == FromTheStart(PhasesRead)
             stop == measurements[Len(measurements)].stop
  <1>1. /\ P \in Seq(PhaseStarts) /\ N = Len(s)
        /\ \A l \in 1 .. N : P[l].start = s[l].start /\ P[l].stop = PhaseStop(s, l)
    BY PhasesAre DEF Evaluated
  <1>2. PICK k \in 1 .. N : /\ \A l \in 1 .. N : P[l].start <= t <=> l <= k
                            /\ P[k].phase = InForce(t)
    BY Cover DEF Evaluated
  <1> HIDE DEF P, s
  <1>3. N \in Nat /\ \A l \in 1 .. N : P[l] \in PhaseStarts
    BY <1>1
  <1>4. \A l \in 1 .. N : P[l].start \in Int /\ P[l].stop \in Int
    BY <1>3 DEF PhaseStarts
  <1>5. \A l \in 1 .. N : P[l].stop = IF l < N THEN s[l + 1].start - 1 ELSE stop
    BY <1>1 DEF PhaseStop
  <1> HIDE DEF N, stop
  <1>6. ASSUME NEW l \in 1 .. N
        PROVE  t <= P[l].stop <=> k <= l
    <2>1. CASE l < N
      <3>1. l + 1 \in 1 .. N /\ l \in Int /\ k \in Int
        BY <1>3, <2>1
      <3>2. P[l].stop = P[l + 1].start - 1 /\ P[l + 1].start \in Int
        BY <1>1, <1>4, <1>5, <2>1, <3>1 DEF N
      <3>3. P[l + 1].start <= t <=> l + 1 <= k
        BY <1>2, <3>1
      <3> QED BY <3>1, <3>2, <3>3
    <2>2. CASE ~(l < N)
      <3>1. k <= l
        BY <1>3, <2>2
      <3>2. t <= P[l].stop
        BY <1>5, <2>2 DEF stop
      <3> QED BY <3>1, <3>2
    <2> QED BY <2>1, <2>2
  <1>7. ASSUME NEW l \in 1 .. N
        PROVE  (Within(l, t) <=> l = k) /\ (P[l].start <= t <=> l <= k) /\ (P[l].stop < t => l < k)
    <2>1. l \in Int /\ k \in Int /\ P[l].stop \in Int
      BY <1>3, <1>4
    <2>2. Within(l, t) <=> l <= k /\ k <= l
      BY <1>2, <1>6 DEF Within, P
    <2>3. P[l].start <= t <=> l <= k
      BY <1>2
    <2>4. P[l].stop < t => l < k
      BY <1>6, <2>1
    <2> QED BY <2>1, <2>2, <2>3, <2>4
  <1>8. P[k].phase = InForce(t)
    BY <1>2
  <1> QED BY <1>7, <1>8 DEF P, N

\* The nanoseconds of measurement i that lie in phase k.
Share(k, i) == {t \in measurements[i].start .. measurements[i].stop : Within(k, t)}

\* The evaluation computes their number.
LEMMA ShareSize ==
    ASSUME Evaluated, NEW k \in 1 .. Len(PhasesEnded), NEW i \in 1 .. Len(measurements)
    PROVE  /\ IsFiniteSet(Share(k, i))
           /\ PhaseNs(PhasesEnded[k], i) = Cardinality(Share(k, i))
  <1> DEFINE first == measurements[i].start
             last == measurements[i].stop
             start == PhasesEnded[k].start
             stop == PhasesEnded[k].stop
             low == IF first >= start THEN first ELSE start
             high == IF last <= stop THEN last ELSE stop
  <1>1. first \in Int /\ last \in Int /\ first <= last
    BY Spans
  <1>2. start \in Int /\ stop \in Int
    <2>1. PhasesEnded \in Seq(PhaseStarts)
      BY PhasesAre DEF Evaluated
    <2>2. PhasesEnded[k] \in PhaseStarts
      BY <2>1
    <2> QED BY <2>2 DEF PhaseStarts
  <1>3. (\E j \in 1 .. i : measurements[j].start > stop) <=> first > stop
    <2>1. \A j \in 1 .. i : measurements[j].start <= first /\ measurements[j].start \in Int
      <3>1. \A j \in 1 .. i : j \in 1 .. Len(measurements)
        <4> DEFINE n == Len(measurements)
        <4>1. n \in Nat
          BY Spans
        <4> HIDE DEF n
        <4> QED BY <4>1 DEF n
      <3> QED BY <3>1, Spans
    <2>2. i \in 1 .. i
      <3> DEFINE n == Len(measurements)
      <3>1. n \in Nat /\ i \in 1 .. n
        BY Spans
      <3> HIDE DEF n
      <3> QED BY <3>1
    <2>3. first > stop => \E j \in 1 .. i : measurements[j].start > stop
      BY <2>2
    <2> HIDE DEF stop, first
    <2>4. ASSUME NEW j \in 1 .. i, measurements[j].start > stop
          PROVE  first > stop
      BY <1>1, <1>2, <2>1, <2>4
    <2> QED BY <2>3, <2>4
  <1>4. PhaseNs(PhasesEnded[k], i)
            = IF first > stop \/ last < start THEN 0
              ELSE Min({last, stop}) - Max({first, start}) + 1
    BY <1>3 DEF PhaseNs
  <1>5. Min({last, stop}) = high /\ Max({first, start}) = low
    <2> HIDE DEF first, last, start, stop
    <2>1. Min({last, stop}) = high
      BY <1>1, <1>2, MinMaxOfTwo
    <2>2. Max({first, start}) = low
      BY <1>1, <1>2, MinMaxOfTwo
    <2> QED BY <2>1, <2>2
  <1>6. Share(k, i) = {t \in first .. last : start <= t /\ t <= stop}
    BY DEF Share, Within
  <1>7. ASSUME first <= stop, start <= last
        PROVE  start <= stop + 1
    <2> SUFFICES ASSUME stop + 1 < start PROVE FALSE
      BY <1>2
    <2> DEFINE t == stop + 1
               n == Len(measurements)
    <2>1. t \in Int /\ first <= t /\ t <= last /\ stop < t /\ t < start
      <3> HIDE DEF first, last, start, stop
      <3> QED BY <1>1, <1>2, <1>7
    <2>2. measurements[1].start <= first /\ last <= measurements[n].stop
          /\ measurements[1].start \in Int /\ measurements[n].stop \in Int
      <3>1. n \in Nat \ {0}
        BY Spans
      <3> HIDE DEF n
      <3>2. 1 \in 1 .. n /\ n \in 1 .. n /\ 1 \in 1 .. i
        BY <3>1 DEF n
      <3> QED BY <3>2, Spans DEF n
    <2>3. measurements[1].start <= t /\ t <= measurements[n].stop
      <3> HIDE DEF first, last, t, n
      <3> QED BY <1>1, <2>1, <2>2
    <2>4. PICK m \in 1 .. Len(PhasesEnded) :
              /\ \A l \in 1 .. Len(PhasesEnded) : Within(l, t) <=> l = m
              /\ \A l \in 1 .. Len(PhasesEnded) : PhasesEnded[l].start <= t <=> l <= m
              /\ \A l \in 1 .. Len(PhasesEnded) : PhasesEnded[l].stop < t => l < m
      <3> HIDE DEF t
      <3> QED BY <2>1, <2>3, OnePhase DEF n
    <2>5. k < m /\ k \in Int /\ m \in Int
      BY <2>1, <2>4
    <2>6. start <= t
      BY <2>4, <2>5
    <2> HIDE DEF t, start
    <2> QED BY <1>2, <2>1, <2>6
  <1>8. CASE first > stop \/ last < start
    <2>1. Share(k, i) = {}
      <3> HIDE DEF first, last, start, stop
      <3> QED BY <1>1, <1>2, <1>6, <1>8
    <2>2. PhaseNs(PhasesEnded[k], i) = 0
      <3> HIDE DEF first, last, start, stop
      <3> QED BY <1>4, <1>8
    <2> QED BY <2>1, <2>2, FS_EmptySet
  <1>9. CASE ~(first > stop \/ last < start)
    <2> HIDE DEF first, last, start, stop
    <2>1. first <= stop /\ start <= last /\ start <= stop + 1
      BY <1>1, <1>2, <1>7, <1>9
    <2>2. low \in Int /\ high \in Int /\ low <= high + 1
      BY <1>1, <1>2, <2>1
    <2>3. Share(k, i) = low .. high
      BY <1>1, <1>2, <1>6
    <2>4. PhaseNs(PhasesEnded[k], i) = high - low + 1
      BY <1>4, <1>5, <1>9
    <2> HIDE DEF low, high
    <2>5. IsFiniteSet(low .. high) /\ Cardinality(low .. high) = IF low > high THEN 0 ELSE high - low + 1
      BY <2>2, FS_Interval
    <2>6. Cardinality(low .. high) = high - low + 1
      BY <2>2, <2>5
    <2> QED BY <2>3, <2>4, <2>5, <2>6
  <1> QED BY <1>8, <1>9

\* The nanoseconds of measurement i at which phase v is in force.
TimeOf(v, i) == {t \in measurements[i].start .. measurements[i].stop : InForce(t) = v}

LEMMA SharesPartition ==
    ASSUME Evaluated, NEW v, NEW i \in 1 .. Len(measurements)
    PROVE  /\ TimeOf(v, i) = UNION {Share(k, i) : k \in {l \in 1 .. Len(PhasesEnded) : PhasesEnded[l].phase = v}}
           /\ \A k, l \in 1 .. Len(PhasesEnded) : k # l => Share(k, i) \cap Share(l, i) = {}
  <1> DEFINE N == Len(PhasesEnded)
             n == Len(measurements)
             span == measurements[i].start .. measurements[i].stop
             K == {l \in 1 .. N : PhasesEnded[l].phase = v}
  <1>1. ASSUME NEW t \in span
        PROVE  \E k \in 1 .. N : /\ PhasesEnded[k].phase = InForce(t)
                                 /\ \A l \in 1 .. N : Within(l, t) <=> l = k
    <2> DEFINE first == measurements[i].start
               last == measurements[i].stop
               begin == measurements[1].start
               end == measurements[n].stop
    <2>1. first \in Int /\ last \in Int /\ last <= end /\ begin <= first /\ begin \in Int /\ end \in Int
      <3>1. n \in Nat \ {0} /\ i \in 1 .. n
        BY Spans
      <3>2. 1 \in 1 .. n /\ n \in 1 .. n /\ 1 \in 1 .. i
        <4> HIDE DEF n
        <4> QED BY <3>1
      <3> QED BY <3>2, Spans
    <2>2. t \in first .. last
      OBVIOUS
    <2> HIDE DEF first, last, begin, end
    <2>3. t \in Int /\ begin <= t /\ t <= end
      BY <2>1, <2>2
    <2> QED BY <2>3, OnePhase DEF begin, end
  <1>2. \A k \in 1 .. N : Share(k, i) = {t \in span : Within(k, t)}
    BY DEF Share
  <1>3. TimeOf(v, i) = {t \in span : InForce(t) = v}
    BY DEF TimeOf
  <1> HIDE DEF span, N
  <1>4. ASSUME NEW k \in 1 .. N, NEW l \in 1 .. N, k # l
        PROVE  Share(k, i) \cap Share(l, i) = {}
    BY <1>1, <1>2, <1>4
  <1>5. ASSUME NEW t \in TimeOf(v, i)
        PROVE  t \in UNION {Share(k, i) : k \in K}
    <2>1. t \in span /\ InForce(t) = v
      BY <1>3, <1>5
    <2>2. PICK k \in 1 .. N : PhasesEnded[k].phase = InForce(t) /\ Within(k, t)
      BY <1>1, <2>1
    <2>3. k \in K /\ t \in Share(k, i)
      BY <1>2, <2>1, <2>2
    <2> QED BY <2>3
  <1>6. ASSUME NEW k \in K, NEW t \in Share(k, i)
        PROVE  t \in TimeOf(v, i)
    <2>1. k \in 1 .. N /\ PhasesEnded[k].phase = v
      OBVIOUS
    <2>2. t \in span /\ Within(k, t)
      BY <1>2, <1>6, <2>1
    <2>3. PICK m \in 1 .. N : PhasesEnded[m].phase = InForce(t) /\ \A l \in 1 .. N : Within(l, t) <=> l = m
      BY <1>1, <2>2
    <2>4. m = k
      BY <2>1, <2>2, <2>3
    <2> QED BY <1>3, <2>1, <2>2, <2>3, <2>4
  <1>7. TimeOf(v, i) = UNION {Share(k, i) : k \in K}
    BY <1>5, <1>6
  <1> QED BY <1>4, <1>7 DEF N

\* What the phases with number v are reported with, is what their time took.
LEMMA PhaseEnergy ==
    ASSUME Evaluated, phases = PhasesEnded, NEW v
    PROVE  SumFunctionOnSet([k \in DOMAIN phases |-> Ws(phases[k])],
                            {k \in DOMAIN phases : phases[k].phase = v})
               = SumFunction([i \in DOMAIN measurements |->
                                 Cardinality(TimeOf(v, i)) * measurements[i].power2])
  <1> DEFINE N == Len(PhasesEnded)
             I == 1 .. Len(measurements)
             K == {k \in 1 .. N : PhasesEnded[k].phase = v}
             A == [k \in 1 .. N |-> [i \in I |-> Share(k, i)]]
             p == [i \in I |-> measurements[i].power2]
             w == [k \in DOMAIN phases |-> Ws(phases[k])]
             part(k) == [i \in I |-> Cardinality(A[k][i]) * p[i]]
             whole == [i \in I |-> Cardinality(UNION {A[k][i] : k \in K}) * p[i]]
             time == [i \in I |-> Cardinality(TimeOf(v, i)) * measurements[i].power2]
  <1>1. DOMAIN phases = 1 .. N /\ N \in Nat
    <2>1. PhasesEnded \in Seq(PhaseStarts)
      BY PhasesAre DEF Evaluated
    <2> QED BY <2>1
  <1>2. DOMAIN measurements = I /\ Len(measurements) \in Nat
    BY Spans
  <1>3. IsFiniteSet(I) /\ IsFiniteSet(K)
    <2>1. IsFiniteSet(I) /\ IsFiniteSet(1 .. N)
      BY <1>1, <1>2, FS_Interval
    <2>2. K \subseteq 1 .. N
      OBVIOUS
    <2> HIDE DEF K
    <2> QED BY <2>1, <2>2, FS_Subset
  <1>4. \A i \in I : p[i] \in Int
    BY Spans
  <1>5. \A k \in 1 .. N : \A i \in I : A[k][i] = Share(k, i)
    OBVIOUS
  <1>6. ASSUME NEW k \in 1 .. N
        PROVE  w[k] = SumFunctionOnSet(part(k), I)
    <2> DEFINE ns == [i \in I |-> PhaseNs(PhasesEnded[k], i) * measurements[i].power2]
    <2>1. w[k] = SumFunctionOnSet(ns, I)
      <3>1. w[k] = Ws(PhasesEnded[k])
        BY <1>1
      <3>2. Ws(PhasesEnded[k]) = SumFunction(ns)
        BY <1>2 DEF Ws
      <3>3. DOMAIN ns = I
        OBVIOUS
      <3> HIDE DEF ns
      <3>4. SumFunction(ns) = SumFunctionOnSet(ns, I)
        BY <3>3 DEF SumFunction
      <3> QED BY <3>1, <3>2, <3>4
    <2>2. \A i \in I : PhaseNs(PhasesEnded[k], i) = Cardinality(Share(k, i))
      BY ShareSize
    <2>3. ns = part(k)
      BY <2>2
    <2> QED BY <2>1, <2>3
  <1>7. \A i \in I : TimeOf(v, i) = UNION {Share(k, i) : k \in K}
    BY SharesPartition
  <1>8. \A i \in I : {A[k][i] : k \in K} = {Share(k, i) : k \in K}
    BY <1>5
  <1>9. whole = time
    <2>1. \A i \in I : UNION {A[k][i] : k \in K} = TimeOf(v, i)
      BY <1>7, <1>8
    <2>2. \A i \in I : p[i] = measurements[i].power2
      OBVIOUS
    <2> HIDE DEF A, p, K, I
    <2> QED BY <2>1, <2>2
  <1>10. SumFunctionOnSet(w, K) = SumFunctionOnSet(whole, I)
    <2>1. \A k \in K : k \in 1 .. N
      OBVIOUS
    <2>2. \A k \in K : \A i \in I : IsFiniteSet(A[k][i])
      BY <1>5, ShareSize
    <2>3. \A k, l \in K : \A i \in I : k # l => A[k][i] \cap A[l][i] = {}
      BY <1>5, SharesPartition
    <2>4. \A k \in K : w[k] = PartSum(A, p, I, k)
      <3> SUFFICES ASSUME NEW k \in K PROVE w[k] = PartSum(A, p, I, k)
        OBVIOUS
      <3>1. PartSum(A, p, I, k) = SumFunctionOnSet(part(k), I)
        BY DEF PartSum
      <3> HIDE DEF w, part, A, p, I
      <3> QED BY <1>6, <2>1, <3>1
    <2>5. WholeSum(A, p, I, K) = SumFunctionOnSet(whole, I)
      BY DEF WholeSum
    <2> HIDE DEF K, I, A, p, w, part, whole
    <2>6. SumFunctionOnSet(w, K) = WholeSum(A, p, I, K)
      BY <1>3, <1>4, <2>2, <2>3, <2>4, SumsOfParts
    <2> QED BY <2>5, <2>6
  <1>11. SumFunction([i \in DOMAIN measurements |-> Cardinality(TimeOf(v, i)) * measurements[i].power2])
             = SumFunctionOnSet(time, I)
    <2>1. DOMAIN time = I
      OBVIOUS
    <2>2. time = [i \in DOMAIN measurements |-> Cardinality(TimeOf(v, i)) * measurements[i].power2]
      BY <1>2
    <2> HIDE DEF time
    <2>3. SumFunction(time) = SumFunctionOnSet(time, I)
      BY <2>1 DEF SumFunction
    <2> QED BY <2>2, <2>3
  <1>12. {k \in DOMAIN phases : phases[k].phase = v} = K
    BY <1>1
  <1> HIDE DEF w, K, whole, time, I
  <1>13. SumFunctionOnSet(w, K) = SumFunctionOnSet(time, I)
    BY <1>9, <1>10
  <1> QED BY <1>11, <1>12, <1>13 DEF w

\* For recordings of any length, any phases and any power: every nanosecond of
\* the measurements counts, with the power of its measurement, for the phase in
\* force then and for no other; phases that are repeated, begin before or after
\* the measurements or have no length lose nothing and count nothing twice
\* (evaluate_data.py:213-233 and 257-265, trace_conv.py:855-866).
THEOREM EnergyAccounted == Spec => []EnergyPerPhase
  <1>1. ASSUME EvalInv
        PROVE  EnergyPerPhase
    <2> SUFFICES ASSUME stage = "done", failed = "none", NEW v \in Phases \cup {-1}
                 PROVE  SumFunctionOnSet([k \in DOMAIN phases |-> Ws(phases[k])],
                                         {k \in DOMAIN phases : phases[k].phase = v})
                            = SumFunction([i \in DOMAIN measurements |->
                                              Cardinality(TimeOf(v, i)) * measurements[i].power2])
      BY DEF EnergyPerPhase, TimeOf
    <2>1. Evaluated /\ phases = PhasesEnded
      <3>1. folder = Written /\ RecordInv /\ Ended
        BY <1>1 DEF EvalInv, FilesInv
      <3>2. measurements # <<>> /\ measurements = MeasurementsRead /\ phases = PhasesEnded
        BY <3>1 DEF Ended
      <3> QED BY <3>1, <3>2 DEF Evaluated
    <2> QED BY <2>1, PhaseEnergy
  <1> QED BY <1>1, EvalInvariant, PTL
=============================================================================
