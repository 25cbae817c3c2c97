------------------------- MODULE CpuAccountingProofs -------------------------
(***************************************************************************)
(* Proofs about CpuActivity and CpuAccounting, for every set of threads    *)
(* and CPUs, every sequence of scheduler events whose time stamps do not   *)
(* decrease, and any number of measurements.                               *)
(***************************************************************************)
EXTENDS CpuAccounting, InductionLemmas

\* The activity of one CPU, as ActivityForward and ActivityOrdered have it of
\* all of them.
Forward(runs, t) ==
    /\ \A i \in 1 .. Len(runs) : runs[i].start < runs[i].stop /\ runs[i].stop <= t
    /\ \A i \in 2 .. Len(runs) : runs[i - 1].stop <= runs[i].stop

Ordered(runs) ==
    \A i, j \in 1 .. Len(runs) : i < j /\ j >= 3 => runs[i].stop < runs[j].start

\* No run ends after a later one.
LastEnds(runs) ==
    \A i, j \in 1 .. Len(runs) : i <= j => runs[i].stop <= runs[j].stop

ActInv ==
    /\ ActTypeOK
    /\ \A c \in CPUs :
           /\ Forward(activity[c], now)
           /\ LastEnds(activity[c])
           /\ Ordered(activity[c])

\* The start given to a run is a number, and behind the last of two or more
\* runs (trace_conv.py:507-510).
LEMMA FixedStartBehind ==
    ASSUME NEW runs \in Seq(ThreadRunInfo), NEW ts \in Nat, NEW runtime \in Nat
    PROVE  /\ FixedStart(runs, ts, runtime) \in Int
           /\ Len(runs) >= 2 => LastOf(runs).stop < FixedStart(runs, ts, runtime)
<1>1. CASE Len(runs) > 1
    <2>1. LastOf(runs) \in ThreadRunInfo BY <1>1 DEF LastOf
    <2>2. LastOf(runs).stop \in Int BY <2>1 DEF ThreadRunInfo
    <2> QED BY <1>1, <2>2 DEF FixedStart
<1>2. CASE ~(Len(runs) > 1) BY <1>2 DEF FixedStart
<1> QED BY <1>1, <1>2

\* Appending a run that begins behind the last one, if there were two, and
\* ends at the time of its event keeps what is known of one CPU.
LEMMA AppendRun ==
    ASSUME NEW runs \in Seq(ThreadRunInfo), NEW t \in Nat, NEW ts \in Nat, t <= ts,
           NEW r \in ThreadRunInfo, r.stop = ts, r.start < ts,
           Len(runs) >= 2 => LastOf(runs).stop < r.start,
           Forward(runs, t), LastEnds(runs), Ordered(runs)
    PROVE  /\ Append(runs, r) \in Seq(ThreadRunInfo)
           /\ Forward(Append(runs, r), ts)
           /\ LastEnds(Append(runs, r))
           /\ Ordered(Append(runs, r))
<1> DEFINE n == Len(runs)
           new == Append(runs, r)
<1>1. new \in Seq(ThreadRunInfo) /\ Len(new) = n + 1 /\ n \in Nat OBVIOUS
<1>2. new[n + 1] = r /\ \A i \in 1 .. n : new[i] = runs[i] OBVIOUS
<1>3. \A i \in 1 .. n : runs[i] \in ThreadRunInfo OBVIOUS
<1>4. \A i \in 1 .. n : runs[i].start \in Int /\ runs[i].stop \in Int
    BY <1>3 DEF ThreadRunInfo
<1>5. r.start \in Int /\ r.stop \in Int BY DEF ThreadRunInfo
<1>6. \A i \in 1 .. n : runs[i].stop <= t BY DEF Forward
<1>7. Forward(new, ts)
    <2>1. ASSUME NEW i \in 1 .. n + 1
          PROVE  new[i].start < new[i].stop /\ new[i].stop <= ts
        BY <1>1, <1>2, <1>4, <1>5 DEF Forward
    <2>2. ASSUME NEW i \in 2 .. n + 1
          PROVE  new[i - 1].stop <= new[i].stop
        <3>1. CASE i = n + 1 BY <3>1, <1>1, <1>2, <1>4, <1>6
        <3>2. CASE i # n + 1
            <4>1. i \in 2 .. n /\ i - 1 \in 1 .. n BY <3>2, <1>1
            <4> QED BY <4>1, <1>2 DEF Forward
        <3> QED BY <3>1, <3>2
    <2> QED BY <1>1, <2>1, <2>2 DEF Forward
<1>8. LastEnds(new)
    <2>1. LastOf(new) = r BY <1>1, <1>2 DEF LastOf
    <2>2. ASSUME NEW i \in 1 .. n + 1 PROVE new[i].stop <= ts
        BY <1>1, <1>2, <1>4, <1>6
    <2> QED BY <1>1, <2>1, <2>2 DEF LastEnds
<1>9. Ordered(new)
    <2> SUFFICES ASSUME NEW i \in 1 .. n + 1, NEW j \in 1 .. n + 1, i < j, j >= 3
                 PROVE  new[i].stop < new[j].start
        BY <1>1 DEF Ordered
    <2>1. CASE j = n + 1
        <3>1. n >= 2 /\ i \in 1 .. n BY <2>1, <1>1
        <3>2. runs[i].stop <= LastOf(runs).stop BY <3>1, <1>1 DEF LastEnds, LastOf
        <3>3. LastOf(runs).stop \in Int BY <3>1, <1>4 DEF LastOf
        <3>4. runs[i].stop < r.start BY <3>1, <3>2, <3>3, <1>4, <1>5
        <3> QED BY <2>1, <3>1, <3>4, <1>2
    <2>2. CASE j # n + 1
        <3>1. i \in 1 .. n /\ j \in 1 .. n BY <2>2, <1>1
        <3>2. runs[i].stop < runs[j].start BY <3>1 DEF Ordered
        <3> QED BY <3>1, <3>2, <1>2
    <2> QED BY <2>1, <2>2
<1> QED BY <1>1, <1>7, <1>8, <1>9

\* The invariant holds at the start.
LEMMA ActInvInit == ActInit => ActInv
<1> SUFFICES ASSUME ActInit PROVE ActInv OBVIOUS
<1>1. ActTypeOK BY Cpu0Assumption DEF ActInit, ActTypeOK
<1>2. \A c \in CPUs : activity[c] = <<>> BY DEF ActInit
<1>3. \A c \in CPUs : Len(activity[c]) = 0 BY <1>2
<1> QED BY <1>1, <1>3 DEF ActInv, Forward, LastEnds, Ordered

\* Every event keeps the invariant.
LEMMA ActInvStep == ActInv /\ [ActNext]_actVars => ActInv'
<1> SUFFICES ASSUME ActInv, [ActNext]_actVars PROVE ActInv' OBVIOUS
<1> USE DEF ActInv
<1>1. ASSUME NEW t \in Threads, Fork(t) PROVE ActInv'
    <2>1. ActTypeOK' BY <1>1, Cpu0Assumption DEF Fork, ActTypeOK
    <2> QED BY <1>1, <2>1 DEF Fork
<1>2. ASSUME NEW t \in Threads, NEW c \in CPUs, Wakeup(t, c) PROVE ActInv'
    <2>1. ActTypeOK' BY <1>2 DEF Wakeup, ActTypeOK
    <2> QED BY <1>2, <2>1 DEF Wakeup
<1>3. ASSUME NEW t \in Threads, NEW ts \in Nat, NEW runtime \in Nat,
             StatRuntime(t, ts, runtime)
      PROVE  ActInv'
    <2> DEFINE k == last_cpu[t]
               start == FixedStart(activity[k], ts, runtime)
               r == [thread |-> t, start |-> start, stop |-> ts]
    <2>1. k \in CPUs /\ activity[k] \in Seq(ThreadRunInfo) BY DEF ActTypeOK
    <2>2. now \in Nat /\ now <= ts /\ now' = ts /\ last_cpu' = last_cpu
        BY <1>3 DEF StatRuntime, ActTypeOK
    <2>3. start \in Int /\ (Len(activity[k]) >= 2 => LastOf(activity[k]).stop < start)
        BY <2>1, FixedStartBehind
    <2>4. ASSUME NEW c \in CPUs
          PROVE  Forward(activity[c], ts)
        <3>1. Forward(activity[c], now) /\ activity[c] \in Seq(ThreadRunInfo)
            BY DEF ActTypeOK
        <3>2. \A i \in 1 .. Len(activity[c]) : activity[c][i] \in ThreadRunInfo
            BY <3>1
        <3>3. \A i \in 1 .. Len(activity[c]) : activity[c][i].stop \in Int
            BY <3>2 DEF ThreadRunInfo
        <3> QED BY <3>1, <3>3, <2>2 DEF Forward
    <2>5. CASE start >= ts
        <3>1. activity' = activity BY <1>3, <2>5 DEF StatRuntime
        <3>2. ActTypeOK' BY <2>2, <3>1 DEF ActTypeOK
        <3> QED BY <2>2, <2>4, <3>1, <3>2
    <2>6. CASE ~(start >= ts)
        <3>1. activity' = [activity EXCEPT ![k] = Append(@, r)]
            BY <1>3, <2>6 DEF StatRuntime
        <3>2. r \in ThreadRunInfo /\ r.stop = ts /\ r.start < ts /\ r.start = start
            BY <2>2, <2>3, <2>6 DEF ThreadRunInfo
        <3>3. /\ Append(activity[k], r) \in Seq(ThreadRunInfo)
              /\ Forward(Append(activity[k], r), ts)
              /\ LastEnds(Append(activity[k], r))
              /\ Ordered(Append(activity[k], r))
            BY <2>1, <2>2, <2>3, <3>2, AppendRun
        <3>4. activity \in [CPUs -> Seq(ThreadRunInfo)] BY DEF ActTypeOK
        <3>5. activity'[k] = Append(activity[k], r)
              /\ \A c \in CPUs : c # k => activity'[c] = activity[c]
            BY <2>1, <3>1, <3>4
        <3>6. activity' \in [CPUs -> Seq(ThreadRunInfo)]
            BY <3>1, <3>3, <3>4
        <3>7. ActTypeOK' BY <2>2, <3>6 DEF ActTypeOK
        <3>8. ASSUME NEW c \in CPUs
              PROVE  /\ Forward(activity'[c], ts)
                     /\ LastEnds(activity'[c])
                     /\ Ordered(activity'[c])
            BY <3>3, <3>5, <2>4
        <3> QED BY <2>2, <3>7, <3>8
    <2> QED BY <2>5, <2>6
<1>4. CASE UNCHANGED actVars BY <1>4 DEF actVars, ActTypeOK
<1> QED BY <1>1, <1>2, <1>3, <1>4 DEF ActNext

\* From the third run on, a CPU never ran two threads at a time: the repair of
\* overlapping runs (trace_conv.py:499-519) works whatever the run times.
THEOREM RunsDisjoint == ActSpec => []ActivityOrdered
<1>1. ActInv => ActivityOrdered BY DEF ActInv, Ordered, ActivityOrdered
<1> QED BY <1>1, ActInvInit, ActInvStep, PTL DEF ActSpec

\* No recorded run is empty, and runs are recorded in the order they end.
THEOREM RunsForward == ActSpec => []ActivityForward
<1>1. ActInv => ActivityForward BY DEF ActInv, Forward, ActivityForward
<1> QED BY <1>1, ActInvInit, ActInvStep, PTL DEF ActSpec

-----------------------------------------------------------------------------
(* The lines written for a CPU.                                            *)

\* Measurements begin one after the other.
Started ==
    /\ starts \in Seq(0 .. MaxTime)
    /\ N >= 2
    /\ \A i, j \in 1 .. N : i < j => starts[i] < starts[j]

\* What the numbers involved are.
LEMMA StartNumbers ==
  ASSUME Started
  PROVE  /\ N \in Nat
         /\ \A i \in 1 .. N : starts[i] \in 0 .. MaxTime
         /\ \A i \in 1 .. N : starts[i] \in Nat /\ StopOf(i) \in Int /\ starts[i] <= StopOf(i)
         /\ \A i \in 1 .. N - 1 : i + 1 \in 1 .. N /\ StopOf(i) = starts[i + 1] - 1
         /\ starts[N] <= StopOf(N)
<1>2. MaxTime \in Nat /\ TailInterval \in Nat \ {0}
  BY AccountingAssumption
<1>1. N \in Nat /\ \A i \in 1 .. N : starts[i] \in 0 .. MaxTime
  <2>. DEFINE T == 0 .. MaxTime
  <2>. HIDE DEF T
  <2>1. starts \in Seq(T)
    BY DEF Started, T
  <2>2. Len(starts) \in Nat /\ \A i \in 1 .. Len(starts) : starts[i] \in T
    BY <2>1
  <2>. QED
    BY <2>2 DEF T, N
<1>3. \A i \in 1 .. N : starts[i] \in Nat
  BY <1>1, <1>2
<1>4. \A i \in 1 .. N - 1 : i + 1 \in 1 .. N /\ i < i + 1 /\ i \in 1 .. N /\ i < N
  BY <1>1
<1>5. \A i \in 1 .. N - 1 : StopOf(i) = starts[i + 1] - 1 /\ starts[i] < starts[i + 1]
  BY <1>4 DEF StopOf, Started
<1>6. N \in 1 .. N /\ StopOf(N) = starts[N] + TailInterval - 1
  BY <1>1 DEF StopOf, Started
<1>7. \A i \in 1 .. N : i = N \/ i \in 1 .. N - 1
  BY <1>1
<1>8. \A i \in 1 .. N : StopOf(i) \in Int /\ starts[i] <= StopOf(i)
  <2>1. TAKE i \in 1 .. N
  <2>2. CASE i = N
    BY <1>2, <1>3, <1>6, <2>2
  <2>3. CASE i \in 1 .. N - 1
    <3>1. starts[i] \in Nat /\ starts[i + 1] \in Nat
      BY <1>3, <1>4, <2>3
    <3>. QED
      BY <1>5, <2>3, <3>1
  <2>. QED
    BY <1>7, <2>2, <2>3
<1>. QED
  BY <1>1, <1>3, <1>4, <1>5, <1>6, <1>8

\* The runs of a CPU do not overlap if the first two do not.
LEMMA RunsApart ==
  ASSUME ActInv, NEW c \in CPUs, Disjoint(c),
         NEW i \in 1 .. Len(activity[c]), NEW j \in 1 .. Len(activity[c]), i < j
  PROVE  activity[c][i].stop < activity[c][j].start
<1>1. activity[c] \in Seq(ThreadRunInfo) /\ Ordered(activity[c])
  BY DEF ActInv, ActTypeOK
<1>2. CASE j >= 3
  BY <1>1, <1>2 DEF Ordered
<1>3. CASE ~(j >= 3)
  <2>1. i = 1 /\ j = 2 /\ Len(activity[c]) >= 2
    BY <1>1, <1>3
  <2>. QED
    BY <2>1 DEF Disjoint
<1>. QED
  BY <1>2, <1>3

\* The lines of a CPU lie within the measurements and end in order; they are
\* apart if the runs are (trace_conv.py:787-801).
LEMMA LinesWritten ==
  ASSUME ActInv, Started, NEW c \in CPUs
  PROVE  /\ Clipped(c) \in Seq(Line)
         /\ \A k \in 1 .. Len(Clipped(c)) :
                /\ starts[1] <= Clipped(c)[k].start
                /\ Clipped(c)[k].start <= Clipped(c)[k].stop
                /\ Clipped(c)[k].stop <= starts[N]
         /\ \A k, m \in 1 .. Len(Clipped(c)) :
                k < m => /\ Clipped(c)[k].stop <= Clipped(c)[m].stop
                         /\ Disjoint(c) => Clipped(c)[k].stop < Clipped(c)[m].start
<1>. DEFINE runs == activity[c]
            kept == Ascending(Written(c))
            first == starts[1]
            last == starts[N]
            start(k) == Max({runs[kept[k]].start, first})
            stop(k) == Min({runs[kept[k]].stop, last})
<1>1. /\ runs \in Seq(ThreadRunInfo) /\ Len(runs) \in Nat
      /\ Forward(runs, now) /\ LastEnds(runs)
  BY DEF ActInv, ActTypeOK
<1>2. \A i \in 1 .. Len(runs) : runs[i].start \in Int /\ runs[i].stop \in Int
  <2>1. \A i \in 1 .. Len(runs) : runs[i] \in ThreadRunInfo
    BY <1>1
  <2>. QED
    BY <2>1 DEF ThreadRunInfo
<1>3. first \in 0 .. MaxTime /\ last \in 0 .. MaxTime /\ first <= last /\ MaxTime \in Nat
  <2>1. N \in Nat /\ 1 \in 1 .. N /\ N \in 1 .. N /\ 1 < N
    BY StartNumbers DEF Started
  <2>2. first \in 0 .. MaxTime /\ last \in 0 .. MaxTime /\ first < last
    BY <2>1, StartNumbers DEF Started
  <2>3. first \in Nat /\ last \in Nat
    BY <2>1, StartNumbers
  <2>. QED
    BY <2>2, <2>3, AccountingAssumption
<1>4. /\ Written(c) \subseteq Nat /\ IsFiniteSet(Written(c))
      /\ Written(c) \subseteq 1 .. Len(runs)
  <2>1. Written(c) \subseteq 1 .. Len(runs)
    BY DEF Written
  <2>2. IsFiniteSet(1 .. Len(runs))
    BY <1>1, FS_Interval
  <2>. QED
    BY <1>1, <2>1, <2>2, FS_Subset
<1>5. /\ kept \in Seq(Nat)
      /\ \A k, m \in 1 .. Len(kept) : k < m => kept[k] < kept[m]
      /\ \A k \in 1 .. Len(kept) : kept[k] \in Written(c)
  BY <1>4, AscendingLists, SMTT(30)
<1>6. \A k \in 1 .. Len(kept) :
          /\ kept[k] \in 1 .. Len(runs)
          /\ runs[kept[k]].stop >= first
          /\ runs[kept[k]].start <= last
          /\ runs[kept[k]].start < runs[kept[k]].stop
  <2>1. TAKE k \in 1 .. Len(kept)
  <2>2. kept[k] \in Written(c) /\ kept[k] \in 1 .. Len(runs)
    BY <1>4, <1>5
  <2>3. kept[k] \in 1 .. kept[k]
    BY <1>1, <2>2
  <2>. QED
    BY <1>1, <2>2, <2>3 DEF Written, Forward
<1>. HIDE DEF kept, runs, first, last
<1>7. \A k \in 1 .. Len(kept) :
          /\ start(k) = IF runs[kept[k]].start >= first THEN runs[kept[k]].start ELSE first
          /\ stop(k) = IF runs[kept[k]].stop <= last THEN runs[kept[k]].stop ELSE last
  <2>1. TAKE k \in 1 .. Len(kept)
  <2>2. /\ runs[kept[k]].start \in Int /\ runs[kept[k]].stop \in Int
        /\ first \in Int /\ last \in Int
    BY <1>2, <1>3, <1>6
  <2>. QED
    BY <2>2, MinMaxOfTwo
<1>. HIDE DEF start, stop
<1>8. \A k \in 1 .. Len(kept) :
          start(k) \in Int /\ stop(k) \in Int
          /\ first <= start(k) /\ start(k) <= stop(k) /\ stop(k) <= last
  <2>1. TAKE k \in 1 .. Len(kept)
  <2>2. /\ runs[kept[k]].start \in Int /\ runs[kept[k]].stop \in Int
        /\ first \in Int /\ last \in Int
    BY <1>2, <1>3, <1>6
  <2>. QED
    BY <1>3, <1>6, <1>7, <2>2
<1>9. \A k, m \in 1 .. Len(kept) : k < m => stop(k) <= stop(m)
  <2>1. SUFFICES ASSUME NEW k \in 1 .. Len(kept), NEW m \in 1 .. Len(kept), k < m
                 PROVE  stop(k) <= stop(m)
    OBVIOUS
  <2>2. runs[kept[k]].stop <= runs[kept[m]].stop
    BY <1>1, <1>5, <1>6, <2>1, SMTT(30) DEF LastEnds
  <2>3. /\ runs[kept[k]].stop \in Int /\ runs[kept[m]].stop \in Int
        /\ runs[kept[m]].start \in Int /\ first \in Int /\ last \in Int
    BY <1>2, <1>3, <1>6, SMTT(30)
  <2>. QED
    BY <1>7, <2>2, <2>3
<1>10. ASSUME Disjoint(c)
       PROVE  \A k, m \in 1 .. Len(kept) : k < m => stop(k) < start(m)
  <2>1. SUFFICES ASSUME NEW k \in 1 .. Len(kept), NEW m \in 1 .. Len(kept), k < m
                 PROVE  stop(k) < start(m)
    OBVIOUS
  <2>2. runs[kept[k]].stop < runs[kept[m]].start
    BY <1>5, <1>6, <1>10, <2>1, RunsApart DEF runs
  <2>3. /\ runs[kept[k]].stop \in Int /\ runs[kept[m]].stop \in Int
        /\ runs[kept[m]].start \in Int /\ first \in Int /\ last \in Int
    BY <1>2, <1>3, <1>6
  <2>. QED
    BY <1>7, <2>2, <2>3, SMTT(30)
<1>11. Clipped(c) = [k \in 1 .. Len(kept) |-> [start |-> start(k), stop |-> stop(k)]]
  BY <1>5 DEF Clipped, kept, runs, first, last, start, stop
<1>12. \A k \in 1 .. Len(kept) : start(k) \in 0 .. MaxTime /\ stop(k) \in 0 .. MaxTime
  BY <1>3, <1>8
<1>13. Clipped(c) \in Seq(Line) /\ Len(Clipped(c)) = Len(kept)
       /\ \A k \in 1 .. Len(kept) : Clipped(c)[k].start = start(k) /\ Clipped(c)[k].stop = stop(k)
  BY <1>5, <1>11, <1>12 DEF Line
<1>. QED
  BY <1>8, <1>9, <1>10, <1>13 DEF first, last

-----------------------------------------------------------------------------
(* One line of a file (add_cpu_activity), searched from after interval f.  *)

PastOf(f, l) == {i \in f + 1 .. N : starts[i] > l.stop}
EndOf(f, l) == IF PastOf(f, l) = {} THEN N ELSE Min(PastOf(f, l))
HitBy(f, l) ==
    {i \in f + 1 .. EndOf(f, l) : ~(starts[i] > l.stop) /\ StopOf(i) >= l.start}
NsOf(l, i) == Min({l.stop, StopOf(i)}) - Max({l.start, starts[i]}) + 1

\* What a line covers of an interval.
Overlap(l, i) == {x \in starts[i] .. StopOf(i) : l.start <= x /\ x <= l.stop}

\* Stepping back from the second interval or a later one.
LEMMA StepsBack ==
  ASSUME NEW e \in Nat, e >= 2
  PROVE  StepBack(e) = e - 2
<1>1. 0 \in Int /\ e - 2 \in Int /\ e - 2 >= 0
  OBVIOUS
<1>. DEFINE d == e - 2
            z == 0
<1>2. Max({z, d}) = IF z >= d THEN z ELSE d
  <2>1. z \in Int /\ d \in Int
    BY <1>1
  <2>. HIDE DEF d, z
  <2>. QED
    BY <2>1, MinMaxOfTwo
<1>. QED
  BY <1>1, <1>2 DEF StepBack

\* The search for a line ends at an interval of the run, finds the one in
\* which the line ends, and stepping back by two leaves the interval before
\* the last as the next one searched, which begins before the line ends
\* (evaluate_data.py:148-179).
LEMMA SearchEnds ==
  ASSUME Started, NEW f \in 0 .. N - 1, NEW l \in Line, l.start <= l.stop,
         starts[f + 1] <= l.stop, l.stop <= starts[N]
  PROVE  /\ EndOf(f, l) \in 2 .. N
         /\ f + 1 <= EndOf(f, l)
         /\ \A i \in 1 .. N : i > EndOf(f, l) => starts[i] > l.stop
         /\ StepBack(EndOf(f, l)) = EndOf(f, l) - 2
         /\ starts[EndOf(f, l) - 1] <= l.stop
         /\ \E i \in HitBy(f, l) : l.stop <= StopOf(i)
<1>. DEFINE e == EndOf(f, l)
            P == PastOf(f, l)
<1>1. l.start \in Nat /\ l.stop \in Nat
  BY AccountingAssumption DEF Line
<1>2. /\ N \in Nat /\ N >= 2 /\ f + 1 \in 1 .. N /\ f \in Nat
      /\ \A i \in 1 .. N : starts[i] \in Nat /\ StopOf(i) \in Int /\ starts[i] <= StopOf(i)
      /\ \A i \in 1 .. N - 1 : i + 1 \in 1 .. N /\ StopOf(i) = starts[i + 1] - 1
      /\ \A i, j \in 1 .. N : i < j => starts[i] < starts[j]
  BY StartNumbers DEF Started
<1>3. CASE P = {}
  <2>1. e = N
    BY <1>3 DEF EndOf
  <2>2. N \in f + 1 .. N /\ N - 1 \in 1 .. N
    BY <1>2
  <2>3. ~(starts[N] > l.stop)
    BY <1>3, <2>2 DEF PastOf
  <2>4. starts[N] = l.stop /\ starts[N - 1] <= l.stop
    BY <1>1, <1>2, <2>2, <2>3
  <2>5. N \in 1 .. N /\ StopOf(N) >= l.start /\ l.stop <= StopOf(N)
    BY <1>1, <1>2, <2>4
  <2>6. N \in HitBy(f, l)
    BY <2>1, <2>2, <2>3, <2>5 DEF HitBy
  <2>7. StepBack(N) = N - 2
    BY <1>2, StepsBack
  <2>. QED
    BY <1>2, <2>1, <2>4, <2>5, <2>6, <2>7
<1>4. CASE P # {}
  <2>1. P \subseteq Nat /\ P \subseteq f + 1 .. N
    BY <1>2 DEF PastOf
  <2>2. e \in P /\ \A i \in P : e <= i
    BY <1>4, <2>1, MinIs DEF EndOf
  <2>3. e \in f + 1 .. N /\ starts[e] > l.stop
    BY <2>2 DEF PastOf
  <2>4. e # f + 1
    BY <1>1, <1>2, <2>3
  <2>5. e \in Nat /\ e >= f + 2 /\ e \in 2 .. N /\ e - 1 \in f + 1 .. N
        /\ e - 1 \in 1 .. N - 1 /\ e - 1 \in 1 .. N /\ e - 1 \in f + 1 .. e
    BY <1>2, <2>3, <2>4
  <2>6. e - 1 \notin P
    BY <2>2, <2>5
  <2>7. ~(starts[e - 1] > l.stop)
    BY <2>5, <2>6 DEF PastOf
  <2>8. StopOf(e - 1) = starts[e] - 1
    BY <1>2, <2>5
  <2>9. starts[e] \in Nat /\ starts[e - 1] \in Nat
    BY <1>2, <2>5
  <2>10. l.stop <= StopOf(e - 1) /\ StopOf(e - 1) >= l.start /\ starts[e - 1] <= l.stop
    BY <1>1, <2>3, <2>7, <2>8, <2>9
  <2>11. e - 1 \in HitBy(f, l)
    BY <2>5, <2>7, <2>10 DEF HitBy
  <2>12. StepBack(e) = e - 2
    BY <2>5, StepsBack
  <2>13. \A i \in 1 .. N : i > e => starts[i] > l.stop
    <3>1. TAKE i \in 1 .. N
    <3>2. i > e => starts[e] < starts[i]
      BY <1>2, <2>5
    <3>. QED
      BY <1>1, <1>2, <2>3, <2>9, <3>2
  <2>. QED
    BY <2>5, <2>10, <2>11, <2>12, <2>13
<1>. QED
  BY <1>3, <1>4

\* What is added to an interval is a number; and it is what the line covers of
\* the interval, if the search began before the line did.
LEMMA LineAdds ==
  ASSUME Started, NEW f \in 0 .. N - 1, NEW l \in Line, l.start <= l.stop,
         starts[f + 1] <= l.stop, l.stop <= starts[N], NEW i \in 1 .. N
  PROVE  /\ i \in HitBy(f, l) => NsOf(l, i) \in Nat
         /\ starts[f + 1] <= l.start =>
                /\ IsFiniteSet(Overlap(l, i))
                /\ Cardinality(Overlap(l, i)) = IF i \in HitBy(f, l) THEN NsOf(l, i) ELSE 0
<1>. DEFINE e == EndOf(f, l)
            a == Max({l.start, starts[i]})
            b == Min({l.stop, StopOf(i)})
<1>1. l.start \in Nat /\ l.stop \in Nat
  BY AccountingAssumption DEF Line
<1>2. /\ N \in Nat /\ N >= 2 /\ f + 1 \in 1 .. N /\ f \in Nat /\ i \in Nat
      /\ \A j \in 1 .. N : starts[j] \in Nat /\ StopOf(j) \in Int /\ starts[j] <= StopOf(j)
      /\ \A j \in 1 .. N - 1 : j + 1 \in 1 .. N /\ StopOf(j) = starts[j + 1] - 1
      /\ \A j, k \in 1 .. N : j < k => starts[j] < starts[k]
  BY StartNumbers, SMTT(30) DEF Started
<1>3. starts[i] \in Nat /\ StopOf(i) \in Int /\ starts[i] <= StopOf(i)
  BY <1>2
<1>4. /\ a = IF l.start >= starts[i] THEN l.start ELSE starts[i]
      /\ b = IF l.stop <= StopOf(i) THEN l.stop ELSE StopOf(i)
  <2>1. l.start \in Int /\ l.stop \in Int /\ starts[i] \in Int /\ StopOf(i) \in Int
    BY <1>1, <1>3
  <2>. QED
    BY <2>1, MinMaxOfTwo
<1>5. NsOf(l, i) = b - a + 1
  BY DEF NsOf
<1>6. /\ e \in 2 .. N /\ f + 1 <= e
      /\ i > e => starts[i] > l.stop
  BY SearchEnds
<1>. HIDE DEF a, b, e
<1>7. CASE i \in HitBy(f, l)
  <2>1. starts[i] <= l.stop /\ StopOf(i) >= l.start
    BY <1>1, <1>3, <1>7 DEF HitBy
  <2>2. a \in Int /\ b \in Int /\ a <= b
    BY <1>1, <1>3, <1>4, <2>1
  <2>3. Overlap(l, i) = a .. b
    <3>1. \A x : x \in Overlap(l, i) <=>
                     x \in Int /\ starts[i] <= x /\ x <= StopOf(i) /\ l.start <= x /\ x <= l.stop
      BY <1>3 DEF Overlap
    <3>2. \A x : x \in a .. b <=> x \in Int /\ a <= x /\ x <= b
      BY <2>2
    <3>3. \A x \in Int : (starts[i] <= x /\ x <= StopOf(i) /\ l.start <= x /\ x <= l.stop)
                             <=> (a <= x /\ x <= b)
      BY <1>1, <1>3, <1>4
    <3>. QED
      BY <3>1, <3>2, <3>3
  <2>4. IsFiniteSet(a .. b) /\ Cardinality(a .. b) = b - a + 1
    <3>1. a \in Int /\ b \in Int /\ ~(a > b)
      BY <2>2
    <3>2. IsFiniteSet(a .. b) /\ Cardinality(a .. b) = IF a > b THEN 0 ELSE b - a + 1
      BY <3>1, FS_Interval
    <3>. QED
      BY <3>1, <3>2
  <2>. QED
    BY <1>5, <1>7, <2>2, <2>3, <2>4
<1>8. CASE i \notin HitBy(f, l)
  <2>1. SUFFICES ASSUME starts[f + 1] <= l.start PROVE Overlap(l, i) = {}
    BY <1>8, FS_EmptySet
  <2>2. SUFFICES ASSUME NEW x \in Overlap(l, i) PROVE FALSE
    OBVIOUS
  <2>3. x \in Int /\ starts[i] <= x /\ x <= StopOf(i) /\ l.start <= x /\ x <= l.stop
    BY <1>3 DEF Overlap
  <2>4. CASE i <= f
    <3>1. i \in 1 .. N - 1 /\ i + 1 \in 1 .. N /\ StopOf(i) = starts[i + 1] - 1
      BY <1>2, <2>4
    <3>2. starts[i + 1] <= starts[f + 1]
      BY <1>2, <2>4, <3>1
    <3>3. starts[i + 1] \in Nat /\ starts[f + 1] \in Nat
      BY <1>2, <3>1
    <3>. QED
      BY <1>1, <2>1, <2>3, <3>1, <3>2, <3>3
  <2>5. CASE i > e
    BY <1>1, <1>3, <1>6, <2>3, <2>5
  <2>6. CASE i \in f + 1 .. e
    <3>1. starts[i] > l.stop \/ ~(StopOf(i) >= l.start)
      BY <1>8, <2>6 DEF HitBy, e
    <3>. QED
      BY <1>1, <1>3, <2>3, <3>1
  <2>. QED
    BY <1>2, <1>6, <2>4, <2>5, <2>6
<1>. QED
  BY <1>7, <1>8

-----------------------------------------------------------------------------
(* The invariant.                                                          *)

\* The lines of the open file that have been read.
Done == Len(Clipped(file)) - Len(pending)

\* The lines pending are the last ones of the open file.
Position ==
    IF file \in files THEN pending = <<>>
    ELSE /\ Done >= 0
         /\ \A m \in 1 .. Len(pending) : pending[m] = Clipped(file)[Done + m]

\* The next interval searched begins before each line that is still to read
\* ends; and before it starts, if the lines are apart.
IndexInv ==
    /\ FirstIndex \in 0 .. N - 1
    /\ index_cpu \in files => last_index = 0
    /\ \A m \in 1 .. Len(pending) :
           /\ starts[FirstIndex + 1] <= pending[m].stop
           /\ Disjoint(file) => starts[FirstIndex + 1] <= pending[m].start

\* What of interval i the first d lines of a CPU cover.
CoveredTo(c, i, d) ==
    {x \in starts[i] .. StopOf(i) :
        \E k \in 1 .. d : Clipped(c)[k].start <= x /\ x <= Clipped(c)[k].stop}

\* The lines of a CPU that have been read.
DoneOf(c) == IF c = file THEN Done ELSE Len(Clipped(c))

\* The time accounted so far is what the lines read cover.
Accounted ==
    \A c \in CPUs : \A i \in 1 .. N :
        /\ c \in files => running[c][i] = 0
        /\ c \notin files /\ Disjoint(c) =>
               running[c][i] = Cardinality(CoveredTo(c, i, DoneOf(c)))

AInv ==
    /\ ActInv
    /\ Started
    /\ TypeOK
    /\ ~failed
    /\ Position
    /\ IndexInv
    /\ Accounted

-----------------------------------------------------------------------------
(* The invariant holds at the start, and every step keeps it.              *)

\* The initial measurements begin one after the other.
LEMMA InitStarted == Init => Started
<1> SUFFICES ASSUME Init PROVE Started OBVIOUS
<1>. DEFINE T == 0 .. MaxTime
<1>1. PICK S \in SUBSET T : Cardinality(S) >= 2 /\ starts = Ascending(S)
  BY DEF Init
<1>2. MaxTime \in Nat /\ T \subseteq Nat /\ IsFiniteSet(T)
  <2>1. MaxTime \in Nat
    BY AccountingAssumption
  <2>. QED
    BY <2>1, FS_Interval
<1>3. S \subseteq Nat /\ IsFiniteSet(S)
  BY <1>1, <1>2, FS_Subset
<1>. HIDE DEF T
<1>4. /\ starts \in Seq(T)
      /\ Len(starts) = Cardinality(S)
      /\ \A i, j \in 1 .. Len(starts) : i < j => starts[i] < starts[j]
  BY <1>1, <1>3, AscendingLists
<1>. QED
  BY <1>1, <1>4 DEF Started, N, T

\* The invariant holds at the start.
LEMMA AInvInit == Init => AInv
<1> SUFFICES ASSUME Init PROVE AInv OBVIOUS
<1>1. Started
  BY InitStarted
<1>2. ActInv
  BY ActInvInit DEF Init
<1>3. /\ events = 0 /\ files = CPUs /\ file = Cpu0 /\ pending = <<>> /\ index_cpu = Cpu0
      /\ last_index = 0 /\ running = [c \in CPUs |-> [i \in 1 .. N |-> 0]] /\ ~failed
      /\ failed \in BOOLEAN
  BY DEF Init
<1>4. N \in Nat /\ N >= 2 /\ MaxEvents \in Nat
  BY <1>1, StartNumbers, AccountingAssumption DEF Started
<1>5. TypeOK
  <2>1. running \in [CPUs -> [1 .. N -> Nat]]
    BY <1>3
  <2>2. pending \in Seq(Line)
    BY <1>3
  <2>. QED
    BY <1>1, <1>2, <1>3, <1>4, <2>1, <2>2, Cpu0Assumption DEF TypeOK, Started, ActInv
<1>6. Position
  BY <1>3, Cpu0Assumption DEF Position
<1>7. IndexInv
  BY <1>3, <1>4 DEF IndexInv, FirstIndex
<1>8. Accounted
  BY <1>3 DEF Accounted
<1>. QED
  BY <1>1, <1>2, <1>3, <1>5, <1>6, <1>7, <1>8 DEF AInv

\* An event that is recorded is one the trace reader handles.
LEMMA RecordIsActivity == RecordSwitch \/ RecordRuntime => ActNext
<1>1. ASSUME RecordSwitch PROVE ActNext
  BY <1>1 DEF RecordSwitch, ActNext
<1>2. ASSUME RecordRuntime PROVE ActNext
  <2>1. PICK t \in Threads, ts \in 1 .. MaxTime + 1, runtime \in 1 .. MaxTime :
            StatRuntime(t, ts, runtime)
    BY <1>2 DEF RecordRuntime
  <2>2. ts \in Nat /\ runtime \in Nat
    BY AccountingAssumption
  <2>. QED
    BY <2>1, <2>2 DEF ActNext
<1>. QED
  BY <1>1, <1>2

\* An event of the trace, before any file is read.
LEMMA RecordKeeps == AInv /\ (RecordSwitch \/ RecordRuntime) => AInv'
<1> SUFFICES ASSUME AInv, RecordSwitch \/ RecordRuntime PROVE AInv' OBVIOUS
<1>1. /\ files = CPUs /\ UNCHANGED <<starts, files, file, pending, index_cpu, last_index, running, failed>>
      /\ events' \in 0 .. MaxEvents
      /\ N' = N
  <2>1. MaxEvents \in Nat /\ events \in 0 .. MaxEvents
    BY AccountingAssumption DEF AInv, TypeOK
  <2>2. CASE RecordSwitch
    BY <2>1, <2>2 DEF RecordSwitch, Recording, readVars, N
  <2>3. CASE RecordRuntime
    BY <2>1, <2>3 DEF RecordRuntime, Recording, readVars, N
  <2>. QED
    BY <2>2, <2>3
<1>2. ActNext
  BY RecordIsActivity
<1>3. ActInv'
  BY <1>2, ActInvStep DEF AInv
<1>4. Started'
  BY <1>1 DEF AInv, Started
<1>5. TypeOK'
  BY <1>1, <1>3 DEF AInv, TypeOK, ActInv
<1>6. file \in files /\ pending = <<>>
  BY <1>1 DEF AInv, TypeOK, Position
<1>7. Position'
  BY <1>1, <1>6 DEF Position
<1>8. IndexInv'
  BY <1>1, <1>6 DEF AInv, IndexInv, FirstIndex
<1>9. Accounted'
  BY <1>1 DEF AInv, Accounted
<1>. QED
  BY <1>1, <1>3, <1>4, <1>5, <1>7, <1>8, <1>9 DEF AInv

\* What the reading of files leaves alone.
LEMMA ReadingKeeps ==
  ASSUME AInv, UNCHANGED <<actVars, events, starts>>
  PROVE  /\ ActInv' /\ ActTypeOK' /\ Started' /\ N' = N
         /\ Clipped(file)' = Clipped(file')
         /\ \A c \in CPUs : Clipped(c)' = Clipped(c) /\ (Disjoint(c)' <=> Disjoint(c))
         /\ \A i \in 1 .. N : StopOf(i)' = StopOf(i)
<1>1. N' = N /\ Started' /\ \A i \in 1 .. N : StopOf(i)' = StopOf(i)
  BY DEF AInv, Started, N, StopOf
<1>2. activity' = activity /\ starts' = starts
  BY DEF actVars
<1>3. \A c \in CPUs : Clipped(c)' = Clipped(c)
  BY <1>2 DEF Clipped, Written, N
<1>4. Clipped(file)' = Clipped(file')
  BY <1>2 DEF Clipped, Written, N
<1>5. \A c \in CPUs : Disjoint(c)' <=> Disjoint(c)
  BY <1>2 DEF Disjoint
<1>6. ActInv' /\ ActTypeOK'
  BY ActInvStep DEF AInv, ActInv
<1>. QED
  BY <1>1, <1>3, <1>4, <1>5, <1>6

\* Opening the file of the next CPU.
LEMMA OpenFileKeeps == AInv /\ OpenFile => AInv'
<1> SUFFICES ASSUME AInv, OpenFile PROVE AInv' OBVIOUS
<1>1. /\ files # {} /\ pending = <<>>
      /\ file' = Min(files) /\ files' = files \ {file'}
      /\ pending' = Clipped(file')
      /\ UNCHANGED <<actVars, events, starts, index_cpu, last_index, running, failed>>
  BY DEF OpenFile
<1>2. PICK k \in files : file' = k
  <2>1. files \subseteq Nat
    BY AccountingAssumption DEF AInv, TypeOK
  <2>. QED
    BY <1>1, <2>1, MinIs
<1>3. k \in CPUs
  BY DEF AInv, TypeOK
<1>4. /\ ActInv' /\ ActTypeOK' /\ Started' /\ N' = N
      /\ Clipped(file)' = Clipped(k)
      /\ \A c \in CPUs : Clipped(c)' = Clipped(c) /\ (Disjoint(c)' <=> Disjoint(c))
      /\ \A i \in 1 .. N : StopOf(i)' = StopOf(i)
  BY <1>1, <1>2, ReadingKeeps
<1>5. /\ Clipped(k) \in Seq(Line)
      /\ \A m \in 1 .. Len(Clipped(k)) :
             /\ starts[1] <= Clipped(k)[m].start
             /\ Clipped(k)[m].start <= Clipped(k)[m].stop
  BY <1>3, LinesWritten DEF AInv
<1>6. Len(Clipped(k)) \in Nat
  BY <1>5
<1>7. N \in Nat /\ N >= 2 /\ starts[1] \in Nat
  <2>1. Started
    BY DEF AInv
  <2>. QED
    BY <2>1, StartNumbers DEF Started
<1>8. TypeOK'
  <2>1. Line' = Line /\ (Seq(0 .. MaxTime))' = Seq(0 .. MaxTime)
    BY DEF Line
  <2>. QED
    BY <1>1, <1>2, <1>3, <1>4, <1>5, <2>1 DEF AInv, TypeOK
<1>9. Done' = 0
  BY <1>1, <1>2, <1>4, <1>6 DEF Done
<1>10. Position'
  <2>1. file' \notin files'
    BY <1>1
  <2>2. \A m \in 1 .. Len(pending') : pending'[m] = Clipped(k)[0 + m]
    BY <1>1, <1>2, <1>6
  <2>. QED
    BY <1>4, <1>9, <2>1, <2>2 DEF Position
<1>11. FirstIndex' = 0 /\ (index_cpu \in files => last_index = 0)
  BY <1>1, <1>2 DEF AInv, IndexInv, FirstIndex
<1>12. IndexInv'
  <2>1. \A m \in 1 .. Len(pending') :
            /\ starts[0 + 1] <= pending'[m].stop
            /\ starts[0 + 1] <= pending'[m].start
    <3>1. TAKE m \in 1 .. Len(pending')
    <3>2. m \in 1 .. Len(Clipped(k)) /\ pending'[m] = Clipped(k)[m]
      BY <1>1, <1>2
    <3>3. Clipped(k)[m] \in Line
      BY <1>5, <3>2
    <3>4. Clipped(k)[m].start \in Nat /\ Clipped(k)[m].stop \in Nat
      BY <3>3, AccountingAssumption DEF Line
    <3>. QED
      BY <1>5, <1>7, <3>2, <3>4
  <2>2. index_cpu' \in files' => last_index' = 0
    BY <1>1, <1>11
  <2>3. FirstIndex' \in 0 .. N' - 1
    BY <1>4, <1>7, <1>11
  <2>4. starts' = starts
    BY <1>1
  <2>. QED
    BY <1>11, <2>1, <2>2, <2>3, <2>4 DEF IndexInv
<1>13. Accounted'
  <2>1. SUFFICES ASSUME NEW c \in CPUs, NEW i \in 1 .. N
                 PROVE  /\ c \in files' => running'[c][i] = 0
                        /\ c \notin files' /\ Disjoint(c)' =>
                               running'[c][i] = Cardinality(CoveredTo(c, i, DoneOf(c))')
    BY <1>4 DEF Accounted
  <2>2. c \in files' => running'[c][i] = 0
    BY <1>1 DEF AInv, Accounted
  <2>3. CASE c = k
    <3>1. running'[c][i] = 0
      BY <1>1, <1>2, <2>3 DEF AInv, Accounted
    <3>2. DoneOf(c)' = 0
      BY <1>2, <1>9, <2>3 DEF DoneOf
    <3>3. CoveredTo(c, i, DoneOf(c))' = {}
      BY <3>2 DEF CoveredTo
    <3>4. Cardinality({}) = 0
      BY FS_EmptySet
    <3>. QED
      BY <3>1, <3>3, <3>4
  <2>4. CASE c # k /\ c \notin files' /\ Disjoint(c)'
    <3>1. c \notin files /\ Disjoint(c)
      BY <1>1, <1>2, <1>4, <2>4
    <3>2. running[c][i] = Cardinality(CoveredTo(c, i, DoneOf(c)))
      BY <3>1 DEF AInv, Accounted
    <3>3. DoneOf(c) = Len(Clipped(c))
      <4>1. CASE c = file
        <5>1. Clipped(c) \in Seq(Line) /\ Len(Clipped(c)) \in Nat
          BY LinesWritten DEF AInv
        <5>. QED
          BY <1>1, <4>1, <5>1 DEF DoneOf, Done
      <4>. QED
        BY <4>1 DEF DoneOf
    <3>4. DoneOf(c)' = Len(Clipped(c))
      BY <1>2, <1>4, <2>4 DEF DoneOf
    <3>5. Clipped(c)' = Clipped(c) /\ StopOf(i)' = StopOf(i) /\ starts' = starts
      BY <1>1, <1>4
    <3>6. CoveredTo(c, i, DoneOf(c))' = CoveredTo(c, i, DoneOf(c))
      BY <3>3, <3>4, <3>5 DEF CoveredTo
    <3>. QED
      BY <1>1, <2>2, <3>2, <3>6
  <2>. QED
    BY <2>2, <2>3, <2>4
<1>. QED
  BY <1>1, <1>4, <1>8, <1>10, <1>12, <1>13 DEF AInv

\* What one more line covers is added to what the lines before it cover, and
\* is apart from it if the lines are.
LEMMA OneMoreLine ==
  ASSUME ActInv, Started, NEW c \in CPUs, NEW d \in Nat, d + 1 <= Len(Clipped(c)),
         NEW i \in 1 .. N
  PROVE  /\ IsFiniteSet(CoveredTo(c, i, d))
         /\ CoveredTo(c, i, d + 1) = CoveredTo(c, i, d) \cup Overlap(Clipped(c)[d + 1], i)
         /\ Disjoint(c) => CoveredTo(c, i, d) \cap Overlap(Clipped(c)[d + 1], i) = {}
<1>1. /\ Clipped(c) \in Seq(Line) /\ Len(Clipped(c)) \in Nat
      /\ \A k, m \in 1 .. Len(Clipped(c)) :
             k < m /\ Disjoint(c) => Clipped(c)[k].stop < Clipped(c)[m].start
  BY LinesWritten
<1>2. \A k \in 1 .. Len(Clipped(c)) : Clipped(c)[k].start \in Nat /\ Clipped(c)[k].stop \in Nat
  <2>1. \A k \in 1 .. Len(Clipped(c)) : Clipped(c)[k] \in Line
    BY <1>1
  <2>. QED
    BY <2>1, AccountingAssumption DEF Line
<1>3. starts[i] \in Int /\ StopOf(i) \in Int
  BY StartNumbers
<1>. DEFINE L == Clipped(c)
<1>. HIDE DEF L
<1>4. IsFiniteSet(CoveredTo(c, i, d))
  <2>1. CoveredTo(c, i, d) \subseteq starts[i] .. StopOf(i)
    BY DEF CoveredTo
  <2>2. IsFiniteSet(starts[i] .. StopOf(i))
    BY <1>3, FS_Interval
  <2>. QED
    BY <2>1, <2>2, FS_Subset
<1>5. CoveredTo(c, i, d + 1) = CoveredTo(c, i, d) \cup Overlap(Clipped(c)[d + 1], i)
  <2>1. \A k : k \in 1 .. d + 1 <=> k \in 1 .. d \/ k = d + 1
    OBVIOUS
  <2>. QED
    BY <2>1 DEF CoveredTo, Overlap
<1>6. ASSUME Disjoint(c), NEW x \in CoveredTo(c, i, d), x \in Overlap(Clipped(c)[d + 1], i)
      PROVE  FALSE
  <2>1. PICK k \in 1 .. d : Clipped(c)[k].start <= x /\ x <= Clipped(c)[k].stop
    BY <1>6 DEF CoveredTo
  <2>2. x \in Int /\ Clipped(c)[d + 1].start <= x
    BY <1>3, <1>6 DEF Overlap
  <2>3. k \in 1 .. Len(Clipped(c)) /\ d + 1 \in 1 .. Len(Clipped(c)) /\ k < d + 1
    BY <1>1
  <2>4. Clipped(c)[k].stop < Clipped(c)[d + 1].start
    BY <1>1, <1>6, <2>3
  <2>5. Clipped(c)[k].stop \in Nat /\ Clipped(c)[d + 1].start \in Nat
    BY <1>2, <2>3
  <2>. QED
    BY <2>1, <2>2, <2>4, <2>5
<1>. QED
  BY <1>4, <1>5, <1>6

\* What is known of the line read next.
LEMMA NextLine ==
  ASSUME AInv, pending # <<>>
  PROVE  /\ file \in CPUs /\ file \notin files
         /\ Done \in Nat /\ Len(pending) \in Nat \ {0}
         /\ Len(Clipped(file)) = Done + Len(pending)
         /\ Head(pending) = Clipped(file)[Done + 1]
         /\ Head(pending) \in Line
         /\ Head(pending).start \in Nat /\ Head(pending).stop \in Nat
         /\ Head(pending).start <= Head(pending).stop
         /\ Head(pending).stop <= starts[N]
         /\ FirstIndex \in 0 .. N - 1
         /\ starts[FirstIndex + 1] <= Head(pending).stop
         /\ Disjoint(file) => starts[FirstIndex + 1] <= Head(pending).start
         /\ \A m \in 1 .. Len(pending) : m > 1 =>
                /\ pending[m].start \in Nat /\ pending[m].stop \in Nat
                /\ Head(pending).stop <= pending[m].stop
                /\ Disjoint(file) => Head(pending).stop < pending[m].start
<1>1. file \in CPUs /\ pending \in Seq(Line)
  BY DEF AInv, TypeOK
<1>2. file \notin files /\ Done >= 0
      /\ \A m \in 1 .. Len(pending) : pending[m] = Clipped(file)[Done + m]
  BY DEF AInv, Position
<1>3. /\ Clipped(file) \in Seq(Line)
      /\ \A k \in 1 .. Len(Clipped(file)) :
             /\ Clipped(file)[k].start <= Clipped(file)[k].stop
             /\ Clipped(file)[k].stop <= starts[N]
      /\ \A k, m \in 1 .. Len(Clipped(file)) :
             k < m => /\ Clipped(file)[k].stop <= Clipped(file)[m].stop
                      /\ Disjoint(file) => Clipped(file)[k].stop < Clipped(file)[m].start
  BY <1>1, LinesWritten DEF AInv
<1>4. Len(pending) \in Nat \ {0} /\ Len(Clipped(file)) \in Nat /\ Head(pending) = pending[1]
      /\ 1 \in 1 .. Len(pending)
  BY <1>1, <1>3
<1>5. Done \in Nat /\ Len(Clipped(file)) = Done + Len(pending)
  BY <1>2, <1>4 DEF Done
<1>6. Done + 1 \in 1 .. Len(Clipped(file)) /\ Head(pending) = Clipped(file)[Done + 1]
  BY <1>2, <1>4, <1>5
<1>7. \A k \in 1 .. Len(Clipped(file)) :
          /\ Clipped(file)[k] \in Line
          /\ Clipped(file)[k].start \in Nat /\ Clipped(file)[k].stop \in Nat
  <2>1. \A k \in 1 .. Len(Clipped(file)) : Clipped(file)[k] \in Line
    BY <1>3
  <2>. QED
    BY <2>1, AccountingAssumption DEF Line
<1>8. /\ FirstIndex \in 0 .. N - 1
      /\ starts[FirstIndex + 1] <= Head(pending).stop
      /\ Disjoint(file) => starts[FirstIndex + 1] <= Head(pending).start
  BY <1>4 DEF AInv, IndexInv
<1>9. \A m \in 1 .. Len(pending) : m > 1 =>
          /\ Done + m \in 1 .. Len(Clipped(file)) /\ Done + 1 < Done + m
          /\ pending[m] = Clipped(file)[Done + m]
  BY <1>2, <1>5
<1>. QED
  BY <1>1, <1>2, <1>3, <1>4, <1>5, <1>6, <1>7, <1>8, <1>9

\* Adding a line to the measurements.
LEMMA AddKeeps == AInv /\ AddCpuActivity => AInv'
<1> SUFFICES ASSUME AInv, AddCpuActivity PROVE AInv' OBVIOUS
<1>. DEFINE l == Head(pending)
            f == FirstIndex
            e == EndOf(f, l)
            d == Done
<1>1. /\ pending # <<>> /\ index_cpu' = file /\ pending' = Tail(pending)
      /\ UNCHANGED <<actVars, events, starts, files, file>>
  BY DEF AddCpuActivity
<1>2. /\ running' = [running EXCEPT ![file] =
                        [i \in 1 .. N |-> IF i \in HitBy(f, l) THEN @[i] + NsOf(l, i) ELSE @[i]]]
      /\ failed' = ~\E i \in HitBy(f, l) : l.stop <= StopOf(i)
      /\ last_index' = IF failed' THEN e ELSE StepBack(e)
  BY DEF AddCpuActivity, HitBy, EndOf, PastOf, NsOf
<1>3. /\ file \in CPUs /\ file \notin files
      /\ d \in Nat /\ Len(pending) \in Nat \ {0}
      /\ Len(Clipped(file)) = d + Len(pending)
      /\ l = Clipped(file)[d + 1]
      /\ l \in Line
      /\ l.start \in Nat /\ l.stop \in Nat
      /\ l.start <= l.stop
      /\ l.stop <= starts[N]
      /\ f \in 0 .. N - 1
      /\ starts[f + 1] <= l.stop
      /\ Disjoint(file) => starts[f + 1] <= l.start
      /\ \A m \in 1 .. Len(pending) : m > 1 =>
             /\ pending[m].start \in Nat /\ pending[m].stop \in Nat
             /\ l.stop <= pending[m].stop
             /\ Disjoint(file) => l.stop < pending[m].start
  BY <1>1, NextLine
<1>4. /\ ActInv' /\ ActTypeOK' /\ Started' /\ N' = N
      /\ Clipped(file)' = Clipped(file)
      /\ \A c \in CPUs : Clipped(c)' = Clipped(c) /\ (Disjoint(c)' <=> Disjoint(c))
      /\ \A i \in 1 .. N : StopOf(i)' = StopOf(i)
      /\ Disjoint(file)' <=> Disjoint(file)
  <2>1. /\ ActInv' /\ ActTypeOK' /\ Started' /\ N' = N
        /\ Clipped(file)' = Clipped(file')
        /\ \A c \in CPUs : Clipped(c)' = Clipped(c) /\ (Disjoint(c)' <=> Disjoint(c))
        /\ \A i \in 1 .. N : StopOf(i)' = StopOf(i)
    BY <1>1, ReadingKeeps
  <2>2. Disjoint(file)' <=> Disjoint(file)
    BY <1>1 DEF Disjoint, actVars
  <2>. QED
    BY <1>1, <2>1, <2>2
<1>5. Started /\ N \in Nat /\ N >= 2 /\ \A i \in 1 .. N : starts[i] \in Nat
  <2>1. Started
    BY DEF AInv
  <2>. QED
    BY <2>1, StartNumbers DEF Started
<1>. HIDE DEF l, f, e, d
<1>6. /\ e \in 2 .. N /\ StepBack(e) = e - 2
      /\ starts[e - 1] <= l.stop
      /\ \E i \in HitBy(f, l) : l.stop <= StopOf(i)
  BY <1>3, <1>5, SearchEnds DEF e
<1>7. ~failed' /\ failed' \in BOOLEAN /\ last_index' = e - 2
  BY <1>2, <1>6
<1>8. FirstIndex' = e - 2
  BY <1>1, <1>7 DEF FirstIndex
<1>9. Len(pending') = Len(pending) - 1 /\ Len(pending') \in Nat /\ pending' \in Seq(Line)
      /\ \A m \in 1 .. Len(pending') : m + 1 \in 1 .. Len(pending) /\ m + 1 > 1
                                       /\ pending'[m] = pending[m + 1]
  <2>1. pending \in Seq(Line)
    BY DEF AInv, TypeOK
  <2>. QED
    BY <1>1, <2>1
<1>10. Done' = d + 1
  <2>1. Done' = Len(Clipped(file)') - Len(pending')
    BY DEF Done
  <2>2. Done' = (d + Len(pending)) - (Len(pending) - 1)
    BY <1>3, <1>4, <1>9, <2>1
  <2>. QED
    BY <1>3, <2>2
<1>11. running \in [CPUs -> [1 .. N -> Nat]]
  BY DEF AInv, TypeOK
<1>12. \A i \in 1 .. N : i \in HitBy(f, l) => NsOf(l, i) \in Nat
  BY <1>3, <1>5, LineAdds
<1>13. /\ running'[file] = [i \in 1 .. N |-> IF i \in HitBy(f, l)
                                             THEN running[file][i] + NsOf(l, i)
                                             ELSE running[file][i]]
       /\ running'[file] \in [1 .. N -> Nat]
       /\ \A c \in CPUs : c # file => running'[c] = running[c]
       /\ running' \in [CPUs -> [1 .. N -> Nat]]
  <2>. DEFINE w == [i \in 1 .. N |-> IF i \in HitBy(f, l)
                                     THEN running[file][i] + NsOf(l, i)
                                     ELSE running[file][i]]
  <2>1. \A i \in 1 .. N : running[file][i] \in Nat
    BY <1>3, <1>11
  <2>2. w \in [1 .. N -> Nat]
    BY <1>12, <2>1
  <2>3. running' = [running EXCEPT ![file] = w]
    BY <1>2
  <2>. HIDE DEF w
  <2>4. /\ running'[file] = w
        /\ \A c \in CPUs : c # file => running'[c] = running[c]
        /\ running' \in [CPUs -> [1 .. N -> Nat]]
    BY <1>3, <1>11, <2>2, <2>3
  <2>. QED
    BY <2>2, <2>4 DEF w
<1>14. TypeOK'
  <2>1. Line' = Line /\ (Seq(0 .. MaxTime))' = Seq(0 .. MaxTime)
    BY DEF Line
  <2>2. last_index' \in 0 .. N
    BY <1>5, <1>6, <1>7
  <2>. QED
    BY <1>1, <1>3, <1>4, <1>7, <1>9, <1>13, <2>1, <2>2 DEF AInv, TypeOK
<1>15. Position'
  <2>1. ASSUME NEW m \in 1 .. Len(pending')
        PROVE  pending'[m] = Clipped(file)[Done' + m]
    <3>1. pending[m + 1] = Clipped(file)[d + (m + 1)]
      BY <1>3, <1>9 DEF AInv, Position, d
    <3>2. d + (m + 1) = Done' + m
      BY <1>3, <1>9, <1>10
    <3>. QED
      BY <1>9, <3>1, <3>2
  <2>. QED
    BY <1>1, <1>3, <1>4, <1>10, <2>1 DEF Position
<1>16. IndexInv'
  <2>1. FirstIndex' \in 0 .. N' - 1
    BY <1>4, <1>5, <1>6, <1>8
  <2>2. index_cpu' \notin files'
    BY <1>1, <1>3
  <2>3. ASSUME NEW m \in 1 .. Len(pending')
        PROVE  /\ starts[e - 2 + 1] <= pending'[m].stop
               /\ Disjoint(file) => starts[e - 2 + 1] <= pending'[m].start
    <3>1. e - 2 + 1 = e - 1 /\ e - 1 \in 1 .. N
      BY <1>5, <1>6
    <3>2. starts[e - 1] \in Nat
      BY <1>5, <3>1
    <3>3. /\ pending'[m].start \in Nat /\ pending'[m].stop \in Nat
          /\ l.stop <= pending'[m].stop
          /\ Disjoint(file) => l.stop < pending'[m].start
      BY <1>3, <1>9
    <3>4. starts[e - 1] <= l.stop /\ l.stop \in Nat
      BY <1>3, <1>6
    <3>5. starts[e - 1] <= pending'[m].stop
      BY <3>2, <3>3, <3>4
    <3>6. Disjoint(file) => starts[e - 1] <= pending'[m].start
      BY <3>2, <3>3, <3>4
    <3>. QED
      BY <3>1, <3>5, <3>6
  <2>. QED
    BY <1>1, <1>4, <1>8, <2>1, <2>2, <2>3 DEF IndexInv
<1>17. Accounted'
  <2>1. SUFFICES ASSUME NEW c \in CPUs, NEW i \in 1 .. N
                 PROVE  /\ c \in files' => running'[c][i] = 0
                        /\ c \notin files' /\ Disjoint(c)' =>
                               running'[c][i] = Cardinality(CoveredTo(c, i, DoneOf(c))')
    BY <1>4 DEF Accounted
  <2>2. CASE c # file
    <3>1. running'[c] = running[c] /\ DoneOf(c)' = DoneOf(c)
      BY <1>1, <1>4, <1>13, <2>2 DEF DoneOf
    <3>2. Clipped(c)' = Clipped(c) /\ StopOf(i)' = StopOf(i) /\ starts' = starts
      BY <1>1, <1>4
    <3>3. CoveredTo(c, i, DoneOf(c))' = CoveredTo(c, i, DoneOf(c))
      BY <3>1, <3>2 DEF CoveredTo
    <3>. QED
      BY <1>1, <1>4, <3>1, <3>3 DEF AInv, Accounted
  <2>3. CASE c = file
    <3>1. SUFFICES ASSUME Disjoint(file)
                   PROVE  running'[file][i] = Cardinality(CoveredTo(file, i, Done)')
      BY <1>1, <1>3, <1>4, <2>3 DEF DoneOf
    <3>2. running[file][i] = Cardinality(CoveredTo(file, i, d))
      BY <1>3, <3>1 DEF AInv, Accounted, DoneOf, d
    <3>3. CoveredTo(file, i, Done)' = CoveredTo(file, i, d + 1)
      <4>1. Clipped(file)' = Clipped(file) /\ StopOf(i)' = StopOf(i) /\ starts' = starts
            /\ file' = file
        BY <1>1, <1>4
      <4>. QED
        BY <1>10, <4>1 DEF CoveredTo
    <3>4. d + 1 <= Len(Clipped(file))
      BY <1>3
    <3>5. /\ IsFiniteSet(CoveredTo(file, i, d))
          /\ CoveredTo(file, i, d + 1) = CoveredTo(file, i, d) \cup Overlap(l, i)
          /\ CoveredTo(file, i, d) \cap Overlap(l, i) = {}
      BY <1>3, <3>1, <3>4, OneMoreLine DEF AInv
    <3>6. /\ IsFiniteSet(Overlap(l, i))
          /\ Cardinality(Overlap(l, i)) = IF i \in HitBy(f, l) THEN NsOf(l, i) ELSE 0
      BY <1>3, <1>5, <3>1, LineAdds
    <3>7. Cardinality(CoveredTo(file, i, d + 1))
              = Cardinality(CoveredTo(file, i, d)) + Cardinality(Overlap(l, i))
      <4>. DEFINE A == CoveredTo(file, i, d)
                  B == Overlap(l, i)
      <4>1. IsFiniteSet(A) /\ IsFiniteSet(B) /\ A \cap B = {}
        BY <3>5, <3>6
      <4>. HIDE DEF A, B
      <4>2. Cardinality(A \cup B) = Cardinality(A) + Cardinality(B) - Cardinality(A \cap B)
        BY <4>1, FS_Union
      <4>3. Cardinality(A \cap B) = 0
        BY <4>1, FS_EmptySet
      <4>4. Cardinality(A) \in Nat /\ Cardinality(B) \in Nat
        BY <4>1, FS_CardinalityType
      <4>5. Cardinality(A \cup B) = Cardinality(A) + Cardinality(B)
        BY <4>2, <4>3, <4>4
      <4>. QED
        BY <3>5, <4>5 DEF A, B
    <3>8. running'[file][i] = running[file][i] + (IF i \in HitBy(f, l) THEN NsOf(l, i) ELSE 0)
      <4>1. running[file][i] \in Nat
        BY <1>3, <1>11
      <4>. QED
        BY <1>13, <4>1
    <3>. QED
      BY <3>2, <3>3, <3>6, <3>7, <3>8
  <2>. QED
    BY <2>2, <2>3
<1>. QED
  BY <1>4, <1>7, <1>14, <1>15, <1>16, <1>17 DEF AInv

\* Every step keeps the invariant.
LEMMA AInvStep == AInv /\ [Next]_vars => AInv'
<1> SUFFICES ASSUME AInv, [Next]_vars PROVE AInv' OBVIOUS
<1>1. CASE RecordSwitch BY <1>1, RecordKeeps
<1>2. CASE RecordRuntime BY <1>2, RecordKeeps
<1>3. CASE OpenFile BY <1>3, OpenFileKeeps
<1>4. CASE AddCpuActivity BY <1>4, AddKeeps
<1>5. CASE UNCHANGED vars
  <2>1. UNCHANGED <<actVars, events, starts, files, file, pending, index_cpu, last_index,
                    running, failed>>
    BY <1>5 DEF vars, readVars
  <2>2. /\ ActInv' /\ ActTypeOK' /\ Started' /\ N' = N
        /\ Clipped(file)' = Clipped(file)
        /\ \A c \in CPUs : Clipped(c)' = Clipped(c) /\ (Disjoint(c)' <=> Disjoint(c))
        /\ \A i \in 1 .. N : StopOf(i)' = StopOf(i)
    BY <2>1, ReadingKeeps
  <2>3. Done' = Done /\ FirstIndex' = FirstIndex /\ (Disjoint(file)' <=> Disjoint(file))
    BY <2>1, <2>2 DEF Done, FirstIndex, Disjoint, actVars
  <2>4. \A c \in CPUs : DoneOf(c)' = DoneOf(c)
    BY <2>1, <2>2, <2>3 DEF DoneOf
  <2>5. \A c \in CPUs : \A i \in 1 .. N :
            CoveredTo(c, i, DoneOf(c))' = CoveredTo(c, i, DoneOf(c))
    <3>1. SUFFICES ASSUME NEW c \in CPUs, NEW i \in 1 .. N
                   PROVE  CoveredTo(c, i, DoneOf(c))' = CoveredTo(c, i, DoneOf(c))
      OBVIOUS
    <3>2. Clipped(c)' = Clipped(c) /\ StopOf(i)' = StopOf(i) /\ starts' = starts
      BY <2>1, <2>2
    <3>. QED
      BY <2>4, <3>2 DEF CoveredTo
  <2>6. Position'
    BY <2>1, <2>2, <2>3 DEF AInv, Position
  <2>7. IndexInv'
    BY <2>1, <2>2, <2>3 DEF AInv, IndexInv
  <2>8. Accounted'
    <3>1. SUFFICES ASSUME NEW c \in CPUs, NEW i \in 1 .. N
                   PROVE  /\ c \in files' => running'[c][i] = 0
                          /\ c \notin files' /\ Disjoint(c)' =>
                                 running'[c][i] = Cardinality(CoveredTo(c, i, DoneOf(c))')
      BY <2>2 DEF Accounted
    <3>2. CoveredTo(c, i, DoneOf(c))' = CoveredTo(c, i, DoneOf(c))
      BY <2>5
    <3>. QED
      BY <2>1, <2>2, <3>2 DEF AInv, Accounted
  <2>9. TypeOK'
    <3>1. Line' = Line /\ (Seq(0 .. MaxTime))' = Seq(0 .. MaxTime)
      BY DEF Line
    <3>. QED
      BY <2>1, <2>2, <3>1 DEF AInv, TypeOK
  <2>. QED
    BY <2>1, <2>2, <2>6, <2>7, <2>8, <2>9 DEF AInv
<1>. QED
  BY <1>1, <1>2, <1>3, <1>4, <1>5 DEF Next

LEMMA AInvAlways == Spec => []AInv
<1>. QED
  BY AInvInit, AInvStep, PTL DEF Spec

-----------------------------------------------------------------------------
(* The properties.                                                         *)

\* Type correctness, for any number of CPUs, measurements and runs.
THEOREM TypeCorrect == Spec => []TypeOK
<1>1. AInv => TypeOK
  BY DEF AInv
<1>. QED
  BY <1>1, AInvAlways, PTL

\* The activity that is evaluated is what the trace reader recorded: writing
\* and reading the files changes none of it (trace_conv.py:768-802).
THEOREM ImplementsActivity == Spec => ActSpec
<1>1. Init => ActInit
  BY DEF Init
<1>2. OpenFile \/ AddCpuActivity => UNCHANGED actVars
  BY DEF OpenFile, AddCpuActivity
<1>3. [Next]_vars => [ActNext]_actVars
  BY <1>2, RecordIsActivity DEF Next, vars
<1>. QED
  BY <1>1, <1>3, PTL DEF Spec, ActSpec

\* Of the whole evaluation too: from the third run of a CPU on, no two overlap.
THEOREM OrderedThroughout == Spec => []ActivityOrdered
<1>1. AInv => ActivityOrdered
  BY DEF AInv, ActInv, Ordered, ActivityOrdered
<1>. QED
  BY <1>1, AInvAlways, PTL

\* The assertion in add_cpu_activity that some interval handled the end of the
\* line cannot fail (evaluate_data.py:178): stepping back by two intervals
\* never steps over the one in which the next line ends.
THEOREM AssertionHolds == Spec => []HandledAssertion
<1>1. AInv => HandledAssertion
  BY DEF AInv, HandledAssertion
<1>. QED
  BY <1>1, AInvAlways, PTL

\* What was accounted of a CPU that never ran two threads at a time is the
\* size of a part of the interval.
LEMMA AccountedIsPart ==
  ASSUME AInv, NEW c \in CPUs, Disjoint(c), NEW i \in 1 .. N
  PROVE  running[c][i] <= IntervalNs(i)
<1>1. starts[i] \in Int /\ StopOf(i) \in Int /\ starts[i] <= StopOf(i)
  BY StartNumbers DEF AInv
<1>. DEFINE a == starts[i]
            b == StopOf(i)
<1>2. IntervalNs(i) = b - a + 1
  BY DEF IntervalNs
<1>. HIDE DEF a, b
<1>3. IsFiniteSet(a .. b) /\ Cardinality(a .. b) = b - a + 1
  <2>1. a \in Int /\ b \in Int /\ ~(a > b)
    BY <1>1 DEF a, b
  <2>2. IsFiniteSet(a .. b) /\ Cardinality(a .. b) = IF a > b THEN 0 ELSE b - a + 1
    BY <2>1, FS_Interval
  <2>. QED
    BY <2>1, <2>2
<1>4. CASE c \in files
  <2>1. running[c][i] = 0
    BY <1>4 DEF AInv, Accounted
  <2>. QED
    BY <1>1, <1>2, <2>1 DEF a, b
<1>5. CASE c \notin files
  <2>1. running[c][i] = Cardinality(CoveredTo(c, i, DoneOf(c)))
    BY <1>5 DEF AInv, Accounted
  <2>2. CoveredTo(c, i, DoneOf(c)) \subseteq a .. b
    BY DEF CoveredTo, a, b
  <2>3. Cardinality(CoveredTo(c, i, DoneOf(c))) <= Cardinality(a .. b)
    BY <1>3, <2>2, FS_Subset
  <2>. QED
    BY <1>2, <1>3, <2>1, <2>3
<1>. QED
  BY <1>4, <1>5

\* No CPU is said to have run for longer in an interval than the interval is,
\* as the assertion at evaluate_data.py:251 demands, if its first two runs do
\* not overlap.
THEOREM FitsInInterval == Spec => []RunningFitsDisjoint
<1>1. AInv => RunningFitsDisjoint
  BY AccountedIsPart DEF RunningFitsDisjoint
<1>. QED
  BY <1>1, AInvAlways, PTL

\* After the evaluation each interval has exactly the time its CPU's recorded
\* runs cover of it (evaluate_data.py:148-179).
THEOREM AccountedExactly == Spec => []AccountingExact
<1>1. ASSUME AInv PROVE AccountingExact
  <2>1. SUFFICES ASSUME Evaluated, NEW c \in CPUs, Disjoint(c), NEW i \in 1 .. N
                 PROVE  running[c][i] = Cardinality(Covered(c, i))
    BY DEF AccountingExact
  <2>2. running[c][i] = Cardinality(CoveredTo(c, i, DoneOf(c)))
    BY <1>1, <2>1 DEF AInv, Accounted, Evaluated
  <2>3. Clipped(c) \in Seq(Line)
    BY <1>1, LinesWritten DEF AInv
  <2>4. DoneOf(c) = Len(Clipped(c))
    BY <2>1, <2>3 DEF DoneOf, Done, Evaluated
  <2>5. DOMAIN Clipped(c) = 1 .. Len(Clipped(c))
    BY <2>3
  <2>6. CoveredTo(c, i, DoneOf(c)) = Covered(c, i)
    BY <2>4, <2>5 DEF CoveredTo, Covered
  <2>. QED
    BY <2>2, <2>6
<1>. QED
  BY <1>1, AInvAlways, PTL
=============================================================================
