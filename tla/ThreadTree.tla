----------------------------- MODULE ThreadTree -----------------------------
(***************************************************************************)
(* Names and parents of threads, as src/trace_conv/trace_conv.py collects  *)
(* them from scheduler events (_process_sched_event), writes them to       *)
(* threads.csv, and as src/trace_conv/evaluate_data.py searches them: a    *)
(* thread belongs to the browser, a renderer or the GPU process if it or   *)
(* one of its ancestors has the name.                                      *)
(*                                                                         *)
(* A thread is known by its process id, which the kernel uses again when   *)
(* the thread is gone.  Ids here are those greater than 0; NoPid stands    *)
(* for parent 0 (the idle thread) and for -1 (not known), which the search *)
(* treats alike.                                                           *)
(***************************************************************************)
EXTENDS Naturals, FiniteSets

CONSTANTS
    Pids,       \* process ids
    NoPid,      \* no parent to look for
    Names       \* names of threads

\* "" is the name of a thread that was heard of as a parent only.
ASSUME ThreadTreeAssumption == IsFiniteSet(Pids) /\ NoPid \notin Pids /\ "" \in Names

VARIABLES
    threads,    \* the ids in the table of ThreadInfo
    ppid,       \* ThreadInfo.ppid
    comm,       \* ThreadInfo.comm
    born,       \* history: how often the id was given to a new thread
    lineage     \* history: the ancestors at birth, each an id and its birth

treeVars == <<threads, ppid, comm, born, lineage>>

TreeTypeOK ==
    /\ threads \subseteq Pids
    /\ ppid \in [Pids -> Pids \cup {NoPid}]
    /\ comm \in [Pids -> Names]
    /\ born \in [Pids -> Nat]
    /\ lineage \in [Pids -> SUBSET (Pids \X Nat)]

TreeInit ==
    /\ threads = {}
    /\ ppid = [p \in Pids |-> NoPid]
    /\ comm = [p \in Pids |-> ""]
    /\ born = [p \in Pids |-> 0]
    /\ lineage = [p \in Pids |-> {}]

\* Faults the runs must notice: the parent gets no entry of its own; the
\* first parent of an id is kept when the id is used again.
EnterChildOnly(p, c) == threads \cup {c}
FirstParentKept(p, c) == IF c \in threads THEN ppid[c] ELSE p

Enter(p, c) == threads \cup {p, c}
NewParent(p, c) == p

\* sched_process_fork: p forks c.  A parent not heard of gets an entry
\* without a parent and, as the name is read as a number, without a name.  The
\* child's entry is new, even if its id was in use.
Fork(p, c, child_comm) ==
    /\ p # c
    /\ threads' = Enter(p, c)
    /\ ppid' = [ppid EXCEPT ![c] = NewParent(p, c)]
    /\ comm' = [comm EXCEPT ![c] = child_comm]
    /\ born' = [born EXCEPT ![c] = @ + 1]
    /\ lineage' = [lineage EXCEPT ![c] = lineage[p] \cup {<<p, born[p]>>}]

\* Any other scheduler event of p: its name may have changed.
Heard(p, name) ==
    /\ threads' = threads \cup {p}
    /\ comm' = [comm EXCEPT ![p] = name]
    /\ UNCHANGED <<ppid, born, lineage>>

TreeNext ==
    \E p \in Pids, name \in Names :
        \/ Heard(p, name)
        \/ \E c \in Pids : Fork(p, c, name)

TreeSpec == TreeInit /\ [][TreeNext]_treeVars

-----------------------------------------------------------------------------
(* The search of evaluate_data.py.                                         *)

\* is_chrome_thread asks for one kind after the other.
Kinds == {"chrome_main", "renderer", "gpu"}

Matches(kind, name) ==
    \/ kind = "chrome_main" /\ name = "chromium.chrome"
    \/ kind = "renderer" /\ name = "dboxed_process"
    \/ kind = "gpu" /\ name \in {"ileged_process", "CrGpuMain"}

\* A fault: the search looks at the parent and no further.
ParentOnly(p) == {p, ppid[p]} \ {NoPid}

\* The ids met on the way from p up, p included.
Upward(p) ==
    LET climb[n \in Nat] ==
            IF n = 0 THEN {p}
            ELSE climb[n - 1] \cup ({ppid[q] : q \in climb[n - 1]} \ {NoPid})
    IN climb[Cardinality(Pids)]

\* is_chrome_main_thread, is_renderer_thread, is_gpu_thread: the first match
\* answers, as does a thread without parent; an id that is not in the table,
\* or a way up that leads back into itself, ends the program.
Search(kind, p) ==
    LET up == Upward(p)
    IN IF \E q \in up : q \in threads /\ Matches(kind, comm[q]) THEN "yes"
       ELSE IF ~(up \subseteq threads) THEN "KeyError"
       ELSE IF \E q \in up : ppid[q] = NoPid THEN "no"
       ELSE "RecursionError"

-----------------------------------------------------------------------------
(* Properties.                                                             *)

\* The ids of p's ancestors have not been given to other threads since.
Current(p) == \A a \in lineage[p] : born[a[1]] = a[2]

\* Every parent the search may ask for is in the table (trace_conv.py:467).
ParentsKnown == \A p \in threads : ppid[p] \in threads \cup {NoPid}

\* As long as the ids of its ancestors are not used again, the recorded parent
\* of a thread leads to exactly the ancestors it was born with, and never back
\* to itself (trace_conv.py:462-470).
LineageFollowed ==
    \A p \in threads : Current(p) =>
        /\ \A a \in lineage[p] : a[1] # p
        /\ lineage[p] = IF ppid[p] = NoPid THEN {}
                        ELSE lineage[ppid[p]] \cup {<<ppid[p], born[ppid[p]]>>}

\* Then every search ends with an answer, and finds a thread to be of a kind
\* exactly if it or one of the ancestors it was born with is called so
\* (evaluate_data.py:37-70).
AncestryRight ==
    \A p \in threads : Current(p) =>
        LET family == {p} \cup {a[1] : a \in lineage[p]}
        IN \A kind \in Kinds :
               Search(kind, p) = IF \E q \in family : Matches(kind, comm[q]) THEN "yes" ELSE "no"
=============================================================================
