---------------------------- MODULE MCEvaluation ----------------------------
(* Instances of Evaluation: a recording has a family history, or runs of   *)
(* threads that overlap, or many phases and measurements.                  *)
EXTENDS Evaluation

MCBudgets == {
    [names |-> 1, forks |-> 3, runtimes |-> 2, chrome |-> 0, iterations |-> 2,
     ticks |-> 1, busy |-> 0, longest |-> 1],
    [names |-> 0, forks |-> 0, runtimes |-> 3, chrome |-> 0, iterations |-> 2,
     ticks |-> 1, busy |-> 1, longest |-> 2],
    [names |-> 0, forks |-> 0, runtimes |-> 2, chrome |-> 2, iterations |-> 3,
     ticks |-> 3, busy |-> 0, longest |-> 1],
    [names |-> 0, forks |-> 0, runtimes |-> 2, chrome |-> 3, iterations |-> 2,
     ticks |-> 2, busy |-> 0, longest |-> 1]}

MCSymmetry == Permutations(Pids)
=============================================================================
