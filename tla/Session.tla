------------------------------ MODULE Session ------------------------------
(***************************************************************************)
(* The order sys_logger.sh tells its users: "Syslogger workflow: Setup ->  *)
(* Start -> Stop -> Finish".  A session may measure any number of times.   *)
(***************************************************************************)
VARIABLE stage      \* "none", "ready" or "measuring"

TypeOK == stage \in {"none", "ready", "measuring"}

Init == stage = "none"

Setup == stage = "none" /\ stage' = "ready"
Start == stage = "ready" /\ stage' = "measuring"
Stop == stage = "measuring" /\ stage' = "ready"
Finish == stage = "ready" /\ stage' = "none"

Next == Setup \/ Start \/ Stop \/ Finish

Spec == Init /\ [][Next]_stage
=============================================================================
