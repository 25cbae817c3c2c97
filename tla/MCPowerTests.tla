---------------------------- MODULE MCPowerTests ----------------------------
(* An instance of PowerTests.  Either commands that set limits are lost, on *)
(* days with any frequencies and any call of gov_controller.py, or commands *)
(* of a session, recorders, and loads of the module fail.                   *)
EXTENDS PowerTests

MCDays ==
    [freq : Freqs, chosen : (SUBSET Cores) \ {{}}, sweep : [1 .. NumSessions -> Freqs],
     budget : {[limits |-> 2, commands |-> 0, deaths |-> 0]}, trouble : {0}]
    \cup
    [freq : {Lowest}, chosen : {Cores}, sweep : {[x \in 1 .. NumSessions |-> Lowest]},
     budget : {[limits |-> 0, commands |-> 2, deaths |-> 0],
               [limits |-> 0, commands |-> 1, deaths |-> 1]}, trouble : {2}]
=============================================================================
