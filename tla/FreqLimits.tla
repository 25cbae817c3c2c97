----------------------------- MODULE FreqLimits -----------------------------
(***************************************************************************)
(* The frequency limits of one cluster of cores, and the scripts that set  *)
(* them by adb: src/scripts/auto_tests/gov_controller.py and the functions *)
(* of power_tests_syslogger.sh.  The cores of a cluster share one policy,  *)
(* so a write for any of them changes the limits of all; the kernel        *)
(* refuses a write that would put the minimum above the maximum.           *)
(*                                                                         *)
(* A script is a sequence of commands here, one adb call each; the driver  *)
(* (PowerTests) sends them one by one.                                     *)
(***************************************************************************)
EXTENDS Naturals, Sequences, FiniteSets, SequencesExt

CONSTANTS
    NumCores,       \* cores of the cluster, in the order of the scripts
    Freqs           \* frequencies

ASSUME FreqAssumption ==
    NumCores \in Nat \ {0} /\ Freqs \subseteq Nat \ {0} /\ IsFiniteSet(Freqs)

VARIABLES
    online,         \* the cores that are on
    scaling_min,    \* the limits of the policy
    scaling_max

freqVars == <<online, scaling_min, scaling_max>>

Cores == 0 .. NumCores - 1

FreqTypeOK ==
    /\ online \subseteq Cores
    /\ {scaling_min, scaling_max} \subseteq Freqs

-----------------------------------------------------------------------------
(* The kernel.  An offline core has no cpufreq directory.                  *)

WriteMax(c, f) ==
    /\ scaling_max' = IF c \in online /\ f >= scaling_min THEN f ELSE scaling_max
    /\ UNCHANGED <<online, scaling_min>>

WriteMin(c, f) ==
    /\ scaling_min' = IF c \in online /\ f <= scaling_max THEN f ELSE scaling_min
    /\ UNCHANGED <<online, scaling_max>>

\* Core 0 cannot be switched off.
WriteOnline(c, on) ==
    /\ online' = IF on THEN online \cup {c}
                 ELSE IF c = 0 THEN online ELSE online \ {c}
    /\ UNCHANGED <<scaling_min, scaling_max>>

-----------------------------------------------------------------------------
(* The scripts.  Target is not an adb call: it notes the limits wanted.    *)

Target(low, high) == [op |-> "target", low |-> low, high |-> high]
Adb(op, c, f) == [op |-> op, core |-> c, freq |-> f]

ForCores(Commands(_)) ==
    FlattenSeq([i \in 1 .. NumCores |-> Commands(i - 1)])

\* power_tests_syslogger.sh, setCoreFreq: first the maximum.
SetCoreFreq(c, low, high) == <<Adb("max", c, high), Adb("min", c, low)>>

\* A fault: the cores share their limits, so one of them is written.
SetFirstCPUFreq(low, high) == <<Target(low, high)>> \o SetCoreFreq(0, low, high)

\* setLCPUFreq: the same limits for all cores of the cluster.
SetLCPUFreq(low, high) ==
    <<Target(low, high)>> \o ForCores(LAMBDA c : SetCoreFreq(c, low, high))

\* gov_controller.py, __init__ and GetCores: every core is switched on.
GetCores == ForCores(LAMBDA c : <<Adb("on", c, 0)>>)

\* SetCoreFreqs: a core with frequency 0 is switched off, another on, and gets
\* first the minimum.
SetCoreFreqs(f, chosen) ==
    <<Target(f, f)>> \o
    ForCores(LAMBDA c : IF c \notin chosen THEN <<Adb("off", c, 0)>>
                        ELSE <<Adb("on", c, 0), Adb("min", c, f), Adb("max", c, f)>>)
=============================================================================
