---------------------------- MODULE MinerRounds ----------------------------
(***************************************************************************)
(* What the OpenCL SHA-256 tasks promise the worker that drives them, with *)
(* the shared command queue, the device buffers and the reset writes left  *)
(* out: each task runs its rounds one after the other; a round either      *)
(* reports the nonces its own kernel found in its own work range, or ends  *)
(* in a device error; a reported round submits exactly what it found, and  *)
(* every round eventually ends.                                            *)
(***************************************************************************)
EXTENDS Naturals

CONSTANTS
    Tasks,
    MaxRounds,
    WorkRange(_, _)    \* the nonces of round r of task t

VARIABLES
    phase,     \* per task: "Ready", "Mining" or "Failed"
    round,     \* per task: rounds begun
    reported,  \* per task: the current round's results are back
    found,     \* per task: the nonces the current round's kernel found
    subs       \* per task: the nonces the last finished round submitted

vars == <<phase, round, reported, found, subs>>

Init ==
    /\ phase = [t \in Tasks |-> "Ready"]
    /\ round = [t \in Tasks |-> 0]
    /\ reported = [t \in Tasks |-> FALSE]
    /\ found = [t \in Tasks |-> {}]
    /\ subs = [t \in Tasks |-> {}]

Begin(t) ==
    /\ phase[t] = "Ready"
    /\ round[t] < MaxRounds
    /\ phase' = [phase EXCEPT ![t] = "Mining"]
    /\ round' = [round EXCEPT ![t] = @ + 1]
    /\ found' = [found EXCEPT ![t] = {}]
    /\ subs' = [subs EXCEPT ![t] = {}]
    /\ UNCHANGED reported

\* the round's results come back: any nonces of its own range
Report(t) ==
    /\ phase[t] = "Mining"
    /\ ~reported[t]
    /\ \E f \in SUBSET WorkRange(t, round[t]) :
         found' = [found EXCEPT ![t] = f]
    /\ reported' = [reported EXCEPT ![t] = TRUE]
    /\ UNCHANGED <<phase, round, subs>>

\* the round ends in a device error before anything is reported
Fail(t) ==
    /\ phase[t] = "Mining"
    /\ ~reported[t]
    /\ phase' = [phase EXCEPT ![t] = "Failed"]
    /\ UNCHANGED <<round, reported, found, subs>>

Submit(t) ==
    /\ phase[t] = "Mining"
    /\ reported[t]
    /\ subs' = [subs EXCEPT ![t] = found[t]]
    /\ phase' = [phase EXCEPT ![t] = "Ready"]
    /\ reported' = [reported EXCEPT ![t] = FALSE]
    /\ UNCHANGED <<round, found>>

Next == \E t \in Tasks : Begin(t) \/ Report(t) \/ Fail(t) \/ Submit(t)

\* every round begun ends: its results come back or it fails, and reported
\* results are submitted
Spec ==
    /\ Init
    /\ [][Next]_vars
    /\ \A t \in Tasks : WF_vars(Report(t) \/ Fail(t)) /\ WF_vars(Submit(t))

====
