---------------------------- MODULE ScratchLock ----------------------------
(***************************************************************************)
(* What the ScratchQueue of miner-opencl.cpp promises its tasks: every     *)
(* scratch buffer is a first-come first-served lock.  A task claims one    *)
(* buffer for the kernel of its round; on each buffer the kernels run one  *)
(* at a time, in the order the buffer was claimed, and every claim is      *)
(* eventually served, or given up in its turn without running.  A task    *)
(* has at most one claim open.                                             *)
(***************************************************************************)
EXTENDS Sequences, SequencesExt

CONSTANTS Tasks, Buffers

VARIABLES
    claims,   \* per buffer: the tasks whose kernel claimed it and has not finished, oldest first
    running   \* per buffer: whether the oldest claim's kernel is running

vars == <<claims, running>>

Claiming == UNION {ToSet(claims[b]) : b \in Buffers}

Init ==
    /\ claims = [b \in Buffers |-> <<>>]
    /\ running = [b \in Buffers |-> FALSE]

Claim(t, b) ==
    /\ t \notin Claiming
    /\ claims' = [claims EXCEPT ![b] = Append(@, t)]
    /\ UNCHANGED running

Begin(b) ==
    /\ claims[b] # <<>>
    /\ ~running[b]
    /\ running' = [running EXCEPT ![b] = TRUE]
    /\ UNCHANGED claims

Finish(b) ==
    /\ running[b]
    /\ claims' = [claims EXCEPT ![b] = Tail(@)]
    /\ running' = [running EXCEPT ![b] = FALSE]

\* the oldest claim is given up without running (its kernel was not executed)
Withdraw(b) ==
    /\ claims[b] # <<>>
    /\ ~running[b]
    /\ claims' = [claims EXCEPT ![b] = Tail(@)]
    /\ UNCHANGED running

Next ==
    \/ \E t \in Tasks, b \in Buffers : Claim(t, b)
    \/ \E b \in Buffers : Begin(b) \/ Finish(b) \/ Withdraw(b)

Spec ==
    /\ Init
    /\ [][Next]_vars
    /\ \A b \in Buffers : WF_vars(Begin(b)) /\ WF_vars(Finish(b))

====
