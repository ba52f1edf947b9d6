---------------------------- MODULE OpenclSha256 ----------------------------
(***************************************************************************)
(* The SHA-256 OpenCL tasks of src/coin/miner/miner-opencl.cpp (OpenclTask) *)
(* and the one in-order command queue they share: for every hash algorithm *)
(* but scrypt the OpenclMiner constructor creates OpenclMiner::Queue, and   *)
(* every OpenclTask enqueues on m_clMiner.Queue.                            *)
(*                                                                         *)
(* A round (Prepare + Run) enqueues the task's `search' kernel and a       *)
(* non-blocking read of its result Buffer into its host array m_bufTest.   *)
(* The worker polls IsComplete and then calls ParseResults, which submits  *)
(* every non-zero slot when the found flag (m_bufTest[256]) is set, zeroes *)
(* m_bufTest and enqueues a write of it back to the Buffer, so the task's  *)
(* next round starts from an empty one.                                    *)
(*                                                                         *)
(* The kernel is not part of this repository: a round writes any of the    *)
(* nonces it hashes into any result slots and sets the flag.  The worker   *)
(* loop and GetWorkForThread (GpuMiner, not under src/) run Prepare + Run, *)
(* poll IsComplete and call ParseResults, MaxRounds times per task, each   *)
(* round over its own nonce range.                                         *)
(***************************************************************************)
EXTENDS Integers, Sequences, FiniteSets

CONSTANTS
    NTasks,        \* tasks GpuMiner created with CreateTask
    NSlots,        \* the 256 nonce slots before the found flag
    Npar,          \* m_nparOrig = LastNonce - FirstNonce + 1
    Start,         \* FirstNonce of the first range handed out
    MaxRounds,     \* rounds the worker runs per task
    DeviceErrors   \* whether a kernel may end with an error status

\* the OpenclTasks OpenclMiner::CreateTask made for HashAlgo::Sha256
Tasks == 1..NTasks
Slots == 0..(NSlots - 1)
Empty == [slots |-> [s \in Slots |-> 0], flag |-> FALSE]

VARIABLES
    queue,     \* OpenclMiner::Queue: the commands [task, cmd] not yet executed
    dev,       \* per task, its Buffer: [slots |-> nonces, flag |-> found flag]
    host,      \* per task, m_bufTest, the same layout
    ev,        \* per task, m_ev: "Queued", "Complete" or "Error"
    phase,     \* per task, its worker: "Ready", "Run" (polling), "Parse", "Failed"
    round,     \* per task, rounds started
    wslots,    \* per task, slots the kernel wrote this round
    subs,      \* per task, nonces the last ParseResults submitted (TestAndSubmit)
    got        \* per task, the nonces the kernel wrote this round, as read back

vars == <<queue, dev, host, ev, phase, round, wslots, subs, got>>

\* FirstNonce..LastNonce of round r of task t: GetWorkForThread hands every
\* round of every task a range of its own
WorkRange(t, r) ==
    LET first == Start + ((r - 1) * NTasks + (t - 1)) * Npar
    IN first..(first + Npar - 1)

\* the OpenclMiner constructor creates the shared queue (all but scrypt)
MinerInit == queue = <<>>

\* CreateTask then makes each OpenclTask, whose constructor zeroes m_buf,
\* the Buffer's host memory
Init ==
    /\ MinerInit
    /\ dev = [t \in Tasks |-> Empty]
    /\ host = [t \in Tasks |-> Empty]
    /\ ev = [t \in Tasks |-> "Complete"]
    /\ phase = [t \in Tasks |-> "Ready"]
    /\ round = [t \in Tasks |-> 0]
    /\ wslots = [t \in Tasks |-> {}]
    /\ subs = [t \in Tasks |-> {}]
    /\ got = [t \in Tasks |-> {}]

Cmd(t, c) == [task |-> t, cmd |-> c]

\* Prepare + Run: enqueueNDRangeKernel over the work range, then the
\* non-blocking enqueueReadBuffer whose event becomes m_ev, then flush
Run(t) ==
    /\ phase[t] = "Ready"
    /\ round[t] < MaxRounds
    /\ queue' = queue \o <<Cmd(t, "K"), Cmd(t, "R")>>
    /\ ev' = [ev EXCEPT ![t] = "Queued"]
    /\ phase' = [phase EXCEPT ![t] = "Run"]
    /\ round' = [round EXCEPT ![t] = @ + 1]
    /\ wslots' = [wslots EXCEPT ![t] = {}]
    /\ subs' = [subs EXCEPT ![t] = {}]
    /\ got' = [got EXCEPT ![t] = {}]
    /\ UNCHANGED <<dev, host>>

(***************************************************************************)
(* The device executes the in-order queue, one command at a time.          *)
(***************************************************************************)
HeadIs(c) == queue # <<>> /\ Head(queue).cmd = c

\* the kernel writes some of the nonces of its range into some slots
KernelDone ==
    /\ HeadIs("K")
    /\ LET t == Head(queue).task
       IN \E w \in [Slots -> {-1} \cup WorkRange(t, round[t])] :
            LET written == {s \in Slots : w[s] # -1}
            IN /\ dev' = [dev EXCEPT ![t] =
                            [slots |-> [s \in Slots |-> IF s \in written THEN w[s]
                                                        ELSE dev[t].slots[s]],
                             flag |-> dev[t].flag \/ written # {}]]
               /\ wslots' = [wslots EXCEPT ![t] = written]
    /\ queue' = Tail(queue)
    /\ UNCHANGED <<host, ev, phase, round, subs, got>>

\* the kernel ends with an error status; its task's read, which depends on
\* it, fails with it, and the commands of the other tasks go on
KernelFail ==
    /\ DeviceErrors
    /\ HeadIs("K")
    /\ LET t == Head(queue).task
           rest == Tail(queue)
           r == CHOOSE i \in DOMAIN rest : rest[i] = Cmd(t, "R")
       IN /\ queue' = SubSeq(rest, 1, r - 1) \o SubSeq(rest, r + 1, Len(rest))
          /\ ev' = [ev EXCEPT ![t] = "Error"]
    /\ UNCHANGED <<dev, host, phase, round, wslots, subs, got>>

\* the read copies the task's Buffer into its m_bufTest and completes m_ev
ReadDone ==
    /\ HeadIs("R")
    /\ LET t == Head(queue).task
       IN /\ host' = [host EXCEPT ![t] = dev[t]]
          /\ ev' = [ev EXCEPT ![t] = "Complete"]
          /\ got' = [got EXCEPT ![t] = {dev[t].slots[w] : w \in wslots[t]}]
    /\ queue' = Tail(queue)
    /\ UNCHANGED <<dev, phase, round, wslots, subs>>

\* the non-blocking write copies m_bufTest as it is when it executes
WriteDone ==
    /\ HeadIs("W")
    /\ LET t == Head(queue).task
       IN dev' = [dev EXCEPT ![t] = host[t]]
    /\ queue' = Tail(queue)
    /\ UNCHANGED <<host, ev, phase, round, wslots, subs, got>>

(***************************************************************************)
(* The worker of each task.                                                *)
(***************************************************************************)
\* IsComplete: true once m_ev is CL_COMPLETE; a negative status is thrown
\* by cl::ClCheck into the worker loop
IsComplete(t) ==
    /\ phase[t] = "Run"
    /\ ev[t] # "Queued"
    /\ phase' = [phase EXCEPT ![t] = IF ev[t] = "Complete" THEN "Parse" ELSE "Failed"]
    /\ UNCHANGED <<queue, dev, host, ev, round, wslots, subs, got>>

\* seeded fault: the results are not cleared after a hit
ParseResults_noreset(t) ==
    /\ phase[t] = "Parse"
    /\ subs' = [subs EXCEPT ![t] = IF host[t].flag
                                   THEN {host[t].slots[i] : i \in Slots} \ {0}
                                   ELSE {}]
    /\ phase' = [phase EXCEPT ![t] = "Ready"]
    /\ UNCHANGED <<queue, dev, host, ev, round, wslots, got>>

\* if (m_bufTest[256]): submit every slot holding a non-zero nonce, then
\* ZeroStruct(m_bufTest) and enqueueWriteBuffer(Buffer, false, ..., m_bufTest)
ParseResults(t) ==
    /\ phase[t] = "Parse"
    /\ IF host[t].flag
       THEN /\ subs' = [subs EXCEPT ![t] = {host[t].slots[i] : i \in Slots} \ {0}]
            /\ host' = [host EXCEPT ![t] = Empty]
            /\ queue' = Append(queue, Cmd(t, "W"))
       ELSE /\ subs' = [subs EXCEPT ![t] = {}]
            /\ UNCHANGED <<host, queue>>
    /\ phase' = [phase EXCEPT ![t] = "Ready"]
    /\ UNCHANGED <<dev, ev, round, wslots, got>>

\* every worker has run its rounds or stopped on an exception
Finished ==
    /\ queue = <<>>
    /\ \A t \in Tasks : phase[t] = "Failed" \/ (phase[t] = "Ready" /\ round[t] = MaxRounds)
    /\ UNCHANGED vars

DeviceStep == KernelDone \/ KernelFail \/ ReadDone \/ WriteDone

Next ==
    \/ \E t \in Tasks : Run(t) \/ IsComplete(t) \/ ParseResults(t)
    \/ DeviceStep
    \/ Finished

\* The device runs what is queued (a kernel error is never forced) and
\* every worker keeps polling.
Spec == /\ Init /\ [][Next]_vars
        /\ WF_vars(KernelDone \/ ReadDone \/ WriteDone)
        /\ \A t \in Tasks : WF_vars(IsComplete(t)) /\ WF_vars(ParseResults(t))

(***************************************************************************)
(* Properties                                                              *)
(***************************************************************************)

(* Every share the kernel reports is submitted: once a round is parsed,    *)
(* each nonce it left in a result slot has gone to TestAndSubmit.          *)
ReportedShareSubmitted ==
    \A t \in Tasks : (phase[t] = "Ready" /\ round[t] > 0) => got[t] \subseteq subs[t]

(***************************************************************************)
(* Refinement of MinerRounds: a round is mining from Run until             *)
(* ParseResults, its results are reported once the read has completed, and *)
(* what it found is what its own kernel wrote and the read brought back.   *)
(***************************************************************************)
MR == INSTANCE MinerRounds WITH
        phase <- [t \in Tasks |-> IF phase[t] \in {"Run", "Parse"} THEN "Mining" ELSE phase[t]],
        reported <- [t \in Tasks |-> phase[t] \in {"Run", "Parse"} /\ ev[t] = "Complete"],
        found <- got

(* The tasks on the shared queue behave as MinerRounds says: each round of *)
(* a task submits exactly the nonces its own kernel reported in its own    *)
(* range, nothing left over from an earlier round or written by another    *)
(* task, and ends, whatever the other tasks' commands between its kernel,  *)
(* its read and its reset write.                                           *)
ImplementsMinerRounds == MR!Spec

====
