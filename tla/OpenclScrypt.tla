---------------------------- MODULE OpenclScrypt ----------------------------
(***************************************************************************)
(* The scrypt OpenCL miner of src/coin/miner/miner-opencl.cpp.  Several    *)
(* ScryptOpenclTask objects (one per worker thread) share one OpenclMiner: *)
(* its ScratchBuffers and the ScratchQueue of <scratch buffer, event of    *)
(* the last kernel that used it>, guarded by MtxEvent.                     *)
(*                                                                         *)
(* A round of a task (ScryptOpenclTask::Run) enqueues on the task's own    *)
(* in-order command queue: a write of its io buffer, the ScryptCore kernel *)
(* on a scratch buffer (waiting for the previous kernel on that buffer),   *)
(* and a read of the io buffer whose completion callback                   *)
(* (ScryptOpenclTask::Callback -> OnComplete) parses the results and       *)
(* either starts the next round or marks the task complete.  The device    *)
(* runs the enqueued commands asynchronously.                              *)
(***************************************************************************)
EXTENDS Integers, Sequences, FiniteSets

CONSTANTS
    Tasks,            \* the ScryptOpenclTask objects of one device
    GlobalMemSize,    \* Device.GlobalMemSize
    MaxMemAllocSize,  \* Device.MaxMemAllocSize
    DeviceErrors      \* whether a kernel may end with an error status

ASSUME Tasks # {} /\ MaxMemAllocSize > 0 /\ GlobalMemSize > 0

(***************************************************************************)
(* OpenclMiner::SetDevicePortion (miner-opencl.cpp:95-104): one scratch    *)
(* buffer of (about) MaxMemAllocSize per step while two thirds of the      *)
(* global memory still exceed one allocation.                              *)
(***************************************************************************)
RECURSIVE ScratchCount(_, _)
ScratchCount(sizeToUse, size) ==
    IF sizeToUse > size THEN 1 + ScratchCount(sizeToUse - size, size) ELSE 0

NScratch == ScratchCount((GlobalMemSize * 2) \div 3, MaxMemAllocSize)
ScratchBuffers == 0..(NScratch - 1)


VARIABLES
    pc,        \* per task: "Idle" (not started), "Running" (commands in flight),
               \* "Callback" (read complete, callback pending), "Complete" (m_bComplete),
               \* "Failed" (the callback threw)
    stage,     \* per task: next command of its in-order queue: "W", "K", "Krun", "R", "Done"
    scratch,   \* per task: the scratch buffer its current kernel uses
    dep,       \* per task: the tasks whose pending kernel event its kernel waits for (events[1])
    poison,    \* per task: an event its kernel waits for ended with an error status
    squeue,    \* OpenclMiner::ScratchQueue: sequence of [s |-> buffer, ev |-> pending kernel
               \* event, bad |-> that event ended with an error status]
    stop,      \* m_pwt->m_bStop
    fault,     \* a Run took front() of an empty ScratchQueue
    err,       \* per task: its current round's commands ended with an error status
    wd,        \* per task: WorkData, as the parity of the rounds it was handed
    host,      \* per task: m_iodata, [kind |-> "in" (Prepare's salsa input) or
               \* "out" (the kernel's result), gen |-> the WorkData it stems from]
    iobuf,     \* per task: m_iobuf on the device, the same shape
    parsed     \* per task: what the last ParseResults read and the WorkData it
               \* took the nonces from, or NoParse

vars == <<pc, stage, scratch, dep, poison, squeue, stop, fault, err, wd, host, iobuf, parsed>>

NoParse == [data |-> [kind |-> "none", gen |-> 0], work |-> 0]

(***************************************************************************)
(* A task has at most one kernel that has not completed, so a pending      *)
(* kernel event is named by its task.  An event is a set: {t} while the    *)
(* kernel of t runs or waits, {} once it has completed (CL_COMPLETE).      *)
(***************************************************************************)
(***************************************************************************)
(* The MtxEvent critical section of ScryptOpenclTask::Run                  *)
(* (miner-opencl.cpp:368-383): take an unused scratch buffer while there   *)
(* is one, otherwise the oldest queued one together with the event of the  *)
(* kernel that last used it.  Returns the buffer, the event to wait for,   *)
(* the new ScratchQueue, and whether front() was taken of an empty queue.  *)
(***************************************************************************)
\* seeded fault: the reused buffer's entry is not popped from the ScratchQueue
PickScratch_nopop(t) ==
    IF Len(squeue) < NScratch
    THEN [s |-> Len(squeue), wait |-> {}, wbad |-> FALSE, q |-> Append(squeue, [s |-> Len(squeue), ev |-> {t}, bad |-> FALSE]), ub |-> FALSE]
    ELSE IF squeue = <<>> THEN [s |-> 0, wait |-> {}, wbad |-> FALSE, q |-> squeue, ub |-> TRUE]
    ELSE [s |-> Head(squeue).s, wait |-> Head(squeue).ev, wbad |-> Head(squeue).bad,
          q |-> Append(squeue, [s |-> Head(squeue).s, ev |-> {t}, bad |-> FALSE]), ub |-> FALSE]

\* seeded fault: the kernel on a reused buffer waits only for the io write
PickScratch_mut(t) ==
    IF Len(squeue) < NScratch
    THEN [s |-> Len(squeue), wait |-> {}, wbad |-> FALSE, q |-> Append(squeue, [s |-> Len(squeue), ev |-> {t}, bad |-> FALSE]), ub |-> FALSE]
    ELSE IF squeue = <<>> THEN [s |-> 0, wait |-> {}, wbad |-> FALSE, q |-> squeue, ub |-> TRUE]
    ELSE [s |-> Head(squeue).s, wait |-> {}, wbad |-> FALSE,
          q |-> Append(Tail(squeue), [s |-> Head(squeue).s, ev |-> {t}, bad |-> FALSE]), ub |-> FALSE]

PickScratch(t) ==
    IF Len(squeue) < NScratch
    THEN [s |-> Len(squeue), wait |-> {}, wbad |-> FALSE, q |-> Append(squeue, [s |-> Len(squeue), ev |-> {t}, bad |-> FALSE]), ub |-> FALSE]
    ELSE IF squeue = <<>> THEN [s |-> 0, wait |-> {}, wbad |-> FALSE, q |-> squeue, ub |-> TRUE]
    ELSE [s |-> Head(squeue).s, wait |-> Head(squeue).ev, wbad |-> Head(squeue).bad,
          q |-> Append(Tail(squeue), [s |-> Head(squeue).s, ev |-> {t}, bad |-> FALSE]), ub |-> FALSE]

\* Prepare: the new WorkData, and m_iodata filled with the shuffled PBKDF2
\* of each of its nonces
Prepare(t) ==
    LET g == 1 - wd[t]
    IN /\ wd' = [wd EXCEPT ![t] = g]
       /\ host' = [host EXCEPT ![t] = [kind |-> "in", gen |-> g]]

(***************************************************************************)
(* ScryptOpenclTask::Prepare + Run (miner-opencl.cpp:254-298, 364-390):    *)
(* the host fills the io buffer, then enqueues write, kernel and read.     *)
(* Only the MtxEvent section touches shared state, so the whole of Run is  *)
(* one step.  With an empty ScratchBuffers and ScratchQueue, front() of    *)
(* the empty std::queue is undefined: the kernel gets no valid buffer and  *)
(* the task never completes.                                               *)
(***************************************************************************)
RunRound(t) ==
    LET p == PickScratch(t)
    IN /\ Prepare(t)
       /\ IF p.ub
          THEN /\ fault' = TRUE
               /\ pc' = [pc EXCEPT ![t] = "Running"]
               /\ UNCHANGED <<stage, scratch, dep, poison, squeue, err>>
          ELSE /\ squeue' = p.q
               /\ scratch' = [scratch EXCEPT ![t] = p.s]
               /\ dep' = [dep EXCEPT ![t] = p.wait]
               /\ poison' = [poison EXCEPT ![t] = p.wbad]
               /\ stage' = [stage EXCEPT ![t] = "W"]
               /\ pc' = [pc EXCEPT ![t] = "Running"]
               /\ UNCHANGED <<fault, err>>

\* the worker thread starts its task (GpuMiner, not under src/): Prepare + Run
Start(t) ==
    /\ pc[t] = "Idle"
    /\ ~stop
    /\ RunRound(t)
    /\ UNCHANGED <<stop, iobuf, parsed>>

(***************************************************************************)
(* The device executes each task's in-order queue.                         *)
(***************************************************************************)
WriteDone(t) ==
    /\ stage[t] = "W"
    /\ stage' = [stage EXCEPT ![t] = "K"]
    /\ iobuf' = [iobuf EXCEPT ![t] = host[t]]
    /\ UNCHANGED <<pc, scratch, dep, poison, squeue, stop, fault, err, wd, host, parsed>>

\* enqueueNDRangeKernel(..., &events): starts once the previous kernel on the
\* same scratch buffer has completed
KernelStart(t) ==
    /\ stage[t] = "K"
    /\ dep[t] = {}
    /\ stage' = [stage EXCEPT ![t] = "Krun"]
    /\ UNCHANGED <<pc, scratch, dep, poison, squeue, stop, fault, err, wd, host, iobuf, parsed>>

\* the kernel's event completes, in the ScratchQueue and for every waiter;
\* ScryptCore turns the salsa input in m_iobuf into its result, in place
KernelEnd(t) ==
    /\ stage[t] = "Krun"
    /\ stage' = [stage EXCEPT ![t] = "R"]
    /\ squeue' = [i \in DOMAIN squeue |-> [squeue[i] EXCEPT !.ev = @ \ {t}]]
    /\ dep' = [u \in Tasks |-> dep[u] \ {t}]
    /\ iobuf' = [iobuf EXCEPT ![t].kind = IF @ = "in" THEN "out" ELSE "bad"]
    /\ UNCHANGED <<pc, scratch, poison, stop, fault, err, wd, host, parsed>>

(* A kernel event ends with an error status: it completes for the         *)
(* ScratchQueue entry and for every kernel waiting on it, both of which    *)
(* now hold a failed event; the read waiting on the kernel fails as well.  *)
FailEvent(t) ==
    /\ stage' = [stage EXCEPT ![t] = "R"]
    /\ squeue' = [i \in DOMAIN squeue |->
                    IF t \in squeue[i].ev THEN [squeue[i] EXCEPT !.ev = @ \ {t}, !.bad = TRUE]
                    ELSE squeue[i]]
    /\ dep' = [u \in Tasks |-> dep[u] \ {t}]
    /\ poison' = [u \in Tasks |-> poison[u] \/ t \in dep[u]]
    /\ err' = [err EXCEPT ![t] = TRUE]
    /\ UNCHANGED <<pc, scratch, stop, fault, wd, host, iobuf, parsed>>

\* the kernel ends with an error status (e.g. CL_OUT_OF_RESOURCES)
KernelFail(t) ==
    /\ DeviceErrors
    /\ stage[t] = "Krun"
    /\ FailEvent(t)

(* A kernel whose wait list holds a failed event: what it does is          *)
(* implementation-defined in OpenCL.  It either runs (KernelStart) or is   *)
(* not executed and its own event fails, which the next kernel on the same *)
(* scratch buffer, another task's, then waits on in turn.                  *)
KernelAbort(t) ==
    /\ stage[t] = "K"
    /\ dep[t] = {}
    /\ poison[t]
    /\ FailEvent(t)

\* the read copies m_iobuf into m_iodata; its event reaches CL_COMPLETE and
\* the callback is due.  After a kernel error the read fails and copies
\* nothing.
ReadDone(t) ==
    /\ stage[t] = "R"
    /\ stage' = [stage EXCEPT ![t] = "Done"]
    /\ pc' = [pc EXCEPT ![t] = "Callback"]
    /\ host' = IF err[t] THEN host ELSE [host EXCEPT ![t] = iobuf[t]]
    /\ UNCHANGED <<scratch, dep, poison, squeue, stop, fault, err, wd, iobuf, parsed>>

(***************************************************************************)
(* ScryptOpenclTask::OnComplete (miner-opencl.cpp:324-337): ParseResults, *)
(* CompleteRound, then the next round when the worker is not stopping and  *)
(* GetWorkForThread returns work, else m_bComplete and notify.  (The       *)
(* ParseResults conjunct comes last only so that TLC has the primed        *)
(* variables its seeded fault reads; it reads the unprimed state.)         *)
(***************************************************************************)
\* seeded fault: the next round is started without looking at m_bStop
ContinueMining_mut(t, work) == work

ContinueMining(t, work) == ~stop /\ work

\* seeded fault: ParseResults reads m_iodata and WorkData as the next
\* round's Prepare leaves them
ParseResults_late(t) ==
    parsed' = [parsed EXCEPT ![t] = [data |-> host'[t], work |-> wd'[t]]]

\* ParseResults: unshuffle each nonce's 128 bytes of m_iodata, finish the
\* PBKDF2 and submit WorkData->FirstNonce + n for every hit
ParseResults(t) ==
    parsed' = [parsed EXCEPT ![t] = [data |-> host[t], work |-> wd[t]]]

OnComplete(t) ==
    /\ pc[t] = "Callback"
    /\ ~err[t]
    /\ \E more \in BOOLEAN :
         IF ContinueMining(t, more)
         THEN RunRound(t) /\ UNCHANGED <<stop, iobuf>>
         ELSE /\ pc' = [pc EXCEPT ![t] = "Complete"]
              /\ UNCHANGED <<stage, scratch, dep, poison, squeue, stop, fault, err, wd, host, iobuf>>
    /\ ParseResults(t)

(***************************************************************************)
(* ScryptOpenclTask::Callback (miner-opencl.cpp:339-347) with a negative   *)
(* status: cl::ClCheck(st) throws on the runtime's callback thread and     *)
(* OnComplete is not called.  The exception leaves a C callback: the       *)
(* runtime drops it or the process terminates; either way the task never   *)
(* sets m_bComplete.  The model takes the first outcome.                   *)
(***************************************************************************)
CallbackError(t) ==
    /\ pc[t] = "Callback"
    /\ err[t]
    /\ pc' = [pc EXCEPT ![t] = "Failed"]
    /\ UNCHANGED <<stage, scratch, dep, poison, squeue, stop, fault, err, wd, host, iobuf, parsed>>

\* the worker thread is asked to stop (m_bStop)
SignalStop ==
    /\ ~stop
    /\ stop' = TRUE
    /\ UNCHANGED <<pc, stage, scratch, dep, poison, squeue, fault, err, wd, host, iobuf, parsed>>

\* no task has a command or a callback left: the device is idle for good
Finished ==
    /\ \A t \in Tasks : pc[t] \in {"Idle", "Complete", "Failed"}
    /\ UNCHANGED vars

\* OpenclMiner::CreateTask makes each ScryptOpenclTask: its own command
\* queue, m_iobuf, and m_iodata and m_ihashes sized for DevicePortion
Init ==
    /\ pc = [t \in Tasks |-> "Idle"]
    /\ stage = [t \in Tasks |-> "Done"]
    /\ scratch = [t \in Tasks |-> 0]
    /\ dep = [t \in Tasks |-> {}]
    /\ poison = [t \in Tasks |-> FALSE]
    /\ squeue = <<>>
    /\ stop = FALSE
    /\ fault = FALSE
    /\ err = [t \in Tasks |-> FALSE]
    /\ wd = [t \in Tasks |-> 0]
    /\ host = [t \in Tasks |-> NoParse.data]
    /\ iobuf = [t \in Tasks |-> NoParse.data]
    /\ parsed = [t \in Tasks |-> NoParse]

Next ==
    \/ \E t \in Tasks :
         \/ Start(t)
         \/ WriteDone(t)
         \/ KernelStart(t)
         \/ KernelEnd(t)
         \/ KernelFail(t)
         \/ KernelAbort(t)
         \/ ReadDone(t)
         \/ OnComplete(t)
         \/ CallbackError(t)
    \/ SignalStop
    \/ Finished

\* The device eventually executes every runnable command, and the OpenCL
\* runtime eventually invokes a registered completion callback.  A kernel
\* error is never forced: KernelFail and KernelAbort have no fairness.
Fairness ==
    \A t \in Tasks :
        /\ WF_vars(WriteDone(t))
        /\ WF_vars(KernelStart(t))
        /\ WF_vars(KernelEnd(t))
        /\ WF_vars(ReadDone(t))
        /\ WF_vars(OnComplete(t))
        /\ WF_vars(CallbackError(t))

Spec == Init /\ [][Next]_vars /\ Fairness

(***************************************************************************)
(* Properties                                                              *)
(***************************************************************************)
TypeOK ==
    /\ pc \in [Tasks -> {"Idle", "Running", "Callback", "Complete", "Failed"}]
    /\ stage \in [Tasks -> {"W", "K", "Krun", "R", "Done"}]
    /\ scratch \in [Tasks -> Nat]
    /\ dep \in [Tasks -> SUBSET Tasks]
    /\ poison \in [Tasks -> BOOLEAN]
    /\ squeue \in Seq([s : ScratchBuffers, ev : SUBSET Tasks, bad : BOOLEAN])
    /\ Len(squeue) <= NScratch
    /\ stop \in BOOLEAN
    /\ fault \in BOOLEAN
    /\ err \in [Tasks -> BOOLEAN]
    /\ wd \in [Tasks -> {0, 1}]
    /\ \A t \in Tasks : host[t].kind \in {"none", "in", "out", "bad"}

(* Every ParseResults parses the kernel's result for the WorkData whose    *)
(* nonces it submits: m_iodata then holds what the read copied back from   *)
(* m_iobuf after ScryptCore ran on the input Prepare made from that same   *)
(* WorkData, never the input itself, nor a result of the round before.   *)
ParsesOwnRound ==
    \A t \in Tasks :
        parsed[t] # NoParse => parsed[t].data = [kind |-> "out", gen |-> parsed[t].work]

(* Every Run obtains a scratch buffer: it never takes front() of an empty  *)
(* ScratchQueue because SetDevicePortion allocated no buffer.              *)
ScratchAvailable == ~fault

(* Once the worker is asked to stop, every task that was started           *)
(* eventually sets m_bComplete, so the worker waiting on CvComplete wakes  *)
(* up: no task keeps chaining rounds from its callback, and no kernel      *)
(* waits forever on another task's kernel.                                 *)
StopCompletesTasks ==
    stop ~> (\A t \in Tasks : pc[t] \in {"Idle", "Complete"})

(* With device errors: once the worker is asked to stop, every task either *)
(* completes or has had a kernel of its own fail, if only because it waited *)
(* on another task's failed event.  A failed event still completes for its *)
(* waiters, so it never leaves a kernel of another task waiting for ever,   *)
(* and no task that saw no error is kept from finishing.                   *)
StopEndsTasks ==
    stop ~> (\A t \in Tasks : pc[t] \in {"Idle", "Complete"} \/ err[t])

(***************************************************************************)
(* Refinement of ScratchLock.  The kernels of a buffer that have been      *)
(* enqueued and not finished form a chain: the oldest waits for nothing,   *)
(* each later one waits for the event of the one before it.               *)
(***************************************************************************)
Pending(s) == {t \in Tasks : stage[t] \in {"W", "K", "Krun"} /\ scratch[t] = s}

RECURSIVE ClaimChain(_, _, _)
ClaimChain(s, t, n) ==
    LET next == {u \in Pending(s) : dep[u] = {t}}
    IN <<t>> \o (IF next = {} \/ n = 0 THEN <<>>
                 ELSE ClaimChain(s, CHOOSE u \in next : TRUE, n - 1))

ClaimsOf(s) ==
    LET heads == {t \in Pending(s) : dep[t] = {}}
    IN IF heads = {} THEN <<>>
       ELSE ClaimChain(s, CHOOSE t \in heads : TRUE, Cardinality(Tasks))

SL == INSTANCE ScratchLock WITH
        Buffers <- ScratchBuffers,
        claims <- [s \in ScratchBuffers |-> ClaimsOf(s)],
        running <- [s \in ScratchBuffers |-> \E t \in Pending(s) : stage[t] = "Krun"]

(* The ScratchQueue implements a first-come first-served lock per scratch  *)
(* buffer: every kernel enqueued by Run on a buffer runs alone on it,      *)
(* after every kernel that claimed the buffer before it, and eventually.   *)
ImplementsScratchLock == SL!Spec

====
