------------------------------ MODULE XdmaPoll ------------------------------
(***************************************************************************)
(* Polled mode: the completion threads of xdma/xdma_thread.c, the          *)
(* write-back monitor and engine_service() as it runs without interrupts   *)
(* (xdma/libxdma.c), and the threads' and engines' life from creation to   *)
(* removal.                                                                *)
(*                                                                         *)
(* Each engine has one submitter at a time (desc_lock, see XdmaEngine),    *)
(* with one transfer of num[e] descriptors in hand.  The hardware writes   *)
(* the number of completed descriptors into host memory (wb) once per      *)
(* transfer, with the descriptor that carries the COMPLETED bit, or with   *)
(* an error flag when it stops.  Reading and clearing wb are two steps.    *)
(***************************************************************************)
EXTENDS Integers, Sequences, FiniteSets, SequencesExt

CONSTANTS
    Engines,    \* the DMA engines
    NumThreads, \* num_threads of xdma_threads_create(), or fewer CPUs
    Sizes,      \* possible numbers of descriptors of a transfer
    MaxCalls,   \* bound on the transfers of all engines
    Faults,     \* a subset of {"timeout", "error"}
    NoThread    \* engine->cmplthp is NULL

Threads == 1..NumThreads

ASSUME NumThreadsAssumption == NumThreads \in Nat \ {0}
ASSUME SizesAssumption      == Sizes \subseteq Nat \ {0}
ASSUME MaxCallsAssumption   == MaxCalls \in Nat
ASSUME NoThreadAssumption   == NoThread \notin Threads

VARIABLES
    tpc,        \* where each thread is in xthread_main()
    schedule,   \* thp->schedule
    stop,       \* kthread_should_stop()
    tlock,      \* lock_thread(thp) is held by the thread itself
    work_list,  \* thp->work_list
    work_cnt,   \* thp->work_cnt
    todo,       \* the work items still to process in this round
    expected,   \* expected_wb of engine_service_wb_monitor()
    got,        \* desc_wb
    cmplthp,    \* engine->cmplthp
    epc,        \* the engine's own life: absent, adding, ready, ...
    slot,       \* the thread xdma_thread_add_work() has picked
    stopper,    \* progress of xdma_threads_destroy(): thread and step
    spc,        \* where the engine's submitter is in xdma_xfer_submit()
    calls,      \* transfers submitted so far
    num,        \* the transfer's descriptors
    state,      \* the transfer's state
    listed,     \* it is on engine->transfer_list
    running,    \* engine->running
    hw,         \* the hardware: idle, running, or moving the last descriptor
    moved,      \* auxiliary: the current transfer was moved completely
    wb,         \* the write-back location
    hw_err,     \* latched error: none, or the number of descriptors completed
    dead_end    \* auxiliary: the hardware stopped before the first descriptor

thrVars == <<tpc, schedule, stop, tlock, todo, expected, got>>
workVars == <<work_list, work_cnt>>
lifeVars == <<cmplthp, epc, slot, stopper>>
subVars == <<spc, calls, num>>
engVars == <<state, listed, running>>
hwVars == <<hw, moved, wb, hw_err, dead_end>>
vars == <<thrVars, workVars, lifeVars, subVars, engVars, hwVars>>

NoWb == [count |-> 0, err |-> FALSE]

Init ==
    /\ tpc = [t \in Threads |-> "loop"]
    /\ schedule = [t \in Threads |-> FALSE]
    /\ stop = [t \in Threads |-> FALSE]
    /\ tlock = [t \in Threads |-> FALSE]
    /\ work_list = [t \in Threads |-> <<>>]
    /\ work_cnt = [t \in Threads |-> 0]
    /\ todo = [t \in Threads |-> <<>>]
    /\ expected = [t \in Threads |-> 0]
    /\ got = [t \in Threads |-> NoWb]
    /\ cmplthp = [e \in Engines |-> NoThread]
    /\ epc = [e \in Engines |-> "absent"]
    /\ slot = [e \in Engines |-> 1]
    /\ stopper = <<1, "begin">>
    /\ spc = [e \in Engines |-> "idle"]
    /\ calls = 0
    /\ num = [e \in Engines |-> 0]
    /\ state = [e \in Engines |-> "NEW"]
    /\ listed = [e \in Engines |-> FALSE]
    /\ running = [e \in Engines |-> FALSE]
    /\ hw = [e \in Engines |-> "idle"]
    /\ moved = [e \in Engines |-> FALSE]
    /\ wb = [e \in Engines |-> NoWb]
    /\ hw_err = [e \in Engines |-> -1]
    /\ dead_end = [e \in Engines |-> FALSE]
-----------------------------------------------------------------------------
(* xdma_thread_add_work() and xdma_thread_remove_work()                    *)

\* The scan of xdma_thread_add_work(): start from the first thread's count v;
\* a later thread without work ends the scan, one with fewer than v items is
\* taken (v itself is not updated).
PickThread(t) ==
    LET free == {u \in 2..NumThreads : work_cnt[u] = 0}
        less == {u \in 2..NumThreads : work_cnt[u] < work_cnt[1]}
    IN  IF free # {} THEN t \in free /\ \A u \in free : t <= u
        ELSE IF less # {} THEN t \in less /\ \A u \in less : u <= t
        ELSE t = 1

AddWorkScan(e) ==
    /\ epc[e] = "absent"
    /\ stopper = <<1, "begin">>
    /\ epc' = [epc EXCEPT ![e] = "adding"]
    /\ \E t \in Threads :
        /\ PickThread(t)
        /\ slot' = [slot EXCEPT ![e] = t]
    /\ UNCHANGED <<thrVars, workVars, cmplthp, stopper, subVars, engVars, hwVars>>

\* The list under the thread's lock, then engine->cmplthp under the engine's.
AddWork(e) ==
    LET t == slot[e] IN
    /\ epc[e] = "adding"
    /\ ~tlock[t]
    /\ work_list' = [work_list EXCEPT ![t] = Append(@, e)]
    /\ work_cnt' = [work_cnt EXCEPT ![t] = @ + 1]
    /\ epc' = [epc EXCEPT ![e] = "added"]
    /\ UNCHANGED <<thrVars, cmplthp, slot, stopper, subVars, engVars, hwVars>>

AddWorkDone(e) ==
    /\ epc[e] = "added"
    /\ epc' = [epc EXCEPT ![e] = "ready"]
    /\ cmplthp' = [cmplthp EXCEPT ![e] = slot[e]]
    /\ UNCHANGED <<thrVars, workVars, slot, stopper, subVars, engVars, hwVars>>

\* engine_destroy() takes an engine nobody uses out of its thread's hands ...
RemoveWork(e) ==
    /\ epc[e] = "ready"
    /\ spc[e] = "idle"
    /\ epc' = [epc EXCEPT ![e] = "removing"]
    /\ cmplthp' = [cmplthp EXCEPT ![e] = NoThread]
    /\ UNCHANGED <<thrVars, workVars, slot, stopper, subVars, engVars, hwVars>>

\* list_del() of the engine's node on the list of thread t.
ListDel(t, e) ==
    \E i \in 1..Len(work_list[t]) :
        /\ work_list[t][i] = e
        /\ work_list' = [work_list EXCEPT ![t] = RemoveAt(@, i)]

\* Mutant: the list is changed without lock_thread().
RemoveWorkUnlocked(e) ==
    LET t == slot[e] IN
    /\ epc[e] = "removing"
    /\ ListDel(t, e)
    /\ work_cnt' = [work_cnt EXCEPT ![t] = @ - 1]
    /\ epc' = [epc EXCEPT ![e] = "gone"]
    /\ UNCHANGED <<thrVars, cmplthp, slot, stopper, subVars, engVars, hwVars>>

\* ... and waits for the thread's lock before it leaves the list.
RemoveWorkList(e) ==
    LET t == slot[e] IN
    /\ epc[e] = "removing"
    /\ ~tlock[t]
    /\ ListDel(t, e)
    /\ work_cnt' = [work_cnt EXCEPT ![t] = @ - 1]
    /\ epc' = [epc EXCEPT ![e] = "gone"]
    /\ UNCHANGED <<thrVars, cmplthp, slot, stopper, subVars, engVars, hwVars>>

\* xdma_threads_destroy() after the last engine: xdma_kthread_stop() for each
\* thread sets thp->schedule, then kthread_stop() sets the stop flag, wakes the
\* thread and waits for its end.
StopSchedule ==
    LET t == stopper[1] IN
    /\ stopper[2] = "begin"
    /\ \A e \in Engines : epc[e] \in {"gone", "absent"}
    /\ schedule' = [schedule EXCEPT ![t] = TRUE]
    /\ stopper' = <<t, "flag">>
    /\ UNCHANGED <<tpc, stop, tlock, todo, expected, got, workVars, cmplthp,
                   epc, slot, subVars, engVars, hwVars>>

StopFlag ==
    LET t == stopper[1] IN
    /\ stopper[2] = "flag"
    /\ stop' = [stop EXCEPT ![t] = TRUE]
    /\ stopper' = <<t, "join">>
    /\ UNCHANGED <<tpc, schedule, tlock, todo, expected, got, workVars,
                   cmplthp, epc, slot, subVars, engVars, hwVars>>

\* The last thread has ended: cs_threads is freed.
StopJoin ==
    LET t == stopper[1] IN
    /\ stopper[2] = "join"
    /\ tpc[t] = "exit"
    /\ stopper' = IF t = NumThreads THEN <<t, "freed">> ELSE <<t + 1, "begin">>
    /\ UNCHANGED <<thrVars, workVars, cmplthp, epc, slot, subVars, engVars,
                   hwVars>>
-----------------------------------------------------------------------------
(* xthread_main()                                                          *)

TGoto(t, place) == tpc' = [tpc EXCEPT ![t] = place]

\* Mutant: only the first work item is asked.
PendingFirst(t) == work_list[t] # <<>> /\ listed[Head(work_list[t])]

\* xthread_work_pending().
Pending(t) == \E i \in 1..Len(work_list[t]) : listed[work_list[t][i]]

\* The processing loop starts with the lock held and thp->schedule cleared.
Begin(t) ==
    /\ tlock' = [tlock EXCEPT ![t] = TRUE]
    /\ schedule' = [schedule EXCEPT ![t] = FALSE]
    /\ todo' = [todo EXCEPT ![t] = work_list[t]]
    /\ TGoto(t, "proc")
    /\ UNCHANGED <<stop, expected, got, workVars, lifeVars, subVars, engVars,
                   hwVars>>

ThreadLoop(t) ==
    /\ tpc[t] = "loop"
    /\ \/ /\ stop[t]
          /\ TGoto(t, "exit")
       \/ /\ ~stop[t]
          /\ TGoto(t, "check")
    /\ UNCHANGED <<schedule, stop, tlock, todo, expected, got, workVars,
                   lifeVars, subVars, engVars, hwVars>>

\* Work is pending: process it with the lock kept.  Otherwise unlock and wait.
ThreadCheck(t) ==
    /\ tpc[t] = "check"
    /\ \/ /\ Pending(t)
          /\ Begin(t)
       \/ /\ ~Pending(t)
          /\ TGoto(t, "sleep")
          /\ UNCHANGED <<schedule, stop, tlock, todo, expected, got, workVars,
                         lifeVars, subVars, engVars, hwVars>>

\* xthread_reschedule() waits for thp->schedule, whatever woke the thread.
ThreadWake(t) ==
    /\ tpc[t] = "sleep"
    /\ schedule[t]
    /\ Begin(t)

\* xdma_thread_cmpl_status_proc() reads desc_cmpl_th of the head of the list.
\* With an empty list the word it reads lies in the engine itself and is the
\* free spinlock of shutdown_wq, 0.
Expected(e) == IF listed[e] THEN num[e] ELSE 0

\* The next work item: its expected count is read without engine->lock.
ThreadProc(t) ==
    /\ tpc[t] = "proc"
    /\ \/ /\ todo[t] = <<>>
          /\ tlock' = [tlock EXCEPT ![t] = FALSE]
          /\ TGoto(t, "loop")
          /\ UNCHANGED expected
       \/ /\ todo[t] # <<>>
          /\ expected' = [expected EXCEPT ![t] = Expected(Head(todo[t]))]
          /\ TGoto(t, "monitor")
          /\ UNCHANGED tlock
    /\ UNCHANGED <<schedule, stop, todo, got, workVars, lifeVars, subVars,
                   engVars, hwVars>>

\* The monitor's locals end with the item.
NextItem(t) ==
    /\ todo' = [todo EXCEPT ![t] = Tail(@)]
    /\ expected' = [expected EXCEPT ![t] = 0]
    /\ got' = [got EXCEPT ![t] = NoWb]
    /\ TGoto(t, "proc")

\* engine_service_wb_monitor() reads the write-back ...
MonitorRead(t) ==
    LET e == Head(todo[t]) IN
    /\ tpc[t] = "monitor"
    /\ expected[t] # 0
    /\ wb[e] # NoWb
    /\ got' = [got EXCEPT ![t] = wb[e]]
    /\ TGoto(t, "clear")
    /\ UNCHANGED <<schedule, stop, tlock, todo, expected, workVars, lifeVars,
                   subVars, engVars, hwVars>>

\* Mutant: the count must exceed the expected one.
EnoughMore(n, want) == n > want

Enough(n, want) == n >= want

\* ... clears it, and goes on polling if it is not what was expected.
MonitorClear(t) ==
    LET e == Head(todo[t]) IN
    /\ tpc[t] = "clear"
    /\ wb' = [wb EXCEPT ![e] = NoWb]
    /\ TGoto(t, IF got[t].err \/ Enough(got[t].count, expected[t])
                THEN "serve" ELSE "monitor")
    /\ UNCHANGED <<schedule, stop, tlock, todo, expected, got, workVars,
                   lifeVars, subVars, engVars, hw, moved, hw_err, dead_end>>

\* Nothing to wait for, or POLL_TIMEOUT_SECONDS are over with wb empty.
MonitorEnd(t) ==
    /\ tpc[t] = "monitor"
    /\ expected[t] = 0 \/ wb[Head(todo[t])] = NoWb
    /\ NextItem(t)
    /\ UNCHANGED <<schedule, stop, tlock, workVars, lifeVars, subVars, engVars,
                   hwVars>>

\* Mutant: off by one.
OutcomeOffByOne(e, count, err) ==
    IF count + 1 < num[e] THEN "FAILED" ELSE "COMPLETED"

\* The state engine_service() gives the listed transfer for `count` descriptors.
Outcome(e, count, err) ==
    IF err \/ count < num[e] THEN "FAILED" ELSE "COMPLETED"

\* engine_service_poll() calls engine_service() with what was read.  An error
\* reads and clears the status; its count is the write-back's or the counter's,
\* and with both 0 the transfer stays on the list.
Serve(t) ==
    LET e == Head(todo[t])
        count == IF got[t].count # 0 THEN got[t].count ELSE hw_err[e]
    IN
    /\ tpc[t] = "serve"
    /\ NextItem(t)
    /\ hw_err' = [hw_err EXCEPT ![e] = IF got[t].err THEN -1 ELSE @]
    /\ IF running[e]
       THEN /\ running' = [running EXCEPT ![e] = FALSE]
            /\ hw' = [hw EXCEPT ![e] = IF @ = "run" THEN "idle" ELSE @]
            /\ IF listed[e] /\ count > 0
               THEN /\ state' = [state EXCEPT ![e] = Outcome(e, count, got[t].err)]
                    /\ listed' = [listed EXCEPT ![e] = FALSE]
               ELSE UNCHANGED <<state, listed>>
       ELSE UNCHANGED <<engVars, hw>>
    /\ UNCHANGED <<schedule, stop, tlock, workVars, lifeVars, subVars, moved,
                   wb, dead_end>>
-----------------------------------------------------------------------------
(* The submitter, and the hardware (external)                              *)

SGoto(e, place) == spc' = [spc EXCEPT ![e] = place]

\* transfer_init(), transfer_queue() and engine_start(), which does not clear
\* the write-back.
Submit(e, n) ==
    /\ epc[e] = "ready"
    /\ spc[e] = "idle"
    /\ calls < MaxCalls
    /\ calls' = calls + 1
    /\ num' = [num EXCEPT ![e] = n]
    /\ state' = [state EXCEPT ![e] = "SUBMITTED"]
    /\ listed' = [listed EXCEPT ![e] = TRUE]
    /\ running' = [running EXCEPT ![e] = TRUE]
    /\ hw' = [hw EXCEPT ![e] = "run"]
    /\ moved' = [moved EXCEPT ![e] = FALSE]
    /\ SGoto(e, "wake")
    /\ UNCHANGED <<thrVars, workVars, lifeVars, wb, hw_err, dead_end>>

\* xdma_kthread_wakeup().
WakeThread(t) == schedule' = [schedule EXCEPT ![t] = TRUE]

SubmitWake(e) ==
    /\ spc[e] = "wake"
    /\ WakeThread(cmplthp[e])
    /\ SGoto(e, "wait")
    /\ UNCHANGED <<tpc, stop, tlock, todo, expected, got, workVars, lifeVars,
                   calls, num, engVars, hwVars>>

\* The wait ends; a transfer still SUBMITTED is aborted, the engine stopped.
SubmitEnd(e) ==
    /\ spc[e] = "wait"
    /\ state[e] # "SUBMITTED" \/ "timeout" \in Faults
    /\ SGoto(e, "idle")
    /\ IF state[e] = "SUBMITTED"
       THEN /\ state' = [state EXCEPT ![e] = "ABORTED"]
            /\ listed' = [listed EXCEPT ![e] = FALSE]
            /\ running' = [running EXCEPT ![e] = FALSE]
            /\ hw' = [hw EXCEPT ![e] = IF @ = "run" THEN "idle" ELSE @]
       ELSE UNCHANGED <<engVars, hw>>
    /\ UNCHANGED <<thrVars, workVars, lifeVars, calls, num, moved, wb, hw_err,
                   dead_end>>

\* All but the last descriptor are moved; the last one is in flight.
HwRun(e) ==
    /\ hw[e] = "run"
    /\ hw' = [hw EXCEPT ![e] = "last"]
    /\ UNCHANGED <<thrVars, workVars, lifeVars, subVars, engVars, moved, wb,
                   hw_err, dead_end>>

\* The last one is moved and the count written back.
HwLast(e) ==
    /\ hw[e] = "last"
    /\ hw' = [hw EXCEPT ![e] = "idle"]
    /\ moved' = [moved EXCEPT ![e] = TRUE]
    /\ wb' = [wb EXCEPT ![e] = [count |-> num[e], err |-> FALSE]]
    /\ UNCHANGED <<thrVars, workVars, lifeVars, subVars, engVars, hw_err,
                   dead_end>>

\* The hardware stops with an error after c of the descriptors.
HwError(e, c) ==
    /\ "error" \in Faults
    /\ hw[e] = "run"
    /\ c < num[e]
    /\ hw' = [hw EXCEPT ![e] = "idle"]
    /\ wb' = [wb EXCEPT ![e] = [count |-> c, err |-> TRUE]]
    /\ hw_err' = [hw_err EXCEPT ![e] = c]
    /\ dead_end' = [dead_end EXCEPT ![e] = @ \/ c = 0]
    /\ UNCHANGED <<thrVars, workVars, lifeVars, subVars, engVars, moved>>
-----------------------------------------------------------------------------
Thread(t) == ThreadLoop(t) \/ ThreadCheck(t) \/ ThreadWake(t) \/ ThreadProc(t)
             \/ MonitorRead(t) \/ MonitorClear(t) \/ MonitorEnd(t) \/ Serve(t)

Life(e) == AddWorkScan(e) \/ AddWork(e) \/ AddWorkDone(e)
           \/ RemoveWork(e) \/ RemoveWorkList(e)

Stopping == StopSchedule \/ StopFlag \/ StopJoin

Submitter(e) == SubmitWake(e) \/ SubmitEnd(e)

Hardware(e) == HwRun(e) \/ HwLast(e)

Next ==
    \/ \E t \in Threads : Thread(t)
    \/ \E e \in Engines :
        \/ Life(e)
        \/ \E n \in Sizes : Submit(e, n)
        \/ Submitter(e)
        \/ Hardware(e)
        \/ \E c \in 0..2 : HwError(e, c)
    \/ Stopping

\* Threads and submitters run, spinlocks are obtained, the hardware works.  New
\* calls, errors and the removal of an engine are not forced.
Fairness ==
    /\ \A t \in Threads : WF_vars(Thread(t))
    /\ \A e \in Engines :
        /\ WF_vars(Submitter(e))
        /\ WF_vars(Hardware(e))
        /\ SF_vars(AddWork(e))
        /\ SF_vars(RemoveWorkList(e))
    /\ WF_vars(Stopping)

Spec == Init /\ [][Next]_vars
FairSpec == Spec /\ Fairness
-----------------------------------------------------------------------------
(* Properties                                                              *)

Wb == [count : Nat, err : BOOLEAN]

TypeOK ==
    /\ tpc \in [Threads -> {"loop", "check", "sleep", "proc", "monitor", "clear",
                            "serve", "exit"}]
    /\ schedule \in [Threads -> BOOLEAN]
    /\ stop \in [Threads -> BOOLEAN]
    /\ tlock \in [Threads -> BOOLEAN]
    /\ work_list \in [Threads -> Seq(Engines)]
    /\ work_cnt \in [Threads -> Nat]
    /\ todo \in [Threads -> Seq(Engines)]
    /\ expected \in [Threads -> Nat]
    /\ got \in [Threads -> Wb]
    /\ cmplthp \in [Engines -> Threads \cup {NoThread}]
    /\ epc \in [Engines -> {"absent", "adding", "added", "ready", "removing",
                            "gone"}]
    /\ slot \in [Engines -> Threads]
    /\ stopper \in Threads \X {"begin", "flag", "join", "freed"}
    /\ spc \in [Engines -> {"idle", "wake", "wait"}]
    /\ calls \in 0..MaxCalls
    /\ num \in [Engines -> Nat]
    /\ state \in [Engines -> {"NEW", "SUBMITTED", "COMPLETED", "FAILED", "ABORTED"}]
    /\ listed \in [Engines -> BOOLEAN]
    /\ running \in [Engines -> BOOLEAN]
    /\ hw \in [Engines -> {"idle", "run", "last"}]
    /\ moved \in [Engines -> BOOLEAN]
    /\ wb \in [Engines -> Wb]
    /\ hw_err \in [Engines -> Int]
    /\ dead_end \in [Engines -> BOOLEAN]

Holds(t, e) == \E i \in 1..Len(work_list[t]) : work_list[t][i] = e

\* An engine is on the list of exactly the thread it was given to, work_cnt is
\* the length of the list, and once xdma_thread_remove_work() has returned no
\* thread has the engine in hand: engine_destroy() may free it.
WorkIsExact ==
    /\ \A t \in Threads : work_cnt[t] = Len(work_list[t])
    /\ \A e \in Engines :
        /\ \A t \in Threads :
            Holds(t, e) <=> t = slot[e] /\ epc[e] \in {"added", "ready", "removing"}
        /\ epc[e] \in {"absent", "gone"} =>
            \A t \in Threads : \A i \in 1..Len(todo[t]) : todo[t][i] # e

\* A thread that sleeps while a transfer is listed has been notified, or will
\* be by the submitter's next step: no wake-up is lost between the thread's
\* test of the lists and its wait.
NoLostWakeup ==
    \A e \in Engines :
        listed[e] /\ spc[e] = "wait" /\ epc[e] = "ready"
            /\ tpc[slot[e]] = "sleep"
                => schedule[slot[e]]

\* A transfer is COMPLETED only if the hardware has moved all of it.
PolledIsMoved == \A e \in Engines : state[e] = "COMPLETED" => moved[e]

\* Every queued transfer is settled, unless the hardware stopped before its
\* first descriptor (then only the submitter's timer ends the wait).
PollServes ==
    \A e \in Engines :
        state[e] = "SUBMITTED" ~> state[e] # "SUBMITTED" \/ dead_end[e]
-----------------------------------------------------------------------------
(* The inductive invariants of XdmaPollProofs                              *)

Busy == {"proc", "monitor", "clear", "serve"}

\* A thread has work items in hand only while it holds its lock, which keeps
\* them on its list.
HandInv(t) ==
    /\ tlock[t] <=> tpc[t] \in Busy
    /\ ~tlock[t] => todo[t] = <<>>
    /\ tpc[t] \in {"monitor", "clear", "serve"} => todo[t] # <<>>
    /\ \A i \in 1..Len(todo[t]) : Holds(t, todo[t][i])

\* What the lists are worth: an engine is once on the list of its thread.
WorkInv ==
    /\ \A t \in Threads : work_cnt[t] = Len(work_list[t])
    /\ \A t \in Threads, e \in Engines :
        Holds(t, e) <=> t = slot[e] /\ epc[e] \in {"added", "ready", "removing"}
    /\ \A t \in Threads : \A i, j \in 1..Len(work_list[t]) :
        work_list[t][i] = work_list[t][j] => i = j
    /\ \A t \in Threads : HandInv(t)

\* A submitter wakes the thread that has its engine.
WakeInv ==
    /\ \A e \in Engines :
        /\ spc[e] # "idle" => epc[e] = "ready"
        /\ epc[e] = "ready" => cmplthp[e] = slot[e]
    /\ NoLostWakeup

\* Without timeouts: what the write-back says of a listed transfer.
WbInv(e) ==
    /\ listed[e] <=> state[e] = "SUBMITTED"
    /\ spc[e] = "idle" => ~listed[e]
    /\ listed[e] => num[e] > 0
    /\ hw[e] # "idle" => listed[e] /\ running[e] /\ wb[e] = NoWb
    /\ ~listed[e] => wb[e] = NoWb
    /\ wb[e] # NoWb /\ ~wb[e].err => wb[e].count = num[e] /\ moved[e]
    /\ state[e] = "COMPLETED" => moved[e]

\* ... and what the monitor of thread t knows of engine e.
MonInv(t, e) ==
    /\ tpc[t] \in {"monitor", "clear", "serve"} /\ expected[t] # 0 =>
        listed[e] /\ expected[t] = num[e]
    /\ tpc[t] \in {"clear", "serve"} =>
        /\ expected[t] # 0
        /\ hw[e] = "idle"
        /\ ~got[t].err => got[t].count = num[e] /\ moved[e]
        /\ wb[e] = IF tpc[t] = "clear" THEN got[t] ELSE NoWb

MoveInv ==
    /\ \A e \in Engines : WbInv(e)
    /\ \A t \in Threads : todo[t] # <<>> => MonInv(t, Head(todo[t]))
=============================================================================
