----------------------------- MODULE XdmaEngine -----------------------------
(***************************************************************************)
(* One SG DMA engine of the XDMA driver in interrupt mode: the synchronous *)
(* submit path xdma_xfer_submit(), the transfer queue, engine_start() and  *)
(* engine_service(), the interrupt and its work item, timeouts, and taking *)
(* the device offline and online again (xdma/libxdma.c).                   *)
(*                                                                         *)
(* A request is one call of xdma_xfer_submit().  Lengths are counted in    *)
(* descriptors.  Every critical section under engine->lock is one step,    *)
(* except engine_service(), which reads two registers the hardware changes *)
(* meanwhile and is therefore two steps with the lock held between them.   *)
(*                                                                         *)
(* The hardware side of the registers (the hw variables) is external to   *)
(* the repository and modelled from how libxdma.c uses it.                *)
(***************************************************************************)
EXTENDS Integers, Sequences, FiniteSets

CONSTANTS
    Requests,   \* the calls of xdma_xfer_submit() on this engine
    Sizes,      \* possible values of req->sw_desc_cnt
    DescMax,    \* engine->desc_max, the descriptors in the ring
    Faults,     \* what may go wrong, a subset of AllFaults
    NoReq,      \* desc_lock is free
    NoDesc      \* a descriptor cleared by xdma_desc_done(); nothing in flight

\* "timeout": a wait ends early (time or signal); "error": the hardware reports
\* an error; "late_busy": BUSY is read as still set ("older HW has a race",
\* libxdma.c:893); "offline": the PCI core takes the device offline; "dead":
\* while it is offline its registers do not answer.
AllFaults == {"timeout", "error", "late_busy", "offline", "dead"}

Desc == [req : Requests, k : Nat, stop : BOOLEAN]

ASSUME DescMaxAssumption == DescMax \in Nat \ {0}
ASSUME SizesAssumption   == Sizes \subseteq Nat \ {0}
ASSUME FaultsAssumption  == Faults \subseteq AllFaults
ASSUME NoReqAssumption   == NoReq \notin Requests
ASSUME NoDescAssumption  == NoDesc \notin Desc

VARIABLES
    pc,             \* where each request is in xdma_xfer_submit()
    sw_desc_cnt,    \* descriptors the request needs
    sw_desc_idx,    \* descriptors already built into transfers
    done,           \* descriptors accounted to the caller
    rv,             \* the error the request has met
    ret,            \* what the call has returned: a count or an error
    mapped,         \* the request's pages are DMA mapped
    xfer,           \* req->tfer[0]: state, ring index and length
    desc_lock,      \* holder of engine->desc_lock
    desc_idx,       \* next ring entry transfer_init() hands out
    desc_used,      \* engine->desc_used
    desc,           \* the ring of descriptors in coherent memory
    transfer_list,  \* engine->transfer_list
    running,        \* engine->running
    shutdown,       \* engine->shutdown, as a set of flags
    desc_dequeued,  \* engine->desc_dequeued
    status_err,     \* an error bit is set in engine->status
    lock,           \* engine_service_work() holds engine->lock
    work,           \* engine->work is scheduled
    irq_enabled,    \* the channel interrupt is enabled in the device
    irq_line,       \* the interrupt handler is installed
    offline,        \* XDEV_FLAG_OFFLINE
    admin,          \* progress of xdma_device_offline() / _online()
    hw_run,         \* RUN_STOP bit of the control register
    hw_next,        \* ring entry the hardware fetches next, DescMax if none
    hw_fly,         \* the descriptor whose data is being moved
    hw_stale,       \* hw_fly was fetched before the latest start
    hw_count,       \* completed_desc_count
    hw_status,      \* latched status bits
    moved           \* per request, the descriptors whose data was moved

reqVars == <<pc, sw_desc_cnt, sw_desc_idx, done, rv, ret, mapped, xfer>>
ringVars == <<desc_lock, desc_idx, desc_used, desc>>
engVars == <<transfer_list, running, shutdown, desc_dequeued, status_err, lock>>
irqVars == <<work, irq_enabled, irq_line>>
devVars == <<offline, admin>>
hwVars == <<hw_run, hw_next, hw_fly, hw_stale, hw_count, hw_status, moved>>
vars == <<reqVars, ringVars, engVars, irqVars, devVars, hwVars>>

States == {"NEW", "SUBMITTED", "COMPLETED", "FAILED", "ABORTED"}
Errors == {"none", "EIO", "ENOMEM", "EBUSY", "ERESTARTSYS"}
Places == {"idle", "mutex", "init", "check", "queue", "wait", "settle",
           "destroy", "unmap", "returned"}
\* Places at which the request holds desc_lock.
Locked == {"init", "check", "queue", "wait", "settle", "destroy"}
\* Places at which req->tfer[0] may be on the engine's list.
Queued == {"wait", "settle"}

Xfer == [state : States, index : 0..(DescMax - 1), num : 0..DescMax]

Init ==
    /\ pc = [r \in Requests |-> "idle"]
    /\ sw_desc_cnt = [r \in Requests |-> 0]
    /\ sw_desc_idx = [r \in Requests |-> 0]
    /\ done = [r \in Requests |-> 0]
    /\ rv = [r \in Requests |-> "none"]
    /\ ret = [r \in Requests |-> [count |-> 0, error |-> "none"]]
    /\ mapped = [r \in Requests |-> FALSE]
    /\ xfer = [r \in Requests |-> [state |-> "NEW", index |-> 0, num |-> 0]]
    /\ desc_lock = NoReq
    /\ desc_idx = 0
    /\ desc_used = 0
    /\ desc = [i \in 0..(DescMax - 1) |-> NoDesc]
    /\ transfer_list = <<>>
    /\ running = FALSE
    /\ shutdown = {}
    /\ desc_dequeued = 0
    /\ status_err = FALSE
    /\ lock = FALSE
    /\ work = FALSE
    /\ irq_enabled = TRUE
    /\ irq_line = TRUE
    /\ offline = FALSE
    /\ admin = "up"
    /\ hw_run = FALSE
    /\ hw_next = DescMax
    /\ hw_fly = NoDesc
    /\ hw_stale = FALSE
    /\ hw_count = 0
    /\ hw_status = {}
    /\ moved = [r \in Requests |-> {}]
-----------------------------------------------------------------------------
(* Register writes and the engine's own bookkeeping around them.           *)

\* The status register's BUSY bit.
Busy == hw_next # DescMax \/ hw_fly # NoDesc

\* Clearing RUN_STOP ends fetching; the descriptor in flight is still moved.
HwStop ==
    /\ hw_run' = FALSE
    /\ hw_next' = DescMax

\* Setting RUN_STOP starts at first_desc with a fresh descriptor count.
HwStart(first) ==
    /\ hw_run' = TRUE
    /\ hw_next' = first
    /\ hw_count' = 0
    /\ hw_stale' = (hw_fly # NoDesc)

\* Mutant: the flag is cleared, the register is not written.
EngineStopFlagOnly ==
    /\ running' = FALSE
    /\ UNCHANGED <<hw_run, hw_next>>

\* xdma_engine_stop(): the engine counts as stopped at once.
EngineStop ==
    /\ HwStop
    /\ running' = FALSE

\* engine_start() on the head of the queue `list`, whose transfers are `xf`.
\* (The status it reads into engine->status is read again before it is used.)
EngineStart(list, xf) ==
    /\ HwStart(xf[list[1]].index)
    /\ shutdown' = {}
    /\ desc_dequeued' = 0
    /\ running' = TRUE
-----------------------------------------------------------------------------
(* xdma_xfer_submit()                                                      *)

Goto(r, place) == pc' = [pc EXCEPT ![r] = place]

\* Mutant: an error is returned beside the count.
ReturnValueBoth(count, error) == [count |-> count, error |-> error]

\* "as long as some data is processed, return the count": the error only if
\* nothing was accounted to the caller.
ReturnValue(count, error) ==
    [count |-> count, error |-> IF count > 0 THEN "none" ELSE error]

\* The argument checks pass, the pages are mapped, the request is built.
Submit(r, n) ==
    /\ pc[r] = "idle"
    /\ ~offline
    /\ sw_desc_cnt' = [sw_desc_cnt EXCEPT ![r] = n]
    /\ mapped' = [mapped EXCEPT ![r] = TRUE]
    /\ Goto(r, "mutex")
    /\ UNCHANGED <<sw_desc_idx, done, rv, ret, xfer, ringVars, engVars,
                   irqVars, devVars, hwVars>>

\* The device is offline, pci_map_sg() fails, or (after mapping, and undone
\* again) the request cannot be allocated.
SubmitRefused(r, e) ==
    /\ pc[r] = "idle"
    /\ e \in IF offline THEN {"EBUSY"} ELSE {"EIO", "ENOMEM"}
    /\ rv' = [rv EXCEPT ![r] = e]
    /\ ret' = [ret EXCEPT ![r] = ReturnValue(0, e)]
    /\ Goto(r, "returned")
    /\ UNCHANGED <<sw_desc_cnt, sw_desc_idx, done, mapped, xfer, ringVars,
                   engVars, irqVars, devVars, hwVars>>

\* mutex_lock(&engine->desc_lock).
LockDesc(r) ==
    /\ pc[r] = "mutex"
    /\ desc_lock = NoReq
    /\ desc_lock' = r
    /\ Goto(r, "init")
    /\ UNCHANGED <<sw_desc_cnt, sw_desc_idx, done, rv, ret, mapped, xfer,
                   desc_idx, desc_used, desc, engVars, irqVars, devVars,
                   hwVars>>

\* The descriptors transfer_init() takes: what is left, cut at the ring's end.
DescNum(r) ==
    LET left == sw_desc_cnt[r] - sw_desc_idx[r]
        want == IF left < DescMax THEN left ELSE DescMax
    IN  IF desc_idx + want >= DescMax THEN DescMax - desc_idx ELSE want

\* Where the ring continues after n descriptors.
NextDescIdx(n) == (desc_idx + n) % DescMax

\* transfer_init() and transfer_build(): fill ring entries from desc_idx on,
\* the last one with the STOP bit.
TransferInit(r) ==
    /\ pc[r] = "init"
    /\ ~lock
    /\ LET n == DescNum(r) IN
        /\ xfer' = [xfer EXCEPT ![r] =
                        [state |-> "NEW", index |-> desc_idx, num |-> n]]
        /\ desc' = [i \in 0..(DescMax - 1) |->
                        IF desc_idx <= i /\ i < desc_idx + n
                        THEN [req |-> r, k |-> sw_desc_idx[r] + (i - desc_idx),
                              stop |-> (i = desc_idx + n - 1)]
                        ELSE desc[i]]
        /\ sw_desc_idx' = [sw_desc_idx EXCEPT ![r] = @ + n]
        /\ desc_idx' = NextDescIdx(n)
        /\ desc_used' = desc_used + n
    /\ Goto(r, "check")
    /\ UNCHANGED <<sw_desc_cnt, done, rv, ret, mapped, desc_lock, engVars,
                   irqVars, devVars, hwVars>>

\* Mutant: the error path forgets mutex_unlock().
QueueRefusedLocked(r) ==
    /\ rv' = [rv EXCEPT ![r] = "EBUSY"]
    /\ Goto(r, "unmap")
    /\ UNCHANGED <<sw_desc_cnt, sw_desc_idx, done, ret, mapped, xfer, ringVars,
                   engVars, irqVars, devVars, hwVars>>

\* transfer_queue() fails: xdma_xfer_submit() releases desc_lock and keeps
\* desc_used as transfer_init() left it.
QueueRefused(r) ==
    /\ rv' = [rv EXCEPT ![r] = "EBUSY"]
    /\ desc_lock' = NoReq
    /\ Goto(r, "unmap")
    /\ UNCHANGED <<sw_desc_cnt, sw_desc_idx, done, ret, mapped, xfer, desc_idx,
                   desc_used, desc, engVars, irqVars, devVars, hwVars>>

\* transfer_queue() looks at XDEV_FLAG_OFFLINE before it takes engine->lock.
TransferQueueCheck(r) ==
    /\ pc[r] = "check"
    /\ \/ offline /\ QueueRefused(r)
       \/ /\ ~offline
          /\ Goto(r, "queue")
          /\ UNCHANGED <<sw_desc_cnt, sw_desc_idx, done, rv, ret, mapped, xfer,
                         ringVars, engVars, irqVars, devVars, hwVars>>

\* transfer_queue() under engine->lock: append, and start an idle engine.
TransferQueue(r) ==
    /\ pc[r] = "queue"
    /\ ~lock
    /\ \/ "REQUEST" \in shutdown /\ QueueRefused(r)
       \/ /\ "REQUEST" \notin shutdown
          /\ xfer' = [xfer EXCEPT ![r].state = "SUBMITTED"]
          /\ transfer_list' = Append(transfer_list, r)
          /\ \/ ~running /\ EngineStart(transfer_list', xfer')
             \/ running /\ UNCHANGED <<running, shutdown, desc_dequeued,
                                       hw_run, hw_next, hw_count, hw_stale>>
          /\ Goto(r, "wait")
          /\ UNCHANGED <<sw_desc_cnt, sw_desc_idx, done, rv, ret, mapped,
                         ringVars, status_err, lock, irqVars, devVars, hw_fly,
                         hw_status, moved>>

\* The wait ends because the transfer is no longer SUBMITTED ...
Woken(r) ==
    /\ pc[r] = "wait"
    /\ xfer[r].state # "SUBMITTED"
    /\ Goto(r, "settle")
    /\ UNCHANGED <<sw_desc_cnt, sw_desc_idx, done, rv, ret, mapped, xfer,
                   ringVars, engVars, irqVars, devVars, hwVars>>

\* Mutant: the result of the wait decides, not the transfer's state.
TimeoutFails(r) ==
    /\ pc[r] = "wait"
    /\ "timeout" \in Faults
    /\ ~lock
    /\ xfer' = [xfer EXCEPT ![r].state = "FAILED"]
    /\ transfer_list' = SelectSeq(transfer_list, LAMBDA q : q # r)
    /\ EngineStop
    /\ Goto(r, "settle")
    /\ UNCHANGED <<sw_desc_cnt, sw_desc_idx, done, rv, ret, mapped, ringVars,
                   shutdown, desc_dequeued, status_err, lock, irqVars, devVars,
                   hw_fly, hw_stale, hw_count, hw_status, moved>>

\* ... or because time is up or a signal arrived.
Timeout(r) ==
    /\ pc[r] = "wait"
    /\ "timeout" \in Faults
    /\ Goto(r, "settle")
    /\ UNCHANGED <<sw_desc_cnt, sw_desc_idx, done, rv, ret, mapped, xfer,
                   ringVars, engVars, irqVars, devVars, hwVars>>

\* Mutant: transfer_abort() without list_del().
AbortedListKept(r) == transfer_list

\* transfer_abort() takes the transfer off the list if it is the head.
AbortedList(r) ==
    IF transfer_list # <<>> /\ Head(transfer_list) = r
    THEN Tail(transfer_list) ELSE transfer_list

\* transfer_abort() marks a transfer that is still SUBMITTED.
AbortedState(r) ==
    IF xfer[r].state = "SUBMITTED" THEN "ABORTED" ELSE xfer[r].state

\* The switch on the transfer's state, under engine->lock.
Settle(r) ==
    /\ pc[r] = "settle"
    /\ ~lock
    /\ Goto(r, "destroy")
    /\ \/ /\ xfer[r].state = "COMPLETED"
          /\ done' = [done EXCEPT ![r] = @ + xfer[r].num]
          /\ UNCHANGED <<rv, xfer, transfer_list, running, hw_run, hw_next>>
       \/ /\ xfer[r].state = "FAILED"
          /\ rv' = [rv EXCEPT ![r] = "EIO"]
          /\ UNCHANGED <<done, xfer, transfer_list, running, hw_run, hw_next>>
       \/ /\ xfer[r].state = "SUBMITTED"          \* abort and stop the engine
          /\ rv' = [rv EXCEPT ![r] = "ERESTARTSYS"]
          /\ transfer_list' = AbortedList(r)
          /\ xfer' = [xfer EXCEPT ![r].state = AbortedState(r)]
          /\ EngineStop
          /\ UNCHANGED done
       \/ /\ xfer[r].state = "SUBMITTED"          \* engine_reg_dump() failed
          /\ "dead" \in Faults /\ admin = "down"
          /\ rv' = [rv EXCEPT ![r] = "ERESTARTSYS"]
          /\ UNCHANGED <<done, xfer, transfer_list, running, hw_run, hw_next>>
    /\ UNCHANGED <<sw_desc_cnt, sw_desc_idx, ret, mapped, ringVars, shutdown,
                   desc_dequeued, status_err, lock, irqVars, devVars, hw_fly,
                   hw_stale, hw_count, hw_status, moved>>

\* Mutant: descriptors are given back only after a success.
DescUsedAfterLeaky(r) ==
    IF rv[r] = "none" THEN desc_used - xfer[r].num ELSE desc_used

\* desc_used once the transfer's descriptors are given back.
DescUsedAfter(r) == desc_used - xfer[r].num

\* Mutant: every transfer counts as the request's last.
LastInRequestAlways(r) == TRUE

\* xfer->last_in_request: the transfer covers the rest of the request.
LastInRequest(r) == sw_desc_idx[r] = sw_desc_cnt[r]

\* transfer_destroy() clears the descriptors, and unmaps after the last
\* transfer; then the next transfer, or desc_lock is released.
Destroy(r) ==
    LET over == rv[r] # "none" \/ sw_desc_idx[r] = sw_desc_cnt[r] IN
    /\ pc[r] = "destroy"
    /\ desc_used' = DescUsedAfter(r)
    /\ desc' = [i \in 0..(DescMax - 1) |->
                    IF xfer[r].index <= i /\ i < xfer[r].index + xfer[r].num
                    THEN NoDesc ELSE desc[i]]
    /\ mapped' = [mapped EXCEPT ![r] = @ /\ ~LastInRequest(r)]
    /\ Goto(r, IF over THEN "unmap" ELSE "init")
    /\ desc_lock' = IF over THEN NoReq ELSE r
    /\ UNCHANGED <<sw_desc_cnt, sw_desc_idx, done, rv, ret, xfer, desc_idx,
                   engVars, irqVars, devVars, hwVars>>

\* The label unmap_sgl: unmap what is still mapped, free the request, and
\* return the descriptors accounted or, if there are none, the error.
UnmapReturn(r) ==
    /\ pc[r] = "unmap"
    /\ mapped' = [mapped EXCEPT ![r] = FALSE]
    /\ ret' = [ret EXCEPT ![r] = ReturnValue(done[r], rv[r])]
    /\ Goto(r, "returned")
    /\ UNCHANGED <<sw_desc_cnt, sw_desc_idx, done, rv, xfer, ringVars, engVars,
                   irqVars, devVars, hwVars>>
-----------------------------------------------------------------------------
(* Interrupt and bottom half                                               *)

\* xdma_channel_irq() / xdma_isr(): mask the channel, schedule the work.
Isr ==
    /\ irq_line /\ irq_enabled /\ hw_status # {}
    /\ irq_enabled' = FALSE
    /\ work' = TRUE
    /\ UNCHANGED <<reqVars, ringVars, engVars, irq_line, devVars, hwVars>>

\* engine_service_work() unmasks the channel after the service.
Reenable == irq_enabled' = TRUE

\* Mutant: an engine that reads as busy is left for the next interrupt.
ServiceStatusWaitsIdle ==
    /\ work
    /\ ~lock
    /\ work' = FALSE
    /\ \/ /\ ~running
          /\ Reenable
          /\ hw_status' = {}
          /\ UNCHANGED <<running, status_err, lock, hw_run, hw_next>>
       \/ /\ running /\ ~Busy
          /\ lock' = TRUE
          /\ hw_status' = {}
          /\ status_err' = ("ERR" \in hw_status)
          /\ EngineStop
          /\ UNCHANGED irq_enabled
       \/ /\ running
          /\ Busy \/ "late_busy" \in Faults
          /\ Reenable
          /\ UNCHANGED <<hw_status, running, status_err, lock, hw_run, hw_next>>
    /\ UNCHANGED <<reqVars, ringVars, transfer_list, shutdown, desc_dequeued,
                   irq_line, devVars, hw_fly, hw_stale, hw_count, moved>>

\* engine_service(), first half: a stopped engine only has its status cleared;
\* otherwise read and clear the status and stop an engine that is not busy.
ServiceStatus ==
    /\ work
    /\ ~lock
    /\ work' = FALSE
    /\ hw_status' = {}
    /\ status_err' = ("ERR" \in hw_status)
    /\ \/ /\ ~running
          /\ Reenable
          /\ UNCHANGED <<running, lock, hw_run, hw_next>>
       \/ /\ running
          /\ lock' = TRUE
          /\ \/ ~Busy /\ EngineStop
             \/ /\ Busy \/ "late_busy" \in Faults
                /\ UNCHANGED <<running, hw_run, hw_next>>
          /\ UNCHANGED irq_enabled
    /\ UNCHANGED <<reqVars, ringVars, transfer_list, shutdown, desc_dequeued,
                   irq_line, devVars, hw_fly, hw_stale, hw_count, moved>>

\* Descriptors of the first j transfers on the list.
DescsThrough(j) ==
    Cardinality({p \in (1..j) \X (1..DescMax) :
                    p[2] <= xfer[transfer_list[p[1]]].num})

\* engine_service_transfer_list(): how many transfers, from the head, have
\* fewer descriptors than the `count` the hardware has completed.
PassedOver(count) ==
    Cardinality({j \in 1..Len(transfer_list) : count > DescsThrough(j)})

\* Mutant: off by one.
FinalStateOffByOne(count, num) ==
    IF status_err \/ count + 1 < num THEN "FAILED" ELSE "COMPLETED"

\* engine_service_final_transfer(): the state it gives a transfer of `num`
\* descriptors of which `count` are completed.
FinalState(count, num) ==
    IF status_err \/ count < num THEN "FAILED" ELSE "COMPLETED"

\* engine_service_resume(): restart a stopped engine whose list is not empty,
\* stop a running one whose list is.  `left` is the list, `xf` the transfers,
\* `on` whether the engine runs, `dequeued` the new desc_dequeued.
ServiceResume(left, xf, on, dequeued) ==
    IF left # <<>> /\ ~on
    THEN EngineStart(left, xf)
    ELSE /\ desc_dequeued' = dequeued
         /\ shutdown' = IF ~on /\ "REQUEST" \in shutdown
                        THEN shutdown \cup {"IDLE"} ELSE shutdown
         /\ IF left = <<>> THEN EngineStop ELSE UNCHANGED <<running, hw_run, hw_next>>
         /\ UNCHANGED <<hw_stale, hw_count>>

\* What is left on the list once the transfer at the head of `rest` is settled.
AfterFinal(rest) == IF rest = <<>> THEN <<>> ELSE Tail(rest)

\* engine_service() from the test of completed_desc_count on: complete the
\* transfers `count` passes over, settle the one it ends in, resume.  (`count`
\* is a u32 difference in the code; RunInv below has desc_dequeued = 0 whenever
\* a transfer is listed, so it does not wrap.)
ServiceTransfers(count) ==
    LET passed == PassedOver(count)
        rest == SubSeq(transfer_list, passed + 1, Len(transfer_list))
        ended == rest # <<>>
        final == Head(rest)
        state == FinalState(count - DescsThrough(passed), xfer[final].num)
        over == {transfer_list[j] : j \in 1..passed}
    IN  /\ xfer' = [r \in Requests |->
                       IF r \in over
                       THEN [xfer[r] EXCEPT !.state = "COMPLETED"]
                       ELSE IF ended /\ r = final
                       THEN [xfer[r] EXCEPT !.state = state]
                       ELSE xfer[r]]
        /\ transfer_list' = AfterFinal(rest)
        /\ ServiceResume(transfer_list', xfer',
                         running /\ ~(ended /\ status_err),
                         desc_dequeued + DescsThrough(passed) +
                            IF ended /\ ~status_err THEN xfer[final].num ELSE 0)

\* engine_service(), second half: read completed_desc_count and act on it;
\* engine_service_work() then re-enables the interrupt and drops the lock.
ServiceCount ==
    /\ lock
    /\ lock' = FALSE
    /\ Reenable
    /\ \/ /\ hw_count = 0
          /\ UNCHANGED <<xfer, transfer_list, running, shutdown, desc_dequeued,
                         hw_run, hw_next, hw_stale, hw_count>>
       \/ /\ hw_count # 0
          /\ ServiceTransfers(hw_count - desc_dequeued)
    /\ UNCHANGED <<pc, sw_desc_cnt, sw_desc_idx, done, rv, ret, mapped,
                   ringVars, status_err, work, irq_line, devVars, hw_fly,
                   hw_status, moved>>
-----------------------------------------------------------------------------
(* xdma_device_offline() and xdma_device_online(), called by the PCI core  *)
(* around an error or a function reset.                                    *)

Admin(from, to) == admin = from /\ admin' = to

OfflineFlag ==
    /\ "offline" \in Faults
    /\ Admin("up", "stopping")
    /\ offline' = TRUE
    /\ UNCHANGED <<reqVars, ringVars, engVars, irqVars, hwVars>>

OfflineStop ==
    /\ Admin("stopping", "stopped")
    /\ ~lock
    /\ shutdown' = shutdown \cup {"REQUEST"}
    /\ EngineStop
    /\ UNCHANGED <<reqVars, ringVars, transfer_list, desc_dequeued, status_err,
                   lock, irqVars, offline, hw_fly, hw_stale, hw_count,
                   hw_status, moved>>

OfflineIrq ==
    /\ Admin("stopped", "down")
    /\ irq_enabled' = FALSE
    /\ irq_line' = FALSE
    /\ UNCHANGED <<reqVars, ringVars, engVars, work, offline, hwVars>>

\* The reset itself puts the registers to their initial values.
HwReset ==
    /\ Admin("down", "reset")
    /\ HwStop
    /\ hw_fly' = NoDesc
    /\ hw_stale' = FALSE
    /\ hw_count' = 0
    /\ hw_status' = {}
    /\ UNCHANGED <<reqVars, ringVars, engVars, irqVars, offline, moved>>

OnlineEngine ==
    /\ Admin("reset", "starting")
    /\ ~lock
    /\ shutdown' = shutdown \ {"REQUEST"}
    /\ UNCHANGED <<reqVars, ringVars, transfer_list, running, desc_dequeued,
                   status_err, lock, irqVars, offline, hwVars>>

OnlineIrq ==
    /\ Admin("starting", "started")
    /\ irq_line' = TRUE
    /\ irq_enabled' = TRUE
    /\ UNCHANGED <<reqVars, ringVars, engVars, work, offline, hwVars>>

OnlineFlag ==
    /\ Admin("started", "up")
    /\ offline' = FALSE
    /\ UNCHANGED <<reqVars, ringVars, engVars, irqVars, hwVars>>
-----------------------------------------------------------------------------
(* The hardware, external                                                  *)

\* Fetch the next descriptor; one without the magic number stops the engine.
HwFetch ==
    /\ hw_next # DescMax
    /\ hw_fly = NoDesc
    /\ hw_fly' = desc[hw_next]
    /\ \/ /\ desc[hw_next] = NoDesc
          /\ hw_next' = DescMax
          /\ hw_status' = hw_status \cup {"ERR"}
       \/ /\ desc[hw_next] # NoDesc
          /\ hw_next' = IF desc[hw_next].stop THEN DescMax ELSE hw_next + 1
          /\ UNCHANGED hw_status
    /\ UNCHANGED <<reqVars, ringVars, engVars, irqVars, devVars, hw_run,
                   hw_stale, hw_count, moved>>

\* The data is moved; a descriptor of the current run is counted, one with
\* the STOP bit raises the interrupt.
HwComplete ==
    /\ hw_fly # NoDesc
    /\ moved' = [moved EXCEPT ![hw_fly.req] = @ \cup {hw_fly.k}]
    /\ hw_count' = IF hw_stale THEN hw_count ELSE hw_count + 1
    /\ hw_status' = IF hw_fly.stop THEN hw_status \cup {"DESC"} ELSE hw_status
    /\ hw_fly' = NoDesc
    /\ hw_stale' = FALSE
    /\ UNCHANGED <<reqVars, ringVars, engVars, irqVars, devVars, hw_run,
                   hw_next>>

\* Moving the data fails and the engine stops.
HwError ==
    /\ "error" \in Faults
    /\ hw_fly # NoDesc
    /\ hw_status' = hw_status \cup {"ERR"}
    /\ hw_fly' = NoDesc
    /\ hw_stale' = FALSE
    /\ hw_next' = DescMax
    /\ UNCHANGED <<reqVars, ringVars, engVars, irqVars, devVars, hw_run,
                   hw_count, moved>>
-----------------------------------------------------------------------------
\* A request left on the list although nobody waits for it any more is freed
\* memory; what the driver does with it is undefined and not modelled.
Abandoned == \E r \in Requests :
                /\ pc[r] \notin Queued
                /\ \E j \in 1..Len(transfer_list) : transfer_list[j] = r

Call(r) ==
    \/ \E n \in Sizes : Submit(r, n)
    \/ \E e \in Errors : SubmitRefused(r, e)

Proceed(r) ==
    \/ LockDesc(r)
    \/ TransferInit(r)
    \/ TransferQueueCheck(r)
    \/ TransferQueue(r)
    \/ Woken(r)
    \/ Settle(r)
    \/ Destroy(r)
    \/ UnmapReturn(r)

Service == ServiceStatus \/ ServiceCount

PciCore == OfflineFlag \/ OfflineStop \/ OfflineIrq
           \/ HwReset \/ OnlineEngine \/ OnlineIrq \/ OnlineFlag

Hardware == HwFetch \/ HwComplete \/ HwError

\* Every call has returned.
Finished ==
    /\ \A r \in Requests : pc[r] = "returned"
    /\ UNCHANGED vars

Next ==
    \/ /\ ~Abandoned
       /\ \/ \E r \in Requests : Call(r) \/ Proceed(r) \/ Timeout(r)
          \/ Isr
          \/ Service
          \/ PciCore
          \/ Hardware
    \/ Finished

\* A runnable thread is scheduled, a mutex waiter is served eventually (the
\* kernel's mutex hands over to a waiter that was passed over), the timer of a
\* timed wait expires, the interrupt is delivered, the work queue runs its
\* work, the hardware makes progress, the PCI core ends what it began.  No
\* fairness for new calls, for errors or for taking the device offline.
Fairness ==
    /\ \A r \in Requests :
        /\ WF_vars(~Abandoned /\ Proceed(r))
        /\ SF_vars(~Abandoned /\ LockDesc(r))
        /\ WF_vars(~Abandoned /\ Timeout(r))
    /\ WF_vars(~Abandoned /\ Isr)
    /\ WF_vars(~Abandoned /\ Service)
    /\ WF_vars(~Abandoned /\ (HwFetch \/ HwComplete))
    /\ WF_vars(~Abandoned /\ admin # "up" /\ PciCore)

Spec == Init /\ [][Next]_vars
FairSpec == Spec /\ Fairness
-----------------------------------------------------------------------------
(* Properties                                                              *)

TypeReq ==
    /\ pc \in [Requests -> Places]
    /\ sw_desc_cnt \in [Requests -> Nat]
    /\ sw_desc_idx \in [Requests -> Nat]
    /\ done \in [Requests -> Nat]
    /\ rv \in [Requests -> Errors]
    /\ ret \in [Requests -> [count : Nat, error : Errors]]
    /\ mapped \in [Requests -> BOOLEAN]
    /\ xfer \in [Requests -> Xfer]

TypeRing ==
    /\ desc_lock \in Requests \cup {NoReq}
    /\ desc_idx \in 0..(DescMax - 1)
    /\ desc_used \in Int
    /\ desc \in [0..(DescMax - 1) -> Desc \cup {NoDesc}]

TypeEngine ==
    /\ transfer_list \in Seq(Requests)
    /\ running \in BOOLEAN
    /\ shutdown \subseteq {"REQUEST", "IDLE"}
    /\ desc_dequeued \in Int
    /\ status_err \in BOOLEAN
    /\ lock \in BOOLEAN

TypeDevice ==
    /\ work \in BOOLEAN
    /\ irq_enabled \in BOOLEAN
    /\ irq_line \in BOOLEAN
    /\ offline \in BOOLEAN
    /\ admin \in {"up", "stopping", "stopped", "down", "reset", "starting",
                  "started"}

TypeHardware ==
    /\ hw_run \in BOOLEAN
    /\ hw_next \in 0..DescMax
    /\ hw_fly \in Desc \cup {NoDesc}
    /\ hw_stale \in BOOLEAN
    /\ hw_count \in Nat
    /\ hw_status \subseteq {"DESC", "ERR"}
    /\ moved \in [Requests -> SUBSET Nat]

\* Every variable has its type: in particular transfer_init() never hands out
\* a ring index or a length outside the ring.
TypeOK == TypeReq /\ TypeRing /\ TypeEngine /\ TypeDevice /\ TypeHardware

\* The engine's list never names a transfer whose submitter has gone on: a
\* transfer is on the list exactly while it is SUBMITTED and its submitter
\* waits for it (req, which holds the transfer, is freed on return).  The
\* exception is an abort skipped because the registers are dead.
NoDangling ==
    \A r \in Requests :
        (\E j \in 1..Len(transfer_list) : transfer_list[j] = r) =>
            /\ xfer[r].state = "SUBMITTED"
            /\ pc[r] \in Queued \/ "dead" \in Faults

\* A transfer nobody has settled is on the list: engine_service() can find it.
SubmittedIsListed ==
    \A r \in Requests :
        xfer[r].state = "SUBMITTED" =>
            \E j \in 1..Len(transfer_list) : transfer_list[j] = r

\* The hardware only ever fetches descriptors of the transfer whose request
\* holds desc_lock, never a cleared or a foreign one.
FetchesOwnChain ==
    hw_next # DescMax =>
        /\ desc[hw_next] # NoDesc
        /\ desc[hw_next].req = desc_lock

\* What xdma_xfer_submit() reports as done was moved by the hardware, from the
\* request's first descriptor on and without a gap.
DoneIsMoved ==
    \A r \in Requests : \A k \in 0..(done[r] - 1) : k \in moved[r]

\* A transfer is COMPLETED only if each of its descriptors was moved.
CompletedIsMoved ==
    \A r \in Requests :
        xfer[r].state = "COMPLETED" =>
            \A k \in (sw_desc_idx[r] - xfer[r].num)..(sw_desc_idx[r] - 1) :
                k \in moved[r]

\* As long as no wait has been cut short, data is only moved to or from pages
\* that are still mapped, errors and resets included.  (Afterwards it is not so:
\* xdma_xfer_submit() unmaps what it gives up on while "the transfer can still
\* be in-flight", libxdma.c:3635.)
InFlightMapped ==
    hw_fly # NoDesc /\ (\A r \in Requests : rv[r] # "ERESTARTSYS") =>
        mapped[hw_fly.req]

\* Descriptors of transfers that transfer_queue() has refused: xdma_xfer_submit()
\* never takes them off desc_used.
LeakedSet ==
    {p \in Requests \X (1..DescMax) : rv[p[1]] = "EBUSY" /\ p[2] <= xfer[p[1]].num}

Leaked == Cardinality(LeakedSet)

\* Descriptors of the transfer in progress.
InHand ==
    IF desc_lock # NoReq /\ pc[desc_lock] \in Locked \ {"init"}
    THEN xfer[desc_lock].num ELSE 0

\* desc_used counts the descriptors of the transfer in progress and the leaked
\* ones, no others, on every path through xdma_xfer_submit().
DescUsedExact == desc_used = Leaked + InHand

\* A late interrupt or a late timeout never changes an outcome: a settled
\* transfer keeps its state until its owner builds the next one.
OutcomeIsFinal ==
    [][\A r \in Requests :
        xfer[r].state \in {"COMPLETED", "FAILED", "ABORTED"} =>
            \/ xfer'[r].state = xfer[r].state
            \/ pc[r] = "init"]_vars

\* Every accepted call returns (or the model ends in undefined behaviour, on
\* dead registers).
Returns ==
    \A r \in Requests : pc[r] = "mutex" ~> pc[r] = "returned" \/ Abandoned
-----------------------------------------------------------------------------
(* The promise this engine implements                                      *)

\* Where a call is, for the abstract specification.
PhaseOf(place) ==
    CASE place = "idle" -> "idle"
      [] place = "mutex" -> "waiting"
      [] place \in Locked -> "served"
      [] place = "unmap" -> "released"
      [] OTHER -> "answered"

Phase == [r \in Requests |-> PhaseOf(pc[r])]

Failed == [r \in Requests |-> rv[r] # "none"]

Told ==
    [r \in Requests |->
        [count |-> ret[r].count, error |-> ret[r].error # "none"]]

Dma == INSTANCE DmaService WITH
         phase <- Phase, want <- sw_desc_cnt, moved <- moved, done <- done,
         failed <- Failed, told <- Told, turn <- desc_lock

\* With rings, lists, late interrupts, timeouts and resets, xdma_xfer_submit()
\* and the interrupt service still serve requests one at a time.  The count a
\* call returns is that of a gapless beginning that was really moved; it is
\* short only if the call has met an error, and the error itself is returned
\* only by a call to which nothing was accounted (DmaService).
ImplementsDma == Dma!Spec
-----------------------------------------------------------------------------
(* The inductive invariant from which XdmaEngineProofs derives the safety  *)
(* properties above.                                                       *)

\* desc_lock is held exactly from mutex_lock() to mutex_unlock().
LockInv == \A r \in Requests : pc[r] \in Locked <=> desc_lock = r

\* desc_lock admits one transfer at a time to the list.
ListInv ==
    \/ transfer_list = <<>>
    \/ /\ desc_lock \in Requests
       /\ transfer_list = <<desc_lock>>
       /\ xfer[desc_lock].state = "SUBMITTED"
       /\ \/ pc[desc_lock] \in Queued
          \/ pc[desc_lock] = "destroy" /\ "dead" \in Faults

\* How far a request has come, place by place.
ProgressInv ==
    \A r \in Requests :
        /\ sw_desc_idx[r] <= sw_desc_cnt[r]
        /\ pc[r] = "idle" => sw_desc_idx[r] = 0 /\ done[r] = 0
        /\ pc[r] \in {"mutex", "init"} =>
                sw_desc_idx[r] < sw_desc_cnt[r] /\ done[r] = sw_desc_idx[r]
        /\ pc[r] \in {"idle", "mutex"} \cup (Locked \ {"destroy"}) =>
                rv[r] = "none"
        /\ pc[r] \in {"check", "queue"} \cup Queued =>
                done[r] = sw_desc_idx[r] - xfer[r].num
        /\ pc[r] = "destroy" /\ rv[r] = "none" => done[r] = sw_desc_idx[r]
        /\ pc[r] \in {"check", "queue"} => xfer[r].state = "NEW"

\* The request's descriptor number of ring entry i of its transfer.
Entry(r, i) ==
    [req |-> r,
     k |-> sw_desc_idx[r] - xfer[r].num + (i - xfer[r].index),
     stop |-> (i = xfer[r].index + xfer[r].num - 1)]

\* From transfer_init() to transfer_destroy() the ring holds the transfer's
\* descriptors, unbroken and ended by the STOP bit.
ChainInv ==
    \A r \in Requests :
        pc[r] \in Locked \ {"init"} =>
            /\ xfer[r].num >= 1
            /\ xfer[r].num <= sw_desc_idx[r]
            /\ xfer[r].index + xfer[r].num <= DescMax
            /\ \A i \in 0..(DescMax - 1) :
                (xfer[r].index <= i /\ i < xfer[r].index + xfer[r].num) =>
                    desc[i] = Entry(r, i)

\* A descriptor of the current run is in flight.
FlyingNow == hw_fly # NoDesc /\ ~hw_stale

\* While a transfer is on the list, the hardware's run is that transfer's: its
\* count, the data it moved and its position in the chain agree.
RunInv ==
    /\ hw_stale => hw_fly # NoDesc
    /\ transfer_list = <<>> => ~running /\ ~lock /\ hw_next = DescMax
    /\ \A r \in Requests :
        transfer_list = <<r>> =>
            /\ desc_dequeued = 0
            /\ hw_count <= xfer[r].num
            /\ \A k \in 0..(sw_desc_idx[r] - 1) :
                (/\ sw_desc_idx[r] - xfer[r].num <= k
                 /\ k < sw_desc_idx[r] - xfer[r].num + hw_count)
                    => k \in moved[r]
            /\ FlyingNow =>
                /\ hw_count < xfer[r].num
                /\ hw_fly = Entry(r, xfer[r].index + hw_count)
            /\ hw_next # DescMax =>
                /\ hw_next < xfer[r].index + xfer[r].num
                /\ hw_next = xfer[r].index + hw_count +
                                (IF FlyingNow THEN 1 ELSE 0)

\* The inductive invariant: lock, list, request, ring and hardware agree, so
\* completions are only ever credited to the transfer the hardware ran.
IInv ==
    /\ TypeOK
    /\ LockInv
    /\ ListInv
    /\ SubmittedIsListed
    /\ ProgressInv
    /\ ChainInv
    /\ RunInv
    /\ DoneIsMoved
    /\ CompletedIsMoved

\* The descriptor in flight belongs to a request that has had its turn, and is
\* one of those the request asked for.
FlyInv ==
    hw_fly # NoDesc =>
        /\ pc[hw_fly.req] \notin {"idle", "mutex"}
        /\ hw_fly.k < sw_desc_cnt[hw_fly.req]

\* A wait was cut short and the transfer given up.
Cut == \E r \in Requests : rv[r] = "ERESTARTSYS"

\* The descriptor in flight belongs to the listed transfer, a latched status or
\* a pending service means that the run is over, and neither outlives the
\* transfer.
Quiet ==
    /\ ~hw_stale
    /\ hw_fly # NoDesc => transfer_list = <<hw_fly.req>>
    /\ transfer_list = <<>> => hw_status = {} /\ ~work
    /\ lock => hw_status = {} /\ ~work /\ ~Busy
    /\ running /\ (hw_status # {} \/ work) => ~Busy

\* So it is as long as no transfer was given up.
QuietInv == ~Cut => Quiet

\* The pages stay mapped from the entry to the last transfer_destroy().
MappedInv == \A r \in Requests : pc[r] \in {"mutex"} \cup Locked => mapped[r]

\* A refused request leaks once, and only what transfer_init() took for it.
UsedInv ==
    /\ DescUsedExact
    /\ IsFiniteSet(LeakedSet)
    /\ \A r \in Requests :
        /\ pc[r] = "idle" => xfer[r].num = 0
        /\ pc[r] \in Locked => rv[r] # "EBUSY"

\* What the refinement, the mapping and the descriptor count need besides IInv.
ServiceInv == FlyInv /\ QuietInv /\ MappedInv /\ UsedInv
=============================================================================
