----------------------------- MODULE XdmaAsync ------------------------------
(***************************************************************************)
(* Asynchronous I/O on one SG DMA engine in interrupt mode: cdev_aio_read  *)
(* and cdev_aio_write() (xdma/cdev_sgdma.c) split an iocb into segments,   *)
(* xdma_xfer_submit_nowait() queues the transfers of each segment without  *)
(* waiting and without desc_lock, and engine_service() completes them      *)
(* through async_io_handler() and xdma_xfer_completion().                  *)
(*                                                                         *)
(* Unlike the synchronous path of XdmaEngine, several transfers may be     *)
(* listed at once, and nobody waits with a timer.  Lengths are counted in  *)
(* descriptors.  A section under engine->lock is one step, except          *)
(* engine_service(), which is two with the lock held between.  The         *)
(* interrupt handler, which only schedules the service, is part of its     *)
(* first step.                                                             *)
(***************************************************************************)
EXTENDS Integers, Sequences, FiniteSets, FiniteSetsExt

CONSTANTS
    Iocbs,      \* the asynchronous operations
    Iov,        \* the iovec of each: per segment, the descriptors it needs
    DescMax,    \* engine->desc_max
    Faults,     \* what may go wrong, a subset of AllFaults
    NoDesc      \* a descriptor cleared by xdma_desc_done(); nothing in flight

\* "align": a segment is not aligned; "map": memory cannot be pinned, mapped
\* or allocated; "error": the hardware reports an error; "late_busy": BUSY is
\* read as still set; "offline": the PCI core takes the device offline.
AllFaults == {"align", "map", "error", "late_busy", "offline"}

Segs == UNION {{a} \X (1..Len(Iov[a])) : a \in Iocbs}

ASSUME IovAssumption     == Iov \in [Iocbs -> Seq(Nat \ {0})]
ASSUME DescMaxAssumption == DescMax \in Nat \ {0}
ASSUME FaultsAssumption  == Faults \subseteq AllFaults
ASSUME NoDescAssumption  == NoDesc \notin [seg : Segs, j : Nat, k : Nat, stop : BOOLEAN]

VARIABLES
    pc,             \* where each call of cdev_aio_*() is
    ret,            \* what it has returned
    req_cnt,        \* caio->req_cnt, the iocb's segments
    seg,            \* the segment the call is at
    caio,           \* caio: not allocated, live or freed
    cmpl_cnt,       \* caio->cmpl_cnt
    res,            \* caio->res
    completions,    \* calls of iocb->ki_complete()
    req,            \* per segment: its xdma_request_cb
    sw_desc_cnt,    \* per segment, descriptors it needs
    sw_desc_idx,    \* per segment, descriptors built into transfers
    tfer,           \* per segment, req->tfer[]
    desc_idx,       \* next ring entry transfer_init() hands out
    desc_used,      \* engine->desc_used
    desc,           \* the ring of descriptors
    transfer_list,  \* engine->transfer_list, of <<segment, number of tfer>>
    running,        \* engine->running
    desc_dequeued,  \* engine->desc_dequeued
    status_err,     \* an error bit is set in engine->status
    lock,           \* engine_service_work() holds engine->lock
    offline,        \* XDEV_FLAG_OFFLINE and ENGINE_SHUTDOWN_REQUEST
    hw_next,        \* ring entry the hardware fetches next, DescMax if none
    hw_fly,         \* the descriptor whose data is being moved
    hw_count,       \* completed_desc_count
    hw_status,      \* latched status bits
    moved,          \* per segment, the descriptors whose data was moved
    overrun,        \* auxiliary: a descriptor still in use was overwritten
    stalled         \* auxiliary: the engine was left stopped with work listed

callVars == <<pc, ret, req_cnt, seg>>
caioVars == <<caio, cmpl_cnt, res, completions>>
reqVars == <<req, sw_desc_cnt, sw_desc_idx>>
ringVars == <<desc_idx, desc_used, desc, overrun>>
engVars == <<transfer_list, running, desc_dequeued, status_err, lock>>
hwVars == <<hw_next, hw_fly, hw_count, hw_status, moved>>
vars == <<callVars, caioVars, reqVars, tfer, ringVars, engVars, offline,
          hwVars, stalled>>

Init ==
    /\ pc = [a \in Iocbs |-> "idle"]
    /\ ret = [a \in Iocbs |-> "none"]
    /\ req_cnt = [a \in Iocbs |-> 0]
    /\ seg = [a \in Iocbs |-> 1]
    /\ caio = [a \in Iocbs |-> "none"]
    /\ cmpl_cnt = [a \in Iocbs |-> 0]
    /\ res = [a \in Iocbs |-> 0]
    /\ completions = [a \in Iocbs |-> 0]
    /\ req = [s \in Segs |-> "none"]
    /\ sw_desc_cnt = [s \in Segs |-> 0]
    /\ sw_desc_idx = [s \in Segs |-> 0]
    /\ tfer = [s \in Segs |-> <<>>]
    /\ desc_idx = 0
    /\ desc_used = 0
    /\ desc = [i \in 0..(DescMax - 1) |-> NoDesc]
    /\ transfer_list = <<>>
    /\ running = FALSE
    /\ desc_dequeued = 0
    /\ status_err = FALSE
    /\ lock = FALSE
    /\ offline = FALSE
    /\ hw_next = DescMax
    /\ hw_fly = NoDesc
    /\ hw_count = 0
    /\ hw_status = {}
    /\ moved = [s \in Segs |-> {}]
    /\ overrun = FALSE
    /\ stalled = FALSE
-----------------------------------------------------------------------------
(* cdev_aio_read() and cdev_aio_write()                                    *)

Goto(a, place) == pc' = [pc EXCEPT ![a] = place]
Cur(a) == <<a, seg[a]>>

\* The call allocates caio and starts with its first segment.
AioStart(a) ==
    /\ pc[a] = "idle"
    /\ req_cnt' = [req_cnt EXCEPT ![a] = Len(Iov[a])]
    /\ caio' = [caio EXCEPT ![a] = "live"]
    /\ Goto(a, "segment")
    /\ UNCHANGED <<ret, seg, cmpl_cnt, res, completions, reqVars, tfer,
                   ringVars, engVars, offline, hwVars, stalled>>

Return(a, value) ==
    /\ Goto(a, "returned")
    /\ ret' = [ret EXCEPT ![a] = value]

\* check_transfer_align() fails: caio is freed, whatever is already queued.
AioMisaligned(a) ==
    /\ "align" \in Faults
    /\ pc[a] = "segment"
    /\ seg[a] <= req_cnt[a]
    /\ caio' = [caio EXCEPT ![a] = "freed"]
    /\ Return(a, "EINVAL")
    /\ UNCHANGED <<req_cnt, seg, cmpl_cnt, res, completions, reqVars, tfer,
                   ringVars, engVars, offline, hwVars, stalled>>

\* char_sgdma_map_user_buf_to_sgl() fails: the call ends, caio stays.
AioUnmapped(a) ==
    /\ "map" \in Faults
    /\ pc[a] = "segment"
    /\ seg[a] <= req_cnt[a]
    /\ Return(a, "EFAULT")
    /\ UNCHANGED <<req_cnt, seg, caioVars, reqVars, tfer, ringVars, engVars,
                   offline, hwVars, stalled>>

\* xdma_xfer_submit_nowait() accepts a segment.
NowaitStart(a) ==
    /\ pc[a] = "segment"
    /\ seg[a] <= req_cnt[a]
    /\ ~offline
    /\ req' = [req EXCEPT ![Cur(a)] = "live"]
    /\ sw_desc_cnt' = [sw_desc_cnt EXCEPT ![Cur(a)] = Iov[a][seg[a]]]
    /\ Goto(a, "init")
    /\ UNCHANGED <<ret, req_cnt, seg, caioVars, sw_desc_idx, tfer, ringVars,
                   engVars, offline, hwVars, stalled>>

\* It returns an error, which cdev_aio_*() does not look at.
NowaitRefused(a) ==
    /\ pc[a] = "segment"
    /\ seg[a] <= req_cnt[a]
    /\ offline \/ "map" \in Faults
    /\ req' = [req EXCEPT ![Cur(a)] = "refused"]
    /\ seg' = [seg EXCEPT ![a] = @ + 1]
    /\ UNCHANGED <<pc, ret, req_cnt, caioVars, sw_desc_cnt, sw_desc_idx, tfer,
                   ringVars, engVars, offline, hwVars, stalled>>

\* After the last segment the call returns -EIOCBQUEUED.
AioQueued(a) ==
    /\ pc[a] = "segment"
    /\ seg[a] > req_cnt[a]
    /\ Return(a, "EIOCBQUEUED")
    /\ UNCHANGED <<req_cnt, seg, caioVars, reqVars, tfer, ringVars, engVars,
                   offline, hwVars, stalled>>
-----------------------------------------------------------------------------
(* The loop of xdma_xfer_submit_nowait()                                   *)

\* The descriptors transfer_init() takes: what is left, cut at the ring's end.
DescNum(s) ==
    LET left == sw_desc_cnt[s] - sw_desc_idx[s]
        want == IF left < DescMax THEN left ELSE DescMax
    IN  IF desc_idx + want >= DescMax THEN DescMax - desc_idx ELSE want

\* A descriptor that is still counted in desc_used: the transfers of a request
\* are destroyed, and their ring entries cleared, only when the request ends.
InUse(d) == d # NoDesc /\ req[d.seg] = "live"

\* transfer_init(): fills ring entries from desc_idx on and ends the chain with
\* the STOP bit.  It does not look at desc_used ("Need to handle desc_used >=
\* engine->desc_max", libxdma.c:3004).
TransferInit(a) ==
    LET s == Cur(a)
        n == DescNum(s)
        mine == desc_idx..(desc_idx + n - 1)
    IN
    /\ pc[a] = "init"
    /\ ~lock
    /\ tfer' = [tfer EXCEPT ![s] = Append(@,
                    [state |-> "NEW", index |-> desc_idx, num |-> n,
                     last |-> (sw_desc_idx[s] + n = sw_desc_cnt[s])])]
    /\ desc' = [i \in 0..(DescMax - 1) |->
                    IF i \in mine
                    THEN [seg |-> s, j |-> Len(tfer[s]) + 1,
                          k |-> sw_desc_idx[s] + (i - desc_idx),
                          stop |-> (i = desc_idx + n - 1)]
                    ELSE desc[i]]
    /\ sw_desc_idx' = [sw_desc_idx EXCEPT ![s] = @ + n]
    /\ desc_idx' = (desc_idx + n) % DescMax
    /\ desc_used' = desc_used + n
    /\ overrun' = (overrun \/ \E i \in mine : InUse(desc[i]))
    /\ Goto(a, "queue")
    /\ UNCHANGED <<ret, req_cnt, seg, caioVars, req, sw_desc_cnt, engVars,
                   offline, hwVars, stalled>>

\* engine_start() on the head of the queue `list`, whose transfers are `tf`.
EngineStart(list, tf) ==
    /\ running' = TRUE
    /\ desc_dequeued' = 0
    /\ hw_next' = tf[list[1][1]][list[1][2]].index
    /\ hw_count' = 0

\* transfer_queue() starts an engine that is not running.
QueueStart(list, tf) ==
    IF running THEN UNCHANGED <<running, desc_dequeued, hw_next, hw_count>>
    ELSE EngineStart(list, tf)

\* transfer_queue(): append; then the segment's next transfer or the next
\* segment.
TransferQueue(a) ==
    LET s == Cur(a)
        more == sw_desc_idx[s] < sw_desc_cnt[s]
    IN
    /\ pc[a] = "queue"
    /\ ~lock
    /\ ~offline
    /\ tfer' = [tfer EXCEPT ![s][Len(tfer[s])].state = "SUBMITTED"]
    /\ transfer_list' = Append(transfer_list, <<s, Len(tfer[s])>>)
    /\ QueueStart(transfer_list', tfer')
    /\ Goto(a, IF more THEN "init" ELSE "segment")
    /\ seg' = [seg EXCEPT ![a] = IF more THEN @ ELSE @ + 1]
    /\ UNCHANGED <<ret, req_cnt, caioVars, reqVars, ringVars, status_err, lock,
                   offline, hw_fly, hw_status, moved, stalled>>

\* transfer_queue() fails: unmap and free the request, also if its first
\* transfer is listed.
TransferRefused(a) ==
    /\ pc[a] = "queue"
    /\ offline
    /\ req' = [req EXCEPT ![Cur(a)] = "refused"]
    /\ Goto(a, "segment")
    /\ seg' = [seg EXCEPT ![a] = @ + 1]
    /\ UNCHANGED <<ret, req_cnt, caioVars, sw_desc_cnt, sw_desc_idx, tfer,
                   ringVars, engVars, offline, hwVars, stalled>>
-----------------------------------------------------------------------------
(* engine_service() and the completion callback                            *)

Busy == hw_next # DescMax \/ hw_fly # NoDesc

\* engine_service(), first half: read and clear the status, and stop an engine
\* that does not read as busy.
ServiceStatus ==
    /\ hw_status # {}
    /\ ~lock
    /\ hw_status' = {}
    /\ status_err' = ("ERR" \in hw_status)
    /\ \/ ~running /\ UNCHANGED <<running, lock, hw_next>>
       \/ /\ running /\ ~Busy
          /\ lock' = TRUE
          /\ running' = FALSE
          /\ UNCHANGED hw_next
       \/ /\ running
          /\ Busy \/ "late_busy" \in Faults
          /\ lock' = TRUE
          /\ UNCHANGED <<running, hw_next>>
    /\ UNCHANGED <<callVars, caioVars, reqVars, tfer, ringVars, transfer_list,
                   desc_dequeued, offline, hw_fly, hw_count, moved, stalled>>

Num(t) == tfer[t[1]][t[2]].num

\* Descriptors of the first j transfers on the list.
DescsThrough(j) ==
    Cardinality({p \in (1..j) \X (1..DescMax) : p[2] <= Num(transfer_list[p[1]])})

\* engine_service_transfer_list(): the transfers, from the head, that have
\* fewer descriptors than the `count` the hardware has completed.
PassedOver(count) ==
    Cardinality({j \in 1..Len(transfer_list) : count > DescsThrough(j)})

\* Mutant: the number of descriptors alone decides, and off by one.
FinalStateOffByOne(count, num) == IF count + 1 < num THEN "FAILED" ELSE "COMPLETED"

\* engine_service_final_transfer().
FinalState(count, num) ==
    IF status_err \/ count < num THEN "FAILED" ELSE "COMPLETED"

\* The transfers with their states after a service that passes over the first
\* p and, if there is another, settles it as `state`.
Settled(p, state) ==
    [s \in Segs |-> [j \in 1..Len(tfer[s]) |->
        IF \E i \in 1..p : transfer_list[i] = <<s, j>>
        THEN [tfer[s][j] EXCEPT !.state = "COMPLETED"]
        ELSE IF p < Len(transfer_list) /\ transfer_list[p + 1] = <<s, j>>
        THEN [tfer[s][j] EXCEPT !.state = state]
        ELSE tfer[s][j]]]

\* Mutant: every settled transfer calls io_done().
EndedEvery(n) == {transfer_list[i][1] : i \in 1..n}

\* engine_transfer_completion(): the segments whose last transfer is among the
\* first n listed ones; for these io_done() is called.
Ended(n) ==
    {transfer_list[i][1] :
        i \in {i \in 1..n : tfer[transfer_list[i][1]][transfer_list[i][2]].last}}

\* xdma_xfer_completion() goes through tf = req->tfer[] up to the first transfer
\* that is not COMPLETED.
Good(tf) ==
    {j \in 1..Len(tf) : \A i \in 1..j : tf[i].state = "COMPLETED"}

\* The members of every m[s], each with its segment s.
OfEach(S, m) == UNION {{s} \X m[s] : s \in S}

\* The descriptors whose bytes it returns, by their place in the transfer, and
\* how many they are for the segments S.
CountedDescs(tf) == {p \in Good(tf) \X (1..DescMax) : p[2] <= tf[p[1]].num}
Counted(S, tf) == Cardinality(OfEach(S, [s \in S |-> CountedDescs(tf[s])]))

\* The transfers it destroys: those, and the one it stops at.
Destroyed(tf) == (1..Len(tf)) \cap (Good(tf) \cup {Cardinality(Good(tf)) + 1})

\* Mutant: a segment that ends counts for the whole operation.
AllDoneAny(a, n) == n >= 1

\* async_io_handler(): the operation is complete with its last segment.
AllDone(a, n) == n = req_cnt[a]

\* xdma_xfer_completion(): free descriptors and add what was moved to caio.
XferCompletion(ended, tf) ==
    LET cleared == {i \in 0..(DescMax - 1) :
                        \E s \in ended : \E j \in Destroyed(tf[s]) :
                            tf[s][j].index <= i /\ i < tf[s][j].index + tf[s][j].num}
    IN
    /\ desc' = [i \in 0..(DescMax - 1) |-> IF i \in cleared THEN NoDesc ELSE desc[i]]
    /\ desc_used' = desc_used - MapThenSumSet(
                        LAMBDA s : MapThenSumSet(LAMBDA j : tf[s][j].num,
                                                 Destroyed(tf[s])), ended)
    /\ res' = [a \in Iocbs |-> res[a] + Counted({s \in ended : s[1] = a}, tf)]

\* async_io_handler() for the segments `ended`, whose transfers are now `tf`:
\* free descriptors and requests, add to caio, complete the iocb and free caio.
\* The array of segments, or what kfree(cb) makes of it when the last callback
\* is not of the first of them, is left out.
AsyncIoHandler(ended, tf) ==
    LET n(a) == cmpl_cnt[a] + Cardinality({s \in ended : s[1] = a})
        over(a) == (\E s \in ended : s[1] = a) /\ AllDone(a, n(a))
    IN
    /\ XferCompletion(ended, tf)
    /\ req' = [s \in Segs |-> IF s \in ended THEN "done" ELSE req[s]]
    /\ cmpl_cnt' = [a \in Iocbs |-> n(a)]
    /\ completions' = [a \in Iocbs |-> completions[a] + IF over(a) THEN 1 ELSE 0]
    /\ caio' = [a \in Iocbs |-> IF over(a) THEN "freed" ELSE caio[a]]

\* Mutant: the next transfer is left for the next submission to start.
ServiceResumeIdle(left, tf, on, dequeued) ==
    /\ desc_dequeued' = dequeued
    /\ running' = (on /\ left # <<>>)
    /\ hw_next' = IF left = <<>> THEN DescMax ELSE hw_next
    /\ UNCHANGED <<stalled, hw_count>>

\* engine_service_resume(): restart a stopped engine whose list `left` is not
\* empty, stop a running one whose list is.
ServiceResume(left, tf, on, dequeued) ==
    IF left # <<>> /\ ~on
    THEN EngineStart(left, tf) /\ UNCHANGED stalled
    ELSE /\ desc_dequeued' = dequeued
         /\ running' = (on /\ left # <<>>)
         /\ hw_next' = IF left = <<>> THEN DescMax ELSE hw_next
         /\ stalled' = (stalled \/ left # <<>>)
         /\ UNCHANGED hw_count

ServiceTransfers(count) ==
    LET p == PassedOver(count)
        more == p < Len(transfer_list)
        n == IF more THEN p + 1 ELSE p
        num == Num(transfer_list[p + 1])
    IN
    /\ tfer' = Settled(p, IF more THEN FinalState(count - DescsThrough(p), num)
                          ELSE "COMPLETED")
    /\ AsyncIoHandler(Ended(n), tfer')
    /\ transfer_list' = SubSeq(transfer_list, n + 1, Len(transfer_list))
    /\ ServiceResume(transfer_list', tfer', running /\ ~(more /\ status_err),
                     desc_dequeued + DescsThrough(p) +
                        IF more /\ ~status_err THEN num ELSE 0)

\* engine_service(), second half.  With completed_desc_count at 0 it leaves
\* the stopped engine and the list as they are.
ServiceCount ==
    /\ lock
    /\ lock' = FALSE
    /\ \/ /\ hw_count = 0
          /\ stalled' = (stalled \/ transfer_list # <<>>)
          /\ UNCHANGED <<tfer, caioVars, req, desc, desc_used, transfer_list,
                         running, desc_dequeued, hw_next, hw_count>>
       \/ /\ hw_count # 0
          /\ ServiceTransfers(hw_count - desc_dequeued)
    /\ UNCHANGED <<callVars, sw_desc_cnt, sw_desc_idx, desc_idx, overrun,
                   status_err, offline, hw_fly, hw_status, moved>>
-----------------------------------------------------------------------------
(* The PCI core, and the hardware (external)                               *)

\* xdma_device_offline(), here as one step: see XdmaEngine for its parts.
Offline ==
    /\ "offline" \in Faults
    /\ ~offline /\ ~lock
    /\ offline' = TRUE
    /\ running' = FALSE
    /\ hw_next' = DescMax
    /\ stalled' = (stalled \/ transfer_list # <<>>)
    /\ UNCHANGED <<callVars, caioVars, reqVars, tfer, ringVars, transfer_list,
                   desc_dequeued, status_err, lock, hw_fly, hw_count,
                   hw_status, moved>>

\* The reset, which clears the registers, and xdma_device_online().
Online ==
    /\ offline
    /\ offline' = FALSE
    /\ hw_fly' = NoDesc
    /\ hw_count' = 0
    /\ hw_status' = {}
    /\ UNCHANGED <<callVars, caioVars, reqVars, tfer, ringVars, engVars, hw_next,
                   moved, stalled>>

\* Fetch the next descriptor; a cleared one stops the engine.
HwFetch ==
    /\ hw_next # DescMax
    /\ hw_fly = NoDesc
    /\ hw_fly' = desc[hw_next]
    /\ \/ /\ desc[hw_next] = NoDesc
          /\ hw_next' = DescMax
          /\ hw_status' = hw_status \cup {"ERR"}
       \/ /\ desc[hw_next] # NoDesc
          /\ hw_next' = IF desc[hw_next].stop THEN DescMax ELSE hw_next + 1
          /\ UNCHANGED hw_status
    /\ UNCHANGED <<callVars, caioVars, reqVars, tfer, ringVars, engVars,
                   offline, hw_count, moved, stalled>>

\* The data is moved and counted; the STOP bit raises the interrupt.
HwComplete ==
    /\ hw_fly # NoDesc
    /\ moved' = [moved EXCEPT ![hw_fly.seg] = @ \cup {hw_fly.k}]
    /\ hw_count' = hw_count + 1
    /\ hw_status' = IF hw_fly.stop THEN hw_status \cup {"DESC"} ELSE hw_status
    /\ hw_fly' = NoDesc
    /\ UNCHANGED <<callVars, caioVars, reqVars, tfer, ringVars, engVars,
                   offline, hw_next, stalled>>

\* Moving the data fails and the engine stops.
HwError ==
    /\ "error" \in Faults
    /\ hw_fly # NoDesc
    /\ hw_status' = hw_status \cup {"ERR"}
    /\ hw_fly' = NoDesc
    /\ hw_next' = DescMax
    /\ UNCHANGED <<callVars, caioVars, reqVars, tfer, ringVars, engVars,
                   offline, hw_count, moved, stalled>>
-----------------------------------------------------------------------------
Listed(s) == \E i \in 1..Len(transfer_list) : transfer_list[i][1] = s

\* The engine's list names freed memory.
Dangling ==
    \E s \in Segs : Listed(s) /\ (req[s] # "live" \/ caio[s[1]] # "live")

\* A segment needs a third transfer: req->tfer[] has room for two.
Overflown == \E a \in Iocbs : pc[a] = "init" /\ Len(tfer[Cur(a)]) = 2

\* What follows is not modelled.
Undefined == Dangling \/ Overflown

Submitter(a) ==
    \/ AioMisaligned(a)
    \/ AioUnmapped(a)
    \/ NowaitStart(a)
    \/ NowaitRefused(a)
    \/ AioQueued(a)
    \/ TransferInit(a)
    \/ TransferQueue(a)
    \/ TransferRefused(a)

Service == ServiceStatus \/ ServiceCount

Finished ==
    /\ \A a \in Iocbs : pc[a] = "returned"
    /\ UNCHANGED vars

Next ==
    \/ /\ ~Undefined
       /\ \/ \E a \in Iocbs : AioStart(a) \/ Submitter(a)
          \/ Service
          \/ Offline
          \/ Online
          \/ HwFetch
          \/ HwComplete
          \/ HwError
    \/ Finished

\* Calls proceed, interrupts are served and the hardware makes progress.  There
\* is no timer.
Fairness ==
    /\ \A a \in Iocbs : WF_vars(~Undefined /\ Submitter(a))
    /\ WF_vars(~Undefined /\ Service)
    /\ WF_vars(~Undefined /\ (HwFetch \/ HwComplete))

Spec == Init /\ [][Next]_vars
FairSpec == Spec /\ Fairness
-----------------------------------------------------------------------------
(* Properties                                                              *)

Xfer == [state : {"NEW", "SUBMITTED", "COMPLETED", "FAILED"},
         index : 0..(DescMax - 1), num : 1..DescMax, last : BOOLEAN]

Desc == [seg : Segs, j : Nat, k : Nat, stop : BOOLEAN]

\* The operations, their segments and the engine's list of transfers.
TypeAio ==
    /\ pc \in [Iocbs -> {"idle", "segment", "init", "queue", "returned"}]
    /\ ret \in [Iocbs -> {"none", "EINVAL", "EFAULT", "EIOCBQUEUED"}]
    /\ req_cnt \in [Iocbs -> Nat]
    /\ seg \in [Iocbs -> Nat]
    /\ caio \in [Iocbs -> {"none", "live", "freed"}]
    /\ cmpl_cnt \in [Iocbs -> Nat]
    /\ completions \in [Iocbs -> Nat]
    /\ req \in [Segs -> {"none", "live", "refused", "done"}]
    /\ sw_desc_cnt \in [Segs -> Nat]
    /\ sw_desc_idx \in [Segs -> Nat]
    /\ tfer \in [Segs -> Seq(Xfer)]
    /\ transfer_list \in Seq(Segs \X Nat)
    /\ desc_idx \in 0..(DescMax - 1)

\* The ring, the hardware and what it has moved.
TypeRing ==
    /\ res \in [Iocbs -> Nat]
    /\ desc \in [0..(DescMax - 1) -> Desc \cup {NoDesc}]
    /\ running \in BOOLEAN
    /\ lock \in BOOLEAN
    /\ offline \in BOOLEAN
    /\ hw_next \in 0..DescMax
    /\ hw_fly \in Desc \cup {NoDesc}
    /\ hw_count \in Nat
    /\ hw_status \subseteq {"DESC", "ERR"}
    /\ moved \in [Segs -> SUBSET Nat]
    /\ overrun \in BOOLEAN

TypeOK ==
    /\ TypeAio
    /\ TypeRing
    /\ desc_used \in Int
    /\ desc_dequeued \in Int
    /\ status_err \in BOOLEAN
    /\ stalled \in BOOLEAN

\* An iocb is completed at most once, only after cdev_aio_*() has queued all of
\* its segments, and only when none of its transfers is listed any more: the
\* callback of one segment never completes or frees what another still uses.
\* (The exception is caio freed by a misaligned later segment.)
CompletesOnce ==
    \A a \in Iocbs :
        /\ completions[a] <= 1
        /\ completions[a] = 1 =>
            \A i \in 1..req_cnt[a] : req[<<a, i>>] = "done"
        /\ caio[a] = "freed" => completions[a] = 1 \/ ret[a] = "EINVAL"

\* The list names freed memory in two cases only: a later segment was
\* misaligned (caio is gone), or the device went offline between the two
\* transfers of a segment (req is gone).
DanglesOnlyIfCut ==
    \A s \in Segs :
        Listed(s) =>
            /\ caio[s[1]] = "live" \/ ret[s[1]] = "EINVAL"
            /\ \/ req[s] = "live"
               \/ req[s] = "refused" /\ Len(tfer[s]) = 2 /\ ~tfer[s][1].last

\* Each transfer reported as COMPLETED was moved.
CompletedIsMoved ==
    \A s \in Segs : \A j \in 1..Len(tfer[s]) :
        tfer[s][j].state = "COMPLETED" =>
            \A k \in 0..(sw_desc_cnt[s] - 1) :
                (IF j = 1 THEN k < tfer[s][1].num ELSE k >= tfer[s][1].num)
                    => k \in moved[s]

\* As long as no descriptor in use was overwritten, each transfer reported as
\* COMPLETED was moved, whatever else was queued, failed or restarted around it,
\* and so were the bytes an iocb is completed with.
ReportedIsMoved ==
    ~overrun =>
        /\ CompletedIsMoved
        /\ \A a \in Iocbs : res[a] <= Cardinality(OfEach({s \in Segs : s[1] = a}, moved))

-----------------------------------------------------------------------------
(* What holds of the operations, the segments and the list at each step.  It  *)
(* is inductive; CompletesOnce and DanglesOnlyIfCut rest on it.               *)

\* A call in the loop of xdma_xfer_submit_nowait().
Building(a) == pc[a] \in {"init", "queue"}

\* A call has not come to its segment i.
Ahead(a, i) == seg[a] < i \/ (seg[a] = i /\ ~Building(a))

CallInv ==
    \A a \in Iocbs :
        /\ seg[a] >= 1
        /\ pc[a] = "idle" => seg[a] = 1 /\ caio[a] = "none" /\ completions[a] = 0
        /\ pc[a] # "idle" => req_cnt[a] = Len(Iov[a]) /\ caio[a] # "none"
        /\ pc[a] # "returned" => ret[a] = "none"
        /\ Building(a) => seg[a] <= Len(Iov[a]) /\ req[Cur(a)] = "live"
        /\ \A i \in 1..Len(Iov[a]) : Ahead(a, i) => req[<<a, i>>] = "none"

\* The transfer a call is about to build, or has built and not yet listed.
BuildInv ==
    \A a \in Iocbs :
        /\ pc[a] = "init" =>
            /\ sw_desc_idx[Cur(a)] < sw_desc_cnt[Cur(a)]
            /\ \A j \in 1..Len(tfer[Cur(a)]) : ~tfer[Cur(a)][j].last
        /\ pc[a] = "queue" =>
            /\ sw_desc_idx[Cur(a)] <= sw_desc_cnt[Cur(a)]
            /\ Len(tfer[Cur(a)]) >= 1
            /\ tfer[Cur(a)][Len(tfer[Cur(a)])].last =>
                    sw_desc_idx[Cur(a)] = sw_desc_cnt[Cur(a)]
            /\ \A i \in 1..Len(transfer_list) :
                transfer_list[i][1] = Cur(a) =>
                    transfer_list[i][2] < Len(tfer[Cur(a)])

SegInv ==
    \A s \in Segs :
        /\ Len(tfer[s]) <= 2
        /\ req[s] = "none" => Len(tfer[s]) = 0 /\ sw_desc_idx[s] = 0
        /\ \A j \in 1..Len(tfer[s]) : tfer[s][j].last => j = Len(tfer[s])

\* The transfers of one segment are listed in their order, and none of them
\* outlives the segment's end.
ListInv ==
    /\ \A i \in 1..Len(transfer_list) :
        /\ transfer_list[i][2] \in 1..Len(tfer[transfer_list[i][1]])
        /\ req[transfer_list[i][1]] \in {"live", "refused"}
    /\ \A i, k \in 1..Len(transfer_list) :
        i < k /\ transfer_list[i][1] = transfer_list[k][1] =>
            transfer_list[i][2] < transfer_list[k][2]

DoneSegs(a) == {s \in Segs : s[1] = a /\ req[s] = "done"}

\* caio counts the segments that have ended.
CountInv == \A a \in Iocbs : cmpl_cnt[a] = Cardinality(DoneSegs(a))

AioInv ==
    /\ TypeAio
    /\ CallInv
    /\ BuildInv
    /\ SegInv
    /\ ListInv
    /\ CountInv
    /\ CompletesOnce
    /\ DanglesOnlyIfCut
-----------------------------------------------------------------------------
(* What holds of the ring and the hardware as long as no descriptor in use  *)
(* was overwritten.  ReportedIsMoved rests on it.                           *)

\* The segment's descriptor that its transfer j begins with.
Base(s, j) == IF j = 1 THEN 0 ELSE tfer[s][1].num

\* The transfers cut a segment into parts, and one that is listed has left
\* transfer_init().  (A second one that leaves a rest overflows req->tfer[].)
SplitInv ==
    /\ \A s \in Segs :
        /\ Len(tfer[s]) = 0 => sw_desc_idx[s] = 0
        /\ Len(tfer[s]) = 1 => sw_desc_idx[s] = tfer[s][1].num
        /\ Len(tfer[s]) = 2 => sw_desc_idx[s] = tfer[s][1].num + tfer[s][2].num
        /\ Len(tfer[s]) = 2 /\ tfer[s][2].state # "NEW" =>
            \/ sw_desc_idx[s] = sw_desc_cnt[s]
            \/ /\ tfer[s][2].state = "SUBMITTED"
               /\ pc[s[1]] = "init" /\ Cur(s[1]) = s
    /\ \A i \in 1..Len(transfer_list) :
        tfer[transfer_list[i][1]][transfer_list[i][2]].state # "NEW"

\* What transfer_init() writes to the ring for the k-th descriptor of transfer j.
DescOf(s, j, k) ==
    [seg |-> s, j |-> j, k |-> Base(s, j) + k, stop |-> (k + 1 = tfer[s][j].num)]

\* The ring holds the descriptors of every request that has not ended.
RingInv ==
    \A s \in Segs : req[s] = "live" =>
        \A j \in 1..Len(tfer[s]) :
            /\ tfer[s][j].index + tfer[s][j].num <= DescMax
            /\ \A k \in 0..(tfer[s][j].num - 1) :
                desc[tfer[s][j].index + k] = DescOf(s, j, k)

\* The hardware has moved the first hw_count descriptors of s's transfer j, and
\* is at the next one or has stopped.
AtTransfer(s, j) ==
    /\ hw_count <= tfer[s][j].num
    /\ \A k \in 0..(hw_count - 1) : Base(s, j) + k \in moved[s]
    /\ Busy =>
        /\ hw_count < tfer[s][j].num
        /\ \/ hw_fly = NoDesc /\ hw_next = tfer[s][j].index + hw_count
           \/ /\ hw_fly = DescOf(s, j, hw_count)
              /\ hw_next = IF hw_count + 1 = tfer[s][j].num THEN DescMax
                           ELSE tfer[s][j].index + hw_count + 1

AtHead ==
    /\ desc_dequeued = 0
    /\ AtTransfer(transfer_list[1][1], transfer_list[1][2])

\* A running engine is at the head of the list; one whose BUSY bit was read late
\* may hang.  An engine that is stopped is idle and has nothing to report.
RunInv ==
    /\ running =>
        /\ transfer_list # <<>> /\ ~offline
        /\ AtHead \/ (~Busy /\ hw_status = {} /\ ~lock)
        /\ hw_status # {} => ~Busy
    /\ lock =>
        /\ transfer_list # <<>> /\ ~offline
        /\ AtHead /\ ~Busy /\ hw_status = {}
    /\ ~running /\ ~offline => ~Busy /\ hw_status = {}
    /\ offline => hw_next = DescMax

\* The descriptors of a COMPLETED transfer were moved.
TransferMoved ==
    \A s \in Segs : \A j \in 1..Len(tfer[s]) :
        tfer[s][j].state = "COMPLETED" =>
            \A k \in 0..(tfer[s][j].num - 1) : Base(s, j) + k \in moved[s]

\* An iocb counts no more than was moved for those of its segments that ended.
CountedMoved ==
    \A a \in Iocbs : res[a] <= Cardinality(OfEach(DoneSegs(a), moved))

MoveInv ==
    /\ TypeRing
    /\ SplitInv
    /\ \A s \in Segs : IsFiniteSet(moved[s])
    /\ ~overrun => RingInv /\ RunInv /\ TransferMoved /\ CountedMoved
-----------------------------------------------------------------------------
(* Progress                                                                *)

Accepted(a) ==
    /\ ret[a] = "EIOCBQUEUED"
    /\ \A i \in 1..req_cnt[a] : req[<<a, i>>] \in {"live", "done"}

\* An iocb whose segments were all accepted is completed, unless the engine was
\* left stopped with work on its list (an error before the first descriptor, a
\* BUSY bit read late, a reset), the ring was overrun, or freed memory is listed.
AioCompletes ==
    \A a \in Iocbs :
        Accepted(a) ~> completions[a] = 1 \/ stalled \/ overrun \/ Undefined
=============================================================================
