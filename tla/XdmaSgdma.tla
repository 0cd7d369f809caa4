----------------------------- MODULE XdmaSgdma ------------------------------
(***************************************************************************)
(* The character device of one SG DMA engine (xdma/cdev_sgdma.c): open and *)
(* close, read and write, and the ioctls that start and stop a performance *)
(* run or change the addressing mode, called by several processes at once. *)
(* A performance run is one cyclic transfer on the engine's list.          *)
(*                                                                         *)
(* The ioctls take no lock: each of their steps ends where the code may    *)
(* sleep or reads the engine again.  device_open, running and              *)
(* non_incr_addr are bits of one byte (libxdma.h:507-511), which a store   *)
(* of one of them reads and writes back; the two halves are two steps in   *)
(* the code that holds no lock, one step under engine->lock.  A transfer   *)
(* is known by its owner.  Files are opened without O_TRUNC (eop_flush 0). *)
(***************************************************************************)
EXTENDS Integers, Sequences, FiniteSets, SequencesExt

CONSTANTS
    Users,      \* processes, each with at most one open file
    MaxCalls,   \* bound: calls of each
    Faults,     \* what may go wrong, a subset of AllFaults
    Nobody      \* a null pointer: no owner

\* "nomem": an allocation fails; "copy": user memory or the version is bad;
\* "error": the hardware stops on an error; "offline": the device goes offline;
\* "timeout": a waiting request gives up.
AllFaults == {"nomem", "copy", "error", "offline", "timeout"}

ASSUME UsersAssumption    == IsFiniteSet(Users)
ASSUME FaultsAssumption   == Faults \subseteq AllFaults
ASSUME MaxCallsAssumption == MaxCalls \in Nat
ASSUME NobodyAssumption   == Nobody \notin Users

VARIABLES
    streaming,  \* an AXI-ST C2H engine
    file,       \* files that are open
    pc,         \* where each user's call is
    calls,      \* calls each user has begun
    loaded,     \* the byte of flags an unlocked store has read
    flags,      \* engine->device_open, running and non_incr_addr
    xdma_perf,  \* engine->xdma_perf, by the user who allocated it
    perf_buf,   \* engine->perf_buf_virt, likewise
    desc,       \* engine->desc is not NULL
    list,       \* engine->transfer_list
    picked,     \* the transfer engine_cyclic_stop() works on
    offline,    \* XDEV_FLAG_OFFLINE and ENGINE_SHUTDOWN_REQUEST
    hw,         \* the transfer the hardware runs
    hw_fixed,   \* NON_INCR_ADDR in the hardware's control register
    damage,     \* auxiliary: what has gone wrong
    trouble     \* auxiliary: what has happened that may explain it

userVars == <<streaming, file, pc, calls, loaded>>
perfVars == <<xdma_perf, perf_buf, desc, picked>>
engVars  == <<flags, list, offline, hw, hw_fixed>>
vars     == <<userVars, perfVars, engVars, damage, trouble>>

Transfer(u, c) == [by |-> u, cyclic |-> c]
None == Transfer(Nobody, FALSE)

Init ==
    /\ streaming \in BOOLEAN
    /\ file = [u \in Users |-> FALSE]
    /\ pc = [u \in Users |-> "idle"]
    /\ calls = [u \in Users |-> 0]
    /\ flags = [device_open |-> FALSE, running |-> FALSE, non_incr_addr |-> FALSE]
    /\ loaded = [u \in Users |-> flags]
    /\ xdma_perf = Nobody
    /\ perf_buf = Nobody
    /\ desc = TRUE
    /\ list = <<>>
    /\ picked = [u \in Users |-> None]
    /\ offline = FALSE
    /\ hw = None
    /\ hw_fixed = FALSE
    /\ damage = {}
    /\ trouble = {}

PerfCalls == {"perf_alloc", "perf_copy", "perf_submit", "perf_ring", "perf_queue",
              "stop_pick", "stop_unlink", "stop_copy", "get_copy"}

\* Calls that overlap: two on the performance run; one of those and a request;
\* a store of non_incr_addr and any other call.
Overlap ==
    LET In(S) == {u \in Users : pc[u] \in S}
        perf == In(PerfCalls)
        dma == In({"dma_queue", "dma_wait"})
        mode == In({"mode_store", "mode_write"})
    IN (IF Cardinality(perf) > 1 THEN {"race"} ELSE {}) \cup
       (IF dma # {} /\ (perf # {} \/ xdma_perf # Nobody) THEN {"mix"} ELSE {}) \cup
       (IF mode # {} /\ (perf \cup dma # {} \/ Cardinality(mode) > 1)
          THEN {"mode"} ELSE {}) \cup
       (IF Cardinality(In({"open_set"})) > 1 THEN {"opens"} ELSE {})

Trouble  == trouble \cup Overlap
Blame(S) == trouble' = Trouble \cup S
Hurt(S)  == damage' = damage \cup S
If(c, d) == IF c THEN {d} ELSE {}

Goto(u, place) == pc' = [pc EXCEPT ![u] = place]

Call(u, place) ==
    /\ pc[u] = "idle"
    /\ calls[u] < MaxCalls
    /\ calls' = [calls EXCEPT ![u] = @ + 1]
    /\ Goto(u, place)
-----------------------------------------------------------------------------
(* The engine: what the calls and the interrupt service use                *)

\* The transfers on the engine's list.
Queued == ToSet(list)

SetRunning(r) == flags' = [flags EXCEPT !.running = r]

\* xdma_engine_stop(): RUN and NON_INCR_ADDR leave the control register.
EngineStop ==
    /\ hw' = None
    /\ hw_fixed' = FALSE
    /\ SetRunning(FALSE)

\* Mutant of EngineStart: the mode is not written when the engine is started.
EngineStartIncr(queue) ==
    /\ hw' = Head(queue)
    /\ hw_fixed' = FALSE
    /\ SetRunning(TRUE)

\* engine_start() on the first of `queue'; engine_start_mode_config() writes
\* NON_INCR_ADDR as non_incr_addr says.
EngineStart(queue) ==
    /\ hw' = Head(queue)
    /\ hw_fixed' = flags.non_incr_addr
    /\ SetRunning(TRUE)

\* The end of transfer_queue(): the engine is started if it is idle.
TransferQueue(t) ==
    /\ list' = Append(list, t)
    /\ IF flags.running THEN UNCHANGED <<hw, hw_fixed, flags>>
                        ELSE EngineStart(list')

\* engine_service() for a transfer that ended: the engine is stopped, the head
\* leaves the list, and the engine goes on with the next transfer.
ServiceHead ==
    /\ list' = Tail(list)
    /\ IF list' = <<>> THEN EngineStop ELSE EngineStart(list')

Service ==
    /\ flags.running
    /\ list # <<>>
    /\ hw = Head(list)
    /\ ~hw.cyclic
    /\ ServiceHead
    /\ Goto(hw.by, "idle")
    /\ Hurt({})
    /\ Blame({})
    /\ UNCHANGED <<streaming, file, calls, loaded, perfVars, offline>>

\* An error stops the hardware.  A failed cyclic transfer leaves the list too,
\* and nobody waits for it or frees it.
ServiceError ==
    /\ "error" \in Faults
    /\ flags.running
    /\ list # <<>>
    /\ hw = Head(list)
    /\ ServiceHead
    /\ IF hw.cyclic THEN UNCHANGED pc ELSE Goto(hw.by, "idle")
    /\ Hurt(If(hw.cyclic, "leak"))
    /\ Blame({"error"})
    /\ UNCHANGED <<streaming, file, calls, loaded, perfVars, offline>>

\* xdma_device_offline() and xdma_device_online() for this engine.
Offline ==
    /\ "offline" \in Faults
    /\ ~offline
    /\ offline' = TRUE
    /\ EngineStop
    /\ Hurt({})
    /\ Blame({"offline"})
    /\ UNCHANGED <<userVars, perfVars, list>>

Online ==
    /\ offline
    /\ offline' = FALSE
    /\ hw_fixed' = FALSE
    /\ Hurt({})
    /\ Blame({})
    /\ UNCHANGED <<userVars, perfVars, flags, list, hw>>
-----------------------------------------------------------------------------
(* char_sgdma_open() and char_sgdma_close()                                *)

\* Mutant of OpenCheck: device_open is not tested.
OpenCheckUntested(u) ==
    /\ ~file[u]
    /\ IF streaming
         THEN /\ Call(u, "open_set")
              /\ loaded' = [loaded EXCEPT ![u] = flags]
              /\ UNCHANGED file
         ELSE /\ Call(u, "idle")
              /\ file' = [file EXCEPT ![u] = TRUE]
              /\ UNCHANGED loaded
    /\ Hurt({})
    /\ Blame({})
    /\ UNCHANGED <<streaming, perfVars, engVars>>

\* Only a streaming C2H engine is opened by one process at a time: the flag is
\* tested first and stored later.
OpenCheck(u) ==
    /\ ~file[u]
    /\ IF streaming
         THEN /\ ~flags.device_open
              /\ Call(u, "open_set")
              /\ loaded' = [loaded EXCEPT ![u] = flags]
              /\ UNCHANGED file
         ELSE /\ Call(u, "idle")
              /\ file' = [file EXCEPT ![u] = TRUE]
              /\ UNCHANGED loaded
    /\ Hurt({})
    /\ Blame({})
    /\ UNCHANGED <<streaming, perfVars, engVars>>

OpenSet(u) ==
    /\ pc[u] = "open_set"
    /\ Goto(u, "idle")
    /\ flags' = [loaded[u] EXCEPT !.device_open = TRUE]
    /\ file' = [file EXCEPT ![u] = TRUE]
    /\ Hurt({})
    /\ Blame({})
    /\ UNCHANGED <<streaming, calls, loaded, perfVars, list, offline, hw, hw_fixed>>

Close(u) ==
    /\ file[u]
    /\ pc[u] = "idle"
    /\ file' = [file EXCEPT ![u] = FALSE]
    /\ flags' = [flags EXCEPT !.device_open = @ /\ ~streaming]
    /\ Hurt({})
    /\ Blame({})
    /\ UNCHANGED <<streaming, pc, calls, loaded, perfVars, list, offline, hw, hw_fixed>>
-----------------------------------------------------------------------------
(* IOCTL_XDMA_PERF_START                                                   *)

\* Mutant of PerfStart: a run that is already there is not noticed.
PerfStartAgain(u) ==
    /\ file[u]
    /\ Call(u, "perf_alloc")
    /\ Hurt({})
    /\ Blame({})
    /\ UNCHANGED <<streaming, file, loaded, perfVars, engVars>>

PerfStart(u) ==
    /\ file[u]
    /\ xdma_perf = Nobody
    /\ Call(u, "perf_alloc")
    /\ Hurt({})
    /\ Blame({})
    /\ UNCHANGED <<streaming, file, loaded, perfVars, engVars>>

\* The result of kzalloc() is stored whether or not it is NULL.
PerfAlloc(u) ==
    /\ pc[u] = "perf_alloc"
    /\ \/ /\ xdma_perf' = u
          /\ Goto(u, "perf_copy")
          /\ Blame({})
       \/ /\ "nomem" \in Faults
          /\ xdma_perf' = Nobody
          /\ Goto(u, "idle")
          /\ Blame({"fail"})
    /\ Hurt(If(xdma_perf # Nobody, "leak"))
    /\ UNCHANGED <<streaming, file, calls, loaded, perf_buf, desc, picked, engVars>>

\* The user's structure is copied through engine->xdma_perf.  A bad version
\* ends the call and leaves engine->xdma_perf as it is.
PerfCopy(u) ==
    /\ pc[u] = "perf_copy"
    /\ \/ /\ Goto(u, "perf_submit")
          /\ Blame({})
       \/ /\ "copy" \in Faults
          /\ Goto(u, "idle")
          /\ Blame({"fail"})
    /\ Hurt(If(xdma_perf = Nobody, "oops"))
    /\ UNCHANGED <<streaming, file, calls, loaded, perfVars, engVars>>

\* xdma_performance_submit(): the buffer, sized by engine->xdma_perf.
PerfSubmit(u) ==
    /\ pc[u] = "perf_submit"
    /\ \/ /\ perf_buf' = u
          /\ Goto(u, "perf_ring")
          /\ Blame({})
       \/ /\ "nomem" \in Faults
          /\ perf_buf' = Nobody
          /\ Goto(u, "idle")
          /\ Blame({"fail"})
    /\ Hurt(If(xdma_perf = Nobody, "oops") \cup If(perf_buf # Nobody, "leak"))
    /\ UNCHANGED <<streaming, file, calls, loaded, xdma_perf, desc, picked, engVars>>

\* The transfer is allocated and its loop of descriptors written from the start
\* of the ring, without desc_lock; a ring that was lost is allocated again.
PerfRing(u) ==
    /\ pc[u] = "perf_ring"
    /\ \/ /\ desc' = TRUE
          /\ Hurt(If(list # <<>>, "overwritten"))
          /\ Goto(u, "perf_queue")
          /\ Blame({})
          /\ UNCHANGED perf_buf
       \/ /\ "nomem" \in Faults
          /\ perf_buf' = Nobody
          /\ Hurt({})
          /\ Goto(u, "idle")
          /\ Blame({"fail"})
          /\ UNCHANGED desc
    /\ UNCHANGED <<streaming, file, calls, loaded, xdma_perf, picked, engVars>>

\* When the device is offline the transfer is not queued: the error path drops
\* the ring and unlinks a transfer that was never linked.
PerfQueue(u) ==
    /\ pc[u] = "perf_queue"
    /\ Goto(u, "idle")
    /\ IF offline
         THEN /\ desc' = FALSE
              /\ perf_buf' = Nobody
              /\ Hurt({"leak", "oops"})
              /\ UNCHANGED engVars
         ELSE /\ TransferQueue(Transfer(u, TRUE))
              /\ Hurt({})
              /\ UNCHANGED <<desc, perf_buf, offline>>
    /\ Blame({})
    /\ UNCHANGED <<streaming, file, calls, loaded, xdma_perf, picked>>
-----------------------------------------------------------------------------
(* IOCTL_XDMA_PERF_STOP and IOCTL_XDMA_PERF_GET                            *)

PerfStop(u) ==
    /\ file[u]
    /\ xdma_perf # Nobody
    /\ Call(u, "stop_pick")
    /\ Hurt({})
    /\ Blame({})
    /\ UNCHANGED <<streaming, file, loaded, perfVars, engVars>>

\* engine_cyclic_stop() takes the head of the list, if there is one.
CyclicPick(u) ==
    /\ pc[u] = "stop_pick"
    /\ IF list = <<>>
         THEN Goto(u, "idle") /\ UNCHANGED picked
         ELSE /\ Goto(u, "stop_unlink")
              /\ picked' = [picked EXCEPT ![u] = Head(list)]
    /\ Hurt(If(xdma_perf = Nobody, "oops"))
    /\ Blame({})
    /\ UNCHANGED <<streaming, file, calls, loaded, xdma_perf, perf_buf, desc, engVars>>

\* list_del() of t, if it is linked.
Unlink(t) ==
    \/ t \notin Queued /\ UNCHANGED list
    \/ \E i \in 1..Len(list) : list[i] = t /\ list' = RemoveAt(list, i)

\* Mutant of CyclicUnlink: perf_buf_virt is not reset.
CyclicUnlinkKeepsBuffer(u) ==
    LET t == picked[u] IN
    /\ pc[u] = "stop_unlink"
    /\ Goto(u, "stop_copy")
    /\ EngineStop
    /\ IF t.cyclic
         THEN /\ Unlink(t)
              /\ Hurt(If(t \notin Queued, "oops"))
         ELSE /\ Hurt({})
              /\ UNCHANGED list
    /\ Blame({})
    /\ UNCHANGED <<streaming, file, calls, loaded, perf_buf, xdma_perf, desc, picked,
                   offline>>

\* It stops the engine, and unlinks the transfer if that is cyclic.
CyclicUnlink(u) ==
    LET t == picked[u] IN
    /\ pc[u] = "stop_unlink"
    /\ Goto(u, "stop_copy")
    /\ EngineStop
    /\ IF t.cyclic
         THEN /\ Unlink(t)
              /\ perf_buf' = Nobody
              /\ Hurt(If(t \notin Queued, "oops"))
         ELSE /\ Hurt({})
              /\ UNCHANGED <<list, perf_buf>>
    /\ Blame({})
    /\ UNCHANGED <<streaming, file, calls, loaded, xdma_perf, desc, picked, offline>>

\* The results are copied out, then the transfer and engine->xdma_perf freed.
PerfCopyOut(u) ==
    LET t == picked[u] IN
    /\ pc[u] = "stop_copy"
    /\ Goto(u, "idle")
    /\ picked' = [picked EXCEPT ![u] = None]
    /\ \/ /\ xdma_perf' = Nobody
          /\ Hurt(If(xdma_perf = Nobody, "oops") \cup If(~t.cyclic, "freed_request"))
          /\ Blame({})
       \/ /\ "copy" \in Faults
          /\ UNCHANGED xdma_perf
          /\ Hurt(If(t.cyclic, "leak"))
          /\ Blame({"fail"})
    /\ UNCHANGED <<streaming, file, calls, loaded, perf_buf, desc, engVars>>

PerfGet(u) ==
    /\ file[u]
    /\ xdma_perf # Nobody
    /\ Call(u, "get_copy")
    /\ Hurt({})
    /\ Blame({})
    /\ UNCHANGED <<streaming, file, loaded, perfVars, engVars>>

PerfGetCopy(u) ==
    /\ pc[u] = "get_copy"
    /\ Goto(u, "idle")
    /\ Hurt(If(xdma_perf = Nobody, "oops"))
    /\ Blame({})
    /\ UNCHANGED <<streaming, file, calls, loaded, perfVars, engVars>>
-----------------------------------------------------------------------------
(* IOCTL_XDMA_ADDRMODE_SET: non_incr_addr is stored, then the hardware told *)

AddrModeLoad(u) ==
    /\ file[u]
    /\ Call(u, "mode_store")
    /\ loaded' = [loaded EXCEPT ![u] = flags]
    /\ Hurt({})
    /\ Blame({})
    /\ UNCHANGED <<streaming, file, perfVars, engVars>>

AddrModeStore(u, fixed) ==
    /\ pc[u] = "mode_store"
    /\ Goto(u, "mode_write")
    /\ flags' = [loaded[u] EXCEPT !.non_incr_addr = fixed]
    /\ Hurt({})
    /\ Blame({})
    /\ UNCHANGED <<streaming, file, calls, loaded, perfVars, list, offline, hw, hw_fixed>>

AddrModeWrite(u) ==
    /\ pc[u] = "mode_write"
    /\ Goto(u, "idle")
    /\ hw_fixed' = flags.non_incr_addr
    /\ Hurt({})
    /\ Blame({})
    /\ UNCHANGED <<streaming, file, calls, loaded, perfVars, flags, list, offline, hw>>
-----------------------------------------------------------------------------
(* read(), write() and the aperture ioctls: one request of one transfer     *)

\* Direction and alignment are right, the memory is mapped.
DmaCheck(u) ==
    /\ file[u]
    /\ Call(u, "dma_queue")
    /\ Hurt({})
    /\ Blame({})
    /\ UNCHANGED <<streaming, file, loaded, perfVars, engVars>>

\* Under desc_lock the descriptors are written and the transfer queued.
DmaQueue(u) ==
    /\ pc[u] = "dma_queue"
    /\ \A v \in Users : pc[v] # "dma_wait"
    /\ IF offline
         THEN Goto(u, "idle") /\ UNCHANGED engVars
         ELSE /\ Goto(u, "dma_wait")
              /\ TransferQueue(Transfer(u, FALSE))
              /\ UNCHANGED offline
    /\ Hurt(If(~desc, "oops") \cup
            If(\E t \in Queued : t.cyclic, "overwritten"))
    /\ Blame({})
    /\ UNCHANGED <<streaming, file, calls, loaded, perfVars>>

\* The request gives up: transfer_abort() takes the transfer off the list only
\* if it is the first.
DmaTimeout(u) ==
    LET t == Transfer(u, FALSE) IN
    /\ "timeout" \in Faults \/ hw # t
    /\ pc[u] = "dma_wait"
    /\ Goto(u, "idle")
    /\ IF list # <<>> /\ Head(list) = t
         THEN list' = Tail(list) /\ Hurt({})
         ELSE UNCHANGED list /\ Hurt({"freed_request"})
    /\ EngineStop
    /\ Blame({})
    /\ UNCHANGED <<streaming, file, calls, loaded, perfVars, offline>>
-----------------------------------------------------------------------------
\* The model ends where freed memory is used.
Alive == damage \cap {"oops", "freed_request"} = {}

Next ==
    /\ Alive
    /\ \/ Service
       \/ ServiceError
       \/ Offline
       \/ Online
       \/ \E u \in Users :
            \/ OpenCheck(u) \/ OpenSet(u) \/ Close(u)
            \/ PerfStart(u) \/ PerfAlloc(u) \/ PerfCopy(u) \/ PerfSubmit(u)
            \/ PerfRing(u) \/ PerfQueue(u)
            \/ PerfStop(u) \/ CyclicPick(u) \/ CyclicUnlink(u) \/ PerfCopyOut(u)
            \/ PerfGet(u) \/ PerfGetCopy(u)
            \/ AddrModeLoad(u) \/ AddrModeWrite(u)
            \/ \E fixed \in BOOLEAN : AddrModeStore(u, fixed)
            \/ DmaCheck(u) \/ DmaQueue(u) \/ DmaTimeout(u)

Spec == Init /\ [][Next]_vars
-----------------------------------------------------------------------------
(* Properties                                                              *)

Flags == [device_open : BOOLEAN, running : BOOLEAN, non_incr_addr : BOOLEAN]
Transfers == [by : Users, cyclic : BOOLEAN]
Damages == {"leak", "oops", "freed_request", "overwritten"}
Troubles == {"race", "mix", "mode", "opens", "fail", "error", "offline"}

TypeOK ==
    /\ streaming \in BOOLEAN
    /\ file \in [Users -> BOOLEAN]
    /\ pc \in [Users -> {"idle", "open_set", "mode_store", "mode_write",
                         "dma_queue", "dma_wait"} \cup PerfCalls]
    /\ calls \in [Users -> 0..MaxCalls]
    /\ loaded \in [Users -> Flags]
    /\ flags \in Flags
    /\ xdma_perf \in Users \cup {Nobody}
    /\ perf_buf \in Users \cup {Nobody}
    /\ desc \in BOOLEAN
    /\ list \in Seq(Transfers)
    /\ picked \in [Users -> Transfers \cup {None}]
    /\ offline \in BOOLEAN
    /\ hw \in Transfers \cup {None}
    /\ hw_fixed \in BOOLEAN
    /\ damage \subseteq Damages
    /\ trouble \subseteq Troubles

\* A streaming C2H engine is open in one process at a time, and device_open
\* says so, unless two processes opened it in the same moment: the flag is
\* tested and set without a lock.
OpenExclusive ==
    streaming /\ "opens" \notin Trouble =>
        /\ Cardinality({u \in Users : file[u]}) <= 1
        /\ flags.device_open <=> \E u \in Users : file[u]

PerfIdle == \A u \in Users : pc[u] \notin PerfCalls

\* Between calls, a performance run is either whole (its structure, its buffer,
\* its cyclic transfer alone on the list, the hardware running it) or not there
\* at all, as long as the calls came one at a time and none failed.
PerfWhole ==
    PerfIdle /\ Trouble = {} =>
        /\ damage = {}
        /\ \/ /\ xdma_perf = Nobody
              /\ perf_buf = Nobody
              /\ \A t \in Queued : ~t.cyclic
           \/ /\ xdma_perf # Nobody
              /\ perf_buf = xdma_perf
              /\ list = <<Transfer(xdma_perf, TRUE)>>
              /\ hw = list[1]
              /\ flags.running

\* What each kind of damage needs.  Memory leaks only if calls on the run
\* overlapped or one step of it failed; the driver crashes in a performance
\* call only if two overlapped, a request was mixed in or the device was
\* offline; a waiting request loses its transfer or its descriptors only if
\* a performance run used the engine at the same time.
DamageExplained ==
    /\ "leak" \in damage => Trouble \cap {"race", "fail", "error", "offline"} # {}
    /\ "oops" \in damage => Trouble \cap {"race", "error", "offline"} # {}
    /\ damage \cap {"freed_request", "overwritten"} # {} =>
        Trouble \cap {"mix", "race"} # {}

\* While the hardware runs a transfer it addresses the device the way
\* non_incr_addr says, which is what check_transfer_align() went by, unless a
\* change of the mode overlapped another call or two opens overlapped.
ModeAgrees ==
    hw # None /\ Trouble \cap {"mode", "opens"} = {} =>
        \/ hw_fixed = flags.non_incr_addr
        \/ \E u \in Users : pc[u] = "mode_write"
-----------------------------------------------------------------------------
(* The inductive invariants of XdmaSgdmaProofs                             *)

Clear(S) == Trouble \cap S = {}
NoneCyclic == \A t \in Queued : ~t.cyclic
OneRequest == \A i, j \in 1..Len(list) : ~list[i].cyclic /\ ~list[j].cyclic => i = j
OneRun     == \A i, j \in 1..Len(list) : list[i].cyclic /\ list[j].cyclic => i = j

\* Only an open file is used, and only a streaming engine's open has two halves.
FileInv ==
    \A u \in Users :
        /\ pc[u] \notin {"idle", "open_set"} => file[u]
        /\ pc[u] = "open_set" => streaming

OpenInv ==
    streaming /\ Clear({"opens"}) =>
        /\ flags.device_open <=> \E u \in Users : file[u]
        /\ \A u, v \in Users : file[u] /\ file[v] => u = v
        /\ \A u \in Users : pc[u] = "open_set" => ~flags.device_open
        /\ \A u \in Users : pc[u] = "mode_store" => loaded[u].device_open

\* An engine that is offline is stopped.
OfflineInv == offline => hw = None /\ "offline" \in trouble

\* desc_lock lets one request wait, and that one is on the list.
DmaInv ==
    Alive =>
        /\ desc
        /\ \A u \in Users : pc[u] = "dma_wait" <=> Transfer(u, FALSE) \in Queued
        /\ OneRequest

\* What each performance call relies on.
CallInv(u) ==
    /\ pc[u] = "perf_alloc" => xdma_perf = Nobody
    /\ pc[u] \in {"perf_copy", "perf_submit", "perf_ring", "perf_queue"} =>
        xdma_perf = u /\ NoneCyclic
    /\ pc[u] \in {"stop_pick", "stop_unlink", "stop_copy", "get_copy"} =>
        xdma_perf # Nobody
    /\ pc[u] = "stop_unlink" /\ picked[u].cyclic => picked[u] \in Queued \/ ~Clear({"error"})
    /\ pc[u] = "stop_copy" /\ picked[u].cyclic => NoneCyclic
    /\ pc[u] \in {"stop_unlink", "stop_copy"} /\ ~picked[u].cyclic => ~Clear({"mix"})

\* As long as the performance calls come one at a time, a cyclic transfer is the
\* only one and belongs to engine->xdma_perf.
PerfInv ==
    Alive /\ Clear({"race"}) =>
        /\ \A t \in Queued : t.cyclic => t.by = xdma_perf
        /\ OneRun
        /\ \A u \in Users : CallInv(u)

\* The buffer lives as long as the transfer, from its allocation on.
BufInv ==
    Alive /\ Clear({"race", "fail", "error", "offline"}) =>
        /\ perf_buf # Nobody => perf_buf = xdma_perf
        /\ perf_buf # Nobody <=>
            ~NoneCyclic \/ \E u \in Users : pc[u] \in {"perf_ring", "perf_queue"}

\* The flags a store is about to write back are those of the engine.
ModeInv ==
    /\ Clear({"mode", "opens"}) =>
        \A u \in Users :
            pc[u] = "open_set" => loaded[u].non_incr_addr = flags.non_incr_addr
    /\ ModeAgrees

\* With nothing overlapping and nothing failing, a listed run is running alone.
RunInv ==
    Trouble = {} =>
        /\ \A u \in Users : pc[u] \in {"open_set", "mode_store"} => loaded[u] = flags
        /\ flags.running => list # <<>>
        /\ ~NoneCyclic => Len(list) = 1 /\ hw = list[1] /\ flags.running
        /\ xdma_perf # Nobody =>
            \/ ~NoneCyclic
            \/ \E u \in Users : pc[u] \in {"perf_copy", "perf_submit", "perf_ring",
                                           "perf_queue", "stop_copy"}
=============================================================================
