-------------------------- MODULE XdmaEngineProofs --------------------------
(***************************************************************************)
(* Proofs about XdmaEngine for every set of requests, every ring size and  *)
(* every combination of faults.  The first part is the invariant of the    *)
(* engine; the second goes on from it: outcomes are final, memory in use   *)
(* by the hardware is mapped, descriptors are counted exactly, and the     *)
(* engine implements DmaService.                                           *)
(***************************************************************************)
EXTENDS XdmaEngine, FiniteSetTheorems, TLAPS

-----------------------------------------------------------------------------
(* What engine_service_transfer_list() computes on a list of one.          *)

\* No transfer, no descriptors.
LEMMA NoneThrough == DescsThrough(0) = 0
<1>1. {p \in (1..0) \X (1..DescMax) : p[2] <= xfer[transfer_list[p[1]]].num} = {}
  OBVIOUS
<1>2. QED
  BY <1>1, FS_EmptySet DEF DescsThrough

\* The descriptors of a list of one are those of its transfer.
LEMMA OneThrough ==
    ASSUME NEW r \in Requests, transfer_list = <<r>>,
           xfer[r].num \in 0..DescMax
    PROVE  DescsThrough(1) = xfer[r].num
<1> DEFINE n == xfer[r].num
           S == {p \in (1..1) \X (1..DescMax) :
                    p[2] <= xfer[transfer_list[p[1]]].num}
           f == [i \in 1..n |-> <<1, i>>]
<1>1. n \in Nat /\ n <= DescMax /\ DescMax \in Nat
  BY DescMaxAssumption
<1>2. S = {p \in (1..1) \X (1..DescMax) : p[2] <= n}
  OBVIOUS
<1> HIDE DEF n
<1>3. f \in Bijection(1..n, S)
  <2>1. f \in [1..n -> S]
    BY <1>1, <1>2
  <2>2. \A a, b \in 1..n : f[a] = f[b] => a = b
    OBVIOUS
  <2>3. \A p \in S : \E a \in 1..n : f[a] = p
    BY <1>1, <1>2
  <2>4. QED
    BY <2>1, <2>2, <2>3 DEF Bijection, Injection, Surjection, IsInjective
<1>4. IsFiniteSet(1..n) /\ Cardinality(1..n) = n
  BY <1>1, FS_Interval
<1>5. Cardinality(S) = n
  BY <1>3, <1>4, FS_Bijection DEF ExistsBijection
<1>6. QED
  BY <1>5 DEF DescsThrough, n

\* The loop stops at once when the hardware has not passed the only transfer.
LEMMA NonePassed ==
    ASSUME NEW r \in Requests, transfer_list = <<r>>,
           xfer[r].num \in 0..DescMax, NEW c \in Int, c <= xfer[r].num
    PROVE  PassedOver(c) = 0
<1>1. DescsThrough(1) = xfer[r].num
  BY OneThrough
<1>2. Len(transfer_list) = 1
  OBVIOUS
<1>3. {j \in 1..Len(transfer_list) : c > DescsThrough(j)} = {}
  <2>1. SUFFICES ASSUME NEW j \in 1..1, c > DescsThrough(j)
                 PROVE  FALSE
    BY <1>2
  <2>2. j = 1
    OBVIOUS
  <2>3. QED
    BY <1>1, <2>1, <2>2, DescMaxAssumption
<1>4. QED
  BY <1>3, FS_EmptySet DEF PassedOver
-----------------------------------------------------------------------------
(* Steps of xdma_xfer_submit().                                            *)

\* A step that leaves the ring alone, and the transfers whose descriptors are
\* on it, keeps their chains.
LEMMA ChainKept ==
    ASSUME ChainInv, UNCHANGED desc,
           \A q \in Requests : pc'[q] \in Locked \ {"init"} =>
              /\ pc[q] \in Locked \ {"init"}
              /\ xfer'[q] = xfer[q] /\ sw_desc_idx'[q] = sw_desc_idx[q]
    PROVE  ChainInv'
<1>1. \A r \in Requests : pc'[r] \in Locked \ {"init"} =>
        \A i : Entry(r, i)' = Entry(r, i)
  BY DEF Entry
<1>2. QED
  BY <1>1 DEF ChainInv

\* Entering xdma_xfer_submit() keeps the invariant: the request has nothing in
\* the ring and is on no list.
LEMMA SubmitStep ==
    ASSUME IInv, NEW r \in Requests, NEW n \in Sizes, Submit(r, n)
    PROVE  IInv'
<1>1. TypeOK'
  <2>1. TypeReq'
    BY SizesAssumption DEF IInv, TypeOK, Submit, Goto, TypeReq, Places,
       Errors, States, Xfer, reqVars
  <2>2. TypeRing'
    BY SizesAssumption DEF IInv, TypeOK, Submit, Goto, TypeRing, ringVars
  <2>3. TypeEngine'
    BY SizesAssumption DEF IInv, TypeOK, Submit, Goto, TypeEngine, engVars
  <2>4. TypeDevice'
    BY SizesAssumption DEF IInv, TypeOK, Submit, Goto, TypeDevice, irqVars,
       devVars
  <2>5. TypeHardware'
    BY SizesAssumption DEF IInv, TypeOK, Submit, Goto, TypeHardware, hwVars
  <2>6. QED
    BY <2>1, <2>2, <2>3, <2>4, <2>5 DEF TypeOK
<1>2. LockInv'
  BY NoReqAssumption DEF IInv, Submit, Goto, LockInv, Locked, TypeOK, TypeReq,
     reqVars, ringVars, engVars, irqVars, devVars, hwVars
<1>3. ListInv'
  BY DEF IInv, Submit, Goto, ListInv, LockInv, Queued, Locked, TypeOK,
     TypeReq, reqVars, ringVars, engVars, irqVars, devVars, hwVars
<1>4. SubmittedIsListed'
  BY DEF IInv, Submit, Goto, SubmittedIsListed, TypeOK, TypeReq, reqVars,
     ringVars, engVars, irqVars, devVars, hwVars
<1>5. ProgressInv'
  BY SizesAssumption DEF IInv, Submit, Goto, ProgressInv, Locked, Queued,
     TypeOK, TypeReq, reqVars, ringVars, engVars, irqVars, devVars, hwVars
<1>6. ChainInv'
  <2>1. \A q \in Requests : pc'[q] \in Locked \ {"init"} =>
          /\ pc[q] \in Locked \ {"init"}
          /\ xfer'[q] = xfer[q] /\ sw_desc_idx'[q] = sw_desc_idx[q]
    BY DEF IInv, Submit, Goto, Locked, TypeOK, TypeReq, reqVars
  <2>2. QED
    BY <2>1, ChainKept DEF IInv, Submit, ringVars
<1>7. RunInv'
  BY DEF IInv, Submit, Goto, RunInv, ListInv, FlyingNow, Entry, Queued,
     TypeOK, TypeReq, reqVars, ringVars, engVars, irqVars, devVars, hwVars
<1>8. DoneIsMoved'
  BY DEF IInv, Submit, Goto, DoneIsMoved, TypeOK, TypeReq, reqVars, ringVars,
     engVars, irqVars, devVars, hwVars
<1>9. CompletedIsMoved'
  BY DEF IInv, Submit, Goto, CompletedIsMoved, TypeOK, TypeReq, reqVars,
     ringVars, engVars, irqVars, devVars, hwVars
<1>10. QED
  BY <1>1, <1>2, <1>3, <1>4, <1>5, <1>6, <1>7, <1>8, <1>9 DEF IInv

\* A call refused at the door (offline, no mapping, no memory) keeps the
\* invariant.
LEMMA SubmitRefusedStep ==
    ASSUME IInv, NEW r \in Requests, NEW e \in Errors, SubmitRefused(r, e)
    PROVE  IInv'
<1>1. TypeOK'
  <2>1. TypeReq'
    <3>1. ret' \in [Requests -> [count : Nat, error : Errors]]
      BY DEF IInv, TypeOK, SubmitRefused, ReturnValue, TypeReq, Errors
    <3>2. QED
      BY <3>1 DEF IInv, TypeOK, SubmitRefused, Goto, TypeReq, Places, Errors
  <2>2. TypeRing'
    BY SizesAssumption DEF IInv, TypeOK, SubmitRefused, Goto, TypeRing,
       ringVars
  <2>3. TypeEngine'
    BY SizesAssumption DEF IInv, TypeOK, SubmitRefused, Goto, TypeEngine,
       engVars
  <2>4. TypeDevice'
    BY SizesAssumption DEF IInv, TypeOK, SubmitRefused, Goto, TypeDevice,
       irqVars, devVars
  <2>5. TypeHardware'
    BY SizesAssumption DEF IInv, TypeOK, SubmitRefused, Goto, TypeHardware,
       hwVars
  <2>6. QED
    BY <2>1, <2>2, <2>3, <2>4, <2>5 DEF TypeOK
<1>2. LockInv'
  BY NoReqAssumption DEF IInv, SubmitRefused, Goto, LockInv, Locked, TypeOK,
     TypeReq, reqVars, ringVars, engVars, irqVars, devVars, hwVars
<1>3. ListInv'
  BY DEF IInv, SubmitRefused, Goto, ListInv, LockInv, Queued, Locked, TypeOK,
     TypeReq, reqVars, ringVars, engVars, irqVars, devVars, hwVars
<1>4. SubmittedIsListed'
  BY DEF IInv, SubmitRefused, Goto, SubmittedIsListed, TypeOK, TypeReq,
     reqVars, ringVars, engVars, irqVars, devVars, hwVars
<1>5. ProgressInv'
  BY SizesAssumption DEF IInv, SubmitRefused, Goto, ProgressInv, Locked,
     Queued, TypeOK, TypeReq, reqVars, ringVars, engVars, irqVars, devVars,
     hwVars
<1>6. ChainInv'
  <2>1. \A q \in Requests : pc'[q] \in Locked \ {"init"} =>
          /\ pc[q] \in Locked \ {"init"}
          /\ xfer'[q] = xfer[q] /\ sw_desc_idx'[q] = sw_desc_idx[q]
    BY DEF IInv, SubmitRefused, Goto, Locked, TypeOK, TypeReq, reqVars
  <2>2. QED
    BY <2>1, ChainKept DEF IInv, SubmitRefused, ringVars
<1>7. RunInv'
  BY DEF IInv, SubmitRefused, Goto, RunInv, ListInv, FlyingNow, Entry, Queued,
     TypeOK, TypeReq, reqVars, ringVars, engVars, irqVars, devVars, hwVars
<1>8. DoneIsMoved'
  BY DEF IInv, SubmitRefused, Goto, DoneIsMoved, TypeOK, TypeReq, reqVars,
     ringVars, engVars, irqVars, devVars, hwVars
<1>9. CompletedIsMoved'
  BY DEF IInv, SubmitRefused, Goto, CompletedIsMoved, TypeOK, TypeReq,
     reqVars, ringVars, engVars, irqVars, devVars, hwVars
<1>10. QED
  BY <1>1, <1>2, <1>3, <1>4, <1>5, <1>6, <1>7, <1>8, <1>9 DEF IInv

\* Taking desc_lock keeps the invariant: a free desc_lock means an empty list.
LEMMA LockDescStep ==
    ASSUME IInv, NEW r \in Requests, LockDesc(r)
    PROVE  IInv'
<1>1. TypeOK'
  <2>1. TypeReq'
    BY SizesAssumption DEF IInv, TypeOK, LockDesc, Goto, TypeReq, Places,
       Errors, States, Xfer, reqVars
  <2>2. TypeRing'
    BY SizesAssumption DEF IInv, TypeOK, LockDesc, Goto, TypeRing, ringVars
  <2>3. TypeEngine'
    BY SizesAssumption DEF IInv, TypeOK, LockDesc, Goto, TypeEngine, engVars
  <2>4. TypeDevice'
    BY SizesAssumption DEF IInv, TypeOK, LockDesc, Goto, TypeDevice, irqVars,
       devVars
  <2>5. TypeHardware'
    BY SizesAssumption DEF IInv, TypeOK, LockDesc, Goto, TypeHardware, hwVars
  <2>6. QED
    BY <2>1, <2>2, <2>3, <2>4, <2>5 DEF TypeOK
<1>2. LockInv'
  BY NoReqAssumption DEF IInv, LockDesc, Goto, LockInv, Locked, TypeOK,
     TypeReq, reqVars, ringVars, engVars, irqVars, devVars, hwVars
<1>3. ListInv'
  BY NoReqAssumption
  DEF IInv, LockDesc, Goto, ListInv, LockInv, Queued, Locked, TypeOK,
     TypeReq, TypeRing, reqVars, ringVars, engVars, irqVars, devVars, hwVars
<1>4. SubmittedIsListed'
  BY DEF IInv, LockDesc, Goto, SubmittedIsListed, TypeOK, TypeReq, reqVars,
     ringVars, engVars, irqVars, devVars, hwVars
<1>5. ProgressInv'
  BY SizesAssumption DEF IInv, LockDesc, Goto, ProgressInv, Locked, Queued,
     TypeOK, TypeReq, reqVars, ringVars, engVars, irqVars, devVars, hwVars
<1>6. ChainInv'
  <2>1. \A q \in Requests : pc'[q] \in Locked \ {"init"} =>
          /\ pc[q] \in Locked \ {"init"}
          /\ xfer'[q] = xfer[q] /\ sw_desc_idx'[q] = sw_desc_idx[q]
    BY DEF IInv, LockDesc, Goto, Locked, TypeOK, TypeReq, reqVars
  <2>2. QED
    BY <2>1, ChainKept DEF IInv, LockDesc, ringVars
<1>7. RunInv'
  BY DEF IInv, LockDesc, Goto, RunInv, ListInv, FlyingNow, Entry, Queued,
     TypeOK, TypeReq, reqVars, ringVars, engVars, irqVars, devVars, hwVars
<1>8. DoneIsMoved'
  BY DEF IInv, LockDesc, Goto, DoneIsMoved, TypeOK, TypeReq, reqVars,
     ringVars, engVars, irqVars, devVars, hwVars
<1>9. CompletedIsMoved'
  BY DEF IInv, LockDesc, Goto, CompletedIsMoved, TypeOK, TypeReq, reqVars,
     ringVars, engVars, irqVars, devVars, hwVars
<1>10. QED
  BY <1>1, <1>2, <1>3, <1>4, <1>5, <1>6, <1>7, <1>8, <1>9 DEF IInv

\* The error path of transfer_queue() keeps the invariant: the refused transfer
\* never reached the list.
LEMMA QueueRefusedStep ==
    ASSUME IInv, NEW r \in Requests, pc[r] \in {"check", "queue"}, QueueRefused(r)
    PROVE  IInv'
<1>1. TypeOK'
  <2>1. TypeReq'
    BY SizesAssumption DEF IInv, TypeOK, QueueRefused, Goto, TypeReq, Places,
       Errors, States, Xfer, reqVars
  <2>2. TypeRing'
    BY SizesAssumption DEF IInv, TypeOK, QueueRefused, Goto, TypeRing, ringVars
  <2>3. TypeEngine'
    BY SizesAssumption DEF IInv, TypeOK, QueueRefused, Goto, TypeEngine,
       engVars
  <2>4. TypeDevice'
    BY SizesAssumption DEF IInv, TypeOK, QueueRefused, Goto, TypeDevice,
       irqVars, devVars
  <2>5. TypeHardware'
    BY SizesAssumption DEF IInv, TypeOK, QueueRefused, Goto, TypeHardware,
       hwVars
  <2>6. QED
    BY <2>1, <2>2, <2>3, <2>4, <2>5 DEF TypeOK
<1>2. LockInv'
  BY NoReqAssumption DEF IInv, QueueRefused, Goto, LockInv, Locked, TypeOK,
     TypeReq, reqVars, ringVars, engVars, irqVars, devVars, hwVars
<1>3. ListInv'
  BY DEF IInv, QueueRefused, Goto, ListInv, LockInv, Queued, Locked, TypeOK,
     TypeReq, reqVars, ringVars, engVars, irqVars, devVars, hwVars
<1>4. SubmittedIsListed'
  BY DEF IInv, QueueRefused, Goto, SubmittedIsListed, TypeOK, TypeReq,
     reqVars, ringVars, engVars, irqVars, devVars, hwVars
<1>5. ProgressInv'
  BY SizesAssumption DEF IInv, QueueRefused, Goto, ProgressInv, Locked,
     Queued, TypeOK, TypeReq, reqVars, ringVars, engVars, irqVars, devVars,
     hwVars
<1>6. ChainInv'
  BY DEF IInv, QueueRefused, Goto, ChainInv, LockInv, Entry, Locked, TypeOK,
     TypeReq, Xfer, reqVars, ringVars, engVars, irqVars, devVars, hwVars
<1>7. RunInv'
  BY DEF IInv, QueueRefused, Goto, RunInv, ListInv, FlyingNow, Entry, Queued,
     TypeOK, TypeReq, reqVars, ringVars, engVars, irqVars, devVars, hwVars
<1>8. DoneIsMoved'
  BY DEF IInv, QueueRefused, Goto, DoneIsMoved, TypeOK, TypeReq, reqVars,
     ringVars, engVars, irqVars, devVars, hwVars
<1>9. CompletedIsMoved'
  BY DEF IInv, QueueRefused, Goto, CompletedIsMoved, TypeOK, TypeReq, reqVars,
     ringVars, engVars, irqVars, devVars, hwVars
<1>10. QED
  BY <1>1, <1>2, <1>3, <1>4, <1>5, <1>6, <1>7, <1>8, <1>9 DEF IInv

\* Waking up because the transfer is settled keeps the invariant.
LEMMA WokenStep ==
    ASSUME IInv, NEW r \in Requests, Woken(r)
    PROVE  IInv'
<1>1. TypeOK'
  <2>1. TypeReq'
    BY SizesAssumption DEF IInv, TypeOK, Woken, Goto, TypeReq, Places, Errors,
       States, Xfer, reqVars
  <2>2. TypeRing'
    BY SizesAssumption DEF IInv, TypeOK, Woken, Goto, TypeRing, ringVars
  <2>3. TypeEngine'
    BY SizesAssumption DEF IInv, TypeOK, Woken, Goto, TypeEngine, engVars
  <2>4. TypeDevice'
    BY SizesAssumption DEF IInv, TypeOK, Woken, Goto, TypeDevice, irqVars,
       devVars
  <2>5. TypeHardware'
    BY SizesAssumption DEF IInv, TypeOK, Woken, Goto, TypeHardware, hwVars
  <2>6. QED
    BY <2>1, <2>2, <2>3, <2>4, <2>5 DEF TypeOK
<1>2. LockInv'
  BY NoReqAssumption DEF IInv, Woken, Goto, LockInv, Locked, TypeOK, TypeReq,
     reqVars, ringVars, engVars, irqVars, devVars, hwVars
<1>3. ListInv'
  BY DEF IInv, Woken, Goto, ListInv, LockInv, Queued, Locked, TypeOK, TypeReq,
     reqVars, ringVars, engVars, irqVars, devVars, hwVars
<1>4. SubmittedIsListed'
  BY DEF IInv, Woken, Goto, SubmittedIsListed, TypeOK, TypeReq, reqVars,
     ringVars, engVars, irqVars, devVars, hwVars
<1>5. ProgressInv'
  BY SizesAssumption DEF IInv, Woken, Goto, ProgressInv, Locked, Queued,
     TypeOK, TypeReq, reqVars, ringVars, engVars, irqVars, devVars, hwVars
<1>6. ChainInv'
  <2>1. \A q \in Requests : pc'[q] \in Locked \ {"init"} =>
          /\ pc[q] \in Locked \ {"init"}
          /\ xfer'[q] = xfer[q] /\ sw_desc_idx'[q] = sw_desc_idx[q]
    BY DEF IInv, Woken, Goto, Locked, TypeOK, TypeReq, reqVars
  <2>2. QED
    BY <2>1, ChainKept DEF IInv, Woken, ringVars
<1>7. RunInv'
  BY DEF IInv, Woken, Goto, RunInv, ListInv, FlyingNow, Entry, Queued, TypeOK,
     TypeReq, reqVars, ringVars, engVars, irqVars, devVars, hwVars
<1>8. DoneIsMoved'
  BY DEF IInv, Woken, Goto, DoneIsMoved, TypeOK, TypeReq, reqVars, ringVars,
     engVars, irqVars, devVars, hwVars
<1>9. CompletedIsMoved'
  BY DEF IInv, Woken, Goto, CompletedIsMoved, TypeOK, TypeReq, reqVars,
     ringVars, engVars, irqVars, devVars, hwVars
<1>10. QED
  BY <1>1, <1>2, <1>3, <1>4, <1>5, <1>6, <1>7, <1>8, <1>9 DEF IInv

\* A wait cut short keeps the invariant: the transfer is still listed.
LEMMA TimeoutStep ==
    ASSUME IInv, NEW r \in Requests, Timeout(r)
    PROVE  IInv'
<1>1. TypeOK'
  <2>1. TypeReq'
    BY SizesAssumption DEF IInv, TypeOK, Timeout, Goto, TypeReq, Places,
       Errors, States, Xfer, reqVars
  <2>2. TypeRing'
    BY SizesAssumption DEF IInv, TypeOK, Timeout, Goto, TypeRing, ringVars
  <2>3. TypeEngine'
    BY SizesAssumption DEF IInv, TypeOK, Timeout, Goto, TypeEngine, engVars
  <2>4. TypeDevice'
    BY SizesAssumption DEF IInv, TypeOK, Timeout, Goto, TypeDevice, irqVars,
       devVars
  <2>5. TypeHardware'
    BY SizesAssumption DEF IInv, TypeOK, Timeout, Goto, TypeHardware, hwVars
  <2>6. QED
    BY <2>1, <2>2, <2>3, <2>4, <2>5 DEF TypeOK
<1>2. LockInv'
  BY NoReqAssumption DEF IInv, Timeout, Goto, LockInv, Locked, TypeOK,
     TypeReq, reqVars, ringVars, engVars, irqVars, devVars, hwVars
<1>3. ListInv'
  BY DEF IInv, Timeout, Goto, ListInv, LockInv, Queued, Locked, TypeOK,
     TypeReq, reqVars, ringVars, engVars, irqVars, devVars, hwVars
<1>4. SubmittedIsListed'
  BY DEF IInv, Timeout, Goto, SubmittedIsListed, TypeOK, TypeReq, reqVars,
     ringVars, engVars, irqVars, devVars, hwVars
<1>5. ProgressInv'
  BY SizesAssumption DEF IInv, Timeout, Goto, ProgressInv, Locked, Queued,
     TypeOK, TypeReq, reqVars, ringVars, engVars, irqVars, devVars, hwVars
<1>6. ChainInv'
  <2>1. \A q \in Requests : pc'[q] \in Locked \ {"init"} =>
          /\ pc[q] \in Locked \ {"init"}
          /\ xfer'[q] = xfer[q] /\ sw_desc_idx'[q] = sw_desc_idx[q]
    BY DEF IInv, Timeout, Goto, Locked, TypeOK, TypeReq, reqVars
  <2>2. QED
    BY <2>1, ChainKept DEF IInv, Timeout, ringVars
<1>7. RunInv'
  BY DEF IInv, Timeout, Goto, RunInv, ListInv, FlyingNow, Entry, Queued,
     TypeOK, TypeReq, reqVars, ringVars, engVars, irqVars, devVars, hwVars
<1>8. DoneIsMoved'
  BY DEF IInv, Timeout, Goto, DoneIsMoved, TypeOK, TypeReq, reqVars, ringVars,
     engVars, irqVars, devVars, hwVars
<1>9. CompletedIsMoved'
  BY DEF IInv, Timeout, Goto, CompletedIsMoved, TypeOK, TypeReq, reqVars,
     ringVars, engVars, irqVars, devVars, hwVars
<1>10. QED
  BY <1>1, <1>2, <1>3, <1>4, <1>5, <1>6, <1>7, <1>8, <1>9 DEF IInv

\* Unmapping and returning keep the invariant.
LEMMA UnmapReturnStep ==
    ASSUME IInv, NEW r \in Requests, UnmapReturn(r)
    PROVE  IInv'
<1>1. TypeOK'
  <2>1. TypeReq'
    <3>1. ret' \in [Requests -> [count : Nat, error : Errors]]
      BY DEF IInv, TypeOK, UnmapReturn, ReturnValue, TypeReq, Errors
    <3>2. QED
      BY <3>1 DEF IInv, TypeOK, UnmapReturn, Goto, TypeReq, Places, Errors
  <2>2. TypeRing'
    BY SizesAssumption DEF IInv, TypeOK, UnmapReturn, Goto, TypeRing, ringVars
  <2>3. TypeEngine'
    BY SizesAssumption DEF IInv, TypeOK, UnmapReturn, Goto, TypeEngine, engVars
  <2>4. TypeDevice'
    BY SizesAssumption DEF IInv, TypeOK, UnmapReturn, Goto, TypeDevice,
       irqVars, devVars
  <2>5. TypeHardware'
    BY SizesAssumption DEF IInv, TypeOK, UnmapReturn, Goto, TypeHardware,
       hwVars
  <2>6. QED
    BY <2>1, <2>2, <2>3, <2>4, <2>5 DEF TypeOK
<1>2. LockInv'
  BY NoReqAssumption DEF IInv, UnmapReturn, Goto, LockInv, Locked, TypeOK,
     TypeReq, reqVars, ringVars, engVars, irqVars, devVars, hwVars
<1>3. ListInv'
  BY DEF IInv, UnmapReturn, Goto, ListInv, LockInv, Queued, Locked, TypeOK,
     TypeReq, reqVars, ringVars, engVars, irqVars, devVars, hwVars
<1>4. SubmittedIsListed'
  BY DEF IInv, UnmapReturn, Goto, SubmittedIsListed, TypeOK, TypeReq, reqVars,
     ringVars, engVars, irqVars, devVars, hwVars
<1>5. ProgressInv'
  BY SizesAssumption DEF IInv, UnmapReturn, Goto, ProgressInv, Locked, Queued,
     TypeOK, TypeReq, reqVars, ringVars, engVars, irqVars, devVars, hwVars
<1>6. ChainInv'
  <2>1. \A q \in Requests : pc'[q] \in Locked \ {"init"} =>
          /\ pc[q] \in Locked \ {"init"}
          /\ xfer'[q] = xfer[q] /\ sw_desc_idx'[q] = sw_desc_idx[q]
    BY DEF IInv, UnmapReturn, Goto, Locked, TypeOK, TypeReq, reqVars
  <2>2. QED
    BY <2>1, ChainKept DEF IInv, UnmapReturn, ringVars
<1>7. RunInv'
  BY DEF IInv, UnmapReturn, Goto, RunInv, ListInv, FlyingNow, Entry, Queued,
     TypeOK, TypeReq, reqVars, ringVars, engVars, irqVars, devVars, hwVars
<1>8. DoneIsMoved'
  BY DEF IInv, UnmapReturn, Goto, DoneIsMoved, TypeOK, TypeReq, reqVars,
     ringVars, engVars, irqVars, devVars, hwVars
<1>9. CompletedIsMoved'
  BY DEF IInv, UnmapReturn, Goto, CompletedIsMoved, TypeOK, TypeReq, reqVars,
     ringVars, engVars, irqVars, devVars, hwVars
<1>10. QED
  BY <1>1, <1>2, <1>3, <1>4, <1>5, <1>6, <1>7, <1>8, <1>9 DEF IInv

\* Passing transfer_queue()'s test of XDEV_FLAG_OFFLINE keeps the invariant.
LEMMA QueueCheckStep ==
    ASSUME IInv, NEW r \in Requests, TransferQueueCheck(r), ~offline
    PROVE  IInv'
<1>1. TypeOK'
  <2>1. TypeReq'
    BY SizesAssumption DEF IInv, TypeOK, TransferQueueCheck, Goto, TypeReq,
       Places, Errors, States, Xfer, reqVars
  <2>2. TypeRing'
    BY SizesAssumption DEF IInv, TypeOK, TransferQueueCheck, Goto, TypeRing,
       ringVars
  <2>3. TypeEngine'
    BY SizesAssumption DEF IInv, TypeOK, TransferQueueCheck, Goto, TypeEngine,
       engVars
  <2>4. TypeDevice'
    BY SizesAssumption DEF IInv, TypeOK, TransferQueueCheck, Goto, TypeDevice,
       irqVars, devVars
  <2>5. TypeHardware'
    BY SizesAssumption DEF IInv, TypeOK, TransferQueueCheck, Goto,
       TypeHardware, hwVars
  <2>6. QED
    BY <2>1, <2>2, <2>3, <2>4, <2>5 DEF TypeOK
<1>2. LockInv'
  BY NoReqAssumption DEF IInv, TransferQueueCheck, Goto, LockInv, Locked,
     TypeOK, TypeReq, reqVars, ringVars, engVars, irqVars, devVars, hwVars
<1>3. ListInv'
  BY DEF IInv, TransferQueueCheck, Goto, ListInv, LockInv, Queued, Locked,
     TypeOK, TypeReq, reqVars, ringVars, engVars, irqVars, devVars, hwVars
<1>4. SubmittedIsListed'
  BY DEF IInv, TransferQueueCheck, Goto, SubmittedIsListed, TypeOK, TypeReq,
     reqVars, ringVars, engVars, irqVars, devVars, hwVars
<1>5. ProgressInv'
  BY SizesAssumption DEF IInv, TransferQueueCheck, Goto, ProgressInv, Locked,
     Queued, TypeOK, TypeReq, reqVars, ringVars, engVars, irqVars, devVars,
     hwVars
<1>6. ChainInv'
  BY DEF IInv, TransferQueueCheck, Goto, ChainInv, LockInv, Entry, Locked,
     TypeOK, TypeReq, Xfer, reqVars, ringVars, engVars, irqVars, devVars,
     hwVars
<1>7. RunInv'
  BY DEF IInv, TransferQueueCheck, Goto, RunInv, ListInv, FlyingNow, Entry,
     Queued, TypeOK, TypeReq, reqVars, ringVars, engVars, irqVars, devVars,
     hwVars
<1>8. DoneIsMoved'
  BY DEF IInv, TransferQueueCheck, Goto, DoneIsMoved, TypeOK, TypeReq,
     reqVars, ringVars, engVars, irqVars, devVars, hwVars
<1>9. CompletedIsMoved'
  BY DEF IInv, TransferQueueCheck, Goto, CompletedIsMoved, TypeOK, TypeReq,
     reqVars, ringVars, engVars, irqVars, devVars, hwVars
<1>10. QED
  BY <1>1, <1>2, <1>3, <1>4, <1>5, <1>6, <1>7, <1>8, <1>9 DEF IInv

\* transfer_init() takes at least one descriptor, no more than are left, and
\* stays inside the ring.
LEMMA DescNumBounds ==
    ASSUME IInv, NEW r \in Requests, pc[r] = "init"
    PROVE  /\ DescNum(r) \in 1..DescMax
           /\ desc_idx + DescNum(r) <= DescMax
           /\ sw_desc_idx[r] + DescNum(r) <= sw_desc_cnt[r]
<1>1. sw_desc_cnt[r] \in Nat /\ sw_desc_idx[r] \in Nat
  BY DEF IInv, TypeOK, TypeReq
<1>2. sw_desc_idx[r] < sw_desc_cnt[r]
  BY DEF IInv, ProgressInv
<1>3. desc_idx \in 0..(DescMax - 1) /\ DescMax \in Nat /\ DescMax >= 1
  BY DescMaxAssumption DEF IInv, TypeOK, TypeRing
<1>4. QED
  BY <1>1, <1>2, <1>3 DEF DescNum

\* A request that holds desc_lock and does not wait finds the engine at rest.
LEMMA HolderFindsIdle ==
    ASSUME IInv, NEW r \in Requests, pc[r] \in {"init", "check", "queue"}
    PROVE  /\ desc_lock = r
           /\ transfer_list = <<>>
           /\ ~running /\ ~lock /\ hw_next = DescMax
<1>1. desc_lock = r
  BY DEF IInv, LockInv, Locked
<1>2. transfer_list = <<>>
  BY <1>1 DEF IInv, ListInv, Queued
<1>3. QED
  BY <1>1, <1>2 DEF IInv, RunInv

\* transfer_init() keeps the invariant: the chain it builds is the request's
\* next one, and the hardware is not reading the ring.
LEMMA TransferInitStep ==
    ASSUME IInv, NEW r \in Requests, TransferInit(r)
    PROVE  IInv'
<1> DEFINE n == DescNum(r)
<1>1. pc[r] = "init"
  BY DEF TransferInit
<1>2. /\ n \in 1..DescMax
      /\ desc_idx + n <= DescMax
      /\ sw_desc_idx[r] + n <= sw_desc_cnt[r]
  BY <1>1, DescNumBounds
<1>3. /\ desc_lock = r
      /\ transfer_list = <<>>
      /\ ~running /\ ~lock /\ hw_next = DescMax
  BY <1>1, HolderFindsIdle
<1>4. /\ xfer' = [xfer EXCEPT ![r] =
                    [state |-> "NEW", index |-> desc_idx, num |-> n]]
      /\ desc' = [i \in 0..(DescMax - 1) |->
                    IF desc_idx <= i /\ i < desc_idx + n
                    THEN [req |-> r, k |-> sw_desc_idx[r] + (i - desc_idx),
                          stop |-> (i = desc_idx + n - 1)]
                    ELSE desc[i]]
      /\ sw_desc_idx' = [sw_desc_idx EXCEPT ![r] = @ + n]
      /\ desc_idx' = (desc_idx + n) % DescMax
      /\ desc_used' = desc_used + n
      /\ pc' = [pc EXCEPT ![r] = "check"]
      /\ UNCHANGED <<sw_desc_cnt, done, rv, ret, mapped, desc_lock, engVars,
                     irqVars, devVars, hwVars>>
  BY DEF TransferInit, Goto, NextDescIdx
<1> HIDE DEF n
<1>5. desc_idx \in 0..(DescMax - 1) /\ DescMax \in Nat \ {0}
      /\ sw_desc_idx[r] \in Nat
  BY DescMaxAssumption DEF IInv, TypeOK, TypeRing, TypeReq
<1>6. TypeOK'
  <2>1. TypeReq'
    <3>1. [state |-> "NEW", index |-> desc_idx, num |-> n] \in Xfer
      BY <1>2, <1>5 DEF Xfer, States
    <3>2. xfer' \in [Requests -> Xfer]
      BY <1>4, <3>1 DEF IInv, TypeOK, TypeReq
    <3>3. sw_desc_idx' \in [Requests -> Nat]
      BY <1>2, <1>4 DEF IInv, TypeOK, TypeReq
    <3>4. QED
      BY <1>4, <3>2, <3>3 DEF IInv, TypeOK, TypeReq, Places
  <2>2. TypeRing'
    <3>1. desc_idx' \in 0..(DescMax - 1)
      BY <1>2, <1>4, <1>5
    <3>2. desc_used' \in Int
      BY <1>2, <1>4 DEF IInv, TypeOK, TypeRing
    <3>3. ASSUME NEW i \in 0..(DescMax - 1)
          PROVE  desc'[i] \in Desc \cup {NoDesc}
      <4>1. CASE desc_idx <= i /\ i < desc_idx + n
        <5>1. sw_desc_idx[r] + (i - desc_idx) \in Nat
          BY <1>5, <4>1
        <5>2. (i = desc_idx + n - 1) \in BOOLEAN
          OBVIOUS
        <5>3. QED
          BY <1>4, <4>1, <5>1, <5>2 DEF Desc
      <4>2. CASE ~(desc_idx <= i /\ i < desc_idx + n)
        BY <1>4, <4>2 DEF IInv, TypeOK, TypeRing
      <4>3. QED
        BY <4>1, <4>2
    <3>4. desc' \in [0..(DescMax - 1) -> Desc \cup {NoDesc}]
      BY <1>4, <3>3
    <3>5. desc_lock' \in Requests \cup {NoReq}
      BY <1>4 DEF IInv, TypeOK, TypeRing
    <3>6. QED
      BY <3>1, <3>2, <3>4, <3>5 DEF TypeRing
  <2>3. TypeEngine'
    BY <1>4 DEF IInv, TypeOK, TypeEngine, engVars
  <2>4. TypeDevice'
    BY <1>4 DEF IInv, TypeOK, TypeDevice, irqVars, devVars
  <2>5. TypeHardware'
    BY <1>4 DEF IInv, TypeOK, TypeHardware, hwVars
  <2>6. QED
    BY <2>1, <2>2, <2>3, <2>4, <2>5 DEF TypeOK
<1>7. LockInv'
  BY <1>1, <1>4 DEF IInv, LockInv, Locked, TypeOK, TypeReq
<1>8. ListInv'
  BY <1>3, <1>4 DEF ListInv, engVars
<1>9. SubmittedIsListed'
  BY <1>4 DEF IInv, SubmittedIsListed, TypeOK, TypeReq, engVars
<1>10. ProgressInv'
  <2>1. ASSUME NEW q \in Requests, q # r
        PROVE  /\ pc'[q] = pc[q] /\ xfer'[q] = xfer[q]
               /\ sw_desc_idx'[q] = sw_desc_idx[q]
    BY <1>4, <2>1 DEF IInv, TypeOK, TypeReq
  <2>2. /\ pc'[r] = "check" /\ xfer'[r].num = n /\ xfer'[r].state = "NEW"
        /\ sw_desc_idx'[r] = sw_desc_idx[r] + n
    BY <1>4 DEF IInv, TypeOK, TypeReq
  <2>3. done[r] = sw_desc_idx[r] /\ rv[r] = "none"
    BY <1>1 DEF IInv, ProgressInv, Locked
  <2>4. QED
    BY <1>2, <1>4, <1>5, <2>1, <2>2, <2>3 DEF IInv, ProgressInv, Locked, Queued
<1>11. ChainInv'
  <2>1. ASSUME NEW q \in Requests, q # r
        PROVE  pc'[q] \notin Locked \ {"init"}
    BY <1>3, <1>4, <2>1 DEF IInv, LockInv, TypeOK, TypeReq
  <2>2. /\ xfer'[r].num = n /\ xfer'[r].index = desc_idx
        /\ sw_desc_idx'[r] = sw_desc_idx[r] + n
    BY <1>4 DEF IInv, TypeOK, TypeReq
  <2>3. ASSUME NEW i \in 0..(DescMax - 1), desc_idx <= i, i < desc_idx + n
        PROVE  desc'[i] = Entry(r, i)'
    <3>1. desc'[i] = [req |-> r, k |-> sw_desc_idx[r] + (i - desc_idx),
                      stop |-> (i = desc_idx + n - 1)]
      BY <1>4, <2>3
    <3>2. QED
      BY <1>2, <1>5, <2>2, <3>1 DEF Entry
  <2>4. QED
    BY <1>2, <1>4, <1>5, <2>1, <2>2, <2>3 DEF ChainInv
<1>12. RunInv'
  BY <1>3, <1>4 DEF IInv, RunInv, engVars, hwVars
<1>13. DoneIsMoved'
  BY <1>4 DEF IInv, DoneIsMoved, hwVars
<1>14. CompletedIsMoved'
  BY <1>4 DEF IInv, CompletedIsMoved, TypeOK, TypeReq, hwVars
<1>15. QED
  BY <1>6, <1>7, <1>8, <1>9, <1>10, <1>11, <1>12, <1>13, <1>14 DEF IInv

\* transfer_queue() keeps the invariant: the list was empty and the engine
\* idle, so it starts a run of exactly this transfer.
LEMMA TransferQueueStep ==
    ASSUME IInv, NEW r \in Requests, TransferQueue(r), "REQUEST" \notin shutdown
    PROVE  IInv'
<1>1. pc[r] = "queue"
  BY DEF TransferQueue
<1>2. /\ desc_lock = r
      /\ transfer_list = <<>>
      /\ ~running /\ ~lock /\ hw_next = DescMax
  BY <1>1, HolderFindsIdle
<1>3. /\ xfer' = [xfer EXCEPT ![r].state = "SUBMITTED"]
      /\ transfer_list' = <<r>>
      /\ pc' = [pc EXCEPT ![r] = "wait"]
      /\ hw_run' = TRUE /\ running' = TRUE
      /\ hw_next' = xfer'[r].index
      /\ hw_count' = 0
      /\ hw_stale' = (hw_fly # NoDesc)
      /\ shutdown' = {} /\ desc_dequeued' = 0
      /\ UNCHANGED <<sw_desc_cnt, sw_desc_idx, done, rv, ret, mapped, ringVars,
                     status_err, lock, irqVars, devVars, hw_fly, hw_status,
                     moved>>
  <2>1. transfer_list' = Append(<<>>, r)
    BY <1>2 DEF TransferQueue
  <2>2. transfer_list' = <<r>> /\ transfer_list'[1] = r
    BY <2>1
  <2>3. QED
    BY <1>2, <2>2 DEF TransferQueue, Goto, EngineStart, HwStart
<1>4. /\ xfer'[r].state = "SUBMITTED" /\ xfer'[r].num = xfer[r].num
      /\ xfer'[r].index = xfer[r].index
      /\ xfer' \in [Requests -> Xfer]
      /\ \A q \in Requests : q # r => xfer'[q] = xfer[q]
  BY <1>3 DEF IInv, TypeOK, TypeReq, Xfer, States
<1>5. TypeOK'
  <2>1. TypeReq'
    BY <1>3, <1>4 DEF IInv, TypeOK, TypeReq, Places
  <2>2. TypeRing'
    BY <1>3 DEF IInv, TypeOK, TypeRing, ringVars
  <2>3. TypeEngine'
    BY <1>3 DEF IInv, TypeOK, TypeEngine
  <2>4. TypeDevice'
    BY <1>3 DEF IInv, TypeOK, TypeDevice, irqVars, devVars
  <2>5. TypeHardware'
    <3>1. hw_run' \in BOOLEAN /\ hw_stale' \in BOOLEAN
      BY <1>3
    <3>2. hw_next' \in 0..DescMax
      BY <1>3, <1>4, DescMaxAssumption DEF Xfer
    <3>3. QED
      BY <1>3, <3>1, <3>2 DEF IInv, TypeOK, TypeHardware
  <2>6. QED
    BY <2>1, <2>2, <2>3, <2>4, <2>5 DEF TypeOK
<1>6. LockInv'
  BY <1>1, <1>3 DEF IInv, LockInv, Locked, TypeOK, TypeReq, ringVars
<1>7. ListInv'
  BY <1>2, <1>3, <1>4 DEF IInv, ListInv, Queued, TypeOK, TypeReq, ringVars
<1>8. SubmittedIsListed'
  <2>1. Len(transfer_list') = 1 /\ transfer_list'[1] = r
    BY <1>3
  <2>2. \A q \in Requests : q # r => xfer[q].state # "SUBMITTED"
    BY <1>2 DEF IInv, SubmittedIsListed
  <2>3. QED
    BY <1>4, <2>1, <2>2 DEF SubmittedIsListed
<1>9. ProgressInv'
  BY <1>1, <1>3, <1>4 DEF IInv, ProgressInv, Locked, Queued, TypeOK, TypeReq
<1>10. ChainInv'
  BY <1>1, <1>3, <1>4 DEF IInv, ChainInv, Entry, Locked, TypeOK, TypeReq,
     ringVars
<1>11. RunInv'
  <2>1. /\ xfer[r].num \in Nat /\ xfer[r].num >= 1
        /\ xfer[r].index \in 0..(DescMax - 1)
        /\ sw_desc_idx[r] \in Nat
    BY <1>1, DescMaxAssumption
    DEF IInv, ChainInv, Locked, TypeOK, TypeReq, Xfer
  <2>2. ~FlyingNow'
    BY <1>3 DEF FlyingNow
  <2>3. transfer_list' # <<>> /\ \A q \in Requests :
            transfer_list' = <<q>> => q = r
    BY <1>3
  <2>4. hw_stale' => hw_fly' # NoDesc
    BY <1>3
  <2>5. /\ desc_dequeued' = 0
        /\ hw_count' <= xfer'[r].num
        /\ \A k \in 0..(sw_desc_idx'[r] - 1) :
            (/\ sw_desc_idx'[r] - xfer'[r].num <= k
             /\ k < sw_desc_idx'[r] - xfer'[r].num + hw_count')
                => k \in moved'[r]
    BY <1>3, <1>4, <2>1
  <2>6. /\ hw_next' < xfer'[r].index + xfer'[r].num
        /\ hw_next' = xfer'[r].index + hw_count' + 0
    BY <1>3, <1>4, <2>1
  <2>7. QED
    BY <2>2, <2>3, <2>4, <2>5, <2>6 DEF RunInv
<1>12. DoneIsMoved'
  BY <1>3 DEF IInv, DoneIsMoved
<1>13. CompletedIsMoved'
  BY <1>3, <1>4 DEF IInv, CompletedIsMoved
<1>14. QED
  BY <1>5, <1>6, <1>7, <1>8, <1>9, <1>10, <1>11, <1>12, <1>13 DEF IInv

\* What is on the list of a request that is about to settle.
LEMMA SettlingList ==
    ASSUME IInv, NEW r \in Requests, pc[r] = "settle"
    PROVE  /\ desc_lock = r
           /\ xfer[r].state = "SUBMITTED" => transfer_list = <<r>>
           /\ xfer[r].state # "SUBMITTED" => transfer_list = <<>>
<1>1. desc_lock = r
  BY DEF IInv, LockInv, Locked
<1>2. ASSUME xfer[r].state = "SUBMITTED" PROVE transfer_list = <<r>>
  <2>1. transfer_list # <<>>
    BY <1>2 DEF IInv, SubmittedIsListed
  <2>2. QED
    BY <1>1, <2>1 DEF IInv, ListInv
<1>3. QED
  BY <1>1, <1>2 DEF IInv, ListInv

\* Settling an outcome engine_service() has already set.
LEMMA SettleOutcomeStep ==
    ASSUME IInv, NEW r \in Requests, Settle(r), xfer[r].state # "SUBMITTED"
    PROVE  IInv'
<1>1. pc[r] = "settle"
  BY DEF Settle
<1>2. desc_lock = r /\ transfer_list = <<>>
  BY <1>1, SettlingList
<1>3. /\ pc' = [pc EXCEPT ![r] = "destroy"]
      /\ \/ /\ xfer[r].state = "COMPLETED"
            /\ done' = [done EXCEPT ![r] = @ + xfer[r].num]
            /\ rv' = rv
         \/ done' = done /\ rv' = [rv EXCEPT ![r] = "EIO"]
      /\ UNCHANGED <<sw_desc_cnt, sw_desc_idx, ret, mapped, xfer, ringVars,
                     engVars, irqVars, devVars, hwVars>>
  BY DEF Settle, Goto, engVars, hwVars
<1>4. xfer[r].num \in Nat /\ sw_desc_idx[r] \in Nat /\ done[r] \in Nat
  BY DescMaxAssumption DEF IInv, TypeOK, TypeReq, Xfer
<1>5. TypeOK'
  <2>1. TypeReq'
    BY <1>3, <1>4 DEF IInv, TypeOK, TypeReq, Places, Errors
  <2>2. TypeRing'
    BY <1>3 DEF IInv, TypeOK, TypeRing, ringVars
  <2>3. TypeEngine'
    BY <1>3 DEF IInv, TypeOK, TypeEngine, engVars
  <2>4. TypeDevice'
    BY <1>3 DEF IInv, TypeOK, TypeDevice, irqVars, devVars
  <2>5. TypeHardware'
    BY <1>3 DEF IInv, TypeOK, TypeHardware, hwVars
  <2>6. QED
    BY <2>1, <2>2, <2>3, <2>4, <2>5 DEF TypeOK
<1>6. LockInv'
  BY <1>1, <1>3 DEF IInv, LockInv, Locked, TypeOK, TypeReq, ringVars
<1>7. ListInv'
  BY <1>2, <1>3 DEF ListInv, engVars
<1>8. SubmittedIsListed'
  BY <1>3 DEF IInv, SubmittedIsListed, engVars
<1>9. ProgressInv'
  <2>1. done[r] = sw_desc_idx[r] - xfer[r].num
    BY <1>1 DEF IInv, ProgressInv, Queued
  <2>2. ASSUME NEW q \in Requests, q # r
        PROVE  pc'[q] = pc[q] /\ done'[q] = done[q] /\ rv'[q] = rv[q]
    BY <1>3, <2>2 DEF IInv, TypeOK, TypeReq
  <2>3. pc'[r] = "destroy" /\ (rv'[r] = "none" => done'[r] = sw_desc_idx[r])
    BY <1>3, <1>4, <2>1 DEF IInv, TypeOK, TypeReq
  <2>4. QED
    BY <1>3, <2>2, <2>3 DEF IInv, ProgressInv, Locked, Queued
<1>10. ChainInv'
  <2>1. /\ UNCHANGED <<xfer, sw_desc_idx, desc>>
        /\ pc[r] \in Locked \ {"init"}
        /\ \A q \in Requests : q # r => pc'[q] = pc[q]
    BY <1>1, <1>3 DEF IInv, TypeOK, TypeReq, Locked, ringVars
  <2>2. \A q, i : Entry(q, i)' = Entry(q, i)
    BY <2>1 DEF Entry
  <2>3. \A q \in Requests :
          pc'[q] \in Locked \ {"init"} => pc[q] \in Locked \ {"init"}
    BY <2>1
  <2>4. QED
    BY <2>1, <2>2, <2>3 DEF IInv, ChainInv
<1>11. RunInv'
  BY <1>2, <1>3 DEF IInv, RunInv, engVars, hwVars
<1>12. DoneIsMoved'
  <2>1. done[r] = sw_desc_idx[r] - xfer[r].num
    BY <1>1 DEF IInv, ProgressInv, Queued
  <2>2. ASSUME NEW k \in 0..(done'[r] - 1) PROVE k \in moved'[r]
    <3>1. CASE k \in 0..(done[r] - 1)
      BY <1>3, <3>1 DEF IInv, DoneIsMoved, hwVars
    <3>2. CASE k \notin 0..(done[r] - 1)
      <4>1. /\ xfer[r].state = "COMPLETED"
            /\ k \in (sw_desc_idx[r] - xfer[r].num)..(sw_desc_idx[r] - 1)
        BY <1>3, <1>4, <2>1, <2>2, <3>2 DEF IInv, TypeOK, TypeReq
      <4>2. QED
        BY <1>3, <4>1 DEF IInv, CompletedIsMoved, hwVars
    <3>3. QED
      BY <3>1, <3>2
  <2>3. ASSUME NEW q \in Requests, q # r
        PROVE  done'[q] = done[q] /\ moved'[q] = moved[q]
    BY <1>3, <2>3 DEF IInv, TypeOK, TypeReq, hwVars
  <2>4. QED
    BY <2>2, <2>3 DEF IInv, DoneIsMoved
<1>13. CompletedIsMoved'
  BY <1>3 DEF IInv, CompletedIsMoved, hwVars
<1>14. QED
  BY <1>5, <1>6, <1>7, <1>8, <1>9, <1>10, <1>11, <1>12, <1>13 DEF IInv

\* Giving up: transfer_abort() and xdma_engine_stop(), or neither when the
\* registers are dead.
LEMMA SettleAbortStep ==
    ASSUME IInv, NEW r \in Requests, Settle(r), xfer[r].state = "SUBMITTED"
    PROVE  IInv'
<1>1. pc[r] = "settle"
  BY DEF Settle
<1>2. desc_lock = r /\ transfer_list = <<r>>
  BY <1>1, SettlingList
<1>3. /\ pc' = [pc EXCEPT ![r] = "destroy"]
      /\ rv' = [rv EXCEPT ![r] = "ERESTARTSYS"]
      /\ UNCHANGED <<sw_desc_cnt, sw_desc_idx, done, ret, mapped, ringVars, shutdown,
                     desc_dequeued, status_err, lock, irqVars, devVars, hw_fly,
                     hw_stale, hw_count, hw_status, moved>>
      /\ ~lock
  BY DEF Settle, Goto
<1>4. \/ /\ transfer_list' = <<>>
         /\ xfer' = [xfer EXCEPT ![r].state = "ABORTED"]
         /\ running' = FALSE /\ hw_run' = FALSE /\ hw_next' = DescMax
      \/ /\ "dead" \in Faults
         /\ UNCHANGED <<xfer, transfer_list, running, hw_run, hw_next>>
  <2>1. AbortedList(r) = <<>>
    BY <1>2 DEF AbortedList
  <2>2. AbortedState(r) = "ABORTED"
    BY DEF AbortedState
  <2>3. QED
    BY <2>1, <2>2 DEF Settle, EngineStop, HwStop
<1>5. /\ xfer' \in [Requests -> Xfer]
      /\ \A q \in Requests : q # r => xfer'[q] = xfer[q]
      /\ xfer'[r].num = xfer[r].num /\ xfer'[r].index = xfer[r].index
      /\ xfer'[r].state # "COMPLETED"
      /\ transfer_list' = <<>> => xfer'[r].state # "SUBMITTED"
  <2>1. CASE xfer' = [xfer EXCEPT ![r].state = "ABORTED"]
    BY <2>1 DEF IInv, TypeOK, TypeReq, Xfer, States
  <2>2. CASE xfer' = xfer /\ transfer_list' = transfer_list
    BY <1>2, <2>2 DEF IInv, TypeOK, TypeReq
  <2>3. QED
    BY <1>4, <2>1, <2>2
<1>6. TypeOK'
  <2>1. TypeReq'
    BY <1>3, <1>5 DEF IInv, TypeOK, TypeReq, Places, Errors
  <2>2. TypeRing'
    BY <1>3 DEF IInv, TypeOK, TypeRing, ringVars
  <2>3. TypeEngine'
    <3>1. transfer_list' \in Seq(Requests)
      <4>1. <<>> \in Seq(Requests)
        OBVIOUS
      <4>2. transfer_list \in Seq(Requests)
        BY DEF IInv, TypeOK, TypeEngine
      <4>3. QED
        BY <1>4, <4>1, <4>2
    <3>2. running' \in BOOLEAN
      BY <1>4 DEF IInv, TypeOK, TypeEngine
    <3>3. QED
      BY <1>3, <3>1, <3>2 DEF IInv, TypeOK, TypeEngine
  <2>4. TypeDevice'
    BY <1>3 DEF IInv, TypeOK, TypeDevice, irqVars, devVars
  <2>5. TypeHardware'
    <3>1. hw_run' \in BOOLEAN
      BY <1>4 DEF IInv, TypeOK, TypeHardware
    <3>2. hw_next' \in 0..DescMax
      BY <1>4, DescMaxAssumption DEF IInv, TypeOK, TypeHardware
    <3>3. QED
      BY <1>3, <3>1, <3>2 DEF IInv, TypeOK, TypeHardware
  <2>6. QED
    BY <2>1, <2>2, <2>3, <2>4, <2>5 DEF TypeOK
<1>7. LockInv'
  BY <1>1, <1>3 DEF IInv, LockInv, Locked, TypeOK, TypeReq, ringVars
<1>8. ListInv'
  BY <1>2, <1>3, <1>4 DEF IInv, ListInv, TypeOK, TypeReq, ringVars
<1>9. SubmittedIsListed'
  <2>1. \A q \in Requests : q # r => xfer[q].state # "SUBMITTED"
    BY <1>2 DEF IInv, SubmittedIsListed
  <2>2. transfer_list' = <<>> \/ transfer_list' = transfer_list
    BY <1>4
  <2>3. QED
    BY <1>2, <1>5, <2>1, <2>2 DEF SubmittedIsListed
<1>10. ProgressInv'
  BY <1>3, <1>5 DEF IInv, ProgressInv, Locked, Queued, TypeOK, TypeReq
<1>11. ChainInv'
  <2>1. ASSUME NEW q \in Requests, pc'[q] \in Locked \ {"init"}
        PROVE  /\ pc[q] \in Locked \ {"init"}
               /\ xfer'[q].num = xfer[q].num /\ xfer'[q].index = xfer[q].index
               /\ \A i : Entry(q, i)' = Entry(q, i)
    <3>1. pc[q] \in Locked \ {"init"}
      BY <1>1, <1>3, <2>1 DEF IInv, Locked, TypeOK, TypeReq
    <3>2. xfer'[q].num = xfer[q].num /\ xfer'[q].index = xfer[q].index
      BY <1>5
    <3>3. QED
      BY <1>3, <3>1, <3>2 DEF Entry
  <2>2. desc' = desc /\ sw_desc_idx' = sw_desc_idx
    BY <1>3 DEF ringVars
  <2>3. QED
    BY <2>1, <2>2 DEF IInv, ChainInv
<1>12. RunInv'
  <2>1. CASE transfer_list' = <<>> /\ running' = FALSE /\ hw_next' = DescMax
    BY <1>3, <2>1 DEF IInv, RunInv
  <2>2. CASE UNCHANGED <<xfer, transfer_list, running, hw_run, hw_next>>
    BY <1>3, <2>2 DEF IInv, RunInv, FlyingNow, Entry
  <2>3. QED
    BY <1>4, <2>1, <2>2
<1>13. DoneIsMoved'
  BY <1>3 DEF IInv, DoneIsMoved
<1>14. CompletedIsMoved'
  BY <1>3, <1>5 DEF IInv, CompletedIsMoved
<1>15. QED
  BY <1>6, <1>7, <1>8, <1>9, <1>10, <1>11, <1>12, <1>13, <1>14 DEF IInv

\* transfer_destroy() keeps the invariant: the descriptors it clears are no
\* longer fetched by the hardware.
LEMMA DestroyStep ==
    ASSUME IInv, ~Abandoned, NEW r \in Requests, Destroy(r)
    PROVE  IInv'
<1> DEFINE over == rv[r] # "none" \/ sw_desc_idx[r] = sw_desc_cnt[r]
<1>1. pc[r] = "destroy"
  BY DEF Destroy
<1>2. desc_lock = r
  BY <1>1 DEF IInv, LockInv, Locked
<1>3. transfer_list = <<>>
  <2>1. SUFFICES ASSUME transfer_list # <<>> PROVE FALSE
    OBVIOUS
  <2>2. transfer_list = <<r>>
    BY <1>2, <2>1 DEF IInv, ListInv
  <2>3. QED
    BY <1>1, <2>2 DEF Abandoned, Queued
<1>4. /\ pc' = [pc EXCEPT ![r] = IF over THEN "unmap" ELSE "init"]
      /\ desc_lock' = IF over THEN NoReq ELSE r
      /\ desc_used' = desc_used - xfer[r].num
      /\ mapped' = [mapped EXCEPT ![r] = @ /\ ~(sw_desc_idx[r] = sw_desc_cnt[r])]
      /\ desc' = [i \in 0..(DescMax - 1) |->
                    IF xfer[r].index <= i /\ i < xfer[r].index + xfer[r].num
                    THEN NoDesc ELSE desc[i]]
      /\ UNCHANGED <<sw_desc_cnt, sw_desc_idx, done, rv, ret, xfer, desc_idx,
                     engVars, irqVars, devVars, hwVars>>
  BY DEF Destroy, Goto, DescUsedAfter, LastInRequest
<1>5. TypeOK'
  <2>1. TypeReq'
    BY <1>4 DEF IInv, TypeOK, TypeReq, Places
  <2>2. TypeRing'
    <3>1. desc' \in [0..(DescMax - 1) -> Desc \cup {NoDesc}]
      BY <1>4 DEF IInv, TypeOK, TypeRing
    <3>2. desc_used' \in Int
      BY <1>4, DescMaxAssumption DEF IInv, TypeOK, TypeRing, TypeReq, Xfer
    <3>3. QED
      BY <1>4, <3>1, <3>2 DEF IInv, TypeOK, TypeRing
  <2>3. TypeEngine'
    BY <1>4 DEF IInv, TypeOK, TypeEngine, engVars
  <2>4. TypeDevice'
    BY <1>4 DEF IInv, TypeOK, TypeDevice, irqVars, devVars
  <2>5. TypeHardware'
    BY <1>4 DEF IInv, TypeOK, TypeHardware, hwVars
  <2>6. QED
    BY <2>1, <2>2, <2>3, <2>4, <2>5 DEF TypeOK
<1>6. LockInv'
  BY <1>2, <1>4, NoReqAssumption DEF IInv, LockInv, Locked, TypeOK, TypeReq
<1>7. ListInv'
  BY <1>3, <1>4 DEF ListInv, engVars
<1>8. SubmittedIsListed'
  BY <1>4 DEF IInv, SubmittedIsListed, engVars
<1>9. ProgressInv'
  BY <1>1, <1>4 DEF IInv, ProgressInv, Locked, Queued, TypeOK, TypeReq
<1>10. ChainInv'
  BY <1>2, <1>4 DEF IInv, ChainInv, LockInv, Locked, TypeOK, TypeReq
<1>11. RunInv'
  BY <1>3, <1>4 DEF IInv, RunInv, engVars, hwVars
<1>12. DoneIsMoved'
  BY <1>4 DEF IInv, DoneIsMoved, hwVars
<1>13. CompletedIsMoved'
  BY <1>4 DEF IInv, CompletedIsMoved, hwVars
<1>14. QED
  BY <1>5, <1>6, <1>7, <1>8, <1>9, <1>10, <1>11, <1>12, <1>13 DEF IInv

\* Steps that at most stop the engine, or take its lock to serve a transfer,
\* and touch nothing else the invariant speaks of.
LEMMA Frame ==
    ASSUME IInv, TypeOK',
           running' => running,
           lock' => transfer_list # <<>>,
           hw_next' = hw_next \/ hw_next' = DescMax,
           UNCHANGED <<reqVars, ringVars, transfer_list, desc_dequeued,
                       hw_fly, hw_stale, hw_count, moved>>
    PROVE  IInv'
<1>1. LockInv' /\ ListInv'
  BY DEF IInv, LockInv, ListInv, reqVars, ringVars
<1>2. SubmittedIsListed' /\ ProgressInv'
  BY DEF IInv, SubmittedIsListed, ProgressInv, reqVars
<1>3. ChainInv'
  BY DEF IInv, ChainInv, Entry, reqVars, ringVars
<1>4. RunInv'
  <2>1. transfer_list' = <<>> => ~running' /\ ~lock' /\ hw_next' = DescMax
    BY DEF IInv, RunInv
  <2>2. \A r \in Requests : \A i : Entry(r, i)' = Entry(r, i)
    BY DEF Entry, reqVars
  <2>3. FlyingNow' <=> FlyingNow
    BY DEF FlyingNow
  <2>4. QED
    BY <2>1, <2>2, <2>3 DEF IInv, RunInv, reqVars
<1>5. DoneIsMoved' /\ CompletedIsMoved'
  BY DEF IInv, DoneIsMoved, CompletedIsMoved, reqVars
<1>6. QED
  BY <1>1, <1>2, <1>3, <1>4, <1>5 DEF IInv

\* The interrupt, and the steps of the PCI core that leave engine and hardware
\* alone.
LEMMA DeviceStep ==
    ASSUME IInv,
           Isr \/ OfflineFlag \/ OfflineIrq \/ OnlineEngine \/ OnlineIrq
               \/ OnlineFlag
    PROVE  IInv'
<1>1. UNCHANGED <<reqVars, ringVars, transfer_list, running, desc_dequeued,
                  status_err, lock, hwVars>>
  BY DEF Isr, OfflineFlag, OfflineIrq, OnlineEngine, OnlineIrq, OnlineFlag,
     engVars
<1>2. TypeOK'
  <2>1. TypeReq'
    BY <1>1 DEF IInv, TypeOK, TypeReq, reqVars
  <2>2. TypeRing'
    BY <1>1 DEF IInv, TypeOK, TypeRing, ringVars
  <2>3. TypeEngine'
    <3>1. shutdown' \subseteq {"REQUEST", "IDLE"}
      BY DEF IInv, TypeOK, TypeEngine, Isr, OfflineFlag, OfflineIrq,
         OnlineEngine, OnlineIrq, OnlineFlag, engVars
    <3>2. QED
      BY <1>1, <3>1 DEF IInv, TypeOK, TypeEngine
  <2>4. TypeDevice'
    BY DEF IInv, TypeOK, TypeDevice, Isr, OfflineFlag, OfflineIrq,
       OnlineEngine, OnlineIrq, OnlineFlag, Admin, irqVars, devVars
  <2>5. TypeHardware'
    BY <1>1 DEF IInv, TypeOK, TypeHardware, hwVars
  <2>6. QED
    BY <2>1, <2>2, <2>3, <2>4, <2>5 DEF TypeOK
<1>3. lock' => transfer_list # <<>>
  BY <1>1 DEF IInv, RunInv
<1>4. QED
  BY <1>1, <1>2, <1>3, Frame DEF hwVars

\* The first half of engine_service() keeps the invariant.
LEMMA ServiceStatusStep ==
    ASSUME IInv, ServiceStatus
    PROVE  IInv'
<1>1. /\ UNCHANGED <<reqVars, ringVars, transfer_list, shutdown, desc_dequeued,
                     irq_line, devVars, hw_fly, hw_stale, hw_count, moved>>
      /\ work' = FALSE
      /\ hw_status' = {}
      /\ status_err' = ("ERR" \in hw_status)
      /\ irq_enabled' = TRUE \/ irq_enabled' = irq_enabled
      /\ (lock' = TRUE /\ running) \/ (lock' = lock /\ ~lock)
      /\ \/ running' = FALSE /\ hw_run' = FALSE /\ hw_next' = DescMax
         \/ UNCHANGED <<running, hw_run, hw_next>>
  BY DEF ServiceStatus, Reenable, EngineStop, HwStop
<1>2. TypeOK'
  <2>1. TypeReq'
    BY <1>1 DEF IInv, TypeOK, TypeReq, reqVars
  <2>2. TypeRing'
    BY <1>1 DEF IInv, TypeOK, TypeRing, ringVars
  <2>3. TypeEngine'
    <3>1. status_err' \in BOOLEAN
      BY <1>1
    <3>2. lock' \in BOOLEAN
      BY <1>1 DEF IInv, TypeOK, TypeEngine
    <3>3. running' \in BOOLEAN
      BY <1>1 DEF IInv, TypeOK, TypeEngine
    <3>4. QED
      BY <1>1, <3>1, <3>2, <3>3 DEF IInv, TypeOK, TypeEngine
  <2>4. TypeDevice'
    BY <1>1 DEF IInv, TypeOK, TypeDevice, devVars
  <2>5. TypeHardware'
    <3>1. hw_run' \in BOOLEAN
      BY <1>1 DEF IInv, TypeOK, TypeHardware
    <3>2. hw_next' \in 0..DescMax
      BY <1>1, DescMaxAssumption DEF IInv, TypeOK, TypeHardware
    <3>3. QED
      BY <1>1, <3>1, <3>2 DEF IInv, TypeOK, TypeHardware
  <2>6. QED
    BY <2>1, <2>2, <2>3, <2>4, <2>5 DEF TypeOK
<1>3. lock' => transfer_list # <<>>
  BY <1>1 DEF IInv, RunInv
<1>4. QED
  BY <1>1, <1>2, <1>3, Frame

\* xdma_device_offline() stopping the engine keeps the invariant.
LEMMA OfflineStopStep ==
    ASSUME IInv, OfflineStop
    PROVE  IInv'
<1>1. /\ UNCHANGED <<reqVars, ringVars, transfer_list, desc_dequeued,
                     status_err, lock, irqVars, offline, hw_fly, hw_stale,
                     hw_count, hw_status, moved>>
      /\ ~lock
      /\ shutdown' = shutdown \cup {"REQUEST"}
      /\ admin' = "stopped"
      /\ running' = FALSE /\ hw_run' = FALSE /\ hw_next' = DescMax
  BY DEF OfflineStop, Admin, EngineStop, HwStop
<1>2. TypeOK'
  <2>1. TypeReq'
    BY <1>1 DEF IInv, TypeOK, TypeReq, reqVars
  <2>2. TypeRing'
    BY <1>1 DEF IInv, TypeOK, TypeRing, ringVars
  <2>3. TypeEngine'
    BY <1>1 DEF IInv, TypeOK, TypeEngine
  <2>4. TypeDevice'
    BY <1>1 DEF IInv, TypeOK, TypeDevice, irqVars
  <2>5. TypeHardware'
    <3>1. hw_next' \in 0..DescMax
      BY <1>1, DescMaxAssumption
    <3>2. QED
      BY <1>1, <3>1 DEF IInv, TypeOK, TypeHardware
  <2>6. QED
    BY <2>1, <2>2, <2>3, <2>4, <2>5 DEF TypeOK
<1>3. QED
  BY <1>1, <1>2, Frame

\* Steps of the hardware leave the driver's parts of the invariant alone.
LEMMA HwFrame ==
    ASSUME IInv, UNCHANGED <<reqVars, ringVars, engVars>>
    PROVE  LockInv' /\ ListInv' /\ SubmittedIsListed' /\ ProgressInv' /\ ChainInv'
<1>1. LockInv' /\ ListInv'
  BY DEF IInv, LockInv, ListInv, reqVars, ringVars, engVars
<1>2. SubmittedIsListed' /\ ProgressInv'
  BY DEF IInv, SubmittedIsListed, ProgressInv, reqVars, engVars
<1>3. ChainInv'
  BY DEF IInv, ChainInv, Entry, reqVars, ringVars
<1>4. QED
  BY <1>1, <1>2, <1>3

\* A reset forgets the run: nothing in flight, nothing counted.
LEMMA HwResetStep ==
    ASSUME IInv, HwReset
    PROVE  IInv'
<1>1. /\ UNCHANGED <<reqVars, ringVars, engVars, irqVars, offline, moved>>
      /\ admin' = "reset"
      /\ hw_run' = FALSE /\ hw_next' = DescMax /\ hw_fly' = NoDesc
      /\ hw_stale' = FALSE /\ hw_count' = 0 /\ hw_status' = {}
  BY DEF HwReset, Admin, HwStop
<1>2. TypeOK'
  <2>1. TypeReq'
    BY <1>1 DEF IInv, TypeOK, TypeReq, reqVars
  <2>2. TypeRing'
    BY <1>1 DEF IInv, TypeOK, TypeRing, ringVars
  <2>3. TypeEngine'
    BY <1>1 DEF IInv, TypeOK, TypeEngine, engVars
  <2>4. TypeDevice'
    BY <1>1 DEF IInv, TypeOK, TypeDevice, irqVars
  <2>5. TypeHardware'
    <3>1. hw_next' \in 0..DescMax
      BY <1>1, DescMaxAssumption
    <3>2. QED
      BY <1>1, <3>1 DEF IInv, TypeOK, TypeHardware
  <2>6. QED
    BY <2>1, <2>2, <2>3, <2>4, <2>5 DEF TypeOK
<1>3. LockInv' /\ ListInv' /\ SubmittedIsListed' /\ ProgressInv' /\ ChainInv'
  BY <1>1, HwFrame
<1>4. RunInv'
  <2>1. ASSUME NEW r \in Requests
        PROVE  xfer[r].num \in Nat /\ sw_desc_idx[r] \in Nat
    BY DescMaxAssumption DEF IInv, TypeOK, TypeReq, Xfer
  <2>2. ~FlyingNow'
    BY <1>1 DEF FlyingNow
  <2>3. QED
    BY <1>1, <2>1, <2>2 DEF IInv, RunInv, reqVars, engVars
<1>5. DoneIsMoved' /\ CompletedIsMoved'
  BY <1>1 DEF IInv, DoneIsMoved, CompletedIsMoved, reqVars
<1>6. QED
  BY <1>2, <1>3, <1>4, <1>5 DEF IInv

\* The transfer on the list has its chain in the ring.
LEMMA ListedChain ==
    ASSUME IInv, NEW r \in Requests, transfer_list = <<r>>
    PROVE  /\ desc_lock = r
           /\ pc[r] \in Locked \ {"init"}
           /\ xfer[r].state = "SUBMITTED"
           /\ xfer[r].num \in 1..DescMax
           /\ xfer[r].index \in 0..(DescMax - 1)
           /\ xfer[r].index + xfer[r].num <= DescMax
           /\ sw_desc_idx[r] \in Nat /\ xfer[r].num <= sw_desc_idx[r]
           /\ \A i \in 0..(DescMax - 1) :
                (xfer[r].index <= i /\ i < xfer[r].index + xfer[r].num) =>
                    desc[i] = Entry(r, i)
<1>1. desc_lock = r /\ xfer[r].state = "SUBMITTED"
  BY DEF IInv, ListInv
<1>2. pc[r] \in Locked \ {"init"}
  BY <1>1 DEF IInv, ListInv, Queued, Locked
<1>3. /\ xfer[r].num \in 0..DescMax
      /\ xfer[r].index \in 0..(DescMax - 1)
      /\ sw_desc_idx[r] \in Nat
  BY DEF IInv, TypeOK, TypeReq, Xfer
<1>4. QED
  BY <1>1, <1>2, <1>3, DescMaxAssumption DEF IInv, ChainInv

\* The hardware fetches the next descriptor of the listed transfer's chain.
LEMMA HwFetchStep ==
    ASSUME IInv, HwFetch
    PROVE  IInv'
<1>1. /\ hw_next # DescMax /\ hw_fly = NoDesc
      /\ UNCHANGED <<reqVars, ringVars, engVars, irqVars, devVars, hw_run,
                     hw_stale, hw_count, moved>>
  BY DEF HwFetch
<1>2. PICK r \in Requests : transfer_list = <<r>>
  BY <1>1 DEF IInv, RunInv, ListInv
<1> DEFINE num == xfer[r].num
           index == xfer[r].index
<1>3. /\ num \in 1..DescMax /\ index \in 0..(DescMax - 1)
      /\ index + num <= DescMax
      /\ sw_desc_idx[r] \in Nat /\ num <= sw_desc_idx[r]
      /\ \A i \in 0..(DescMax - 1) :
            (index <= i /\ i < index + num) => desc[i] = Entry(r, i)
  BY <1>2, ListedChain
<1>4. ~hw_stale /\ ~FlyingNow
  BY <1>1 DEF IInv, RunInv, FlyingNow
<1>5. hw_next < index + num /\ hw_next = index + hw_count /\ hw_count \in Nat
  BY <1>1, <1>2, <1>4, <1>3 DEF IInv, RunInv, TypeOK, TypeHardware
<1>6. hw_next \in 0..(DescMax - 1)
  BY <1>1, DescMaxAssumption DEF IInv, TypeOK, TypeHardware
<1>7. desc[hw_next] = Entry(r, hw_next)
  BY <1>3, <1>5, <1>6
<1>8. desc[hw_next] \in Desc /\ desc[hw_next] # NoDesc
  <2>1. Entry(r, hw_next) \in Desc
    <3>1. sw_desc_idx[r] - num + (hw_next - index) \in Nat
      BY <1>3, <1>5
    <3>2. (hw_next = index + num - 1) \in BOOLEAN
      OBVIOUS
    <3>3. QED
      BY <3>1, <3>2 DEF Entry, Desc
  <2>2. QED
    BY <1>7, <2>1, NoDescAssumption
<1>9. desc[hw_next].stop = (hw_next = index + num - 1)
  BY <1>7 DEF Entry
<1>10. /\ hw_fly' = Entry(r, hw_next)
       /\ hw_next' = IF hw_next = index + num - 1 THEN DescMax ELSE hw_next + 1
       /\ hw_status' = hw_status
  BY <1>7, <1>8, <1>9 DEF HwFetch
<1>11. TypeOK'
  <2>1. TypeReq'
    BY <1>1 DEF IInv, TypeOK, TypeReq, reqVars
  <2>2. TypeRing'
    BY <1>1 DEF IInv, TypeOK, TypeRing, ringVars
  <2>3. TypeEngine'
    BY <1>1 DEF IInv, TypeOK, TypeEngine, engVars
  <2>4. TypeDevice'
    BY <1>1 DEF IInv, TypeOK, TypeDevice, irqVars, devVars
  <2>5. TypeHardware'
    <3>1. hw_fly' \in Desc \cup {NoDesc}
      BY <1>7, <1>8, <1>10
    <3>2. hw_next' \in 0..DescMax
      BY <1>6, <1>10, DescMaxAssumption
    <3>3. QED
      BY <1>1, <1>10, <3>1, <3>2 DEF IInv, TypeOK, TypeHardware
  <2>6. QED
    BY <2>1, <2>2, <2>3, <2>4, <2>5 DEF TypeOK
<1>12. LockInv' /\ ListInv' /\ SubmittedIsListed' /\ ProgressInv' /\ ChainInv'
  BY <1>1, HwFrame
<1>13. RunInv'
  <2>1. FlyingNow'
    BY <1>1, <1>4, <1>7, <1>8, <1>10 DEF FlyingNow
  <2>2. hw_stale' => hw_fly' # NoDesc
    BY <1>1, <1>4
  <2>3. transfer_list' = <<r>> /\ \A q \in Requests :
            transfer_list' = <<q>> => q = r
    BY <1>1, <1>2 DEF engVars
  <2>4. /\ desc_dequeued' = 0
        /\ hw_count' <= xfer'[r].num
        /\ \A k \in 0..(sw_desc_idx'[r] - 1) :
            (/\ sw_desc_idx'[r] - xfer'[r].num <= k
             /\ k < sw_desc_idx'[r] - xfer'[r].num + hw_count')
                => k \in moved'[r]
    BY <1>1, <1>2 DEF IInv, RunInv, engVars, reqVars
  <2>5. /\ hw_count' < xfer'[r].num
        /\ hw_fly' = Entry(r, xfer[r].index + hw_count)'
    BY <1>1, <1>3, <1>5, <1>10 DEF Entry, reqVars
  <2>6. hw_next' # DescMax =>
            /\ hw_next' < xfer'[r].index + xfer'[r].num
            /\ hw_next' = xfer'[r].index + hw_count' + 1
    BY <1>1, <1>3, <1>5, <1>10 DEF reqVars
  <2>7. QED
    BY <2>1, <2>2, <2>3, <2>4, <2>5, <2>6 DEF RunInv
<1>14. DoneIsMoved' /\ CompletedIsMoved'
  BY <1>1 DEF IInv, DoneIsMoved, CompletedIsMoved, reqVars
<1>15. QED
  BY <1>11, <1>12, <1>13, <1>14 DEF IInv

\* The hardware moves a descriptor's data: only one of the current run is
\* counted, so the count still tells what was moved.
LEMMA HwCompleteStep ==
    ASSUME IInv, HwComplete
    PROVE  IInv'
<1>1. /\ hw_fly # NoDesc
      /\ moved' = [moved EXCEPT ![hw_fly.req] = @ \cup {hw_fly.k}]
      /\ hw_count' = IF hw_stale THEN hw_count ELSE hw_count + 1
      /\ hw_status' = IF hw_fly.stop THEN hw_status \cup {"DESC"} ELSE hw_status
      /\ hw_fly' = NoDesc /\ hw_stale' = FALSE
      /\ UNCHANGED <<reqVars, ringVars, engVars, irqVars, devVars, hw_run,
                     hw_next>>
  BY DEF HwComplete
<1>2. hw_fly.req \in Requests /\ hw_fly.k \in Nat
  BY <1>1 DEF IInv, TypeOK, TypeHardware, Desc
<1>3. moved' \in [Requests -> SUBSET Nat]
  BY <1>1, <1>2 DEF IInv, TypeOK, TypeHardware
<1>4. \A q \in Requests : moved[q] \subseteq moved'[q]
  BY <1>1, <1>2 DEF IInv, TypeOK, TypeHardware
<1>5. TypeOK'
  <2>1. TypeReq'
    BY <1>1 DEF IInv, TypeOK, TypeReq, reqVars
  <2>2. TypeRing'
    BY <1>1 DEF IInv, TypeOK, TypeRing, ringVars
  <2>3. TypeEngine'
    BY <1>1 DEF IInv, TypeOK, TypeEngine, engVars
  <2>4. TypeDevice'
    BY <1>1 DEF IInv, TypeOK, TypeDevice, irqVars, devVars
  <2>5. TypeHardware'
    <3>1. hw_count' \in Nat
      BY <1>1 DEF IInv, TypeOK, TypeHardware
    <3>2. hw_status' \subseteq {"DESC", "ERR"}
      BY <1>1 DEF IInv, TypeOK, TypeHardware
    <3>3. QED
      BY <1>1, <1>3, <3>1, <3>2 DEF IInv, TypeOK, TypeHardware
  <2>6. QED
    BY <2>1, <2>2, <2>3, <2>4, <2>5 DEF TypeOK
<1>6. LockInv' /\ ListInv' /\ SubmittedIsListed' /\ ProgressInv' /\ ChainInv'
  BY <1>1, HwFrame
<1>7. RunInv'
  <2>1. ~FlyingNow'
    BY <1>1 DEF FlyingNow
  <2>2. ASSUME NEW r \in Requests, transfer_list = <<r>>
        PROVE  /\ hw_count' <= xfer[r].num
               /\ \A k \in 0..(sw_desc_idx[r] - 1) :
                    (/\ sw_desc_idx[r] - xfer[r].num <= k
                     /\ k < sw_desc_idx[r] - xfer[r].num + hw_count')
                        => k \in moved'[r]
               /\ hw_next # DescMax =>
                    /\ hw_next < xfer[r].index + xfer[r].num
                    /\ hw_next = xfer[r].index + hw_count' + 0
    <3>1. /\ xfer[r].num \in Nat /\ xfer[r].index \in Nat
          /\ sw_desc_idx[r] \in Nat /\ hw_count \in Nat
      BY <2>2, ListedChain, DescMaxAssumption DEF IInv, TypeOK, TypeHardware
    <3>2. CASE hw_stale
      BY <1>1, <1>4, <2>2, <3>1, <3>2 DEF IInv, RunInv, FlyingNow
    <3>3. CASE ~hw_stale
      <4>1. FlyingNow
        BY <1>1, <3>3 DEF FlyingNow
      <4>2. /\ hw_count < xfer[r].num
            /\ hw_fly = Entry(r, xfer[r].index + hw_count)
        BY <2>2, <4>1 DEF IInv, RunInv
      <4>3. /\ hw_fly.req = r
            /\ hw_fly.k = sw_desc_idx[r] - xfer[r].num + hw_count
        BY <3>1, <4>2 DEF Entry
      <4>4. hw_fly.k \in moved'[r]
        BY <1>1, <1>2, <4>3 DEF IInv, TypeOK, TypeHardware
      <4>5. hw_count' = hw_count + 1
        BY <1>1, <3>3
      <4>6. hw_next # DescMax =>
                /\ hw_next < xfer[r].index + xfer[r].num
                /\ hw_next = xfer[r].index + hw_count + 1
        BY <2>2, <4>1 DEF IInv, RunInv
      <4>7. ASSUME NEW k \in 0..(sw_desc_idx[r] - 1),
                   sw_desc_idx[r] - xfer[r].num <= k,
                   k < sw_desc_idx[r] - xfer[r].num + hw_count'
            PROVE  k \in moved'[r]
        <5>1. k = hw_fly.k \/ k < sw_desc_idx[r] - xfer[r].num + hw_count
          BY <3>1, <4>3, <4>5, <4>7
        <5>2. QED
          BY <1>4, <2>2, <4>4, <4>7, <5>1 DEF IInv, RunInv
      <4>8. QED
        BY <3>1, <4>2, <4>5, <4>6, <4>7
    <3>4. QED
      BY <3>2, <3>3
  <2>3. hw_stale' => hw_fly' # NoDesc
    BY <1>1
  <2>4. transfer_list' = <<>> => ~running' /\ ~lock' /\ hw_next' = DescMax
    BY <1>1 DEF IInv, RunInv, engVars
  <2>5. \A r \in Requests : transfer_list = <<r>> => desc_dequeued = 0
    BY DEF IInv, RunInv
  <2>6. QED
    BY <1>1, <2>1, <2>2, <2>3, <2>4, <2>5 DEF RunInv, reqVars, engVars
<1>8. DoneIsMoved' /\ CompletedIsMoved'
  BY <1>1, <1>4 DEF IInv, DoneIsMoved, CompletedIsMoved, reqVars
<1>9. QED
  BY <1>5, <1>6, <1>7, <1>8 DEF IInv

\* A hardware error ends the run and counts nothing.
LEMMA HwErrorStep ==
    ASSUME IInv, HwError
    PROVE  IInv'
<1>1. /\ hw_status' = hw_status \cup {"ERR"}
      /\ hw_fly' = NoDesc /\ hw_stale' = FALSE /\ hw_next' = DescMax
      /\ UNCHANGED <<reqVars, ringVars, engVars, irqVars, devVars, hw_run,
                     hw_count, moved>>
  BY DEF HwError
<1>2. TypeOK'
  <2>1. TypeReq'
    BY <1>1 DEF IInv, TypeOK, TypeReq, reqVars
  <2>2. TypeRing'
    BY <1>1 DEF IInv, TypeOK, TypeRing, ringVars
  <2>3. TypeEngine'
    BY <1>1 DEF IInv, TypeOK, TypeEngine, engVars
  <2>4. TypeDevice'
    BY <1>1 DEF IInv, TypeOK, TypeDevice, irqVars, devVars
  <2>5. TypeHardware'
    <3>1. hw_next' \in 0..DescMax
      BY <1>1, DescMaxAssumption
    <3>2. QED
      BY <1>1, <3>1 DEF IInv, TypeOK, TypeHardware
  <2>6. QED
    BY <2>1, <2>2, <2>3, <2>4, <2>5 DEF TypeOK
<1>3. LockInv' /\ ListInv' /\ SubmittedIsListed' /\ ProgressInv' /\ ChainInv'
  BY <1>1, HwFrame
<1>4. RunInv'
  <2>1. ~FlyingNow'
    BY <1>1 DEF FlyingNow
  <2>2. QED
    BY <1>1, <2>1 DEF IInv, RunInv, reqVars, engVars
<1>5. DoneIsMoved' /\ CompletedIsMoved'
  BY <1>1 DEF IInv, DoneIsMoved, CompletedIsMoved, reqVars
<1>6. QED
  BY <1>2, <1>3, <1>4, <1>5 DEF IInv

\* What engine_service() does to the one transfer on the list.
LEMMA ServiceTransfersEffect ==
    ASSUME IInv, NEW r \in Requests, transfer_list = <<r>>,
           ServiceTransfers(hw_count - desc_dequeued)
    PROVE  /\ \A q \in Requests : q # r => xfer'[q] = xfer[q]
           /\ xfer' \in [Requests -> Xfer]
           /\ xfer'[r] = [xfer[r] EXCEPT !.state =
                              FinalState(hw_count, xfer[r].num)]
           /\ transfer_list' = <<>>
           /\ running' = FALSE /\ hw_run' = FALSE /\ hw_next' = DescMax
           /\ desc_dequeued' \in Int
           /\ shutdown' \subseteq {"REQUEST", "IDLE"}
           /\ UNCHANGED <<hw_stale, hw_count>>
<1>1. /\ hw_count \in Nat /\ desc_dequeued = 0 /\ hw_count <= xfer[r].num
      /\ xfer[r].num \in 0..DescMax
  BY DEF IInv, RunInv, TypeOK, TypeHardware, TypeReq, Xfer
<1>2. hw_count - desc_dequeued = hw_count /\ hw_count \in Int
  BY <1>1
<1>3. PassedOver(hw_count) = 0
  BY <1>1, <1>2, NonePassed
<1>4. DescsThrough(0) = 0
  BY NoneThrough
<1>5. SubSeq(transfer_list, 0 + 1, Len(transfer_list)) = <<r>>
  <2>1. Len(transfer_list) = 1 /\ transfer_list = <<r>> /\ 0 + 1 = 1
    OBVIOUS
  <2>2. SubSeq(<<r>>, 1, 1) = <<r>>
    <3>1. /\ SubSeq(<<r>>, 1, 1) = [i \in 1..1 |-> <<r>>[i]]
          /\ <<r>> = [i \in 1..1 |-> <<r>>[i]]
      OBVIOUS
    <3>2. QED
      BY <3>1
  <2>3. QED
    BY <2>1, <2>2
<1>6. {transfer_list[j] : j \in 1..0} = {}
  OBVIOUS
<1>7. <<r>> # <<>> /\ Head(<<r>>) = r /\ AfterFinal(<<r>>) = <<>>
  BY DEF AfterFinal
<1>8. hw_count - DescsThrough(0) = hw_count
  BY <1>1, <1>4
<1> DEFINE dq == desc_dequeued + DescsThrough(0) +
                    IF <<r>> # <<>> /\ ~status_err THEN xfer[r].num ELSE 0
<1>9. /\ xfer' = [q \in Requests |->
                    IF q \in {}
                    THEN [xfer[q] EXCEPT !.state = "COMPLETED"]
                    ELSE IF <<r>> # <<>> /\ q = r
                    THEN [xfer[q] EXCEPT !.state =
                              FinalState(hw_count, xfer[r].num)]
                    ELSE xfer[q]]
      /\ transfer_list' = <<>>
      /\ ServiceResume(transfer_list', xfer',
                       running /\ ~(<<r>> # <<>> /\ status_err), dq)
  BY <1>2, <1>3, <1>5, <1>6, <1>7, <1>8 DEF ServiceTransfers
<1>10. dq \in Int
  BY <1>1, <1>4
<1> HIDE DEF dq
<1>11. /\ running' = FALSE /\ hw_run' = FALSE /\ hw_next' = DescMax
       /\ desc_dequeued' = dq
       /\ UNCHANGED <<hw_stale, hw_count>>
       /\ shutdown' \in {shutdown, shutdown \cup {"IDLE"}}
  BY <1>9 DEF ServiceResume, EngineStop, HwStop
<1>12. shutdown' \subseteq {"REQUEST", "IDLE"}
  BY <1>11 DEF IInv, TypeOK, TypeEngine
<1>13. FinalState(hw_count, xfer[r].num) \in States
  BY DEF FinalState, States
<1>14. xfer' \in [Requests -> Xfer]
  BY <1>9, <1>13 DEF IInv, TypeOK, TypeReq, Xfer
<1>15. QED
  BY <1>9, <1>10, <1>11, <1>12, <1>14

\* The second half of engine_service() keeps the invariant: it credits the
\* listed transfer with what the current run counted.
LEMMA ServiceCountStep ==
    ASSUME IInv, ServiceCount
    PROVE  IInv'
<1>1. /\ lock /\ lock' = FALSE /\ irq_enabled' = TRUE
      /\ UNCHANGED <<pc, sw_desc_cnt, sw_desc_idx, done, rv, ret, mapped,
                     ringVars, status_err, work, irq_line, devVars, hw_fly,
                     hw_status, moved>>
  BY DEF ServiceCount, Reenable
<1>2. PICK r \in Requests : transfer_list = <<r>>
  BY <1>1 DEF IInv, RunInv, ListInv
<1>3. CASE hw_count = 0
  <2>1. UNCHANGED <<xfer, transfer_list, running, shutdown, desc_dequeued,
                    hw_run, hw_next, hw_stale, hw_count>>
    BY <1>3 DEF ServiceCount
  <2>2. TypeOK'
    <3>1. TypeReq'
      BY <1>1, <2>1 DEF IInv, TypeOK, TypeReq
    <3>2. TypeRing'
      BY <1>1 DEF IInv, TypeOK, TypeRing, ringVars
    <3>3. TypeEngine'
      BY <1>1, <2>1 DEF IInv, TypeOK, TypeEngine
    <3>4. TypeDevice'
      BY <1>1 DEF IInv, TypeOK, TypeDevice, devVars
    <3>5. TypeHardware'
      BY <1>1, <2>1 DEF IInv, TypeOK, TypeHardware
    <3>6. QED
      BY <3>1, <3>2, <3>3, <3>4, <3>5 DEF TypeOK
  <2>3. QED
    BY <1>1, <2>1, <2>2, Frame DEF reqVars
<1>4. CASE hw_count # 0
  <2>1. ServiceTransfers(hw_count - desc_dequeued)
    BY <1>4 DEF ServiceCount
  <2>2. /\ \A q \in Requests : q # r => xfer'[q] = xfer[q]
        /\ xfer' \in [Requests -> Xfer]
        /\ xfer'[r] = [xfer[r] EXCEPT !.state =
                           FinalState(hw_count, xfer[r].num)]
        /\ transfer_list' = <<>>
        /\ running' = FALSE /\ hw_run' = FALSE /\ hw_next' = DescMax
        /\ desc_dequeued' \in Int
        /\ shutdown' \subseteq {"REQUEST", "IDLE"}
        /\ UNCHANGED <<hw_stale, hw_count>>
    BY <1>2, <2>1, ServiceTransfersEffect
  <2>3. /\ xfer'[r].num = xfer[r].num /\ xfer'[r].index = xfer[r].index
        /\ xfer'[r].state = FinalState(hw_count, xfer[r].num)
        /\ xfer'[r].state \in {"FAILED", "COMPLETED"}
    BY <2>2 DEF IInv, TypeOK, TypeReq, Xfer, FinalState
  <2>4. TypeOK'
    <3>1. TypeReq'
      BY <1>1, <2>2 DEF IInv, TypeOK, TypeReq
    <3>2. TypeRing'
      BY <1>1 DEF IInv, TypeOK, TypeRing, ringVars
    <3>3. TypeEngine'
      <4>1. transfer_list' \in Seq(Requests)
        BY <2>2
      <4>2. QED
        BY <1>1, <2>2, <4>1 DEF IInv, TypeOK, TypeEngine
    <3>4. TypeDevice'
      BY <1>1 DEF IInv, TypeOK, TypeDevice, devVars
    <3>5. TypeHardware'
      <4>1. hw_next' \in 0..DescMax
        BY <2>2, DescMaxAssumption
      <4>2. QED
        BY <1>1, <2>2, <4>1 DEF IInv, TypeOK, TypeHardware
    <3>6. QED
      BY <3>1, <3>2, <3>3, <3>4, <3>5 DEF TypeOK
  <2>5. LockInv'
    BY <1>1 DEF IInv, LockInv, ringVars
  <2>6. ListInv'
    BY <2>2 DEF ListInv
  <2>7. SubmittedIsListed'
    <3>1. \A q \in Requests : q # r => xfer[q].state # "SUBMITTED"
      BY <1>2 DEF IInv, SubmittedIsListed
    <3>2. QED
      BY <2>2, <2>3, <3>1 DEF SubmittedIsListed
  <2>8. pc[r] \in Locked \ {"init"} /\ xfer[r].state = "SUBMITTED"
    BY <1>2, ListedChain
  <2>9. ProgressInv'
    <3>1. pc[r] \notin {"check", "queue"}
      BY <2>8 DEF IInv, ProgressInv
    <3>2. \A q \in Requests : xfer'[q].num = xfer[q].num
      BY <2>2, <2>3
    <3>3. QED
      BY <1>1, <2>2, <3>1, <3>2 DEF IInv, ProgressInv
  <2>10. ChainInv'
    <3>1. \A q \in Requests : xfer'[q].num = xfer[q].num
                              /\ xfer'[q].index = xfer[q].index
      BY <2>2, <2>3
    <3>2. \A q \in Requests : \A i : Entry(q, i)' = Entry(q, i)
      BY <1>1, <3>1 DEF Entry
    <3>3. QED
      BY <1>1, <3>1, <3>2 DEF IInv, ChainInv, ringVars
  <2>11. RunInv'
    BY <1>1, <2>2 DEF IInv, RunInv
  <2>12. DoneIsMoved'
    BY <1>1 DEF IInv, DoneIsMoved
  <2>13. CompletedIsMoved'
    <3>1. ASSUME xfer'[r].state = "COMPLETED",
                 NEW k \in (sw_desc_idx[r] - xfer[r].num)..(sw_desc_idx[r] - 1)
          PROVE  k \in moved[r]
      <4>1. /\ xfer[r].num \in Nat /\ sw_desc_idx[r] \in Nat
            /\ xfer[r].num <= sw_desc_idx[r] /\ hw_count \in Nat
        BY <1>2, ListedChain, DescMaxAssumption DEF IInv, TypeOK, TypeHardware
      <4>2. hw_count >= xfer[r].num
        BY <2>3, <3>1, <4>1 DEF FinalState
      <4>3. /\ k \in 0..(sw_desc_idx[r] - 1)
            /\ sw_desc_idx[r] - xfer[r].num <= k
            /\ k < sw_desc_idx[r] - xfer[r].num + hw_count
        BY <4>1, <4>2
      <4>4. QED
        BY <1>2, <4>3 DEF IInv, RunInv
    <3>2. QED
      BY <1>1, <2>2, <2>3, <3>1 DEF IInv, CompletedIsMoved
  <2>14. QED
    BY <2>4, <2>5, <2>6, <2>7, <2>9, <2>10, <2>11, <2>12, <2>13 DEF IInv
<1>5. QED
  BY <1>3, <1>4

-----------------------------------------------------------------------------
(* The theorems                                                            *)

\* The driver's initial state satisfies the invariant.
LEMMA InitIInv == Init => IInv
<1> SUFFICES ASSUME Init PROVE IInv
  OBVIOUS
<1>1. TypeOK
  <2>1. TypeReq
    BY DescMaxAssumption
    DEF Init, TypeReq, Places, Errors, Xfer, States
  <2>2. TypeRing
    BY DescMaxAssumption DEF Init, TypeRing
  <2>3. TypeEngine
    <3>1. <<>> \in Seq(Requests)
      OBVIOUS
    <3>2. /\ transfer_list \in Seq(Requests)
          /\ shutdown \subseteq {"REQUEST", "IDLE"}
      BY <3>1 DEF Init
    <3>3. running \in BOOLEAN /\ status_err \in BOOLEAN /\ lock \in BOOLEAN
      BY DEF Init
    <3>4. desc_dequeued \in Int
      BY DEF Init
    <3>5. QED
      BY <3>2, <3>3, <3>4 DEF TypeEngine
  <2>4. TypeDevice
    BY DEF Init, TypeDevice
  <2>5. TypeHardware
    <3>1. hw_run \in BOOLEAN /\ hw_stale \in BOOLEAN
      BY DEF Init
    <3>2. hw_next \in 0..DescMax /\ hw_count \in Nat
      BY DescMaxAssumption DEF Init
    <3>3. hw_fly \in Desc \cup {NoDesc} /\ hw_status \subseteq {"DESC", "ERR"}
      BY DEF Init
    <3>4. moved \in [Requests -> SUBSET Nat]
      BY DEF Init
    <3>5. QED
      BY <3>1, <3>2, <3>3, <3>4 DEF TypeHardware
  <2>6. QED
    BY <2>1, <2>2, <2>3, <2>4, <2>5 DEF TypeOK
<1>2. LockInv /\ ListInv
  BY NoReqAssumption DEF Init, LockInv, ListInv, Locked
<1>3. SubmittedIsListed /\ ProgressInv /\ ChainInv
  BY DEF Init, SubmittedIsListed, ProgressInv, ChainInv, Locked, Queued
<1>4. RunInv
  BY DEF Init, RunInv
<1>5. DoneIsMoved /\ CompletedIsMoved
  BY DEF Init, DoneIsMoved, CompletedIsMoved
<1>6. QED
  BY <1>1, <1>2, <1>3, <1>4, <1>5 DEF IInv

\* One step per action: each preserves the invariant.
LEMMA NextIInv == IInv /\ [Next]_vars => IInv'
<1> SUFFICES ASSUME IInv, [Next]_vars PROVE IInv'
  OBVIOUS
<1>1. ASSUME NEW r \in Requests, Call(r) PROVE IInv'
  BY <1>1, SubmitStep, SubmitRefusedStep DEF Call
<1>2. ASSUME ~Abandoned, NEW r \in Requests, Proceed(r) PROVE IInv'
  <2>1. CASE LockDesc(r)
    BY <2>1, LockDescStep
  <2>2. CASE TransferInit(r)
    BY <2>2, TransferInitStep
  <2>3. CASE TransferQueueCheck(r)
    <3>1. CASE offline
      BY <2>3, <3>1, QueueRefusedStep DEF TransferQueueCheck
    <3>2. CASE ~offline
      BY <2>3, <3>2, QueueCheckStep
    <3>3. QED
      BY <3>1, <3>2
  <2>4. CASE TransferQueue(r)
    <3>1. CASE "REQUEST" \in shutdown
      BY <2>4, <3>1, QueueRefusedStep DEF TransferQueue
    <3>2. CASE "REQUEST" \notin shutdown
      BY <2>4, <3>2, TransferQueueStep
    <3>3. QED
      BY <3>1, <3>2
  <2>5. CASE Woken(r)
    BY <2>5, WokenStep
  <2>6. CASE Settle(r)
    BY <2>6, SettleOutcomeStep, SettleAbortStep
  <2>7. CASE Destroy(r)
    BY <1>2, <2>7, DestroyStep
  <2>8. CASE UnmapReturn(r)
    BY <2>8, UnmapReturnStep
  <2>9. QED
    BY <1>2, <2>1, <2>2, <2>3, <2>4, <2>5, <2>6, <2>7, <2>8 DEF Proceed
<1>3. ASSUME NEW r \in Requests, Timeout(r) PROVE IInv'
  BY <1>3, TimeoutStep
<1>4. CASE Service
  BY <1>4, ServiceStatusStep, ServiceCountStep DEF Service
<1>5. CASE Isr \/ PciCore
  BY <1>5, DeviceStep, OfflineStopStep, HwResetStep DEF PciCore
<1>6. CASE Hardware
  BY <1>6, HwFetchStep, HwCompleteStep, HwErrorStep DEF Hardware
<1>7. CASE UNCHANGED vars
  <2>1. TypeOK'
    <3>1. TypeReq' /\ TypeRing'
      BY <1>7 DEF IInv, TypeOK, TypeReq, TypeRing, vars, reqVars, ringVars
    <3>2. TypeEngine' /\ TypeDevice'
      BY <1>7 DEF IInv, TypeOK, TypeEngine, TypeDevice, vars, engVars, irqVars,
         devVars
    <3>3. TypeHardware'
      BY <1>7 DEF IInv, TypeOK, TypeHardware, vars, hwVars
    <3>4. QED
      BY <3>1, <3>2, <3>3 DEF TypeOK
  <2>2. running' = running /\ (lock' => transfer_list # <<>>)
    BY <1>7 DEF IInv, RunInv, vars, engVars
  <2>3. QED
    BY <1>7, <2>1, <2>2, Frame DEF vars, engVars, hwVars
<1>8. QED
  BY <1>1, <1>2, <1>3, <1>4, <1>5, <1>6, <1>7 DEF Next, Finished

\* The invariant holds in every reachable state, whatever the faults.
THEOREM Invariance == Spec => []IInv
  BY InitIInv, NextIInv, PTL DEF Spec

\* Type correctness: ring indices and lengths stay inside the ring.
THEOREM TypeCorrectness == Spec => []TypeOK
<1>1. IInv => TypeOK
  BY DEF IInv
<1>2. QED
  BY <1>1, Invariance, PTL

\* xdma_xfer_submit() never reports data as done that the hardware did not
\* move: not with late or left-over interrupts, timeouts, errors or resets.
THEOREM ReportsOnlyMovedData == Spec => []DoneIsMoved
<1>1. IInv => DoneIsMoved
  BY DEF IInv
<1>2. QED
  BY <1>1, Invariance, PTL

\* A transfer marked COMPLETED has been moved to its last descriptor.
THEOREM CompletionIsReal == Spec => []CompletedIsMoved
<1>1. IInv => CompletedIsMoved
  BY DEF IInv
<1>2. QED
  BY <1>1, Invariance, PTL

\* The engine's list holds only transfers that are SUBMITTED and waited for;
\* an abort skipped on dead registers is the only exception.
THEOREM ListNeverDangles == Spec => []NoDangling
<1>1. IInv => NoDangling
  <2>1. SUFFICES ASSUME IInv, NEW r \in Requests,
                        NEW j \in 1..Len(transfer_list), transfer_list[j] = r
                 PROVE  /\ xfer[r].state = "SUBMITTED"
                        /\ pc[r] \in Queued \/ "dead" \in Faults
    BY DEF NoDangling
  <2>2. transfer_list = <<desc_lock>>
    BY <2>1 DEF IInv, ListInv
  <2>3. r = desc_lock
    BY <2>1, <2>2
  <2>4. QED
    BY <2>1, <2>2, <2>3 DEF IInv, ListInv
<1>2. QED
  BY <1>1, Invariance, PTL

\* The hardware is only ever led along the chain of the transfer that holds
\* desc_lock, so it never fetches a cleared or a reused descriptor.
THEOREM HardwareStaysOnChain == Spec => []FetchesOwnChain
<1>1. IInv => FetchesOwnChain
  <2>1. SUFFICES ASSUME IInv, hw_next # DescMax
                 PROVE  desc[hw_next] # NoDesc /\ desc[hw_next].req = desc_lock
    BY DEF FetchesOwnChain
  <2>2. PICK r \in Requests : transfer_list = <<r>>
    BY <2>1 DEF IInv, RunInv, ListInv
  <2>3. /\ desc_lock = r
        /\ xfer[r].num \in 1..DescMax /\ xfer[r].index \in 0..(DescMax - 1)
        /\ xfer[r].num <= sw_desc_idx[r] /\ sw_desc_idx[r] \in Nat
        /\ \A i \in 0..(DescMax - 1) :
            (xfer[r].index <= i /\ i < xfer[r].index + xfer[r].num) =>
                desc[i] = Entry(r, i)
    BY <2>1, <2>2, ListedChain
  <2>4. /\ hw_next \in 0..(DescMax - 1)
        /\ xfer[r].index <= hw_next
        /\ hw_next < xfer[r].index + xfer[r].num
    <3>1. hw_next \in 0..(DescMax - 1) /\ hw_count \in Nat
      BY <2>1, DescMaxAssumption DEF IInv, TypeOK, TypeHardware
    <3>2. /\ hw_next < xfer[r].index + xfer[r].num
          /\ hw_next = xfer[r].index + hw_count + (IF FlyingNow THEN 1 ELSE 0)
      BY <2>1, <2>2 DEF IInv, RunInv
    <3>3. QED
      BY <2>3, <3>1, <3>2
  <2>5. desc[hw_next] = Entry(r, hw_next)
    BY <2>3, <2>4
  <2>6. Entry(r, hw_next) \in Desc
    <3>1. sw_desc_idx[r] - xfer[r].num + (hw_next - xfer[r].index) \in Nat
      BY <2>3, <2>4
    <3>2. (hw_next = xfer[r].index + xfer[r].num - 1) \in BOOLEAN
      OBVIOUS
    <3>3. QED
      BY <3>1, <3>2 DEF Entry, Desc
  <2>7. QED
    BY <2>3, <2>5, <2>6, NoDescAssumption DEF Entry
<1>2. QED
  BY <1>1, Invariance, PTL
-----------------------------------------------------------------------------
(* What the steps of each party leave alone.                               *)

\* A step of a call in xdma_xfer_submit() moves that call on, never back to the
\* entry, and touches neither the data, nor the descriptor in flight, nor the
\* interrupt.
LEMMA CallMovesOn ==
    ASSUME IInv, NEW r \in Requests, Proceed(r) \/ Timeout(r)
    PROVE  /\ UNCHANGED <<sw_desc_cnt, moved, hw_fly, hw_status, work, lock>>
           /\ \E p \in Places \ {"idle", "mutex"} : pc' = [pc EXCEPT ![r] = p]
<1>1. CASE LockDesc(r) \/ UnmapReturn(r) \/ Woken(r) \/ Timeout(r)
  BY <1>1 DEF LockDesc, UnmapReturn, Woken, Timeout, Goto, Places, ringVars,
     engVars, irqVars, hwVars
<1>2. CASE TransferInit(r)
  BY <1>2 DEF TransferInit, Goto, Places, engVars, irqVars, hwVars
<1>3. CASE TransferQueueCheck(r)
  BY <1>3 DEF TransferQueueCheck, QueueRefused, Goto, Places, engVars, irqVars,
     hwVars
<1>4. CASE TransferQueue(r)
  BY <1>4 DEF TransferQueue, QueueRefused, Goto, Places, engVars, irqVars, hwVars
<1>5. CASE Settle(r)
  BY <1>5 DEF Settle, Goto, Places, irqVars
<1>6. CASE Destroy(r)
  BY <1>6 DEF Destroy, Goto, Places, engVars, irqVars, hwVars
<1>7. QED
  BY <1>1, <1>2, <1>3, <1>4, <1>5, <1>6 DEF Proceed

\* The interrupt, its service and the PCI core leave the calls and the data
\* alone; what is in flight stays so unless a reset ends it.
LEMMA OthersLeaveCalls ==
    ASSUME Isr \/ Service \/ PciCore
    PROVE  /\ UNCHANGED <<pc, sw_desc_cnt, sw_desc_idx, done, rv, ret, mapped,
                          ringVars, moved>>
           /\ hw_fly' \in {hw_fly, NoDesc}
<1>1. CASE Isr
  BY <1>1 DEF Isr, reqVars, hwVars
<1>2. CASE Service
  BY <1>2 DEF Service, ServiceStatus, ServiceCount, reqVars
<1>3. CASE PciCore
  BY <1>3 DEF PciCore, OfflineFlag, OfflineStop, OfflineIrq, HwReset,
     OnlineEngine, OnlineIrq, OnlineFlag, reqVars, hwVars
<1>4. QED
  BY <1>1, <1>2, <1>3

\* A service gives an outcome to the listed transfer only, keeps its place in
\* the ring, and finds it still SUBMITTED.
LEMMA ServiceSettlesListed ==
    ASSUME IInv, Isr \/ Service \/ PciCore, NEW q \in Requests
    PROVE  /\ xfer'[q].num = xfer[q].num
           /\ \/ xfer'[q] = xfer[q]
              \/ xfer[q].state = "SUBMITTED"
<1>1. CASE ServiceCount /\ hw_count # 0
  <2>1. PICK r \in Requests : transfer_list = <<r>>
    BY <1>1 DEF IInv, RunInv, ListInv, ServiceCount
  <2>2. ServiceTransfers(hw_count - desc_dequeued)
    BY <1>1 DEF ServiceCount
  <2>3. /\ \A p \in Requests : p # r => xfer'[p] = xfer[p]
        /\ xfer'[r] = [xfer[r] EXCEPT !.state = FinalState(hw_count, xfer[r].num)]
    BY <2>1, <2>2, ServiceTransfersEffect
  <2>4. xfer[r].state = "SUBMITTED" /\ xfer[r] \in Xfer
    BY <2>1, ListedChain DEF IInv, TypeOK, TypeReq
  <2>5. xfer'[r].num = xfer[r].num
    BY <2>3, <2>4 DEF Xfer
  <2>6. QED
    BY <2>3, <2>4, <2>5
<1>2. CASE ~(ServiceCount /\ hw_count # 0)
  <2>1. UNCHANGED xfer
    BY <1>2 DEF Isr, Service, ServiceStatus, ServiceCount, PciCore, OfflineFlag,
       OfflineStop, OfflineIrq, HwReset, OnlineEngine, OnlineIrq, OnlineFlag,
       reqVars
  <2>2. QED
    BY <2>1
<1>3. QED
  BY <1>1, <1>2

\* The hardware changes neither calls nor ring nor list.
LEMMA HardwareLeavesCalls ==
    ASSUME Hardware
    PROVE  UNCHANGED <<reqVars, ringVars, engVars, irqVars, devVars>>
  BY DEF Hardware, HwFetch, HwComplete, HwError
-----------------------------------------------------------------------------
(* Outcomes                                                                *)

\* No step changes the state of a settled transfer, except transfer_init() for
\* the next one.
LEMMA SettledStays ==
    ASSUME IInv, [Next]_vars, NEW r \in Requests,
           xfer[r].state \in {"COMPLETED", "FAILED", "ABORTED"}
    PROVE  xfer'[r].state = xfer[r].state \/ pc[r] = "init"
<1>1. ASSUME NEW q \in Requests, Call(q) \/ Proceed(q) \/ Timeout(q)
      PROVE  xfer'[r].state = xfer[r].state \/ pc[r] = "init"
  <2>1. CASE Call(q)
    BY <2>1 DEF Call, Submit, SubmitRefused
  <2>2. CASE TransferInit(q)
    BY <2>2 DEF TransferInit, IInv, TypeOK, TypeReq
  <2>3. CASE TransferQueue(q)
    <3>1. pc[q] = "queue" => xfer[q].state = "NEW"
      BY DEF IInv, ProgressInv
    <3>2. q # r
      BY <2>3, <3>1 DEF TransferQueue
    <3>3. xfer'[r] = xfer[r]
      BY <2>3, <3>2 DEF TransferQueue, QueueRefused, IInv, TypeOK, TypeReq
    <3>4. QED
      BY <3>3
  <2>4. CASE Settle(q)
    <3>1. CASE q = r
      BY <2>4, <3>1 DEF Settle
    <3>2. CASE q # r
      BY <2>4, <3>2 DEF Settle, IInv, TypeOK, TypeReq
    <3>3. QED
      BY <3>1, <3>2
  <2>5. CASE LockDesc(q) \/ TransferQueueCheck(q) \/ Woken(q) \/ Timeout(q)
             \/ Destroy(q) \/ UnmapReturn(q)
    BY <2>5 DEF LockDesc, TransferQueueCheck, QueueRefused, Woken, Timeout,
       Destroy, UnmapReturn
  <2>6. QED
    BY <1>1, <2>1, <2>2, <2>3, <2>4, <2>5 DEF Proceed
<1>2. CASE Isr \/ Service \/ PciCore
  BY <1>2, ServiceSettlesListed
<1>3. CASE Hardware
  BY <1>3, HardwareLeavesCalls DEF reqVars
<1>4. CASE UNCHANGED vars
  BY <1>4 DEF vars, reqVars
<1>5. QED
  BY <1>1, <1>2, <1>3, <1>4 DEF Next, Finished

\* A late interrupt, a late timeout or a reset never changes an outcome: once
\* COMPLETED, FAILED or ABORTED a transfer stays so until its owner builds the
\* next one.
THEOREM OutcomesAreFinal == Spec => OutcomeIsFinal
<1>1. IInv /\ [Next]_vars =>
        [\A r \in Requests :
            xfer[r].state \in {"COMPLETED", "FAILED", "ABORTED"} =>
                \/ xfer'[r].state = xfer[r].state
                \/ pc[r] = "init"]_vars
  BY SettledStays
<1>2. QED
  BY <1>1, Invariance, PTL DEF Spec, OutcomeIsFinal
-----------------------------------------------------------------------------
(* The descriptor in flight                                                *)

\* What the hardware fetches is a descriptor of the listed transfer.
LEMMA FetchedIsListed ==
    ASSUME IInv, HwFetch
    PROVE  \E r \in Requests :
             /\ transfer_list = <<r>>
             /\ pc[r] \in Locked
             /\ hw_fly' # NoDesc
             /\ hw_fly'.req = r
             /\ hw_fly'.k < sw_desc_cnt[r]
<1>1. PICK r \in Requests : transfer_list = <<r>>
  BY DEF HwFetch, IInv, RunInv, ListInv
<1>2. /\ pc[r] \in Locked
      /\ xfer[r].num \in 1..DescMax /\ xfer[r].index \in 0..(DescMax - 1)
      /\ sw_desc_idx[r] \in Nat /\ xfer[r].num <= sw_desc_idx[r]
      /\ \A i \in 0..(DescMax - 1) :
            (xfer[r].index <= i /\ i < xfer[r].index + xfer[r].num) =>
                desc[i] = Entry(r, i)
  BY <1>1, ListedChain
<1>3. /\ hw_next \in 0..(DescMax - 1) /\ hw_count \in Nat
      /\ sw_desc_cnt[r] \in Nat /\ sw_desc_idx[r] <= sw_desc_cnt[r]
  BY DescMaxAssumption
  DEF HwFetch, IInv, TypeOK, TypeReq, TypeHardware, ProgressInv
<1>4. /\ hw_next < xfer[r].index + xfer[r].num
      /\ xfer[r].index <= hw_next
  <2>1. /\ hw_next < xfer[r].index + xfer[r].num
        /\ hw_next = xfer[r].index + hw_count + (IF FlyingNow THEN 1 ELSE 0)
    BY <1>1 DEF HwFetch, IInv, RunInv
  <2>2. QED
    BY <1>2, <1>3, <2>1
<1>5. hw_fly' = Entry(r, hw_next)
  BY <1>2, <1>3, <1>4 DEF HwFetch
<1>6. Entry(r, hw_next) \in Desc
  <2>1. sw_desc_idx[r] - xfer[r].num + (hw_next - xfer[r].index) \in Nat
    BY <1>2, <1>3, <1>4
  <2>2. (hw_next = xfer[r].index + xfer[r].num - 1) \in BOOLEAN
    OBVIOUS
  <2>3. QED
    BY <2>1, <2>2 DEF Entry, Desc
<1>7. sw_desc_idx[r] - xfer[r].num + (hw_next - xfer[r].index) < sw_desc_cnt[r]
  BY <1>2, <1>3, <1>4
<1>8. QED
  BY <1>1, <1>2, <1>5, <1>6, <1>7, NoDescAssumption DEF Entry

\* The descriptor in flight keeps belonging to a request that has had its turn.
LEMMA FlyStep ==
    ASSUME IInv, FlyInv, [Next]_vars
    PROVE  FlyInv'
<1> USE DEF FlyInv
<1>1. hw_fly # NoDesc => hw_fly.req \in Requests
  BY DEF IInv, TypeOK, TypeHardware, Desc
<1>2. ASSUME NEW r \in Requests, Call(r) PROVE FlyInv'
  BY <1>1, <1>2 DEF Call, Submit, SubmitRefused, Goto, hwVars, IInv, TypeOK,
     TypeReq
<1>3. ASSUME NEW r \in Requests, Proceed(r) \/ Timeout(r) PROVE FlyInv'
  <2>1. /\ UNCHANGED <<sw_desc_cnt, hw_fly>>
        /\ \E p \in Places \ {"idle", "mutex"} : pc' = [pc EXCEPT ![r] = p]
    BY <1>3, CallMovesOn
  <2>2. QED
    BY <1>1, <2>1 DEF IInv, TypeOK, TypeReq
<1>4. CASE Isr \/ Service \/ PciCore
  BY <1>4, OthersLeaveCalls
<1>5. CASE HwFetch
  BY <1>5, FetchedIsListed DEF HwFetch, reqVars, Locked
<1>6. CASE HwComplete \/ HwError
  BY <1>6 DEF HwComplete, HwError
<1>7. CASE UNCHANGED vars
  BY <1>7 DEF vars, reqVars, hwVars
<1>8. QED
  BY <1>2, <1>3, <1>4, <1>5, <1>6, <1>7 DEF Next, Finished, Hardware

\* The pages stay mapped until the last transfer_destroy().
LEMMA MappedStep ==
    ASSUME IInv, MappedInv, [Next]_vars
    PROVE  MappedInv'
<1> USE DEF MappedInv
<1>1. ASSUME NEW r \in Requests, Call(r) PROVE MappedInv'
  BY <1>1 DEF Call, Submit, SubmitRefused, Goto, Locked, IInv, TypeOK, TypeReq
<1>2. ASSUME NEW r \in Requests, Proceed(r) \/ Timeout(r) PROVE MappedInv'
  <2>1. CASE Destroy(r)
    <3>1. pc'[r] = "init" => ~LastInRequest(r) /\ mapped'[r] = mapped[r]
      BY <2>1 DEF Destroy, Goto, LastInRequest, IInv, TypeOK, TypeReq
    <3>2. pc'[r] \in {"init", "unmap"} /\ pc[r] \in Locked
      BY <2>1 DEF Destroy, Goto, Locked, IInv, TypeOK, TypeReq
    <3>3. \A q \in Requests : q # r => pc'[q] = pc[q] /\ mapped'[q] = mapped[q]
      BY <2>1 DEF Destroy, Goto, IInv, TypeOK, TypeReq
    <3>4. QED
      BY <3>1, <3>2, <3>3 DEF Locked
  <2>2. CASE UnmapReturn(r)
    BY <2>2 DEF UnmapReturn, Goto, Locked, IInv, TypeOK, TypeReq
  <2>3. CASE ~Destroy(r) /\ ~UnmapReturn(r)
    <3>1. UNCHANGED mapped /\ pc[r] \in {"mutex"} \cup Locked
      BY <1>2, <2>3 DEF Proceed, LockDesc, TransferInit, TransferQueueCheck,
         TransferQueue, QueueRefused, Woken, Timeout, Settle, Locked
    <3>2. \E p \in Places \ {"idle", "mutex"} : pc' = [pc EXCEPT ![r] = p]
      BY <1>2, CallMovesOn
    <3>3. QED
      BY <3>1, <3>2 DEF IInv, TypeOK, TypeReq
  <2>4. QED
    BY <2>1, <2>2, <2>3
<1>3. CASE Isr \/ Service \/ PciCore
  BY <1>3, OthersLeaveCalls
<1>4. CASE Hardware
  BY <1>4, HardwareLeavesCalls DEF reqVars
<1>5. CASE UNCHANGED vars
  BY <1>5 DEF vars, reqVars
<1>6. QED
  BY <1>1, <1>2, <1>3, <1>4, <1>5 DEF Next, Finished
-----------------------------------------------------------------------------
(* Nothing outlives its transfer, unless a wait was cut short              *)

\* An error once met stays: no step takes ERESTARTSYS back.
LEMMA CutStays ==
    ASSUME IInv, [Next]_vars, ~Cut'
    PROVE  ~Cut
<1> SUFFICES ASSUME NEW q \in Requests, rv[q] = "ERESTARTSYS"
             PROVE  rv'[q] = "ERESTARTSYS"
  BY DEF Cut
<1>1. pc[q] \notin {"idle", "mutex"} \cup (Locked \ {"destroy"})
  BY DEF IInv, ProgressInv
<1>2. ASSUME NEW r \in Requests, Call(r) \/ Proceed(r) \/ Timeout(r)
      PROVE  rv'[q] = rv[q]
  <2>1. CASE rv' = rv
    BY <2>1
  <2>2. CASE \E e \in Errors :
               rv' = [rv EXCEPT ![r] = e] /\ pc[r] \in {"idle"} \cup (Locked \ {"destroy"})
    BY <1>1, <2>2 DEF IInv, TypeOK, TypeReq, Locked
  <2>3. CASE Call(r)
    BY <2>1, <2>2, <2>3 DEF Call, Submit, SubmitRefused, Errors, Locked
  <2>4. CASE Proceed(r) \/ Timeout(r)
    BY <2>1, <2>2, <2>4 DEF Proceed, LockDesc, TransferInit, TransferQueueCheck,
       TransferQueue, QueueRefused, Woken, Timeout, Settle, Destroy, UnmapReturn,
       Errors, Locked
  <2>5. QED
    BY <1>2, <2>3, <2>4
<1>3. CASE Isr \/ Service \/ PciCore
  BY <1>3, OthersLeaveCalls
<1>4. CASE Hardware
  BY <1>4, HardwareLeavesCalls DEF reqVars
<1>5. CASE UNCHANGED vars
  BY <1>5 DEF vars, reqVars
<1>6. QED
  BY <1>2, <1>3, <1>4, <1>5 DEF Next, Finished

\* A call keeps the engine quiet: it starts the hardware only on an empty list,
\* and then nothing is left of an earlier run.
LEMMA CallKeepsQuiet ==
    ASSUME IInv, Quiet, NEW r \in Requests, ~Cut',
           Call(r) \/ Proceed(r) \/ Timeout(r)
    PROVE  Quiet'
<1> USE DEF Quiet
<1>1. CASE /\ UNCHANGED <<transfer_list, running, lock, work>>
           /\ UNCHANGED <<hw_next, hw_fly, hw_stale, hw_status>>
  BY <1>1 DEF Busy
<1>2. CASE TransferQueue(r) /\ "REQUEST" \notin shutdown
  <2>1. pc[r] = "queue" /\ transfer_list = <<>> /\ ~running /\ ~lock
    BY <1>2, HolderFindsIdle DEF TransferQueue
  <2>2. hw_fly = NoDesc /\ hw_status = {} /\ ~work
    BY <2>1
  <2>3. /\ transfer_list' = Append(<<>>, r)
        /\ hw_stale' = FALSE /\ hw_fly' = NoDesc /\ hw_status' = {}
        /\ work' = FALSE /\ lock' = FALSE
    BY <1>2, <2>1, <2>2 DEF TransferQueue, EngineStart, HwStart, irqVars,
       TypeOK, TypeEngine, TypeDevice, IInv
  <2>4. transfer_list' # <<>>
    BY <2>3
  <2>5. QED
    BY <2>3, <2>4
<1>3. CASE Settle(r) /\ xfer[r].state # "SUBMITTED"
  BY <1>1, <1>3 DEF Settle, irqVars
<1>4. CASE Settle(r) /\ xfer[r].state = "SUBMITTED"
  <2>1. rv'[r] = "ERESTARTSYS"
    BY <1>4 DEF Settle, IInv, TypeOK, TypeReq
  <2>2. QED
    BY <2>1 DEF Cut
<1>5. CASE Call(r)
  BY <1>1, <1>5 DEF Call, Submit, SubmitRefused, engVars, irqVars, hwVars
<1>6. CASE TransferQueue(r) /\ "REQUEST" \in shutdown
  BY <1>1, <1>6 DEF TransferQueue, QueueRefused, engVars, irqVars, hwVars
<1>7. CASE LockDesc(r) \/ TransferInit(r) \/ TransferQueueCheck(r) \/ Woken(r)
           \/ Timeout(r) \/ Destroy(r) \/ UnmapReturn(r)
  BY <1>1, <1>7 DEF LockDesc, TransferInit, TransferQueueCheck, QueueRefused,
     Woken, Timeout, Destroy, UnmapReturn, engVars, irqVars, hwVars
<1>8. QED
  BY <1>2, <1>3, <1>4, <1>5, <1>6, <1>7 DEF Proceed

\* The interrupt, its service and the PCI core keep the engine quiet: the list
\* empties only in a service, which finds the run over.
LEMMA OthersKeepQuiet ==
    ASSUME IInv, Quiet, Isr \/ Service \/ PciCore
    PROVE  Quiet'
<1> USE DEF Quiet, Busy
<1>1. CASE Isr
  BY <1>1 DEF Isr, engVars, hwVars
<1>2. CASE ServiceStatus
  BY <1>2 DEF ServiceStatus, EngineStop, HwStop
<1>3. CASE ServiceCount /\ hw_count # 0
  <2>1. PICK r \in Requests : transfer_list = <<r>>
    BY <1>3 DEF IInv, RunInv, ListInv, ServiceCount
  <2>2. ServiceTransfers(hw_count - desc_dequeued)
    BY <1>3 DEF ServiceCount
  <2>3. /\ transfer_list' = <<>> /\ running' = FALSE /\ hw_next' = DescMax
        /\ UNCHANGED hw_stale
    BY <2>1, <2>2, ServiceTransfersEffect
  <2>4. QED
    BY <1>3, <2>3 DEF ServiceCount
<1>4. CASE ServiceCount /\ hw_count = 0
  BY <1>4 DEF ServiceCount
<1>5. CASE OfflineStop
  BY <1>5 DEF OfflineStop, EngineStop, HwStop, irqVars
<1>6. CASE HwReset
  BY <1>6 DEF HwReset, HwStop, engVars, irqVars
<1>7. CASE OfflineFlag \/ OfflineIrq \/ OnlineEngine \/ OnlineIrq \/ OnlineFlag
  BY <1>7 DEF OfflineFlag, OfflineIrq, OnlineEngine, OnlineIrq, OnlineFlag,
     engVars, irqVars, hwVars
<1>8. QED
  BY <1>1, <1>2, <1>3, <1>4, <1>5, <1>6, <1>7 DEF Service, PciCore

\* The hardware keeps the engine quiet: it raises DESC with the last descriptor
\* of the listed transfer, and an error ends the run.
LEMMA HardwareKeepsQuiet ==
    ASSUME IInv, Quiet, Hardware
    PROVE  Quiet'
<1> USE DEF Quiet, Busy
<1>1. UNCHANGED <<transfer_list, running, lock, work>>
  BY HardwareLeavesCalls DEF engVars, irqVars
<1>2. CASE HwFetch
  <2>1. /\ \E r \in Requests : transfer_list = <<r>> /\ hw_fly'.req = r
        /\ hw_fly' # NoDesc
    BY <1>2, FetchedIsListed
  <2>2. ~lock /\ (running => hw_status = {} /\ ~work)
    BY <1>2 DEF HwFetch
  <2>3. UNCHANGED <<hw_status, hw_stale>>
    BY <1>2, <2>1 DEF HwFetch
  <2>4. QED
    BY <1>1, <2>1, <2>2, <2>3
<1>3. CASE HwError
  BY <1>1, <1>3 DEF HwError
<1>4. CASE HwComplete
  <2>1. PICK r \in Requests : transfer_list = <<r>>
    BY <1>4 DEF HwComplete, IInv, TypeOK, TypeHardware, Desc
  <2>2. hw_fly.stop => hw_next = DescMax
    <3> SUFFICES ASSUME hw_fly.stop, hw_next # DescMax PROVE FALSE
      OBVIOUS
    <3>1. FlyingNow
      BY <1>4 DEF FlyingNow, HwComplete
    <3>2. /\ hw_fly = Entry(r, xfer[r].index + hw_count)
          /\ hw_next < xfer[r].index + xfer[r].num
          /\ hw_next = xfer[r].index + hw_count + 1
      BY <2>1, <3>1 DEF IInv, RunInv
    <3>3. xfer[r].index + hw_count = xfer[r].index + xfer[r].num - 1
      BY <3>2 DEF Entry
    <3>4. xfer[r].index \in Nat /\ xfer[r].num \in Nat /\ hw_count \in Nat
      BY <2>1, ListedChain, DescMaxAssumption DEF IInv, TypeOK, TypeHardware
    <3>5. \A i, n, h, x \in Int :
            (x < i + n /\ x = i + h + 1 /\ i + h = i + n - 1) => FALSE
      OBVIOUS
    <3>6. xfer[r].index + hw_count + 1 \in Int
      BY <3>4
    <3>7. QED
      BY <3>2, <3>3, <3>4, <3>5, <3>6
  <2>3. ~lock /\ (running => hw_status = {} /\ ~work)
    BY <1>4 DEF HwComplete
  <2>4. /\ hw_fly' = NoDesc /\ hw_stale' = FALSE /\ hw_next' = hw_next
        /\ hw_status' = IF hw_fly.stop THEN hw_status \cup {"DESC"} ELSE hw_status
    BY <1>4 DEF HwComplete
  <2>5. transfer_list # <<>>
    BY <2>1
  <2>6. QED
    BY <1>1, <2>2, <2>3, <2>4, <2>5
<1>5. QED
  BY <1>2, <1>3, <1>4 DEF Hardware

\* As long as no transfer is given up, no step leaves anything of a run behind.
LEMMA QuietStep ==
    ASSUME IInv, QuietInv, [Next]_vars
    PROVE  QuietInv'
<1> SUFFICES ASSUME ~Cut' PROVE Quiet'
  BY DEF QuietInv
<1>1. Quiet
  BY CutStays DEF QuietInv
<1>2. ASSUME NEW r \in Requests, Call(r) \/ Proceed(r) \/ Timeout(r)
      PROVE  Quiet'
  BY <1>1, <1>2, CallKeepsQuiet
<1>3. CASE Isr \/ Service \/ PciCore
  BY <1>1, <1>3, OthersKeepQuiet
<1>4. CASE Hardware
  BY <1>1, <1>4, HardwareKeepsQuiet
<1>5. CASE UNCHANGED vars
  BY <1>1, <1>5 DEF Quiet, Busy, vars, engVars, irqVars, hwVars
<1>6. QED
  BY <1>2, <1>3, <1>4, <1>5 DEF Next, Finished
-----------------------------------------------------------------------------
(* Counting descriptors                                                    *)

\* The leaked descriptors are the same when the refused requests are and their
\* transfers keep their lengths.
LEMMA SameLeaked ==
    ASSUME \A q \in Requests : /\ rv'[q] = "EBUSY" <=> rv[q] = "EBUSY"
                               /\ rv[q] = "EBUSY" => xfer'[q].num = xfer[q].num
    PROVE  LeakedSet' = LeakedSet
  BY DEF LeakedSet

\* A refused transfer adds its descriptors to the leaked ones.
LEMMA RefusedLeaks ==
    ASSUME IInv, IsFiniteSet(LeakedSet), NEW r \in Requests, QueueRefused(r),
           rv[r] # "EBUSY"
    PROVE  /\ IsFiniteSet(LeakedSet')
           /\ Cardinality(LeakedSet') = Cardinality(LeakedSet) + xfer[r].num
<1> DEFINE n == xfer[r].num
           S == {r} \X (1..n)
           f == [i \in 1..n |-> <<r, i>>]
<1>1. n \in Nat /\ n <= DescMax /\ DescMax \in Nat
  BY DescMaxAssumption DEF IInv, TypeOK, TypeReq, Xfer
<1>2. /\ UNCHANGED xfer
      /\ \A q \in Requests : rv'[q] = IF q = r THEN "EBUSY" ELSE rv[q]
  BY DEF QueueRefused, IInv, TypeOK, TypeReq
<1>3. LeakedSet' = LeakedSet \cup S
  <2>1. S \subseteq Requests \X (1..DescMax)
    BY <1>1
  <2>2. \A p \in Requests \X (1..DescMax) : p \in S <=> p[1] = r /\ p[2] <= n
    BY <1>1
  <2>3. QED
    BY <1>2, <2>1, <2>2 DEF LeakedSet
<1>4. LeakedSet \cap S = {}
  BY DEF LeakedSet
<1> HIDE DEF n
<1>5. f \in Bijection(1..n, S)
  <2>1. f \in [1..n -> S]
    OBVIOUS
  <2>2. \A a, b \in 1..n : f[a] = f[b] => a = b
    OBVIOUS
  <2>3. \A p \in S : \E a \in 1..n : f[a] = p
    OBVIOUS
  <2>4. QED
    BY <2>1, <2>2, <2>3 DEF Bijection, Injection, Surjection, IsInjective
<1>6. IsFiniteSet(1..n) /\ Cardinality(1..n) = n
  BY <1>1, FS_Interval
<1>7. IsFiniteSet(S) /\ Cardinality(S) = n
  BY <1>5, <1>6, FS_Bijection DEF ExistsBijection
<1>8. /\ IsFiniteSet(LeakedSet \cup S)
      /\ Cardinality(LeakedSet \cup S) =
            Cardinality(LeakedSet) + Cardinality(S) - Cardinality(LeakedSet \cap S)
  BY <1>7, FS_Union
<1>9. Cardinality(LeakedSet) \in Nat /\ Cardinality(LeakedSet \cap S) = 0
  BY <1>4, FS_EmptySet, FS_CardinalityType
<1>10. QED
  BY <1>1, <1>3, <1>7, <1>8, <1>9 DEF n

\* A step that leaks nothing new and adds as much to desc_used as to the
\* transfer in progress keeps the count exact.
LEMMA CountKept ==
    ASSUME UsedInv, LeakedSet' = LeakedSet, desc_used \in Int, InHand \in Int,
           InHand' \in Int, desc_used' - desc_used = InHand' - InHand,
           desc_used' \in Int
    PROVE  DescUsedExact' /\ IsFiniteSet(LeakedSet')
<1>1. Cardinality(LeakedSet) \in Nat
  BY FS_CardinalityType DEF UsedInv
<1>2. Leaked' = Leaked
  BY DEF Leaked
<1>3. desc_used = Leaked + InHand /\ Leaked \in Nat
  BY <1>1 DEF UsedInv, DescUsedExact, Leaked
<1>4. \A l \in Nat : \A a, b, h, i \in Int :
        (a = l + h /\ b - a = i - h) => b = l + i
  OBVIOUS
<1>5. desc_used' = Leaked + InHand'
  <2>1. \A b, i \in Int : b - desc_used = i - InHand => b = Leaked + i
    BY <1>3, <1>4
  <2>2. QED
    BY <2>1
<1>6. QED
  BY <1>2, <1>5 DEF UsedInv, DescUsedExact

\* The transfer in progress is the one of the request that holds desc_lock.
LEMMA InHandOf ==
    ASSUME IInv
    PROVE  /\ InHand \in Int
           /\ \A r \in Requests : pc[r] \in Locked =>
                InHand = IF pc[r] = "init" THEN 0 ELSE xfer[r].num
           /\ desc_lock = NoReq => InHand = 0
<1>1. \A r \in Requests : xfer[r].num \in Nat
  BY DescMaxAssumption DEF IInv, TypeOK, TypeReq, Xfer
<1>2. desc_lock = NoReq \/ desc_lock \in Requests
  BY DEF IInv, TypeOK, TypeRing
<1>3. \A r \in Requests : pc[r] \in Locked => desc_lock = r
  BY DEF IInv, LockInv
<1>4. QED
  BY <1>1, <1>2, <1>3, NoReqAssumption DEF InHand

\* On every path of a call through xdma_xfer_submit() desc_used stays exact.
LEMMA CallCounts ==
    ASSUME IInv, IInv', UsedInv, NEW r \in Requests,
           Call(r) \/ Proceed(r) \/ Timeout(r)
    PROVE  DescUsedExact' /\ IsFiniteSet(LeakedSet')
<1>1. /\ desc_used \in Int /\ desc_used' \in Int /\ InHand \in Int /\ InHand' \in Int
      /\ \A q \in Requests : xfer[q].num \in Nat /\ xfer'[q].num \in Nat
  <2>1. \A q \in Requests : xfer[q].num \in Nat /\ xfer'[q].num \in Nat
    BY DescMaxAssumption DEF IInv, TypeOK, TypeReq, Xfer
  <2>2. InHand' \in Int
    BY <2>1 DEF InHand, IInv, TypeOK, TypeRing
  <2>3. QED
    BY <2>1, <2>2, InHandOf DEF IInv, TypeOK, TypeRing
<1>2. pc[r] \in Locked => rv[r] # "EBUSY"
  BY DEF UsedInv
<1> DEFINE Kept == /\ LeakedSet' = LeakedSet
                   /\ desc_used' - desc_used = InHand' - InHand
<1>3. SUFFICES Kept \/ (DescUsedExact' /\ IsFiniteSet(LeakedSet'))
  BY <1>1, CountKept
<1>4. ASSUME UNCHANGED <<rv, xfer, desc_lock, desc_used>>,
             \A q \in Requests : desc_lock = q =>
                (pc[q] \in Locked \ {"init"} <=> pc'[q] \in Locked \ {"init"})
      PROVE  Kept
  <2>1. InHand' = InHand
    BY <1>4, NoReqAssumption DEF InHand, IInv, TypeOK, TypeRing
  <2>2. QED
    BY <1>1, <1>4, <2>1, SameLeaked
<1>5. CASE Call(r)
  <2>1. pc[r] = "idle" /\ xfer[r].num = 0 /\ desc_lock # r
    BY <1>5 DEF Call, Submit, SubmitRefused, UsedInv, IInv, LockInv, Locked
  <2>2. \A q \in Requests : q # r => pc'[q] = pc[q]
    BY <1>5 DEF Call, Submit, SubmitRefused, Goto, IInv, TypeOK, TypeReq
  <2>3. UNCHANGED <<xfer, desc_lock, desc_used>>
    BY <1>5 DEF Call, Submit, SubmitRefused, ringVars
  <2>4. InHand' = InHand
    BY <2>1, <2>2, <2>3 DEF InHand, IInv, TypeOK, TypeRing
  <2>5. \A q \in Requests : q # r => rv'[q] = rv[q]
    BY <1>5 DEF Call, Submit, SubmitRefused, IInv, TypeOK, TypeReq
  <2>6. LeakedSet' = LeakedSet
    BY <2>1, <2>3, <2>5 DEF LeakedSet
  <2>7. QED
    BY <1>1, <2>3, <2>4, <2>6
<1>6. CASE LockDesc(r)
  <2>1. UNCHANGED <<rv, xfer, desc_used>> /\ desc_lock = NoReq /\ pc'[r] = "init"
    BY <1>6 DEF LockDesc, Goto, IInv, TypeOK, TypeReq
  <2>2. InHand = 0 /\ InHand' = 0
    <3>1. InHand = 0
      BY <2>1, InHandOf
    <3>2. desc_lock' = r
      BY <1>6 DEF LockDesc
    <3>3. QED
      BY <2>1, <3>1, <3>2 DEF InHand
  <2>3. QED
    BY <1>1, <2>1, <2>2, SameLeaked
<1>7. CASE TransferInit(r)
  <2>1. /\ pc[r] = "init" /\ desc_lock = r /\ desc_lock' = r /\ rv' = rv
        /\ pc'[r] = "check" /\ desc_used' = desc_used + xfer'[r].num
        /\ \A q \in Requests : q # r => xfer'[q] = xfer[q]
    BY <1>7, HolderFindsIdle DEF TransferInit, Goto, IInv, TypeOK, TypeReq
  <2>2. InHand = 0 /\ InHand' = xfer'[r].num
    BY <2>1, NoReqAssumption DEF InHand, Locked
  <2>3. LeakedSet' = LeakedSet
    BY <1>2, <2>1, SameLeaked DEF Locked
  <2>4. QED
    BY <1>1, <2>1, <2>2, <2>3
<1>8. ASSUME pc[r] \in {"check", "queue"}, QueueRefused(r)
      PROVE  DescUsedExact' /\ IsFiniteSet(LeakedSet')
  <2>1. /\ IsFiniteSet(LeakedSet')
        /\ Cardinality(LeakedSet') = Cardinality(LeakedSet) + xfer[r].num
    BY <1>2, <1>8, RefusedLeaks DEF UsedInv, Locked
  <2>2. InHand = xfer[r].num /\ desc_used' = desc_used
    BY <1>8, InHandOf DEF QueueRefused, Locked
  <2>3. InHand' = 0
    BY <1>8 DEF QueueRefused, InHand
  <2>4. desc_used = Cardinality(LeakedSet) + InHand
        /\ Cardinality(LeakedSet) \in Nat
    BY FS_CardinalityType DEF UsedInv, DescUsedExact, Leaked
  <2>5. desc_used' = Cardinality(LeakedSet') + InHand'
    BY <1>1, <2>1, <2>2, <2>3, <2>4
  <2>6. QED
    BY <2>1, <2>5 DEF DescUsedExact, Leaked
<1>9. CASE TransferQueueCheck(r)
  <2>1. CASE offline
    BY <1>3, <1>8, <1>9, <2>1 DEF TransferQueueCheck
  <2>2. CASE ~offline
    BY <1>4, <1>9, <2>2
    DEF TransferQueueCheck, Goto, Locked, IInv, TypeOK, TypeReq, ringVars
  <2>3. QED
    BY <2>1, <2>2
<1>10. CASE TransferQueue(r)
  <2>1. CASE "REQUEST" \in shutdown
    BY <1>3, <1>8, <1>10, <2>1 DEF TransferQueue
  <2>2. CASE "REQUEST" \notin shutdown
    <3>1. /\ \A q \in Requests : xfer'[q].num = xfer[q].num
          /\ rv' = rv /\ desc_used' = desc_used
          /\ pc[r] = "queue" /\ pc'[r] = "wait"
      <4>1. /\ xfer' = [xfer EXCEPT ![r].state = "SUBMITTED"]
            /\ rv' = rv /\ desc_used' = desc_used
            /\ pc[r] = "queue" /\ pc'[r] = "wait"
        BY <1>10, <2>2 DEF TransferQueue, Goto, IInv, TypeOK, TypeReq, ringVars
      <4>2. QED
        BY <4>1 DEF IInv, TypeOK, TypeReq, Xfer
    <3>2. InHand = xfer[r].num /\ InHand' = xfer'[r].num
      <4>1. desc_lock = r /\ desc_lock' = r
        BY <1>10, <2>2, <3>1, HolderFindsIdle DEF TransferQueue, ringVars
      <4>2. QED
        BY <3>1, <4>1, NoReqAssumption DEF InHand, Locked
    <3>3. QED
      BY <1>1, <3>1, <3>2, SameLeaked
  <2>3. QED
    BY <2>1, <2>2
<1>11. CASE Woken(r) \/ Timeout(r) \/ UnmapReturn(r)
  BY <1>4, <1>11 DEF Woken, Timeout, UnmapReturn, Goto, Locked, IInv, LockInv,
     TypeOK, TypeReq, ringVars
<1>12. CASE Settle(r)
  <2>1. /\ \A q \in Requests : xfer'[q].num = xfer[q].num
        /\ \A q \in Requests : q # r => rv'[q] = rv[q]
        /\ rv'[r] # "EBUSY"
        /\ desc_used' = desc_used /\ desc_lock' = desc_lock
        /\ pc[r] = "settle" /\ pc'[r] = "destroy"
    <3>1. /\ rv' \in {rv, [rv EXCEPT ![r] = "EIO"], [rv EXCEPT ![r] = "ERESTARTSYS"]}
          /\ xfer' = xfer \/ xfer' = [xfer EXCEPT ![r].state = AbortedState(r)]
      BY <1>12 DEF Settle
    <3>2. /\ desc_used' = desc_used /\ desc_lock' = desc_lock
          /\ pc[r] = "settle" /\ pc'[r] = "destroy"
      BY <1>12 DEF Settle, Goto, ringVars, IInv, TypeOK, TypeReq
    <3>3. rv[r] # "EBUSY"
      BY <1>2, <3>2 DEF Locked
    <3>4. rv \in [Requests -> Errors] /\ xfer \in [Requests -> Xfer]
      BY DEF IInv, TypeOK, TypeReq
    <3>5. \A q \in Requests : xfer'[q].num = xfer[q].num
      BY <3>1, <3>4 DEF Xfer
    <3>6. (\A q \in Requests : q # r => rv'[q] = rv[q]) /\ rv'[r] # "EBUSY"
      BY <3>1, <3>3, <3>4
    <3>7. QED
      BY <3>2, <3>5, <3>6
  <2>2. desc_lock = r
    BY <2>1 DEF IInv, LockInv, Locked
  <2>3. InHand = xfer[r].num /\ InHand' = xfer'[r].num
    BY <2>1, <2>2, NoReqAssumption DEF InHand, Locked
  <2>4. LeakedSet' = LeakedSet
    BY <1>2, <2>1, SameLeaked DEF Locked
  <2>5. QED
    BY <1>1, <2>1, <2>3, <2>4
<1>13. CASE Destroy(r)
  <2>1. /\ UNCHANGED <<rv, xfer>> /\ desc_used' = desc_used - xfer[r].num
        /\ pc[r] = "destroy"
        /\ \/ desc_lock' = NoReq
           \/ desc_lock' = r /\ pc'[r] = "init"
    BY <1>13 DEF Destroy, DescUsedAfter, Goto, IInv, TypeOK, TypeReq
  <2>2. InHand = xfer[r].num
    BY <2>1, InHandOf DEF Locked
  <2>3. InHand' = 0
    BY <2>1 DEF InHand
  <2>4. QED
    BY <1>1, <2>1, <2>2, <2>3, SameLeaked
<1>14. QED
  BY <1>3, <1>5, <1>6, <1>7, <1>9, <1>10, <1>11, <1>12, <1>13 DEF Proceed

\* desc_used stays exact, whoever takes a step.
LEMMA UsedStep ==
    ASSUME IInv, IInv', UsedInv, [Next]_vars
    PROVE  UsedInv'
<1>1. ASSUME NEW q \in Requests, pc'[q] \in Locked PROVE rv'[q] # "EBUSY"
  <2>1. CASE pc'[q] # "destroy"
    BY <1>1, <2>1 DEF IInv, ProgressInv
  <2>2. CASE pc'[q] = "destroy"
    <3>1. CASE UNCHANGED <<pc, rv>>
      BY <2>2, <3>1 DEF UsedInv, Locked
    <3>2. ASSUME NEW r \in Requests, Call(r) \/ Proceed(r) \/ Timeout(r)
          PROVE  rv'[q] # "EBUSY"
      <4>1. CASE q = r
        <5>1. pc[r] = "settle" => rv[r] = "none"
          BY DEF IInv, ProgressInv, Locked
        <5>2. QED
          BY <2>2, <3>2, <4>1, <5>1 DEF Call, Submit, SubmitRefused, Proceed,
             LockDesc, TransferInit, TransferQueueCheck, TransferQueue,
             QueueRefused, Woken, Timeout, Settle, Destroy, UnmapReturn, Goto,
             IInv, TypeOK, TypeReq
      <4>2. CASE q # r
        <5>1. pc'[q] = pc[q] /\ rv'[q] = rv[q]
          BY <3>2, <4>2 DEF Call, Submit, SubmitRefused, Proceed,
             LockDesc, TransferInit, TransferQueueCheck, TransferQueue,
             QueueRefused, Woken, Timeout, Settle, Destroy, UnmapReturn, Goto,
             IInv, TypeOK, TypeReq
        <5>2. QED
          BY <2>2, <5>1 DEF UsedInv, Locked
      <4>3. QED
        BY <4>1, <4>2
    <3>3. CASE Isr \/ Service \/ PciCore \/ Hardware \/ UNCHANGED vars
      BY <3>1, <3>3, OthersLeaveCalls, HardwareLeavesCalls DEF vars, reqVars
    <3>4. QED
      BY <3>2, <3>3 DEF Next, Finished
  <2>3. QED
    BY <2>1, <2>2
<1>2. ASSUME NEW q \in Requests, pc'[q] = "idle" PROVE xfer'[q].num = 0
  <2>1. CASE UNCHANGED <<pc, xfer>>
    BY <1>2, <2>1 DEF UsedInv
  <2>2. ASSUME NEW r \in Requests, Call(r) PROVE xfer'[q].num = 0
    BY <1>2, <2>2 DEF Call, Submit, SubmitRefused, Goto, UsedInv, IInv, TypeOK,
       TypeReq
  <2>3. ASSUME NEW r \in Requests, Proceed(r) \/ Timeout(r)
        PROVE  xfer'[q].num = 0
    <3>1. q # r /\ pc[q] = "idle"
      BY <1>2, <2>3, CallMovesOn DEF IInv, TypeOK, TypeReq
    <3>2. xfer'[q] = xfer[q]
      BY <2>3, <3>1 DEF Proceed, LockDesc, TransferInit, TransferQueueCheck,
         TransferQueue, QueueRefused, Woken, Timeout, Settle, Destroy,
         UnmapReturn, IInv, TypeOK, TypeReq
    <3>3. QED
      BY <3>1, <3>2 DEF UsedInv
  <2>4. CASE Isr \/ Service \/ PciCore
    BY <1>2, <2>4, OthersLeaveCalls, ServiceSettlesListed DEF UsedInv
  <2>5. CASE Hardware \/ UNCHANGED vars
    BY <2>1, <2>5, HardwareLeavesCalls DEF vars, reqVars
  <2>6. QED
    BY <2>2, <2>3, <2>4, <2>5 DEF Next, Finished
<1>3. DescUsedExact' /\ IsFiniteSet(LeakedSet')
  <2>1. ASSUME UNCHANGED <<pc, rv, desc_lock, desc_used>>,
               \A q \in Requests : xfer'[q].num = xfer[q].num
        PROVE  DescUsedExact' /\ IsFiniteSet(LeakedSet')
    <3>1. InHand' = InHand
      BY <2>1 DEF InHand, IInv, TypeOK, TypeRing
    <3>2. LeakedSet' = LeakedSet
      BY <2>1, SameLeaked
    <3>3. QED
      BY <2>1, <3>1, <3>2 DEF UsedInv, DescUsedExact, Leaked
  <2>2. ASSUME NEW r \in Requests, Call(r) \/ Proceed(r) \/ Timeout(r)
        PROVE  DescUsedExact' /\ IsFiniteSet(LeakedSet')
    BY <2>2, CallCounts
  <2>3. CASE Isr \/ Service \/ PciCore
    BY <2>1, <2>3, OthersLeaveCalls, ServiceSettlesListed DEF ringVars
  <2>4. CASE Hardware \/ UNCHANGED vars
    BY <2>1, <2>4, HardwareLeavesCalls DEF vars, reqVars, ringVars
  <2>5. QED
    BY <2>2, <2>3, <2>4 DEF Next, Finished
<1>4. QED
  BY <1>1, <1>2, <1>3 DEF UsedInv
-----------------------------------------------------------------------------
(* The invariant and what follows from it                                  *)

\* The second half of the invariant holds before the first call.
LEMMA InitServiceInv == Init => ServiceInv
<1> SUFFICES ASSUME Init PROVE ServiceInv
  OBVIOUS
<1>1. FlyInv
  BY DEF Init, FlyInv
<1>2. QuietInv
  BY DEF Init, QuietInv, Quiet, Busy
<1>3. MappedInv
  BY DEF Init, MappedInv, Locked
<1>4. LeakedSet = {}
  BY DEF Init, LeakedSet
<1>5. DescUsedExact /\ IsFiniteSet(LeakedSet)
  BY <1>4, FS_EmptySet DEF Init, DescUsedExact, Leaked, InHand
<1>6. UsedInv
  BY <1>5 DEF Init, UsedInv, Locked
<1>7. QED
  BY <1>1, <1>2, <1>3, <1>6 DEF ServiceInv

\* The second half of the inductive invariant holds in every reachable state.
THEOREM ServiceInvariance == Spec => [](IInv /\ ServiceInv)
<1>1. IInv /\ IInv' /\ ServiceInv /\ [Next]_vars => ServiceInv'
  BY FlyStep, QuietStep, MappedStep, UsedStep DEF ServiceInv
<1>2. QED
  BY <1>1, InitServiceInv, Invariance, PTL DEF Spec

\* As long as no wait has been cut short, the hardware moves data only to or
\* from pages that are still mapped: errors, resets and late interrupts do not
\* let a descriptor outlive its request.
THEOREM MovesMappedMemory == Spec => []InFlightMapped
<1>1. IInv /\ ServiceInv => InFlightMapped
  <2> SUFFICES ASSUME IInv, ServiceInv, hw_fly # NoDesc, ~Cut
               PROVE  mapped[hw_fly.req]
    BY DEF InFlightMapped, Cut
  <2>1. hw_fly.req \in Requests /\ transfer_list = <<hw_fly.req>>
    BY DEF ServiceInv, QuietInv, Quiet, IInv, TypeOK, TypeHardware, Desc
  <2>2. pc[hw_fly.req] \in Locked
    BY <2>1, ListedChain
  <2>3. QED
    BY <2>1, <2>2 DEF ServiceInv, MappedInv
<1>2. QED
  BY <1>1, ServiceInvariance, PTL

\* engine->desc_used counts the descriptors of the transfer in progress and
\* those that refused transfers leaked, no others: no path through
\* xdma_xfer_submit() gives back twice or forgets any more.
THEOREM DescriptorsAreCounted == Spec => []DescUsedExact
<1>1. ServiceInv => DescUsedExact
  BY DEF ServiceInv, UsedInv
<1>2. QED
  BY <1>1, ServiceInvariance, PTL
-----------------------------------------------------------------------------
(* The engine implements DmaService                                        *)

\* The places as the abstract specification sees them.
LEMMA Phases ==
    /\ PhaseOf("idle") = "idle" /\ PhaseOf("mutex") = "waiting"
    /\ \A p \in Locked : PhaseOf(p) = "served"
    /\ PhaseOf("unmap") = "released" /\ PhaseOf("returned") = "answered"
    /\ \A p \in Places \ {"idle", "mutex"} : PhaseOf(p) \notin {"idle", "waiting"}
  BY DEF PhaseOf, Locked, Places

\* A call that moves on does so in the abstract specification too.
LEMMA Moves ==
    ASSUME IInv, NEW r \in Requests, NEW p, Goto(r, p)
    PROVE  Phase' = [Phase EXCEPT ![r] = PhaseOf(p)]
<1>1. \A q \in Requests : pc'[q] = IF q = r THEN p ELSE pc[q]
  BY DEF Goto, IInv, TypeOK, TypeReq
<1>2. QED
  BY <1>1 DEF Phase

\* A call that stays in its phase does not move there.
LEMMA Stays ==
    ASSUME IInv, NEW r \in Requests, NEW p \in Locked, Goto(r, p),
           pc[r] \in Locked
    PROVE  Phase' = Phase
<1>1. \A q \in Requests : pc'[q] = IF q = r THEN p ELSE pc[q]
  BY DEF Goto, IInv, TypeOK, TypeReq
<1>2. PhaseOf(p) = PhaseOf(pc[r])
  BY Phases
<1>3. QED
  BY <1>1, <1>2 DEF Phase

\* An error met is a failure in the abstract specification.
LEMMA Fails ==
    ASSUME IInv, NEW r \in Requests, NEW e \in Errors \ {"none"},
           rv' = [rv EXCEPT ![r] = e]
    PROVE  Failed' = [Failed EXCEPT ![r] = TRUE]
<1>1. \A q \in Requests : rv'[q] = IF q = r THEN e ELSE rv[q]
  BY DEF IInv, TypeOK, TypeReq
<1>2. \A q \in Requests : (rv'[q] # "none") = IF q = r THEN TRUE ELSE rv[q] # "none"
  BY <1>1
<1>3. QED
  BY <1>2 DEF Failed

\* What the caller is told: the count, and the error only beside a count of 0.
LEMMA Tells ==
    ASSUME IInv, NEW r \in Requests, NEW n \in Nat, NEW e \in Errors,
           ret' = [ret EXCEPT ![r] = ReturnValue(n, e)]
    PROVE  Told' = [Told EXCEPT ![r] =
                        [count |-> n, error |-> e # "none" /\ n = 0]]
<1>1. \A q \in Requests : ret'[q] = IF q = r THEN ReturnValue(n, e) ELSE ret[q]
  BY DEF IInv, TypeOK, TypeReq
<1>2. /\ ReturnValue(n, e).count = n
      /\ (ReturnValue(n, e).error # "none") = (e # "none" /\ n = 0)
  BY DEF ReturnValue
<1> DEFINE T(q) == [count |-> ret[q].count, error |-> ret[q].error # "none"]
<1>3. \A q \in Requests :
        [count |-> ret'[q].count, error |-> ret'[q].error # "none"] =
            IF q = r THEN [count |-> n, error |-> e # "none" /\ n = 0] ELSE T(q)
  BY <1>1, <1>2
<1>4. QED
  BY <1>3 DEF Told

\* Entry, lock and return map to Accept, Refuse, Grant and Answer.
LEMMA EntryRefines ==
    ASSUME IInv, NEW r \in Requests, Call(r) \/ LockDesc(r) \/ UnmapReturn(r)
    PROVE  Dma!Next
<1>1. ASSUME NEW n \in Sizes, Submit(r, n) PROVE Dma!Next
  <2>1. Phase' = [Phase EXCEPT ![r] = "waiting"] /\ Phase[r] = "idle"
    BY <1>1, Moves, Phases DEF Submit, Phase
  <2>2. /\ sw_desc_cnt' = [sw_desc_cnt EXCEPT ![r] = n]
        /\ UNCHANGED <<moved, done, rv, ret, desc_lock>>
    BY <1>1 DEF Submit, hwVars, ringVars
  <2>3. Dma!Accept(r, n)
    BY <2>1, <2>2 DEF Dma!Accept, Dma!Enter, Failed, Told
  <2>4. QED
    BY <2>3 DEF Dma!Next
<1>2. ASSUME NEW e \in Errors, SubmitRefused(r, e) PROVE Dma!Next
  <2>1. Phase' = [Phase EXCEPT ![r] = "answered"] /\ Phase[r] = "idle"
    BY <1>2, Moves, Phases DEF SubmitRefused, Phase
  <2>2. UNCHANGED <<sw_desc_cnt, moved, done, desc_lock>>
    BY <1>2 DEF SubmitRefused, hwVars, ringVars
  <2>3. Failed' = [Failed EXCEPT ![r] = TRUE]
    BY <1>2, Fails DEF SubmitRefused, Errors
  <2>4. Told' = [Told EXCEPT ![r] = [count |-> 0, error |-> TRUE]]
    <3>1. e # "none" /\ ret' = [ret EXCEPT ![r] = ReturnValue(0, e)]
      BY <1>2 DEF SubmitRefused
    <3>2. QED
      BY <3>1, Tells
  <2>5. Dma!Refuse(r)
    BY <2>1, <2>2, <2>3, <2>4 DEF Dma!Refuse, Dma!Enter
  <2>6. QED
    BY <2>5 DEF Dma!Next
<1>3. CASE LockDesc(r)
  <2>1. Phase' = [Phase EXCEPT ![r] = "served"] /\ Phase[r] = "waiting"
    BY <1>3, Moves, Phases DEF LockDesc, Phase, Locked
  <2>2. /\ desc_lock = NoReq /\ desc_lock' = r
        /\ UNCHANGED <<sw_desc_cnt, moved, done, rv, ret>>
    BY <1>3 DEF LockDesc, hwVars
  <2>3. Dma!Grant(r)
    BY <2>1, <2>2 DEF Dma!Grant, Dma!Enter, Failed, Told
  <2>4. QED
    BY <2>3 DEF Dma!Next
<1>4. CASE UnmapReturn(r)
  <2>1. Phase' = [Phase EXCEPT ![r] = "answered"] /\ Phase[r] = "released"
    BY <1>4, Moves, Phases DEF UnmapReturn, Phase
  <2>2. UNCHANGED <<sw_desc_cnt, moved, done, rv, desc_lock>>
    BY <1>4 DEF UnmapReturn, hwVars, ringVars
  <2>3. Told' = [Told EXCEPT ![r] =
                    [count |-> done[r], error |-> rv[r] # "none" /\ done[r] = 0]]
    BY <1>4, Tells DEF UnmapReturn, IInv, TypeOK, TypeReq
  <2>4. Failed[r] = (rv[r] # "none") /\ Failed' = Failed
    BY <2>2 DEF Failed
  <2>5. Dma!Answer(r)
    BY <2>1, <2>2, <2>3, <2>4 DEF Dma!Answer, Dma!Enter
  <2>6. QED
    BY <2>5 DEF Dma!Next
<1>5. QED
  BY <1>1, <1>2, <1>3, <1>4 DEF Call

\* A call whose transfer is refused gives its turn up with an error.
LEMMA RefusalRefines ==
    ASSUME IInv, NEW r \in Requests, pc[r] \in {"check", "queue"}, QueueRefused(r)
    PROVE  Dma!Next
<1>1. Phase' = [Phase EXCEPT ![r] = "released"] /\ Phase[r] = "served"
  BY Moves, Phases DEF QueueRefused, Phase, Locked
<1>2. /\ desc_lock = r /\ desc_lock' = NoReq
      /\ UNCHANGED <<sw_desc_cnt, moved, done, Told>>
  BY HolderFindsIdle DEF QueueRefused, hwVars, Told
<1>3. Failed' = [Failed EXCEPT ![r] = TRUE] /\ Failed'[r]
  <2>1. Failed' = [Failed EXCEPT ![r] = TRUE]
    BY Fails DEF QueueRefused, Errors
  <2>2. QED
    BY <2>1 DEF Failed
<1>4. Dma!Release(r, TRUE)
  BY <1>1, <1>2, <1>3 DEF Dma!Release, Dma!Enter
<1>5. QED
  BY <1>4 DEF Dma!Next

\* The switch on the transfer's state accounts what was moved, or an error.
LEMMA SettleRefines ==
    ASSUME IInv, NEW r \in Requests, Settle(r)
    PROVE  Dma!Next
<1>1. Phase' = Phase /\ Phase[r] = "served"
  BY Stays, Phases DEF Settle, Locked, Phase
<1>2. desc_lock = r /\ UNCHANGED <<sw_desc_cnt, moved, Told, desc_lock>>
  BY DEF Settle, IInv, LockInv, Locked, ringVars, Told
<1>3. /\ done[r] \in Nat /\ sw_desc_cnt[r] \in Nat /\ sw_desc_idx[r] \in Nat
      /\ xfer[r].num \in Nat
      /\ done[r] = sw_desc_idx[r] - xfer[r].num
      /\ sw_desc_idx[r] <= sw_desc_cnt[r]
      /\ \A k \in 0..(done[r] - 1) : k \in moved[r]
  BY DescMaxAssumption
  DEF Settle, IInv, TypeOK, TypeReq, Xfer, ProgressInv, Queued, DoneIsMoved
<1>4. CASE xfer[r].state = "COMPLETED"
  <2>1. /\ done' = [done EXCEPT ![r] = @ + xfer[r].num]
        /\ UNCHANGED rv
    BY <1>4 DEF Settle
  <2> DEFINE n == done[r] + xfer[r].num
  <2>2. n \in 0..sw_desc_cnt[r] /\ n >= done[r]
    BY <1>3
  <2>3. \A k \in 0..(n - 1) : k \in moved[r]
    <3> SUFFICES ASSUME NEW k \in 0..(n - 1), k \notin 0..(done[r] - 1)
                 PROVE  k \in moved[r]
      BY <1>3
    <3>1. k \in (sw_desc_idx[r] - xfer[r].num)..(sw_desc_idx[r] - 1)
      BY <1>3
    <3>2. QED
      BY <1>4, <3>1 DEF IInv, CompletedIsMoved
  <2>4. Failed' = [Failed EXCEPT ![r] = @ \/ FALSE]
    BY <2>1 DEF Failed
  <2>5. Dma!Account(r, n, FALSE)
    BY <1>1, <1>2, <2>1, <2>2, <2>3, <2>4 DEF Dma!Account
  <2>6. QED
    BY <2>2, <2>5 DEF Dma!Next
<1>5. CASE xfer[r].state # "COMPLETED"
  <2>1. UNCHANGED done /\ \E e \in {"EIO", "ERESTARTSYS"} : rv' = [rv EXCEPT ![r] = e]
    BY <1>5 DEF Settle
  <2>2. Failed' = [Failed EXCEPT ![r] = TRUE]
    BY <2>1, Fails DEF Errors
  <2>3. done' = [done EXCEPT ![r] = done[r]]
    BY <2>1 DEF IInv, TypeOK, TypeReq
  <2>4. done[r] \in 0..sw_desc_cnt[r] /\ done[r] >= done[r]
    BY <1>3
  <2>5. Dma!Account(r, done[r], TRUE)
    BY <1>1, <1>2, <1>3, <2>2, <2>3, <2>4 DEF Dma!Account
  <2>6. QED
    BY <2>4, <2>5 DEF Dma!Next
<1>6. QED
  BY <1>4, <1>5

\* The end of a transfer releases the turn only when all is done or failed.
LEMMA DestroyRefines ==
    ASSUME IInv, NEW r \in Requests, Destroy(r)
    PROVE  Dma!Next \/ UNCHANGED Dma!vars
<1> DEFINE over == rv[r] # "none" \/ sw_desc_idx[r] = sw_desc_cnt[r]
<1>1. /\ pc[r] = "destroy" /\ desc_lock = r /\ Phase[r] = "served"
      /\ UNCHANGED <<sw_desc_cnt, done, rv, Told, moved>>
  BY Phases DEF Destroy, Phase, Locked, hwVars, IInv, LockInv, Told
<1>2. CASE over
  <2>1. Goto(r, "unmap") /\ desc_lock' = NoReq
    BY <1>2 DEF Destroy
  <2>2. Phase' = [Phase EXCEPT ![r] = "released"]
    BY <2>1, Moves, Phases
  <2>3. Failed' = [Failed EXCEPT ![r] = @ \/ FALSE] /\ Failed' = Failed
    BY <1>1 DEF Failed
  <2>4. done[r] = sw_desc_cnt[r] \/ Failed[r]
    BY <1>1, <1>2 DEF Failed, IInv, ProgressInv
  <2>5. Dma!Release(r, FALSE)
    BY <1>1, <2>1, <2>2, <2>3, <2>4 DEF Dma!Release, Dma!Enter
  <2>6. QED
    BY <2>5 DEF Dma!Next
<1>3. CASE ~over
  <2>1. Goto(r, "init") /\ desc_lock' = r
    BY <1>3 DEF Destroy
  <2>2. Phase' = Phase
    BY <1>1, <2>1, Stays DEF Locked
  <2>3. QED
    BY <1>1, <2>1, <2>2 DEF Dma!vars, Failed
<1>4. QED
  BY <1>2, <1>3

\* Building, queueing and waking up are not visible in the abstract
\* specification.
LEMMA InnerStepsStutter ==
    ASSUME IInv, NEW r \in Requests,
           \/ TransferInit(r)
           \/ TransferQueueCheck(r) /\ ~offline
           \/ TransferQueue(r) /\ "REQUEST" \notin shutdown
           \/ Woken(r)
           \/ Timeout(r)
    PROVE  UNCHANGED Dma!vars
<1>1. UNCHANGED <<sw_desc_cnt, moved, done, rv, ret, desc_lock>>
  BY DEF TransferInit, TransferQueueCheck, TransferQueue, Woken, Timeout,
     ringVars, hwVars
<1>2. pc[r] \in Locked /\ \E p \in Locked : Goto(r, p)
  BY DEF TransferInit, TransferQueueCheck, TransferQueue, Woken, Timeout, Locked
<1>3. Phase' = Phase
  BY <1>2, Stays
<1>4. QED
  BY <1>1, <1>3 DEF Dma!vars, Failed, Told

\* Only the completion of a descriptor is visible of the hardware.
LEMMA HardwareRefines ==
    ASSUME IInv, FlyInv, Hardware
    PROVE  Dma!Next \/ UNCHANGED Dma!vars
<1>1. UNCHANGED <<Phase, sw_desc_cnt, done, Failed, Told, desc_lock>>
  BY HardwareLeavesCalls DEF reqVars, ringVars, Phase, Failed, Told
<1>2. CASE HwFetch \/ HwError
  <2>1. UNCHANGED moved
    BY <1>2 DEF HwFetch, HwError
  <2>2. QED
    BY <1>1, <2>1 DEF Dma!vars
<1>3. CASE HwComplete
  <2> DEFINE r == hw_fly.req
             k == hw_fly.k
  <2>1. hw_fly # NoDesc /\ moved' = [moved EXCEPT ![r] = @ \cup {k}]
    BY <1>3 DEF HwComplete
  <2>2. /\ r \in Requests /\ k \in Nat
        /\ pc[r] \in Places \ {"idle", "mutex"} /\ k < sw_desc_cnt[r]
        /\ sw_desc_cnt[r] \in Nat
    BY <2>1 DEF FlyInv, IInv, TypeOK, TypeHardware, TypeReq, Desc
  <2>3. Phase[r] \notin {"idle", "waiting"}
    BY <2>2, Phases DEF Phase
  <2> HIDE DEF r, k
  <2>4. Dma!Move(r, k)
    BY <1>1, <2>1, <2>2, <2>3 DEF Dma!Move
  <2>5. k \in 0..sw_desc_cnt[r]
    BY <2>2
  <2>6. QED
    BY <2>2, <2>4, <2>5 DEF Dma!Next
<1>4. QED
  BY <1>2, <1>3 DEF Hardware

\* Every step of the engine is a step of DmaService or invisible there.
LEMMA StepRefines ==
    ASSUME IInv, FlyInv, [Next]_vars
    PROVE  [Dma!Next]_(Dma!vars)
<1>1. ASSUME NEW r \in Requests, Call(r) \/ Proceed(r) \/ Timeout(r)
      PROVE  Dma!Next \/ UNCHANGED Dma!vars
  <2>1. CASE Call(r) \/ LockDesc(r) \/ UnmapReturn(r)
    BY <2>1, EntryRefines
  <2>2. CASE TransferQueueCheck(r)
    <3>1. CASE offline
      BY <2>2, <3>1, RefusalRefines DEF TransferQueueCheck
    <3>2. CASE ~offline
      BY <2>2, <3>2, InnerStepsStutter
    <3>3. QED
      BY <3>1, <3>2
  <2>3. CASE TransferQueue(r)
    <3>1. CASE "REQUEST" \in shutdown
      BY <2>3, <3>1, RefusalRefines DEF TransferQueue
    <3>2. CASE "REQUEST" \notin shutdown
      BY <2>3, <3>2, InnerStepsStutter
    <3>3. QED
      BY <3>1, <3>2
  <2>4. CASE TransferInit(r) \/ Woken(r) \/ Timeout(r)
    BY <2>4, InnerStepsStutter
  <2>5. CASE Settle(r)
    BY <2>5, SettleRefines
  <2>6. CASE Destroy(r)
    BY <2>6, DestroyRefines
  <2>7. QED
    BY <1>1, <2>1, <2>2, <2>3, <2>4, <2>5, <2>6 DEF Proceed
<1>2. CASE Isr \/ Service \/ PciCore
  BY <1>2, OthersLeaveCalls DEF Dma!vars, Phase, Failed, Told, ringVars
<1>3. CASE Hardware
  BY <1>3, HardwareRefines
<1>4. CASE UNCHANGED vars
  BY <1>4 DEF vars, reqVars, ringVars, hwVars, Dma!vars, Phase, Failed,
     Told
<1>5. QED
  BY <1>1, <1>2, <1>3, <1>4 DEF Next, Finished

\* With rings, lists, late interrupts, timeouts and resets, xdma_xfer_submit()
\* and the interrupt service keep the promise of DmaService: one request at a
\* time; the count returned is that of a gapless beginning that was really
\* moved, short only if an error was met; and the error itself is returned only
\* to a call to which nothing was accounted.
THEOREM Refinement == Spec => ImplementsDma
<1>1. Init => Dma!Init
  <2> SUFFICES ASSUME Init PROVE Dma!Init
    OBVIOUS
  <2>1. Phase = [r \in Requests |-> "idle"]
    BY Phases DEF Init, Phase
  <2>2. Failed = [r \in Requests |-> FALSE]
    BY DEF Init, Failed
  <2>3. Told = [r \in Requests |-> [count |-> 0, error |-> FALSE]]
    BY DEF Init, Told
  <2>4. QED
    BY <2>1, <2>2, <2>3 DEF Init, Dma!Init
<1>2. IInv /\ ServiceInv /\ [Next]_vars => [Dma!Next]_(Dma!vars)
  BY StepRefines DEF ServiceInv
<1>3. QED
  BY <1>1, <1>2, ServiceInvariance, PTL DEF Spec, ImplementsDma, Dma!Spec
==============================================================================
