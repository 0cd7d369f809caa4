-------------------------- MODULE XdmaAsyncProofs --------------------------
(***************************************************************************)
(* Proofs about XdmaAsync for any number of operations and segments, every *)
(* ring size and every fault: an operation completes once, after all of    *)
(* its segments; the engine's list names freed memory in two cases only;   *)
(* and unless a descriptor in use is overwritten, what is reported as      *)
(* moved was moved.                                                        *)
(***************************************************************************)
EXTENDS XdmaAsync, FiniteSetTheorems, SequenceTheorems, TLAPS

(* What the invariant is about; the interrupt's first half, the PCI core   *)
(* and the hardware leave it alone.                                        *)
aioVars == <<callVars, caio, cmpl_cnt, completions, reqVars, tfer, desc_idx,
             transfer_list>>

(* A segment is a pair of an iocb and a place in its iovec.                *)
LEMMA SegFacts ==
    /\ \A a \in Iocbs : Len(Iov[a]) \in Nat
    /\ \A s \in Segs : /\ s[1] \in Iocbs
                       /\ s[2] \in 1..Len(Iov[s[1]])
                       /\ s = <<s[1], s[2]>>
    /\ \A a \in Iocbs : \A i \in 1..Len(Iov[a]) :
         /\ <<a, i>> \in Segs
         /\ Iov[a][i] \in Nat \ {0}
<1>1. \A a \in Iocbs : Iov[a] \in Seq(Nat \ {0})
    BY IovAssumption
<1>2. ASSUME NEW s \in Segs
      PROVE  /\ s[1] \in Iocbs
             /\ s[2] \in 1..Len(Iov[s[1]])
             /\ s = <<s[1], s[2]>>
    <2>1. PICK a \in Iocbs : s \in {a} \X (1..Len(Iov[a]))
        BY DEF Segs
    <2> QED
        BY <2>1
<1>3. ASSUME NEW a \in Iocbs, NEW i \in 1..Len(Iov[a])
      PROVE  <<a, i>> \in Segs
    <2>1. <<a, i>> \in {a} \X (1..Len(Iov[a]))
        OBVIOUS
    <2> QED
        BY <2>1 DEF Segs
<1>4. ASSUME NEW a \in Iocbs, NEW i \in 1..Len(Iov[a])
      PROVE  Iov[a][i] \in Nat \ {0}
    BY <1>1
<1>5. \A a \in Iocbs : Len(Iov[a]) \in Nat
    BY <1>1
<1> QED
    BY <1>2, <1>3, <1>4, <1>5

(* The numbers of a list of length n.                                      *)
LEMMA UpTo ==
    ASSUME NEW n \in Nat
    PROVE  IsFiniteSet(1..n) /\ Cardinality(1..n) = n
<1>1. IsFiniteSet(1..n) /\ Cardinality(1..n) = IF 1 > n THEN 0 ELSE n - 1 + 1
    BY FS_Interval
<1> QED
    BY <1>1

(* All segments of an iocb: as many as its iovec has.                      *)
LEMMA SegsOf ==
    ASSUME NEW a \in Iocbs
    PROVE  /\ IsFiniteSet({s \in Segs : s[1] = a})
           /\ Cardinality({s \in Segs : s[1] = a}) = Len(Iov[a])
<1>1. {s \in Segs : s[1] = a} = {a} \X (1..Len(Iov[a]))
    <2>1. ASSUME NEW s \in Segs, s[1] = a
          PROVE  s \in {a} \X (1..Len(Iov[a]))
        BY <2>1, SegFacts
    <2>2. ASSUME NEW s \in {a} \X (1..Len(Iov[a]))
          PROVE  s \in Segs /\ s[1] = a
        <3>1. s[1] = a /\ s[2] \in 1..Len(Iov[a]) /\ s = <<a, s[2]>>
            BY <2>2
        <3> QED
            BY <3>1, SegFacts
    <2> QED
        BY <2>1, <2>2
<1>2. IsFiniteSet({a}) /\ Cardinality({a}) = 1
    BY FS_Singleton
<1>3. Len(Iov[a]) \in Nat
    BY SegFacts
<1>4. IsFiniteSet(1..Len(Iov[a])) /\ Cardinality(1..Len(Iov[a])) = Len(Iov[a])
    BY <1>3, UpTo
<1>5. /\ IsFiniteSet({a} \X (1..Len(Iov[a])))
      /\ Cardinality({a} \X (1..Len(Iov[a]))) = Cardinality({a}) * Cardinality(1..Len(Iov[a]))
    BY <1>2, <1>4, FS_Product
<1>6. Cardinality({a}) * Cardinality(1..Len(Iov[a])) = Len(Iov[a])
    <2>1. \A x, y \in Nat : x = 1 => x * y = y
        OBVIOUS
    <2> QED
        BY <1>2, <1>3, <1>4, <2>1
<1> QED
    BY <1>1, <1>5, <1>6

(* The segments of an iocb that have ended are finitely many.              *)
LEMMA DoneFinite ==
    ASSUME NEW a \in Iocbs, NEW S, S \subseteq {s \in Segs : s[1] = a}
    PROVE  /\ IsFiniteSet(S)
           /\ Cardinality(S) \in Nat
           /\ Cardinality(S) = Len(Iov[a]) => S = {s \in Segs : s[1] = a}
<1>1. /\ IsFiniteSet({s \in Segs : s[1] = a})
      /\ Cardinality({s \in Segs : s[1] = a}) = Len(Iov[a])
    BY SegsOf
<1> DEFINE T == {s \in Segs : s[1] = a}
<1> HIDE DEF T
<1>2. S \in SUBSET T
    BY DEF T
<1>3. IsFiniteSet(T) /\ Cardinality(T) = Len(Iov[a])
    BY <1>1 DEF T
<1>4. IsFiniteSet(S) /\ (Cardinality(T) = Cardinality(S) => T = S)
    BY <1>2, <1>3, FS_Subset
<1>5. Cardinality(S) \in Nat
    BY <1>4, FS_CardinalityType
<1> QED
    BY <1>3, <1>4, <1>5 DEF T

(* Where a call is, if it is in the loop of xdma_xfer_submit_nowait().     *)
LEMMA CurIsSegment ==
    ASSUME TypeAio, CallInv, NEW a \in Iocbs,
           Building(a) \/ (pc[a] = "segment" /\ seg[a] <= req_cnt[a])
    PROVE  /\ Cur(a) \in Segs
           /\ Cur(a)[1] = a /\ Cur(a)[2] = seg[a]
           /\ seg[a] \in 1..Len(Iov[a])
<1>1. seg[a] \in 1..Len(Iov[a])
    <2>1. Len(Iov[a]) \in Nat
        BY SegFacts
    <2>2. seg[a] \in Nat /\ seg[a] >= 1
        BY DEF TypeAio, CallInv
    <2>3. seg[a] <= Len(Iov[a])
        BY DEF CallInv
    <2> QED
        BY <2>1, <2>2, <2>3
<1> QED
    BY <1>1, SegFacts DEF Cur

(* The list is one of segments and transfers of theirs.                    *)
LEMMA ListedSegs ==
    ASSUME TypeAio, NEW i \in 1..Len(transfer_list)
    PROVE  /\ transfer_list[i][1] \in Segs /\ transfer_list[i][2] \in Nat
           /\ transfer_list[i] = <<transfer_list[i][1], transfer_list[i][2]>>
<1>1. transfer_list[i] \in Segs \X Nat
    BY DEF TypeAio
<1> QED
    BY <1>1

(* A step that neither ends nor revives a segment keeps the counts.        *)
LEMMA CountKept ==
    ASSUME CountInv, cmpl_cnt' = cmpl_cnt,
           \A s \in Segs : (req'[s] = "done") <=> (req[s] = "done")
    PROVE  CountInv'
<1>1. \A a \in Iocbs : DoneSegs(a)' = DoneSegs(a)
    BY DEF DoneSegs
<1> QED
    BY <1>1 DEF CountInv

(* The first half of the interrupt service, the PCI core and the hardware. *)
LEMMA QuietKeeps ==
    ASSUME AioInv, UNCHANGED aioVars
    PROVE  AioInv'
<1> USE DEF AioInv, aioVars, callVars, reqVars
<1>1. TypeAio'
    BY DEF TypeAio
<1>2. CallInv' /\ BuildInv'
    BY DEF CallInv, BuildInv, Building, Ahead, Cur
<1>3. SegInv' /\ ListInv'
    BY DEF SegInv, ListInv
<1>4. CountInv'
    BY CountKept
<1>5. CompletesOnce' /\ DanglesOnlyIfCut'
    BY DEF CompletesOnce, DanglesOnlyIfCut, Listed
<1> QED
    BY <1>1, <1>2, <1>3, <1>4, <1>5

LEMMA InitEstablishes == Init => AioInv
<1> SUFFICES ASSUME Init PROVE AioInv
    OBVIOUS
<1> USE DEF Init
<1>1. TypeAio
    BY DescMaxAssumption DEF TypeAio, Xfer
<1>2. CallInv /\ BuildInv
    BY SegFacts DEF CallInv, BuildInv, Building, Ahead, Cur
<1>3. SegInv /\ ListInv
    BY DEF SegInv, ListInv
<1>4. CountInv
    <2>1. \A a \in Iocbs : DoneSegs(a) = {}
        BY DEF DoneSegs
    <2> QED
        BY <2>1, FS_EmptySet DEF CountInv
<1>5. CompletesOnce /\ DanglesOnlyIfCut
    BY DEF CompletesOnce, DanglesOnlyIfCut, Listed
<1> QED
    BY <1>1, <1>2, <1>3, <1>4, <1>5 DEF AioInv

(* An action of one call leaves the others where they are.                 *)
LEMMA OtherCalls ==
    ASSUME TypeAio, NEW a \in Iocbs, NEW b \in Iocbs, b # a,
           \E p : pc' = [pc EXCEPT ![a] = p],
           seg' = seg \/ \E n : seg' = [seg EXCEPT ![a] = n]
    PROVE  /\ pc'[b] = pc[b] /\ seg'[b] = seg[b]
           /\ Cur(b)' = Cur(b) /\ (Building(b)' <=> Building(b))
           /\ \A i : Ahead(b, i)' <=> Ahead(b, i)
<1>1. pc'[b] = pc[b] /\ seg'[b] = seg[b]
    BY DEF TypeAio
<1> QED
    BY <1>1 DEF Cur, Building, Ahead

(* The call begins: caio is allocated, nothing is submitted.               *)
LEMMA AioStartKeeps ==
    ASSUME AioInv, NEW a \in Iocbs, AioStart(a)
    PROVE  AioInv'
<1> USE DEF AioInv, callVars, reqVars
<1>1. /\ UNCHANGED <<ret, seg, cmpl_cnt, completions, req, sw_desc_cnt,
                     sw_desc_idx, tfer, desc_idx, transfer_list>>
      /\ pc[a] = "idle"
      /\ pc' = [pc EXCEPT ![a] = "segment"]
      /\ req_cnt' = [req_cnt EXCEPT ![a] = Len(Iov[a])]
      /\ caio' = [caio EXCEPT ![a] = "live"]
    BY DEF AioStart, Goto, ringVars, engVars
<1>2. TypeAio'
    BY <1>1, SegFacts DEF TypeAio
<1>3. /\ pc'[a] = "segment" /\ req_cnt'[a] = Len(Iov[a]) /\ caio'[a] = "live"
      /\ \A b \in Iocbs : b # a =>
            pc'[b] = pc[b] /\ req_cnt'[b] = req_cnt[b] /\ caio'[b] = caio[b]
    BY <1>1 DEF TypeAio
<1>4. CallInv'
    BY <1>1, <1>3 DEF CallInv, Building, Ahead, Cur
<1>5. BuildInv'
    BY <1>1, <1>3 DEF BuildInv, Cur
<1>6. SegInv' /\ ListInv'
    BY <1>1 DEF SegInv, ListInv
<1>7. CountInv'
    BY <1>1, CountKept
<1>8. CompletesOnce'
    BY <1>1, <1>3 DEF CallInv, CompletesOnce
<1>9. DanglesOnlyIfCut'
    BY <1>1, <1>3, SegFacts DEF DanglesOnlyIfCut, Listed
<1> QED
    BY <1>2, <1>4, <1>5, <1>6, <1>7, <1>8, <1>9

(* The call ends: at a misaligned segment, which frees caio, at one that   *)
(* cannot be mapped, or after the last.                                    *)
LEMMA ReturnKeeps ==
    ASSUME AioInv, NEW a \in Iocbs,
           AioMisaligned(a) \/ AioUnmapped(a) \/ AioQueued(a)
    PROVE  AioInv'
<1> USE DEF AioInv, callVars, reqVars
<1>1. /\ UNCHANGED <<seg, req_cnt, cmpl_cnt, completions, req, sw_desc_cnt,
                     sw_desc_idx, tfer, desc_idx, transfer_list>>
      /\ pc[a] = "segment"
      /\ pc' = [pc EXCEPT ![a] = "returned"]
      /\ \/ /\ caio' = [caio EXCEPT ![a] = "freed"]
            /\ ret' = [ret EXCEPT ![a] = "EINVAL"]
         \/ /\ caio' = caio
            /\ \/ ret' = [ret EXCEPT ![a] = "EFAULT"]
               \/ ret' = [ret EXCEPT ![a] = "EIOCBQUEUED"]
    BY DEF AioMisaligned, AioUnmapped, AioQueued, Return, Goto, caioVars,
           ringVars, engVars
<1>2. TypeAio'
    BY <1>1 DEF TypeAio
<1>3. /\ pc'[a] = "returned"
      /\ (caio'[a] = "freed" /\ ret'[a] = "EINVAL") \/ caio'[a] = caio[a]
      /\ \A b \in Iocbs : b # a =>
            pc'[b] = pc[b] /\ ret'[b] = ret[b] /\ caio'[b] = caio[b]
    BY <1>1 DEF TypeAio
<1>4. CallInv'
    BY <1>1, <1>3 DEF CallInv, Building, Ahead, Cur
<1>5. BuildInv'
    BY <1>1, <1>3 DEF BuildInv, Cur
<1>6. SegInv' /\ ListInv'
    BY <1>1 DEF SegInv, ListInv
<1>7. CountInv'
    BY <1>1, CountKept
<1>8. ret[a] = "none"
    BY <1>1 DEF CallInv
<1>9. CompletesOnce'
    BY <1>1, <1>3, <1>8 DEF CompletesOnce
<1>10. DanglesOnlyIfCut'
    BY <1>1, <1>3, <1>8, SegFacts DEF DanglesOnlyIfCut, Listed
<1> QED
    BY <1>2, <1>4, <1>5, <1>6, <1>7, <1>9, <1>10

(* A segment is accepted: nothing of it is listed or built yet.            *)
LEMMA NowaitStartKeeps ==
    ASSUME AioInv, NEW a \in Iocbs, NowaitStart(a)
    PROVE  AioInv'
<1> USE DEF AioInv, callVars, reqVars
<1> DEFINE s == Cur(a)
<1>1. /\ UNCHANGED <<ret, seg, req_cnt, caio, cmpl_cnt, completions,
                     sw_desc_idx, tfer, desc_idx, transfer_list>>
      /\ pc[a] = "segment" /\ seg[a] <= req_cnt[a]
      /\ pc' = [pc EXCEPT ![a] = "init"]
      /\ req' = [req EXCEPT ![s] = "live"]
      /\ sw_desc_cnt' = [sw_desc_cnt EXCEPT ![s] = Iov[a][seg[a]]]
    BY DEF NowaitStart, Goto, caioVars, ringVars, engVars
<1>2. /\ s \in Segs /\ s[1] = a /\ s[2] = seg[a] /\ s = <<a, seg[a]>>
      /\ seg[a] \in 1..Len(Iov[a])
    BY <1>1, CurIsSegment DEF Cur
<1>3. req[s] = "none" /\ Iov[a][seg[a]] \in Nat \ {0}
    BY <1>1, <1>2, SegFacts DEF CallInv, Ahead, Building, Cur
<1>4. TypeAio'
    BY <1>1, <1>2, <1>3 DEF TypeAio
<1>5. \A b \in Iocbs : Cur(b)' = Cur(b) /\ (Building(b) => Cur(b) # s)
    BY <1>1, <1>3 DEF CallInv, Cur
<1> HIDE DEF s
<1>6. /\ pc'[a] = "init" /\ req'[s] = "live" /\ sw_desc_cnt'[s] = Iov[a][seg[a]]
      /\ \A b \in Iocbs : b # a => pc'[b] = pc[b]
      /\ \A q \in Segs : q # s => req'[q] = req[q] /\ sw_desc_cnt'[q] = sw_desc_cnt[q]
    BY <1>1, <1>2 DEF TypeAio
<1>7. \A i \in 1..Len(transfer_list) : transfer_list[i][1] # s
    BY <1>3 DEF ListInv
<1>8. CallInv'
    <2>1. \A b \in Iocbs : \A i \in 1..Len(Iov[b]) :
            Ahead(b, i)' => Ahead(b, i) /\ <<b, i>> # s /\ <<b, i>> \in Segs
        BY <1>1, <1>2, <1>6, SegFacts DEF Ahead, Building
    <2>2. ASSUME NEW b \in Iocbs, Building(b)'
          PROVE  seg'[b] <= Len(Iov[b]) /\ req'[Cur(b)'] = "live"
        <3>1. CASE b = a
            <4>1. Cur(a)' = s
                BY <1>5 DEF s
            <4>2. seg'[a] <= Len(Iov[a])
                BY <1>1, <1>2
            <4> QED
                BY <1>6, <3>1, <4>1, <4>2
        <3>2. CASE b # a
            <4>1. Building(b)
                BY <1>6, <2>2, <3>2 DEF Building
            <4>2. Cur(b) \in Segs /\ seg[b] <= Len(Iov[b]) /\ req[Cur(b)] = "live"
                BY <4>1, CurIsSegment DEF CallInv
            <4> QED
                BY <1>1, <1>5, <1>6, <4>1, <4>2
        <3> QED
            BY <3>1, <3>2
    <2> QED
        BY <1>1, <1>6, <2>1, <2>2 DEF CallInv
<1>9. BuildInv'
    <2>1. Len(tfer[s]) = 0 /\ sw_desc_idx[s] = 0
        BY <1>2, <1>3 DEF SegInv
    <2>2. ASSUME NEW b \in Iocbs, b # a, Building(b)
          PROVE  sw_desc_cnt'[Cur(b)] = sw_desc_cnt[Cur(b)]
        <3>1. Cur(b) \in Segs /\ Cur(b) # s
            BY <1>5, <2>2, CurIsSegment
        <3> QED
            BY <1>6, <3>1
    <2>3. BuildInv!(a)'
        BY <1>1, <1>3, <1>5, <1>6, <2>1 DEF s
    <2> QED
        BY <1>1, <1>5, <1>6, <2>2, <2>3 DEF BuildInv, Building
<1>10. SegInv' /\ ListInv'
    BY <1>1, <1>6, <1>7 DEF SegInv, ListInv
<1>11. CountInv'
    BY <1>3, <1>6, CountKept, <1>1
<1>12. CompletesOnce'
    BY <1>1, <1>2, <1>3, <1>6, SegFacts DEF CallInv, CompletesOnce
<1>13. DanglesOnlyIfCut'
    BY <1>1, <1>6, <1>7 DEF DanglesOnlyIfCut, Listed
<1> QED
    BY <1>4, <1>8, <1>9, <1>10, <1>11, <1>12, <1>13

(* A segment is refused, at once or when its next transfer is queued: at   *)
(* most its first of two transfers is listed.                              *)
LEMMA RefusedKeeps ==
    ASSUME AioInv, NEW a \in Iocbs, NowaitRefused(a) \/ TransferRefused(a)
    PROVE  AioInv'
<1> USE DEF AioInv, callVars, reqVars
<1> DEFINE s == Cur(a)
<1>1. /\ UNCHANGED <<ret, req_cnt, caio, cmpl_cnt, completions, sw_desc_cnt,
                     sw_desc_idx, tfer, desc_idx, transfer_list>>
      /\ (pc[a] = "segment" /\ seg[a] <= req_cnt[a]) \/ pc[a] = "queue"
      /\ pc' = [pc EXCEPT ![a] = "segment"]
      /\ seg' = [seg EXCEPT ![a] = @ + 1]
      /\ req' = [req EXCEPT ![s] = "refused"]
    BY DEF TypeAio, NowaitRefused, TransferRefused, Goto, caioVars, ringVars, engVars
<1>2. /\ s \in Segs /\ s[1] = a /\ s[2] = seg[a] /\ s = <<a, seg[a]>>
      /\ seg[a] \in 1..Len(Iov[a])
    BY <1>1, CurIsSegment DEF Cur, Building
<1>3. /\ pc[a] = "segment" => req[s] = "none"
      /\ pc[a] = "queue" => req[s] = "live"
    BY <1>1, <1>2, SegFacts DEF CallInv, Ahead, Building, Cur
<1>4. TypeAio'
    <2>1. seg' \in [Iocbs -> Nat]
        BY <1>1 DEF TypeAio
    <2> QED
        BY <1>1, <1>2, <2>1 DEF TypeAio
<1>5. \A b \in Iocbs : b # a =>
        /\ pc'[b] = pc[b] /\ seg'[b] = seg[b]
        /\ Cur(b)' = Cur(b) /\ Cur(b) # s /\ (Building(b)' <=> Building(b))
        /\ \A i : Ahead(b, i)' <=> Ahead(b, i)
    BY <1>1, OtherCalls DEF Cur
<1>6. \A i \in 1..Len(transfer_list) : transfer_list[i][1] = s =>
        Len(tfer[s]) = 2 /\ ~tfer[s][1].last
    <2> SUFFICES ASSUME NEW i \in 1..Len(transfer_list), transfer_list[i][1] = s
                 PROVE  Len(tfer[s]) = 2 /\ ~tfer[s][1].last
        OBVIOUS
    <2>1. pc[a] = "queue"
        BY <1>1, <1>3 DEF ListInv
    <2>2. /\ transfer_list[i][2] \in 1..Len(tfer[s])
          /\ transfer_list[i][2] < Len(tfer[s])
        BY <2>1 DEF ListInv, BuildInv
    <2>3. Len(tfer[s]) \in Nat /\ Len(tfer[s]) <= 2
        BY <1>2 DEF TypeAio, SegInv
    <2>4. Len(tfer[s]) = 2
        <3> DEFINE j == transfer_list[i][2]
                   l == Len(tfer[s])
        <3>1. j \in 1..l /\ j < l /\ l \in Nat /\ l <= 2
            BY <2>2, <2>3
        <3> HIDE DEF j, l
        <3>2. l = 2
            BY <3>1
        <3> QED
            BY <3>2 DEF l
    <2> QED
        BY <1>2, <2>4 DEF SegInv
<1> HIDE DEF s
<1>7. /\ pc'[a] = "segment" /\ seg'[a] = seg[a] + 1 /\ req'[s] = "refused"
      /\ \A q \in Segs : q # s => req'[q] = req[q]
    BY <1>1, <1>2 DEF TypeAio
<1>8. CallInv'
    <2>1. CallInv!(a)'
        <3>1. \A i \in 1..Len(Iov[a]) :
                Ahead(a, i)' => Ahead(a, i) /\ <<a, i>> # s /\ <<a, i>> \in Segs
            BY <1>2, <1>7, SegFacts DEF Ahead, Building
        <3> QED
            BY <1>1, <1>2, <1>7, <3>1 DEF CallInv, Building
    <2>2. ASSUME NEW b \in Iocbs, b # a
          PROVE  CallInv!(b)'
        <3>1. \A i \in 1..Len(Iov[b]) : <<b, i>> # s /\ <<b, i>> \in Segs
            BY <1>2, <2>2, SegFacts
        <3>2. Building(b) => Cur(b) \in Segs
            BY CurIsSegment
        <3> QED
            BY <1>1, <1>5, <1>7, <2>2, <3>1, <3>2 DEF CallInv
    <2> QED
        BY <2>1, <2>2 DEF CallInv
<1>9. BuildInv'
    BY <1>1, <1>5, <1>7 DEF BuildInv
<1>10. SegInv'
    BY <1>1, <1>2, <1>7 DEF SegInv
<1>11. ListInv'
    <2>1. \A i \in 1..Len(transfer_list) : transfer_list[i][1] \in Segs
        BY ListedSegs
    <2> QED
        BY <1>1, <1>7, <2>1 DEF ListInv
<1>12. CountInv'
    BY <1>1, <1>3, <1>7, CountKept
<1>13. CompletesOnce'
    <2>1. \A b \in Iocbs : \A i \in 1..Len(Iov[b]) : <<b, i>> \in Segs
        BY SegFacts
    <2>2. \A b \in Iocbs : completions[b] = 1 => pc[b] # "idle"
        BY DEF CallInv
    <2>3. completions[a] # 1
        BY <1>1, <1>2, <1>3, <2>2 DEF CallInv, CompletesOnce
    <2>4. \A b \in Iocbs : b # a => \A i \in 1..Len(Iov[b]) : req'[<<b, i>>] = req[<<b, i>>]
        BY <1>2, <1>7, <2>1
    <2> QED
        BY <1>1, <2>2, <2>3, <2>4 DEF CallInv, CompletesOnce
<1>14. DanglesOnlyIfCut'
    BY <1>1, <1>2, <1>6, <1>7 DEF DanglesOnlyIfCut, Listed
<1> QED
    BY <1>4, <1>8, <1>9, <1>10, <1>11, <1>12, <1>13, <1>14

(* transfer_init() takes at least one descriptor, at most what is left of  *)
(* the segment, and stays within the ring.                                 *)
LEMMA DescNumBounds ==
    ASSUME TypeAio, NEW s \in Segs, sw_desc_idx[s] < sw_desc_cnt[s]
    PROVE  /\ DescNum(s) \in 1..DescMax
           /\ desc_idx + DescNum(s) <= DescMax
           /\ sw_desc_idx[s] + DescNum(s) <= sw_desc_cnt[s]
<1>1. /\ sw_desc_idx[s] \in Nat /\ sw_desc_cnt[s] \in Nat
      /\ desc_idx \in 0..(DescMax - 1) /\ DescMax \in Nat \ {0}
    BY DescMaxAssumption DEF TypeAio
<1> QED
    BY <1>1 DEF DescNum

(* transfer_init(): the segment's next transfer, which is the last one if  *)
(* it takes the last descriptor.                                           *)
LEMMA TransferInitKeeps ==
    ASSUME AioInv, NEW a \in Iocbs, TransferInit(a), ~Overflown
    PROVE  AioInv'
<1> USE DEF AioInv, callVars, reqVars
<1> DEFINE s == Cur(a)
           n == DescNum(s)
           x == [state |-> "NEW", index |-> desc_idx, num |-> n,
                 last |-> (sw_desc_idx[s] + n = sw_desc_cnt[s])]
<1>1. /\ UNCHANGED <<ret, req_cnt, seg, caio, cmpl_cnt, completions, req,
                     sw_desc_cnt, transfer_list>>
      /\ pc[a] = "init"
      /\ pc' = [pc EXCEPT ![a] = "queue"]
      /\ tfer' = [tfer EXCEPT ![s] = Append(@, x)]
      /\ sw_desc_idx' = [sw_desc_idx EXCEPT ![s] = @ + n]
      /\ desc_idx' = (desc_idx + n) % DescMax
    BY DEF TransferInit, Goto, caioVars, engVars
<1>2. /\ s \in Segs /\ s[1] = a /\ s = <<a, seg[a]>> /\ seg[a] \in 1..Len(Iov[a])
      /\ req[s] = "live"
    BY <1>1, CurIsSegment DEF CallInv, Cur, Building
<1>3. /\ sw_desc_idx[s] < sw_desc_cnt[s]
      /\ \A j \in 1..Len(tfer[s]) : ~tfer[s][j].last
    BY <1>1 DEF BuildInv
<1>4. n \in 1..DescMax /\ desc_idx + n <= DescMax /\ sw_desc_idx[s] + n <= sw_desc_cnt[s]
    BY <1>2, <1>3, DescNumBounds
<1>5. Len(tfer[s]) \in Nat /\ Len(tfer[s]) <= 1 /\ tfer[s] \in Seq(Xfer)
    <2>1. Len(tfer[s]) # 2
        BY <1>1 DEF Overflown
    <2>2. tfer[s] \in Seq(Xfer) /\ Len(tfer[s]) <= 2
        BY <1>2 DEF TypeAio, SegInv
    <2>3. \A l \in Nat : l # 2 /\ l <= 2 => l <= 1
        OBVIOUS
    <2>4. Len(tfer[s]) \in Nat
        BY <2>2
    <2> QED
        BY <2>1, <2>2, <2>3, <2>4
<1>6. \A b \in Iocbs : b # a =>
        /\ pc'[b] = pc[b] /\ seg'[b] = seg[b]
        /\ Cur(b)' = Cur(b) /\ Cur(b) # s /\ (Building(b)' <=> Building(b))
        /\ \A i : Ahead(b, i)' <=> Ahead(b, i)
    BY <1>1, OtherCalls DEF Cur
<1>7. Cur(a)' = s
    BY <1>1 DEF Cur
<1>8. (sw_desc_idx[s] + n = sw_desc_cnt[s]) \in BOOLEAN
    OBVIOUS
<1> HIDE DEF s, n
<1>9. x \in Xfer /\ x.last = (sw_desc_idx[s] + n = sw_desc_cnt[s])
    <2>1. desc_idx \in 0..(DescMax - 1)
        BY DEF TypeAio
    <2> QED
        BY <1>4, <1>8, <2>1 DEF Xfer
<1> HIDE DEF x
<1>10. /\ pc'[a] = "queue" /\ sw_desc_idx'[s] = sw_desc_idx[s] + n
       /\ tfer'[s] = Append(tfer[s], x)
       /\ \A q \in Segs : q # s =>
            tfer'[q] = tfer[q] /\ sw_desc_idx'[q] = sw_desc_idx[q]
    BY <1>1, <1>2 DEF TypeAio
<1>11. /\ Len(tfer'[s]) = Len(tfer[s]) + 1
       /\ \A j \in 1..Len(tfer[s]) : tfer'[s][j] = tfer[s][j]
       /\ tfer'[s][Len(tfer[s]) + 1] = x
       /\ tfer'[s] \in Seq(Xfer)
    BY <1>5, <1>9, <1>10
<1>12. TypeAio'
    <2>1. tfer' \in [Segs -> Seq(Xfer)]
        BY <1>1, <1>2, <1>10, <1>11 DEF TypeAio
    <2>2. sw_desc_idx' \in [Segs -> Nat]
        <3>1. sw_desc_idx \in [Segs -> Nat]
            BY DEF TypeAio
        <3>2. sw_desc_idx[s] + n \in Nat
            BY <1>2, <1>4, <3>1
        <3> QED
            BY <1>1, <1>2, <3>1, <3>2
    <2>3. desc_idx' \in 0..(DescMax - 1)
        <3>1. desc_idx + n \in Nat /\ DescMax \in Nat \ {0}
            BY <1>4, DescMaxAssumption DEF TypeAio
        <3> QED
            BY <1>1, <3>1
    <2> QED
        BY <1>1, <2>1, <2>2, <2>3 DEF TypeAio
<1>13. CallInv'
    <2>1. CallInv!(a)'
        <3>1. Building(a) /\ Building(a)' /\ \A i : Ahead(a, i)' <=> Ahead(a, i)
            BY <1>1, <1>10 DEF Building, Ahead
        <3>2. /\ seg[a] >= 1 /\ seg[a] <= Len(Iov[a]) /\ ret[a] = "none"
              /\ req_cnt[a] = Len(Iov[a]) /\ caio[a] # "none"
              /\ \A i \in 1..Len(Iov[a]) : Ahead(a, i) => req[<<a, i>>] = "none"
            BY <1>1, <3>1 DEF CallInv
        <3> QED
            BY <1>1, <1>2, <1>7, <1>10, <3>1, <3>2
    <2>2. ASSUME NEW b \in Iocbs, b # a PROVE CallInv!(b)'
        BY <1>1, <1>6, <2>2 DEF CallInv
    <2> QED
        BY <2>1, <2>2 DEF CallInv
<1>14. BuildInv'
    <2>1. \A i \in 1..Len(transfer_list) : transfer_list[i][1] = s =>
            transfer_list[i][2] < Len(tfer[s]) + 1
        BY <1>5, ListedSegs DEF ListInv
    <2>2. sw_desc_idx'[s] <= sw_desc_cnt'[s] /\ Len(tfer'[s]) >= 1
        BY <1>1, <1>4, <1>5, <1>10, <1>11
    <2>3. tfer'[s][Len(tfer'[s])].last => sw_desc_idx'[s] = sw_desc_cnt'[s]
        BY <1>1, <1>9, <1>10, <1>11
    <2>4. BuildInv!(a)'
        BY <1>1, <1>7, <1>10, <1>11, <2>1, <2>2, <2>3
    <2>5. ASSUME NEW b \in Iocbs, b # a, Building(b)
          PROVE  tfer'[Cur(b)] = tfer[Cur(b)] /\ sw_desc_idx'[Cur(b)] = sw_desc_idx[Cur(b)]
        BY <1>6, <1>10, <2>5, CurIsSegment
    <2>6. ASSUME NEW b \in Iocbs, b # a PROVE BuildInv!(b)'
        BY <1>1, <1>6, <2>5, <2>6 DEF BuildInv, Building
    <2> QED
        BY <2>4, <2>6 DEF BuildInv
<1>15. SegInv'
    <2>1. /\ Len(tfer'[s]) <= 2 /\ req'[s] # "none"
          /\ \A j \in 1..Len(tfer'[s]) : tfer'[s][j].last => j = Len(tfer'[s])
        <3>1. Len(tfer'[s]) <= 2 /\ req'[s] # "none"
            BY <1>1, <1>2, <1>5, <1>11
        <3>2. ASSUME NEW j \in 1..Len(tfer'[s]), j # Len(tfer'[s])
              PROVE  ~tfer'[s][j].last
            <4>1. j \in 1..Len(tfer[s])
                BY <1>5, <1>11, <3>2
            <4> QED
                BY <1>3, <1>11, <4>1
        <3> QED
            BY <3>1, <3>2
    <2>2. ASSUME NEW q \in Segs, q # s
          PROVE  /\ Len(tfer'[q]) <= 2
                 /\ req'[q] = "none" => Len(tfer'[q]) = 0 /\ sw_desc_idx'[q] = 0
                 /\ \A j \in 1..Len(tfer'[q]) : tfer'[q][j].last => j = Len(tfer'[q])
        BY <1>1, <1>10, <2>2 DEF SegInv
    <2> QED
        BY <2>1, <2>2 DEF SegInv
<1>16. ListInv'
    <2>1. ASSUME NEW i \in 1..Len(transfer_list)
          PROVE  transfer_list[i][2] \in 1..Len(tfer'[transfer_list[i][1]])
        <3>1. /\ transfer_list[i][1] \in Segs /\ transfer_list[i][2] \in Nat
              /\ transfer_list[i][2] \in 1..Len(tfer[transfer_list[i][1]])
            BY ListedSegs DEF ListInv
        <3>2. CASE transfer_list[i][1] = s
            BY <1>5, <1>11, <3>1, <3>2
        <3> QED
            BY <1>10, <3>1, <3>2
    <2> QED
        BY <1>1, <2>1 DEF ListInv
<1>17. CountInv'
    BY <1>1, CountKept
<1>18. CompletesOnce'
    BY <1>1 DEF CompletesOnce
<1>19. DanglesOnlyIfCut'
    <2> SUFFICES ASSUME NEW q \in Segs, Listed(q)'
                 PROVE  DanglesOnlyIfCut!(q)!2'
        BY DEF DanglesOnlyIfCut
    <2>1. Listed(q)
        BY <1>1 DEF Listed
    <2>2. CASE q = s
        BY <1>1, <1>2, <2>1, <2>2 DEF DanglesOnlyIfCut
    <2>3. CASE q # s
        BY <1>1, <1>10, <2>1, <2>3 DEF DanglesOnlyIfCut
    <2> QED
        BY <2>2, <2>3
<1> QED
    BY <1>12, <1>13, <1>14, <1>15, <1>16, <1>17, <1>18, <1>19

(* transfer_queue(): the transfer just built goes to the end of the list;  *)
(* if it is the segment's last, the call goes on to the next segment.      *)
LEMMA TransferQueueKeeps ==
    ASSUME AioInv, NEW a \in Iocbs, TransferQueue(a)
    PROVE  AioInv'
<1> USE DEF AioInv, callVars, reqVars
<1> DEFINE s == Cur(a)
           l == Len(tfer[s])
           more == sw_desc_idx[s] < sw_desc_cnt[s]
<1>1. /\ UNCHANGED <<ret, req_cnt, caio, cmpl_cnt, completions, req,
                     sw_desc_cnt, sw_desc_idx, desc_idx>>
      /\ pc[a] = "queue"
      /\ pc' = [pc EXCEPT ![a] = IF more THEN "init" ELSE "segment"]
      /\ seg' = [seg EXCEPT ![a] = IF more THEN @ ELSE @ + 1]
      /\ tfer' = [tfer EXCEPT ![s][l].state = "SUBMITTED"]
      /\ transfer_list' = Append(transfer_list, <<s, l>>)
    BY DEF TransferQueue, Goto, caioVars, ringVars
<1>2. /\ s \in Segs /\ s[1] = a /\ s = <<a, seg[a]>> /\ seg[a] \in 1..Len(Iov[a])
      /\ req[s] = "live"
    BY <1>1, CurIsSegment DEF CallInv, Cur, Building
<1>3. /\ sw_desc_idx[s] <= sw_desc_cnt[s] /\ l >= 1
      /\ tfer[s][l].last => sw_desc_idx[s] = sw_desc_cnt[s]
      /\ \A i \in 1..Len(transfer_list) : transfer_list[i][1] = s => transfer_list[i][2] < l
    BY <1>1 DEF BuildInv
<1>4. tfer[s] \in Seq(Xfer) /\ l \in Nat /\ l \in 1..l
    <2>1. tfer[s] \in Seq(Xfer)
        BY <1>2 DEF TypeAio
    <2>2. l \in Nat
        BY <2>1
    <2> QED
        BY <1>3, <2>1, <2>2
<1>5. \A b \in Iocbs : b # a =>
        /\ pc'[b] = pc[b] /\ seg'[b] = seg[b]
        /\ Cur(b)' = Cur(b) /\ Cur(b) # s /\ (Building(b)' <=> Building(b))
        /\ \A i : Ahead(b, i)' <=> Ahead(b, i)
    BY <1>1, OtherCalls DEF Cur
<1>6. /\ pc'[a] = IF more THEN "init" ELSE "segment"
      /\ seg'[a] = IF more THEN seg[a] ELSE seg[a] + 1
    BY <1>1 DEF TypeAio
<1>7. more => Cur(a)' = s
    BY <1>6 DEF Cur
<1> HIDE DEF s, l, more
<1>8. /\ tfer'[s] = [tfer[s] EXCEPT ![l].state = "SUBMITTED"]
      /\ \A q \in Segs : q # s => tfer'[q] = tfer[q]
    BY <1>1, <1>2 DEF TypeAio
<1>9. /\ tfer'[s] \in Seq(Xfer) /\ Len(tfer'[s]) = l
      /\ \A j \in 1..l : tfer'[s][j].last = tfer[s][j].last
    <2>1. tfer[s][l] \in Xfer
        BY <1>4 DEF l
    <2>2. /\ [tfer[s][l] EXCEPT !.state = "SUBMITTED"] \in Xfer
          /\ [tfer[s][l] EXCEPT !.state = "SUBMITTED"].last = tfer[s][l].last
        BY <2>1 DEF Xfer
    <2> QED
        BY <1>4, <1>8, <2>2 DEF l
<1>10. \A q \in Segs : /\ Len(tfer'[q]) = Len(tfer[q])
                       /\ \A j \in 1..Len(tfer[q]) : tfer'[q][j].last = tfer[q][j].last
    BY <1>8, <1>9 DEF l
<1>11. /\ Len(transfer_list') = Len(transfer_list) + 1 /\ Len(transfer_list) \in Nat
       /\ \A i \in 1..Len(transfer_list) : transfer_list'[i] = transfer_list[i]
       /\ transfer_list'[Len(transfer_list) + 1] = <<s, l>>
       /\ transfer_list' \in Seq(Segs \X Nat)
    <2>1. transfer_list \in Seq(Segs \X Nat) /\ <<s, l>> \in Segs \X Nat
        BY <1>2, <1>4 DEF TypeAio
    <2> QED
        BY <1>1, <2>1
<1>12. TypeAio'
    <2>1. tfer' \in [Segs -> Seq(Xfer)]
        BY <1>1, <1>2, <1>8, <1>9 DEF TypeAio
    <2>2. seg' \in [Iocbs -> Nat]
        BY <1>1 DEF TypeAio
    <2>3. pc' \in [Iocbs -> {"idle", "segment", "init", "queue", "returned"}]
        BY <1>1 DEF TypeAio
    <2> QED
        BY <1>1, <1>11, <2>1, <2>2, <2>3 DEF TypeAio
<1>13. CallInv'
    <2>1. CallInv!(a)'
        <3>1. \A i \in 1..Len(Iov[a]) : Ahead(a, i)' => Ahead(a, i)
            BY <1>1, <1>2, <1>6 DEF Ahead, Building
        <3>2. /\ pc'[a] \notin {"idle", "returned"} /\ seg'[a] >= 1
              /\ Building(a)' => seg'[a] <= Len(Iov[a]) /\ Cur(a)' = s
            BY <1>2, <1>6, <1>7 DEF Building
        <3>3. /\ req_cnt'[a] = Len(Iov[a]) /\ caio'[a] # "none" /\ ret'[a] = "none"
              /\ \A i \in 1..Len(Iov[a]) : Ahead(a, i)' => req'[<<a, i>>] = "none"
            BY <1>1, <3>1 DEF CallInv
        <3> QED
            BY <1>1, <1>2, <3>2, <3>3
    <2>2. ASSUME NEW b \in Iocbs, b # a PROVE CallInv!(b)'
        BY <1>1, <1>5, <2>2 DEF CallInv
    <2> QED
        BY <2>1, <2>2 DEF CallInv
<1>14. BuildInv'
    <2>1. ASSUME pc'[a] = "init"
          PROVE  BuildInv!(a)'
        <3>1. more /\ Cur(a)' = s
            BY <1>6, <1>7, <2>1
        <3>2. \A j \in 1..l : ~tfer[s][j].last
            <4>1. ~tfer[s][l].last
                BY <1>2, <1>3, <3>1 DEF more, TypeAio
            <4> QED
                BY <1>2, <4>1 DEF SegInv, l
        <3> QED
            BY <1>1, <1>9, <2>1, <3>1, <3>2 DEF more
    <2>2. BuildInv!(a)'
        BY <1>6, <2>1
    <2>3. ASSUME NEW b \in Iocbs, b # a PROVE BuildInv!(b)'
        <3>1. Building(b) => Cur(b) \in Segs
            BY CurIsSegment
        <3>2. \A i \in 1..Len(transfer_list') : transfer_list'[i][1] = Cur(b) =>
                i \in 1..Len(transfer_list)
            BY <1>5, <1>11, <2>3
        <3> QED
            BY <1>1, <1>5, <1>8, <1>11, <2>3, <3>1, <3>2 DEF BuildInv, Building
    <2> QED
        BY <2>2, <2>3 DEF BuildInv
<1>15. SegInv'
    BY <1>1, <1>10 DEF SegInv
<1>16. ListInv'
    <2>1. ASSUME NEW i \in 1..Len(transfer_list')
          PROVE  /\ transfer_list'[i][2] \in 1..Len(tfer'[transfer_list'[i][1]])
                 /\ req'[transfer_list'[i][1]] \in {"live", "refused"}
        <3>1. CASE i = Len(transfer_list) + 1
            BY <1>1, <1>2, <1>4, <1>9, <1>11, <3>1
        <3>2. CASE i \in 1..Len(transfer_list)
            BY <1>1, <1>10, <1>11, <3>2, ListedSegs DEF ListInv
        <3> QED
            BY <1>11, <3>1, <3>2
    <2>2. ASSUME NEW i \in 1..Len(transfer_list'), NEW k \in 1..Len(transfer_list'),
                 i < k, transfer_list'[i][1] = transfer_list'[k][1]
          PROVE  transfer_list'[i][2] < transfer_list'[k][2]
        <3>1. i \in 1..Len(transfer_list)
            BY <1>11, <2>2
        <3>2. CASE k = Len(transfer_list) + 1
            <4>1. transfer_list'[k] = <<s, l>> /\ transfer_list'[i] = transfer_list[i]
                BY <1>11, <3>1, <3>2
            <4>2. transfer_list[i][1] = s
                BY <2>2, <4>1
            <4> QED
                BY <1>3, <3>1, <4>1, <4>2
        <3>3. CASE k \in 1..Len(transfer_list)
            BY <1>11, <2>2, <3>1, <3>3 DEF ListInv
        <3> QED
            BY <1>11, <3>2, <3>3
    <2> QED
        BY <2>1, <2>2 DEF ListInv
<1>17. CountInv'
    BY <1>1, CountKept
<1>18. CompletesOnce'
    BY <1>1 DEF CompletesOnce
<1>19. DanglesOnlyIfCut'
    <2> SUFFICES ASSUME NEW q \in Segs, Listed(q)'
                 PROVE  DanglesOnlyIfCut!(q)!2'
        BY DEF DanglesOnlyIfCut
    <2>1. CASE q = s
        <3>1. pc[a] # "idle" /\ pc[a] # "returned" /\ req_cnt[a] = Len(Iov[a])
            BY <1>1 DEF CallInv
        <3>2. caio[a] # "none" /\ ret[a] # "EINVAL"
            BY <3>1 DEF CallInv
        <3>3. completions[a] # 1
            BY <1>2, <3>1 DEF CompletesOnce
        <3>4. caio[a] = "live"
            BY <3>2, <3>3 DEF CompletesOnce, TypeAio
        <3> QED
            BY <1>1, <1>2, <2>1, <3>4
    <2>2. CASE q # s
        <3>1. Listed(q)
            BY <1>11, <2>2 DEF Listed
        <3> QED
            BY <1>1, <1>8, <2>2, <3>1 DEF DanglesOnlyIfCut
    <2> QED
        BY <2>1, <2>2
<1> QED
    BY <1>12, <1>13, <1>14, <1>15, <1>16, <1>17, <1>18, <1>19

(* What is left of a sequence without its first n elements.                *)
LEMMA RestFacts ==
    ASSUME NEW S, NEW s \in Seq(S), NEW n \in 0..Len(s)
    PROVE  /\ SubSeq(s, n + 1, Len(s)) \in Seq(S)
           /\ Len(SubSeq(s, n + 1, Len(s))) = Len(s) - n
           /\ \A k \in 1..(Len(s) - n) : SubSeq(s, n + 1, Len(s))[k] = s[k + n]
<1>1. Len(s) \in Nat /\ \A k \in 1..Len(s) : s[k] \in S
    OBVIOUS
<1>2. /\ Len(SubSeq(s, n + 1, Len(s))) = Len(s) - n
      /\ \A k \in 1..(Len(s) - n) : SubSeq(s, n + 1, Len(s))[k] = s[k + n]
    BY <1>1
<1>3. SubSeq(s, n + 1, Len(s)) \in Seq(S)
    BY <1>1
<1> QED
    BY <1>2, <1>3

(* The service sets the outcome of listed transfers and nothing else of    *)
(* them.                                                                   *)
LEMMA SettledFacts ==
    ASSUME TypeAio, NEW p, NEW st \in {"COMPLETED", "FAILED"}
    PROVE  /\ Settled(p, st) \in [Segs -> Seq(Xfer)]
           /\ \A q \in Segs :
                /\ Len(Settled(p, st)[q]) = Len(tfer[q])
                /\ \A j \in 1..Len(tfer[q]) :
                     Settled(p, st)[q][j].last = tfer[q][j].last
<1> DEFINE one(q, j) == IF \E i \in 1..p : transfer_list[i] = <<q, j>>
                        THEN [tfer[q][j] EXCEPT !.state = "COMPLETED"]
                        ELSE IF p < Len(transfer_list) /\ transfer_list[p + 1] = <<q, j>>
                        THEN [tfer[q][j] EXCEPT !.state = st]
                        ELSE tfer[q][j]
<1>1. Settled(p, st) = [q \in Segs |-> [j \in 1..Len(tfer[q]) |-> one(q, j)]]
    BY DEF Settled
<1>2. ASSUME NEW q \in Segs, NEW j \in 1..Len(tfer[q])
      PROVE  one(q, j) \in Xfer /\ one(q, j).last = tfer[q][j].last
    <2>1. tfer[q][j] \in Xfer
        BY DEF TypeAio
    <2>2. \A t \in {"COMPLETED", "FAILED"} :
            /\ [tfer[q][j] EXCEPT !.state = t] \in Xfer
            /\ [tfer[q][j] EXCEPT !.state = t].last = tfer[q][j].last
        BY <2>1 DEF Xfer
    <2> QED
        BY <2>1, <2>2
<1> HIDE DEF one
<1>3. ASSUME NEW q \in Segs
      PROVE  /\ [j \in 1..Len(tfer[q]) |-> one(q, j)] \in Seq(Xfer)
             /\ Len([j \in 1..Len(tfer[q]) |-> one(q, j)]) = Len(tfer[q])
    <2>1. Len(tfer[q]) \in Nat
        BY DEF TypeAio
    <2> QED
        BY <1>2, <2>1
<1> QED
    BY <1>1, <1>2, <1>3

(* It passes over some of the listed transfers.                            *)
LEMMA PassedOverBounds ==
    ASSUME TypeAio, NEW count
    PROVE  PassedOver(count) \in 0..Len(transfer_list)
<1> DEFINE S == {j \in 1..Len(transfer_list) : count > DescsThrough(j)}
<1>1. Len(transfer_list) \in Nat
    BY DEF TypeAio
<1>2. /\ IsFiniteSet(1..Len(transfer_list))
      /\ Cardinality(1..Len(transfer_list)) = Len(transfer_list)
    BY <1>1, UpTo
<1>3. S \in SUBSET (1..Len(transfer_list))
    OBVIOUS
<1> HIDE DEF S
<1>4. IsFiniteSet(S) /\ Cardinality(S) <= Len(transfer_list)
    BY <1>2, <1>3, FS_Subset
<1>5. Cardinality(S) \in Nat
    BY <1>4, FS_CardinalityType
<1> QED
    BY <1>1, <1>4, <1>5 DEF PassedOver, S

(* engine_service() takes the first n transfers off the list and calls     *)
(* async_io_handler() for the segments that end with one of them.          *)
LEMMA ServiceShape ==
    ASSUME TypeAio, NEW count, ServiceTransfers(count)
    PROVE  \E n \in 0..Len(transfer_list) :
             /\ tfer' \in [Segs -> Seq(Xfer)]
             /\ \A q \in Segs :
                  /\ Len(tfer'[q]) = Len(tfer[q])
                  /\ \A j \in 1..Len(tfer[q]) : tfer'[q][j].last = tfer[q][j].last
             /\ AsyncIoHandler(Ended(n), tfer')
             /\ transfer_list' = SubSeq(transfer_list, n + 1, Len(transfer_list))
<1> DEFINE p == PassedOver(count)
           more == p < Len(transfer_list)
           n == IF more THEN p + 1 ELSE p
           st == IF more THEN FinalState(count - DescsThrough(p), Num(transfer_list[p + 1]))
                 ELSE "COMPLETED"
<1>1. /\ tfer' = Settled(p, st)
      /\ AsyncIoHandler(Ended(n), tfer')
      /\ transfer_list' = SubSeq(transfer_list, n + 1, Len(transfer_list))
    BY DEF ServiceTransfers
<1>2. st \in {"COMPLETED", "FAILED"}
    BY DEF FinalState
<1>3. p \in 0..Len(transfer_list)
    BY PassedOverBounds
<1> HIDE DEF p, st
<1>4. n \in 0..Len(transfer_list)
    <2>1. Len(transfer_list) \in Nat
        BY DEF TypeAio
    <2> QED
        BY <1>3, <2>1
<1> HIDE DEF n
<1>5. /\ tfer' \in [Segs -> Seq(Xfer)]
      /\ \A q \in Segs :
           /\ Len(tfer'[q]) = Len(tfer[q])
           /\ \A j \in 1..Len(tfer[q]) : tfer'[q][j].last = tfer[q][j].last
    BY <1>1, <1>2, SettledFacts
<1> QED
    BY <1>1, <1>4, <1>5

(* The segments that end are live ones, and with its last transfer a       *)
(* segment leaves the list.                                                *)
LEMMA EndedFacts ==
    ASSUME AioInv, ~Dangling, NEW n \in 0..Len(transfer_list), NEW q \in Ended(n)
    PROVE  /\ q \in Segs /\ req[q] = "live" /\ caio[q[1]] = "live"
           /\ \A a \in Iocbs : Building(a) => Cur(a) # q
           /\ \A k \in 1..Len(transfer_list) : n < k => transfer_list[k][1] # q
<1> USE DEF AioInv
<1>1. PICK i \in 1..n : /\ q = transfer_list[i][1]
                        /\ tfer[q][transfer_list[i][2]].last
    BY DEF Ended
<1> DEFINE j == transfer_list[i][2]
<1>2. Len(transfer_list) \in Nat /\ i \in 1..Len(transfer_list) /\ i <= n
    <2>1. Len(transfer_list) \in Nat
        BY DEF TypeAio
    <2> QED
        BY <2>1
<1>3. q \in Segs /\ j \in Nat
    BY <1>1, <1>2, ListedSegs
<1>4. Listed(q)
    BY <1>1, <1>2 DEF Listed
<1>5. req[q] = "live" /\ caio[q[1]] = "live"
    BY <1>3, <1>4 DEF Dangling
<1>6. j \in 1..Len(tfer[q]) /\ j = Len(tfer[q])
    BY <1>1, <1>2, <1>3 DEF ListInv, SegInv
<1>7. ASSUME NEW a \in Iocbs, Building(a), Cur(a) = q
      PROVE  FALSE
    <2>1. CASE pc[a] = "init"
        BY <1>1, <1>6, <1>7, <2>1 DEF BuildInv
    <2>2. CASE pc[a] = "queue"
        <3>1. j < Len(tfer[q])
            BY <1>1, <1>2, <1>7, <2>2 DEF BuildInv
        <3> QED
            BY <1>3, <1>6, <3>1
    <2> QED
        BY <1>7, <2>1, <2>2 DEF Building
<1>8. ASSUME NEW k \in 1..Len(transfer_list), n < k, transfer_list[k][1] = q
      PROVE  FALSE
    <2>1. i < k
        BY <1>2, <1>8
    <2>2. j < transfer_list[k][2] /\ transfer_list[k][2] \in 1..Len(tfer[q])
        BY <1>1, <1>2, <1>8, <2>1 DEF ListInv
    <2>3. Len(tfer[q]) \in Nat
        BY <1>3 DEF TypeAio
    <2> QED
        BY <1>3, <1>6, <2>2, <2>3
<1> QED
    BY <1>3, <1>5, <1>7, <1>8

(* The second half of the interrupt service keeps the invariant: a segment *)
(* ends once, the counts follow, and caio is freed with the last of them.  *)
LEMMA ServiceKeeps ==
    ASSUME AioInv, ~Dangling, NEW count, ServiceTransfers(count),
           UNCHANGED <<callVars, sw_desc_cnt, sw_desc_idx, desc_idx>>
    PROVE  AioInv'
<1> USE DEF AioInv, callVars
<1>1. PICK n \in 0..Len(transfer_list) :
        /\ tfer' \in [Segs -> Seq(Xfer)]
        /\ \A q \in Segs :
             /\ Len(tfer'[q]) = Len(tfer[q])
             /\ \A j \in 1..Len(tfer[q]) : tfer'[q][j].last = tfer[q][j].last
        /\ AsyncIoHandler(Ended(n), tfer')
        /\ transfer_list' = SubSeq(transfer_list, n + 1, Len(transfer_list))
    BY ServiceShape
<1> DEFINE E == Ended(n)
           mine(a) == {q \in E : q[1] = a}
           over(a) == mine(a) # {} /\ cmpl_cnt[a] + Cardinality(mine(a)) = req_cnt[a]
<1>2. /\ req' = [q \in Segs |-> IF q \in E THEN "done" ELSE req[q]]
      /\ cmpl_cnt' = [a \in Iocbs |-> cmpl_cnt[a] + Cardinality(mine(a))]
      /\ completions' = [a \in Iocbs |-> completions[a] + IF over(a) THEN 1 ELSE 0]
      /\ caio' = [a \in Iocbs |-> IF over(a) THEN "freed" ELSE caio[a]]
    <2>1. \A a : (\E q \in E : q[1] = a) <=> mine(a) # {}
        OBVIOUS
    <2> QED
        BY <1>1, <2>1 DEF AsyncIoHandler, AllDone
<1>3. \A q \in E : /\ q \in Segs /\ req[q] = "live" /\ caio[q[1]] = "live"
                   /\ \A a \in Iocbs : Building(a) => Cur(a) # q
                   /\ \A k \in 1..Len(transfer_list) : n < k => transfer_list[k][1] # q
    BY EndedFacts
<1> HIDE DEF E
<1>4. /\ Len(transfer_list) \in Nat
      /\ Len(transfer_list') = Len(transfer_list) - n
      /\ \A k \in 1..Len(transfer_list') : /\ k + n \in 1..Len(transfer_list)
                                           /\ n < k + n
                                           /\ transfer_list'[k] = transfer_list[k + n]
      /\ transfer_list' \in Seq(Segs \X Nat)
    <2>1. transfer_list \in Seq(Segs \X Nat)
        BY DEF TypeAio
    <2>2. Len(transfer_list) \in Nat
        BY <2>1
    <2>3. /\ transfer_list' \in Seq(Segs \X Nat)
          /\ Len(transfer_list') = Len(transfer_list) - n
          /\ \A k \in 1..(Len(transfer_list) - n) : transfer_list'[k] = transfer_list[k + n]
        BY <1>1, <2>1, RestFacts
    <2>4. \A k \in 1..(Len(transfer_list) - n) : k + n \in 1..Len(transfer_list) /\ n < k + n
        BY <2>2
    <2> QED
        BY <2>2, <2>3, <2>4
<1>5. \A q \in Segs : req'[q] = IF q \in E THEN "done" ELSE req[q]
    BY <1>2
<1>6. ASSUME NEW a \in Iocbs
      PROVE  /\ IsFiniteSet(mine(a)) /\ Cardinality(mine(a)) \in Nat
             /\ DoneSegs(a)' = DoneSegs(a) \cup mine(a)
             /\ cmpl_cnt[a] + Cardinality(mine(a)) = Cardinality(DoneSegs(a)')
    <2>1. mine(a) \subseteq {q \in Segs : q[1] = a}
        BY <1>3
    <2>2. DoneSegs(a) \subseteq {q \in Segs : q[1] = a}
        BY DEF DoneSegs
    <2>3. DoneSegs(a)' = DoneSegs(a) \cup mine(a)
        BY <1>3, <1>5 DEF DoneSegs
    <2>4. DoneSegs(a) \cap mine(a) = {}
        BY <1>3 DEF DoneSegs
    <2> HIDE DEF mine
    <2>5. IsFiniteSet(mine(a)) /\ Cardinality(mine(a)) \in Nat
        BY <2>1, DoneFinite
    <2>6. IsFiniteSet(DoneSegs(a)) /\ Cardinality(DoneSegs(a)) \in Nat
        BY <2>2, DoneFinite
    <2>7. Cardinality(DoneSegs(a) \cup mine(a)) =
            Cardinality(DoneSegs(a)) + Cardinality(mine(a)) - Cardinality(DoneSegs(a) \cap mine(a))
        BY <2>5, <2>6, FS_Union
    <2>8. Cardinality(DoneSegs(a) \cap mine(a)) = 0
        BY <2>4, FS_EmptySet
    <2>9. cmpl_cnt[a] = Cardinality(DoneSegs(a))
        BY DEF CountInv
    <2> QED
        BY <2>3, <2>5, <2>6, <2>7, <2>8, <2>9
<1>7. ASSUME NEW a \in Iocbs, mine(a) # {}
      PROVE  /\ pc[a] # "idle" /\ req_cnt[a] = Len(Iov[a])
             /\ completions[a] = 0 /\ caio[a] = "live"
             /\ \E i \in 1..Len(Iov[a]) : <<a, i>> \in E /\ req[<<a, i>>] = "live"
    <2>1. PICK q \in E : q[1] = a
        BY <1>7
    <2>2. q \in Segs /\ req[q] = "live" /\ caio[a] = "live"
        BY <1>3, <2>1
    <2>3. q[2] \in 1..Len(Iov[a]) /\ q = <<a, q[2]>>
        BY <2>1, <2>2, SegFacts
    <2>4. pc[a] # "idle" /\ req_cnt[a] = Len(Iov[a])
        BY <2>2 DEF CallInv
    <2>5. completions[a] # 1
        BY <2>2, <2>3, <2>4 DEF CompletesOnce
    <2>6. completions[a] \in Nat /\ completions[a] <= 1
        BY DEF TypeAio, CompletesOnce
    <2>7. completions[a] = 0
        BY <2>5, <2>6
    <2> QED
        BY <2>1, <2>2, <2>3, <2>4, <2>7
<1>8. ASSUME NEW a \in Iocbs, over(a)
      PROVE  \A i \in 1..Len(Iov[a]) : req'[<<a, i>>] = "done"
    <2>1. Cardinality(DoneSegs(a)') = Len(Iov[a])
        BY <1>6, <1>7, <1>8
    <2>2. DoneSegs(a)' \subseteq {q \in Segs : q[1] = a}
        BY DEF DoneSegs
    <2>3. DoneSegs(a)' = {q \in Segs : q[1] = a}
        BY <2>1, <2>2, DoneFinite
    <2>4. \A i \in 1..Len(Iov[a]) : <<a, i>> \in {q \in Segs : q[1] = a}
        BY SegFacts
    <2> QED
        BY <2>3, <2>4 DEF DoneSegs
<1> HIDE DEF mine, over
<1>9. TypeAio'
    <2>1. req' \in [Segs -> {"none", "live", "refused", "done"}]
        BY <1>2 DEF TypeAio
    <2>2. cmpl_cnt' \in [Iocbs -> Nat]
        BY <1>2, <1>6 DEF TypeAio
    <2>3. completions' \in [Iocbs -> Nat]
        BY <1>2 DEF TypeAio
    <2>4. caio' \in [Iocbs -> {"none", "live", "freed"}]
        BY <1>2 DEF TypeAio
    <2> QED
        BY <1>1, <1>4, <2>1, <2>2, <2>3, <2>4 DEF TypeAio
<1>10. CallInv'
    <2> SUFFICES ASSUME NEW a \in Iocbs PROVE CallInv!(a)'
        BY DEF CallInv
    <2>1. /\ pc'[a] = pc[a] /\ seg'[a] = seg[a] /\ req_cnt'[a] = req_cnt[a]
          /\ ret'[a] = ret[a] /\ Cur(a)' = Cur(a) /\ Building(a)' = Building(a)
          /\ \A i : Ahead(a, i)' = Ahead(a, i)
        BY DEF Cur, Building, Ahead
    <2>2. pc[a] = "idle" => ~over(a)
        BY <1>7 DEF over
    <2>3. /\ pc[a] = "idle" => caio'[a] = caio[a] /\ completions'[a] = completions[a]
          /\ pc[a] # "idle" => caio'[a] # "none"
        BY <1>2, <2>2 DEF CallInv, TypeAio
    <2>4. \A i \in 1..Len(Iov[a]) : <<a, i>> \in Segs
        BY SegFacts
    <2>5. \A i \in 1..Len(Iov[a]) : req[<<a, i>>] = "none" => req'[<<a, i>>] = "none"
        BY <1>3, <1>5, <2>4
    <2>6. Building(a) => Cur(a) \in Segs /\ Cur(a) \notin E
        BY <1>3, CurIsSegment
    <2>7. Building(a) => req'[Cur(a)] = "live"
        BY <1>5, <2>6 DEF CallInv
    <2> QED
        BY <2>1, <2>3, <2>5, <2>7 DEF CallInv
<1>11. BuildInv'
    <2> SUFFICES ASSUME NEW a \in Iocbs PROVE BuildInv!(a)'
        BY DEF BuildInv
    <2>1. /\ pc'[a] = pc[a] /\ Cur(a)' = Cur(a)
          /\ sw_desc_idx' = sw_desc_idx /\ sw_desc_cnt' = sw_desc_cnt
        BY DEF Cur
    <2>2. CASE Building(a)
        <3> DEFINE s == Cur(a)
                   l == Len(tfer[s])
        <3>1. s \in Segs
            BY <2>2, CurIsSegment
        <3>2. /\ Len(tfer'[s]) = l /\ l \in Nat
              /\ \A j \in 1..l : tfer'[s][j].last = tfer[s][j].last
            BY <1>1, <3>1 DEF TypeAio
        <3>3. pc[a] = "queue" => l \in 1..l
            BY <3>2 DEF BuildInv
        <3>4. pc[a] = "queue" => \A k \in 1..Len(transfer_list') :
                transfer_list'[k][1] = s => transfer_list'[k][2] < l
            BY <1>4 DEF BuildInv
        <3> QED
            BY <2>1, <3>2, <3>3, <3>4 DEF BuildInv
    <2> QED
        BY <2>1, <2>2 DEF Building
<1>12. SegInv'
    BY <1>1, <1>3, <1>5 DEF SegInv
<1>13. \A k \in 1..Len(transfer_list') :
         /\ transfer_list'[k][1] \in Segs \ E
         /\ req'[transfer_list'[k][1]] = req[transfer_list'[k][1]]
    <2> SUFFICES ASSUME NEW k \in 1..Len(transfer_list')
                 PROVE  transfer_list'[k][1] \in Segs \ E
        BY <1>5
    <2>1. k + n \in 1..Len(transfer_list) /\ n < k + n /\ transfer_list'[k] = transfer_list[k + n]
        BY <1>4
    <2>2. transfer_list[k + n][1] \in Segs
        BY <2>1, ListedSegs
    <2>3. transfer_list[k + n][1] \notin E
        BY <1>3, <2>1
    <2> QED
        BY <2>1, <2>2, <2>3
<1>14. ListInv'
    <2>1. ASSUME NEW k \in 1..Len(transfer_list')
          PROVE  /\ transfer_list'[k][2] \in 1..Len(tfer'[transfer_list'[k][1]])
                 /\ req'[transfer_list'[k][1]] \in {"live", "refused"}
        <3>1. k + n \in 1..Len(transfer_list) /\ transfer_list'[k] = transfer_list[k + n]
            BY <1>4
        <3>2. /\ transfer_list[k + n][2] \in 1..Len(tfer[transfer_list[k + n][1]])
              /\ req[transfer_list[k + n][1]] \in {"live", "refused"}
            BY <3>1 DEF ListInv
        <3> QED
            BY <1>1, <1>13, <3>1, <3>2
    <2>2. ASSUME NEW i \in 1..Len(transfer_list'), NEW k \in 1..Len(transfer_list'),
                 i < k, transfer_list'[i][1] = transfer_list'[k][1]
          PROVE  transfer_list'[i][2] < transfer_list'[k][2]
        <3>1. i + n < k + n
            BY <1>4, <2>2
        <3> QED
            <4>1. /\ i + n \in 1..Len(transfer_list) /\ k + n \in 1..Len(transfer_list)
                  /\ transfer_list'[i] = transfer_list[i + n]
                  /\ transfer_list'[k] = transfer_list[k + n]
                BY <1>4
            <4> QED
                BY <2>2, <3>1, <4>1 DEF ListInv
    <2> QED
        BY <2>1, <2>2 DEF ListInv
<1>15. CountInv'
    BY <1>2, <1>6 DEF CountInv
<1>16. CompletesOnce'
    <2> SUFFICES ASSUME NEW a \in Iocbs PROVE CompletesOnce!(a)'
        BY DEF CompletesOnce
    <2>1. CASE over(a)
        <3>1. completions[a] = 0 /\ req_cnt'[a] = Len(Iov[a])
            BY <1>7, <2>1 DEF over
        <3>2. completions'[a] = 1
            BY <1>2, <2>1, <3>1
        <3> QED
            BY <1>8, <2>1, <3>1, <3>2
    <2>2. CASE ~over(a)
        <3>1. completions'[a] = completions[a] /\ caio'[a] = caio[a]
            BY <1>2, <2>2 DEF TypeAio
        <3>2. ASSUME completions[a] = 1, NEW i \in 1..req_cnt[a]
              PROVE  req'[<<a, i>>] = "done"
            <4>1. req_cnt[a] = Len(Iov[a])
                BY <3>2 DEF CallInv
            <4>2. <<a, i>> \in Segs /\ req[<<a, i>>] = "done"
                BY <3>2, <4>1, SegFacts DEF CompletesOnce
            <4> QED
                BY <1>5, <4>2
        <3> QED
            BY <3>1, <3>2 DEF CompletesOnce
    <2> QED
        BY <2>1, <2>2
<1>17. DanglesOnlyIfCut'
    <2> SUFFICES ASSUME NEW q \in Segs, Listed(q)'
                 PROVE  DanglesOnlyIfCut!(q)!2'
        BY DEF DanglesOnlyIfCut
    <2>1. PICK k \in 1..Len(transfer_list') : transfer_list'[k][1] = q
        BY DEF Listed
    <2>2. Listed(q) /\ req'[q] = req[q]
        BY <1>4, <1>13, <2>1 DEF Listed
    <2>3. req[q] = "live" /\ caio[q[1]] = "live"
        BY <2>2 DEF Dangling
    <2>4. q[1] \in Iocbs /\ q[2] \in 1..Len(Iov[q[1]]) /\ q = <<q[1], q[2]>>
        BY SegFacts
    <2>5. ~over(q[1])
        BY <1>8, <2>2, <2>3, <2>4
    <2>6. caio'[q[1]] = "live"
        BY <1>2, <2>3, <2>4, <2>5
    <2> QED
        BY <2>2, <2>3, <2>6
<1> QED
    BY <1>9, <1>10, <1>11, <1>12, <1>14, <1>15, <1>16, <1>17

(* Every step keeps the invariant.                                         *)
LEMMA NextKeeps == AioInv /\ [Next]_vars => AioInv'
<1> SUFFICES ASSUME AioInv, [Next]_vars PROVE AioInv'
    OBVIOUS
<1>1. CASE UNCHANGED vars
    BY <1>1, QuietKeeps DEF vars, aioVars, caioVars, ringVars, engVars
<1>2. CASE ~Undefined /\ \E a \in Iocbs : AioStart(a) \/ Submitter(a)
    <2>1. PICK a \in Iocbs : AioStart(a) \/ Submitter(a)
        BY <1>2
    <2>2. ~Overflown
        BY <1>2 DEF Undefined
    <2> QED
        BY <2>1, <2>2, AioStartKeeps, ReturnKeeps, NowaitStartKeeps, RefusedKeeps,
           TransferInitKeeps, TransferQueueKeeps DEF Submitter
<1>3. CASE ~Undefined /\ ServiceCount
    <2>1. CASE hw_count = 0
        BY <1>3, <2>1, QuietKeeps DEF ServiceCount, aioVars, caioVars, reqVars
    <2>2. CASE hw_count # 0
        <3>1. ServiceTransfers(hw_count - desc_dequeued)
            BY <1>3, <2>2 DEF ServiceCount
        <3>2. UNCHANGED <<callVars, sw_desc_cnt, sw_desc_idx, desc_idx>> /\ ~Dangling
            BY <1>3 DEF ServiceCount, Undefined
        <3> QED
            BY <3>1, <3>2, ServiceKeeps
    <2> QED
        BY <2>1, <2>2
<1>4. CASE ServiceStatus \/ Offline \/ Online \/ HwFetch \/ HwComplete \/ HwError
    BY <1>4, QuietKeeps DEF ServiceStatus, Offline, Online, HwFetch, HwComplete,
       HwError, aioVars, caioVars, ringVars, engVars
<1> QED
    BY <1>1, <1>2, <1>3, <1>4 DEF Next, Service, Finished

(* The operations, their segments and the list stay in step: AioInv, from  *)
(* which the two results below are read off.                               *)
THEOREM AioInvariance == Spec => []AioInv
<1>1. Init => AioInv
    BY InitEstablishes
<1>2. AioInv /\ [Next]_vars => AioInv'
    BY NextKeeps
<1> QED
    BY <1>1, <1>2, PTL DEF Spec

(* For any number of operations and segments, every ring size and every    *)
(* fault: iocb->ki_complete() is called at most once, after all segments   *)
(* have ended, and caio is freed only with that or for a misaligned one.   *)
THEOREM OperationsCompleteOnce == Spec => []CompletesOnce
<1>1. AioInv => CompletesOnce
    BY DEF AioInv
<1> QED
    BY <1>1, AioInvariance, PTL

(* The engine's list names freed memory only after a misaligned later      *)
(* segment, or when the device went offline between the two transfers of a *)
(* segment.                                                                *)
THEOREM DanglingIsExplained == Spec => []DanglesOnlyIfCut
<1>1. AioInv => DanglesOnlyIfCut
    BY DEF AioInv
<1> QED
    BY <1>1, AioInvariance, PTL
-----------------------------------------------------------------------------
(* What the ring and the hardware hold: MoveInv.                           *)

(* A step leaves the ring entries of s's transfer j where they are.        *)
SameXfer(s, j) ==
    /\ tfer'[s][j].index = tfer[s][j].index
    /\ tfer'[s][j].num = tfer[s][j].num

(* A step may add to the transfers of s.                                   *)
SameXfers(s) ==
    \A j \in 1..Len(tfer[s]) : j \in 1..Len(tfer'[s]) /\ SameXfer(s, j)

(* What the transfers of a segment are.                                    *)
LEMMA XferFacts ==
    ASSUME TypeAio, NEW s \in Segs
    PROVE  /\ tfer[s] \in Seq(Xfer) /\ Len(tfer[s]) \in Nat
           /\ \A j \in 1..Len(tfer[s]) :
                /\ j \in Nat /\ 1 \in 1..Len(tfer[s])
                /\ tfer[s][j] \in Xfer
                /\ tfer[s][j].index \in 0..(DescMax - 1)
                /\ tfer[s][j].num \in 1..DescMax
                /\ tfer[s][j].num \in Nat /\ tfer[s][j].index \in Nat
                /\ Base(s, j) \in Nat
<1>1. tfer[s] \in Seq(Xfer) /\ Len(tfer[s]) \in Nat
    BY DEF TypeAio
<1>2. ASSUME NEW j \in 1..Len(tfer[s])
      PROVE  /\ tfer[s][j] \in Xfer
             /\ tfer[s][j].index \in 0..(DescMax - 1)
             /\ tfer[s][j].num \in 1..DescMax
             /\ tfer[s][j].num \in Nat /\ tfer[s][j].index \in Nat
    <2>1. tfer[s][j] \in Xfer
        BY <1>1
    <2> QED
        BY <2>1, DescMaxAssumption DEF Xfer
<1>3. \A j \in 1..Len(tfer[s]) : j \in Nat /\ 1 \in 1..Len(tfer[s])
    BY <1>1
<1>4. \A j \in 1..Len(tfer[s]) : Base(s, j) \in Nat
    BY <1>2, <1>3 DEF Base
<1> QED
    BY <1>1, <1>2, <1>3, <1>4

(* Where its transfers begin, and what the ring holds for them, stays.     *)
LEMMA PlaceKept ==
    ASSUME TypeAio, NEW s \in Segs, SameXfers(s), NEW j \in 1..Len(tfer[s])
    PROVE  /\ Base(s, j)' = Base(s, j)
           /\ \A k : DescOf(s, j, k)' = DescOf(s, j, k)
<1>1. 1 \in 1..Len(tfer[s])
    BY XferFacts
<1>2. tfer'[s][1].num = tfer[s][1].num /\ tfer'[s][j].num = tfer[s][j].num
    BY <1>1 DEF SameXfers, SameXfer
<1>3. Base(s, j)' = Base(s, j)
    BY <1>2 DEF Base
<1> QED
    BY <1>2, <1>3 DEF DescOf

(* The head of the list is a transfer that was built.                      *)
LEMMA HeadFacts ==
    ASSUME AioInv, transfer_list # <<>>
    PROVE  /\ 1 \in 1..Len(transfer_list)
           /\ transfer_list[1][1] \in Segs
           /\ transfer_list[1][2] \in 1..Len(tfer[transfer_list[1][1]])
<1>1. 1 \in 1..Len(transfer_list)
    BY DEF AioInv, TypeAio
<1> QED
    BY <1>1, ListedSegs DEF AioInv, ListInv

(* The hardware stays where it is on a transfer that stays where it is.    *)
LEMMA AtTransferKept ==
    ASSUME TypeAio, NEW s \in Segs, SameXfers(s), NEW j \in 1..Len(tfer[s]),
           UNCHANGED hwVars, AtTransfer(s, j)
    PROVE  AtTransfer(s, j)'
<1>1. /\ Base(s, j)' = Base(s, j)
      /\ \A k : DescOf(s, j, k)' = DescOf(s, j, k)
    BY PlaceKept
<1>2. SameXfer(s, j)
    BY DEF SameXfers
<1> QED
    BY <1>1, <1>2 DEF AtTransfer, SameXfer, hwVars, Busy

(* Nothing the engine runs on changes, except behind the head of the list. *)
LEMMA RunKept ==
    ASSUME AioInv, RunInv, \A s \in Segs : SameXfers(s),
           UNCHANGED <<running, desc_dequeued, lock, offline, hwVars>>,
           transfer_list # <<>> =>
                transfer_list' # <<>> /\ transfer_list'[1] = transfer_list[1]
    PROVE  RunInv'
<1>1. Busy' <=> Busy
    BY DEF hwVars, Busy
<1>2. ASSUME transfer_list # <<>>, AtHead
      PROVE  AtHead'
    <2>1. /\ transfer_list[1][1] \in Segs
          /\ transfer_list[1][2] \in 1..Len(tfer[transfer_list[1][1]])
        BY <1>2, HeadFacts
    <2>2. AtTransfer(transfer_list[1][1], transfer_list[1][2])'
        BY <1>2, <2>1, AtTransferKept DEF AtHead, AioInv
    <2> QED
        BY <1>2, <2>2 DEF AtHead
<1> QED
    BY <1>1, <1>2 DEF RunInv, hwVars

(* The ring keeps what it holds for the requests that go on.               *)
LEMMA RingKept ==
    ASSUME TypeAio, RingInv, desc' = desc,
           \A s \in Segs : req'[s] = "live" =>
                \/ Len(tfer'[s]) = 0
                \/ req[s] = "live" /\ SameXfers(s) /\ Len(tfer'[s]) = Len(tfer[s])
    PROVE  RingInv'
<1> SUFFICES ASSUME NEW s \in Segs, req'[s] = "live", NEW j \in 1..Len(tfer'[s])
             PROVE  /\ tfer'[s][j].index + tfer'[s][j].num <= DescMax
                    /\ \A k \in 0..(tfer'[s][j].num - 1) :
                         desc'[tfer'[s][j].index + k] = DescOf(s, j, k)'
    BY DEF RingInv
<1>1. req[s] = "live" /\ SameXfers(s) /\ Len(tfer'[s]) = Len(tfer[s])
    OBVIOUS
<1>2. j \in 1..Len(tfer[s])
    BY <1>1
<1>3. SameXfer(s, j) /\ \A k : DescOf(s, j, k)' = DescOf(s, j, k)
    BY <1>1, <1>2, PlaceKept DEF SameXfers
<1> QED
    BY <1>1, <1>2, <1>3 DEF RingInv, SameXfer

(* What was moved stays moved: no transfer becomes COMPLETED.              *)
LEMMA MovedKept ==
    ASSUME TypeAio, TransferMoved, \A s \in Segs : moved[s] \subseteq moved'[s],
           \A s \in Segs : SameXfers(s),
           \A s \in Segs : \A j \in 1..Len(tfer'[s]) :
                tfer'[s][j].state = "COMPLETED" =>
                    j \in 1..Len(tfer[s]) /\ tfer[s][j].state = "COMPLETED"
    PROVE  TransferMoved'
<1> SUFFICES ASSUME NEW s \in Segs, NEW j \in 1..Len(tfer'[s]),
                    tfer'[s][j].state = "COMPLETED"
             PROVE  \A k \in 0..(tfer'[s][j].num - 1) : Base(s, j)' + k \in moved'[s]
    BY DEF TransferMoved
<1>1. j \in 1..Len(tfer[s]) /\ tfer[s][j].state = "COMPLETED"
    OBVIOUS
<1>2. SameXfer(s, j) /\ Base(s, j)' = Base(s, j)
    BY <1>1, PlaceKept DEF SameXfers
<1> QED
    BY <1>1, <1>2 DEF TransferMoved, SameXfer

(* The members of OfEach().                                                *)
LEMMA OfEachFacts ==
    ASSUME NEW S, NEW m
    PROVE  \A p : p \in OfEach(S, m) <=>
                    p[1] \in S /\ p[2] \in m[p[1]] /\ p = <<p[1], p[2]>>
BY DEF OfEach

(* What was moved for segments of one iocb is finite.                      *)
LEMMA FiniteMoved ==
    ASSUME NEW a \in Iocbs, NEW S, S \subseteq {s \in Segs : s[1] = a},
           NEW m, \A s \in S : IsFiniteSet(m[s])
    PROVE  IsFiniteSet(OfEach(S, m)) /\ Cardinality(OfEach(S, m)) \in Nat
<1> DEFINE part == [s \in S |-> {s} \X m[s]]
           parts == {{s} \X m[s] : s \in S}
<1>1. IsFiniteSet(S)
    BY DoneFinite
<1>2. part \in Surjection(S, parts)
    BY DEF Surjection
<1>3. ASSUME NEW s \in S PROVE IsFiniteSet({s} \X m[s])
    <2>1. IsFiniteSet(m[s]) /\ IsFiniteSet({s})
        BY FS_Singleton
    <2> QED
        BY <2>1, FS_Product
<1>4. \A P \in parts : IsFiniteSet(P)
    BY <1>3
<1> HIDE DEF part, parts
<1>5. IsFiniteSet(parts)
    BY <1>1, <1>2, FS_Surjection
<1>6. IsFiniteSet(UNION parts)
    BY <1>4, <1>5, FS_UNION
<1>7. IsFiniteSet(OfEach(S, m))
    BY <1>6 DEF parts, OfEach
<1> QED
    BY <1>7, FS_CardinalityType

(* The count of an iocb is untouched.                                      *)
LEMMA CountedKept ==
    ASSUME CountedMoved, \A s \in Segs : IsFiniteSet(moved'[s]),
           res \in [Iocbs -> Nat], res' = res,
           \A s \in Segs : moved[s] \subseteq moved'[s],
           \A s \in Segs : (req'[s] = "done") <=> (req[s] = "done")
    PROVE  CountedMoved'
<1> SUFFICES ASSUME NEW a \in Iocbs
             PROVE  res'[a] <= Cardinality(OfEach(DoneSegs(a)', moved'))
    BY DEF CountedMoved
<1>1. DoneSegs(a)' = DoneSegs(a) /\ DoneSegs(a) \subseteq {s \in Segs : s[1] = a}
    BY DEF DoneSegs
<1> DEFINE old == OfEach(DoneSegs(a), moved)
           new == OfEach(DoneSegs(a), moved')
<1>2. old \subseteq new
    BY <1>1, OfEachFacts
<1>3. IsFiniteSet(new)
    BY <1>1, FiniteMoved
<1>4. res[a] <= Cardinality(old) /\ res[a] \in Nat
    BY DEF CountedMoved
<1>5. OfEach(DoneSegs(a)', moved') = new
    BY <1>1
<1> HIDE DEF old, new
<1>6. Cardinality(old) <= Cardinality(new) /\ IsFiniteSet(old)
    BY <1>2, <1>3, FS_Subset
<1>7. Cardinality(old) \in Nat /\ Cardinality(new) \in Nat
    BY <1>3, <1>6, FS_CardinalityType
<1> QED
    BY <1>4, <1>5, <1>6, <1>7

(* The parts a segment is cut into are untouched, but for those of a       *)
(* segment of which nothing is built.                                      *)
LEMMA SplitKept ==
    ASSUME SplitInv, UNCHANGED <<sw_desc_idx, tfer, transfer_list>>,
           \A s \in Segs : sw_desc_cnt'[s] = sw_desc_cnt[s] \/ Len(tfer[s]) = 0,
           \A a \in Iocbs : pc[a] = "init" => pc'[a] = "init" /\ seg'[a] = seg[a]
    PROVE  SplitInv'
<1>1. ASSUME NEW s \in Segs, pc[s[1]] = "init", Cur(s[1]) = s
      PROVE  pc'[s[1]] = "init" /\ Cur(s[1])' = s
    BY <1>1, SegFacts DEF Cur
<1> QED
    BY <1>1 DEF SplitInv

(* The steps of a call that build and list nothing.                        *)
LEMMA CallMoves ==
    ASSUME AioInv, MoveInv,
           UNCHANGED <<sw_desc_idx, tfer, ringVars, engVars, offline, hwVars, res>>,
           \A s \in Segs : sw_desc_cnt'[s] = sw_desc_cnt[s] \/ Len(tfer[s]) = 0,
           \A a \in Iocbs : pc[a] = "init" => pc'[a] = "init" /\ seg'[a] = seg[a],
           \A s \in Segs : /\ (req'[s] = "done") <=> (req[s] = "done")
                           /\ req'[s] = "live" => req[s] = "live" \/ Len(tfer[s]) = 0
    PROVE  MoveInv'
<1> USE DEF MoveInv, ringVars, engVars, hwVars
<1>1. TypeRing' /\ \A s \in Segs : IsFiniteSet(moved'[s])
    BY DEF TypeRing
<1>2. SplitInv'
    BY SplitKept
<1>3. \A s \in Segs : SameXfers(s)
    BY DEF SameXfers, SameXfer
<1>4. ASSUME ~overrun
      PROVE  RingInv' /\ RunInv' /\ TransferMoved' /\ CountedMoved'
    <2>1. TypeAio /\ RingInv /\ RunInv /\ TransferMoved /\ CountedMoved
        BY <1>4 DEF AioInv
    <2>2. RingInv'
        BY <1>3, <2>1, RingKept
    <2>3. RunInv'
        BY <1>3, <2>1, RunKept
    <2>4. TransferMoved'
        BY <1>3, <2>1, MovedKept
    <2>5. CountedMoved'
        BY <1>1, <2>1, CountedKept DEF TypeRing
    <2> QED
        BY <2>2, <2>3, <2>4, <2>5
<1> QED
    BY <1>1, <1>2, <1>4

(* The calls, but for building and listing transfers.                      *)
LEMMA StartMoves ==
    ASSUME AioInv, MoveInv, NEW a \in Iocbs,
           AioStart(a) \/ AioMisaligned(a) \/ AioUnmapped(a) \/ AioQueued(a)
    PROVE  MoveInv'
<1>1. /\ UNCHANGED <<seg, sw_desc_cnt, sw_desc_idx, req, tfer, ringVars, engVars,
                     offline, hwVars, res>>
      /\ pc[a] # "init"
      /\ \E p : pc' = [pc EXCEPT ![a] = p]
    BY DEF AioStart, AioMisaligned, AioUnmapped, AioQueued, Return, Goto,
           caioVars, reqVars
<1>2. \A b \in Iocbs : pc[b] = "init" => pc'[b] = "init" /\ seg'[b] = seg[b]
    BY <1>1 DEF AioInv, TypeAio
<1> QED
    BY <1>1, <1>2, CallMoves

(* An accepted segment has no transfers yet.                               *)
LEMMA NowaitStartMoves ==
    ASSUME AioInv, MoveInv, NEW a \in Iocbs, NowaitStart(a)
    PROVE  MoveInv'
<1> DEFINE s == Cur(a)
<1>1. /\ UNCHANGED <<seg, sw_desc_idx, tfer, ringVars, engVars, offline, hwVars, res>>
      /\ pc[a] = "segment" /\ seg[a] <= req_cnt[a]
      /\ pc' = [pc EXCEPT ![a] = "init"]
      /\ req' = [req EXCEPT ![s] = "live"]
      /\ sw_desc_cnt' = [sw_desc_cnt EXCEPT ![s] = Iov[a][seg[a]]]
    BY DEF NowaitStart, Goto, caioVars
<1>2. s \in Segs /\ s = <<a, seg[a]>> /\ seg[a] \in 1..Len(Iov[a])
    BY <1>1, CurIsSegment DEF AioInv, Cur
<1>3. req[s] = "none" /\ Len(tfer[s]) = 0
    BY <1>1, <1>2 DEF AioInv, CallInv, Ahead, Building, SegInv
<1>4. \A b \in Iocbs : pc[b] = "init" => pc'[b] = "init" /\ seg'[b] = seg[b]
    BY <1>1 DEF AioInv, TypeAio
<1> HIDE DEF s
<1>5. /\ req'[s] = "live"
      /\ \A q \in Segs : q # s => req'[q] = req[q] /\ sw_desc_cnt'[q] = sw_desc_cnt[q]
    BY <1>1, <1>2 DEF AioInv, TypeAio
<1>6. /\ \A q \in Segs : sw_desc_cnt'[q] = sw_desc_cnt[q] \/ Len(tfer[q]) = 0
      /\ \A q \in Segs : /\ (req'[q] = "done") <=> (req[q] = "done")
                         /\ req'[q] = "live" => req[q] = "live" \/ Len(tfer[q]) = 0
    BY <1>3, <1>5
<1> QED
    BY <1>1, <1>4, <1>6, CallMoves

(* A refused segment is neither live nor done.                             *)
LEMMA RefusedMoves ==
    ASSUME AioInv, MoveInv, NEW a \in Iocbs, NowaitRefused(a) \/ TransferRefused(a)
    PROVE  MoveInv'
<1> DEFINE s == Cur(a)
<1>1. /\ UNCHANGED <<sw_desc_cnt, sw_desc_idx, tfer, ringVars, engVars, offline,
                     hwVars, res>>
      /\ (pc[a] = "segment" /\ seg[a] <= req_cnt[a]) \/ pc[a] = "queue"
      /\ pc' = pc \/ pc' = [pc EXCEPT ![a] = "segment"]
      /\ seg' = [seg EXCEPT ![a] = @ + 1]
      /\ req' = [req EXCEPT ![s] = "refused"]
    BY DEF NowaitRefused, TransferRefused, Goto, caioVars
<1>2. s \in Segs /\ s = <<a, seg[a]>> /\ seg[a] \in 1..Len(Iov[a])
    BY <1>1, CurIsSegment DEF AioInv, Cur, Building
<1>3. req[s] # "done"
    BY <1>1, <1>2 DEF AioInv, CallInv, Ahead, Building
<1>4. \A b \in Iocbs : pc[b] = "init" => pc'[b] = "init" /\ seg'[b] = seg[b]
    BY <1>1 DEF AioInv, TypeAio
<1> HIDE DEF s
<1>5. req'[s] = "refused" /\ \A q \in Segs : q # s => req'[q] = req[q]
    BY <1>1, <1>2 DEF AioInv, TypeAio
<1>6. \A q \in Segs : /\ (req'[q] = "done") <=> (req[q] = "done")
                      /\ req'[q] = "live" => req[q] = "live"
    BY <1>3, <1>5
<1> QED
    BY <1>1, <1>4, <1>6, CallMoves

(* The invariant holds at the start.                                       *)
LEMMA MoveInit == Init => MoveInv
<1> SUFFICES ASSUME Init PROVE MoveInv
    OBVIOUS
<1> USE DEF Init
<1>1. TypeRing
    <2>1. desc \in [0..(DescMax - 1) -> Desc \cup {NoDesc}]
        OBVIOUS
    <2>2. hw_next \in 0..DescMax
        BY DescMaxAssumption
    <2> QED
        BY <2>1, <2>2 DEF TypeRing
<1>2. SplitInv
    BY DEF SplitInv
<1>3. \A s \in Segs : IsFiniteSet(moved[s])
    BY FS_EmptySet
<1>4. RingInv /\ TransferMoved
    BY DEF RingInv, TransferMoved
<1>5. RunInv
    BY DEF RunInv, Busy
<1>6. CountedMoved
    <2> SUFFICES ASSUME NEW a \in Iocbs
                 PROVE  res[a] <= Cardinality(OfEach(DoneSegs(a), moved))
        BY DEF CountedMoved
    <2>1. DoneSegs(a) \subseteq {s \in Segs : s[1] = a}
        BY DEF DoneSegs
    <2>2. Cardinality(OfEach(DoneSegs(a), moved)) \in Nat
        BY <1>3, <2>1, FiniteMoved
    <2> QED
        BY <2>2
<1> QED
    BY <1>1, <1>2, <1>3, <1>4, <1>5, <1>6 DEF MoveInv

(* What the ring holds for a transfer is a descriptor of its segment.      *)
LEMMA DescOfFacts ==
    ASSUME TypeAio, NEW s \in Segs, NEW j \in 1..Len(tfer[s]), NEW k \in Nat
    PROVE  /\ DescOf(s, j, k) \in Desc /\ DescOf(s, j, k) # NoDesc
           /\ DescOf(s, j, k).seg = s /\ DescOf(s, j, k).k = Base(s, j) + k
           /\ DescOf(s, j, k).stop <=> k + 1 = tfer[s][j].num
<1>1. Base(s, j) + k \in Nat /\ j \in Nat
    BY XferFacts
<1>2. (k + 1 = tfer[s][j].num) \in BOOLEAN
    OBVIOUS
<1>3. DescOf(s, j, k) \in Desc
    BY <1>1, <1>2 DEF DescOf, Desc
<1>4. DescOf(s, j, k) # NoDesc
    BY <1>3, NoDescAssumption DEF Desc
<1> QED
    BY <1>3, <1>4 DEF DescOf

(* transfer_init(): the new transfer begins where the segment's last one   *)
(* ends, and without an overrun takes no ring entry of a live request.     *)
LEMMA TransferInitMoves ==
    ASSUME AioInv, MoveInv, ~Overflown, NEW a \in Iocbs, TransferInit(a)
    PROVE  MoveInv'
<1> DEFINE s == Cur(a)
           n == DescNum(s)
           l == Len(tfer[s])
           mine == desc_idx..(desc_idx + n - 1)
           x == [state |-> "NEW", index |-> desc_idx, num |-> n,
                 last |-> (sw_desc_idx[s] + n = sw_desc_cnt[s])]
           d(i) == [seg |-> s, j |-> l + 1, k |-> sw_desc_idx[s] + (i - desc_idx),
                    stop |-> (i = desc_idx + n - 1)]
<1>1. /\ UNCHANGED <<seg, req, sw_desc_cnt, transfer_list, running, desc_dequeued,
                     lock, offline, hwVars, res>>
      /\ pc[a] = "init" /\ pc' = [pc EXCEPT ![a] = "queue"]
      /\ tfer' = [tfer EXCEPT ![s] = Append(@, x)]
      /\ sw_desc_idx' = [sw_desc_idx EXCEPT ![s] = @ + n]
      /\ desc' = [i \in 0..(DescMax - 1) |-> IF i \in mine THEN d(i) ELSE desc[i]]
      /\ overrun' = (overrun \/ \E i \in mine : InUse(desc[i]))
    BY DEF TransferInit, Goto, caioVars, engVars
<1>2. /\ s \in Segs /\ s = <<a, seg[a]>> /\ s[1] = a /\ req[s] = "live"
      /\ sw_desc_idx[s] < sw_desc_cnt[s]
    BY <1>1, CurIsSegment DEF AioInv, CallInv, BuildInv, Cur, Building
<1>3. n \in 1..DescMax /\ desc_idx + n <= DescMax
    BY <1>2, DescNumBounds DEF AioInv
<1>4. desc_idx \in 0..(DescMax - 1) /\ DescMax \in Nat /\ sw_desc_idx[s] \in Nat
    BY <1>2, DescMaxAssumption DEF AioInv, TypeAio
<1>5. l \in 0..1 /\ tfer[s] \in Seq(Xfer)
    <2>1. l # 2
        BY <1>1 DEF Overflown
    <2>2. l \in Nat /\ l <= 2 /\ tfer[s] \in Seq(Xfer)
        BY <1>2, XferFacts DEF AioInv, SegInv
    <2> HIDE DEF l
    <2> QED
        BY <2>1, <2>2
<1>6. sw_desc_idx[s] = IF l = 0 THEN 0 ELSE tfer[s][1].num
    BY <1>2, <1>5 DEF MoveInv, SplitInv
<1>7. x.state = "NEW" /\ x.index = desc_idx /\ x.num = n
    OBVIOUS
<1>8. \A b \in Iocbs : b # a => pc'[b] = pc[b] /\ Cur(b)' = Cur(b)
    BY <1>1 DEF AioInv, TypeAio, Cur
<1>9. \A i : /\ d(i).seg = s /\ d(i).j = l + 1
             /\ d(i).k = sw_desc_idx[s] + (i - desc_idx)
             /\ d(i) = [seg |-> s, j |-> l + 1,
                        k |-> sw_desc_idx[s] + (i - desc_idx),
                        stop |-> (i = desc_idx + n - 1)]
    OBVIOUS
<1> HIDE DEF x, s, n, d
<1>10. /\ tfer'[s] = Append(tfer[s], x)
       /\ sw_desc_idx'[s] = sw_desc_idx[s] + n
       /\ \A q \in Segs : q # s => tfer'[q] = tfer[q] /\ sw_desc_idx'[q] = sw_desc_idx[q]
    BY <1>1, <1>2 DEF AioInv, TypeAio
<1>11. /\ Len(tfer'[s]) = l + 1
       /\ \A j \in 1..l : tfer'[s][j] = tfer[s][j]
       /\ tfer'[s][l + 1] = x
    <2> DEFINE t == tfer[s]
    <2> HIDE DEF t
    <2>1. t \in Seq(Xfer) /\ l = Len(t)
        BY <1>5 DEF t
    <2>2. Len(Append(t, x)) = Len(t) + 1 /\ Append(t, x)[Len(t) + 1] = x
          /\ \A j \in 1..Len(t) : Append(t, x)[j] = t[j]
        BY <2>1
    <2> QED
        BY <1>10, <2>1, <2>2 DEF t
<1> HIDE DEF l
<1>12. \A q \in Segs : SameXfers(q)
    <2>1. SameXfers(s)
        BY <1>5, <1>11 DEF SameXfers, SameXfer, l
    <2> QED
        BY <1>10, <2>1 DEF SameXfers, SameXfer
<1>13. TypeRing'
    <2>1. ASSUME NEW i \in 0..(DescMax - 1), i \in mine
          PROVE  d(i) \in Desc
        <3>1. sw_desc_idx[s] + (i - desc_idx) \in Nat /\ l + 1 \in Nat
            BY <1>3, <1>4, <1>5, <2>1
        <3>2. (i = desc_idx + n - 1) \in BOOLEAN
            OBVIOUS
        <3> QED
            BY <1>2, <1>9, <3>1, <3>2 DEF Desc
    <2>2. desc' \in [0..(DescMax - 1) -> Desc \cup {NoDesc}]
        BY <1>1, <2>1 DEF MoveInv, TypeRing
    <2>3. overrun' \in BOOLEAN
        BY <1>1
    <2> QED
        BY <1>1, <2>2, <2>3 DEF MoveInv, TypeRing, hwVars
<1>14. SplitInv'
    <2>1. ASSUME NEW q \in Segs
          PROVE  SplitInv!1!(q)'
        <3>1. CASE q = s
            <4>1. CASE l = 0
                BY <1>6, <1>7, <1>10, <1>11, <1>3, <3>1, <4>1
            <4>2. CASE l = 1
                <5>1. tfer'[s][1].num = sw_desc_idx[s] /\ tfer'[s][2] = x /\ Len(tfer'[s]) = 2
                    BY <1>6, <1>11, <4>2
                <5> QED
                    BY <1>7, <1>10, <3>1, <5>1
            <4> QED
                BY <1>5, <4>1, <4>2
        <3>2. CASE q # s
            <4>1. pc[q[1]] = "init" /\ Cur(q[1]) = q => q[1] # a /\ q[1] \in Iocbs
                BY <3>2, SegFacts DEF s
            <4>2. pc[q[1]] = "init" /\ Cur(q[1]) = q => pc'[q[1]] = "init" /\ Cur(q[1])' = q
                BY <1>8, <4>1
            <4>3. tfer'[q] = tfer[q] /\ sw_desc_idx'[q] = sw_desc_idx[q]
                  /\ sw_desc_cnt' = sw_desc_cnt
                BY <1>1, <1>10, <3>2
            <4> QED
                BY <4>2, <4>3 DEF MoveInv, SplitInv
        <3> QED
            BY <3>1, <3>2
    <2>2. ASSUME NEW i \in 1..Len(transfer_list)
          PROVE  tfer'[transfer_list[i][1]][transfer_list[i][2]].state # "NEW"
        <3>1. /\ transfer_list[i][1] \in Segs
              /\ transfer_list[i][2] \in 1..Len(tfer[transfer_list[i][1]])
              /\ tfer[transfer_list[i][1]][transfer_list[i][2]].state # "NEW"
            BY ListedSegs DEF AioInv, ListInv, MoveInv, SplitInv
        <3>2. CASE transfer_list[i][1] = s
            BY <1>11, <3>1, <3>2 DEF l
        <3>3. CASE transfer_list[i][1] # s
            BY <1>10, <3>1, <3>3
        <3> QED
            BY <3>2, <3>3
    <2> QED
        BY <1>1, <2>1, <2>2 DEF SplitInv
<1>15. ASSUME ~overrun'
       PROVE  RingInv' /\ RunInv' /\ TransferMoved' /\ CountedMoved'
    <2>1. /\ \A i \in mine : ~InUse(desc[i])
          /\ RingInv /\ RunInv /\ TransferMoved /\ CountedMoved /\ TypeAio
        BY <1>1, <1>15 DEF MoveInv, AioInv
    <2>2. RingInv'
        <3> SUFFICES ASSUME NEW q \in Segs, req[q] = "live", NEW j \in 1..Len(tfer'[q])
                     PROVE  /\ tfer'[q][j].index + tfer'[q][j].num <= DescMax
                            /\ \A k \in 0..(tfer'[q][j].num - 1) :
                                 desc'[tfer'[q][j].index + k] = DescOf(q, j, k)'
            BY <1>1 DEF RingInv
        <3>1. CASE j \in 1..Len(tfer[q])
            <4>1. /\ tfer'[q][j].index = tfer[q][j].index
                  /\ tfer'[q][j].num = tfer[q][j].num
                  /\ \A k : DescOf(q, j, k)' = DescOf(q, j, k)
                BY <1>12, <2>1, <3>1, PlaceKept DEF SameXfers, SameXfer
            <4>2. /\ tfer[q][j].index \in Nat /\ tfer[q][j].num \in Nat
                  /\ tfer[q][j].index + tfer[q][j].num <= DescMax
                BY <2>1, <3>1, XferFacts DEF RingInv
            <4>3. ASSUME NEW k \in 0..(tfer[q][j].num - 1)
                  PROVE  desc'[tfer[q][j].index + k] = DescOf(q, j, k)
                <5>1. desc[tfer[q][j].index + k] = DescOf(q, j, k)
                    BY <2>1, <3>1, <4>3 DEF RingInv
                <5>2. k \in Nat /\ tfer[q][j].index + k \in 0..(DescMax - 1)
                    <6>1. PICK at, num : at = tfer[q][j].index /\ num = tfer[q][j].num
                        OBVIOUS
                    <6>2. /\ at \in Nat /\ num \in Nat /\ DescMax \in Nat /\ at + num <= DescMax
                          /\ k \in 0..(num - 1)
                        BY <1>4, <4>2, <6>1
                    <6>3. k \in Nat /\ at + k \in 0..(DescMax - 1)
                        BY <6>2
                    <6> QED
                        BY <6>1, <6>3
                <5>3. DescOf(q, j, k).seg = q /\ DescOf(q, j, k) # NoDesc
                    <6>1. TypeAio /\ j \in 1..Len(tfer[q]) /\ k \in Nat
                        BY <2>1, <3>1, <5>2
                    <6>2. DescOf(q, j, k).seg = q
                        BY <6>1, DescOfFacts
                    <6>3. DescOf(q, j, k) # NoDesc
                        BY <6>1, DescOfFacts
                    <6> QED
                        BY <6>2, <6>3
                <5>4. InUse(desc[tfer[q][j].index + k])
                    BY <5>1, <5>3 DEF InUse
                <5>5. tfer[q][j].index + k \notin mine
                    BY <2>1, <5>4
                <5> QED
                    BY <1>1, <5>1, <5>2, <5>5
            <4> QED
                BY <4>1, <4>2, <4>3
        <3>2. CASE j \notin 1..Len(tfer[q])
            <4>1. q = s
                BY <1>10, <3>2
            <4>2. j = l + 1
                BY <1>5, <1>11, <3>2, <4>1 DEF l
            <4>3. tfer'[q][j].index = desc_idx /\ tfer'[q][j].num = n
                BY <1>7, <1>11, <4>1, <4>2
            <4>4. Base(q, j)' = sw_desc_idx[s]
                <5>1. CASE l = 0
                    BY <1>6, <4>2, <5>1 DEF Base
                <5>2. CASE l = 1
                    BY <1>6, <1>11, <4>1, <4>2, <5>2 DEF Base
                <5> QED
                    BY <1>5, <5>1, <5>2
            <4>5. ASSUME NEW k \in 0..(n - 1)
                  PROVE  desc'[desc_idx + k] = DescOf(q, j, k)'
                <5>1. desc_idx + k \in mine /\ desc_idx + k \in 0..(DescMax - 1)
                    BY <1>3, <1>4, <4>5
                <5>2. desc'[desc_idx + k] = d(desc_idx + k)
                    BY <1>1, <5>1
                <5>3. (desc_idx + k) - desc_idx = k
                    BY <1>4, <4>5
                <5>4. (desc_idx + k = desc_idx + n - 1) <=> (k + 1 = n)
                    BY <1>3, <1>4, <4>5
                <5>5. (desc_idx + k = desc_idx + n - 1) = (k + 1 = n)
                    BY <5>4
                <5>6. d(desc_idx + k) = [seg |-> s, j |-> l + 1, k |-> sw_desc_idx[s] + k,
                                         stop |-> (k + 1 = n)]
                    BY <1>9, <5>3, <5>5
                <5>7. DescOf(q, j, k)' = [seg |-> s, j |-> l + 1,
                                          k |-> sw_desc_idx[s] + k, stop |-> (k + 1 = n)]
                    BY <4>1, <4>2, <4>3, <4>4 DEF DescOf
                <5> QED
                    BY <5>2, <5>6, <5>7
            <4> QED
                BY <1>3, <4>1, <4>2, <4>3, <4>5
        <3> QED
            BY <3>1, <3>2
    <2>3. RunInv'
        BY <1>1, <1>12, <2>1, RunKept
    <2>4. TransferMoved'
        <3>1. ASSUME NEW q \in Segs, NEW j \in 1..Len(tfer'[q]), tfer'[q][j].state = "COMPLETED"
              PROVE  j \in 1..Len(tfer[q]) /\ tfer[q][j].state = "COMPLETED"
            <4>1. CASE q = s
                <5>1. j # l + 1
                    BY <1>7, <1>11, <3>1, <4>1
                <5>2. j \in 1..l
                    BY <1>5, <1>11, <4>1, <5>1
                <5> QED
                    BY <1>11, <3>1, <4>1, <5>2 DEF l
            <4>2. CASE q # s
                BY <1>10, <3>1, <4>2
            <4> QED
                BY <4>1, <4>2
        <3>2. \A q \in Segs : moved[q] \subseteq moved'[q]
            BY <1>1 DEF hwVars
        <3> QED
            BY <1>12, <2>1, <3>1, <3>2, MovedKept
    <2>5. CountedMoved'
        BY <1>1, <2>1, CountedKept DEF MoveInv, TypeRing, hwVars
    <2> QED
        BY <2>2, <2>3, <2>4, <2>5
<1>16. \A q \in Segs : IsFiniteSet(moved'[q])
    BY <1>1 DEF MoveInv, hwVars
<1> QED
    BY <1>13, <1>14, <1>15, <1>16 DEF MoveInv

(* engine_start() on an idle engine: the hardware begins with the head.    *)
LEMMA StartRuns ==
    ASSUME AioInv', transfer_list' # <<>>, EngineStart(transfer_list', tfer'),
           hw_fly' = NoDesc, hw_status' = {}, ~lock', ~offline'
    PROVE  RunInv' /\ hw_next' \in 0..DescMax /\ hw_count' \in Nat /\ running' \in BOOLEAN
<1> DEFINE s == transfer_list[1][1]
           j == transfer_list[1][2]
<1>1. 1 \in 1..Len(transfer_list')
    BY DEF AioInv, TypeAio
<1>2. transfer_list'[1] \in Segs \X Nat
    BY <1>1 DEF AioInv, TypeAio
<1>3. s' \in Segs /\ j' \in 1..Len(tfer'[s'])
    BY <1>1, <1>2 DEF AioInv, ListInv
<1>4. tfer'[s'] \in Seq(Xfer)
    BY <1>3 DEF AioInv, TypeAio
<1>5. tfer'[s'][j'] \in Xfer
    BY <1>3, <1>4
<1>6. /\ tfer'[s'][j'].num \in Nat /\ tfer'[s'][j'].num >= 1
      /\ tfer'[s'][j'].index \in Nat /\ tfer'[s'][j'].index < DescMax
    BY <1>5, DescMaxAssumption DEF Xfer
<1>7. /\ running' = TRUE /\ desc_dequeued' = 0 /\ hw_count' = 0
      /\ hw_next' = tfer'[s'][j'].index
    BY DEF EngineStart
<1> HIDE DEF s, j
<1>8. AtTransfer(s, j)'
    BY <1>6, <1>7 DEF AtTransfer
<1>9. AtHead'
    BY <1>7, <1>8 DEF AtHead, s, j
<1>10. RunInv'
    BY <1>7, <1>9 DEF RunInv
<1> QED
    BY <1>6, <1>7, <1>10, DescMaxAssumption

(* transfer_queue(): the head stays, or an idle engine starts with it.     *)
LEMMA TransferQueueMoves ==
    ASSUME AioInv, MoveInv, NEW a \in Iocbs, TransferQueue(a)
    PROVE  MoveInv'
<1> DEFINE s == Cur(a)
           l == Len(tfer[s])
           more == sw_desc_idx[s] < sw_desc_cnt[s]
<1>1. /\ UNCHANGED <<req, sw_desc_cnt, sw_desc_idx, desc, overrun, lock, offline,
                     hw_fly, hw_status, moved, res>>
      /\ pc[a] = "queue" /\ ~lock /\ ~offline
      /\ pc' = [pc EXCEPT ![a] = IF more THEN "init" ELSE "segment"]
      /\ seg' = [seg EXCEPT ![a] = IF more THEN @ ELSE @ + 1]
      /\ tfer' = [tfer EXCEPT ![s][l].state = "SUBMITTED"]
      /\ transfer_list' = Append(transfer_list, <<s, l>>)
      /\ QueueStart(transfer_list', tfer')
    BY DEF TransferQueue, Goto, caioVars, reqVars, ringVars
<1>2. s \in Segs /\ s[1] = a /\ sw_desc_idx[s] <= sw_desc_cnt[s] /\ l >= 1
    BY <1>1, CurIsSegment DEF AioInv, BuildInv, Building
<1>3. AioInv'
    BY TransferQueueKeeps
<1>4. /\ tfer[s] \in Seq(Xfer) /\ l \in Nat /\ l \in 1..l
      /\ sw_desc_idx[s] \in Nat /\ sw_desc_cnt[s] \in Nat
    BY <1>2, XferFacts DEF AioInv, TypeAio
<1>5. \A b \in Iocbs : b # a => pc'[b] = pc[b] /\ Cur(b)' = Cur(b)
    BY <1>1 DEF AioInv, TypeAio, Cur
<1>6. more => pc'[a] = "init" /\ Cur(a)' = s
    BY <1>1 DEF AioInv, TypeAio, Cur
<1> HIDE DEF s, l, more
<1>7. /\ tfer'[s] = [tfer[s] EXCEPT ![l].state = "SUBMITTED"]
      /\ \A q \in Segs : q # s => tfer'[q] = tfer[q]
    BY <1>1, <1>2 DEF AioInv, TypeAio
<1>8. /\ Len(tfer'[s]) = Len(tfer[s])
      /\ \A j \in 1..Len(tfer[s]) :
           /\ tfer'[s][j].index = tfer[s][j].index
           /\ tfer'[s][j].num = tfer[s][j].num
           /\ j # l => tfer'[s][j] = tfer[s][j]
      /\ tfer'[s][l].state = "SUBMITTED"
    <2>1. tfer[s][l] \in Xfer
        BY <1>4 DEF l
    <2>2. /\ [tfer[s][l] EXCEPT !.state = "SUBMITTED"].index = tfer[s][l].index
          /\ [tfer[s][l] EXCEPT !.state = "SUBMITTED"].num = tfer[s][l].num
          /\ [tfer[s][l] EXCEPT !.state = "SUBMITTED"].state = "SUBMITTED"
        BY <2>1 DEF Xfer
    <2>3. /\ Len(tfer'[s]) = Len(tfer[s])
          /\ tfer'[s][l] = [tfer[s][l] EXCEPT !.state = "SUBMITTED"]
          /\ \A j \in 1..Len(tfer[s]) : j # l => tfer'[s][j] = tfer[s][j]
        BY <1>4, <1>7 DEF l
    <2> QED
        BY <2>2, <2>3
<1>9. \A q \in Segs : SameXfers(q) /\ Len(tfer'[q]) = Len(tfer[q])
    BY <1>7, <1>8 DEF SameXfers, SameXfer
<1>10. /\ Len(transfer_list) \in Nat
       /\ Len(transfer_list') = Len(transfer_list) + 1
       /\ \A i \in 1..Len(transfer_list) : transfer_list'[i] = transfer_list[i]
       /\ transfer_list'[Len(transfer_list) + 1] = <<s, l>>
       /\ transfer_list' # <<>>
    <2>1. transfer_list \in Seq(Segs \X Nat) /\ <<s, l>> \in Segs \X Nat
        BY <1>2, <1>4 DEF AioInv, TypeAio
    <2> QED
        BY <1>1, <2>1
<1>11. SplitInv'
    <2>1. ASSUME NEW q \in Segs
          PROVE  SplitInv!1!(q)'
        <3>1. CASE q = s
            <4>1. sw_desc_idx[s] = sw_desc_cnt[s] \/ more
                BY <1>2, <1>4 DEF more
            <4>2. sw_desc_idx'[q] = sw_desc_cnt'[q] \/ (pc'[q[1]] = "init" /\ Cur(q[1])' = q)
                <5>1. q[1] = a /\ sw_desc_idx' = sw_desc_idx /\ sw_desc_cnt' = sw_desc_cnt
                    BY <1>1, <1>2, <3>1
                <5> QED
                    BY <1>6, <3>1, <4>1, <5>1
            <4>3. Len(tfer[s]) = 1 => 1 \in 1..Len(tfer[s])
                OBVIOUS
            <4>4. Len(tfer[s]) = 2 => 1 \in 1..Len(tfer[s]) /\ 2 \in 1..Len(tfer[s])
                OBVIOUS
            <4>5. Len(tfer[s]) = 2 => tfer'[s][2].state = "SUBMITTED"
                BY <1>8 DEF l
            <4> QED
                BY <1>1, <1>8, <3>1, <4>2, <4>3, <4>4, <4>5 DEF MoveInv, SplitInv
        <3>2. CASE q # s
            <4>1. pc[q[1]] = "init" /\ Cur(q[1]) = q => q[1] # a /\ q[1] \in Iocbs
                BY <1>1, SegFacts
            <4>2. pc[q[1]] = "init" /\ Cur(q[1]) = q => pc'[q[1]] = "init" /\ Cur(q[1])' = q
                BY <1>5, <4>1
            <4> QED
                BY <1>1, <1>7, <3>2, <4>2 DEF MoveInv, SplitInv
        <3> QED
            BY <3>1, <3>2
    <2>2. ASSUME NEW i \in 1..Len(transfer_list')
          PROVE  tfer'[transfer_list'[i][1]][transfer_list'[i][2]].state # "NEW"
        <3>1. CASE i = Len(transfer_list) + 1
            BY <1>8, <1>10, <3>1
        <3>2. CASE i \in 1..Len(transfer_list)
            <4>1. /\ transfer_list[i][1] \in Segs
                  /\ transfer_list[i][2] \in 1..Len(tfer[transfer_list[i][1]])
                  /\ tfer[transfer_list[i][1]][transfer_list[i][2]].state # "NEW"
                  /\ transfer_list'[i] = transfer_list[i]
                BY <1>10, <3>2, ListedSegs DEF AioInv, ListInv, MoveInv, SplitInv
            <4>2. CASE transfer_list[i][1] = s
                BY <1>8, <4>1, <4>2
            <4>3. CASE transfer_list[i][1] # s
                BY <1>7, <4>1, <4>3
            <4> QED
                BY <4>2, <4>3
        <3> QED
            BY <1>10, <3>1, <3>2
    <2> QED
        BY <2>1, <2>2 DEF SplitInv
<1>12. TypeRing'
    <2>1. running' \in BOOLEAN /\ hw_next' \in 0..DescMax /\ hw_count' \in Nat
        <3>1. CASE running
            BY <1>1, <3>1 DEF QueueStart, MoveInv, TypeRing
        <3>2. CASE ~running
            <4>1. EngineStart(transfer_list', tfer')
                BY <1>1, <3>2 DEF QueueStart
            <4>2. 1 \in 1..Len(transfer_list')
                BY <1>10
            <4>3. transfer_list'[1] \in Segs \X Nat
                BY <1>3, <4>2 DEF AioInv, TypeAio
            <4>4. transfer_list'[1][2] \in 1..Len(tfer'[transfer_list'[1][1]])
                BY <1>3, <4>2 DEF AioInv, ListInv
            <4>5. tfer'[transfer_list'[1][1]] \in Seq(Xfer)
                BY <1>3, <4>3 DEF AioInv, TypeAio
            <4>6. tfer'[transfer_list'[1][1]][transfer_list'[1][2]] \in Xfer
                BY <4>4, <4>5
            <4> QED
                BY <4>1, <4>6, DescMaxAssumption DEF EngineStart, Xfer
        <3> QED
            BY <3>1, <3>2
    <2> QED
        BY <1>1, <2>1 DEF MoveInv, TypeRing
<1>13. \A q \in Segs : IsFiniteSet(moved'[q])
    BY <1>1 DEF MoveInv
<1>14. ASSUME ~overrun
       PROVE  RingInv' /\ RunInv' /\ TransferMoved' /\ CountedMoved'
    <2>1. RingInv /\ RunInv /\ TransferMoved /\ CountedMoved /\ TypeAio
        BY <1>14 DEF MoveInv, AioInv
    <2>2. RingInv'
        BY <1>1, <1>9, <2>1, RingKept
    <2>3. RunInv'
        <3>1. CASE running
            <4>1. UNCHANGED <<running, desc_dequeued, lock, offline, hwVars>>
                BY <1>1, <3>1 DEF QueueStart, hwVars
            <4>2. transfer_list # <<>> =>
                    transfer_list' # <<>> /\ transfer_list'[1] = transfer_list[1]
                BY <1>10, HeadFacts
            <4> QED
                BY <1>9, <2>1, <4>1, <4>2, RunKept
        <3>2. CASE ~running
            <4>1. hw_fly = NoDesc /\ hw_status = {}
                BY <1>1, <2>1, <3>2 DEF RunInv, Busy
            <4>2. EngineStart(transfer_list', tfer')
                BY <1>1, <3>2 DEF QueueStart
            <4> QED
                BY <1>1, <1>3, <1>10, <4>1, <4>2, StartRuns
        <3> QED
            BY <3>1, <3>2
    <2>4. TransferMoved'
        <3>1. ASSUME NEW q \in Segs, NEW j \in 1..Len(tfer'[q]), tfer'[q][j].state = "COMPLETED"
              PROVE  j \in 1..Len(tfer[q]) /\ tfer[q][j].state = "COMPLETED"
            BY <1>7, <1>8, <1>9, <3>1
        <3> QED
            BY <1>1, <1>9, <2>1, <3>1, MovedKept
    <2>5. CountedMoved'
        BY <1>1, <1>13, <2>1, CountedKept DEF MoveInv, TypeRing
    <2> QED
        BY <2>2, <2>3, <2>4, <2>5
<1> QED
    BY <1>1, <1>11, <1>12, <1>13, <1>14 DEF MoveInv

(* The steps of the interrupt, the PCI core and the hardware: the calls,   *)
(* their transfers and the ring stay.                                      *)
LEMMA EngineMoves ==
    ASSUME AioInv, MoveInv,
           UNCHANGED <<callVars, reqVars, tfer, desc, overrun, transfer_list, res>>,
           TypeRing', \A s \in Segs : IsFiniteSet(moved'[s]),
           \A s \in Segs : moved[s] \subseteq moved'[s],
           ~overrun => RunInv'
    PROVE  MoveInv'
<1> USE DEF MoveInv, callVars, reqVars
<1>1. SplitInv'
    BY SplitKept
<1>2. \A s \in Segs : SameXfers(s)
    BY DEF SameXfers, SameXfer
<1>3. ASSUME ~overrun
      PROVE  RingInv' /\ TransferMoved' /\ CountedMoved'
    <2>1. TypeAio /\ RingInv /\ TransferMoved /\ CountedMoved
        BY <1>3 DEF AioInv
    <2>2. RingInv'
        BY <1>2, <2>1, RingKept
    <2>3. TransferMoved'
        BY <1>2, <2>1, MovedKept
    <2>4. CountedMoved'
        BY <2>1, CountedKept DEF TypeRing
    <2> QED
        BY <2>2, <2>3, <2>4
<1> QED
    BY <1>1, <1>3

(* engine_service() comes to an engine that has stopped at the head.       *)
LEMMA ServiceStatusMoves ==
    ASSUME AioInv, MoveInv, ServiceStatus
    PROVE  MoveInv'
<1>1. /\ UNCHANGED <<callVars, reqVars, tfer, desc, overrun, transfer_list, res,
                     desc_dequeued, offline, hw_next, hw_fly, hw_count, moved>>
      /\ hw_status # {} /\ hw_status' = {} /\ ~lock
      /\ \/ ~running /\ UNCHANGED <<running, lock>>
         \/ /\ running /\ lock' = TRUE
            /\ running' = FALSE \/ running' = running
    BY DEF ServiceStatus, caioVars, ringVars
<1>2. TypeRing'
    BY <1>1 DEF MoveInv, TypeRing
<1>3. /\ \A s \in Segs : IsFiniteSet(moved'[s])
      /\ \A s \in Segs : moved[s] \subseteq moved'[s]
    BY <1>1 DEF MoveInv
<1>4. ASSUME ~overrun PROVE RunInv'
    <2>1. RunInv
        BY <1>4 DEF MoveInv
    <2>2. (Busy' <=> Busy) /\ (AtHead' <=> AtHead)
        BY <1>1 DEF Busy, AtHead, AtTransfer, Base, DescOf
    <2>3. CASE ~running
        BY <1>1, <2>1, <2>2, <2>3 DEF RunInv
    <2>4. CASE running
        <3>1. transfer_list # <<>> /\ ~offline /\ AtHead /\ ~Busy
            BY <1>1, <2>1, <2>4 DEF RunInv
        <3> QED
            BY <1>1, <2>2, <2>4, <3>1 DEF RunInv
    <2> QED
        BY <2>3, <2>4
<1> QED
    BY <1>1, <1>2, <1>3, <1>4, EngineMoves

(* engine_service() finds that no descriptor was completed.                *)
LEMMA ServiceIdleMoves ==
    ASSUME AioInv, MoveInv, ServiceCount, hw_count = 0
    PROVE  MoveInv'
<1>1. /\ UNCHANGED <<callVars, reqVars, tfer, desc, overrun, transfer_list, res,
                     desc_dequeued, offline, running, hw_next, hw_fly, hw_count,
                     hw_status, moved>>
      /\ lock /\ lock' = FALSE
    BY DEF ServiceCount, caioVars, reqVars
<1>2. TypeRing'
    BY <1>1 DEF MoveInv, TypeRing
<1>3. /\ \A s \in Segs : IsFiniteSet(moved'[s])
      /\ \A s \in Segs : moved[s] \subseteq moved'[s]
    BY <1>1 DEF MoveInv
<1>4. ASSUME ~overrun PROVE RunInv'
    <2>1. RunInv
        BY <1>4 DEF MoveInv
    <2>2. (Busy' <=> Busy) /\ (AtHead' <=> AtHead)
        BY <1>1 DEF Busy, AtHead, AtTransfer, Base, DescOf
    <2> QED
        BY <1>1, <2>1, <2>2 DEF RunInv
<1> QED
    BY <1>1, <1>2, <1>3, <1>4, EngineMoves

(* The PCI core stops the engine and resets it.                            *)
LEMMA OfflineMoves ==
    ASSUME AioInv, MoveInv, Offline \/ Online
    PROVE  MoveInv'
<1>1. /\ UNCHANGED <<callVars, reqVars, tfer, desc, overrun, transfer_list, res,
                     lock, moved>>
      /\ \/ /\ ~lock /\ offline' = TRUE /\ running' = FALSE /\ hw_next' = DescMax
            /\ UNCHANGED <<hw_fly, hw_count, hw_status>>
         \/ /\ offline /\ offline' = FALSE /\ UNCHANGED <<running, hw_next>>
            /\ hw_fly' = NoDesc /\ hw_count' = 0 /\ hw_status' = {}
    BY DEF Offline, Online, caioVars, reqVars, ringVars, engVars
<1>2. TypeRing'
    <2>1. running' \in BOOLEAN /\ offline' \in BOOLEAN
        BY <1>1 DEF MoveInv, TypeRing
    <2>2. hw_next' \in 0..DescMax
        BY <1>1, DescMaxAssumption DEF MoveInv, TypeRing
    <2>3. hw_count' \in Nat
        BY <1>1 DEF MoveInv, TypeRing
    <2>4. hw_fly' \in Desc \cup {NoDesc}
        <3>1. hw_fly \in Desc \cup {NoDesc}
            BY DEF MoveInv, TypeRing
        <3> QED
            BY <1>1, <3>1
    <2>5. hw_status' \subseteq {"DESC", "ERR"}
        <3>1. hw_status \subseteq {"DESC", "ERR"}
            BY DEF MoveInv, TypeRing
        <3> QED
            BY <1>1, <3>1
    <2> QED
        BY <1>1, <2>1, <2>2, <2>3, <2>4, <2>5 DEF MoveInv, TypeRing
<1>3. /\ \A s \in Segs : IsFiniteSet(moved'[s])
      /\ \A s \in Segs : moved[s] \subseteq moved'[s]
    BY <1>1 DEF MoveInv
<1>4. ASSUME ~overrun PROVE RunInv'
    <2>1. RunInv
        BY <1>4 DEF MoveInv
    <2> QED
        BY <1>1, <2>1 DEF RunInv, Busy
<1> QED
    BY <1>1, <1>2, <1>3, <1>4, EngineMoves

(* While the hardware is busy on a device that is online, the engine runs  *)
(* at the head of the list and has reported nothing.                       *)
LEMMA BusyAtHead ==
    ASSUME AioInv, RunInv, Busy, ~offline
    PROVE  /\ running /\ ~lock /\ hw_status = {} /\ transfer_list # <<>> /\ AtHead
           /\ transfer_list[1][1] \in Segs
           /\ transfer_list[1][2] \in 1..Len(tfer[transfer_list[1][1]])
<1>1. /\ running /\ ~lock /\ hw_status = {} /\ transfer_list # <<>> /\ AtHead
    BY DEF RunInv
<1> QED
    BY <1>1, HeadFacts

(* The hardware fetches the descriptor it is at.                           *)
LEMMA HwFetchMoves ==
    ASSUME AioInv, MoveInv, ~Dangling, HwFetch
    PROVE  MoveInv'
<1>1. /\ UNCHANGED <<callVars, reqVars, tfer, desc, overrun, transfer_list, res,
                     running, desc_dequeued, lock, offline, hw_count, moved>>
      /\ hw_next # DescMax /\ hw_fly = NoDesc
      /\ hw_fly' = desc[hw_next]
      /\ \/ /\ desc[hw_next] = NoDesc
            /\ hw_next' = DescMax
            /\ hw_status' = hw_status \cup {"ERR"}
         \/ /\ desc[hw_next] # NoDesc
            /\ hw_next' = IF desc[hw_next].stop THEN DescMax ELSE hw_next + 1
            /\ UNCHANGED hw_status
    BY DEF HwFetch, caioVars, reqVars, ringVars, engVars
<1>2. TypeRing'
    <2>1. hw_next \in 0..(DescMax - 1) /\ DescMax \in Nat
        BY <1>1, DescMaxAssumption DEF MoveInv, TypeRing
    <2>2. hw_fly' \in Desc \cup {NoDesc} /\ hw_next' \in 0..DescMax
        BY <1>1, <2>1 DEF MoveInv, TypeRing
    <2> QED
        BY <1>1, <2>2 DEF MoveInv, TypeRing
<1>3. /\ \A s \in Segs : IsFiniteSet(moved'[s])
      /\ \A s \in Segs : moved[s] \subseteq moved'[s]
    BY <1>1 DEF MoveInv
<1>4. ASSUME ~overrun PROVE RunInv'
    <2>1. RunInv /\ RingInv
        BY <1>4 DEF MoveInv
    <2>2. Busy /\ ~offline
        BY <1>1, <2>1 DEF RunInv, Busy
    <2>3. PICK s \in Segs : \E j \in 1..Len(tfer[s]) :
            s = transfer_list[1][1] /\ j = transfer_list[1][2]
        BY <2>1, <2>2, BusyAtHead
    <2>4. PICK j \in 1..Len(tfer[s]) : s = transfer_list[1][1] /\ j = transfer_list[1][2]
        BY <2>3
    <2>5. /\ running /\ ~lock /\ hw_status = {} /\ transfer_list # <<>> /\ AtHead
        BY <2>1, <2>2, BusyAtHead
    <2>6. AtTransfer(s, j) /\ desc_dequeued = 0
        BY <2>4, <2>5 DEF AtHead
    <2>7. /\ tfer[s][j].num \in Nat /\ tfer[s][j].index \in Nat /\ hw_count \in Nat
        BY XferFacts DEF AioInv, MoveInv, TypeRing
    <2>8. hw_count < tfer[s][j].num /\ hw_next = tfer[s][j].index + hw_count
        <3>1. hw_fly # DescOf(s, j, hw_count)
            BY <1>1, <2>7, DescOfFacts DEF AioInv
        <3> QED
            BY <2>2, <2>6, <3>1 DEF AtTransfer
    <2>9. req[s] = "live"
        BY <2>4, <2>5, HeadFacts DEF Dangling, Listed
    <2>10. desc[hw_next] = DescOf(s, j, hw_count)
        BY <2>1, <2>7, <2>8, <2>9 DEF RingInv
    <2>11. /\ desc[hw_next] # NoDesc
           /\ desc[hw_next].stop <=> hw_count + 1 = tfer[s][j].num
        BY <2>7, <2>10, DescOfFacts DEF AioInv
    <2>12. AtTransfer(s, j)'
        <3>1. /\ Base(s, j)' = Base(s, j)
              /\ \A k : DescOf(s, j, k)' = DescOf(s, j, k)
            BY <1>1 DEF Base, DescOf
        <3>2. /\ hw_fly' = DescOf(s, j, hw_count)
              /\ hw_next' = IF hw_count + 1 = tfer[s][j].num THEN DescMax
                            ELSE tfer[s][j].index + hw_count + 1
            BY <1>1, <2>7, <2>8, <2>10, <2>11
        <3> QED
            BY <1>1, <2>6, <2>8, <3>1, <3>2 DEF AtTransfer
    <2>13. AtHead' /\ hw_status' = {}
        BY <1>1, <2>4, <2>5, <2>6, <2>11, <2>12 DEF AtHead
    <2> QED
        BY <1>1, <2>2, <2>5, <2>13 DEF RunInv
<1> QED
    BY <1>1, <1>2, <1>3, <1>4, EngineMoves

(* The hardware has moved the descriptor it is at, or fails to.            *)
LEMMA HwCompleteMoves ==
    ASSUME AioInv, MoveInv, HwComplete
    PROVE  MoveInv'
<1>1. /\ UNCHANGED <<callVars, reqVars, tfer, desc, overrun, transfer_list, res,
                     running, desc_dequeued, lock, offline, hw_next>>
      /\ hw_fly # NoDesc /\ hw_fly' = NoDesc
      /\ moved' = [moved EXCEPT ![hw_fly.seg] = @ \cup {hw_fly.k}]
      /\ hw_count' = hw_count + 1
      /\ hw_status' = IF hw_fly.stop THEN hw_status \cup {"DESC"} ELSE hw_status
    BY DEF HwComplete, caioVars, reqVars, ringVars, engVars
<1>2. hw_fly \in Desc /\ hw_fly.seg \in Segs /\ hw_fly.k \in Nat
    BY <1>1 DEF MoveInv, TypeRing, Desc
<1>3. /\ moved'[hw_fly.seg] = moved[hw_fly.seg] \cup {hw_fly.k}
      /\ \A s \in Segs : s # hw_fly.seg => moved'[s] = moved[s]
    BY <1>1, <1>2 DEF MoveInv, TypeRing
<1>4. TypeRing'
    <2>1. moved' \in [Segs -> SUBSET Nat]
        BY <1>1, <1>2 DEF MoveInv, TypeRing
    <2>2. hw_count' \in Nat /\ hw_status' \subseteq {"DESC", "ERR"}
        BY <1>1 DEF MoveInv, TypeRing
    <2> QED
        BY <1>1, <2>1, <2>2 DEF MoveInv, TypeRing
<1>5. \A s \in Segs : moved[s] \subseteq moved'[s]
    BY <1>3
<1>6. \A s \in Segs : IsFiniteSet(moved'[s])
    <2>1. \A s \in Segs : IsFiniteSet(moved[s])
        BY DEF MoveInv
    <2>2. IsFiniteSet(moved[hw_fly.seg] \cup {hw_fly.k})
        BY <1>2, <2>1, FS_AddElement
    <2> QED
        BY <1>3, <2>1, <2>2
<1>7. ASSUME ~overrun PROVE RunInv'
    <2>1. RunInv
        BY <1>7 DEF MoveInv
    <2>2. CASE offline
        BY <1>1, <2>1, <2>2 DEF RunInv
    <2>3. CASE ~offline
        <3>1. Busy
            BY <1>1 DEF Busy
        <3>2. PICK s \in Segs : \E j \in 1..Len(tfer[s]) :
                s = transfer_list[1][1] /\ j = transfer_list[1][2]
            BY <2>1, <2>3, <3>1, BusyAtHead
        <3>3. PICK j \in 1..Len(tfer[s]) :
                s = transfer_list[1][1] /\ j = transfer_list[1][2]
            BY <3>2
        <3>4. /\ running /\ ~lock /\ hw_status = {} /\ transfer_list # <<>> /\ AtHead
            BY <2>1, <2>3, <3>1, BusyAtHead
        <3>5. AtTransfer(s, j) /\ desc_dequeued = 0
            BY <3>3, <3>4 DEF AtHead
        <3>6. /\ tfer[s][j].num \in Nat /\ tfer[s][j].index \in Nat /\ hw_count \in Nat
              /\ Base(s, j) \in Nat
            BY XferFacts DEF AioInv, MoveInv, TypeRing
        <3>7. /\ hw_count < tfer[s][j].num /\ hw_fly = DescOf(s, j, hw_count)
              /\ hw_next = IF hw_count + 1 = tfer[s][j].num THEN DescMax
                           ELSE tfer[s][j].index + hw_count + 1
            BY <1>1, <3>1, <3>5 DEF AtTransfer
        <3>8. /\ hw_fly.seg = s /\ hw_fly.k = Base(s, j) + hw_count
              /\ hw_fly.stop <=> hw_count + 1 = tfer[s][j].num
            <4>1. /\ DescOf(s, j, hw_count).seg = s
                  /\ DescOf(s, j, hw_count).k = Base(s, j) + hw_count
                  /\ DescOf(s, j, hw_count).stop <=> hw_count + 1 = tfer[s][j].num
                <5>1. TypeAio
                    BY DEF AioInv
                <5>2. hw_count \in Nat
                    BY <3>6
                <5>3. DescOf(s, j, hw_count).seg = s
                    BY <5>1, <5>2, DescOfFacts
                <5>4. DescOf(s, j, hw_count).k = Base(s, j) + hw_count
                    BY <5>1, <5>2, DescOfFacts
                <5>5. DescOf(s, j, hw_count).stop <=> hw_count + 1 = tfer[s][j].num
                    BY <5>1, <5>2, DescOfFacts
                <5> QED
                    BY <5>3, <5>4, <5>5
            <4> QED
                BY <3>7, <4>1
        <3>9. Base(s, j)' = Base(s, j)
            BY <1>1 DEF Base
        <3>10. \A k \in 0..(hw_count' - 1) : Base(s, j) + k \in moved'[s]
            <4> SUFFICES ASSUME NEW k \in 0..(hw_count' - 1)
                         PROVE  Base(s, j) + k \in moved'[s]
                OBVIOUS
            <4>1. CASE k = hw_count
                BY <1>3, <3>8, <4>1
            <4>2. CASE k \in 0..(hw_count - 1)
                BY <1>5, <3>5, <4>2 DEF AtTransfer
            <4> QED
                BY <1>1, <3>6, <4>1, <4>2
        <3>11. hw_count' <= tfer[s][j].num
            BY <1>1, <3>6, <3>7
        <3>12. CASE hw_count + 1 = tfer[s][j].num
            <4>1. ~Busy'
                BY <1>1, <3>7, <3>12 DEF Busy
            <4>2. AtTransfer(s, j)'
                BY <1>1, <3>9, <3>10, <3>11, <4>1 DEF AtTransfer
            <4>3. AtHead'
                BY <1>1, <3>3, <3>5, <4>2 DEF AtHead
            <4> QED
                BY <1>1, <2>3, <3>4, <4>1, <4>3 DEF RunInv
        <3>13. CASE hw_count + 1 # tfer[s][j].num
            <4>1. hw_count' < tfer[s][j].num /\ hw_next' = tfer[s][j].index + hw_count'
                <5>1. hw_next' = tfer[s][j].index + hw_count + 1
                    BY <1>1, <3>7, <3>13
                <5>2. hw_count' = hw_count + 1 /\ hw_count < tfer[s][j].num
                    BY <1>1, <3>7
                <5>3. PICK n, i : n = tfer[s][j].num /\ i = tfer[s][j].index
                    OBVIOUS
                <5>4. n \in Nat /\ i \in Nat /\ hw_count \in Nat /\ hw_count < n /\ hw_count + 1 # n
                    BY <3>6, <3>13, <5>2, <5>3
                <5>5. hw_count + 1 < n /\ i + hw_count + 1 = i + (hw_count + 1)
                    BY <5>4
                <5> QED
                    BY <5>1, <5>2, <5>3, <5>5
            <4>2. AtTransfer(s, j)'
                BY <1>1, <3>9, <3>10, <3>11, <4>1 DEF AtTransfer
            <4>3. AtHead' /\ hw_status' = {}
                BY <1>1, <3>3, <3>4, <3>5, <3>8, <3>13, <4>2 DEF AtHead
            <4> QED
                BY <1>1, <2>3, <3>4, <4>3 DEF RunInv
        <3> QED
            BY <3>12, <3>13
    <2> QED
        BY <2>2, <2>3
<1> QED
    BY <1>1, <1>4, <1>5, <1>6, <1>7, EngineMoves

(* Moving the data fails: the engine stops at the head.                    *)
LEMMA HwErrorMoves ==
    ASSUME AioInv, MoveInv, HwError
    PROVE  MoveInv'
<1>1. /\ UNCHANGED <<callVars, reqVars, tfer, desc, overrun, transfer_list, res,
                     running, desc_dequeued, lock, offline, hw_count, moved>>
      /\ hw_fly # NoDesc /\ hw_fly' = NoDesc /\ hw_next' = DescMax
      /\ hw_status' = hw_status \cup {"ERR"}
    BY DEF HwError, caioVars, reqVars, ringVars, engVars
<1>2. TypeRing'
    BY <1>1, DescMaxAssumption DEF MoveInv, TypeRing
<1>3. /\ \A s \in Segs : IsFiniteSet(moved'[s])
      /\ \A s \in Segs : moved[s] \subseteq moved'[s]
    BY <1>1 DEF MoveInv
<1>4. ASSUME ~overrun PROVE RunInv'
    <2>1. RunInv
        BY <1>4 DEF MoveInv
    <2>2. ~Busy'
        BY <1>1 DEF Busy
    <2>3. CASE offline
        BY <1>1, <2>1, <2>3 DEF RunInv
    <2>4. CASE ~offline
        <3>1. Busy
            BY <1>1 DEF Busy
        <3>2. /\ running /\ ~lock /\ transfer_list # <<>> /\ AtHead
            BY <2>1, <2>4, <3>1, BusyAtHead
        <3>3. AtHead'
            BY <1>1, <2>2, <3>2 DEF AtHead, AtTransfer, Base
        <3> QED
            BY <1>1, <2>2, <2>4, <3>2, <3>3 DEF RunInv
    <2> QED
        BY <2>3, <2>4
<1> QED
    BY <1>1, <1>2, <1>3, <1>4, EngineMoves

(* The state in which the service leaves q's transfer j.                   *)
Outcome(p, st, q, j) ==
    IF \E i \in 1..p : transfer_list[i] = <<q, j>> THEN "COMPLETED"
    ELSE IF p < Len(transfer_list) /\ transfer_list[p + 1] = <<q, j>> THEN st
    ELSE tfer[q][j].state

(* The service changes nothing else of a transfer.                         *)
LEMMA SettledXfer ==
    ASSUME TypeAio, NEW p, NEW st, NEW q \in Segs, NEW j \in 1..Len(tfer[q])
    PROVE  /\ Settled(p, st)[q][j].index = tfer[q][j].index
           /\ Settled(p, st)[q][j].num = tfer[q][j].num
           /\ Settled(p, st)[q][j].state = Outcome(p, st, q, j)
<1> DEFINE x == IF \E i \in 1..p : transfer_list[i] = <<q, j>>
                THEN [tfer[q][j] EXCEPT !.state = "COMPLETED"]
                ELSE IF p < Len(transfer_list) /\ transfer_list[p + 1] = <<q, j>>
                THEN [tfer[q][j] EXCEPT !.state = st]
                ELSE tfer[q][j]
<1>1. Settled(p, st)[q][j] = x
    BY DEF Settled
<1>2. tfer[q][j] \in Xfer
    BY XferFacts
<1>3. \A t : /\ [tfer[q][j] EXCEPT !.state = t].index = tfer[q][j].index
             /\ [tfer[q][j] EXCEPT !.state = t].num = tfer[q][j].num
             /\ [tfer[q][j] EXCEPT !.state = t].state = t
    BY <1>2 DEF Xfer
<1> QED
    BY <1>1, <1>3 DEF Outcome

(* The descriptors that xdma_xfer_completion() counts are finitely many.   *)
LEMMA CountedFinite ==
    ASSUME NEW t \in Seq(Xfer)
    PROVE  /\ Good(t) \subseteq 1..Len(t) /\ Destroyed(t) \subseteq 1..Len(t)
           /\ IsFiniteSet(CountedDescs(t))
<1>1. Len(t) \in Nat /\ DescMax \in Nat
    BY DescMaxAssumption
<1>2. Good(t) \subseteq 1..Len(t) /\ Destroyed(t) \subseteq 1..Len(t)
    BY DEF Good, Destroyed
<1>3. IsFiniteSet(1..Len(t)) /\ IsFiniteSet(1..DescMax)
    BY <1>1, UpTo
<1>4. IsFiniteSet((1..Len(t)) \X (1..DescMax))
    BY <1>3, FS_Product
<1>5. CountedDescs(t) \subseteq (1..Len(t)) \X (1..DescMax)
    BY <1>2 DEF CountedDescs
<1> QED
    BY <1>2, <1>4, <1>5, FS_Subset

(* The hardware has completed no more than the head of the list: the       *)
(* service passes over no transfer.                                        *)
LEMMA PassesNone ==
    ASSUME AioInv, transfer_list # <<>>, NEW c \in Nat, c <= Num(transfer_list[1])
    PROVE  DescsThrough(0) = 0 /\ PassedOver(c) = 0
<1> DEFINE upTo(j) == {p \in (1..j) \X (1..DescMax) : p[2] <= Num(transfer_list[p[1]])}
           n == Num(transfer_list[1])
<1>1. n \in 1..DescMax
    BY HeadFacts, XferFacts DEF AioInv, Num
<1>2. DescMax \in Nat /\ n \in Nat
    BY <1>1, DescMaxAssumption
<1>3. DescsThrough(0) = 0
    <2>1. upTo(0) = {}
        OBVIOUS
    <2> QED
        BY <2>1, FS_EmptySet DEF DescsThrough
<1>4. ASSUME NEW j \in 1..Len(transfer_list)
      PROVE  ~(c > DescsThrough(j))
    <2>1. j \in Nat /\ j >= 1
        BY DEF AioInv, TypeAio
    <2>2. IsFiniteSet(1..j) /\ IsFiniteSet(1..DescMax)
        BY <1>2, <2>1, UpTo
    <2>3. IsFiniteSet((1..j) \X (1..DescMax))
        BY <2>2, FS_Product
    <2>4. upTo(j) \in SUBSET ((1..j) \X (1..DescMax))
        OBVIOUS
    <2>5. IsFiniteSet(upTo(j))
        BY <2>3, <2>4, FS_Subset
    <2> DEFINE first == {1} \X (1..n)
    <2>6. first \in SUBSET upTo(j)
        <3>1. ASSUME NEW p \in first PROVE p \in upTo(j)
            <4>1. p = <<1, p[2]>> /\ p[1] = 1 /\ p[2] \in 1..n
                OBVIOUS
            <4>2. p[2] \in 1..DescMax /\ p[2] <= n /\ 1 \in 1..j
                BY <1>1, <1>2, <2>1, <4>1
            <4> HIDE DEF first, n
            <4>3. p \in (1..j) \X (1..DescMax)
                BY <4>1, <4>2
            <4>4. p[2] <= Num(transfer_list[p[1]])
                BY <4>1, <4>2 DEF n
            <4> QED
                BY <4>3, <4>4
        <3> QED
            BY <3>1
    <2>7. Cardinality(first) = n
        <3>1. IsFiniteSet({1}) /\ Cardinality({1}) = 1
            BY FS_Singleton
        <3>2. IsFiniteSet(1..n) /\ Cardinality(1..n) = n
            BY <1>2, UpTo
        <3>3. Cardinality(first) = Cardinality({1}) * Cardinality(1..n)
            BY <3>1, <3>2, FS_Product
        <3> HIDE DEF n, first
        <3>4. Cardinality({1}) * Cardinality(1..n) = n
            BY <1>2, <3>1, <3>2
        <3> QED
            BY <3>3, <3>4
    <2> HIDE DEF first, upTo
    <2>8. Cardinality(first) <= Cardinality(upTo(j)) /\ Cardinality(upTo(j)) \in Nat
        BY <2>5, <2>6, FS_Subset, FS_CardinalityType
    <2>9. DescsThrough(j) = Cardinality(upTo(j))
        BY DEF DescsThrough, upTo
    <2> HIDE DEF n
    <2>10. c <= n
        BY DEF n
    <2> QED
        BY <1>2, <2>7, <2>8, <2>9, <2>10
<1>5. {j \in 1..Len(transfer_list) : c > DescsThrough(j)} = {}
    BY <1>4
<1> QED
    BY <1>3, <1>5, FS_EmptySet DEF PassedOver

(* Whatever the service settles, it leaves how the segments are cut.       *)
LEMMA ServiceSplits ==
    ASSUME AioInv, SplitInv, ~Overflown, NEW count, ServiceTransfers(count),
           UNCHANGED <<callVars, sw_desc_cnt, sw_desc_idx>>
    PROVE  /\ SplitInv' /\ \A q \in Segs : SameXfers(q) /\ Len(tfer'[q]) = Len(tfer[q])
<1>1. PICK n \in 0..Len(transfer_list) :
        /\ tfer' \in [Segs -> Seq(Xfer)]
        /\ \A q \in Segs : Len(tfer'[q]) = Len(tfer[q])
        /\ transfer_list' = SubSeq(transfer_list, n + 1, Len(transfer_list))
    BY ServiceShape DEF AioInv
<1> DEFINE p == PassedOver(count)
           st == IF p < Len(transfer_list)
                 THEN FinalState(count - DescsThrough(p), Num(transfer_list[p + 1]))
                 ELSE "COMPLETED"
<1>2. tfer' = Settled(p, st)
    BY DEF ServiceTransfers
<1>3. st \in {"COMPLETED", "FAILED"}
    BY DEF FinalState
<1>4. p \in 0..Len(transfer_list) /\ Len(transfer_list) \in Nat
    BY PassedOverBounds DEF AioInv, TypeAio
<1> HIDE DEF p, st
<1>5. ASSUME NEW q \in Segs, NEW j \in 1..Len(tfer[q])
      PROVE  /\ tfer'[q][j].index = tfer[q][j].index
             /\ tfer'[q][j].num = tfer[q][j].num
             /\ \/ tfer'[q][j].state = tfer[q][j].state
                \/ /\ tfer'[q][j].state # "NEW"
                   /\ \E i \in 1..Len(transfer_list) : transfer_list[i] = <<q, j>>
    <2>1. /\ tfer'[q][j].index = tfer[q][j].index
          /\ tfer'[q][j].num = tfer[q][j].num
          /\ tfer'[q][j].state = Outcome(p, st, q, j)
        BY <1>2, SettledXfer DEF AioInv
    <2>2. 1..p \subseteq 1..Len(transfer_list)
        BY <1>4
    <2>3. p < Len(transfer_list) => p + 1 \in 1..Len(transfer_list)
        BY <1>4
    <2> QED
        BY <1>3, <2>1, <2>2, <2>3 DEF Outcome
<1>6. \A q \in Segs : SameXfers(q) /\ Len(tfer'[q]) = Len(tfer[q])
    BY <1>1, <1>5 DEF SameXfers, SameXfer
<1>7. ASSUME NEW i \in 1..Len(transfer_list)
      PROVE  /\ transfer_list[i][1] \in Segs
             /\ transfer_list[i][2] \in 1..Len(tfer[transfer_list[i][1]])
             /\ tfer'[transfer_list[i][1]][transfer_list[i][2]].state # "NEW"
    <2>1. /\ transfer_list[i][1] \in Segs
          /\ transfer_list[i][2] \in 1..Len(tfer[transfer_list[i][1]])
          /\ tfer[transfer_list[i][1]][transfer_list[i][2]].state # "NEW"
        BY ListedSegs DEF AioInv, ListInv, SplitInv
    <2> QED
        BY <1>5, <2>1
<1>8. SplitInv!2'
    <2> SUFFICES ASSUME NEW k \in 1..Len(transfer_list')
                 PROVE  tfer'[transfer_list'[k][1]][transfer_list'[k][2]].state # "NEW"
        OBVIOUS
    <2>1. transfer_list \in Seq(Segs \X Nat) /\ Len(transfer_list) \in Nat
        BY DEF AioInv, TypeAio
    <2>2. /\ Len(transfer_list') = Len(transfer_list) - n
          /\ \A i \in 1..(Len(transfer_list) - n) : transfer_list'[i] = transfer_list[i + n]
        BY <1>1, <2>1, RestFacts
    <2>3. k + n \in 1..Len(transfer_list) /\ transfer_list'[k] = transfer_list[k + n]
        BY <2>1, <2>2
    <2> QED
        BY <1>7, <2>3
<1>9. ASSUME NEW q \in Segs
      PROVE  SplitInv!1!(q)'
    <2>1. /\ pc' = pc /\ Cur(q[1])' = Cur(q[1]) /\ Len(tfer'[q]) = Len(tfer[q])
          /\ sw_desc_idx' = sw_desc_idx /\ sw_desc_cnt' = sw_desc_cnt
        BY <1>1 DEF callVars, Cur
    <2>2. Len(tfer[q]) = 1 => tfer'[q][1].num = tfer[q][1].num
        BY <1>5
    <2>3. Len(tfer[q]) = 2 => /\ tfer'[q][1].num = tfer[q][1].num
                              /\ tfer'[q][2].num = tfer[q][2].num
        BY <1>5
    <2>4. ASSUME Len(tfer[q]) = 2, tfer'[q][2].state # "NEW"
          PROVE  sw_desc_idx[q] = sw_desc_cnt[q]
        <3>1. 2 \in 1..Len(tfer[q])
            BY <2>4
        <3>2. \A i \in 1..Len(transfer_list) : transfer_list[i] = <<q, 2>> =>
                tfer[q][2].state # "NEW"
            BY DEF SplitInv
        <3>3. tfer[q][2].state # "NEW"
            BY <1>5, <2>4, <3>1, <3>2
        <3>4. ~(pc[q[1]] = "init" /\ Cur(q[1]) = q)
            BY <2>4, SegFacts DEF Overflown
        <3> QED
            BY <2>4, <3>3, <3>4 DEF SplitInv
    <2> QED
        BY <2>1, <2>2, <2>3, <2>4 DEF SplitInv
<1> QED
    BY <1>6, <1>8, <1>9 DEF SplitInv

(* The service adds to res what its segments have counted.                 *)
LEMMA ServiceTypes ==
    ASSUME AioInv, MoveInv, ~Dangling, ServiceCount, hw_count # 0
    PROVE  TypeRing' /\ AioInv'
<1>1. /\ UNCHANGED <<callVars, sw_desc_cnt, sw_desc_idx, desc_idx, overrun, offline,
                     hw_fly, hw_status, moved>>
      /\ lock' = FALSE
      /\ ServiceTransfers(hw_count - desc_dequeued)
    BY DEF ServiceCount
<1>2. AioInv'
    BY <1>1, ServiceKeeps
<1>3. PICK n \in 0..Len(transfer_list) :
        /\ tfer' \in [Segs -> Seq(Xfer)]
        /\ AsyncIoHandler(Ended(n), tfer')
    BY <1>1, ServiceShape DEF AioInv
<1>4. res' \in [Iocbs -> Nat]
    <2>1. ASSUME NEW a \in Iocbs
          PROVE  Counted({s \in Ended(n) : s[1] = a}, tfer') \in Nat
        <3> DEFINE S == {s \in Ended(n) : s[1] = a}
                   m == [s \in S |-> CountedDescs(tfer'[s])]
        <3>1. S \subseteq {s \in Segs : s[1] = a}
            BY EndedFacts
        <3>2. \A s \in S : IsFiniteSet(m[s])
            BY <1>3, <3>1, CountedFinite
        <3>3. Counted(S, tfer') = Cardinality(OfEach(S, m))
            BY DEF Counted
        <3> HIDE DEF S, m
        <3>4. Cardinality(OfEach(S, m)) \in Nat
            BY <3>1, <3>2, FiniteMoved
        <3> QED
            BY <3>3, <3>4 DEF S
    <2>2. res' = [a \in Iocbs |-> res[a] + Counted({s \in Ended(n) : s[1] = a}, tfer')]
        BY <1>3 DEF AsyncIoHandler, XferCompletion
    <2> QED
        BY <2>1, <2>2 DEF MoveInv, TypeRing
<1>5. desc' \in [0..(DescMax - 1) -> Desc \cup {NoDesc}]
    BY <1>3 DEF AsyncIoHandler, XferCompletion, MoveInv, TypeRing
<1>6. running' \in BOOLEAN /\ hw_next' \in 0..DescMax /\ hw_count' \in Nat
    <2>1. PICK on \in BOOLEAN : \E deq : ServiceResume(transfer_list', tfer', on, deq)
        BY <1>1 DEF ServiceTransfers
    <2>2. CASE transfer_list' # <<>> /\ ~on
        <3>1. EngineStart(transfer_list', tfer')
            BY <2>1, <2>2 DEF ServiceResume
        <3>2. /\ transfer_list'[1][1] \in Segs
              /\ transfer_list'[1][2] \in 1..Len(tfer'[transfer_list'[1][1]])
            <4>1. 1 \in 1..Len(transfer_list')
                BY <1>2, <2>2 DEF AioInv, TypeAio
            <4>2. transfer_list'[1] \in Segs \X Nat
                BY <1>2, <4>1 DEF AioInv, TypeAio
            <4> QED
                BY <1>2, <4>1, <4>2 DEF AioInv, ListInv
        <3>3. tfer'[transfer_list'[1][1]][transfer_list'[1][2]] \in Xfer
            BY <1>3, <3>2
        <3> QED
            BY <3>1, <3>3, DescMaxAssumption DEF EngineStart, Xfer
    <2>3. CASE ~(transfer_list' # <<>> /\ ~on)
        <3>1. /\ running' = (on /\ transfer_list' # <<>>)
              /\ hw_next' = IF transfer_list' = <<>> THEN DescMax ELSE hw_next
              /\ hw_count' = hw_count
            BY <2>1, <2>3 DEF ServiceResume
        <3>2. running' \in BOOLEAN
            BY <3>1
        <3> QED
            BY <3>1, <3>2, DescMaxAssumption DEF MoveInv, TypeRing
    <2> QED
        BY <2>2, <2>3
<1>7. TypeRing'
    BY <1>1, <1>4, <1>5, <1>6 DEF MoveInv, TypeRing
<1> QED
    BY <1>2, <1>7

(* A service of an engine that stopped at the head settles the head alone. *)
LEMMA SettlesHead ==
    ASSUME AioInv, MoveInv, ~overrun, ServiceCount, hw_count # 0
    PROVE  /\ transfer_list # <<>> /\ AtHead /\ ~Busy /\ hw_status = {} /\ ~offline
           /\ AsyncIoHandler(Ended(1), tfer')
           /\ transfer_list' = SubSeq(transfer_list, 2, Len(transfer_list))
           /\ \E on \in BOOLEAN : \E deq : ServiceResume(transfer_list', tfer', on, deq)
           /\ \A q \in Segs : \A j \in 1..Len(tfer[q]) :
                tfer'[q][j].state = "COMPLETED" =>
                    \/ tfer[q][j].state = "COMPLETED"
                    \/ transfer_list[1] = <<q, j>> /\ hw_count = tfer[q][j].num
<1>1. ServiceTransfers(hw_count - desc_dequeued) /\ lock
    BY DEF ServiceCount
<1>2. transfer_list # <<>> /\ AtHead /\ ~Busy /\ hw_status = {} /\ ~offline
    BY <1>1 DEF MoveInv, RunInv
<1> DEFINE num == Num(transfer_list[1])
           st == FinalState(hw_count, num)
<1>3. /\ hw_count \in Nat /\ num \in Nat /\ hw_count <= num
      /\ hw_count - desc_dequeued = hw_count /\ hw_count - 0 = hw_count
    <2>1. hw_count \in Nat /\ desc_dequeued = 0 /\ hw_count <= num
        BY <1>2 DEF MoveInv, TypeRing, AtHead, AtTransfer, Num
    <2>2. num \in Nat
        BY <1>2, HeadFacts, XferFacts DEF AioInv, Num
    <2> QED
        BY <2>1, <2>2
<1>4. DescsThrough(0) = 0 /\ PassedOver(hw_count) = 0
    BY <1>2, <1>3, PassesNone
<1>5. Len(transfer_list) \in Nat /\ 0 < Len(transfer_list)
    BY <1>2 DEF AioInv, TypeAio
<1>6. /\ tfer' = Settled(0, st)
      /\ AsyncIoHandler(Ended(1), tfer')
      /\ transfer_list' = SubSeq(transfer_list, 2, Len(transfer_list))
    BY <1>1, <1>3, <1>4, <1>5 DEF ServiceTransfers
<1>7. \E on \in BOOLEAN : \E deq : ServiceResume(transfer_list', tfer', on, deq)
    BY <1>1 DEF ServiceTransfers
<1>8. ASSUME NEW q \in Segs, NEW j \in 1..Len(tfer[q]), tfer'[q][j].state = "COMPLETED",
             tfer[q][j].state # "COMPLETED"
      PROVE  transfer_list[1] = <<q, j>> /\ hw_count = tfer[q][j].num
    <2>1. Outcome(0, st, q, j) = "COMPLETED"
        BY <1>6, <1>8, SettledXfer DEF AioInv
    <2>2. transfer_list[1] = <<q, j>> /\ st = "COMPLETED"
        BY <1>8, <2>1 DEF Outcome
    <2>3. num = tfer[q][j].num
        BY <2>2 DEF Num
    <2>4. ~(hw_count < num)
        BY <2>2 DEF FinalState
    <2> QED
        BY <1>3, <2>2, <2>3, <2>4
<1> QED
    BY <1>2, <1>6, <1>7, <1>8

(* What an ended segment counts was moved: its COMPLETED transfers.        *)
LEMMA CountedWasMoved ==
    ASSUME TypeAio, NEW s \in Segs, NEW t \in Seq(Xfer),
           Len(t) = Len(tfer[s]), Len(t) <= 2,
           \A j \in 1..Len(t) : t[j].num = tfer[s][j].num,
           \A j \in 1..Len(t) : t[j].state = "COMPLETED" =>
                \A k \in 0..(t[j].num - 1) : Base(s, j) + k \in moved[s]
    PROVE  \A p \in CountedDescs(t) :
             /\ p = <<p[1], p[2]>> /\ p[1] \in {1, 2} /\ p[2] \in Nat
             /\ Base(s, p[1]) \in Nat /\ Base(s, p[1]) + p[2] - 1 \in moved[s]
             /\ \A q \in CountedDescs(t) :
                  Base(s, p[1]) + p[2] - 1 = Base(s, q[1]) + q[2] - 1 => p = q
<1>1. ASSUME NEW p \in CountedDescs(t)
      PROVE  /\ p = <<p[1], p[2]>> /\ p[1] \in 1..Len(t) /\ p[1] \in {1, 2}
             /\ p[2] \in Nat /\ p[2] >= 1 /\ p[2] <= t[p[1]].num
             /\ Base(s, p[1]) \in Nat /\ Base(s, p[1]) + p[2] - 1 \in moved[s]
             /\ p[1] = 1 => Base(s, p[1]) = 0 /\ p[2] <= tfer[s][1].num
             /\ p[1] = 2 => Base(s, p[1]) = tfer[s][1].num
             /\ tfer[s][1].num \in Nat
    <2>1. p \in Good(t) \X (1..DescMax) /\ p[2] <= t[p[1]].num
        BY DEF CountedDescs
    <2>2. p = <<p[1], p[2]>> /\ p[1] \in Good(t) /\ p[2] \in 1..DescMax
        BY <2>1
    <2>3. DescMax \in Nat /\ Len(t) \in Nat
        BY DescMaxAssumption
    <2>4. p[1] \in 1..Len(t) /\ t[p[1]].state = "COMPLETED"
        <3>1. p[1] \in 1..Len(t) /\ \A i \in 1..p[1] : t[i].state = "COMPLETED"
            BY <2>2 DEF Good
        <3>2. p[1] \in 1..p[1]
            BY <2>3, <3>1
        <3> QED
            BY <3>1, <3>2
    <2>5. p[1] \in {1, 2}
        BY <2>3, <2>4
    <2>6. /\ Base(s, p[1]) \in Nat /\ t[p[1]].num \in Nat
          /\ tfer[s][1].num \in Nat /\ t[p[1]].num = tfer[s][p[1]].num
        BY <2>4, XferFacts
    <2>7. p[2] \in Nat /\ p[2] >= 1
        BY <2>2, <2>3
    <2>8. Base(s, p[1]) + (p[2] - 1) \in moved[s]
        <3>1. p[2] - 1 \in 0..(t[p[1]].num - 1)
            BY <2>1, <2>6, <2>7
        <3> QED
            BY <2>4, <3>1
    <2>9. Base(s, p[1]) + (p[2] - 1) = Base(s, p[1]) + p[2] - 1
        BY <2>6, <2>7
    <2>10. /\ p[1] = 1 => Base(s, p[1]) = 0 /\ p[2] <= tfer[s][1].num
           /\ p[1] = 2 => Base(s, p[1]) = tfer[s][1].num
        BY <2>1, <2>6 DEF Base
    <2> QED
        BY <2>1, <2>2, <2>4, <2>5, <2>6, <2>7, <2>8, <2>9, <2>10
<1>2. ASSUME NEW p \in CountedDescs(t), NEW q \in CountedDescs(t),
             Base(s, p[1]) + p[2] - 1 = Base(s, q[1]) + q[2] - 1
      PROVE  p = q
    <2> DEFINE n == tfer[s][1].num
               p1 == p[1]  p2 == p[2]  q1 == q[1]  q2 == q[2]
               bp == Base(s, p1)  bq == Base(s, q1)
    <2>1. /\ p = <<p1, p2>> /\ p1 \in {1, 2} /\ p2 \in Nat /\ p2 >= 1
          /\ p1 = 1 => bp = 0 /\ p2 <= n
          /\ p1 = 2 => bp = n
          /\ n \in Nat
        BY <1>1
    <2>2. /\ q = <<q1, q2>> /\ q1 \in {1, 2} /\ q2 \in Nat /\ q2 >= 1
          /\ q1 = 1 => bq = 0 /\ q2 <= n
          /\ q1 = 2 => bq = n
        BY <1>1
    <2>3. bp + p2 - 1 = bq + q2 - 1
        BY <1>2
    <2> HIDE DEF n, p1, p2, q1, q2, bp, bq
    <2>4. p1 = q1 /\ p2 = q2
        <3>1. CASE p1 = 1 /\ q1 = 1
            BY <2>1, <2>2, <2>3, <3>1
        <3>2. CASE p1 = 1 /\ q1 = 2
            BY <2>1, <2>2, <2>3, <3>2
        <3>3. CASE p1 = 2 /\ q1 = 1
            BY <2>1, <2>2, <2>3, <3>3
        <3>4. CASE p1 = 2 /\ q1 = 2
            BY <2>1, <2>2, <2>3, <3>4
        <3> QED
            BY <2>1, <2>2, <3>1, <3>2, <3>3, <3>4
    <2> QED
        BY <2>1, <2>2, <2>4
<1> QED
    BY <1>1, <1>2

(* A segment that has ended adds no more to res than was moved for it.     *)
LEMMA CountedGrows ==
    ASSUME AioInv, AioInv', MoveInv, CountedMoved, NEW E, E \subseteq Segs,
           \A s \in E : req[s] = "live",
           AsyncIoHandler(E, tfer'), moved' = moved,
           \A s \in Segs : SameXfers(s) /\ Len(tfer'[s]) = Len(tfer[s]),
           TransferMoved'
    PROVE  CountedMoved'
<1> SUFFICES ASSUME NEW a \in Iocbs
             PROVE  res'[a] <= Cardinality(OfEach(DoneSegs(a)', moved'))
    BY DEF CountedMoved
<1> DEFINE S == {s \in E : s[1] = a}
           m == [s \in S |-> CountedDescs(tfer'[s])]
           old == OfEach(DoneSegs(a), moved)
           new == OfEach(S, moved)
           f == [p \in OfEach(S, m) |->
                    <<p[1], Base(p[1], p[2][1]) + p[2][2] - 1>>]
<1>1. /\ res'[a] = res[a] + Counted(S, tfer')
      /\ req' = [s \in Segs |-> IF s \in E THEN "done" ELSE req[s]]
      /\ Counted(S, tfer') = Cardinality(OfEach(S, m))
    BY DEF AsyncIoHandler, XferCompletion, Counted
<1>2. /\ DoneSegs(a)' = DoneSegs(a) \cup S /\ DoneSegs(a) \cap S = {}
      /\ DoneSegs(a) \subseteq {s \in Segs : s[1] = a}
      /\ S \subseteq {s \in Segs : s[1] = a}
    BY <1>1 DEF DoneSegs
<1>3. ASSUME NEW s \in S
      PROVE  /\ m[s] = CountedDescs(tfer'[s])
             /\ IsFiniteSet(m[s])
             /\ \A p \in m[s] :
                  /\ p = <<p[1], p[2]>> /\ Base(s, p[1]) + p[2] - 1 \in moved[s]
                  /\ \A q \in m[s] :
                       Base(s, p[1]) + p[2] - 1 = Base(s, q[1]) + q[2] - 1 => p = q
    <2>1. s \in Segs /\ TypeAio
        BY <1>2 DEF AioInv
    <2>2. tfer'[s] \in Seq(Xfer) /\ Len(tfer'[s]) = Len(tfer[s]) /\ Len(tfer'[s]) <= 2
        BY <2>1 DEF AioInv, TypeAio, SegInv
    <2>3. \A j \in 1..Len(tfer'[s]) : tfer'[s][j].num = tfer[s][j].num
        BY <2>1, <2>2 DEF SameXfers, SameXfer
    <2>4. ASSUME NEW j \in 1..Len(tfer'[s]), tfer'[s][j].state = "COMPLETED",
                 NEW k \in 0..(tfer'[s][j].num - 1)
          PROVE  Base(s, j) + k \in moved[s]
        <3>1. Base(s, j)' = Base(s, j)
            BY <2>1, <2>2, PlaceKept
        <3>2. Base(s, j)' + k \in moved'[s]
            BY <2>1, <2>4 DEF TransferMoved
        <3> QED
            BY <3>1, <3>2
    <2>5. IsFiniteSet(CountedDescs(tfer'[s]))
        BY <2>2, CountedFinite
    <2>6. PICK t : t = tfer'[s]
        OBVIOUS
    <2>7. /\ t \in Seq(Xfer) /\ Len(t) = Len(tfer[s]) /\ Len(t) <= 2
          /\ \A j \in 1..Len(t) : t[j].num = tfer[s][j].num
          /\ \A j \in 1..Len(t) : t[j].state = "COMPLETED" =>
                \A k \in 0..(t[j].num - 1) : Base(s, j) + k \in moved[s]
        BY <2>2, <2>3, <2>4, <2>6
    <2>8. \A p \in CountedDescs(t) :
             /\ p = <<p[1], p[2]>> /\ Base(s, p[1]) + p[2] - 1 \in moved[s]
             /\ \A q \in CountedDescs(t) :
                  Base(s, p[1]) + p[2] - 1 = Base(s, q[1]) + q[2] - 1 => p = q
        BY <2>1, <2>7, CountedWasMoved
    <2> QED
        BY <2>5, <2>6, <2>8
<1> HIDE DEF S, m
<1>4. /\ IsFiniteSet(OfEach(S, m)) /\ Cardinality(OfEach(S, m)) \in Nat
    BY <1>2, <1>3, FiniteMoved
<1>5. /\ IsFiniteSet(old) /\ Cardinality(old) \in Nat
      /\ IsFiniteSet(new) /\ Cardinality(new) \in Nat
    BY <1>2, FiniteMoved DEF MoveInv
<1>6. f \in Injection(OfEach(S, m), new)
    <2>1. ASSUME NEW p \in OfEach(S, m)
          PROVE  /\ p[1] \in S /\ p[2] \in m[p[1]] /\ p = <<p[1], p[2]>>
                 /\ f[p][1] = p[1] /\ f[p][2] = Base(p[1], p[2][1]) + p[2][2] - 1
                 /\ f[p] \in new
        <3>1. p[1] \in S /\ p[2] \in m[p[1]] /\ p = <<p[1], p[2]>>
            BY OfEachFacts
        <3>2. /\ f[p][1] = p[1] /\ f[p][2] = Base(p[1], p[2][1]) + p[2][2] - 1
              /\ f[p] = <<f[p][1], f[p][2]>>
            OBVIOUS
        <3>3. f[p][2] \in moved[p[1]]
            BY <1>3, <3>1, <3>2
        <3> HIDE DEF f
        <3>4. f[p] \in new
            BY <3>1, <3>2, <3>3, OfEachFacts
        <3> QED
            BY <3>1, <3>2, <3>4
    <2>2. f \in [OfEach(S, m) -> new]
        BY <2>1
    <2> HIDE DEF f, new
    <2>3. ASSUME NEW p \in OfEach(S, m), NEW q \in OfEach(S, m), f[p] = f[q]
          PROVE  p = q
        <3>1. p[1] = q[1] /\ p[2] \in m[p[1]] /\ q[2] \in m[p[1]]
            BY <2>1, <2>3
        <3>2. Base(p[1], p[2][1]) + p[2][2] - 1 = Base(p[1], q[2][1]) + q[2][2] - 1
            BY <2>1, <2>3, <3>1
        <3>3. p[2] = q[2]
            BY <1>3, <2>1, <3>1, <3>2
        <3> QED
            BY <2>1, <3>1, <3>3
    <2> QED
        BY <2>2, <2>3 DEF Injection, IsInjective
<1> HIDE DEF f
<1>7. Cardinality(OfEach(S, m)) <= Cardinality(new)
    BY <1>5, <1>6, FS_Injection
<1>8. OfEach(DoneSegs(a)', moved') = old \cup new
    BY <1>2 DEF OfEach
<1>9. old \cap new = {}
    BY <1>2, OfEachFacts
<1> HIDE DEF old, new
<1>10. Cardinality(old \cup new) = Cardinality(old) + Cardinality(new)
    <2>1. Cardinality(old \cup new) =
            Cardinality(old) + Cardinality(new) - Cardinality(old \cap new)
        BY <1>5, FS_Union
    <2>2. Cardinality(old \cap new) = 0
        BY <1>9, FS_EmptySet
    <2> QED
        BY <1>5, <2>1, <2>2
<1>11. res[a] <= Cardinality(old) /\ res[a] \in Nat
    BY DEF CountedMoved, MoveInv, TypeRing, old
<1> QED
    BY <1>1, <1>4, <1>5, <1>7, <1>8, <1>10, <1>11

(* engine_service() settles the head, ends its segment if it is the last   *)
(* transfer, and goes on with the rest of the list.                        *)
LEMMA ServiceMoves ==
    ASSUME AioInv, MoveInv, ~Undefined, ServiceCount, hw_count # 0
    PROVE  MoveInv'
<1>1. /\ UNCHANGED <<callVars, sw_desc_cnt, sw_desc_idx, overrun, offline,
                     hw_fly, hw_status, moved>>
      /\ lock' = FALSE
      /\ ServiceTransfers(hw_count - desc_dequeued)
    BY DEF ServiceCount
<1>2. TypeRing' /\ AioInv'
    BY ServiceTypes DEF Undefined
<1>3. SplitInv' /\ \A q \in Segs : SameXfers(q) /\ Len(tfer'[q]) = Len(tfer[q])
    BY <1>1, ServiceSplits DEF MoveInv, Undefined
<1>4. ASSUME ~overrun
      PROVE  RingInv' /\ RunInv' /\ TransferMoved' /\ CountedMoved'
    <2>1. RingInv /\ TransferMoved /\ CountedMoved /\ TypeAio
        BY <1>4 DEF MoveInv, AioInv
    <2>2. /\ transfer_list # <<>> /\ AtHead /\ ~Busy /\ hw_status = {} /\ ~offline
          /\ AsyncIoHandler(Ended(1), tfer')
          /\ \E on \in BOOLEAN : \E deq : ServiceResume(transfer_list', tfer', on, deq)
          /\ \A q \in Segs : \A j \in 1..Len(tfer[q]) :
                tfer'[q][j].state = "COMPLETED" =>
                    \/ tfer[q][j].state = "COMPLETED"
                    \/ transfer_list[1] = <<q, j>> /\ hw_count = tfer[q][j].num
        BY <1>4, SettlesHead
    <2> DEFINE E == Ended(1)
    <2>3. \A s \in E : s \in Segs /\ req[s] = "live"
        <3>1. 1 \in 0..Len(transfer_list)
            BY <2>2, HeadFacts
        <3> QED
            BY <3>1, EndedFacts DEF Undefined
    <2> HIDE DEF E
    <2>4. TransferMoved'
        <3> SUFFICES ASSUME NEW q \in Segs, NEW j \in 1..Len(tfer'[q]),
                            tfer'[q][j].state = "COMPLETED",
                            NEW k \in 0..(tfer'[q][j].num - 1)
                     PROVE  Base(q, j)' + k \in moved'[q]
            BY DEF TransferMoved
        <3>1. /\ j \in 1..Len(tfer[q]) /\ Base(q, j)' = Base(q, j)
              /\ k \in 0..(tfer[q][j].num - 1)
            BY <1>3, <2>1, PlaceKept DEF SameXfers, SameXfer
        <3>2. CASE tfer[q][j].state = "COMPLETED"
            BY <1>1, <2>1, <3>1, <3>2 DEF TransferMoved
        <3>3. CASE transfer_list[1] = <<q, j>> /\ hw_count = tfer[q][j].num
            <4>1. AtTransfer(q, j)
                BY <2>2, <3>3 DEF AtHead
            <4> QED
                BY <1>1, <3>1, <3>3, <4>1 DEF AtTransfer
        <3> QED
            BY <2>2, <3>1, <3>2, <3>3
    <2>5. CountedMoved'
        <3>1. E \subseteq Segs /\ \A s \in E : req[s] = "live"
            BY <2>3
        <3>2. AsyncIoHandler(E, tfer') /\ moved' = moved
            BY <1>1, <2>2 DEF E
        <3> QED
            BY <1>2, <1>3, <2>1, <2>4, <3>1, <3>2, CountedGrows
    <2>6. RingInv'
        <3> SUFFICES ASSUME NEW q \in Segs, req'[q] = "live", NEW j \in 1..Len(tfer'[q])
                     PROVE  /\ tfer'[q][j].index + tfer'[q][j].num <= DescMax
                            /\ \A k \in 0..(tfer'[q][j].num - 1) :
                                 desc'[tfer'[q][j].index + k] = DescOf(q, j, k)'
            BY DEF RingInv
        <3> DEFINE cleared == {i \in 0..(DescMax - 1) :
                        \E s \in E : \E g \in Destroyed(tfer'[s]) :
                            tfer'[s][g].index <= i /\ i < tfer'[s][g].index + tfer'[s][g].num}
        <3>1. /\ req' = [s \in Segs |-> IF s \in E THEN "done" ELSE req[s]]
              /\ desc' = [i \in 0..(DescMax - 1) |-> IF i \in cleared THEN NoDesc ELSE desc[i]]
            BY <2>2 DEF AsyncIoHandler, XferCompletion, E
        <3>2. q \notin E /\ req[q] = "live"
            BY <3>1
        <3>3. \A i \in cleared : desc[i].seg \in E
            <4> SUFFICES ASSUME NEW i \in cleared PROVE desc[i].seg \in E
                OBVIOUS
            <4>1. PICK s \in E : \E g \in Destroyed(tfer'[s]) :
                    tfer'[s][g].index <= i /\ i < tfer'[s][g].index + tfer'[s][g].num
                OBVIOUS
            <4>2. PICK g \in Destroyed(tfer'[s]) :
                    tfer'[s][g].index <= i /\ i < tfer'[s][g].index + tfer'[s][g].num
                BY <4>1
            <4>3. i \in Nat /\ s \in Segs /\ req[s] = "live"
                BY <2>3, DescMaxAssumption
            <4>4. g \in 1..Len(tfer[s])
                <5>1. tfer'[s] \in Seq(Xfer) /\ Len(tfer'[s]) = Len(tfer[s])
                    BY <1>2, <1>3, <4>3 DEF AioInv, TypeAio
                <5> QED
                    BY <4>2, <5>1, CountedFinite
            <4>5. /\ tfer'[s][g].index = tfer[s][g].index /\ tfer[s][g].index \in Nat
                  /\ tfer'[s][g].num = tfer[s][g].num /\ tfer[s][g].num \in Nat
                BY <1>3, <2>1, <4>3, <4>4, XferFacts DEF SameXfers, SameXfer
            <4> HIDE DEF cleared
            <4> DEFINE k == i - tfer[s][g].index
            <4>6. k \in Nat /\ k \in 0..(tfer[s][g].num - 1) /\ tfer[s][g].index + k = i
                BY <4>2, <4>3, <4>5
            <4> HIDE DEF k
            <4>7. desc[i] = DescOf(s, g, k)
                BY <2>1, <4>3, <4>4, <4>6 DEF RingInv
            <4>8. DescOf(s, g, k).seg = s
                <5>1. TypeAio /\ s \in Segs /\ g \in 1..Len(tfer[s]) /\ k \in Nat
                    BY <2>1, <4>3, <4>4, <4>6
                <5> QED
                    BY <5>1, DescOfFacts
            <4> QED
                BY <4>1, <4>7, <4>8
        <3> HIDE DEF cleared
        <3>4. /\ j \in 1..Len(tfer[q])
              /\ tfer'[q][j].index = tfer[q][j].index /\ tfer'[q][j].num = tfer[q][j].num
              /\ \A k : DescOf(q, j, k)' = DescOf(q, j, k)
            BY <1>3, <2>1, PlaceKept DEF SameXfers, SameXfer
        <3>5. /\ tfer[q][j].index + tfer[q][j].num <= DescMax
              /\ tfer[q][j].index \in Nat /\ tfer[q][j].num \in Nat
            BY <2>1, <3>2, <3>4, XferFacts DEF RingInv
        <3>6. ASSUME NEW k \in 0..(tfer[q][j].num - 1)
              PROVE  desc'[tfer[q][j].index + k] = DescOf(q, j, k)
            <4>1. desc[tfer[q][j].index + k] = DescOf(q, j, k)
                BY <2>1, <3>2, <3>4, <3>6 DEF RingInv
            <4>2. k \in Nat /\ tfer[q][j].index + k \in 0..(DescMax - 1)
                <5>1. PICK at, num : at = tfer[q][j].index /\ num = tfer[q][j].num
                    OBVIOUS
                <5>2. /\ at \in Nat /\ num \in Nat /\ DescMax \in Nat /\ at + num <= DescMax
                      /\ k \in 0..(num - 1)
                    BY <3>5, DescMaxAssumption, <5>1
                <5>3. k \in Nat /\ at + k \in 0..(DescMax - 1)
                    BY <5>2
                <5> QED
                    BY <5>1, <5>3
            <4>3. DescOf(q, j, k).seg = q
                <5>1. TypeAio /\ j \in 1..Len(tfer[q]) /\ k \in Nat
                    BY <2>1, <3>4, <4>2
                <5> QED
                    BY <5>1, DescOfFacts
            <4>4. tfer[q][j].index + k \notin cleared
                BY <3>2, <3>3, <4>1, <4>3
            <4> QED
                BY <3>1, <4>1, <4>2, <4>4
        <3> QED
            BY <3>4, <3>5, <3>6
    <2>7. RunInv'
        <3>1. PICK on \in BOOLEAN : \E deq : ServiceResume(transfer_list', tfer', on, deq)
            BY <2>2
        <3>2. hw_fly' = NoDesc /\ hw_next = DescMax /\ hw_status' = {} /\ ~offline' /\ ~lock'
            BY <1>1, <2>2 DEF Busy
        <3>3. CASE transfer_list' # <<>> /\ ~on
            <4>1. EngineStart(transfer_list', tfer')
                BY <3>1, <3>3 DEF ServiceResume
            <4> QED
                BY <1>2, <3>2, <3>3, <4>1, StartRuns
        <3>4. CASE ~(transfer_list' # <<>> /\ ~on)
            <4>1. /\ running' = (on /\ transfer_list' # <<>>)
                  /\ hw_next' = IF transfer_list' = <<>> THEN DescMax ELSE hw_next
                BY <3>1, <3>4 DEF ServiceResume
            <4>2. ~Busy' /\ (running' => transfer_list' # <<>>)
                BY <3>2, <4>1 DEF Busy
            <4> QED
                BY <3>2, <4>2 DEF RunInv
        <3> QED
            BY <3>3, <3>4
    <2> QED
        BY <2>4, <2>5, <2>6, <2>7
<1>5. \A q \in Segs : IsFiniteSet(moved'[q])
    BY <1>1 DEF MoveInv
<1> QED
    BY <1>1, <1>2, <1>3, <1>4, <1>5 DEF MoveInv

(* Every step keeps what the ring and the hardware hold.                   *)
LEMMA NextMoves == AioInv /\ MoveInv /\ [Next]_vars => MoveInv'
<1> SUFFICES ASSUME AioInv, MoveInv, [Next]_vars PROVE MoveInv'
    OBVIOUS
<1>1. CASE UNCHANGED vars
    BY <1>1, CallMoves DEF vars, callVars, caioVars, reqVars
<1>2. CASE ~Undefined /\ \E a \in Iocbs : AioStart(a) \/ Submitter(a)
    <2>1. PICK a \in Iocbs : AioStart(a) \/ Submitter(a)
        BY <1>2
    <2>2. ~Overflown
        BY <1>2 DEF Undefined
    <2> QED
        BY <2>1, <2>2, StartMoves, NowaitStartMoves, RefusedMoves, TransferInitMoves,
           TransferQueueMoves DEF Submitter
<1>3. CASE ~Undefined /\ ServiceCount
    <2>1. ~Dangling
        BY <1>3 DEF Undefined
    <2> QED
        BY <1>3, <2>1, ServiceIdleMoves, ServiceMoves
<1>4. CASE ~Undefined /\ (ServiceStatus \/ Offline \/ Online \/ HwFetch \/ HwComplete \/ HwError)
    BY <1>4, ServiceStatusMoves, OfflineMoves, HwFetchMoves, HwCompleteMoves,
       HwErrorMoves DEF Undefined
<1> QED
    BY <1>1, <1>2, <1>3, <1>4 DEF Next, Service, Finished

(* MoveInv, on which the result below rests.                               *)
THEOREM MoveInvariance == Spec => []MoveInv
<1>1. Init => AioInv /\ MoveInv
    BY InitEstablishes, MoveInit
<1>2. AioInv /\ MoveInv /\ [Next]_vars => AioInv' /\ MoveInv'
    BY NextKeeps, NextMoves
<1> QED
    BY <1>1, <1>2, PTL DEF Spec

(* For any number of operations and segments, every ring size and every    *)
(* fault: unless a descriptor in use was overwritten, a transfer that is   *)
(* reported as COMPLETED was moved by the hardware to its last descriptor, *)
(* and an iocb is completed with no more bytes than were moved for it.     *)
THEOREM ReportsWhatMoved == Spec => []ReportedIsMoved
<1>1. ASSUME AioInv, MoveInv, ~overrun
      PROVE  CompletedIsMoved /\ \A a \in Iocbs :
                res[a] <= Cardinality(OfEach({s \in Segs : s[1] = a}, moved))
    <2>1. TransferMoved /\ CountedMoved /\ SplitInv /\ TypeAio /\ SegInv
        BY <1>1 DEF AioInv, MoveInv
    <2>2. CompletedIsMoved
        <3> SUFFICES ASSUME NEW s \in Segs, NEW j \in 1..Len(tfer[s]),
                            tfer[s][j].state = "COMPLETED",
                            NEW k \in 0..(sw_desc_cnt[s] - 1),
                            IF j = 1 THEN k < tfer[s][1].num ELSE k >= tfer[s][1].num
                     PROVE  k \in moved[s]
            BY DEF CompletedIsMoved
        <3>1. /\ tfer[s] \in Seq(Xfer) /\ Len(tfer[s]) \in Nat /\ Len(tfer[s]) <= 2
              /\ 1 \in 1..Len(tfer[s]) /\ tfer[s][j].num \in Nat /\ tfer[s][1].num \in Nat
            BY <2>1, XferFacts DEF SegInv
        <3>2. sw_desc_cnt[s] \in Nat /\ sw_desc_idx[s] \in Nat
            BY <2>1 DEF TypeAio
        <3>3. \A i \in 0..(tfer[s][j].num - 1) : Base(s, j) + i \in moved[s]
            BY <2>1 DEF TransferMoved
        <3>4. CASE j = 1
            <4>1. Base(s, j) = 0 /\ k \in 0..(tfer[s][j].num - 1) /\ Base(s, j) + k = k
                BY <3>1, <3>2, <3>4 DEF Base
            <4> QED
                BY <3>3, <4>1
        <3>5. CASE j # 1
            <4>1. j = 2 /\ Len(tfer[s]) = 2
                <5>1. PICK m : m = Len(tfer[s])
                    OBVIOUS
                <5>2. m \in Nat /\ m <= 2 /\ j \in 1..m
                    BY <3>1, <5>1
                <5>3. j = 2 /\ m = 2
                    BY <3>5, <5>2
                <5> QED
                    BY <5>1, <5>3
            <4>2. tfer[s][2].num \in Nat /\ tfer[s][2].state = "COMPLETED"
                BY <3>1, <4>1
            <4>3. sw_desc_cnt[s] = tfer[s][1].num + tfer[s][2].num
                BY <2>1, <4>1, <4>2 DEF SplitInv
            <4> DEFINE i == k - tfer[s][1].num
            <4>4. i \in 0..(tfer[s][2].num - 1) /\ tfer[s][1].num + i = k
                <5>1. PICK m, n : m = tfer[s][1].num /\ n = tfer[s][2].num
                    OBVIOUS
                <5>2. m \in Nat /\ n \in Nat /\ k \in 0..(m + n - 1) /\ k >= m
                    BY <3>1, <3>5, <4>2, <4>3, <5>1
                <5>3. k - m \in 0..(n - 1) /\ m + (k - m) = k
                    BY <5>2
                <5> QED
                    BY <5>1, <5>3
            <4>5. Base(s, j) = tfer[s][1].num
                BY <3>5 DEF Base
            <4> HIDE DEF i
            <4> QED
                BY <3>3, <4>1, <4>4, <4>5
        <3> QED
            BY <3>4, <3>5
    <2>3. ASSUME NEW a \in Iocbs
          PROVE  res[a] <= Cardinality(OfEach({s \in Segs : s[1] = a}, moved))
        <3> DEFINE mine == {s \in Segs : s[1] = a}
        <3>1. OfEach(DoneSegs(a), moved) \subseteq OfEach(mine, moved)
            BY DEF OfEach, DoneSegs
        <3>2. /\ IsFiniteSet(OfEach(mine, moved))
              /\ Cardinality(OfEach(mine, moved)) \in Nat
            BY <1>1, FiniteMoved DEF MoveInv
        <3>3. /\ Cardinality(OfEach(DoneSegs(a), moved)) <= Cardinality(OfEach(mine, moved))
              /\ Cardinality(OfEach(DoneSegs(a), moved)) \in Nat
            BY <3>1, <3>2, FS_Subset, FS_CardinalityType
        <3>4. res[a] \in Nat /\ res[a] <= Cardinality(OfEach(DoneSegs(a), moved))
            BY <1>1, <2>1 DEF MoveInv, TypeRing, CountedMoved
        <3> HIDE DEF mine
        <3>5. res[a] <= Cardinality(OfEach(mine, moved))
            BY <3>2, <3>3, <3>4
        <3> QED
            BY <3>5 DEF mine
    <2> QED
        BY <2>2, <2>3
<1>2. AioInv /\ MoveInv => ReportedIsMoved
    BY <1>1 DEF ReportedIsMoved
<1> QED
    BY <1>2, AioInvariance, MoveInvariance, PTL
=============================================================================
