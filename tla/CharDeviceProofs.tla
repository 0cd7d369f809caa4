-------------------------- MODULE CharDeviceProofs --------------------------
(***************************************************************************)
(* Proofs about two of the character devices.  UserEvents, for any number  *)
(* of lines, threads and events: no event is lost and no wake-up missed.   *)
(* XvcDevice, for any number of processes, any word size and any lengths:  *)
(* the words of a call are shifted in order and read back.                 *)
(***************************************************************************)
EXTENDS UserEvents, XvcDevice, TLAPS
-----------------------------------------------------------------------------
(* The event device                                                        *)

\* A card without requests and threads outside the driver satisfy the
\* invariant.
LEMMA InitEventInv == EventsInit => EventInv
BY BoundsAssumption DEF EventsInit, EventInv, EventsTypeOK, NoLostEvent, NoMissedWakeup

\* A new event is requested by the card.
LEMMA RaiseStep ==
    ASSUME EventInv, NEW u \in Lines, Raise(u) PROVE EventInv'
<1>1. EventsTypeOK'
  <2>1. raised[u] + 1 \in 0..MaxRaised
    BY BoundsAssumption DEF EventInv, EventsTypeOK, Raise
  <2>2. QED
    BY <2>1 DEF EventInv, EventsTypeOK, Raise, isrVars, readVars
<1>2. NoLostEvent'
  BY DEF EventInv, EventsTypeOK, NoLostEvent, Raise, isrVars
<1>3. NoMissedWakeup'
  BY DEF EventInv, NoMissedWakeup, Raise, readVars
<1>4. QED
  BY <1>1, <1>2, <1>3 DEF EventInv, Raise, isrVars

\* Reading the requests keeps them in the card; clearing them leaves a copy.
LEMMA IsrReadClearStep ==
    ASSUME EventInv, IsrRead \/ IsrClear PROVE EventInv'
<1>1. EventsTypeOK'
  BY DEF EventInv, EventsTypeOK, IsrRead, IsrClear, cardVars, readVars
<1>2. NoLostEvent'
  BY DEF EventInv, EventsTypeOK, NoLostEvent, IsrRead, IsrClear, cardVars
<1>3. NoMissedWakeup'
  BY DEF EventInv, NoMissedWakeup, IsrRead, IsrClear, readVars
<1>4. (isr = "idle" => pending = {})'
  BY DEF IsrRead, IsrClear
<1>5. QED
  BY <1>1, <1>2, <1>3, <1>4 DEF EventInv

\* A line leaves the handler's copy only once its event is noted, and whoever
\* sleeps on it is woken.
LEMMA IsrServeStep ==
    ASSUME EventInv, NEW u \in Lines, IsrServe(u) PROVE EventInv'
<1>1. /\ events_irq' \in [Lines -> {0, 1}]
      /\ rpc' \in [Readers -> {"idle", "check", "sleep", "take", "poll",
                               "returned"}]
  BY DEF EventInv, EventsTypeOK, IsrServe, UserIrqService, WokenBy
<1>2. EventsTypeOK'
  BY <1>1 DEF EventInv, EventsTypeOK, IsrServe, cardVars
<1>3. /\ events_irq'[u] = 1
      /\ \A v \in Lines : v # u => events_irq'[v] = events_irq[v]
  BY DEF EventInv, EventsTypeOK, IsrServe, UserIrqService
<1>4. NoLostEvent'
  BY <1>3 DEF EventInv, EventsTypeOK, NoLostEvent, IsrServe, cardVars
<1>5. NoMissedWakeup'
  <2>1. SUFFICES ASSUME NEW r \in Readers, rpc'[r] = "sleep"
                 PROVE  events_irq'[line[r]] = 0
    BY DEF NoMissedWakeup, IsrServe
  <2>2. rpc[r] = "sleep" /\ line[r] \in Lines /\ events_irq[line[r]] = 0
    BY <2>1
    DEF EventInv, EventsTypeOK, NoMissedWakeup, IsrServe, UserIrqService, WokenBy
  <2>3. line[r] # u
    BY <2>1, <2>2
    DEF EventInv, EventsTypeOK, IsrServe, UserIrqService, WokenBy
  <2>4. QED
    BY <1>3, <2>2, <2>3
<1>6. (isr = "idle" => pending = {})'
  BY DEF IsrServe
<1>7. QED
  BY <1>2, <1>4, <1>5, <1>6 DEF EventInv

\* A thread that does not take an event disturbs none, and sleeps only after
\* it has seen none.
LEMMA ReaderStep ==
    ASSUME EventInv, NEW r \in Readers,
           \/ Call(r, "check") \/ Call(r, "poll")
           \/ Check(r) \/ Poll(r) \/ Return(r) \/ Signal(r)
    PROVE  EventInv'
<1>1. UNCHANGED <<request, raised, unread, isr, pending, events_irq, line>>
  BY DEF Call, Check, Poll, Return, Signal, cardVars, isrVars
<1>2. reads' \in [Readers -> 0..MaxReads]
  <2>1. CASE Call(r, "check") \/ Call(r, "poll")
    <3>1. reads[r] + 1 \in 0..MaxReads
      BY <2>1, BoundsAssumption DEF EventInv, EventsTypeOK, Call
    <3>2. QED
      BY <2>1, <3>1 DEF EventInv, EventsTypeOK, Call
  <2>2. CASE Check(r) \/ Poll(r) \/ Return(r) \/ Signal(r)
    BY <2>2 DEF EventInv, EventsTypeOK, Check, Poll, Return, Signal
  <2>3. QED
    BY <2>1, <2>2
<1>3. EventsTypeOK'
  BY <1>1, <1>2
  DEF EventInv, EventsTypeOK, Call, Check, Poll, Return, Signal
<1>4. NoMissedWakeup'
  BY <1>1
  DEF EventInv, EventsTypeOK, NoMissedWakeup, Call, Check, Poll, Return, Signal
<1>5. QED
  BY <1>1, <1>3, <1>4 DEF EventInv, NoLostEvent

\* A read that takes the event returns it; one that finds none takes none.
LEMMA TakeStep ==
    ASSUME EventInv, NEW r \in Readers, Take(r) PROVE EventInv'
<1>1. EventsTypeOK'
  BY DEF EventInv, EventsTypeOK, Take, cardVars, isrVars
<1>2. NoLostEvent'
  BY DEF EventInv, EventsTypeOK, NoLostEvent, Take, cardVars, isrVars
<1>3. NoMissedWakeup'
  BY DEF EventInv, EventsTypeOK, NoMissedWakeup, Take
<1>4. QED
  BY <1>1, <1>2, <1>3 DEF EventInv, Take, isrVars

\* Every step keeps the invariant.
LEMMA NextEventInv == EventInv /\ [EventsNext]_eventsVars => EventInv'
<1> SUFFICES ASSUME EventInv, [EventsNext]_eventsVars PROVE EventInv'
  OBVIOUS
<1>1. ASSUME NEW u \in Lines, Raise(u) PROVE EventInv'
  BY <1>1, RaiseStep
<1>2. CASE Isr
  BY <1>2, IsrReadClearStep, IsrServeStep DEF Isr
<1>3. ASSUME NEW r \in Readers,
             Call(r, "check") \/ Call(r, "poll") \/ Proceed(r) \/ Signal(r)
      PROVE  EventInv'
  BY <1>3, ReaderStep, TakeStep DEF Proceed
<1>4. CASE UNCHANGED eventsVars
  BY <1>4 DEF EventInv, EventsTypeOK, NoLostEvent, NoMissedWakeup, eventsVars, cardVars,
     isrVars, readVars
<1>5. QED
  BY <1>1, <1>2, <1>3, <1>4 DEF EventsNext

\* No event raised by the card is lost between xdma_isr() and a read, whatever
\* the number of lines and threads.
THEOREM EventsNeverLost == EventsSpec => []NoLostEvent
<1>1. EventInv => NoLostEvent
  BY DEF EventInv
<1>2. QED
  BY <1>1, InitEventInv, NextEventInv, PTL DEF EventsSpec

\* No thread sleeps through an event that user_irq_service() has noted.
THEOREM SleepersAreWoken == EventsSpec => []NoMissedWakeup
<1>1. EventInv => NoMissedWakeup
  BY DEF EventInv
<1>2. QED
  BY <1>1, InitEventInv, NextEventInv, PTL DEF EventsSpec
-----------------------------------------------------------------------------
(* The virtual cable                                                       *)

(* The number of words of a call, rounded up.                              *)
LEMMA CeilDiv ==
    ASSUME NEW total \in Nat, NEW n \in Nat
    PROVE  LET q == (total + Word - 1) \div Word IN
           /\ q \in Nat
           /\ n < q <=> n * Word < total
<1> DEFINE a == total + Word - 1
           q == a \div Word
<1>1. Word \in Nat \ {0} /\ a \in Nat
    BY WordAssumption
<1>2. \A x \in Nat, w \in Nat \ {0} :
        /\ x \div w \in Nat
        /\ (x \div w) * w <= x
        /\ x < (x \div w) * w + w
    BY SMT
<1>3. q \in Nat /\ q * Word <= a /\ a < q * Word + Word
    BY <1>1, <1>2
<1>4. \A x, y, w \in Nat : x <= y => x * w <= y * w
    <2> SUFFICES ASSUME NEW x \in Nat, NEW y \in Nat, NEW w \in Nat, x <= y
                 PROVE  x * w <= y * w
        OBVIOUS
    <2>1. y - x \in Nat
        OBVIOUS
    <2>2. (y - x) * w \in Nat
        BY <2>1
    <2>3. (y - x) * w = y * w - x * w
        BY SMT
    <2> QED
        BY <2>2, <2>3
<1> HIDE DEF q
<1>5. ASSUME n < q PROVE n * Word < total
    <2>1. n + 1 <= q /\ n + 1 \in Nat
        BY <1>3, <1>5
    <2>2. (n + 1) * Word <= q * Word
        BY <1>1, <1>3, <1>4, <2>1
    <2>3. (n + 1) * Word = n * Word + Word
        BY <1>1
    <2>4. n * Word \in Nat /\ q * Word \in Nat
        BY <1>1, <1>3
    <2> QED
        BY <1>1, <1>3, <2>2, <2>3, <2>4
<1>6. ASSUME ~(n < q) PROVE ~(n * Word < total)
    <2>1. q * Word <= n * Word
        BY <1>1, <1>3, <1>4, <1>6
    <2>2. n * Word \in Nat /\ q * Word \in Nat
        BY <1>1, <1>3
    <2> QED
        BY <1>1, <1>3, <2>1, <2>2
<1> QED
    BY <1>3, <1>5, <1>6 DEF q

(* What Pieces() is: one piece for each word that begins before the end.   *)
LEMMA PiecesFacts ==
    ASSUME NEW u \in Users, NEW total \in Nat
    PROVE  /\ Pieces(u, total) \in Seq(PieceSet)
           /\ \A n \in Nat : n < Len(Pieces(u, total)) <=> n * Word < total
           /\ \A n \in Nat : n < Len(Pieces(u, total)) =>
                /\ Pieces(u, total)[n + 1] =
                    Piece(u, n * Word, IF total - n * Word < Word
                                       THEN total - n * Word ELSE Word)
                /\ Pieces(u, total)[n + 1] \in PieceSet
                /\ Pieces(u, total)[n + 1] # Nothing
<1> DEFINE q == (total + Word - 1) \div Word
           len(i) == IF i * Word <= total THEN Word ELSE total - (i - 1) * Word
<1>0. Word \in Nat \ {0}
    BY WordAssumption
<1>1. q \in Nat /\ \A n \in Nat : n < q <=> n * Word < total
    BY CeilDiv
<1>2. Pieces(u, total) = [i \in 1..q |-> Piece(u, (i - 1) * Word, len(i))]
    BY DEF Pieces
<1> HIDE DEF q
<1>3. \A n \in Nat : n < q =>
        /\ (n + 1 - 1) * Word = n * Word /\ n * Word \in Nat
        /\ len(n + 1) = IF total - n * Word < Word THEN total - n * Word ELSE Word
        /\ len(n + 1) \in Nat
    <2> SUFFICES ASSUME NEW n \in Nat, n < q
                 PROVE  /\ (n + 1 - 1) * Word = n * Word /\ n * Word \in Nat
                        /\ len(n + 1) = IF total - n * Word < Word
                                        THEN total - n * Word ELSE Word
                        /\ len(n + 1) \in Nat
        OBVIOUS
    <2>1. n * Word < total /\ n * Word \in Nat
        BY <1>0, <1>1
    <2>2. (n + 1) * Word = n * Word + Word /\ n + 1 - 1 = n
        BY <1>0
    <2> QED
        BY <1>0, <2>1, <2>2
<1>4. \A n \in Nat : n < q => n + 1 \in 1..q
    BY <1>1
<1>5. \A i \in 1..q : i - 1 \in Nat /\ i - 1 < q /\ (i - 1) + 1 = i
    BY <1>1
<1> HIDE DEF len
<1>6. \A i \in 1..q : (i - 1) * Word \in Nat /\ len(i) \in Nat
    <2> TAKE i \in 1..q
    <2>1. PICK n \in Nat : n = i - 1 /\ n < q /\ n + 1 = i
        BY <1>5
    <2> QED
        BY <1>3, <2>1
<1>7. \A i \in 1..q : Piece(u, (i - 1) * Word, len(i)) \in PieceSet
    BY <1>6 DEF Piece, PieceSet
<1>8. Pieces(u, total) \in Seq(PieceSet) /\ Len(Pieces(u, total)) = q
    BY <1>1, <1>2, <1>7
<1>9. \A n \in Nat : n < q =>
        /\ Pieces(u, total)[n + 1] =
            Piece(u, n * Word, IF total - n * Word < Word
                               THEN total - n * Word ELSE Word)
        /\ Pieces(u, total)[n + 1] \in PieceSet
    <2> TAKE n \in Nat
    <2> HAVE n < q
    <2>1. n + 1 \in 1..q
        BY <1>4
    <2>2. Pieces(u, total)[n + 1] = Piece(u, (n + 1 - 1) * Word, len(n + 1))
        BY <1>2, <2>1
    <2> QED
        BY <1>3, <1>7, <2>1, <2>2
<1>10. \A x, y : Piece(u, x, y) # Nothing
    BY NobodyAssumption DEF Piece, Nothing
<1> QED
    BY <1>1, <1>8, <1>9, <1>10

\* The empty shift register has the type of a piece.
LEMMA NothingIsPiece == Nothing \in PieceSet
    BY DEF Nothing, Piece, PieceSet

(* TypeOK is inductive.                                                    *)
LEMMA TypeStep ==
    ASSUME TypeOK, [Next]_vars
    PROVE  TypeOK'
<1>1. ASSUME NEW u \in Users, NEW n \in Lengths, XvcIoctl(u, n) PROVE TypeOK'
    <2>1. n \in Nat /\ calls[u] + 1 \in 0..MaxCalls
        BY <1>1, LengthsAssumption, MaxCallsAssumption DEF TypeOK, XvcIoctl
    <2> QED
        BY <1>1, <2>1 DEF TypeOK, XvcIoctl, Goto, hwVars
<1>2. ASSUME NEW u \in Users, XvcLock(u) PROVE TypeOK'
    <2>1. length_reg' \in Nat
        BY <1>2, WordAssumption DEF TypeOK, XvcLock, FirstLength
    <2> QED
        BY <1>2, <2>1 DEF TypeOK, XvcLock, Goto
<1>3. ASSUME NEW u \in Users, XvcWord(u) PROVE TypeOK'
    <2>1. length_reg' \in Nat
        BY <1>3 DEF TypeOK, XvcWord, BitsLeft
    <2>2. shifting' \in PieceSet
        <3>1. Piece(u, bits[u], length_reg') \in PieceSet
            BY <2>1 DEF TypeOK, Piece, PieceSet
        <3>2. shifting' = Piece(u, bits[u], length_reg') \/ shifting' = shifting
            BY <1>3 DEF XvcWord
        <3> QED
            BY <3>1, <3>2 DEF TypeOK
    <2>3. count' \in [Users -> 0..LoopMax]
        BY <1>3, LoopAssumption DEF TypeOK, XvcWord
    <2> QED
        BY <1>3, <2>1, <2>2, <2>3 DEF TypeOK, XvcWord, Goto
<1>4. ASSUME NEW u \in Users, XvcPoll(u) PROVE TypeOK'
    <2>1. count' \in [Users -> 0..LoopMax]
        <3>1. UNCHANGED count \/ count' = [count EXCEPT ![u] = @ - 1]
            BY <1>4 DEF XvcPoll
        <3>2. count[u] - 1 \in 0..LoopMax
            BY <1>4, LoopAssumption DEF TypeOK, XvcPoll
        <3> QED
            BY <3>1, <3>2 DEF TypeOK
    <2>2. pc' \in [Users -> {"idle", "lock", "word", "poll", "read"}]
        BY <1>4 DEF TypeOK, XvcPoll, Goto
    <2> QED
        BY <1>4, <2>1, <2>2 DEF TypeOK, XvcPoll, hwVars
<1>5. ASSUME NEW u \in Users, XvcTimeout(u) PROVE TypeOK'
    <2>1. late' \in BOOLEAN
        BY <1>5 DEF XvcTimeout
    <2> QED
        BY <1>5, <2>1 DEF TypeOK, XvcTimeout, Goto
<1>6. ASSUME NEW u \in Users, XvcRead(u) PROVE TypeOK'
    <2>1. Append(tdo[u], tdo_reg) \in Seq(PieceSet) /\ bits[u] + Word \in Nat
        BY WordAssumption DEF TypeOK
    <2>2. tdo' \in [Users -> Seq(PieceSet)] /\ bits' \in [Users -> Nat]
        BY <1>6, <2>1 DEF TypeOK, XvcRead
    <2> QED
        BY <1>6, <2>2 DEF TypeOK, XvcRead, Goto, hwVars
<1>7. ASSUME NEW u \in Users, XvcReturn(u) PROVE TypeOK'
    BY <1>7 DEF TypeOK, XvcReturn, Goto, hwVars
<1>8. CASE HwShift
    BY <1>8, NothingIsPiece DEF TypeOK, HwShift, xvcVars
<1>9. CASE UNCHANGED vars
    BY <1>9 DEF TypeOK, vars, xvcVars, hwVars
<1> QED
    BY <1>1, <1>2, <1>3, <1>4, <1>5, <1>6, <1>7, <1>8, <1>9 DEF Next, Xvc

(* xcdev->lock is held exactly from its taking to the end of the call.     *)
LEMMA LockStep ==
    ASSUME TypeOK, LockInv, [Next]_vars
    PROVE  LockInv'
<1>0. \A u \in Users : u # Nobody
    BY NobodyAssumption
<1>1. ASSUME NEW u \in Users, NEW n \in Lengths, XvcIoctl(u, n) PROVE LockInv'
    BY <1>1 DEF TypeOK, LockInv, XvcIoctl, Goto
<1>2. ASSUME NEW u \in Users, XvcLock(u) PROVE LockInv'
    BY <1>0, <1>2 DEF TypeOK, LockInv, XvcLock, Goto
<1>3. ASSUME NEW u \in Users, XvcWord(u) \/ XvcRead(u) PROVE LockInv'
    BY <1>3 DEF TypeOK, LockInv, XvcWord, XvcRead, Goto
<1>4. ASSUME NEW u \in Users, XvcPoll(u) PROVE LockInv'
    BY <1>4 DEF TypeOK, LockInv, XvcPoll, Goto
<1>5. ASSUME NEW u \in Users, XvcTimeout(u) \/ XvcReturn(u) PROVE LockInv'
    BY <1>0, <1>5 DEF TypeOK, LockInv, XvcTimeout, XvcReturn, Goto
<1>6. CASE HwShift
    BY <1>6 DEF LockInv, HwShift, xvcVars
<1>7. CASE UNCHANGED vars
    BY <1>7 DEF LockInv, vars, xvcVars
<1> QED
    BY <1>1, <1>2, <1>3, <1>4, <1>5, <1>6, <1>7 DEF Next, Xvc

(* CableInv is inductive: only the holder of the lock moves the shift on,  *)
(* and the hardware only ends the shift the holder has begun.              *)
LEMMA CableStep ==
    ASSUME TypeOK, TypeOK', LockInv, LockInv', CableInv, [Next]_vars
    PROVE  CableInv'
<1> SUFFICES ASSUME ~late'
             PROVE  /\ lock' = Nobody => shifting' = Nothing
                    /\ \A v \in Users : lock' = v => ShiftInv(v)'
                    /\ \A v \in Users :
                        ret'[v] = "ok" => tdo'[v] = Pieces(v, total_bits'[v])
    BY DEF CableInv
<1> DEFINE Goal == /\ lock' = Nobody => shifting' = Nothing
                   /\ \A v \in Users : lock' = v => ShiftInv(v)'
                   /\ \A v \in Users :
                        ret'[v] = "ok" => tdo'[v] = Pieces(v, total_bits'[v])
<1>0. ~late
    BY DEF Next, Xvc, XvcIoctl, XvcLock, XvcWord, XvcPoll, XvcTimeout, XvcRead,
        XvcReturn, HwShift, vars, hwVars
<1>1. /\ lock = Nobody => shifting = Nothing
      /\ \A v \in Users : lock = v => ShiftInv(v)
      /\ \A v \in Users : ret[v] = "ok" => tdo[v] = Pieces(v, total_bits[v])
    BY <1>0 DEF CableInv
<1>2. /\ pc = [v \in Users |-> pc[v]] /\ DOMAIN pc = Users
      /\ total_bits = [v \in Users |-> total_bits[v]] /\ DOMAIN total_bits = Users
      /\ bits = [v \in Users |-> bits[v]] /\ DOMAIN bits = Users
      /\ tdo = [v \in Users |-> tdo[v]] /\ DOMAIN tdo = Users
      /\ ret = [v \in Users |-> ret[v]] /\ DOMAIN ret = Users
    BY DEF TypeOK
<1>3. \A v \in Users : v # Nobody
    BY NobodyAssumption
<1>4. Word \in Nat \ {0}
    BY WordAssumption
<1>5. ASSUME NEW u \in Users, NEW n \in Lengths, XvcIoctl(u, n)
      PROVE  Goal
    <2>1. /\ UNCHANGED <<bits, tdo, lock, hwVars>>
          /\ pc[u] = "idle" /\ pc' = [pc EXCEPT ![u] = "lock"]
          /\ total_bits' = [total_bits EXCEPT ![u] = n]
          /\ ret' = [ret EXCEPT ![u] = "none"]
        BY <1>5 DEF XvcIoctl, Goto
    <2>2. lock # u
        BY <2>1 DEF LockInv
    <2>3. \A v \in Users : lock' = v => ShiftInv(v)'
        <3> TAKE v \in Users
        <3> HAVE lock' = v
        <3>1. v # u /\ ShiftInv(v) /\ pc'[v] = pc[v] /\ total_bits'[v] = total_bits[v]
            BY <1>1, <1>2, <2>1, <2>2
        <3> QED
            BY <2>1, <3>1 DEF ShiftInv, BitsLeft, hwVars
    <2>4. \A v \in Users : ret'[v] = "ok" => tdo'[v] = Pieces(v, total_bits'[v])
        <3> TAKE v \in Users
        <3> HAVE ret'[v] = "ok"
        <3>1. v # u /\ ret[v] = "ok" /\ total_bits'[v] = total_bits[v]
            BY <1>2, <2>1
        <3> QED
            BY <1>1, <2>1, <3>1
    <2> QED
        BY <1>1, <2>1, <2>3, <2>4 DEF hwVars
<1>6. ASSUME NEW u \in Users, XvcLock(u)
      PROVE  Goal
    <2>1. /\ UNCHANGED <<total_bits, ret, shifting>>
          /\ lock = Nobody /\ lock' = u /\ jtag' = <<>> /\ pc[u] = "lock"
          /\ length_reg' = FirstLength(total_bits[u])
          /\ pc'[u] = "word" /\ bits'[u] = 0 /\ tdo'[u] = <<>>
          /\ \A v \in Users \ {u} : tdo'[v] = tdo[v]
        BY <1>2, <1>6 DEF XvcLock, Goto
    <2>2. shifting = Nothing
        BY <1>1, <2>1
    <2>3. ShiftInv(u)'
        <3>1. total_bits[u] \in Nat /\ Pieces(u, total_bits[u]) \in Seq(PieceSet)
            BY PiecesFacts DEF TypeOK
        <3>2. total_bits'[u] - bits'[u] >= Word => length_reg' = Word
            BY <1>4, <2>1, <3>1 DEF FirstLength
        <3>3. /\ Len(tdo'[u]) = 0
              /\ Len(tdo'[u]) <= Len(Pieces(u, total_bits'[u]))
              /\ bits'[u] = Len(tdo'[u]) * Word
            BY <1>4, <2>1, <3>1
        <3> QED
            BY <2>1, <2>2, <3>2, <3>3 DEF ShiftInv, BitsLeft
    <2>4. \A v \in Users : ret'[v] = "ok" => tdo'[v] = Pieces(v, total_bits'[v])
        <3>1. ret[u] # "ok"
            BY <2>1 DEF LockInv
        <3> QED
            BY <1>1, <2>1, <3>1
    <2> QED
        BY <1>3, <2>1, <2>3, <2>4
<1>7. ASSUME NEW u \in Users, pc[u] \in {"word", "poll", "read"}
      PROVE  /\ lock = u
             /\ ShiftInv(u)
             /\ ret[u] # "ok"
             /\ total_bits[u] \in Nat /\ tdo[u] \in Seq(PieceSet)
             /\ Len(tdo[u]) \in Nat
    <2>1. lock = u /\ ret[u] # "ok"
        BY <1>7 DEF LockInv
    <2>2. total_bits[u] \in Nat /\ tdo[u] \in Seq(PieceSet)
        BY DEF TypeOK
    <2> QED
        BY <1>1, <2>1, <2>2
<1>8. ASSUME NEW u \in Users, XvcWord(u)
      PROVE  Goal
    <2> DEFINE n == Len(tdo[u])
               all == Pieces(u, total_bits[u])
    <2>1. /\ UNCHANGED <<total_bits, bits, tdo, ret, lock, jtag>>
          /\ pc[u] = "word" /\ bits[u] < total_bits[u]
          /\ length_reg' = IF BitsLeft(u) < Word THEN BitsLeft(u) ELSE length_reg
          /\ shifting = Nothing => shifting' = Piece(u, bits[u], length_reg')
          /\ pc'[u] = "poll"
        BY <1>2, <1>8 DEF XvcWord, Goto
    <2>2. /\ lock = u /\ total_bits[u] \in Nat /\ n \in Nat
          /\ n <= Len(all) /\ bits[u] = n * Word
          /\ \A i \in 1..n : tdo[u][i] = all[i]
          /\ BitsLeft(u) >= Word => length_reg = Word
          /\ shifting = Nothing /\ jtag = tdo[u]
        BY <1>7, <2>1 DEF ShiftInv
    <2>3. n < Len(all)
        BY <2>1, <2>2, PiecesFacts
    <2>4. shifting' = all[n + 1]
        <3>1. all[n + 1] =
                Piece(u, n * Word, IF total_bits[u] - n * Word < Word
                                   THEN total_bits[u] - n * Word ELSE Word)
            BY <2>2, <2>3, PiecesFacts
        <3>2. length_reg' = IF total_bits[u] - n * Word < Word
                            THEN total_bits[u] - n * Word ELSE Word
            <4>1. BitsLeft(u) = total_bits[u] - n * Word /\ BitsLeft(u) \in Int
                BY <1>4, <2>2 DEF BitsLeft
            <4> QED
                BY <1>4, <2>1, <2>2, <4>1
        <3> QED
            BY <2>1, <2>2, <3>1, <3>2
    <2>5. total_bits'[u] - bits'[u] >= Word => length_reg' = Word
        <3>1. bits[u] \in Nat /\ BitsLeft(u) = total_bits[u] - bits[u]
            BY DEF TypeOK, BitsLeft
        <3> QED
            BY <1>4, <2>1, <2>2, <3>1
    <2>6. ShiftInv(u)'
        BY <2>1, <2>2, <2>3, <2>4, <2>5 DEF ShiftInv, BitsLeft
    <2> QED
        BY <1>1, <1>3, <2>1, <2>2, <2>6
<1>9. ASSUME NEW u \in Users, XvcPoll(u)
      PROVE  Goal
    <2>1. /\ UNCHANGED <<total_bits, bits, tdo, ret, lock, hwVars>>
          /\ pc[u] = "poll"
          /\ (pc'[u] = "read" /\ shifting = Nothing) \/ pc'[u] = "poll"
        BY <1>2, <1>9 DEF XvcPoll, Goto
    <2>2. ShiftInv(u) /\ lock = u
        BY <1>7, <2>1
    <2>3. ShiftInv(u)'
        <3>1. total_bits[u] \in Nat /\ Len(tdo[u]) \in Nat
            BY <1>7, <2>1
        <3>2. Len(tdo[u]) < Len(Pieces(u, total_bits[u])) =>
                Pieces(u, total_bits[u])[Len(tdo[u]) + 1] # Nothing
            BY <3>1, PiecesFacts
        <3> QED
            BY <2>1, <2>2, <3>2 DEF ShiftInv, BitsLeft, hwVars
    <2> QED
        BY <1>1, <1>3, <2>1, <2>2, <2>3
<1>10. ASSUME NEW u \in Users, XvcTimeout(u)
       PROVE  Goal
    <2>1. /\ UNCHANGED <<total_bits, tdo, shifting>>
          /\ lock' = Nobody /\ shifting = Nothing
          /\ ret' = [ret EXCEPT ![u] = "ETIMEDOUT"]
        BY <1>10 DEF XvcTimeout
    <2>2. \A v \in Users : ret'[v] = "ok" => ret[v] = "ok"
        BY <1>2, <2>1
    <2> QED
        BY <1>1, <1>3, <2>1, <2>2
<1>11. ASSUME NEW u \in Users, XvcRead(u)
       PROVE  Goal
    <2> DEFINE n == Len(tdo[u])
               all == Pieces(u, total_bits[u])
    <2>1. /\ UNCHANGED <<total_bits, ret, lock, hwVars>>
          /\ pc[u] = "read" /\ pc'[u] = "word"
          /\ bits'[u] = bits[u] + Word
          /\ tdo'[u] = Append(tdo[u], tdo_reg)
          /\ \A v \in Users \ {u} : tdo'[v] = tdo[v]
        BY <1>2, <1>11 DEF XvcRead, Goto
    <2>2. /\ lock = u /\ ret[u] # "ok"
          /\ total_bits[u] \in Nat /\ n \in Nat /\ tdo[u] \in Seq(PieceSet)
        BY <1>7, <2>1
    <2>3. /\ n < Len(all) /\ bits[u] = n * Word
          /\ \A i \in 1..n : tdo[u][i] = all[i]
          /\ BitsLeft(u) >= Word => length_reg = Word
          /\ shifting = Nothing /\ tdo_reg = all[n + 1]
          /\ jtag = Append(tdo[u], all[n + 1])
        BY <1>7, <2>1 DEF ShiftInv
    <2>4. /\ Len(tdo'[u]) = n + 1 /\ tdo'[u][n + 1] = all[n + 1]
          /\ \A i \in 1..n : tdo'[u][i] = all[i]
        <3>1. tdo_reg \in PieceSet
            BY DEF TypeOK
        <3> QED
            BY <2>1, <2>2, <2>3, <3>1
    <2>5. \A i \in 1..Len(tdo'[u]) : tdo'[u][i] = all[i]
        <3>1. \A i \in 1..(n + 1) : i \in 1..n \/ i = n + 1
            BY <2>2
        <3> QED
            BY <2>4, <3>1
    <2>6. bits'[u] = Len(tdo'[u]) * Word
        <3>1. (n + 1) * Word = n * Word + Word
            BY <1>4, <2>2
        <3> QED
            BY <2>1, <2>3, <2>4, <3>1
    <2>7. total_bits'[u] - bits'[u] >= Word => length_reg' = Word
        <3>1. bits[u] \in Nat /\ BitsLeft(u) = total_bits[u] - bits[u]
            BY DEF TypeOK, BitsLeft
        <3> QED
            BY <1>4, <2>1, <2>2, <2>3, <3>1 DEF hwVars
    <2>8. Len(tdo'[u]) <= Len(all)
        <3>1. all \in Seq(PieceSet)
            BY <2>2, PiecesFacts
        <3> QED
            BY <2>2, <2>3, <2>4, <3>1
    <2>9. ShiftInv(u)'
        <3>1. shifting' = Nothing /\ jtag' = tdo'[u]
            BY <2>1, <2>3 DEF hwVars
        <3> QED
            BY <2>1, <2>5, <2>6, <2>7, <2>8, <3>1 DEF ShiftInv, BitsLeft
    <2> QED
        BY <1>1, <1>3, <2>1, <2>2, <2>9
<1>12. ASSUME NEW u \in Users, XvcReturn(u)
       PROVE  Goal
    <2> DEFINE n == Len(tdo[u])
               all == Pieces(u, total_bits[u])
    <2>1. /\ UNCHANGED <<total_bits, tdo, shifting>>
          /\ pc[u] = "word" /\ bits[u] >= total_bits[u]
          /\ lock' = Nobody
          /\ ret' = [ret EXCEPT ![u] = "ok"]
        BY <1>12 DEF XvcReturn, hwVars
    <2>2. /\ total_bits[u] \in Nat /\ n \in Nat /\ tdo[u] \in Seq(PieceSet)
          /\ n <= Len(all) /\ bits[u] = n * Word
          /\ \A i \in 1..n : tdo[u][i] = all[i]
          /\ shifting = Nothing
        BY <1>7, <2>1 DEF ShiftInv
    <2>3. all \in Seq(PieceSet) /\ ~(n < Len(all))
        <3>1. n * Word \in Nat
            BY <1>4, <2>2
        <3> QED
            BY <2>1, <2>2, <3>1, PiecesFacts
    <2>4. tdo[u] = all
        <3> HIDE DEF all
        <3>1. Len(all) = n
            BY <2>2, <2>3
        <3> QED
            BY <2>2, <2>3, <3>1
    <2>5. \A v \in Users : v # u => ret'[v] = ret[v]
        BY <1>2, <2>1
    <2> QED
        BY <1>1, <1>3, <2>1, <2>2, <2>4, <2>5
<1>13. CASE HwShift
    <2>1. /\ UNCHANGED <<pc, total_bits, bits, tdo, ret, lock, length_reg>>
          /\ shifting # Nothing /\ shifting' = Nothing
          /\ jtag' = Append(jtag, shifting) /\ tdo_reg' = shifting
        BY <1>13 DEF HwShift, xvcVars
    <2>2. \A v \in Users : lock' = v => ShiftInv(v)'
        <3> TAKE v \in Users
        <3> HAVE lock' = v
        <3>1. ShiftInv(v) /\ pc[v] \in {"word", "poll", "read"}
            BY <1>1, <2>1 DEF LockInv
        <3>2. /\ pc[v] = "poll" /\ jtag = tdo[v]
              /\ shifting = Pieces(v, total_bits[v])[Len(tdo[v]) + 1]
              /\ Len(tdo[v]) < Len(Pieces(v, total_bits[v]))
            BY <2>1, <3>1 DEF ShiftInv
        <3> QED
            BY <2>1, <3>1, <3>2 DEF ShiftInv, BitsLeft
    <2> QED
        BY <1>1, <2>1, <2>2
<1>14. CASE UNCHANGED vars
    <2>1. UNCHANGED <<pc, total_bits, bits, tdo, ret, lock, hwVars>>
        BY <1>14 DEF vars, xvcVars
    <2>2. \A v \in Users : lock' = v => ShiftInv(v)'
        BY <1>1, <2>1 DEF ShiftInv, BitsLeft, hwVars
    <2> QED
        BY <1>1, <2>1, <2>2 DEF hwVars
<1> QED
    BY <1>5, <1>6, <1>8, <1>9, <1>10, <1>11, <1>12, <1>13, <1>14 DEF Next, Xvc

(* The lock, and what the holder has shifted and read back, in every state. *)
THEOREM CableInvariance == Spec => [](TypeOK /\ LockInv /\ CableInv)
<1>1. Init => TypeOK /\ LockInv /\ CableInv
    <2> SUFFICES ASSUME Init PROVE TypeOK /\ LockInv /\ CableInv
        OBVIOUS
    <2>1. TypeOK
        <3>1. <<>> \in Seq(PieceSet) /\ 0 \in 0..MaxCalls /\ 0 \in 0..LoopMax
            BY MaxCallsAssumption, LoopAssumption
        <3>2. /\ tdo \in [Users -> Seq(PieceSet)] /\ jtag \in Seq(PieceSet)
              /\ shifting \in PieceSet /\ tdo_reg \in PieceSet
            BY <3>1, NothingIsPiece DEF Init
        <3>3. /\ calls \in [Users -> 0..MaxCalls] /\ count \in [Users -> 0..LoopMax]
            BY <3>1 DEF Init
        <3> QED
            BY <3>2, <3>3 DEF Init, TypeOK
    <2>2. LockInv
        BY NobodyAssumption DEF Init, LockInv
    <2>3. CableInv
        BY NobodyAssumption DEF Init, CableInv
    <2> QED
        BY <2>1, <2>2, <2>3
<1>2. TypeOK /\ LockInv /\ CableInv /\ [Next]_vars => (TypeOK /\ LockInv /\ CableInv)'
    BY TypeStep, LockStep, CableStep
<1> QED
    BY <1>1, <1>2, PTL DEF Spec

(* xvc_ioctl(): the JTAG chain sees the words of a call in order, once and *)
(* with the right lengths, and the caller gets each word's result, unless  *)
(* an earlier shift was given up while under way.                          *)
THEOREM WordsShiftInOrder == Spec => []ShiftsInOrder
<1>1. TypeOK /\ LockInv /\ CableInv => ShiftsInOrder
    <2> SUFFICES ASSUME TypeOK, LockInv, CableInv, ~late
                 PROVE  /\ lock # Nobody =>
                            IsPrefix(jtag, Pieces(lock, total_bits[lock]))
                        /\ \A u \in Users :
                            ret[u] = "ok" => tdo[u] = Pieces(u, total_bits[u])
        BY DEF ShiftsInOrder
    <2>1. ASSUME NEW u \in Users, lock = u
          PROVE  IsPrefix(jtag, Pieces(u, total_bits[u]))
        <3> DEFINE n == Len(tdo[u])
                   all == Pieces(u, total_bits[u])
        <3>1. ShiftInv(u) /\ pc[u] \in {"word", "poll", "read"}
            BY <2>1 DEF CableInv, LockInv
        <3>2. /\ total_bits[u] \in Nat /\ tdo[u] \in Seq(PieceSet) /\ n \in Nat
              /\ jtag \in Seq(PieceSet)
            BY DEF TypeOK
        <3>3. all \in Seq(PieceSet)
            BY <3>2, PiecesFacts
        <3>4. /\ n <= Len(all)
              /\ \A i \in 1..n : tdo[u][i] = all[i]
              /\ \/ jtag = tdo[u]
                 \/ n < Len(all) /\ jtag = Append(tdo[u], all[n + 1])
            BY <3>1 DEF ShiftInv
        <3> HIDE DEF n, all
        <3>5. /\ Len(jtag) <= Len(all)
              /\ \A i \in 1..Len(jtag) : jtag[i] = all[i]
            <4>1. CASE jtag = tdo[u]
                BY <3>4, <4>1 DEF n
            <4>2. CASE n < Len(all) /\ jtag = Append(tdo[u], all[n + 1])
                <5>1. /\ Len(jtag) = n + 1 /\ jtag[n + 1] = all[n + 1]
                      /\ \A i \in 1..n : jtag[i] = tdo[u][i]
                    BY <3>2, <4>2 DEF n
                <5>2. \A i \in 1..(n + 1) : i \in 1..n \/ i = n + 1
                    BY <3>2
                <5> QED
                    BY <3>2, <3>3, <3>4, <4>2, <5>1, <5>2
            <4> QED
                BY <3>4, <4>1, <4>2
        <3>6. IsPrefix(jtag, all)
            BY <3>2, <3>3, <3>5 DEF IsPrefix
        <3> QED
            BY <3>6 DEF all
    <2> QED
        BY <2>1 DEF CableInv, TypeOK
<1> QED
    BY <1>1, CableInvariance, PTL

=============================================================================
