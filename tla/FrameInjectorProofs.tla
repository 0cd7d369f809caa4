------------------------- MODULE FrameInjectorProofs -------------------------
(***************************************************************************)
(* Proofs about FrameInjector for every set of channels, every number of   *)
(* frames and every combination of faults.                                 *)
(***************************************************************************)
EXTENDS FrameInjector, TLAPS

\* first_buf_addr[]: the slots of two channels are apart.
LEMMA ChannelsApart ==
    ASSUME NEW c \in 0..7, NEW d \in 0..7, c # d,
           NEW i \in 0..2, NEW j \in 0..2
    PROVE  FirstBufAddr(c) + i # FirstBufAddr(d) + j
<1>1. \A e \in 0..7 :
        FirstBufAddr(e) = IF e < 4 THEN 1032 + 3 * e ELSE 532 + 3 * (e - 4)
  <2>1. /\ FirstBufAddr(0) = 1032 /\ FirstBufAddr(1) = 1035
        /\ FirstBufAddr(2) = 1038 /\ FirstBufAddr(3) = 1041
        /\ FirstBufAddr(4) = 532 /\ FirstBufAddr(5) = 535
        /\ FirstBufAddr(6) = 538 /\ FirstBufAddr(7) = 541
    BY DEF FirstBufAddr
  <2>2. \A e \in 0..7 : e = 0 \/ e = 1 \/ e = 2 \/ e = 3 \/ e = 4 \/ e = 5
                        \/ e = 6 \/ e = 7
    OBVIOUS
  <2>3. QED
    BY <2>1, <2>2
<1>2. QED
  BY <1>1

\* Less than three slots on, a channel is at another slot.
LEMMA SlotsApart ==
    ASSUME NEW n \in Nat, NEW r \in 0..2, NEW k \in 0..(r - 1)
    PROVE  (n + r) % 3 # (n + k) % 3
OBVIOUS

\* Every step keeps host and card in agreement on the channels whose register
\* has answered every time.
LEMMA SlotStep ==
    ASSUME SlotInv, [Next]_vars
    PROVE  SlotInv'
<1>1. ASSUME NEW c \in Channels, Open(c) PROVE SlotInv'
  BY <1>1 DEF Open, NextFrame, SlotInv, Places, cardVars
<1>2. ASSUME NEW c \in Channels, WaitFpgaReady(c) PROVE SlotInv'
  <2>1. PICK read \in RegRead(c) :
            /\ regfail' = [regfail EXCEPT ![c] = regfail[c] \/ read.failed]
            /\ \/ read.value # 3 /\ pc' = [pc EXCEPT ![c] = "write"]
               \/ UNCHANGED pc
    BY <1>2 DEF WaitFpgaReady, MayWrite
  <2>2. /\ read.failed \in BOOLEAN
        /\ ~read.failed => read.value = ready[c]
    <3>1. \/ read = [value |-> ready[c], failed |-> FALSE]
          \/ \E error : read = [value |-> error, failed |-> TRUE]
      BY <2>1 DEF RegRead
    <3>2. \/ read.failed = FALSE /\ read.value = ready[c]
          \/ read.failed = TRUE
      BY <3>1
    <3>3. QED
      BY <3>2, Zenon
  <2>3. ready[c] # 3 => ready[c] < Slots
    BY DEF SlotInv, Slots
  <2>4. UNCHANGED <<g_send_count, ready, fetched>>
    BY <1>2 DEF WaitFpgaReady, cardVars
  <2>5. /\ pc' \in [Channels -> Places]
        /\ regfail' \in [Channels -> BOOLEAN]
        /\ \A e \in Channels : e # c => pc'[e] = pc[e] /\ regfail'[e] = regfail[e]
    BY <2>1, <2>2 DEF SlotInv, Places
  <2>6. ~regfail'[c] => ~regfail[c] /\ ~read.failed
    BY <2>1, <2>2 DEF SlotInv
  <2>7. ASSUME ~regfail'[c], pc'[c] \in {"write", "writing", "announce"}
        PROVE  ready[c] < Slots
    BY <2>1, <2>2, <2>3, <2>6, <2>7 DEF SlotInv
  <2>8. QED
    BY <2>4, <2>5, <2>6, <2>7 DEF SlotInv
<1>3. ASSUME NEW c \in Channels, WriteBegin(c) PROVE SlotInv'
  BY <1>3 DEF WriteBegin, SlotInv, Places
<1>4. ASSUME NEW c \in Channels, WriteEnd(c) PROVE SlotInv'
  BY <1>4 DEF WriteEnd, WriteFailed, NextFrame, SlotInv, Places
<1>5. ASSUME NEW c \in Channels, SetFpgaWait(c) PROVE SlotInv'
  <2>1. /\ g_send_count' = [g_send_count EXCEPT ![c] = g_send_count[c] + 1]
        /\ fetched' = fetched
    BY <1>5 DEF SetFpgaWait, SendCountAfter
  <2>2. \/ pc' = [pc EXCEPT ![c] = "open"]
        \/ pc' = [pc EXCEPT ![c] = "done"]
    BY <1>5 DEF SetFpgaWait, NextFrame
  <2>3. /\ pc' \in [Channels -> Places]
        /\ \A e \in Channels :
            pc'[e] \in {"write", "writing", "announce"} => e # c /\ pc'[e] = pc[e]
    BY <2>2 DEF SlotInv, Places
  <2>4. g_send_count' \in [Channels -> Nat]
    BY <2>1 DEF SlotInv
  <2>5. CASE regfail' = [regfail EXCEPT ![c] = TRUE] /\ UNCHANGED ready
    <3>1. /\ regfail' \in [Channels -> BOOLEAN]
          /\ \A e \in Channels : ~regfail'[e] => e # c /\ ~regfail[e]
      BY <2>5 DEF SlotInv
    <3>2. QED
      BY <2>1, <2>3, <2>4, <2>5, <3>1 DEF SlotInv
  <2>6. CASE /\ ready' = [ready EXCEPT ![c] = IF @ < Slots THEN @ + 1 ELSE @]
             /\ UNCHANGED regfail
    <3>1. ready' \in [Channels -> 0..Slots]
      BY <2>6 DEF SlotInv, Slots
    <3>2. ~regfail[c] => ready[c] < Slots
      BY <1>5 DEF SetFpgaWait, SlotInv
    <3>3. ASSUME NEW e \in Channels, ~regfail'[e]
          PROVE  /\ g_send_count'[e] = fetched'[e] + ready'[e]
                 /\ pc'[e] \in {"write", "writing", "announce"} =>
                      ready'[e] < Slots
      <4>1. CASE e = c
        BY <2>1, <2>3, <2>6, <3>2, <3>3, <4>1 DEF SlotInv, Slots
      <4>2. CASE e # c
        BY <2>1, <2>3, <2>6, <3>3, <4>2 DEF SlotInv
      <4>3. QED
        BY <4>1, <4>2
    <3>4. QED
      BY <2>1, <2>3, <2>4, <2>6, <3>1, <3>3 DEF SlotInv
  <2>7. QED
    BY <1>5, <2>5, <2>6 DEF SetFpgaWait
<1>6. ASSUME NEW c \in Channels, Show(c) PROVE SlotInv'
  BY <1>6 DEF Show, SlotInv, Slots, hostVars
<1>7. CASE UNCHANGED vars
  BY <1>7 DEF SlotInv, vars, hostVars, cardVars
<1>8. QED
  BY <1>1, <1>2, <1>3, <1>4, <1>5, <1>6, <1>7 DEF Next, Proceed, Finished

\* Agreement on the slots means that the slot written to is not announced.
LEMMA SlotInvSuffices == SlotInv => WritesFreeSlot
<1>1. SUFFICES ASSUME SlotInv, NEW c \in Channels, NEW d \in Channels,
                      pc[c] \in {"write", "writing"}, c = d => ~regfail[c],
                      NEW k \in 0..(ready[d] - 1)
               PROVE  Addr(c, g_send_count[c]) # Addr(d, fetched[d] + k)
  BY DEF WritesFreeSlot, Announced
<1>2. /\ g_send_count[c] \in Nat /\ ready[d] \in 0..3
      /\ fetched[d] \in Nat /\ k \in Nat
      /\ c \in 0..7 /\ d \in 0..7
  BY <1>1, ChannelsAssumption DEF SlotInv, Slots
<1>3. CASE c = d
  <2>1. g_send_count[c] = fetched[c] + ready[c] /\ ready[c] \in 0..2
    BY <1>1, <1>2, <1>3 DEF SlotInv, Slots
  <2>2. (fetched[c] + ready[c]) % 3 # (fetched[c] + k) % 3
    BY <1>1, <1>2, <1>3, <2>1, SlotsApart
  <2>3. /\ (fetched[c] + ready[c]) % 3 \in 0..2
        /\ (fetched[c] + k) % 3 \in 0..2
    BY <1>2, <1>3, <2>1
  <2>4. FirstBufAddr(c) \in Int
    BY <1>2 DEF FirstBufAddr
  <2>5. QED
    BY <1>2, <1>3, <2>1, <2>2, <2>3, <2>4 DEF Addr, Slots
<1>4. CASE c # d
  <2>1. g_send_count[c] % 3 \in 0..2 /\ (fetched[d] + k) % 3 \in 0..2
    BY <1>2
  <2>2. QED
    BY <1>2, <1>4, <2>1, ChannelsApart DEF Addr, Slots
<1>5. QED
  BY <1>3, <1>4

\* A frame is never written over one that is still to be shown, on any number
\* of channels and whatever fails, except on a channel whose own ready register
\* could not be reached.
THEOREM NoFrameOverwritten == Spec => []WritesFreeSlot
<1>1. Init => SlotInv
  BY DEF Init, SlotInv, Places, Slots
<1>2. SlotInv /\ [Next]_vars => SlotInv'
  BY SlotStep
<1>3. QED
  BY <1>1, <1>2, SlotInvSuffices, PTL DEF Spec
-----------------------------------------------------------------------------
(* What is shown                                                           *)

\* A channel's slot is one of the card's addresses.
LEMMA AddrInMemory ==
    ASSUME NEW c \in Channels, NEW n \in Nat
    PROVE  Addr(c, n) \in Addresses
<1>1. n % 3 \in 0..2 /\ (n % 3) % 3 = n % 3
  OBVIOUS
<1>2. Addr(c, n) = Addr(c, n % 3)
  BY <1>1 DEF Addr, Slots
<1>3. QED
  BY <1>1, <1>2 DEF Addresses, Slots

\* Two channels never use the same slot.
LEMMA AddrApart ==
    ASSUME NEW c \in Channels, NEW d \in Channels, c # d, NEW m \in Nat, NEW n \in Nat
    PROVE  Addr(c, m) # Addr(d, n)
<1>1. m % 3 \in 0..2 /\ n % 3 \in 0..2 /\ c \in 0..7 /\ d \in 0..7
  BY ChannelsAssumption
<1>2. QED
  BY <1>1, ChannelsApart DEF Addr, Slots

\* Every frame sent has a number and an extent.
LEMMA SentType ==
    ASSUME SlotInv, StreamInv, NEW c \in Channels, NEW n \in Nat
    PROVE  Sent(c, n) \in SlotContent
<1>1. /\ Len(shown[c]) = fetched[c] /\ fetched[c] \in Nat
      /\ shown[c] \in Seq(SlotContent)
  BY DEF StreamInv, StreamOf, SlotInv
<1>2. CASE n < fetched[c]
  <2>1. n + 1 \in 1..Len(shown[c])
    BY <1>1, <1>2
  <2>2. shown[c][n + 1] \in SlotContent
    BY <1>1, <2>1
  <2>3. QED
    BY <1>2, <2>2 DEF Sent
<1>3. CASE ~(n < fetched[c])
  BY <1>3, AddrInMemory DEF Sent, StreamInv
<1>4. QED
  BY <1>2, <1>3

\* A channel whose own state and announced slots stay as they are agrees still.
LEMMA SameStream ==
    ASSUME SlotInv, NEW d \in Channels, StreamOf(d),
           pc'[d] = pc[d], frame'[d] = frame[d],
           g_send_count'[d] = g_send_count[d], fetched'[d] = fetched[d],
           shown'[d] = shown[d], regfail'[d] = regfail[d],
           \A n \in Nat : memory'[Addr(d, n)] = memory[Addr(d, n)]
    PROVE  StreamOf(d)'
<1>1. g_send_count[d] \in Nat
  BY DEF SlotInv
<1>2. \A n \in 0..g_send_count[d] : Sent(d, n)' = Sent(d, n)
  BY <1>1 DEF Sent
<1>3. QED
  BY <1>1, <1>2 DEF StreamOf

\* Leaving a frame for the next one, or waiting for a slot, changes nothing that
\* was announced.
LEMMA LaterFrame ==
    ASSUME SlotInv, StreamInv, NEW c \in Channels,
           pc'[c] \notin {"writing", "announce"},
           frame'[c] \in {frame[c], frame[c] + 1},
           UNCHANGED <<g_send_count, memory, fetched, shown>>,
           ~regfail'[c] => ~regfail[c]
    PROVE  StreamOf(c)'
<1>1. g_send_count[c] \in Nat /\ frame[c] \in Nat /\ StreamOf(c)
  BY DEF SlotInv, StreamInv
<1>2. \A n \in Nat : Sent(c, n)' = Sent(c, n)
  BY DEF Sent
<1>3. \A n \in Nat : Sent(c, n).frame \in Int
  BY SentType DEF SlotContent
<1>4. QED
  BY <1>1, <1>2, <1>3 DEF StreamOf

\* A write changes nothing that is announced.
LEMMA WriteLeavesSent ==
    ASSUME SlotInv, StreamInv, NEW c \in Channels,
           pc[c] \in {"write", "writing"}, ~regfail[c], NEW v,
           memory' = [memory EXCEPT ![Addr(c, g_send_count[c])] = v],
           UNCHANGED <<fetched, shown>>
    PROVE  \A n \in 0..(g_send_count[c] - 1) : Sent(c, n)' = Sent(c, n)
<1>1. g_send_count[c] \in Nat /\ fetched[c] \in Nat /\ ready[c] \in Nat
  BY DEF SlotInv, Slots
<1>2. SUFFICES ASSUME NEW n \in 0..(g_send_count[c] - 1), ~(n < fetched[c])
               PROVE  memory'[Addr(c, n)] = memory[Addr(c, n)]
  BY DEF Sent
<1>3. Addr(c, g_send_count[c]) \notin Announced(c)
  BY SlotInvSuffices DEF WritesFreeSlot
<1>4. g_send_count[c] = fetched[c] + ready[c]
  BY DEF SlotInv
<1>5. n - fetched[c] \in 0..(ready[c] - 1) /\ n = fetched[c] + (n - fetched[c])
  BY <1>1, <1>2, <1>4
<1>6. Addr(c, n) \in Announced(c)
  BY <1>5 DEF Announced
<1>7. Addr(c, n) \in Addresses
  BY <1>1, AddrInMemory
<1>8. QED
  BY <1>3, <1>6, <1>7 DEF StreamInv

\* The beginning of a write breaks a slot that is not announced.
LEMMA BeginKeepsStream ==
    ASSUME SlotInv, StreamInv, NEW c \in Channels, WriteBegin(c)
    PROVE  StreamOf(c)'
<1> DEFINE v == [frame |-> frame[c], extent |-> "broken"]
<1>1. /\ pc[c] = "write" /\ pc'[c] = "writing"
      /\ memory' = [memory EXCEPT ![Addr(c, g_send_count[c])] = v]
      /\ UNCHANGED <<frame, g_send_count, fetched, shown, regfail>>
  BY DEF WriteBegin, SlotInv
<1>2. g_send_count[c] \in Nat /\ StreamOf(c)
  BY DEF SlotInv, StreamInv
<1>3. CASE regfail[c]
  BY <1>1, <1>2, <1>3 DEF StreamOf
<1>4. CASE ~regfail[c]
  <2>1. \A n \in 0..(g_send_count[c] - 1) : Sent(c, n)' = Sent(c, n)
    BY <1>1, <1>4, WriteLeavesSent
  <2>2. memory'[Addr(c, g_send_count[c])].frame = frame[c]
    BY <1>1, <1>2, AddrInMemory DEF StreamInv
  <2>3. QED
    BY <1>1, <1>2, <1>4, <2>1, <2>2 DEF StreamOf
<1>5. QED
  BY <1>3, <1>4

\* The end of a write leaves a frame, or a part of one, in the slot.
LEMMA EndKeepsStream ==
    ASSUME SlotInv, StreamInv, NEW c \in Channels, WriteEnd(c)
    PROVE  StreamOf(c)'
<1>1. CASE WriteFailed(c) /\ UNCHANGED memory
  <2>1. /\ pc'[c] \notin {"writing", "announce"} /\ frame'[c] = frame[c] + 1
        /\ UNCHANGED <<g_send_count, fetched, shown, regfail>>
    BY <1>1 DEF WriteEnd, WriteFailed, NextFrame, SlotInv, StreamInv
  <2>2. QED
    BY <1>1, <2>1, LaterFrame
<1>2. ASSUME NEW e \in {"whole", "part"}, pc' = [pc EXCEPT ![c] = "announce"],
             memory' = [memory EXCEPT ![Addr(c, g_send_count[c])].extent = e]
      PROVE  StreamOf(c)'
  <2>1. /\ pc[c] = "writing" /\ pc'[c] = "announce" /\ frame' = frame
        /\ UNCHANGED <<g_send_count, fetched, shown, regfail>>
    BY <1>2 DEF WriteEnd, WriteFailed, NextFrame, SlotInv
  <2>2. /\ g_send_count[c] \in Nat /\ StreamOf(c)
        /\ Addr(c, g_send_count[c]) \in Addresses
    <3>1. g_send_count[c] \in Nat
      BY DEF SlotInv
    <3>2. QED
      BY <3>1, AddrInMemory DEF StreamInv
  <2>3. CASE regfail[c]
    BY <2>1, <2>2, <2>3 DEF StreamOf
  <2>4. CASE ~regfail[c]
    <3>1. \A n \in 0..(g_send_count[c] - 1) : Sent(c, n)' = Sent(c, n)
      <4>1. memory' = [memory EXCEPT ![Addr(c, g_send_count[c])] =
                        [memory[Addr(c, g_send_count[c])] EXCEPT !.extent = e]]
        BY <1>2
      <4>2. QED
        BY <2>1, <2>4, <4>1, WriteLeavesSent
    <3>2. /\ memory'[Addr(c, g_send_count[c])].frame =
                memory[Addr(c, g_send_count[c])].frame
          /\ memory'[Addr(c, g_send_count[c])].extent = e
      BY <1>2, <2>2 DEF StreamInv, SlotContent
    <3>3. memory[Addr(c, g_send_count[c])].frame = frame[c]
      BY <2>1, <2>2, <2>4 DEF StreamOf
    <3>4. QED
      BY <2>1, <2>2, <2>4, <3>1, <3>2, <3>3, <1>2 DEF StreamOf
  <2>5. QED
    BY <2>3, <2>4
<1>3. QED
  BY <1>1, <1>2 DEF WriteEnd

\* set_fpga_wait() adds the frame just written to what is announced.
LEMMA AnnounceKeepsStream ==
    ASSUME SlotInv, StreamInv, NEW c \in Channels, SetFpgaWait(c)
    PROVE  StreamOf(c)'
<1>1. /\ pc[c] = "announce" /\ pc'[c] \notin {"writing", "announce"}
      /\ frame'[c] = frame[c] + 1
      /\ g_send_count'[c] = g_send_count[c] + 1
      /\ UNCHANGED <<memory, fetched, shown>>
  BY DEF SetFpgaWait, NextFrame, SendCountAfter, SlotInv, StreamInv
<1>2. /\ g_send_count[c] \in Nat /\ fetched[c] \in Nat /\ ready[c] \in Nat
      /\ frame[c] \in Nat /\ StreamOf(c)
  <2>1. g_send_count[c] \in Nat /\ fetched[c] \in Nat /\ ready[c] \in Nat
    BY DEF SlotInv, Slots
  <2>2. QED
    BY <2>1 DEF StreamInv
<1>3. CASE regfail'[c]
  BY <1>1, <1>2, <1>3 DEF StreamOf
<1>4. CASE ~regfail'[c]
  <2>1. ~regfail[c]
    BY <1>4 DEF SetFpgaWait, SlotInv
  <2> DEFINE g == g_send_count[c]
  <2>2. g = fetched[c] + ready[c]
    BY <2>1 DEF SlotInv
  <2>3. \A n \in Nat : Sent(c, n)' = Sent(c, n) /\ Sent(c, n).frame \in Int
    <3>1. \A n \in Nat : Sent(c, n)' = Sent(c, n)
      BY <1>1 DEF Sent
    <3>2. QED
      BY <3>1, SentType DEF SlotContent
  <2>4. Sent(c, g) = memory[Addr(c, g)]
    BY <1>2, <2>2 DEF Sent
  <2>5. Sent(c, g).frame = frame[c] /\ Sent(c, g).extent # "broken"
    BY <1>1, <1>2, <2>1, <2>4 DEF StreamOf
  <2>6. \A n \in 0..(g - 1) :
            /\ Sent(c, n).extent # "broken"
            /\ 0 <= Sent(c, n).frame /\ Sent(c, n).frame < frame[c]
            /\ n > 0 => Sent(c, n - 1).frame < Sent(c, n).frame
    BY <1>2, <2>1 DEF StreamOf
  <2>7. \A n \in 0..g :
            /\ Sent(c, n).extent # "broken"
            /\ 0 <= Sent(c, n).frame /\ Sent(c, n).frame < frame[c] + 1
            /\ n > 0 => Sent(c, n - 1).frame < Sent(c, n).frame
    <3>1. ASSUME NEW n \in 0..g, n # g
          PROVE  /\ Sent(c, n).extent # "broken"
                 /\ 0 <= Sent(c, n).frame /\ Sent(c, n).frame < frame[c] + 1
                 /\ n > 0 => Sent(c, n - 1).frame < Sent(c, n).frame
      <4>1. n \in 0..(g - 1)
        BY <1>2, <3>1
      <4>2. QED
        BY <1>2, <2>3, <2>6, <4>1
    <3>2. g > 0 => Sent(c, g - 1).frame < Sent(c, g).frame
      BY <1>2, <2>5, <2>6
    <3>3. 0 <= frame[c] /\ frame[c] < frame[c] + 1
      BY <1>2
    <3>4. QED
      BY <2>5, <3>1, <3>2, <3>3
  <2>8. g \in Nat
    BY <1>2
  <2> HIDE DEF g
  <2>9. \A n \in 0..(g_send_count'[c] - 1) :
            /\ Sent(c, n)'.extent # "broken"
            /\ 0 <= Sent(c, n)'.frame /\ Sent(c, n)'.frame < frame'[c]
            /\ n > 0 => Sent(c, n - 1)'.frame < Sent(c, n)'.frame
    <3>1. g_send_count'[c] = g + 1
      BY <1>1 DEF g
    <3> TAKE n \in 0..(g_send_count'[c] - 1)
    <3>2. n \in 0..g /\ n \in Nat /\ (n > 0 => n - 1 \in Nat)
      BY <2>8, <3>1
    <3>3. Sent(c, n)' = Sent(c, n) /\ (n > 0 => Sent(c, n - 1)' = Sent(c, n - 1))
      BY <2>3, <3>2
    <3>4. QED
      BY <1>1, <2>7, <3>2, <3>3
  <2>10. QED
    BY <1>1, <1>2, <1>4, <2>9 DEF StreamOf
<1>5. QED
  BY <1>3, <1>4

\* Showing a frame moves it from its slot to what was shown.
LEMMA ShowKeepsStream ==
    ASSUME SlotInv, StreamInv, NEW c \in Channels, Show(c)
    PROVE  StreamOf(c)'
<1>1. /\ shown'[c] = Append(shown[c], memory[Addr(c, fetched[c])])
      /\ fetched'[c] = fetched[c] + 1
      /\ UNCHANGED <<pc, frame, g_send_count, memory, regfail>>
  BY DEF Show, SlotInv, StreamInv, hostVars
<1>2. /\ g_send_count[c] \in Nat /\ fetched[c] \in Nat /\ StreamOf(c)
      /\ Len(shown[c]) = fetched[c] /\ shown[c] \in Seq(SlotContent)
  BY DEF SlotInv, StreamInv, StreamOf
<1>3. memory[Addr(c, fetched[c])] \in SlotContent
  BY <1>2, AddrInMemory DEF StreamInv
<1>4. /\ Len(shown'[c]) = fetched'[c]
      /\ \A i \in 1..fetched[c] : shown'[c][i] = shown[c][i]
      /\ shown'[c][fetched[c] + 1] = memory[Addr(c, fetched[c])]
  BY <1>1, <1>2, <1>3
<1>5. \A n \in Nat : Sent(c, n)' = Sent(c, n)
  <2> TAKE n \in Nat
  <2>1. CASE n < fetched[c]
    BY <1>1, <1>2, <1>4, <2>1 DEF Sent
  <2>2. CASE n = fetched[c]
    BY <1>1, <1>2, <1>4, <2>2 DEF Sent
  <2>3. CASE n > fetched[c]
    BY <1>1, <1>2, <2>3 DEF Sent
  <2>4. QED
    BY <1>2, <2>1, <2>2, <2>3
<1>6. QED
  BY <1>1, <1>2, <1>4, <1>5 DEF StreamOf

\* The process of one channel leaves the frames of the others alone.
LEMMA OtherStreams ==
    ASSUME SlotInv, StreamInv, NEW c \in Channels, Proceed(c) \/ Show(c),
           NEW d \in Channels, d # c
    PROVE  StreamOf(d)'
<1>1. /\ pc'[d] = pc[d] /\ frame'[d] = frame[d]
      /\ g_send_count'[d] = g_send_count[d] /\ fetched'[d] = fetched[d]
      /\ shown'[d] = shown[d] /\ regfail'[d] = regfail[d]
  BY DEF Proceed, Show, Open, WaitFpgaReady, WriteBegin, WriteEnd, WriteFailed,
     SetFpgaWait, SendCountAfter, NextFrame, SlotInv, StreamInv, hostVars, cardVars
<1>2. \A n \in Nat : memory'[Addr(d, n)] = memory[Addr(d, n)]
  <2>1. \/ UNCHANGED memory
        \/ \E v : memory' = [memory EXCEPT ![Addr(c, g_send_count[c])] = v]
    BY DEF Proceed, Show, Open, WaitFpgaReady, WriteBegin, WriteEnd, SetFpgaWait,
       cardVars
  <2>2. \A n \in Nat :
            Addr(d, n) \in Addresses /\ Addr(d, n) # Addr(c, g_send_count[c])
    BY AddrInMemory, AddrApart DEF SlotInv
  <2>3. QED
    BY <2>1, <2>2 DEF StreamInv
<1>3. QED
  BY <1>1, <1>2, SameStream DEF StreamInv

\* Every step keeps the frames sent and the frames shown in agreement.
LEMMA StreamStep ==
    ASSUME SlotInv, StreamInv, [Next]_vars
    PROVE  StreamInv'
<1>1. ASSUME NEW c \in Channels, Proceed(c) \/ Show(c) PROVE StreamInv'
  <2>1. g_send_count[c] \in Nat /\ fetched[c] \in Nat
    BY DEF SlotInv
  <2>2. frame' \in [Channels -> Nat]
    BY <1>1 DEF Proceed, Show, Open, WaitFpgaReady, WriteBegin, WriteEnd,
       WriteFailed, SetFpgaWait, NextFrame, StreamInv, hostVars
  <2>3. memory' \in [Addresses -> SlotContent]
    <3>1. CASE UNCHANGED memory
      BY <3>1 DEF StreamInv
    <3>2. CASE WriteBegin(c)
      <4>1. [frame |-> frame[c], extent |-> "broken"] \in SlotContent
        BY DEF StreamInv, SlotContent, Extents
      <4>2. QED
        BY <3>2, <4>1 DEF WriteBegin, StreamInv
    <3>3. ASSUME NEW e \in {"whole", "part"},
                 memory' = [memory EXCEPT ![Addr(c, g_send_count[c])].extent = e]
          PROVE  memory' \in [Addresses -> SlotContent]
      <4>1. Addr(c, g_send_count[c]) \in Addresses
        BY <2>1, AddrInMemory
      <4>2. [memory[Addr(c, g_send_count[c])] EXCEPT !.extent = e] \in SlotContent
        BY <4>1 DEF StreamInv, SlotContent, Extents
      <4>3. QED
        BY <3>3, <4>2 DEF StreamInv
    <3>4. QED
      BY <1>1, <3>1, <3>2, <3>3 DEF Proceed, Show, Open, WaitFpgaReady, WriteEnd,
         SetFpgaWait, cardVars
  <2>4. shown' \in [Channels -> Seq(SlotContent)]
    <3>1. CASE UNCHANGED shown
      BY <3>1 DEF StreamInv
    <3>2. CASE Show(c)
      <4>1. memory[Addr(c, fetched[c])] \in SlotContent
        BY <2>1, AddrInMemory DEF StreamInv
      <4>2. Append(shown[c], memory[Addr(c, fetched[c])]) \in Seq(SlotContent)
        BY <4>1 DEF StreamInv
      <4>3. QED
        BY <3>2, <4>2 DEF Show, StreamInv
    <3>3. QED
      BY <1>1, <3>1, <3>2 DEF Proceed, Open, WaitFpgaReady, WriteBegin, WriteEnd,
         SetFpgaWait, cardVars
  <2>5. StreamOf(c)'
    <3>1. CASE Open(c)
      <4>1. /\ pc'[c] \notin {"writing", "announce"}
            /\ frame'[c] \in {frame[c], frame[c] + 1}
            /\ UNCHANGED <<g_send_count, memory, fetched, shown, regfail>>
        BY <3>1 DEF Open, NextFrame, SlotInv, StreamInv, cardVars
      <4>2. QED
        BY <4>1, LaterFrame
    <3>2. CASE WaitFpgaReady(c)
      <4>1. /\ pc'[c] \notin {"writing", "announce"} /\ frame'[c] = frame[c]
            /\ UNCHANGED <<g_send_count, memory, fetched, shown>>
        BY <3>2 DEF WaitFpgaReady, SlotInv, StreamInv, cardVars
      <4>2. \E f : regfail' = [regfail EXCEPT ![c] = regfail[c] \/ f]
        BY <3>2 DEF WaitFpgaReady
      <4>3. ~regfail'[c] => ~regfail[c]
        BY <4>2 DEF SlotInv
      <4>4. QED
        BY <4>1, <4>3, LaterFrame
    <3>3. QED
      BY <1>1, <3>1, <3>2, BeginKeepsStream, EndKeepsStream, AnnounceKeepsStream,
         ShowKeepsStream DEF Proceed
  <2>6. ASSUME NEW d \in Channels PROVE StreamOf(d)'
    <3>1. CASE d = c
      BY <2>5, <3>1
    <3>2. CASE d # c
      BY <1>1, <3>2, OtherStreams
    <3>3. QED
      BY <3>1, <3>2
  <2>7. QED
    BY <2>2, <2>3, <2>4, <2>6 DEF StreamInv
<1>2. CASE UNCHANGED vars
  <2>1. ASSUME NEW d \in Channels PROVE StreamOf(d)'
    BY <1>2, SameStream DEF StreamInv, vars, hostVars, cardVars
  <2>2. QED
    BY <1>2, <2>1 DEF StreamInv, vars, hostVars, cardVars
<1>3. QED
  BY <1>1, <1>2 DEF Next, Finished

\* Frames sent in order and written are frames shown in order and written.
LEMMA StreamSuffices ==
    ASSUME SlotInv, StreamInv
    PROVE  ShownInOrder /\ ShownIsWritten
<1> SUFFICES ASSUME NEW c \in Channels, NEW j \in 1..Len(shown[c]), ~regfail[c]
             PROVE  /\ shown[c][j].frame > IF j = 1 THEN -1 ELSE shown[c][j - 1].frame
                    /\ shown[c][j].extent # "broken"
  BY DEF ShownInOrder, ShownIsWritten
<1>1. /\ Len(shown[c]) = fetched[c] /\ fetched[c] \in Nat /\ ready[c] \in Nat
      /\ g_send_count[c] = fetched[c] + ready[c]
  <2>1. /\ fetched \in [Channels -> Nat] /\ ready \in [Channels -> 0..3]
        /\ g_send_count[c] = fetched[c] + ready[c]
    BY DEF SlotInv, Slots
  <2>2. Len(shown[c]) = fetched[c]
    BY DEF StreamInv, StreamOf
  <2>3. QED
    BY <2>1, <2>2
<1>2. /\ j - 1 \in 0..(g_send_count[c] - 1) /\ j - 1 < fetched[c] /\ j \in Nat
      /\ (j - 1) + 1 = j
  BY <1>1
<1>3. Sent(c, j - 1) = shown[c][j]
  BY <1>2 DEF Sent
<1>4. /\ Sent(c, j - 1).extent # "broken"
      /\ 0 <= Sent(c, j - 1).frame
      /\ j - 1 > 0 => Sent(c, j - 1 - 1).frame < Sent(c, j - 1).frame
  BY <1>2 DEF StreamInv, StreamOf
<1>5. Sent(c, j - 1).frame \in Int
  <2>1. j - 1 \in Nat
    BY <1>2
  <2>2. QED
    BY <2>1, SentType DEF SlotContent
<1>6. CASE j = 1
  BY <1>3, <1>4, <1>5, <1>6
<1>7. CASE j # 1
  <2>1. /\ j - 1 > 0 /\ j - 1 - 1 < fetched[c] /\ j - 1 - 1 \in Nat
        /\ (j - 1 - 1) + 1 = j - 1
    BY <1>1, <1>2, <1>7
  <2>2. Sent(c, j - 1 - 1) = shown[c][j - 1]
    BY <2>1 DEF Sent
  <2>3. Sent(c, j - 1 - 1).frame \in Int
    BY <2>1, SentType DEF SlotContent
  <2>4. QED
    BY <1>3, <1>4, <1>5, <1>7, <2>1, <2>2, <2>3
<1>8. QED
  BY <1>6, <1>7

\* Host and card agree on slots and frames in every reachable state.
THEOREM StreamInvariance == Spec => [](SlotInv /\ StreamInv)
<1>1. Init => SlotInv /\ StreamInv
  <2> SUFFICES ASSUME Init PROVE SlotInv /\ StreamInv
    OBVIOUS
  <2>1. SlotInv
    BY DEF Init, SlotInv, Places, Slots
  <2>2. NoFrame \in SlotContent
    BY DEF NoFrame, SlotContent, Extents
  <2>3. ASSUME NEW c \in Channels PROVE StreamOf(c)
    <3>1. /\ shown[c] = <<>> /\ fetched[c] = 0 /\ g_send_count[c] = 0
          /\ pc[c] \notin {"writing", "announce"}
      BY DEF Init
    <3>2. QED
      BY <3>1 DEF StreamOf
  <2>4. QED
    BY <2>1, <2>2, <2>3 DEF Init, StreamInv
<1>2. SlotInv /\ StreamInv /\ [Next]_vars => (SlotInv /\ StreamInv)'
  BY SlotStep, StreamStep
<1>3. QED
  BY <1>1, <1>2, PTL DEF Spec

\* As long as the ready register answers, the card shows frames in the order
\* they were sent, none twice and none from an empty slot, however many were
\* skipped because the device did not open or a write failed.
THEOREM FramesShownInOrder == Spec => []ShownInOrder
  BY StreamInvariance, StreamSuffices, PTL

\* As long as the ready register answers, no frame is shown whose write is going
\* on or has failed.
THEOREM FramesShownAreWritten == Spec => []ShownIsWritten
  BY StreamInvariance, StreamSuffices, PTL
=============================================================================
