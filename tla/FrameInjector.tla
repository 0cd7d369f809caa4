---------------------------- MODULE FrameInjector ----------------------------
(***************************************************************************)
(* The video injector, one dma_to_device process per camera channel        *)
(* (tools/pcie_xdma_transfer/dma_to_device.c): each frame goes to the next *)
(* of the channel's three slots in the card's memory as soon as the        *)
(* channel's ready register is not 3, and is then announced to the card.   *)
(*                                                                         *)
(* Card addresses are counted in slots (buf_addr_step, 0x2000000 bytes); a *)
(* frame fits into a slot.  What the card does with the register and with  *)
(* the slots is external to the repository.                                *)
(***************************************************************************)
EXTENDS Integers, Sequences

CONSTANTS
    Channels,       \* the channels in use
    Frames,         \* g_count: how many frames the process of a channel sends
    Faults,         \* what may go wrong, a subset of AllFaults
    CountValues     \* what wait_fpga_ready()'s uninitialized `count` may hold

\* "open": the DMA device cannot be opened; "write": writing a frame fails;
\* "underflow": a frame is written in part; "register": the register cannot be
\* reached, so reg_rw() returns an error instead of the value.
AllFaults == {"open", "write", "underflow", "register"}

ASSUME ChannelsAssumption == Channels \subseteq 0..7
ASSUME FramesAssumption   == Frames \in [Channels -> Nat]
ASSUME FaultsAssumption   == Faults \subseteq AllFaults
ASSUME CountAssumption    == CountValues \subseteq Int

Slots == 3
Places == {"open", "poll", "write", "writing", "announce", "done"}
\* What a slot holds of a frame: it is still being written or its write has
\* failed, all of it, or the part before an underflow.
Extents == {"broken", "whole", "part"}
\* A process that starts finds the slots empty: fpga_reset() came before.
NoFrame == [frame |-> -1, extent |-> "broken"]

VARIABLES
    pc,             \* where each process is
    frame,          \* the frame being sent: i in main()
    g_send_count,   \* frames announced so far
    count,          \* the local variable of wait_fpga_ready()
    memory,         \* the card's memory: per slot the frame it holds
    ready,          \* the ready register: slots announced and not yet shown
    fetched,        \* how many slots the card has shown
    shown,          \* what it has shown
    regfail         \* auxiliary: an access to the ready register has failed

hostVars == <<pc, frame, g_send_count, count>>
cardVars == <<memory, ready, fetched, shown>>
vars == <<hostVars, cardVars, regfail>>

\* Mutant: neighbouring channels are two slots apart.
FirstBufAddrTight(c) == IF c < 4 THEN 1032 + 2 * c ELSE 532 + 2 * (c - 4)

\* first_buf_addr[], in slots.
FirstBufAddr(c) ==
    <<1032, 1035, 1038, 1041, 532, 535, 538, 541>>[c + 1]

Addr(c, n) == FirstBufAddr(c) + (n % Slots)
Addresses == {Addr(c, n) : c \in Channels, n \in 0..(Slots - 1)}

Init ==
    /\ pc = [c \in Channels |-> IF Frames[c] = 0 THEN "done" ELSE "open"]
    /\ frame = [c \in Channels |-> 0]
    /\ g_send_count = [c \in Channels |-> 0]
    /\ count = [c \in Channels |-> 0]
    /\ memory = [a \in Addresses |-> NoFrame]
    /\ ready = [c \in Channels |-> 0]
    /\ fetched = [c \in Channels |-> 0]
    /\ shown = [c \in Channels |-> <<>>]
    /\ regfail = [c \in Channels |-> FALSE]
-----------------------------------------------------------------------------
(* The process of channel c                                                *)

\* main() goes on to the next frame whatever test_dma() has returned.
NextFrame(c) ==
    /\ frame' = [frame EXCEPT ![c] = @ + 1]
    /\ pc' = [pc EXCEPT ![c] = IF frame[c] + 1 < Frames[c] THEN "open" ELSE "done"]

\* test_dma() opens the device; wait_fpga_ready() begins with what happens to
\* be in `count`.
Open(c) ==
    /\ pc[c] = "open"
    /\ \/ /\ pc' = [pc EXCEPT ![c] = "poll"]
          /\ \E n \in CountValues : count' = [count EXCEPT ![c] = n]
          /\ UNCHANGED frame
       \/ /\ "open" \in Faults
          /\ NextFrame(c)
          /\ UNCHANGED count
    /\ UNCHANGED <<g_send_count, cardVars, regfail>>

\* reg_rw() for reading: the register's value, or an error number (1 if the
\* register cannot be mapped, -errno if the device cannot be opened).
RegRead(c) ==
    {[value |-> ready[c], failed |-> FALSE]} \cup
    {[value |-> error, failed |-> TRUE] :
        error \in IF "register" \in Faults THEN {1, -1} ELSE {}}

\* Mutant: waits at the wrong value.
MayWriteLate(c, value) == value # 4 /\ count[c] # 3

\* Mutant: the test is the wrong way round.
MayWriteInverted(c, value) == value = 3 /\ count[c] # 3

\* wait_fpga_ready() leaves its loop.
MayWrite(c, value) == value # 3 /\ count[c] # 3

\* One turn of wait_fpga_ready()'s loop.
WaitFpgaReady(c) ==
    /\ pc[c] = "poll"
    /\ \E read \in RegRead(c) :
        /\ regfail' = [regfail EXCEPT ![c] = @ \/ read.failed]
        /\ \/ /\ MayWrite(c, read.value)
              /\ pc' = [pc EXCEPT ![c] = "write"]
              /\ count' = [count EXCEPT ![c] = @ + 1]
           \/ /\ ~MayWrite(c, read.value)
              /\ UNCHANGED <<pc, count>>
    /\ UNCHANGED <<frame, g_send_count, cardVars>>

\* write_from_buffer() begins: from here on the slot's content is broken.
WriteBegin(c) ==
    /\ pc[c] = "write"
    /\ pc' = [pc EXCEPT ![c] = "writing"]
    /\ memory' = [memory EXCEPT ![Addr(c, g_send_count[c])] =
                    [frame |-> frame[c], extent |-> "broken"]]
    /\ UNCHANGED <<frame, g_send_count, count, ready, fetched, shown, regfail>>

\* Mutant: a failed write goes on to the announcement.
WriteFailedOn(c) ==
    /\ pc' = [pc EXCEPT ![c] = "announce"]
    /\ UNCHANGED frame

\* test_dma() jumps to `out` when the write has failed.
WriteFailed(c) == NextFrame(c)

\* write_from_buffer() returns: everything, a part, or an error.
WriteEnd(c) ==
    /\ pc[c] = "writing"
    /\ \/ /\ pc' = [pc EXCEPT ![c] = "announce"]
          /\ \E e \in IF "underflow" \in Faults THEN {"whole", "part"} ELSE {"whole"} :
                memory' = [memory EXCEPT ![Addr(c, g_send_count[c])].extent = e]
          /\ UNCHANGED frame
       \/ /\ "write" \in Faults
          /\ WriteFailed(c)
          /\ UNCHANGED memory
    /\ UNCHANGED <<g_send_count, count, ready, fetched, shown, regfail>>

\* Mutant: the slot index does not move on.
SendCountAfterKept(c) == g_send_count[c]

\* g_send_count++
SendCountAfter(c) == g_send_count[c] + 1

\* set_fpga_wait() announces the slot (the register counts up to 3); if the
\* register cannot be reached, nobody notices.
SetFpgaWait(c) ==
    /\ pc[c] = "announce"
    /\ \/ /\ ready' = [ready EXCEPT ![c] = IF @ < Slots THEN @ + 1 ELSE @]
          /\ UNCHANGED regfail
       \/ /\ "register" \in Faults
          /\ regfail' = [regfail EXCEPT ![c] = TRUE]
          /\ UNCHANGED ready
    /\ g_send_count' = [g_send_count EXCEPT ![c] = SendCountAfter(c)]
    /\ NextFrame(c)
    /\ UNCHANGED <<count, memory, fetched, shown>>
-----------------------------------------------------------------------------
\* The card shows the slots of a channel in turn (external).
Show(c) ==
    /\ ready[c] > 0
    /\ ready' = [ready EXCEPT ![c] = @ - 1]
    /\ fetched' = [fetched EXCEPT ![c] = @ + 1]
    /\ shown' = [shown EXCEPT ![c] = Append(@, memory[Addr(c, fetched[c])])]
    /\ UNCHANGED <<hostVars, memory, regfail>>

Proceed(c) == Open(c) \/ WaitFpgaReady(c) \/ WriteBegin(c) \/ WriteEnd(c)
              \/ SetFpgaWait(c)

\* Every process has ended and every announced frame was shown.
Finished ==
    /\ \A c \in Channels : pc[c] = "done" /\ ready[c] = 0
    /\ UNCHANGED vars

Next == (\E c \in Channels : Proceed(c) \/ Show(c)) \/ Finished

Spec == Init /\ [][Next]_vars

\* The processes run, and the card shows what it has at the camera's rate.
FairSpec == Spec /\ \A c \in Channels : WF_vars(Proceed(c)) /\ WF_vars(Show(c))
-----------------------------------------------------------------------------
(* Properties                                                              *)

Contents == [frame : {-1} \cup UNION {0..Frames[c] : c \in Channels},
             extent : Extents]

TypeOK ==
    /\ pc \in [Channels -> Places]
    /\ \A c \in Channels :
        /\ frame[c] \in 0..Frames[c]
        /\ g_send_count[c] \in 0..frame[c]
    /\ count \in [Channels -> Int]
    /\ memory \in [Addresses -> Contents]
    /\ ready \in [Channels -> 0..Slots]
    /\ fetched \in [Channels -> Nat]
    /\ shown \in [Channels -> Seq(Contents)]
    /\ regfail \in [Channels -> BOOLEAN]

\* The slots of channel c that are announced and not yet shown.
Announced(c) == {Addr(c, fetched[c] + k) : k \in 0..(ready[c] - 1)}

\* A process never writes to a slot that the card still has to show, on its
\* own channel or on another; dma_to_device.c:357 puts it as the register being
\* checked for a free buffer, 3 meaning wait.  On its own channel this ends
\* with the first failing access to the register: wait_fpga_ready() takes
\* reg_rw()'s error for a value below 3.  Other channels are safe even then.
WritesFreeSlot ==
    \A c, d \in Channels :
        pc[c] \in {"write", "writing"} /\ (c = d => ~regfail[c]) =>
            Addr(c, g_send_count[c]) \notin Announced(d)

\* Host and card agree on the slots of a channel whose register answers: what
\* was sent is shown or announced, and from the end of wait_fpga_ready() to the
\* announcement a slot is free.  This is inductive (FrameInjectorProofs) and
\* gives WritesFreeSlot.
SlotInv ==
    /\ pc \in [Channels -> Places]
    /\ g_send_count \in [Channels -> Nat]
    /\ ready \in [Channels -> 0..Slots]
    /\ fetched \in [Channels -> Nat]
    /\ regfail \in [Channels -> BOOLEAN]
    /\ \A c \in Channels : ~regfail[c] =>
        /\ g_send_count[c] = fetched[c] + ready[c]
        /\ pc[c] \in {"write", "writing", "announce"} => ready[c] < Slots

\* As long as the register answers, frames are shown in the order they were
\* sent, none twice and none from a slot nothing was written to, whatever
\* frames were skipped because the device did not open or the write failed.
ShownInOrder ==
    \A c \in Channels : \A j \in 1..Len(shown[c]) : ~regfail[c] =>
        shown[c][j].frame > IF j = 1 THEN -1 ELSE shown[c][j - 1].frame

\* As long as the register answers, no frame is shown whose write is still
\* going on or has failed: test_dma() announces a slot after the write has
\* returned a number of bytes.
ShownIsWritten ==
    \A c \in Channels : \A j \in 1..Len(shown[c]) : ~regfail[c] =>
        shown[c][j].extent # "broken"

\* The n-th frame sent on channel c, from 0: shown already, or in its slot.
Sent(c, n) == IF n < fetched[c] THEN shown[c][n + 1] ELSE memory[Addr(c, n)]

\* What is sent and what is shown on channel c agree frame by frame: the frames
\* announced are written, each later than the one before and earlier than the
\* one being sent, which is in the next slot from the beginning of its write on.
StreamOf(c) ==
    /\ Len(shown[c]) = fetched[c]
    /\ ~regfail[c] =>
        /\ \A n \in 0..(g_send_count[c] - 1) :
            /\ Sent(c, n).extent # "broken"
            /\ 0 <= Sent(c, n).frame /\ Sent(c, n).frame < frame[c]
            /\ n > 0 => Sent(c, n - 1).frame < Sent(c, n).frame
        /\ pc[c] \in {"writing", "announce"} =>
            memory[Addr(c, g_send_count[c])].frame = frame[c]
        /\ pc[c] = "announce" =>
            memory[Addr(c, g_send_count[c])].extent # "broken"

SlotContent == [frame : Int, extent : Extents]

StreamInv ==
    /\ frame \in [Channels -> Nat]
    /\ memory \in [Addresses -> SlotContent]
    /\ shown \in [Channels -> Seq(SlotContent)]
    /\ \A c \in Channels : StreamOf(c)

\* A frame that was written without error is shown in the end, unless an access
\* to the register fails on the way: set_fpga_wait() announces it in the slot
\* that is the card's next but `ready`, and no later frame is put there first.
SentIsShown ==
    \A c \in Channels : \A f \in 0..(Frames[c] - 1) :
        pc[c] = "announce" /\ frame[c] = f
            ~> regfail[c] \/ \E j \in 1..Len(shown[c]) : shown[c][j].frame = f

\* Whatever fails, the process gets through its frames: the slots it fills are
\* shown and make room.
ProcessEnds == \A c \in Channels : <>(pc[c] = "done")
=============================================================================
