----------------------------- MODULE XvcDevice ------------------------------
(***************************************************************************)
(* The Xilinx virtual cable device (xdma/cdev_xvc.c): an ioctl shifts JTAG *)
(* bits, a word at a time, through the registers of a debug bridge behind  *)
(* a BAR.  Several processes may call it.                                  *)
(*                                                                         *)
(* A word of 32 bits is Word bits here.  A piece of user data is known by  *)
(* its owner and bit offset.  The hardware shifts what the TMS and TDI     *)
(* registers hold when the shift is enabled; a shift enabled while one is  *)
(* under way may be lost.                                                  *)
(***************************************************************************)
EXTENDS Integers, Sequences, FiniteSets, SequencesExt

CONSTANTS
    Users,          \* processes with an open XVC file
    Word,           \* bits shifted at once (32)
    Lengths,        \* lengths an XVC user asks for, in bits
    LoopMax,        \* COMPLETION_LOOP_MAX
    MaxCalls,       \* bound: calls of each user
    Nobody          \* the lock is free; nothing was shifted

ASSUME WordAssumption     == Word \in Nat \ {0}
ASSUME LengthsAssumption  == Lengths \subseteq Nat
ASSUME LoopAssumption     == LoopMax \in Nat \ {0}
ASSUME MaxCallsAssumption == MaxCalls \in Nat
ASSUME NobodyAssumption   == Nobody \notin Users

VARIABLES
    pc,         \* where each user's ioctl is
    calls,      \* calls each user has begun
    total_bits, \* the length asked for
    bits,       \* offset of the word being shifted
    count,      \* polls left for this word
    tdo,        \* the words read back so far: what was shifted, per word
    ret,        \* what the last ioctl returned
    lock,       \* xcdev->lock
    length_reg, \* XVC_BAR_LENGTH_REG
    shifting,   \* the shift under way in the hardware
    tdo_reg,    \* XVC_BAR_TDO_REG: the shift it is the result of
    jtag,       \* what the JTAG chain has seen since the lock was taken
    late        \* auxiliary: a shift was given up while under way

xvcVars == <<pc, calls, total_bits, bits, count, tdo, ret, lock>>
hwVars  == <<length_reg, shifting, tdo_reg, jtag, late>>
vars    == <<xvcVars, hwVars>>

Piece(u, b, n) == [by |-> u, at |-> b, bits |-> n]
Nothing == Piece(Nobody, 0, 0)

Init ==
    /\ pc = [u \in Users |-> "idle"]
    /\ calls = [u \in Users |-> 0]
    /\ total_bits = [u \in Users |-> 0]
    /\ bits = [u \in Users |-> 0]
    /\ count = [u \in Users |-> 0]
    /\ tdo = [u \in Users |-> <<>>]
    /\ ret = [u \in Users |-> "none"]
    /\ lock = Nobody
    /\ length_reg = 0
    /\ shifting = Nothing
    /\ tdo_reg = Nothing
    /\ jtag = <<>>
    /\ late = FALSE

Goto(u, place) == pc' = [pc EXCEPT ![u] = place]
-----------------------------------------------------------------------------
(* xvc_ioctl() and xvc_shift_bits()                                        *)

\* The request and its buffers have been copied in.
XvcIoctl(u, n) ==
    /\ pc[u] = "idle"
    /\ calls[u] < MaxCalls
    /\ calls' = [calls EXCEPT ![u] = @ + 1]
    /\ total_bits' = [total_bits EXCEPT ![u] = n]
    /\ ret' = [ret EXCEPT ![u] = "none"]
    /\ Goto(u, "lock")
    /\ UNCHANGED <<bits, count, tdo, lock, hwVars>>

\* Mutant: a length of exactly one word is taken for a partial one.
FirstLengthLater(n) == IF n > Word THEN Word ELSE length_reg

\* The length register is set to a whole word if at least one will be shifted.
FirstLength(n) == IF n >= Word THEN Word ELSE length_reg

XvcLock(u) ==
    /\ pc[u] = "lock"
    /\ lock = Nobody
    /\ lock' = u
    /\ length_reg' = FirstLength(total_bits[u])
    /\ bits' = [bits EXCEPT ![u] = 0]
    /\ tdo' = [tdo EXCEPT ![u] = <<>>]
    /\ jtag' = <<>>
    /\ Goto(u, "word")
    /\ UNCHANGED <<calls, total_bits, count, ret, shifting, tdo_reg,
                   late>>

BitsLeft(u) == total_bits[u] - bits[u]

\* The next word: the length of a partial one, TMS and TDI, then the enable.
XvcWord(u) ==
    /\ pc[u] = "word"
    /\ bits[u] < total_bits[u]
    /\ length_reg' = IF BitsLeft(u) < Word THEN BitsLeft(u) ELSE length_reg
    /\ LET new == Piece(u, bits[u], length_reg')
       IN shifting' \in IF shifting = Nothing THEN {new} ELSE {new, shifting}
    /\ count' = [count EXCEPT ![u] = LoopMax]
    /\ Goto(u, "poll")
    /\ UNCHANGED <<calls, total_bits, bits, tdo, ret, lock, tdo_reg, jtag, late>>

\* One read of the control register: done, or one poll less.
XvcPoll(u) ==
    /\ pc[u] = "poll"
    /\ count[u] > 0
    /\ \/ /\ shifting = Nothing
          /\ Goto(u, "read")
          /\ UNCHANGED count
       \/ /\ shifting # Nothing
          /\ count' = [count EXCEPT ![u] = @ - 1]
          /\ UNCHANGED pc
    /\ UNCHANGED <<calls, total_bits, bits, tdo, ret, lock, hwVars>>

\* xvc_shift_bits() gives up: the call ends, the hardware may still shift.
XvcTimeout(u) ==
    /\ pc[u] = "poll"
    /\ count[u] = 0
    /\ late' = (late \/ shifting # Nothing)
    /\ ret' = [ret EXCEPT ![u] = "ETIMEDOUT"]
    /\ lock' = Nobody
    /\ Goto(u, "idle")
    /\ UNCHANGED <<calls, total_bits, bits, count, tdo, length_reg,
                   shifting, tdo_reg, jtag>>

\* TDO is read and stored at the word's place.
XvcRead(u) ==
    /\ pc[u] = "read"
    /\ tdo' = [tdo EXCEPT ![u] = Append(@, tdo_reg)]
    /\ bits' = [bits EXCEPT ![u] = @ + Word]
    /\ Goto(u, "word")
    /\ UNCHANGED <<calls, total_bits, count, ret, lock, hwVars>>

\* All words are through: the buffer, or for the loop-back opcode that of TDI, is
\* copied out and the lock released.
XvcReturn(u) ==
    /\ pc[u] = "word"
    /\ bits[u] >= total_bits[u]
    /\ ret' = [ret EXCEPT ![u] = "ok"]
    /\ lock' = Nobody
    /\ Goto(u, "idle")
    /\ UNCHANGED <<calls, total_bits, bits, count, tdo, hwVars>>

\* External: the debug bridge ends the shift.
HwShift ==
    /\ shifting # Nothing
    /\ jtag' = Append(jtag, shifting)
    /\ tdo_reg' = shifting
    /\ shifting' = Nothing
    /\ UNCHANGED <<xvcVars, length_reg, late>>
-----------------------------------------------------------------------------
Xvc(u) == XvcLock(u) \/ XvcWord(u) \/ XvcPoll(u) \/ XvcTimeout(u) \/ XvcRead(u)
          \/ XvcReturn(u)

Next ==
    \/ \E u \in Users : Xvc(u) \/ \E n \in Lengths : XvcIoctl(u, n)
    \/ HwShift

Spec == Init /\ [][Next]_vars
-----------------------------------------------------------------------------
(* Properties                                                              *)

PieceSet == [by : Users \cup {Nobody}, at : Nat, bits : Nat]

TypeOK ==
    /\ pc \in [Users -> {"idle", "lock", "word", "poll", "read"}]
    /\ calls \in [Users -> 0..MaxCalls]
    /\ total_bits \in [Users -> Nat]
    /\ bits \in [Users -> Nat]
    /\ count \in [Users -> 0..LoopMax]
    /\ tdo \in [Users -> Seq(PieceSet)]
    /\ ret \in [Users -> {"none", "ok", "ETIMEDOUT"}]
    /\ lock \in Users \cup {Nobody}
    /\ length_reg \in Nat
    /\ shifting \in PieceSet
    /\ tdo_reg \in PieceSet
    /\ jtag \in Seq(PieceSet)
    /\ late \in BOOLEAN

\* The pieces a call of this length should shift, in order.
Pieces(u, total) ==
    [i \in 1..((total + Word - 1) \div Word) |->
        Piece(u, (i - 1) * Word,
              IF i * Word <= total THEN Word ELSE total - (i - 1) * Word)]

\* The JTAG chain sees the words of one call in order, each once and with the
\* right number of bits, whatever lengths were used before, and a call that
\* returns 0 hands back the result of each of its words, at its place; unless
\* an earlier shift was given up while the hardware was still at it.
ShiftsInOrder ==
    ~late =>
        /\ lock # Nobody => IsPrefix(jtag, Pieces(lock, total_bits[lock]))
        /\ \A u \in Users : ret[u] = "ok" => tdo[u] = Pieces(u, total_bits[u])
-----------------------------------------------------------------------------
(* The inductive invariant of CharDeviceProofs                              *)

\* The user who holds xcdev->lock has read back the first words of its call
\* and is at the next one: not yet begun, shifting, or shifted.
ShiftInv(u) ==
    LET all == Pieces(u, total_bits[u])
        n == Len(tdo[u])
    IN
    /\ n <= Len(all)
    /\ bits[u] = n * Word
    /\ \A i \in 1..n : tdo[u][i] = all[i]
    /\ BitsLeft(u) >= Word => length_reg = Word
    /\ pc[u] = "word" => shifting = Nothing /\ jtag = tdo[u]
    /\ pc[u] \in {"poll", "read"} =>
        /\ n < Len(all)
        /\ \/ /\ pc[u] = "poll"
              /\ shifting = all[n + 1]
              /\ jtag = tdo[u]
           \/ /\ shifting = Nothing
              /\ tdo_reg = all[n + 1]
              /\ jtag = Append(tdo[u], all[n + 1])

LockInv ==
    \A u \in Users :
        /\ lock = u <=> pc[u] \in {"word", "poll", "read"}
        /\ ret[u] = "ok" => pc[u] = "idle"

CableInv ==
    ~late =>
        /\ lock = Nobody => shifting = Nothing
        /\ \A u \in Users :
            /\ lock = u => ShiftInv(u)
            /\ ret[u] = "ok" => tdo[u] = Pieces(u, total_bits[u])
=============================================================================
