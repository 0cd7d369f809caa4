------------------------------ MODULE ArmTool -------------------------------
(***************************************************************************)
(* The tool that talks to the ARM of the card (tools/pcie_a53_rw): main()  *)
(* runs one of four programs - a shell command, a file, the link margin    *)
(* test, a SerDes register table - each of which is a series of messages   *)
(* through a mailbox in block RAM with a doorbell register.                *)
(*                                                                         *)
(* The firmware is external: it takes a message once the doorbell is set   *)
(* and clears the doorbell with its answer, also when the tool has given   *)
(* up in the meantime.  A message has a serial number that only the        *)
(* properties look at.  Register values are scaled down: RLMS95 holds an   *)
(* amplitude below AmpMask, the bit Manual (0x80) above it and one bit     *)
(* (0x40) between them; a C uint8_t wraps at Byte.                         *)
(***************************************************************************)
EXTENDS Integers, Sequences, FiniteSets, SequencesExt

CONSTANTS
    Plans,          \* bound: the programs run, one after the other, and the
                    \* number of slow polls and faults they meet
    CmdPolls,       \* polls before a command is given up (1000)
    FilePolls,      \* polls before a file is given up (100000)
    BufLen,         \* RESULT_BUF_LENGTH
    WordLen,        \* bytes per register (4)
    Lens,           \* lengths of a shell command's output
    DataLen,        \* UDATALEN
    Sizes,          \* file sizes
    Elements,       \* register writes and delays of SerDes tables
    Tables,         \* SerDes tables: sequences of elements
    Tries,          \* looks at the lock (20 before, 100 during the test)
    Rates,          \* link rates the chips may report
    AmpMask,        \* amplitudes are below (0x3f + 1)
    AmpOrg,         \* amplitude of a serializer at a known rate (41)
    AmpMin          \* amplitude at which the test stops (10)

ASSUME ArmAssumption ==
    /\ {CmdPolls, FilePolls, BufLen, WordLen,
        DataLen, Tries, AmpMask, AmpOrg, AmpMin} \subseteq Nat
    /\ CmdPolls > 0 /\ FilePolls > 0 /\ DataLen > 0 /\ WordLen > 0 /\ Tries > 0
    /\ BufLen > 1 /\ BufLen % WordLen = 0
    /\ AmpMin < AmpOrg /\ AmpOrg < AmpMask
    /\ Plans \subseteq [progs : Seq({"cmd", "file", "margin", "table"}), trouble : Nat]
    /\ Lens \subseteq Nat /\ Sizes \subseteq Nat /\ Rates \subseteq 0..3
    /\ Tables \subseteq Seq(Elements)

Manual  == 2 * AmpMask
Byte    == 2 * Manual
PathArea == 3       \* words of the path field a firmware may look at
Serials  == 4       \* serial numbers, more than messages unanswered at a time

VARIABLES
    pc,             \* what the tool does next
    plan,           \* the programs still to be run, and the bound on trouble
    job,            \* the program and how far it is
    cmd,            \* the message being sent
    sent,           \* its serial number
    loop_count,     \* polls spent
    ret,            \* what the last send returned
    cmd_result,     \* the global result buffer
    locals,         \* C variables of the margin test, by chip and register
    se_tx_amp_org,  \* global: the serializer's amplitude
    mail,           \* mailbox: the command, and the file header
    path,           \* mailbox: the words of the path field
    doorbell,       \* register 0x30300
    answer,         \* register 0x30308 and the answer area at 0x8000
    fw,             \* the message the firmware is working on
    regs,           \* registers of serializer and deserializer
    applied,        \* table elements written to the bus in this run
    stored,         \* file blocks stored in this run
    slow, faults,   \* auxiliary: slow polls and faults so far
    late            \* auxiliary: a message under way was given up

jobVars  == <<plan, job, locals, se_tx_amp_org>>
sendVars == <<cmd, sent, loop_count, ret, cmd_result>>
mailVars == <<mail, path, doorbell, answer>>
fwVars   == <<fw, regs, applied, stored>>
auxVars  == <<slow, faults, late>>
vars     == <<pc, jobVars, sendVars, mailVars, fwVars, auxVars>>

Chips == {"se", "de"}
RegNames == {"REG01", "RLMS95", "RLMSA4", "RLMS4", "RLMS3", "CNT0", "CTRL3"}
Nothing == [op |-> "none"]
NoLocals == [x \in Chips \X RegNames |-> 0]

Header == [off |-> 0, len |-> 0, sync |-> 0, sum |-> 0]
NoText == [by |-> "zero", end |-> TRUE]

Init ==
    /\ pc = "idle"
    /\ plan \in Plans
    /\ job = [kind |-> "none"]
    /\ cmd = Nothing
    /\ sent = 0
    /\ loop_count = 0
    /\ ret = "none"
    /\ cmd_result = [of |-> 0, kept |-> 0, value |-> 0]
    /\ locals = NoLocals
    /\ se_tx_amp_org = 0
    /\ mail = [cmd |-> Nothing, of |-> 0, total |-> 0, hdr |-> Header]
    /\ path = [i \in 1..PathArea |-> NoText]
    /\ doorbell = 0
    /\ answer = [result |-> 0, of |-> 0, len |-> 0, value |-> 0]
    /\ fw = [cmd |-> Nothing]
    /\ regs \in {[x \in Chips \X RegNames |->
                    CASE x[2] = "REG01" -> IF x[1] = "se" THEN r ELSE 0
                      [] x[2] = "RLMS95" -> Manual
                      [] OTHER -> 1] : r \in Rates}
    /\ applied = <<>>
    /\ stored = <<>>
    /\ slow = 0
    /\ faults = 0
    /\ late = FALSE
-----------------------------------------------------------------------------
(* main(): the programs                                                    *)

Detect == [op |-> "detect"]

\* A run of the tool starts with fresh globals; the mailbox keeps its words.
Main(begin) ==
    /\ pc = "idle"
    /\ plan.progs # <<>>
    /\ Head(plan.progs) = begin.kind
    /\ plan' = [plan EXCEPT !.progs = Tail(@)]
    /\ job' = begin
    /\ cmd_result' = [of |-> 0, kept |-> 0, value |-> 0]
    /\ locals' = NoLocals
    /\ se_tx_amp_org' = 0
    /\ ret' = "none"
    /\ loop_count' = 0
    /\ applied' = <<>>
    /\ stored' = <<>>
    /\ UNCHANGED <<sent, doorbell, answer, fw, regs, auxVars>>

\* Channel 100: send_cmd_to_a53_sync() of the argument.
MainCmd ==
    /\ Main([kind |-> "cmd"])
    /\ cmd' = [op |-> "shell"]
    /\ pc' = "write"
    /\ UNCHANGED <<mail, path>>

\* Channels below 98: element_channel_process() looks for the devices first.
MainTable(t) ==
    /\ Main([kind |-> "table", table |-> t, at |-> 0])
    /\ cmd' = Detect
    /\ pc' = "write"
    /\ UNCHANGED <<mail, path>>

\* Channels above 100: link_margin_test().
MainMargin ==
    /\ Main([kind |-> "margin", part |-> "detect", at |-> 1, tries |-> 0, amp |-> 0])
    /\ cmd' = Detect
    /\ pc' = "write"
    /\ UNCHANGED <<mail, path>>

\* A path fills whole words, the last one with its terminator unless the length
\* is a multiple of a word.
PathWords(f) == [i \in 1..f.words |-> [by |-> "file", end |-> i = f.words /\ ~f.exact]]
Paths == {[words |-> n, exact |-> e] : n \in {2}, e \in BOOLEAN}

\* Channel 98: flag, path and total length of send_file_to_a53_sync().
MainFile(f, size) ==
    /\ Main([kind |-> "file", path |-> f, size |-> size, i |-> 0])
    /\ cmd' = [op |-> "file"]
    /\ path' = [i \in DOMAIN path |-> IF i <= f.words THEN PathWords(f)[i] ELSE path[i]]
    /\ mail' = [mail EXCEPT !.cmd = [op |-> "file"], !.total = size]
    /\ pc' = "block"
-----------------------------------------------------------------------------
(* send_cmd_to_a53_sync()                                                  *)

\* Flag, text and length.  The text lies where a file's path goes.
SendWrite ==
    /\ pc = "write"
    /\ sent' = (sent + 1) % Serials
    /\ mail' = [mail EXCEPT !.cmd = cmd, !.of = sent']
    /\ path' = [i \in DOMAIN path |-> [by |-> "cmd", end |-> FALSE]]
    /\ loop_count' = 0
    /\ pc' = "ring"
    /\ UNCHANGED <<jobVars, cmd, ret, cmd_result, doorbell, answer, fwVars, auxVars>>

\* Type and doorbell.
SendRing ==
    /\ pc = "ring"
    /\ doorbell' = 1
    /\ pc' = "poll"
    /\ UNCHANGED <<jobVars, sendVars, mail, path, answer, fwVars, auxVars>>

\* Bound: there is still trouble to come.
Trouble == slow + faults < plan.trouble

PollLimit == IF job.kind = "file" THEN FilePolls ELSE CmdPolls

\* One look at the doorbell.
Poll ==
    /\ pc = "poll"
    /\ loop_count < PollLimit
    /\ \/ /\ doorbell = 0
          /\ pc' = "result"
          /\ UNCHANGED <<loop_count, slow>>
       \/ /\ doorbell # 0
          /\ Trouble
          /\ slow' = slow + 1
          /\ loop_count' = loop_count + 1
          /\ UNCHANGED pc
    /\ UNCHANGED <<jobVars, cmd, sent, ret, cmd_result, mailVars, fwVars, faults, late>>

Fail(where) == ret' = "-1" /\ pc' = where

\* Mutant: the result is read although the doorbell is still set.
PollTimeoutGoesOn ==
    /\ pc = "poll"
    /\ loop_count = PollLimit
    /\ pc' = "result"
    /\ UNCHANGED <<jobVars, sendVars, mailVars, fwVars, auxVars>>

\* All polls are spent: the doorbell is cleared by hand, the send fails.
PollTimeout ==
    /\ pc = "poll"
    /\ loop_count = PollLimit
    /\ doorbell' = 0
    /\ late' = (late \/ fw.cmd # Nothing)
    /\ Fail("next")
    /\ UNCHANGED <<jobVars, cmd, sent, loop_count, cmd_result, mail, path, answer,
                   fwVars, slow, faults>>

\* The result register: an error ends the send, a file block ends with it.  An
\* answer without the flag 0x5a5aa5a5 ends the send the same way: it counts as
\* a result other than zero.
ReadResult ==
    /\ pc = "result"
    /\ \/ /\ answer.result # 0
          /\ Fail("next")
       \/ /\ answer.result = 0
          /\ job.kind = "file"
          /\ ret' = "0"
          /\ pc' = "next"
       \/ /\ answer.result = 0
          /\ job.kind # "file"
          /\ pc' = "answer"
          /\ UNCHANGED ret
    /\ UNCHANGED <<jobVars, cmd, sent, loop_count, cmd_result, mailVars, fwVars,
                   auxVars>>

\* Where the part of a long answer begins that is copied.
Cursor(len) == IF len < BufLen THEN 0 ELSE len - (len % BufLen)

\* Bytes copied to the buffer: from the cursor, in whole words.
Kept(len) == WordLen * ((len - Cursor(len) + WordLen - 1) \div WordLen)

\* Flag, length and data of the answer.  The number parsed from a cut answer is
\* whatever its tail says.
ReadAnswer ==
    /\ pc = "answer"
    /\ cmd_result' = [of |-> answer.of, kept |-> Kept(answer.len),
                      value |-> IF Cursor(answer.len) = 0 THEN answer.value ELSE 0]
    /\ ret' = "0"
    /\ pc' = "next"
    /\ UNCHANGED <<jobVars, cmd, sent, loop_count, mailVars, fwVars, auxVars>>
-----------------------------------------------------------------------------
(* send_file_to_a53_sync(): the blocks                                     *)

\* Header fields that a 32-bit store to this one also covers: the length is at
\* 108, the sync byte at 110 and the checksum at 111.
Behind == [off |-> {}, len |-> {"sync", "sum"}, sync |-> {"sum"}, sum |-> {}]

Put(h, f, v) == [g \in DOMAIN h |-> IF g = f THEN v
                                    ELSE IF g \in Behind[f] THEN 0 ELSE h[g]]

\* The byte sum of a block: a token per block, zero for an empty one.
Checksum(off, len) == IF len = 0 THEN 0 ELSE off + 1

\* Mutant: the checksum is stored before the sync byte.
BlockHeaderEarlySum(h, off, len, sync) ==
    Put(Put(Put(Put(h, "off", off), "len", len), "sum", Checksum(off, len)),
        "sync", sync)

BlockHeader(h, off, len, sync) ==
    Put(Put(Put(Put(h, "off", off), "len", len), "sync", sync),
        "sum", Checksum(off, len))

Blocks(size) == size \div DataLen

\* Whole blocks, then the rest, which may be empty, with the sync byte.
SendBlock ==
    /\ pc = "block"
    /\ sent' = (sent + 1) % Serials
    /\ LET off  == job.i * DataLen
           last == job.i = Blocks(job.size)
           len  == IF last THEN job.size % DataLen ELSE DataLen
       IN mail' = [mail EXCEPT !.of = sent',
                      !.hdr = BlockHeader(@, off, len, IF last THEN 1 ELSE 0)]
    /\ pc' = "ring"
    /\ UNCHANGED <<jobVars, cmd, loop_count, ret, cmd_result, path, doorbell, answer,
                   fwVars, auxVars>>

\* The file has become shorter: fread() returns less than asked for.
BlockUnread ==
    /\ pc = "block"
    /\ Trouble
    /\ faults' = faults + 1
    /\ ret' = "1"
    /\ pc' = "idle"
    /\ UNCHANGED <<jobVars, cmd, sent, loop_count, cmd_result, mailVars, fwVars, slow,
                   late>>

\* After a block: the next one, or the end.  loop_count is not reset.
NextBlock ==
    /\ pc = "next"
    /\ job.kind = "file"
    /\ IF ret = "0" /\ job.i < Blocks(job.size)
         THEN pc' = "block" /\ job' = [job EXCEPT !.i = @ + 1]
         ELSE pc' = "idle" /\ UNCHANGED job
    /\ UNCHANGED <<plan, locals, se_tx_amp_org, sendVars, mailVars, fwVars, auxVars>>
-----------------------------------------------------------------------------
(* element_channel_process()                                               *)

\* The command of the i-th element; all elements have an offset of 8 or 16 bits.
\* The devices are listed again at the end.
Element(t, i) == IF i <= Len(t) THEN [op |-> "elem", elem |-> t[i]] ELSE Detect

\* Errors are ignored.
NextElement ==
    /\ pc = "next"
    /\ job.kind = "table"
    /\ \/ /\ job.at <= Len(job.table)
          /\ job' = [job EXCEPT !.at = @ + 1]
          /\ cmd' = Element(job.table, job.at + 1)
          /\ pc' = "write"
       \/ /\ job.at > Len(job.table)
          /\ pc' = "idle"
          /\ UNCHANGED <<job, cmd>>
    /\ UNCHANGED <<plan, locals, se_tx_amp_org, sent, loop_count, ret, cmd_result,
                   mailVars, fwVars, auxVars>>
-----------------------------------------------------------------------------
(* link_margin_test(): its register accesses, part by part                 *)

Rd(d, r)      == [op |-> "rd", dev |-> d, reg |-> r]
Wr(d, r, how) == [op |-> "wr", dev |-> d, reg |-> r, how |-> how]
Both(r) == <<Rd("se", r), Rd("de", r), Wr("se", r, "clear"), Wr("de", r, "clear")>>
AdaptOnOff == <<Rd("de", "RLMS3"), Wr("de", "RLMS3", "set"),
                Rd("de", "RLMS3"), Wr("de", "RLMS3", "clear")>>
ClearErrors == <<Rd("se", "CNT0"), Rd("de", "CNT0")>>

Parts ==
    [detect  |-> <<Detect>>,
     init    |-> <<Rd("de", "REG01"), Wr("de", "RLMS95", "rate"),
                   Rd("se", "REG01"), Wr("se", "RLMS95", "rate")>>
                 \o Both("RLMSA4") \o Both("RLMS4") \o Both("RLMS3") \o Both("RLMS95")
                 \o ClearErrors,
     lock    |-> <<Rd("de", "CNT0"), Rd("de", "CTRL3")>>,
     lower   |-> <<Rd("se", "RLMS95"), Wr("se", "RLMS95", "lower")>> \o AdaptOnOff,
     wait    |-> <<Rd("de", "CTRL3")>>,
     count   |-> <<Rd("de", "CNT0"), Rd("de", "CNT0")>>,
     restore |-> <<Wr("se", "RLMS95", "org")>> \o AdaptOnOff,
     complete |-> ClearErrors]

\* CTRL3 has two lock bits: 0x80, looked at before the test, and 0x40.
Locked(v)   == v >= 2
RxLocked(v) == v % 2 = 1

\* Mutant: the loop also goes on at the stop value.
GoesOnOnce(cnt0, amp) == cnt0 = 0 /\ amp >= AmpMin

\* Mutant: the loop goes on until both conditions fail.
GoesOnEither(cnt0, amp) == cnt0 = 0 \/ amp > AmpMin

\* The condition of the do-while loop.
GoesOn(cnt0, amp) == cnt0 = 0 /\ amp > AmpMin

\* The part after this one, from the C variables l.
After(l) ==
    LET cnt0 == l[<<"de", "CNT0">>]
        ctrl3 == l[<<"de", "CTRL3">>]
        again == job.tries + 1 < Tries
    IN CASE job.part = "detect" -> "init"
         [] job.part = "init" -> "lock"
         [] job.part = "lock" -> IF cnt0 = 0 /\ Locked(ctrl3) THEN "lower"
                                 ELSE IF again THEN "lock" ELSE "complete"
         [] job.part = "lower" -> "wait"
         [] job.part = "wait" -> IF ~RxLocked(ctrl3) /\ again THEN "wait" ELSE "count"
         [] job.part = "count" -> IF GoesOn(cnt0, job.amp) THEN "lower" ELSE "restore"
         [] job.part = "restore" -> "complete"
         [] job.part = "complete" -> "done"

\* Amplitudes set for a rate.  A serializer rate of 3 has none: the global keeps
\* its zero.
SeAmp(rate) == IF rate <= 2 THEN AmpOrg ELSE se_tx_amp_org
DeAmp(rate) == IF rate = 0 THEN AmpOrg - 2 ELSE AmpOrg - 1

\* se_tx_amp, an uint8_t: the masked amplitude less one.
Lowered(v) == ((v % AmpMask) - 1) % Byte

OrManual(v) == IF (v \div Manual) % 2 = 1 THEN v ELSE v + Manual

\* The value written: 0x80 set or cleared, or an amplitude.
Written(c, l, org) ==
    LET v == l[<<c.dev, c.reg>>]
    IN CASE c.how = "rate"  -> IF c.dev = "se" THEN org ELSE DeAmp(l[<<"de", "REG01">>])
         [] c.how = "clear" -> IF c.reg = "RLMS95" THEN v % Manual ELSE 0
         [] c.how = "set"   -> 1
         [] c.how = "lower" -> OrManual(Lowered(v))
         [] c.how = "org"   -> OrManual(org)

\* A read whose send failed parses what the buffer still holds.  The variables
\* of a C function are forgotten when it returns.
NextMargin ==
    /\ pc = "next"
    /\ job.kind = "margin"
    /\ LET l == IF cmd.op = "rd"
                  THEN [locals EXCEPT ![<<cmd.dev, cmd.reg>>] = cmd_result.value]
                  ELSE locals
           more == job.at < Len(Parts[job.part])
           part == IF more THEN job.part ELSE After(l)
           at   == IF more THEN job.at + 1 ELSE 1
           org  == IF cmd.op = "rd" /\ cmd.dev = "se" /\ cmd.reg = "REG01"
                     THEN SeAmp(cmd_result.value) ELSE se_tx_amp_org
       IN /\ locals' = l
          /\ se_tx_amp_org' = org
          /\ IF part = "done"
               THEN pc' = "idle" /\ UNCHANGED <<job, cmd>>
               ELSE LET c == Parts[part][at]
                    IN /\ pc' = "write"
                       /\ cmd' = IF c.op = "wr"
                                   THEN [op |-> "wr", dev |-> c.dev, reg |-> c.reg,
                                         value |-> Written(c, l, org)]
                                   ELSE c
                       /\ job' = [job EXCEPT !.part = part, !.at = at,
                                    !.tries = IF more \/ part # job.part THEN
                                                IF part = job.part THEN @ ELSE 0
                                              ELSE @ + 1,
                                    !.amp = IF c.op = "wr" /\ part = "lower" /\ at = 2
                                              THEN Lowered(l[<<"se", "RLMS95">>]) ELSE @]
    /\ UNCHANGED <<plan, sent, loop_count, ret, cmd_result, mailVars, fwVars, auxVars>>

\* A shell command ends the run; get_cmd_result() parses the buffer.
NextCmd ==
    /\ pc = "next"
    /\ job.kind = "cmd"
    /\ pc' = "idle"
    /\ UNCHANGED <<jobVars, sendVars, mailVars, fwVars, auxVars>>
-----------------------------------------------------------------------------
(* External: the firmware and the chips behind its buses                   *)

\* A path reaches to the first word with a terminator, which may be all of it.
PathRead ==
    LET ends == {i \in DOMAIN path : path[i].end}
        n == IF ends = {} THEN PathArea ELSE CHOOSE i \in ends : \A j \in ends : i <= j
    IN SubSeq(path, 1, IF path[n] = NoText THEN n - 1 ELSE n)

\* The firmware sees the doorbell and takes the message.
FwTake ==
    /\ fw.cmd = Nothing
    /\ doorbell = 1
    /\ fw' = [cmd |-> mail.cmd, of |-> mail.of, path |-> PathRead,
              block |-> [total |-> mail.total, hdr |-> mail.hdr]]
    /\ UNCHANGED <<pc, jobVars, sendVars, mailVars, regs, applied, stored, auxVars>>

\* What a register reads as: the deserializer's error counter and lock bits may
\* be anything.
Readings(c) ==
    CASE c.reg = "CNT0" /\ c.dev = "de" -> {0, 1}
      [] c.reg = "CTRL3" -> {0, 1, 3}
      [] OTHER -> {regs[<<c.dev, c.reg>>]}

Answered(result, len, value) ==
    /\ answer' = [result |-> result, of |-> fw.of, len |-> len, value |-> value]
    /\ doorbell' = 0
    /\ fw' = [cmd |-> Nothing]
    /\ UNCHANGED <<pc, jobVars, sendVars, mail, path, slow, late>>

\* It does what the message says, answers and clears the doorbell.
FwAnswer ==
    /\ fw.cmd # Nothing
    /\ \/ /\ fw.cmd.op = "rd"
          /\ \E v \in Readings(fw.cmd) : Answered(0, 1, v)
          /\ UNCHANGED <<regs, applied, stored>>
       \/ /\ fw.cmd.op = "wr"
          /\ regs' = [regs EXCEPT ![<<fw.cmd.dev, fw.cmd.reg>>] = fw.cmd.value]
          /\ Answered(0, 0, 0)
          /\ UNCHANGED <<applied, stored>>
       \/ /\ fw.cmd.op = "elem"
          /\ applied' = Append(applied, fw.cmd.elem)
          /\ Answered(0, 0, 0)
          /\ UNCHANGED <<regs, stored>>
       \/ /\ fw.cmd.op \in {"shell", "detect"}
          /\ \E n \in Lens : Answered(0, n, 0)
          /\ UNCHANGED <<regs, applied, stored>>
       \/ /\ fw.cmd.op = "file"
          /\ stored' = Append(stored, [path |-> fw.path, block |-> fw.block])
          /\ Answered(0, 0, 0)
          /\ UNCHANGED <<regs, applied>>
    /\ UNCHANGED faults

\* It fails: a result other than zero, or, for a chip that does not acknowledge,
\* an answer without a number.
FwFail ==
    /\ fw.cmd # Nothing
    /\ Trouble
    /\ faults' = faults + 1
    /\ \/ Answered(1, 0, 0)
       \/ fw.cmd.op \in {"rd", "wr", "elem"} /\ Answered(0, 1, 0)
    /\ UNCHANGED <<regs, applied, stored>>
-----------------------------------------------------------------------------
Tool ==
    \/ SendWrite \/ SendRing \/ Poll \/ PollTimeout \/ ReadResult \/ ReadAnswer
    \/ SendBlock \/ BlockUnread \/ NextBlock \/ NextElement \/ NextMargin \/ NextCmd

Start ==
    \/ MainCmd
    \/ \E t \in Tables : MainTable(t)
    \/ MainMargin
    \/ \E f \in Paths, n \in Sizes : MainFile(f, n)

Next == Start \/ Tool \/ FwTake \/ FwAnswer \/ FwFail

Spec == Init /\ [][Next]_vars

\* The tool's process runs, and the firmware works off what it has taken or sees:
\* after the bounded number of slow polls the doorbell is answered.
FairSpec == Spec /\ WF_vars(Tool) /\ WF_vars(FwTake) /\ WF_vars(FwAnswer)
-----------------------------------------------------------------------------
(* Properties                                                              *)

\* A command whose send returned 0 left its own answer in the buffer, and no
\* more than the buffer holds (arm_pcie_protocol.c:149-171): whatever was slow
\* or failed before, unless a message was given up while the firmware was at it.
AnswerIsOwn ==
    pc = "next" /\ ret = "0" /\ job.kind # "file" =>
        /\ cmd_result.kept <= BufLen
        /\ late \/ cmd_result.of = sent

\* The blocks of a file, as send_file_to_a53_sync() means them to be stored.
FileBlocks(size) ==
    [i \in 1..(Blocks(size) + 1) |->
        LET off == (i - 1) * DataLen
            len == IF i <= Blocks(size) THEN DataLen ELSE size % DataLen
        IN [total |-> size,
            hdr |-> [off |-> off, len |-> len, sync |-> IF i <= Blocks(size) THEN 0 ELSE 1,
                     sum |-> Checksum(off, len)]]]

\* While a file is sent the firmware stores its blocks in order, each once and
\* with the header the tool meant, up to the sync block if the send returns 0;
\* and under its own path if that does not end on a word boundary - else text
\* of an earlier command may follow it.
FileInOrder ==
    job.kind = "file" /\ ~late =>
        LET got == [i \in DOMAIN stored |-> stored[i].block]
        IN /\ IsPrefix(got, FileBlocks(job.size))
           /\ pc = "idle" /\ ret = "0" => got = FileBlocks(job.size)
           /\ ~job.path.exact =>
                \A i \in DOMAIN stored : stored[i].path = PathWords(job.path)

InOrderIn(s, t) ==
    \E f \in [DOMAIN s -> DOMAIN t] :
        /\ \A i, j \in DOMAIN s : i < j => f[i] < f[j]
        /\ \A i \in DOMAIN s : s[i] = t[f[i]]

\* The elements of a SerDes table reach the chips in the table's order; all of
\* them unless a message failed or was given up.
TableInOrder ==
    job.kind = "table" /\ ~late =>
        /\ InOrderIn(applied, job.table)
        /\ pc = "idle" /\ slow = 0 /\ faults = 0 => applied = job.table

\* What reaches the firmware, blocks or elements, arrives in order.
DeliveredInOrder == FileInOrder /\ TableInOrder

\* On a healthy bus and at a known rate the margin test keeps the serializer's
\* amplitude between the stop value and the original, and leaves the original
\* amplitude and no global adaption behind.
MarginSafe ==
    job.kind = "margin" /\ slow = 0 /\ faults = 0 /\ regs[<<"se", "REG01">>] <= 2 =>
        LET amp == regs[<<"se", "RLMS95">>] % AmpMask
        IN /\ job.part \in {"lower", "wait", "count", "restore"} =>
                amp \in AmpMin..AmpOrg
           /\ pc = "idle" => amp = AmpOrg /\ regs[<<"de", "RLMS3">>] = 0

\* Every run ends, whatever is slow or fails: also the margin test whose read of
\* the amplitude failed and wrapped to 255 (link_margin.c:211).
ToolEnds == pc # "idle" ~> pc = "idle"
=============================================================================
