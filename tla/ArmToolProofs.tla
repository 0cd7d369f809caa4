---------------------------- MODULE ArmToolProofs ----------------------------
(***************************************************************************)
(* Proofs about ArmTool for every table, file, buffer and amplitude: what  *)
(* a send returns is its own answer, what reaches the firmware arrives in  *)
(* order, and on a healthy bus the margin test keeps the amplitude in its  *)
(* limits.  All but the limits hold only until a message is given up that  *)
(* the firmware works on (late).                                           *)
(***************************************************************************)
EXTENDS ArmTool, SequenceTheorems, TLAPS

(* Types: the messages, the programs and what the mailbox holds.           *)

WrRegs == {"RLMS95", "RLMSA4", "RLMS4", "RLMS3"}
Reads  == [op : {"rd"}, dev : Chips, reg : RegNames]
Writes == [op : {"wr"}, dev : Chips, reg : WrRegs, value : Int]
Steps  == {Detect} \cup Reads \cup
          [op : {"wr"}, dev : Chips, reg : WrRegs,
           how : {"rate", "clear", "set", "lower", "org"}]
Messages ==
    {Nothing, Detect, [op |-> "shell"], [op |-> "file"]} \cup
    [op : {"elem"}, elem : Elements] \cup Reads \cup Writes

PartNames == {"detect", "init", "lock", "lower", "wait", "count", "restore",
              "complete"}
Jobs ==
    {[kind |-> "none"], [kind |-> "cmd"]} \cup
    [kind : {"table"}, table : Tables, at : Nat] \cup
    [kind : {"file"}, path : Paths, size : Sizes, i : Nat] \cup
    [kind : {"margin"}, part : PartNames, at : Nat, tries : Nat, amp : Int]

Headers == [off : Nat, len : Nat, sync : Nat, sum : Nat]
Words   == [by : {"zero", "file", "cmd"}, end : BOOLEAN]
Files   == [path : Seq(Words), block : [total : Nat, hdr : Headers]]
Registers == [Chips \X RegNames -> Int]

TypeOK ==
    /\ pc \in {"idle", "write", "ring", "poll", "result", "answer", "next", "block"}
    /\ job \in Jobs
    /\ cmd \in Messages
    /\ sent \in Nat /\ loop_count \in Nat /\ slow \in Nat /\ faults \in Nat
    /\ late \in BOOLEAN
    /\ cmd_result.kept <= BufLen /\ cmd_result.value \in Int
    /\ locals \in Registers /\ se_tx_amp_org \in Int
    /\ mail \in [cmd : Messages, of : Nat, total : Nat, hdr : Headers]
    /\ path \in [1..PathArea -> Words]
    /\ doorbell \in {0, 1}
    /\ answer.len \in Nat /\ answer.value \in Int
    /\ fw.cmd \in Messages
    /\ fw.cmd # Nothing => /\ fw.path \in Seq(Words)
                           /\ fw.block \in [total : Nat, hdr : Headers]
    /\ regs \in Registers
    /\ applied \in Seq(Elements)
    /\ stored \in Seq(Files)

(* The message under way.                                                  *)

\* The firmware has answered it.
Served == pc \in {"result", "answer", "next"} \/ (pc = "poll" /\ doorbell = 0)

\* While no message was given up that the firmware worked on, it works only on
\* the message the tool waits for, and the answer it left is that message's.
SendInv ==
    /\ loop_count <= slow
    /\ slow = 0 => ~late
    /\ pc = "block" => job.kind = "file"
    /\ pc \in {"write", "answer"} => job.kind # "file"
    /\ ~late =>
        /\ doorbell = 1 => pc = "poll"
        /\ fw.cmd # Nothing =>
            /\ doorbell = 1
            /\ fw.cmd = mail.cmd
            /\ fw.of = sent
            /\ fw.path = PathRead
            /\ fw.block = [total |-> mail.total, hdr |-> mail.hdr]
        /\ pc \in {"ring", "poll"} =>
            /\ mail.of = sent
            /\ job.kind # "file" => mail.cmd = cmd
        /\ Served /\ pc # "next" => answer.of = sent
        /\ pc = "next" /\ ret = "0" /\ job.kind # "file" => cmd_result.of = sent

(* A file: the blocks stored are the first ones, up to the one under way.  *)

FileInv ==
    job.kind = "file" =>
        /\ job.i <= Blocks(job.size)
        /\ mail.cmd = [op |-> "file"]
        /\ mail.total = job.size
        /\ ~job.path.exact => \A i \in 1..job.path.words : path[i] = PathWords(job.path)[i]
        /\ pc \in {"ring", "poll"} => mail.hdr = FileBlocks(job.size)[job.i + 1].hdr
        /\ ~late =>
            /\ Len(stored) <= job.i + 1
            /\ \A i \in 1..Len(stored) : stored[i].block = FileBlocks(job.size)[i]
            /\ ~job.path.exact =>
                \A i \in 1..Len(stored) : stored[i].path = PathWords(job.path)
            /\ pc \in {"block", "ring"} \/ doorbell = 1 => Len(stored) = job.i
            /\ Served /\ pc # "next" /\ answer.result = 0 => Len(stored) = job.i + 1
            /\ pc = "next" /\ ret = "0" => Len(stored) = job.i + 1
            /\ pc = "idle" /\ ret = "0" => Len(stored) = Blocks(job.size) + 1

(* A table: the elements written come from before the one under way.       *)

Embeds(s, t, k) ==
    \E f \in [DOMAIN s -> DOMAIN t] :
        /\ \A i, j \in DOMAIN s : i < j => f[i] < f[j]
        /\ \A i \in DOMAIN s : s[i] = t[f[i]] /\ f[i] <= k

\* s is as much of t as has k elements.
IsStart(s, t, k) ==
    /\ Len(s) <= Len(t)
    /\ Len(s) <= k \/ Len(s) = 0
    /\ k <= Len(s) \/ Len(s) = Len(t)
    /\ \A i \in 1..Len(s) : s[i] = t[i]

Past == IF Served \/ pc = "idle" THEN job.at ELSE job.at - 1

TableInv ==
    job.kind = "table" =>
        /\ job.at <= Len(job.table) + 1
        /\ pc = "idle" => job.at = Len(job.table) + 1
        /\ pc # "idle" => cmd = IF job.at = 0 THEN Detect ELSE Element(job.table, job.at)
        /\ ~late =>
            /\ Embeds(applied, job.table, Past)
            /\ slow = 0 /\ faults = 0 => IsStart(applied, job.table, Past)

(* The margin test: where the amplitude and the adaption are in each part. *)

\* c is the message of the program's step p.
Matches(c, p) ==
    /\ c.op = p.op
    /\ c.op \in {"rd", "wr"} => c.dev = p.dev /\ c.reg = p.reg

Clean == slow = 0 /\ faults = 0 /\ regs[<<"se", "REG01">>] <= 2

SeReg == regs[<<"se", "RLMS95">>]
Amp   == SeReg % AmpMask

InPart(name, n) == job.part = name /\ (job.at > n \/ (job.at = n /\ (Served \/ pc = "idle")))

\* The amplitude is set, lowered below the last one, restored.
AmpInv ==
    /\ InPart("init", 4) \/ job.part = "lock" => SeReg = AmpOrg
    /\ job.part = "lower" /\ ~InPart("lower", 2) => AmpMin < Amp /\ Amp <= AmpOrg
    /\ InPart("lower", 2) \/ job.part \in {"wait", "count"} \/
       (job.part = "restore" /\ ~InPart("restore", 1)) =>
            /\ Amp = job.amp
            /\ AmpMin <= Amp /\ Amp < AmpOrg
    /\ InPart("restore", 1) \/ job.part = "complete" => Amp = AmpOrg

\* The global adaption is off.
AdaptInv ==
    InPart("init", 16) \/ InPart("restore", 5) \/ job.part \in {"lock", "complete"} =>
        regs[<<"de", "RLMS3">>] = 0

\* What the C variables hold, and what is about to be written from them.
ValueInv ==
    /\ job.part \notin {"detect", "init"} \/ (job.part = "init" /\ job.at >= 4) =>
            se_tx_amp_org = AmpOrg
    /\ job.part = "init" /\ job.at \in {18, 19} => locals[<<"se", "RLMS95">>] = AmpOrg
    /\ pc # "idle" =>
        /\ job.part = "init" /\ job.at \in {4, 19} => cmd.value = AmpOrg
        /\ job.part = "init" /\ job.at = 16 => cmd.value = 0
        /\ job.part = "restore" /\ job.at = 5 => cmd.value = 0
        /\ job.part = "restore" /\ job.at = 1 => cmd.value = AmpOrg + Manual
        /\ job.part = "lower" /\ job.at = 2 =>
            /\ cmd.value = job.amp + Manual
            /\ AmpMin <= job.amp /\ job.amp < AmpOrg

\* A read of the serializer has returned its register.
ReadInv ==
    /\ pc = "next" => ret = "0"
    /\ Served /\ pc # "next" => answer.result = 0
    /\ Served /\ cmd.op = "rd" /\ cmd.dev = "se" /\ cmd.reg \in {"REG01", "RLMS95"} =>
        IF pc = "next" THEN cmd_result.value = regs[<<"se", cmd.reg>>]
        ELSE answer.len = 1 /\ answer.value = regs[<<"se", cmd.reg>>]

MarginInv ==
    job.kind = "margin" =>
        /\ job.at \in 1..Len(Parts[job.part])
        /\ pc = "idle" => job.part = "complete"
        /\ pc # "idle" => Matches(cmd, Parts[job.part][job.at])
        /\ Clean => ReadInv /\ ValueInv /\ AmpInv /\ AdaptInv


ArmInv == TypeOK /\ SendInv /\ FileInv /\ TableInv /\ MarginInv
-----------------------------------------------------------------------------
(* Numbers.                                                                *)

LEMMA Modulo ==
    ASSUME NEW x \in Int, NEW m \in Nat \ {0}
    PROVE  /\ x % m \in 0..(m - 1)
           /\ x \div m \in Int
           /\ x = m * (x \div m) + (x % m)
BY SMT

\* A remainder is what is left of the number.
LEMMA RemainderOf ==
    ASSUME NEW m \in Nat \ {0}, NEW q \in Int, NEW r \in 0..(m - 1)
    PROVE  /\ (m * q + r) % m = r
           /\ (m * q + r) \div m = q
<1> DEFINE x == m * q + r
           p == x \div m
           s == x % m
<1>1. m \in Int /\ m > 0 /\ q \in Int /\ r \in Int /\ 0 <= r /\ r < m
    OBVIOUS
<1>2. x \in Int
    BY <1>1
<1>3. s \in 0..(m - 1) /\ p \in Int /\ x = m * p + s
    BY <1>2, Modulo
<1> HIDE DEF p, s
<1>4. m * (p - q) = r - s
    <2>1. m * (p - q) = m * p - m * q
        BY <1>1, <1>3, SMT
    <2>2. m * p \in Int /\ m * q \in Int
        BY <1>1, <1>3
    <2> QED
        BY <1>1, <1>3, <2>1, <2>2
<1>5. p = q
    <2>1. CASE p - q >= 1
        <3>1. p - q - 1 \in Nat
            BY <1>1, <1>3, <2>1
        <3>2. m * (p - q - 1) \in Nat
            BY <1>1, <3>1
        <3>3. m * (p - q - 1) = m * (p - q) - m
            BY <1>1, <1>3, SMT
        <3> QED
            BY <1>1, <1>3, <1>4, <3>2, <3>3
    <2>2. CASE q - p >= 1
        <3>1. q - p - 1 \in Nat
            BY <1>1, <1>3, <2>2
        <3>2. m * (q - p - 1) \in Nat
            BY <1>1, <3>1
        <3>3. m * (q - p - 1) = -(m * (p - q)) - m
            BY <1>1, <1>3, SMT
        <3> QED
            BY <1>1, <1>3, <1>4, <3>2, <3>3
    <2> QED
        BY <1>1, <1>3, <2>1, <2>2
<1>6. s = r
    BY <1>1, <1>3, <1>4, <1>5
<1> QED
    BY <1>5, <1>6 DEF p, s

LEMMA Remainder ==
    ASSUME NEW m \in Nat \ {0}, NEW r \in 0..(m - 1)
    PROVE  /\ r % m = r /\ r \div m = 0
           /\ (r + m) % m = r /\ (r + 2 * m) % m = r
<1>1. m * 0 + r = r /\ m * 1 + r = r + m /\ m * 2 + r = r + 2 * m
    BY SMT
<1>2. (m * 0 + r) % m = r /\ (m * 0 + r) \div m = 0
    <2>1. 0 \in Int
        OBVIOUS
    <2> QED
        BY ONLY <2>1, RemainderOf, m \in Nat \ {0}, r \in 0..(m - 1), Zenon
<1>3. (m * 1 + r) % m = r
    <2>1. 1 \in Int
        OBVIOUS
    <2> QED
        BY ONLY <2>1, RemainderOf, m \in Nat \ {0}, r \in 0..(m - 1), Zenon
<1>4. (m * 2 + r) % m = r
    <2>1. 2 \in Int
        OBVIOUS
    <2> QED
        BY ONLY <2>1, RemainderOf, m \in Nat \ {0}, r \in 0..(m - 1), Zenon
<1> QED
    BY ONLY <1>1, <1>2, <1>3, <1>4, Zenon

\* What the assumption says of the constants, one by one.
LEMMA Bounds ==
    /\ CmdPolls \in Nat \ {0} /\ FilePolls \in Nat \ {0}
    /\ DataLen \in Nat \ {0} /\ WordLen \in Nat \ {0} /\ Tries \in Nat \ {0}
    /\ BufLen \in Nat \ {0, 1} /\ BufLen % WordLen = 0
    /\ AmpMin \in Nat /\ AmpOrg \in Nat \ {0} /\ AmpMask \in Nat \ {0}
    /\ AmpMin < AmpOrg /\ AmpOrg < AmpMask
    /\ Lens \subseteq Nat /\ Sizes \subseteq Nat /\ Rates \subseteq 0..3
    /\ Tables \subseteq Seq(Elements)
<1>1. /\ CmdPolls \in Nat /\ FilePolls \in Nat /\ BufLen \in Nat /\ WordLen \in Nat
      /\ DataLen \in Nat /\ Tries \in Nat /\ AmpMask \in Nat /\ AmpOrg \in Nat
      /\ AmpMin \in Nat
    BY ArmAssumption
<1> QED
    BY <1>1, ArmAssumption

\* The copied part of an answer, in whole words, fits the buffer.
LEMMA KeptFits ==
    ASSUME NEW len \in Nat
    PROVE  Kept(len) \in Int /\ Kept(len) <= BufLen
<1> DEFINE x == len - Cursor(len)
           q == (x + WordLen - 1) \div WordLen
           k == BufLen \div WordLen
<1>1. x \in 0..(BufLen - 1)
    <2>1. len % BufLen \in 0..(BufLen - 1)
        BY Bounds, Modulo
    <2>2. x = IF len < BufLen THEN len ELSE len % BufLen
        BY <2>1, Bounds DEF Cursor
    <2> QED
        BY <2>1, <2>2, Bounds
<1> HIDE DEF x
<1>2. q \in Int /\ WordLen * q <= x + WordLen - 1
    <2>1. x + WordLen - 1 \in Int
        BY <1>1, Bounds
    <2>2. /\ (x + WordLen - 1) % WordLen \in 0..(WordLen - 1) /\ q \in Int
          /\ x + WordLen - 1 = WordLen * q + ((x + WordLen - 1) % WordLen)
        BY <2>1, Bounds, Modulo
    <2>3. WordLen * q \in Int
        BY <2>2, Bounds
    <2> QED
        BY <1>1, <2>2, <2>3, Bounds
<1>3. k \in Int /\ BufLen = WordLen * k
    <2>1. BufLen \in Int /\ BufLen % WordLen = 0
        BY Bounds
    <2>2. k \in Int /\ BufLen = WordLen * k + 0
        BY <2>1, Bounds, Modulo
    <2> QED
        BY <2>2, Bounds
<1> HIDE DEF q, k
<1>4. q <= k
    <2> SUFFICES ASSUME q - k - 1 \in Nat PROVE FALSE
        BY <1>2, <1>3
    <2>1. WordLen * (q - k - 1) \in Nat
        BY Bounds
    <2>2. WordLen * (q - k - 1) = WordLen * q - WordLen * k - WordLen
        BY <1>2, <1>3, Bounds, SMT
    <2>3. WordLen * q \in Int /\ WordLen * k \in Int
        BY <1>2, <1>3, Bounds
    <2> QED
        BY <1>1, <1>2, <1>3, <2>1, <2>2, <2>3, Bounds
<1>5. WordLen * q <= BufLen
    <2>1. k - q \in Nat
        BY <1>2, <1>3, <1>4
    <2>2. WordLen * (k - q) \in Nat
        BY <2>1, Bounds
    <2>3. WordLen * (k - q) = WordLen * k - WordLen * q
        BY <1>2, <1>3, Bounds, SMT
    <2>4. WordLen * q \in Int
        BY <1>2, Bounds
    <2> QED
        BY <1>3, <2>2, <2>3, <2>4, Bounds
<1>6. Kept(len) = WordLen * q
    BY DEF Kept, q, x
<1>7. WordLen * q \in Int
    BY <1>2, Bounds
<1> QED
    BY <1>5, <1>6, <1>7

\* A register that holds an answer's number fits the buffer whole.
LEMMA ShortAnswer == Cursor(1) = 0
BY Bounds DEF Cursor

(* Amplitudes.                                                             *)

LEMMA Lowering ==
    ASSUME NEW v \in Int, v % AmpMask > AmpMin
    PROVE  /\ Lowered(v) = (v % AmpMask) - 1
           /\ OrManual(Lowered(v)) = Lowered(v) + Manual
           /\ (Lowered(v) + Manual) % AmpMask = Lowered(v)
<1>1. v % AmpMask \in 0..(AmpMask - 1)
    BY Bounds, Modulo
<1> DEFINE l == (v % AmpMask) - 1
<1>2. l \in 0..(AmpMask - 1)
    BY <1>1, Bounds
<1>3. l \in 0..(Byte - 1) /\ Byte \in Nat \ {0} /\ l \in 0..(Manual - 1) /\ Manual \in Nat \ {0}
    BY <1>2, Bounds DEF Byte, Manual
<1> HIDE DEF l
<1>4. l % Byte = l /\ l \div Manual = 0
    BY ONLY <1>3, Remainder
<1>5. Lowered(v) = l
    BY <1>4 DEF Lowered, l
<1>6. (l + 2 * AmpMask) % AmpMask = l
    BY ONLY <1>2, Bounds, Remainder
<1>7. OrManual(l) = l + Manual
    BY <1>4 DEF OrManual
<1> QED
    BY <1>5, <1>6, <1>7 DEF l, Manual

LEMMA Original ==
    /\ AmpOrg % AmpMask = AmpOrg
    /\ AmpOrg % Manual = AmpOrg
    /\ OrManual(AmpOrg) = AmpOrg + Manual
    /\ (AmpOrg + Manual) % AmpMask = AmpOrg
<1>1. AmpOrg \in 0..(AmpMask - 1) /\ AmpOrg \in 0..(Manual - 1) /\ Manual \in Nat \ {0}
      /\ AmpMask \in Nat \ {0}
    BY Bounds DEF Manual
<1>2. /\ AmpOrg % AmpMask = AmpOrg /\ (AmpOrg + 2 * AmpMask) % AmpMask = AmpOrg
      /\ AmpOrg % Manual = AmpOrg /\ AmpOrg \div Manual = 0
    BY ONLY <1>1, Remainder
<1> QED
    BY <1>2 DEF OrManual, Manual

\* Whatever a step writes is a number.
LEMMA WrittenInt ==
    ASSUME NEW c \in Steps, c.op = "wr", NEW l \in Registers, NEW org \in Int
    PROVE  Written(c, l, org) \in Int
<1>1. c \in [op : {"wr"}, dev : Chips, reg : WrRegs,
             how : {"rate", "clear", "set", "lower", "org"}]
    BY DEF Steps, Detect, Reads
<1>2. l[<<c.dev, c.reg>>] \in Int /\ l[<<"de", "REG01">>] \in Int
    BY <1>1 DEF Registers, WrRegs, RegNames, Chips
<1>3. Manual \in Nat \ {0} /\ Byte \in Nat \ {0} /\ AmpMask \in Nat \ {0}
    BY Bounds DEF Manual, Byte
<1>4. \A x \in Int : x % Manual \in Int /\ Lowered(x) \in Int
    BY <1>3, Modulo DEF Lowered
<1>5. \A x \in Int : OrManual(x) \in Int
    BY <1>3 DEF OrManual
<1>6. \A r \in Int : DeAmp(r) \in Int
    BY Bounds DEF DeAmp
<1>7. c.how \in {"rate", "clear", "set", "lower", "org"}
    BY <1>1
<1> QED
    BY <1>2, <1>4, <1>5, <1>6, <1>7 DEF Written

(* Files.                                                                  *)

\* The stores of a block's header leave the fields the tool meant.
LEMMA HeaderIs ==
    ASSUME NEW h \in Headers, NEW off \in Nat, NEW len \in Nat, NEW sync \in Nat
    PROVE  BlockHeader(h, off, len, sync) =
             [off |-> off, len |-> len, sync |-> sync, sum |-> Checksum(off, len)]
<1> DEFINE R(a, b, c, d) == [off |-> a, len |-> b, sync |-> c, sum |-> d]
<1>1. h = R(h.off, h.len, h.sync, h.sum)
    BY DEF Headers
<1>2. \A a, b, c, d, v : Put(R(a, b, c, d), "off", v) = R(v, b, c, d)
    BY DEF Put, Behind
<1>3. \A a, b, c, d, v : Put(R(a, b, c, d), "len", v) = R(a, v, 0, 0)
    BY DEF Put, Behind
<1>4. \A a, b, c, d, v : Put(R(a, b, c, d), "sync", v) = R(a, b, v, 0)
    BY DEF Put, Behind
<1>5. \A a, b, c, d, v : Put(R(a, b, c, d), "sum", v) = R(a, b, c, v)
    BY DEF Put, Behind
<1> HIDE DEF R
<1>6. Put(h, "off", off) = R(off, h.len, h.sync, h.sum)
    BY <1>1, <1>2
<1>7. BlockHeader(h, off, len, sync) = R(off, len, sync, Checksum(off, len))
    BY <1>3, <1>4, <1>5, <1>6 DEF BlockHeader
<1> QED
    BY <1>7 DEF R

LEMMA ChecksumNat ==
    ASSUME NEW off \in Nat, NEW len \in Nat
    PROVE  Checksum(off, len) \in Nat
BY DEF Checksum

\* How much of a file its blocks are.
LEMMA BlocksOf ==
    ASSUME NEW size \in Nat
    PROVE  /\ Blocks(size) \in Nat
           /\ size % DataLen \in Nat
<1>1. size % DataLen \in 0..(DataLen - 1) /\ size \div DataLen \in Nat
    BY Bounds, SMT
<1> QED
    BY <1>1, Bounds DEF Blocks

\* What the firmware reads of the path field.
LEMMA PathReadWords ==
    ASSUME path \in [1..PathArea -> Words]
    PROVE  PathRead \in Seq(Words)
<1> DEFINE ends == {i \in DOMAIN path : path[i].end}
           n == IF ends = {} THEN PathArea
                ELSE CHOOSE i \in ends : \A j \in ends : i <= j
           k == IF path[n] = NoText THEN n - 1 ELSE n
<1>1. ends \subseteq 1..3 /\ DOMAIN path = 1..3
    BY DEF PathArea
<1>2. ends # {} => \E i \in ends : \A j \in ends : i <= j
    BY <1>1
<1>3. n \in 1..3
    BY <1>1, <1>2 DEF PathArea
<1> HIDE DEF n
<1>4. k \in 0..3
    BY <1>3
<1> HIDE DEF k
<1>5. \A i \in 1..k : path[i] \in Words
    BY <1>4 DEF PathArea
<1>6. SubSeq(path, 1, k) \in Seq(Words)
    BY <1>4, <1>5
<1> QED
    BY <1>6 DEF PathRead, k, n

\* A path that does not fill its last word ends there.
LEMMA PathReadOwn ==
    ASSUME path \in [1..PathArea -> Words], NEW f \in Paths, ~f.exact,
           \A i \in 1..f.words : path[i] = PathWords(f)[i]
    PROVE  PathRead = PathWords(f)
<1>1. f.words = 2
    BY DEF Paths
<1>2. /\ path[1] = [by |-> "file", end |-> FALSE]
      /\ path[2] = [by |-> "file", end |-> TRUE]
      /\ PathWords(f) = [i \in 1..2 |-> path[i]]
    <2>1. PathWords(f) = [i \in 1..2 |-> [by |-> "file", end |-> i = 2]]
        BY <1>1 DEF PathWords
    <2>2. path[1] = [by |-> "file", end |-> 1 = 2] /\ path[2] = [by |-> "file", end |-> 2 = 2]
        BY <1>1, <2>1
    <2>3. (1 = 2) = FALSE /\ (2 = 2) = TRUE
        OBVIOUS
    <2> QED
        BY <1>1, <2>1, <2>2, <2>3
<1> DEFINE ends == {i \in DOMAIN path : path[i].end}
<1>3. 2 \in ends /\ 1 \notin ends /\ ends \subseteq 1..3
    BY <1>2 DEF PathArea
<1>4. (CHOOSE i \in ends : \A j \in ends : i <= j) = 2
    <2>1. \A i \in ends : 2 <= i
        BY <1>3
    <2>2. \A i \in ends : (\A j \in ends : i <= j) => i = 2
        BY <1>3, <2>1
    <2> QED
        BY <1>3, <2>1, <2>2
<1>5. path[2] # NoText
    BY <1>2 DEF NoText
<1>6. PathRead = SubSeq(path, 1, 2)
    BY <1>3, <1>4, <1>5 DEF PathRead
<1>7. /\ SubSeq(path, 1, 2) \in Seq(Words)
      /\ Len(SubSeq(path, 1, 2)) = 2
      /\ \A i \in 1..2 : SubSeq(path, 1, 2)[i] = path[i]
    <2>1. \A i \in 1..2 : path[i] \in Words
        BY DEF PathArea
    <2>2. /\ SubSeq(path, 1, 2) \in Seq(Words)
          /\ Len(SubSeq(path, 1, 2)) = IF 1 <= 2 THEN 2 - 1 + 1 ELSE 0
          /\ \A i \in 1..(2 - 1 + 1) : SubSeq(path, 1, 2)[i] = path[1 + i - 1]
        BY <2>1
    <2> QED
        BY <2>2
<1> QED
    BY <1>2, <1>6, <1>7

(* Tables.                                                                 *)

LEMMA EmbedsMore ==
    ASSUME NEW s, NEW t, NEW j \in Int, NEW k \in Int, j <= k, Embeds(s, t, j),
           DOMAIN t \subseteq Int
    PROVE  Embeds(s, t, k)
<1>1. PICK f \in [DOMAIN s -> DOMAIN t] :
        /\ \A a, b \in DOMAIN s : a < b => f[a] < f[b]
        /\ \A a \in DOMAIN s : s[a] = t[f[a]] /\ f[a] <= j
    BY DEF Embeds
<1>2. \A a \in DOMAIN s : f[a] \in Int
    BY <1>1
<1>3. \A a \in DOMAIN s : f[a] <= k
    BY <1>1, <1>2
<1> QED
    BY <1>1, <1>3 DEF Embeds

LEMMA EmbedsNone ==
    ASSUME NEW t, NEW k PROVE Embeds(<<>>, t, k)
<1>1. DOMAIN <<>> = {}
    OBVIOUS
<1>2. [x \in DOMAIN <<>> |-> x] \in [DOMAIN <<>> -> DOMAIN t]
    BY <1>1
<1> QED
    BY <1>1, <1>2 DEF Embeds

LEMMA EmbedsNext ==
    ASSUME NEW s \in Seq(Elements), NEW t \in Seq(Elements), NEW k \in 1..Len(t),
           Embeds(s, t, k - 1)
    PROVE  Embeds(Append(s, t[k]), t, k)
<1> DEFINE n == Len(s)
           u == Append(s, t[k])
<1>1. PICK f \in [DOMAIN s -> DOMAIN t] :
        /\ \A a, b \in DOMAIN s : a < b => f[a] < f[b]
        /\ \A a \in DOMAIN s : s[a] = t[f[a]] /\ f[a] <= k - 1
    BY DEF Embeds
<1>2. t[k] \in Elements
    OBVIOUS
<1>3. /\ DOMAIN u = 1..(n + 1) /\ DOMAIN s = 1..n /\ n \in Nat
      /\ \A a \in 1..n : u[a] = s[a]
      /\ u[n + 1] = t[k]
    BY <1>2
<1>4. DOMAIN t = 1..Len(t)
    OBVIOUS
<1> HIDE DEF u, n
<1> DEFINE g == [a \in 1..(n + 1) |-> IF a = n + 1 THEN k ELSE f[a]]
<1>5. \A a \in 1..n : f[a] \in 1..Len(t) /\ f[a] <= k - 1
    BY <1>1, <1>3, <1>4
<1>6. g \in [DOMAIN u -> DOMAIN t]
    BY <1>3, <1>4, <1>5
<1>7. \A a, b \in DOMAIN u : a < b => g[a] < g[b]
    BY <1>1, <1>3, <1>5
<1>8. \A a \in DOMAIN u : u[a] = t[g[a]] /\ g[a] <= k
    BY <1>1, <1>3, <1>5
<1> HIDE DEF g
<1>9. Embeds(u, t, k)
    BY <1>6, <1>7, <1>8 DEF Embeds
<1> QED
    BY <1>9 DEF u

(* The margin test's parts.                                                *)

\* How a sequence reads to which four steps are joined.
LEMMA Joined ==
    ASSUME NEW s \in Seq(Steps), NEW n \in Nat, Len(s) = n,
           NEW q \in Seq(Steps), Len(q) = 4
    PROVE  /\ s \o q \in Seq(Steps) /\ Len(s \o q) = n + 4
           /\ \A i \in 1..n : (s \o q)[i] = s[i]
           /\ (s \o q)[n + 1] = q[1] /\ (s \o q)[n + 2] = q[2]
           /\ (s \o q)[n + 3] = q[3] /\ (s \o q)[n + 4] = q[4]
<1>1. /\ s \o q \in Seq(Steps)
      /\ Len(s \o q) = n + 4
      /\ \A i \in 1..(n + 4) : (s \o q)[i] = IF i <= n THEN s[i] ELSE q[i - n]
    <2>1. /\ s \o q \in Seq(Steps)
          /\ Len(s \o q) = Len(s) + Len(q)
          /\ \A i \in 1..(Len(s) + Len(q)) : (s \o q)[i] =
                IF i <= Len(s) THEN s[i] ELSE q[i - Len(s)]
        BY ONLY s \in Seq(Steps), q \in Seq(Steps), ConcatProperties, Zenon
    <2> QED
        BY <2>1
<1>2. \A j \in 1..4 : n + j \in 1..(n + 4) /\ ~(n + j <= n) /\ (n + j) - n = j
    OBVIOUS
<1>3. \A j \in 1..4 : (s \o q)[n + j] = q[j]
    BY <1>1, <1>2
<1>4. \A i \in 1..n : i \in 1..(n + 4)
    OBVIOUS
<1>5. 1 \in 1..4 /\ 2 \in 1..4 /\ 3 \in 1..4 /\ 4 \in 1..4
    OBVIOUS
<1>6. \A i \in 1..n : (s \o q)[i] = s[i]
    BY <1>1, <1>4
<1> QED
    BY ONLY <1>1, <1>3, <1>5, <1>6, Zenon

LEMMA StepsAre ==
    /\ Detect \in Steps
    /\ \A d \in Chips, r \in RegNames : Rd(d, r) \in Steps
    /\ \A d \in Chips, r \in WrRegs, h \in {"rate", "clear", "set", "lower", "org"} :
            Wr(d, r, h) \in Steps
BY DEF Steps, Reads, Rd, Wr

\* The first part, step by step.
LEMMA InitPart ==
    LET p == Parts.init
    IN /\ p \in Seq(Steps) /\ Len(p) = 22
       /\ p[1] = Rd("de", "REG01") /\ p[2] = Wr("de", "RLMS95", "rate")
       /\ p[3] = Rd("se", "REG01") /\ p[4] = Wr("se", "RLMS95", "rate")
       /\ p[5] = Rd("se", "RLMSA4") /\ p[6] = Rd("de", "RLMSA4")
       /\ p[7] = Wr("se", "RLMSA4", "clear") /\ p[8] = Wr("de", "RLMSA4", "clear")
       /\ p[9] = Rd("se", "RLMS4") /\ p[10] = Rd("de", "RLMS4")
       /\ p[11] = Wr("se", "RLMS4", "clear") /\ p[12] = Wr("de", "RLMS4", "clear")
       /\ p[13] = Rd("se", "RLMS3") /\ p[14] = Rd("de", "RLMS3")
       /\ p[15] = Wr("se", "RLMS3", "clear") /\ p[16] = Wr("de", "RLMS3", "clear")
       /\ p[17] = Rd("se", "RLMS95") /\ p[18] = Rd("de", "RLMS95")
       /\ p[19] = Wr("se", "RLMS95", "clear") /\ p[20] = Wr("de", "RLMS95", "clear")
       /\ p[21] = Rd("se", "CNT0") /\ p[22] = Rd("de", "CNT0")
<1> DEFINE s0 == <<Rd("de", "REG01"), Wr("de", "RLMS95", "rate"),
                   Rd("se", "REG01"), Wr("se", "RLMS95", "rate")>>
           s1 == s0 \o Both("RLMSA4")
           s2 == s1 \o Both("RLMS4")
           s3 == s2 \o Both("RLMS3")
           s4 == s3 \o Both("RLMS95")
           s5 == s4 \o ClearErrors
<1>1. \A d \in Chips : /\ \A r \in RegNames : Rd(d, r) \in Steps
                       /\ \A r \in WrRegs, h \in {"rate", "clear"} : Wr(d, r, h) \in Steps
    BY StepsAre
<1>2. "se" \in Chips /\ "de" \in Chips /\ WrRegs \subseteq RegNames /\ "REG01" \in RegNames
      /\ "CNT0" \in RegNames
      /\ "RLMS95" \in WrRegs /\ "RLMSA4" \in WrRegs /\ "RLMS4" \in WrRegs /\ "RLMS3" \in WrRegs
    BY DEF Chips, WrRegs, RegNames
<1>3. /\ Rd("de", "REG01") \in Steps /\ Wr("de", "RLMS95", "rate") \in Steps
      /\ Rd("se", "REG01") \in Steps /\ Wr("se", "RLMS95", "rate") \in Steps
      /\ Rd("se", "CNT0") \in Steps /\ Rd("de", "CNT0") \in Steps
      /\ \A r \in WrRegs : /\ Rd("se", r) \in Steps /\ Rd("de", r) \in Steps
                           /\ Wr("se", r, "clear") \in Steps
                           /\ Wr("de", r, "clear") \in Steps
    BY <1>1, <1>2
<1>4. /\ s0 \in Seq(Steps) /\ Len(s0) = 4
      /\ s0[1] = Rd("de", "REG01") /\ s0[2] = Wr("de", "RLMS95", "rate")
      /\ s0[3] = Rd("se", "REG01") /\ s0[4] = Wr("se", "RLMS95", "rate")
    BY <1>3
<1> HIDE DEF s0
<1> DEFINE J(s, t, r, n) ==
        /\ t \in Seq(Steps) /\ Len(t) = n + 4
        /\ \A i \in 1..n : t[i] = s[i]
        /\ t[n + 1] = Rd("se", r) /\ t[n + 2] = Rd("de", r)
        /\ t[n + 3] = Wr("se", r, "clear") /\ t[n + 4] = Wr("de", r, "clear")
<1>5. ASSUME NEW s \in Seq(Steps), NEW n \in Nat, Len(s) = n, NEW r \in WrRegs
      PROVE  J(s, s \o Both(r), r, n)
    <2> DEFINE q == Both(r)
    <2>1. /\ q \in Seq(Steps) /\ Len(q) = 4
          /\ q[1] = Rd("se", r) /\ q[2] = Rd("de", r)
          /\ q[3] = Wr("se", r, "clear") /\ q[4] = Wr("de", r, "clear")
        BY <1>3 DEF Both
    <2> HIDE DEF s1, s2, s3, s4, s5, q
    <2>2. J(s, s \o q, r, n)
        BY <1>5, <2>1, Joined
    <2> QED
        BY <2>2 DEF q
<1> HIDE DEF J
<1>6. J(s0, s1, "RLMSA4", 4)
    BY <1>2, <1>4, <1>5
<1> HIDE DEF s1
<1>7. s1 \in Seq(Steps) /\ Len(s1) = 8
    BY <1>6 DEF J
<1>8. J(s1, s2, "RLMS4", 8)
    BY <1>2, <1>5, <1>7
<1> HIDE DEF s2
<1>9. s2 \in Seq(Steps) /\ Len(s2) = 12
    BY <1>8 DEF J
<1>10. J(s2, s3, "RLMS3", 12)
    BY <1>2, <1>5, <1>9
<1> HIDE DEF s3
<1>11. s3 \in Seq(Steps) /\ Len(s3) = 16
    BY <1>10 DEF J
<1>12. J(s3, s4, "RLMS95", 16)
    BY <1>2, <1>5, <1>11
<1> HIDE DEF s4
<1>13. s4 \in Seq(Steps) /\ Len(s4) = 20
    BY <1>12 DEF J
<1>14. /\ s5 \in Seq(Steps) /\ Len(s5) = 22
       /\ \A i \in 1..20 : s5[i] = s4[i]
       /\ s5[21] = Rd("se", "CNT0") /\ s5[22] = Rd("de", "CNT0")
    <2> DEFINE e == ClearErrors
    <2>1. e \in Seq(Steps) /\ Len(e) = 2 /\ e[1] = Rd("se", "CNT0") /\ e[2] = Rd("de", "CNT0")
        BY <1>3 DEF ClearErrors
    <2> HIDE DEF e
    <2>2. /\ s4 \o e \in Seq(Steps)
          /\ Len(s4 \o e) = Len(s4) + Len(e)
          /\ \A i \in 1..(Len(s4) + Len(e)) : (s4 \o e)[i] =
                IF i <= Len(s4) THEN s4[i] ELSE e[i - Len(s4)]
        BY ONLY <1>13, <2>1, ConcatProperties, Zenon
    <2>3. s5 = s4 \o e
        BY DEF e
    <2> HIDE DEF s5
    <2>4. Len(s4) + Len(e) = 22
        BY <1>13, <2>1
    <2>7. s5 \in Seq(Steps) /\ Len(s5) = 22
        BY <2>2, <2>3, <2>4
    <2>5. \A i \in 1..20 : s5[i] = s4[i]
        BY <1>13, <2>2, <2>3, <2>4
    <2>6. s5[21] = e[21 - 20] /\ s5[22] = e[22 - 20]
        BY <1>13, <2>2, <2>3, <2>4
    <2> QED
        BY ONLY <2>1, <2>5, <2>6, <2>7
<1>15. Parts.init = s5
    BY DEF Parts, s0, s1, s2, s3, s4
<1> HIDE DEF s5
<1>16. /\ \A i \in 1..4 : s1[i] = s0[i]
       /\ \A i \in 1..8 : s2[i] = s1[i]
       /\ \A i \in 1..12 : s3[i] = s2[i]
       /\ \A i \in 1..16 : s4[i] = s3[i]
    BY <1>6, <1>8, <1>10, <1>12 DEF J
<1>17. /\ \A i \in 1..20 : s5[i] = s4[i]
       /\ \A i \in 1..16 : s5[i] = s3[i]
       /\ \A i \in 1..12 : s5[i] = s2[i]
       /\ \A i \in 1..8 : s5[i] = s1[i]
       /\ \A i \in 1..4 : s5[i] = s0[i]
    <2>1. \A i \in 1..16 : i \in 1..20 /\ s5[i] = s3[i]
        BY <1>14, <1>16
    <2>2. \A i \in 1..12 : i \in 1..16 /\ s5[i] = s2[i]
        BY <2>1, <1>16
    <2>3. \A i \in 1..8 : i \in 1..12 /\ s5[i] = s1[i]
        BY <2>2, <1>16
    <2>4. \A i \in 1..4 : i \in 1..8 /\ s5[i] = s0[i]
        BY <2>3, <1>16
    <2> QED
        BY <1>14, <2>1, <2>2, <2>3, <2>4
<1>18. /\ s5[1] = s0[1] /\ s5[2] = s0[2] /\ s5[3] = s0[3] /\ s5[4] = s0[4]
    BY <1>17
<1>19. /\ s5[5] = Rd("se", "RLMSA4") /\ s5[6] = Rd("de", "RLMSA4")
       /\ s5[7] = Wr("se", "RLMSA4", "clear") /\ s5[8] = Wr("de", "RLMSA4", "clear")
    BY <1>6, <1>17 DEF J
<1>20. /\ s5[9] = Rd("se", "RLMS4") /\ s5[10] = Rd("de", "RLMS4")
       /\ s5[11] = Wr("se", "RLMS4", "clear") /\ s5[12] = Wr("de", "RLMS4", "clear")
    BY <1>8, <1>17 DEF J
<1>21. /\ s5[13] = Rd("se", "RLMS3") /\ s5[14] = Rd("de", "RLMS3")
       /\ s5[15] = Wr("se", "RLMS3", "clear") /\ s5[16] = Wr("de", "RLMS3", "clear")
    BY <1>10, <1>17 DEF J
<1>22. /\ s5[17] = Rd("se", "RLMS95") /\ s5[18] = Rd("de", "RLMS95")
       /\ s5[19] = Wr("se", "RLMS95", "clear") /\ s5[20] = Wr("de", "RLMS95", "clear")
    BY <1>12, <1>17 DEF J
<1> QED
    BY <1>4, <1>14, <1>15, <1>18, <1>19, <1>20, <1>21, <1>22

\* The other parts.
LEMMA OtherParts ==
    /\ Parts.detect = <<Detect>>
    /\ Parts.lock = <<Rd("de", "CNT0"), Rd("de", "CTRL3")>>
    /\ LET p == Parts.lower
       IN /\ p \in Seq(Steps) /\ Len(p) = 6
          /\ p[1] = Rd("se", "RLMS95") /\ p[2] = Wr("se", "RLMS95", "lower")
          /\ p[3] = Rd("de", "RLMS3") /\ p[4] = Wr("de", "RLMS3", "set")
          /\ p[5] = Rd("de", "RLMS3") /\ p[6] = Wr("de", "RLMS3", "clear")
    /\ Parts.wait = <<Rd("de", "CTRL3")>>
    /\ Parts.count = <<Rd("de", "CNT0"), Rd("de", "CNT0")>>
    /\ LET p == Parts.restore
       IN /\ p \in Seq(Steps) /\ Len(p) = 5
          /\ p[1] = Wr("se", "RLMS95", "org")
          /\ p[2] = Rd("de", "RLMS3") /\ p[3] = Wr("de", "RLMS3", "set")
          /\ p[4] = Rd("de", "RLMS3") /\ p[5] = Wr("de", "RLMS3", "clear")
    /\ Parts.complete = <<Rd("se", "CNT0"), Rd("de", "CNT0")>>
<1> DEFINE rdA == Rd("de", "RLMS3")
           setA == Wr("de", "RLMS3", "set")
           clrA == Wr("de", "RLMS3", "clear")
           rdS == Rd("se", "RLMS95")
           wrS == Wr("se", "RLMS95", "lower")
           orgS == Wr("se", "RLMS95", "org")
<1>1. rdA \in Steps /\ setA \in Steps /\ clrA \in Steps /\ rdS \in Steps /\ wrS \in Steps /\ orgS \in Steps
    BY StepsAre DEF Chips, RegNames, WrRegs
<1>2. AdaptOnOff = <<rdA, setA, rdA, clrA>>
    BY DEF AdaptOnOff
<1>3. Parts.lower = <<rdS, wrS>> \o <<rdA, setA, rdA, clrA>> /\ Parts.restore = <<orgS>> \o <<rdA, setA, rdA, clrA>>
    BY <1>2 DEF Parts
<1> HIDE DEF rdA, setA, clrA, rdS, wrS, orgS
<1>4. /\ <<rdS, wrS>> \in Seq(Steps) /\ Len(<<rdS, wrS>>) = 2
      /\ <<orgS>> \in Seq(Steps) /\ Len(<<orgS>>) = 1
      /\ <<rdS, wrS>>[1] = rdS /\ <<rdS, wrS>>[2] = wrS /\ <<orgS>>[1] = orgS
    BY <1>1
<1> DEFINE q == AdaptOnOff
<1>5. /\ q \in Seq(Steps) /\ Len(q) = 4
      /\ q[1] = rdA /\ q[2] = setA /\ q[3] = rdA /\ q[4] = clrA
    BY <1>1, <1>2
<1>6. LET p == Parts.lower
      IN /\ p \in Seq(Steps) /\ Len(p) = 6
         /\ p[1] = rdS /\ p[2] = wrS /\ p[3] = rdA /\ p[4] = setA /\ p[5] = rdA /\ p[6] = clrA
    <2> DEFINE s == <<rdS, wrS>>
    <2>1. s \in Seq(Steps) /\ Len(s) = 2 /\ s[1] = rdS /\ s[2] = wrS
        BY <1>4
    <2>2. Parts.lower = s \o q
        BY <1>3, <1>2
    <2> HIDE DEF s, q
    <2>3. /\ s \o q \in Seq(Steps) /\ Len(s \o q) = 2 + 4
          /\ \A i \in 1..2 : (s \o q)[i] = s[i]
          /\ (s \o q)[2 + 1] = q[1] /\ (s \o q)[2 + 2] = q[2]
          /\ (s \o q)[2 + 3] = q[3] /\ (s \o q)[2 + 4] = q[4]
        <3>1. 2 \in Nat
            OBVIOUS
        <3> QED
            BY ONLY <1>5, <2>1, <3>1, Joined, Zenon
    <2> QED
        BY <1>5, <2>1, <2>2, <2>3
<1>7. LET p == Parts.restore
      IN /\ p \in Seq(Steps) /\ Len(p) = 5
         /\ p[1] = orgS /\ p[2] = rdA /\ p[3] = setA /\ p[4] = rdA /\ p[5] = clrA
    <2> DEFINE s == <<orgS>>
    <2>1. s \in Seq(Steps) /\ Len(s) = 1 /\ s[1] = orgS
        BY <1>4
    <2>2. Parts.restore = s \o q
        BY <1>3, <1>2
    <2> HIDE DEF s, q
    <2>3. /\ s \o q \in Seq(Steps) /\ Len(s \o q) = 1 + 4
          /\ \A i \in 1..1 : (s \o q)[i] = s[i]
          /\ (s \o q)[1 + 1] = q[1] /\ (s \o q)[1 + 2] = q[2]
          /\ (s \o q)[1 + 3] = q[3] /\ (s \o q)[1 + 4] = q[4]
        BY <1>5, <2>1, Joined
    <2> QED
        BY <1>5, <2>1, <2>2, <2>3
<1>8. /\ Parts.detect = <<Detect>>
      /\ Parts.lock = <<Rd("de", "CNT0"), Rd("de", "CTRL3")>>
      /\ Parts.wait = <<Rd("de", "CTRL3")>>
      /\ Parts.count = <<Rd("de", "CNT0"), Rd("de", "CNT0")>>
      /\ Parts.complete = <<Rd("se", "CNT0"), Rd("de", "CNT0")>>
    BY DEF Parts, ClearErrors
<1> QED
    BY <1>6, <1>7, <1>8 DEF rdA, setA, clrA, rdS, wrS, orgS

\* Every part has steps.
LEMMA PartsTyped ==
    ASSUME NEW n \in PartNames
    PROVE  Parts[n] \in Seq(Steps) /\ Len(Parts[n]) \in Nat \ {0}
<1>1. /\ Detect \in Steps /\ Rd("de", "CNT0") \in Steps /\ Rd("de", "CTRL3") \in Steps
      /\ Rd("se", "CNT0") \in Steps
    BY StepsAre DEF Chips, RegNames
<1> DEFINE P(q) == q \in Seq(Steps) /\ Len(q) \in Nat \ {0}
<1>2. \A a, b \in Steps : P(<<a>>) /\ P(<<a, b>>)
    OBVIOUS
<1>3. P(Parts.init) /\ P(Parts.lower) /\ P(Parts.restore)
    <2>1. /\ Parts.init \in Seq(Steps) /\ Len(Parts.init) = 22
          /\ Parts.lower \in Seq(Steps) /\ Len(Parts.lower) = 6
          /\ Parts.restore \in Seq(Steps) /\ Len(Parts.restore) = 5
        BY InitPart, OtherParts, Zenon
    <2> QED
        BY <2>1
<1>4. /\ Parts.detect = <<Detect>> /\ Parts.wait = <<Rd("de", "CTRL3")>>
      /\ Parts.lock = <<Rd("de", "CNT0"), Rd("de", "CTRL3")>>
      /\ Parts.count = <<Rd("de", "CNT0"), Rd("de", "CNT0")>>
      /\ Parts.complete = <<Rd("se", "CNT0"), Rd("de", "CNT0")>>
    BY OtherParts, Zenon
<1> HIDE DEF P
<1>5. P(Parts.detect) /\ P(Parts.wait) /\ P(Parts.lock) /\ P(Parts.count) /\ P(Parts.complete)
    BY ONLY <1>1, <1>2, <1>4, Zenon
<1>6. P(Parts[n])
    BY <1>3, <1>5 DEF PartNames
<1> QED
    BY <1>6 DEF P
-----------------------------------------------------------------------------
(* Types.                                                                  *)

LEMMA InitType == Init => TypeOK
<1> SUFFICES ASSUME Init PROVE TypeOK
    OBVIOUS
<1>1. regs \in Registers
    <2>1. PICK r \in Rates : regs = [x \in Chips \X RegNames |->
                    CASE x[2] = "REG01" -> IF x[1] = "se" THEN r ELSE 0
                      [] x[2] = "RLMS95" -> Manual
                      [] OTHER -> 1]
        BY DEF Init
    <2>2. r \in Int /\ Manual \in Int
        BY Bounds DEF Manual
    <2>3. \A x \in Chips \X RegNames :
            (CASE x[2] = "REG01" -> IF x[1] = "se" THEN r ELSE 0
               [] x[2] = "RLMS95" -> Manual
               [] OTHER -> 1) \in Int
        BY <2>2
    <2> QED
        BY <2>1, <2>3 DEF Registers
<1>2. NoLocals \in Registers
    BY DEF NoLocals, Registers
<1>3. path \in [1..PathArea -> Words]
    BY DEF Init, NoText, Words
<1>4. mail \in [cmd : Messages, of : Nat, total : Nat, hdr : Headers]
    BY DEF Init, Messages, Headers, Header
<1>5. cmd_result.kept <= BufLen /\ cmd_result.value \in Int /\ answer.len \in Nat /\ answer.value \in Int
    BY Bounds DEF Init
<1>6. job \in Jobs /\ cmd \in Messages /\ fw.cmd \in Messages /\ fw.cmd = Nothing
    BY DEF Init, Jobs, Messages
<1>7. applied \in Seq(Elements) /\ stored \in Seq(Files)
    BY DEF Init
<1>8. /\ pc \in {"idle", "write", "ring", "poll", "result", "answer", "next", "block"}
      /\ sent \in Nat /\ loop_count \in Nat /\ slow \in Nat /\ faults \in Nat
      /\ late \in BOOLEAN
      /\ locals \in Registers /\ se_tx_amp_org \in Int
      /\ doorbell \in {0, 1}
    <2>1. late \in BOOLEAN
        BY Zenon DEF Init
    <2>2. locals \in Registers
        BY <1>2, Zenon DEF Init
    <2>3. /\ pc = "idle" /\ sent = 0 /\ loop_count = 0 /\ slow = 0 /\ faults = 0
          /\ se_tx_amp_org = 0 /\ doorbell = 0
        BY Zenon DEF Init
    <2> QED
        BY ONLY <2>1, <2>2, <2>3
<1> QED
    BY ONLY <1>1, <1>3, <1>4, <1>5, <1>6, <1>7, <1>8, Zenon DEF TypeOK

\* A run begins with a job and a message.
LEMMA StartType ==
    ASSUME TypeOK, Start PROVE TypeOK'
<1>1. /\ NoLocals \in Registers
      /\ 0 <= BufLen
    BY Bounds DEF NoLocals, Registers
<1>2. ASSUME NEW b, Main(b), b \in Jobs, pc' \in {"write", "block"}, cmd' \in Messages,
             mail' \in [cmd : Messages, of : Nat, total : Nat, hdr : Headers],
             path' \in [1..PathArea -> Words]
      PROVE  TypeOK'
    BY <1>1, <1>2 DEF TypeOK, Main, auxVars
<1>3. CASE MainCmd
    <2>1. [kind |-> "cmd"] \in Jobs /\ [op |-> "shell"] \in Messages
        BY DEF Jobs, Messages
    <2> QED
        BY <1>2, <1>3, <2>1 DEF MainCmd, TypeOK
<1>4. ASSUME NEW t \in Tables, MainTable(t) PROVE TypeOK'
    <2>1. [kind |-> "table", table |-> t, at |-> 0] \in Jobs /\ Detect \in Messages
        BY DEF Jobs, Messages
    <2> QED
        BY <1>2, <1>4, <2>1 DEF MainTable, TypeOK
<1>5. CASE MainMargin
    <2>1. /\ [kind |-> "margin", part |-> "detect", at |-> 1, tries |-> 0, amp |-> 0] \in Jobs
          /\ Detect \in Messages
        BY DEF Jobs, Messages, PartNames
    <2> QED
        BY <1>2, <1>5, <2>1 DEF MainMargin, TypeOK
<1>6. ASSUME NEW f \in Paths, NEW n \in Sizes, MainFile(f, n) PROVE TypeOK'
    <2>1. n \in Nat
        BY Bounds
    <2>2. /\ [kind |-> "file", path |-> f, size |-> n, i |-> 0] \in Jobs
          /\ [op |-> "file"] \in Messages
        BY DEF Jobs, Messages
    <2>3. \A i \in 1..f.words : PathWords(f)[i] \in Words
        BY DEF PathWords, Words, Paths
    <2>4. path' \in [1..PathArea -> Words]
        <3>1. \A i \in 1..PathArea : i <= f.words => PathWords(f)[i] \in Words
            BY <2>3 DEF Paths, PathArea
        <3> QED
            BY <1>6, <3>1 DEF MainFile, TypeOK
    <2>5. mail' \in [cmd : Messages, of : Nat, total : Nat, hdr : Headers]
        BY <1>6, <2>1, <2>2 DEF MainFile, TypeOK
    <2> QED
        BY <1>2, <1>6, <2>2, <2>4, <2>5 DEF MainFile
<1> QED
    BY <1>3, <1>4, <1>5, <1>6 DEF Start

\* Sending, polling and reading the answer.
LEMMA SendType ==
    ASSUME TypeOK,
           \/ SendWrite \/ SendRing \/ Poll \/ PollTimeout \/ ReadResult \/ ReadAnswer
    PROVE  TypeOK'
<1>1. CASE SendWrite
    <2>1. (sent + 1) % Serials \in Nat
        BY DEF TypeOK, Serials
    <2>2. [by |-> "cmd", end |-> FALSE] \in Words
        BY DEF Words
    <2> QED
        BY <1>1, <2>1, <2>2 DEF SendWrite, TypeOK, jobVars, fwVars, auxVars
<1>2. CASE SendRing
    BY <1>2 DEF SendRing, TypeOK, jobVars, sendVars, fwVars, auxVars
<1>4. CASE Poll
    BY <1>4 DEF Poll, TypeOK, jobVars, mailVars, fwVars
<1>5. CASE PollTimeout
    <2>1. late' \in BOOLEAN
        BY <1>5, Zenon DEF PollTimeout
    <2> QED
        BY <1>5, <2>1 DEF PollTimeout, Fail, TypeOK, jobVars, fwVars
<1>6. CASE ReadResult
    BY <1>6 DEF ReadResult, Fail, TypeOK, jobVars, mailVars, fwVars, auxVars
<1>3. CASE ReadAnswer
    <2>1. Kept(answer.len) <= BufLen
        BY KeptFits DEF TypeOK
    <2> QED
        BY <1>3, <2>1 DEF ReadAnswer, TypeOK, jobVars, mailVars, fwVars, auxVars
<1> QED
    BY <1>1, <1>2, <1>3, <1>4, <1>5, <1>6

\* A file's job counts its blocks.
LEMMA FileJob ==
    ASSUME job \in Jobs, job.kind = "file"
    PROVE  /\ job \in [kind : {"file"}, path : Paths, size : Sizes, i : Nat]
           /\ job.path \in Paths /\ job.size \in Nat /\ job.i \in Nat
           /\ Blocks(job.size) \in Nat /\ job.i * DataLen \in Nat
           /\ job.size % DataLen \in Nat
<1>1. job \in [kind : {"file"}, path : Paths, size : Sizes, i : Nat]
    BY DEF Jobs
<1>2. job.size \in Nat /\ job.i \in Nat
    BY <1>1, Bounds
<1>3. Blocks(job.size) \in Nat /\ job.size % DataLen \in Nat
    BY <1>2, BlocksOf
<1>4. job.i * DataLen \in Nat
    BY <1>2, Bounds
<1> QED
    BY <1>1, <1>2, <1>3, <1>4

LEMMA TableJob ==
    ASSUME job \in Jobs, job.kind = "table"
    PROVE  /\ job \in [kind : {"table"}, table : Tables, at : Nat]
           /\ job.table \in Seq(Elements) /\ job.at \in Nat
BY Bounds DEF Jobs

LEMMA MarginJob ==
    ASSUME job \in Jobs, job.kind = "margin"
    PROVE  /\ job \in [kind : {"margin"}, part : PartNames, at : Nat, tries : Nat, amp : Int]
           /\ job.part \in PartNames /\ job.at \in Nat /\ job.tries \in Nat
           /\ job.amp \in Int
BY DEF Jobs

LEMMA BlockType ==
    ASSUME TypeOK, SendInv, SendBlock \/ BlockUnread \/ NextBlock
    PROVE  TypeOK'
<1>1. CASE SendBlock
    <2>1. job.kind = "file"
        BY <1>1 DEF SendBlock, SendInv
    <2> DEFINE off == job.i * DataLen
               last == job.i = Blocks(job.size)
               len == IF last THEN job.size % DataLen ELSE DataLen
               sync == IF last THEN 1 ELSE 0
    <2>2. off \in Nat /\ len \in Nat /\ sync \in Nat
        BY <2>1, FileJob, Bounds DEF TypeOK
    <2>3. mail.hdr \in Headers
        BY DEF TypeOK
    <2>4. mail' = [mail EXCEPT !.of = sent', !.hdr = BlockHeader(mail.hdr, off, len, sync)]
        BY <1>1 DEF SendBlock, TypeOK
    <2> HIDE DEF off, len, sync
    <2>5. BlockHeader(mail.hdr, off, len, sync) \in Headers
        <3>1. BlockHeader(mail.hdr, off, len, sync) =
                [off |-> off, len |-> len, sync |-> sync, sum |-> Checksum(off, len)]
            BY <2>2, <2>3, HeaderIs
        <3>2. Checksum(off, len) \in Nat
            BY <2>2, ChecksumNat
        <3> QED
            BY <2>2, <3>1, <3>2 DEF Headers
    <2>6. sent' \in Nat
        BY <1>1 DEF SendBlock, TypeOK, Serials
    <2>7. mail' \in [cmd : Messages, of : Nat, total : Nat, hdr : Headers]
        BY <2>4, <2>5, <2>6 DEF TypeOK
    <2> QED
        BY <1>1, <2>6, <2>7 DEF SendBlock, TypeOK, jobVars, fwVars, auxVars
<1>2. CASE BlockUnread
    BY <1>2 DEF BlockUnread, TypeOK, jobVars, mailVars, fwVars
<1>3. CASE NextBlock
    <2>1. job' \in Jobs
        <3>1. job \in Jobs /\ job.kind = "file"
            BY <1>3 DEF NextBlock, TypeOK
        <3>2. job \in [kind : {"file"}, path : Paths, size : Sizes, i : Nat]
            BY <3>1, FileJob
        <3>3. [job EXCEPT !.i = @ + 1] \in [kind : {"file"}, path : Paths, size : Sizes, i : Nat]
            BY <3>2
        <3> QED
            BY <1>3, <3>1, <3>3 DEF NextBlock, Jobs
    <2>2. pc' \in {"block", "idle"}
        BY <1>3 DEF NextBlock
    <2> QED
        BY <1>3, <2>1, <2>2 DEF NextBlock, TypeOK, sendVars, mailVars, fwVars, auxVars
<1> QED
    BY <1>1, <1>2, <1>3

LEMMA ElementType ==
    ASSUME TypeOK, TableInv, NextElement
    PROVE  TypeOK'
<1>1. job.kind = "table"
    BY DEF NextElement
<1>2. /\ job \in [kind : {"table"}, table : Tables, at : Nat]
      /\ job.table \in Seq(Elements) /\ job.at \in Nat
    BY <1>1, TableJob DEF TypeOK
<1>3. job.at <= Len(job.table) => Element(job.table, job.at + 1) \in Messages
    BY <1>2 DEF Element, Messages, Detect
<1>4. pc' \in {"write", "idle"} /\ job' \in Jobs /\ cmd' \in Messages
    <2>1. [job EXCEPT !.at = @ + 1] \in [kind : {"table"}, table : Tables, at : Nat]
        BY <1>2
    <2> QED
        BY <1>3, <2>1 DEF NextElement, TypeOK, Jobs
<1> QED
    BY <1>4 DEF NextElement, TypeOK, mailVars, fwVars, auxVars

\* The firmware copies the mailbox and answers with numbers.
LEMMA FirmwareType ==
    ASSUME TypeOK, FwTake \/ FwAnswer \/ FwFail
    PROVE  TypeOK'
<1>1. CASE FwTake
    <2>1. PathRead \in Seq(Words)
        BY PathReadWords DEF TypeOK
    <2> QED
        BY <1>1, <2>1 DEF FwTake, TypeOK, jobVars, sendVars, mailVars, auxVars
<1>2. ASSUME NEW r, NEW n \in Nat, NEW v \in Int, Answered(r, n, v),
             regs' \in Registers, applied' \in Seq(Elements), stored' \in Seq(Files),
             faults' \in Nat
      PROVE  TypeOK'
    <2>1. Nothing \in Messages
        BY DEF Messages
    <2> QED
        BY <1>2, <2>1 DEF Answered, TypeOK, jobVars, sendVars
<1>3. CASE FwFail
    <2>1. regs' \in Registers /\ applied' \in Seq(Elements) /\ stored' \in Seq(Files)
          /\ faults' \in Nat
        BY <1>3 DEF FwFail, TypeOK
    <2>2. Answered(1, 0, 0) \/ Answered(0, 1, 0)
        BY <1>3 DEF FwFail
    <2>3. 0 \in Nat /\ 1 \in Nat /\ 0 \in Int
        OBVIOUS
    <2> QED
        BY ONLY <1>2, <2>1, <2>2, <2>3, Zenon
<1>4. CASE FwAnswer
    <2>1. CASE fw.cmd.op = "rd" /\ (\E v \in Readings(fw.cmd) : Answered(0, 1, v))
               /\ UNCHANGED <<regs, applied, stored, faults>>
        <3>1. fw.cmd \in Reads
            BY <2>1 DEF TypeOK, Messages, Nothing, Detect, Writes
        <3>2. Readings(fw.cmd) \subseteq Int
            BY <3>1 DEF Readings, Reads, TypeOK, Registers
        <3> QED
            BY <1>2, <2>1, <3>2 DEF TypeOK
    <2>2. CASE /\ fw.cmd.op = "wr"
               /\ regs' = [regs EXCEPT ![<<fw.cmd.dev, fw.cmd.reg>>] = fw.cmd.value]
               /\ Answered(0, 0, 0)
               /\ UNCHANGED <<applied, stored, faults>>
        <3>1. fw.cmd \in Writes
            BY <2>2 DEF TypeOK, Messages, Nothing, Detect, Reads
        <3>2. regs' \in Registers
            BY <2>2, <3>1 DEF Writes, TypeOK, Registers, WrRegs, RegNames
        <3>3. regs' \in Registers /\ applied' \in Seq(Elements) /\ stored' \in Seq(Files)
              /\ faults' \in Nat /\ 0 \in Nat /\ 0 \in Int
            BY <2>2, <3>2 DEF TypeOK
        <3> QED
            BY ONLY <1>2, <2>2, <3>3, Zenon
    <2>3. CASE /\ fw.cmd.op = "elem"
               /\ applied' = Append(applied, fw.cmd.elem)
               /\ Answered(0, 0, 0)
               /\ UNCHANGED <<regs, stored, faults>>
        <3>1. fw.cmd.elem \in Elements
            BY <2>3 DEF TypeOK, Messages, Nothing, Detect, Reads, Writes
        <3>2. applied' \in Seq(Elements)
            BY <2>3, <3>1 DEF TypeOK
        <3>3. regs' \in Registers /\ applied' \in Seq(Elements) /\ stored' \in Seq(Files)
              /\ faults' \in Nat /\ 0 \in Nat /\ 0 \in Int
            BY <2>3, <3>2 DEF TypeOK
        <3> QED
            BY ONLY <1>2, <2>3, <3>3, Zenon
    <2>4. CASE /\ fw.cmd.op \in {"shell", "detect"}
               /\ \E n \in Lens : Answered(0, n, 0)
               /\ UNCHANGED <<regs, applied, stored, faults>>
        <3>1. PICK n \in Lens : Answered(0, n, 0)
            BY <2>4
        <3>2. regs' \in Registers /\ applied' \in Seq(Elements) /\ stored' \in Seq(Files)
              /\ faults' \in Nat /\ n \in Nat /\ 0 \in Int
            BY <2>4, Bounds DEF TypeOK
        <3> QED
            BY ONLY <1>2, <3>1, <3>2, Zenon
    <2>5. CASE /\ fw.cmd.op = "file"
               /\ stored' = Append(stored, [path |-> fw.path, block |-> fw.block])
               /\ Answered(0, 0, 0)
               /\ UNCHANGED <<regs, applied, faults>>
        <3>1. [path |-> fw.path, block |-> fw.block] \in Files
            BY <1>4 DEF FwAnswer, TypeOK, Files
        <3>2. stored' \in Seq(Files)
            BY <2>5, <3>1 DEF TypeOK
        <3>3. regs' \in Registers /\ applied' \in Seq(Elements) /\ stored' \in Seq(Files)
              /\ faults' \in Nat /\ 0 \in Nat /\ 0 \in Int
            BY <2>5, <3>2 DEF TypeOK
        <3> QED
            BY ONLY <1>2, <2>5, <3>3, Zenon
    <2> QED
        BY <1>4, <2>1, <2>2, <2>3, <2>4, <2>5 DEF FwAnswer
<1> QED
    BY <1>1, <1>3, <1>4

(* The margin test from one step to the next.                              *)

NewLocals == IF cmd.op = "rd" THEN [locals EXCEPT ![<<cmd.dev, cmd.reg>>] = cmd_result.value]
             ELSE locals
NewOrg    == IF cmd.op = "rd" /\ cmd.dev = "se" /\ cmd.reg = "REG01"
             THEN SeAmp(cmd_result.value) ELSE se_tx_amp_org
More      == job.at < Len(Parts[job.part])
NewPart   == IF More THEN job.part ELSE After(NewLocals)
NewAt     == IF More THEN job.at + 1 ELSE 1
NewStep   == Parts[NewPart][NewAt]

\* What the variables hold after a step.
LEMMA MarginVars ==
    ASSUME TypeOK
    PROVE  NewLocals \in Registers /\ NewOrg \in Int
<1>1. NewLocals \in Registers
    <2>1. CASE cmd.op = "rd"
        <3>1. cmd \in Reads
            BY <2>1 DEF TypeOK, Messages, Nothing, Detect, Writes
        <3>2. <<cmd.dev, cmd.reg>> \in Chips \X RegNames
            BY <3>1 DEF Reads
        <3> QED
            BY <2>1, <3>2 DEF NewLocals, TypeOK, Registers
    <2>2. CASE cmd.op # "rd"
        BY <2>2 DEF NewLocals, TypeOK
    <2> QED
        BY <2>1, <2>2
<1>2. NewOrg \in Int
    BY Bounds DEF NewOrg, SeAmp, TypeOK
<1> QED
    BY <1>1, <1>2

\* The part that follows.
LEMMA AfterPart ==
    ASSUME job.part \in PartNames, NEW l
    PROVE  /\ job.part = "detect" => After(l) = "init"
           /\ job.part = "init" => After(l) = "lock"
           /\ job.part = "lock" => After(l) \in {"lower", "lock", "complete"}
           /\ job.part = "lower" => After(l) = "wait"
           /\ job.part = "wait" => After(l) \in {"wait", "count"}
           /\ job.part = "count" => After(l) = IF GoesOn(l[<<"de", "CNT0">>], job.amp)
                                               THEN "lower" ELSE "restore"
           /\ job.part = "restore" => After(l) = "complete"
           /\ job.part = "complete" => After(l) = "done"
<1>1. job.part = "detect" => After(l) = "init"
    BY DEF After
<1>2. job.part = "init" => After(l) = "lock"
    BY DEF After
<1>3. job.part = "lock" => After(l) \in {"lower", "lock", "complete"}
    BY DEF After
<1>4. job.part = "lower" => After(l) = "wait"
    BY DEF After
<1>5. job.part = "wait" => After(l) \in {"wait", "count"}
    BY DEF After
<1>6. job.part = "count" => After(l) = IF GoesOn(l[<<"de", "CNT0">>], job.amp)
                                       THEN "lower" ELSE "restore"
    BY DEF After
<1>7. job.part = "restore" => After(l) = "complete"
    BY DEF After
<1>8. job.part = "complete" => After(l) = "done"
    BY DEF After
<1> QED
    BY <1>1, <1>2, <1>3, <1>4, <1>5, <1>6, <1>7, <1>8

LEMMA MarginStep ==
    ASSUME TypeOK, MarginInv, NextMargin
    PROVE  /\ locals' = NewLocals /\ se_tx_amp_org' = NewOrg
           /\ NewPart = "done" => pc' = "idle" /\ UNCHANGED <<job, cmd>>
           /\ NewPart # "done" =>
                /\ pc' = "write"
                /\ NewPart \in PartNames /\ NewAt \in 1..Len(Parts[NewPart])
                /\ NewStep \in Steps
                /\ cmd' = IF NewStep.op = "wr"
                          THEN [op |-> "wr", dev |-> NewStep.dev, reg |-> NewStep.reg,
                                value |-> Written(NewStep, NewLocals, NewOrg)]
                          ELSE NewStep
                /\ cmd' \in Messages
                /\ job' \in [kind : {"margin"}, part : PartNames, at : Nat, tries : Nat,
                             amp : Int]
                /\ job'.part = NewPart /\ job'.at = NewAt
                /\ job'.amp = IF NewStep.op = "wr" /\ NewPart = "lower" /\ NewAt = 2
                              THEN Lowered(NewLocals[<<"se", "RLMS95">>]) ELSE job.amp
<1>1. job.kind = "margin"
    BY DEF NextMargin
<1>2. /\ job \in [kind : {"margin"}, part : PartNames, at : Nat, tries : Nat, amp : Int]
      /\ job.part \in PartNames /\ job.at \in Nat /\ job.tries \in Nat /\ job.amp \in Int
    BY <1>1, MarginJob DEF TypeOK
<1>3. NewLocals \in Registers /\ NewOrg \in Int
    BY MarginVars
<1>4. /\ locals' = NewLocals /\ se_tx_amp_org' = NewOrg
      /\ NewPart = "done" => pc' = "idle" /\ UNCHANGED <<job, cmd>>
      /\ NewPart # "done" =>
            /\ pc' = "write"
            /\ cmd' = IF NewStep.op = "wr"
                      THEN [op |-> "wr", dev |-> NewStep.dev, reg |-> NewStep.reg,
                            value |-> Written(NewStep, NewLocals, NewOrg)]
                      ELSE NewStep
            /\ job' = [job EXCEPT !.part = NewPart, !.at = NewAt,
                         !.tries = IF More \/ NewPart # job.part THEN
                                     IF NewPart = job.part THEN job.tries ELSE 0
                                   ELSE job.tries + 1,
                         !.amp = IF NewStep.op = "wr" /\ NewPart = "lower" /\ NewAt = 2
                                 THEN Lowered(NewLocals[<<"se", "RLMS95">>]) ELSE job.amp]
    BY <1>2 DEF NextMargin, NewLocals, NewOrg, More, NewPart, NewAt, NewStep
<1> SUFFICES ASSUME NewPart # "done"
             PROVE  /\ NewPart \in PartNames /\ NewAt \in 1..Len(Parts[NewPart])
                    /\ NewStep \in Steps /\ cmd' \in Messages
                    /\ job' \in [kind : {"margin"}, part : PartNames, at : Nat,
                                 tries : Nat, amp : Int]
                    /\ job'.part = NewPart /\ job'.at = NewAt
                    /\ job'.amp = IF NewStep.op = "wr" /\ NewPart = "lower" /\ NewAt = 2
                                  THEN Lowered(NewLocals[<<"se", "RLMS95">>]) ELSE job.amp
    BY <1>4
<1>5. NewPart \in PartNames
    <2>1. After(NewLocals) \in PartNames \cup {"done"}
        BY <1>2, AfterPart DEF PartNames
    <2> QED
        BY <1>2, <2>1 DEF NewPart
<1>6. NewAt \in 1..Len(Parts[NewPart])
    <2>1. Len(Parts[NewPart]) \in Nat \ {0}
        BY <1>5, PartsTyped
    <2> QED
        BY <1>2, <2>1 DEF NewAt, NewPart, More
<1>7. NewStep \in Steps
    BY <1>5, <1>6, PartsTyped DEF NewStep
<1>8. cmd' \in Messages
    <2>1. CASE NewStep.op = "wr"
        <3>1. Written(NewStep, NewLocals, NewOrg) \in Int
            BY <1>3, <1>7, <2>1, WrittenInt
        <3>2. NewStep.dev \in Chips /\ NewStep.reg \in WrRegs
            BY <1>7, <2>1 DEF Steps, Detect, Reads
        <3> QED
            BY <1>4, <2>1, <3>1, <3>2 DEF Messages, Writes
    <2>2. CASE NewStep.op # "wr"
        <3>1. NewStep \in {Detect} \cup Reads
            BY <1>7, <2>2 DEF Steps
        <3> QED
            BY <1>4, <2>2, <3>1 DEF Messages
    <2> QED
        BY <2>1, <2>2
<1>9. /\ Lowered(NewLocals[<<"se", "RLMS95">>]) \in Int
      /\ NewAt \in Nat
    <2>1. NewLocals[<<"se", "RLMS95">>] \in Int
        BY <1>3 DEF Registers, Chips, RegNames
    <2>2. Byte \in Nat \ {0}
        BY Bounds DEF Byte, Manual
    <2>3. (NewLocals[<<"se", "RLMS95">>] % AmpMask) - 1 \in Int
        <3> DEFINE v == NewLocals[<<"se", "RLMS95">>]
        <3>1. v \in Int
            BY <2>1
        <3> HIDE DEF v
        <3>2. v % AmpMask \in 0..(AmpMask - 1)
            BY <3>1, Bounds, Modulo
        <3>3. (v % AmpMask) - 1 \in Int
            BY <3>2, Bounds
        <3> QED
            BY <3>3 DEF v
    <2>4. Lowered(NewLocals[<<"se", "RLMS95">>]) \in Int
        BY <2>2, <2>3, Modulo DEF Lowered
    <2> QED
        BY <1>2, <2>4 DEF NewAt
<1> DEFINE tries == IF More \/ NewPart # job.part THEN
                      IF NewPart = job.part THEN job.tries ELSE 0
                    ELSE job.tries + 1
           amp == IF NewStep.op = "wr" /\ NewPart = "lower" /\ NewAt = 2
                  THEN Lowered(NewLocals[<<"se", "RLMS95">>]) ELSE job.amp
<1>10. tries \in Nat /\ amp \in Int
    BY <1>2, <1>9
<1>11. job' = [job EXCEPT !.part = NewPart, !.at = NewAt, !.tries = tries, !.amp = amp]
    BY <1>4
<1> HIDE DEF tries, amp
<1>12. /\ job' \in [kind : {"margin"}, part : PartNames, at : Nat, tries : Nat, amp : Int]
       /\ job'.part = NewPart /\ job'.at = NewAt /\ job'.amp = amp
    BY ONLY <1>2, <1>5, <1>9, <1>10, <1>11
<1> QED
    BY ONLY <1>5, <1>6, <1>7, <1>8, <1>12 DEF amp

LEMMA MarginType ==
    ASSUME TypeOK, MarginInv, NextMargin
    PROVE  TypeOK'
<1>1. NewLocals \in Registers /\ NewOrg \in Int
    BY MarginVars
<1>2. CASE NewPart = "done"
    BY <1>1, <1>2, MarginStep DEF NextMargin, TypeOK, mailVars, fwVars, auxVars
<1>3. CASE NewPart # "done"
    <2>1. pc' = "write" /\ job' \in Jobs /\ cmd' \in Messages
        BY <1>3, MarginStep DEF Jobs
    <2> QED
        BY <1>1, <2>1, MarginStep DEF NextMargin, TypeOK, mailVars, fwVars, auxVars
<1> QED
    BY <1>2, <1>3

\* Every step keeps the types.
LEMMA NextType ==
    ASSUME ArmInv, [Next]_vars
    PROVE  TypeOK'
<1>1. TypeOK /\ SendInv /\ TableInv /\ MarginInv
    BY DEF ArmInv
<1>2. CASE NextCmd \/ UNCHANGED vars
    BY <1>1, <1>2 DEF NextCmd, TypeOK, vars, jobVars, sendVars, mailVars, fwVars, auxVars
<1> QED
    BY <1>1, <1>2, StartType, SendType, BlockType, ElementType, MarginType, FirmwareType
    DEF Next, Tool
-----------------------------------------------------------------------------
(* A send and its answer.                                                  *)

LEMMA InitSend == Init => SendInv
BY DEF Init, SendInv, Served, Nothing

\* A run begins, or the next message is written, while nothing is under way.
LEMMA WriteSend ==
    ASSUME TypeOK, SendInv, Start \/ SendWrite \/ SendRing
    PROVE  SendInv'
<1>1. ASSUME NEW b, Main(b), b.kind = "file" \/ pc' # "block",
             b.kind = "file" => pc' = "block", pc' \in {"write", "block"}
      PROVE  SendInv'
    <2>1. /\ loop_count' = 0 /\ slow' \in Nat
          /\ slow' = slow /\ late' = late /\ doorbell' = doorbell /\ fw' = fw /\ job' = b
          /\ pc = "idle"
        BY <1>1 DEF Main, TypeOK, auxVars
    <2>2. ~late' => doorbell' = 0 /\ fw'.cmd = Nothing
        BY <2>1 DEF SendInv, TypeOK
    <2> QED
        BY <1>1, <2>1, <2>2 DEF SendInv, Served
<1>2. CASE Start
    <2>1. CASE MainCmd
        BY <1>1, <2>1 DEF MainCmd
    <2>2. ASSUME NEW t \in Tables, MainTable(t) PROVE SendInv'
        BY <1>1, <2>2 DEF MainTable
    <2>3. CASE MainMargin
        BY <1>1, <2>3 DEF MainMargin
    <2>4. ASSUME NEW f \in Paths, NEW n \in Sizes, MainFile(f, n) PROVE SendInv'
        BY <1>1, <2>4 DEF MainFile
    <2> QED
        BY <1>2, <2>1, <2>2, <2>3, <2>4 DEF Start
<1>3. CASE SendWrite
    <2>1. ~late => doorbell = 0 /\ fw.cmd = Nothing
        BY <1>3 DEF SendWrite, SendInv, TypeOK
    <2>2. mail'.cmd = cmd /\ mail'.of = sent'
        BY <1>3 DEF SendWrite, TypeOK
    <2> QED
        BY <1>3, <2>1, <2>2 DEF SendWrite, SendInv, Served, TypeOK, jobVars, fwVars, auxVars
<1>4. CASE SendRing
    <2>1. ~late => fw.cmd = Nothing
        BY <1>4 DEF SendRing, SendInv, TypeOK
    <2> QED
        BY <1>4, <2>1 DEF SendRing, SendInv, Served, TypeOK, jobVars, sendVars, fwVars, auxVars
<1> QED
    BY <1>2, <1>3, <1>4

\* Polls are counted; when they are spent, what the firmware has is late.
LEMMA PollSend ==
    ASSUME TypeOK, SendInv, Poll \/ PollTimeout
    PROVE  SendInv'
<1>1. CASE Poll
    <2>1. PathRead' = PathRead
        BY <1>1 DEF Poll, mailVars, PathRead
    <2>2. loop_count' <= slow' /\ (slow' = 0 => ~late')
        BY <1>1 DEF Poll, SendInv, TypeOK
    <2>3. pc' \in {"poll", "result"} /\ (pc' = "result" => doorbell' = 0)
        BY <1>1 DEF Poll, mailVars
    <2>4. ~late => (doorbell = 0 => fw.cmd = Nothing)
        BY DEF SendInv
    <2> QED
        BY <1>1, <2>1, <2>2, <2>3, <2>4 DEF Poll, SendInv, Served, TypeOK, jobVars, mailVars, fwVars
<1>2. CASE PollTimeout
    <2>1. loop_count = PollLimit /\ PollLimit > 0 /\ slow # 0
        BY <1>2, Bounds DEF PollTimeout, PollLimit, SendInv, TypeOK
    <2>2. ~late' => ~late /\ fw.cmd = Nothing
        BY <1>2 DEF PollTimeout
    <2> QED
        BY <1>2, <2>1, <2>2 DEF PollTimeout, Fail, SendInv, Served, TypeOK, jobVars, fwVars
<1> QED
    BY <1>1, <1>2

\* Reading the answer moves its number into the buffer.
LEMMA ReadSend ==
    ASSUME TypeOK, SendInv, ReadResult \/ ReadAnswer
    PROVE  SendInv'
<1>1. CASE ReadResult
    <2>1. ~late => doorbell = 0 /\ fw.cmd = Nothing
        BY <1>1 DEF ReadResult, SendInv, TypeOK
    <2>2. \/ pc' = "next" /\ (ret' = "0" => job.kind = "file")
          \/ pc' = "answer" /\ job.kind # "file"
        BY <1>1 DEF ReadResult, Fail
    <2> QED
        BY <1>1, <2>1, <2>2 DEF ReadResult, SendInv, Served, TypeOK, jobVars, mailVars,
                                fwVars, auxVars
<1>2. CASE ReadAnswer
    <2>1. ~late => doorbell = 0 /\ fw.cmd = Nothing
        BY <1>2 DEF ReadAnswer, SendInv, TypeOK
    <2> QED
        BY <1>2, <2>1 DEF ReadAnswer, SendInv, Served, TypeOK, jobVars, mailVars, fwVars,
                          auxVars
<1> QED
    BY <1>1, <1>2

\* Between two messages nothing is under way.
LEMMA NextSend ==
    ASSUME TypeOK, SendInv, MarginInv,
           SendBlock \/ BlockUnread \/ NextBlock \/ NextElement \/ NextMargin \/ NextCmd
    PROVE  SendInv'
<1>1. ~late => doorbell = 0 /\ fw.cmd = Nothing
    BY DEF SendBlock, BlockUnread, NextBlock, NextElement, NextMargin, NextCmd, SendInv, TypeOK
<1>2. CASE SendBlock
    <2>1. mail'.of = sent'
        BY <1>2 DEF SendBlock, TypeOK
    <2> QED
        BY <1>1, <1>2, <2>1 DEF SendBlock, SendInv, Served, TypeOK, jobVars, fwVars, auxVars
<1>3. CASE BlockUnread
    BY <1>1, <1>3 DEF BlockUnread, SendInv, Served, TypeOK, jobVars, mailVars, fwVars
<1>4. ASSUME pc' \in {"write", "block", "idle"},
             pc' = "block" => job'.kind = "file", pc' = "write" => job'.kind # "file",
             UNCHANGED <<loop_count, doorbell, fw, slow, late>>
      PROVE  SendInv'
    BY <1>1, <1>4 DEF SendInv, Served
<1>5. CASE NextBlock
    <2>1. job'.kind = "file"
        BY <1>5, FileJob DEF NextBlock, TypeOK
    <2> QED
        BY <1>4, <1>5, <2>1 DEF NextBlock, sendVars, mailVars, fwVars, auxVars
<1>6. CASE NextElement
    <2>1. job'.kind = "table"
        BY <1>6, TableJob DEF NextElement, TypeOK
    <2> QED
        BY <1>4, <1>6, <2>1 DEF NextElement, mailVars, fwVars, auxVars
<1>7. CASE NextMargin
    <2>1. pc' = "idle" \/ (pc' = "write" /\ job'.kind = "margin")
        BY <1>7, MarginStep
    <2> QED
        BY <1>4, <1>7, <2>1 DEF NextMargin, mailVars, fwVars, auxVars
<1>8. CASE NextCmd
    BY <1>4, <1>8 DEF NextCmd, sendVars, mailVars, fwVars, auxVars, jobVars
<1> QED
    BY <1>2, <1>3, <1>5, <1>6, <1>7, <1>8

\* The firmware works on what the tool waits for.
LEMMA FirmwareSend ==
    ASSUME TypeOK, SendInv, FwTake \/ FwAnswer \/ FwFail
    PROVE  SendInv'
<1>1. CASE FwTake
    <2>1. PathRead' = PathRead
        BY <1>1 DEF FwTake, mailVars, PathRead
    <2>2. ~late => mail.of = sent
        BY <1>1 DEF FwTake, SendInv
    <2> QED
        BY <1>1, <2>1, <2>2 DEF FwTake, SendInv, Served, jobVars, sendVars, mailVars, auxVars
<1>2. CASE FwAnswer \/ FwFail
    <2>1. fw.cmd # Nothing
        BY <1>2 DEF FwAnswer, FwFail
    <2>2. /\ answer'.of = fw.of /\ doorbell' = 0 /\ fw'.cmd = Nothing
          /\ UNCHANGED <<pc, job, cmd, sent, loop_count, ret, cmd_result, mail, slow, late>>
        BY <1>2 DEF FwAnswer, FwFail, Answered, jobVars, sendVars
    <2>3. ~late => pc = "poll" /\ fw.of = sent
        BY <2>1 DEF SendInv
    <2> QED
        BY <2>2, <2>3 DEF SendInv, Served
<1> QED
    BY <1>1, <1>2

LEMMA NextSendInv ==
    ASSUME ArmInv, [Next]_vars
    PROVE  SendInv'
<1>1. TypeOK /\ SendInv /\ MarginInv
    BY DEF ArmInv
<1>2. CASE UNCHANGED vars
    <2>1. PathRead' = PathRead
        BY <1>2 DEF PathRead, vars, mailVars
    <2> QED
        BY <1>1, <1>2, <2>1 DEF SendInv, Served, vars, jobVars, sendVars, mailVars, fwVars,
                               auxVars
<1> QED
    BY <1>1, <1>2, WriteSend, PollSend, ReadSend, NextSend, FirmwareSend DEF Next, Tool

\* A send that returned 0 left its own answer in the buffer.
LEMMA OwnAnswer == ArmInv => AnswerIsOwn
BY DEF ArmInv, TypeOK, SendInv, AnswerIsOwn
-----------------------------------------------------------------------------
(* Files.                                                                  *)

LEMMA InitFile == Init => FileInv
BY DEF Init, FileInv

\* The blocks of a file, one by one.
LEMMA FileBlock ==
    ASSUME NEW size \in Nat, NEW i \in 0..Blocks(size)
    PROVE  FileBlocks(size)[i + 1] =
             [total |-> size,
              hdr |-> [off |-> i * DataLen,
                       len |-> IF i = Blocks(size) THEN size % DataLen ELSE DataLen,
                       sync |-> IF i = Blocks(size) THEN 1 ELSE 0,
                       sum |-> Checksum(i * DataLen, IF i = Blocks(size) THEN size % DataLen
                                                     ELSE DataLen)]]
<1>1. Blocks(size) \in Nat
    BY BlocksOf
<1>2. i + 1 \in 1..(Blocks(size) + 1) /\ (i + 1) - 1 = i
      /\ (i + 1 <= Blocks(size) <=> i # Blocks(size))
    BY <1>1
<1> QED
    BY <1>2 DEF FileBlocks

\* The first block is next, nothing is stored.
LEMMA StartFile ==
    ASSUME TypeOK, SendInv, Start
    PROVE  FileInv'
<1>1. ASSUME NEW f \in Paths, NEW n \in Sizes, MainFile(f, n) PROVE FileInv'
    <2>1. /\ job' = [kind |-> "file", path |-> f, size |-> n, i |-> 0]
          /\ stored' = <<>> /\ pc' = "block" /\ pc = "idle"
          /\ late' = late /\ doorbell' = doorbell /\ answer' = answer
        BY <1>1 DEF MainFile, Main, auxVars
    <2>2. mail'.cmd = [op |-> "file"] /\ mail'.total = n
        BY <1>1 DEF MainFile, TypeOK
    <2>3. Blocks(n) \in Nat
        BY BlocksOf, Bounds
    <2>4. \A i \in 1..f.words : path'[i] = PathWords(f)[i]
        <3>1. \A i \in 1..f.words : i \in DOMAIN path /\ i <= f.words
            BY DEF TypeOK, PathArea, Paths
        <3> QED
            BY <1>1, <3>1 DEF MainFile
    <2>5. ~late => doorbell # 1
        BY <2>1 DEF SendInv
    <2>6. Len(stored') = 0
        BY <2>1
    <2> QED
        BY <2>1, <2>2, <2>3, <2>4, <2>5, <2>6 DEF FileInv, Served, TypeOK
<1>2. ASSUME NEW b, Main(b), b.kind # "file" PROVE FileInv'
    BY <1>2 DEF Main, FileInv
<1> QED
    BY <1>1, <1>2 DEF Start, MainCmd, MainTable, MainMargin

\* The header written is the block's.
LEMMA BlockFile ==
    ASSUME TypeOK, SendInv, FileInv, SendBlock
    PROVE  FileInv'
<1>1. job.kind = "file"
    BY DEF SendBlock, SendInv
<1>2. /\ job.path \in Paths /\ job.size \in Nat /\ job.i \in Nat /\ Blocks(job.size) \in Nat
      /\ job.i * DataLen \in Nat /\ job.size % DataLen \in Nat
    BY <1>1, FileJob DEF TypeOK
<1> DEFINE off == job.i * DataLen
           last == job.i = Blocks(job.size)
           len == IF last THEN job.size % DataLen ELSE DataLen
           sync == IF last THEN 1 ELSE 0
<1>3. mail' = [mail EXCEPT !.of = sent', !.hdr = BlockHeader(mail.hdr, off, len, sync)]
    BY DEF SendBlock, TypeOK
<1>4. off \in Nat /\ len \in Nat /\ sync \in Nat /\ mail.hdr \in Headers
    BY <1>2, Bounds DEF TypeOK
<1>5. job.i \in 0..Blocks(job.size)
    BY <1>1, <1>2 DEF FileInv
<1>6. FileBlocks(job.size)[job.i + 1].hdr =
        [off |-> off, len |-> len, sync |-> sync, sum |-> Checksum(off, len)]
    <2>1. FileBlocks(job.size)[job.i + 1] =
            [total |-> job.size,
             hdr |-> [off |-> off, len |-> len, sync |-> sync, sum |-> Checksum(off, len)]]
        BY ONLY <1>2, <1>5, FileBlock, Zenon
    <2> QED
        BY <2>1
<1> HIDE DEF off, len, sync
<1>7. mail'.hdr = FileBlocks(job.size)[job.i + 1].hdr
      /\ mail'.cmd = mail.cmd /\ mail'.total = mail.total
    BY <1>3, <1>4, <1>6, HeaderIs DEF TypeOK
<1> QED
    BY <1>1, <1>7 DEF SendBlock, SendInv, FileInv, Served, TypeOK, jobVars, fwVars, auxVars

\* Between the write and the answer nothing of the file changes.
LEMMA SendFile ==
    ASSUME TypeOK, SendInv, FileInv,
           SendWrite \/ SendRing \/ Poll \/ PollTimeout \/ ReadResult \/ ReadAnswer
    PROVE  FileInv'
<1> SUFFICES ASSUME job'.kind = "file" PROVE FileInv'
    BY DEF FileInv
<1>1. job' = job /\ job.kind = "file" /\ stored' = stored
    BY DEF SendWrite, SendRing, Poll, PollTimeout, ReadResult, ReadAnswer, jobVars, fwVars
<1>2. ~SendWrite /\ ~ReadAnswer
    BY <1>1 DEF SendWrite, ReadAnswer, SendInv
<1>3. CASE SendRing
    BY <1>1, <1>3 DEF SendRing, SendInv, FileInv, Served, TypeOK, sendVars, auxVars
<1>4. CASE Poll
    <2>1. UNCHANGED <<ret, mail, path, doorbell, answer, late>>
          /\ (pc' = "poll" \/ (pc' = "result" /\ doorbell = 0))
        BY <1>4 DEF Poll, mailVars
    <2> QED
        BY <1>1, <1>4, <2>1 DEF Poll, SendInv, FileInv, Served, TypeOK
<1>5. CASE PollTimeout
    <2>1. UNCHANGED <<mail, path, answer>> /\ pc' = "next" /\ ret' = "-1" /\ doorbell' = 0
          /\ (~late' => ~late)
        BY <1>5 DEF PollTimeout, Fail
    <2> QED
        BY <1>1, <1>5, <2>1 DEF PollTimeout, FileInv, Served
<1>6. CASE ReadResult
    <2>1. UNCHANGED <<mail, path, answer, doorbell, late>> /\ pc' = "next"
          /\ (ret' = "0" => answer.result = 0)
        BY <1>1, <1>6 DEF ReadResult, Fail, mailVars, auxVars
    <2>2. ~late => doorbell = 0
        BY <1>6 DEF ReadResult, SendInv, TypeOK
    <2> QED
        BY <1>1, <1>6, <2>1, <2>2 DEF ReadResult, FileInv, Served
<1> QED
    BY <1>2, <1>3, <1>4, <1>5, <1>6

\* After a block that was stored comes the next one.
LEMMA NextFile ==
    ASSUME TypeOK, SendInv, FileInv, MarginInv,
           BlockUnread \/ NextBlock \/ NextElement \/ NextMargin \/ NextCmd
    PROVE  FileInv'
<1> SUFFICES ASSUME job'.kind = "file" PROVE FileInv'
    BY DEF FileInv
<1>1. ~late => doorbell = 0
    BY DEF BlockUnread, NextBlock, NextElement, NextMargin, NextCmd, SendInv, TypeOK
<1>2. CASE BlockUnread
    <2>1. /\ UNCHANGED <<job, mail, path, answer, doorbell, late, stored>>
          /\ pc = "block" /\ pc' = "idle" /\ ret' = "1"
        BY <1>2 DEF BlockUnread, jobVars, mailVars, fwVars
    <2> QED
        BY <1>1, <2>1 DEF FileInv, Served
<1>3. CASE NextBlock
    <2>1. /\ UNCHANGED <<ret, mail, path, answer, doorbell, late, stored>>
          /\ pc = "next" /\ job.kind = "file"
        BY <1>3 DEF NextBlock, sendVars, mailVars, fwVars, auxVars
    <2>2. /\ job \in [kind : {"file"}, path : Paths, size : Sizes, i : Nat]
          /\ job.i \in Nat /\ Blocks(job.size) \in Nat /\ Len(stored) \in Nat
        BY <2>1, FileJob DEF TypeOK
    <2>3. CASE ret = "0" /\ job.i < Blocks(job.size)
        <3>1. pc' = "block" /\ job'.i = job.i + 1 /\ job'.size = job.size /\ job'.path = job.path
            BY <1>3, <2>2, <2>3 DEF NextBlock
        <3>2. job'.i <= Blocks(job'.size)
            BY <2>2, <2>3, <3>1
        <3> QED
            BY <1>1, <2>1, <2>2, <2>3, <3>1, <3>2 DEF FileInv, Served
    <2>4. CASE ~(ret = "0" /\ job.i < Blocks(job.size))
        <3>1. pc' = "idle" /\ job' = job
            BY <1>3, <2>4 DEF NextBlock
        <3>2. ret = "0" => job.i = Blocks(job.size)
            BY <2>1, <2>2, <2>4 DEF FileInv
        <3> QED
            BY <1>1, <2>1, <2>2, <3>1, <3>2 DEF FileInv, Served
    <2> QED
        BY <2>3, <2>4
<1>4. ~NextElement
    BY TableJob DEF NextElement, TypeOK
<1>5. ~NextMargin
    <2>1. NextMargin => job.kind = "margin"
        BY DEF NextMargin
    <2> QED
        BY <2>1, MarginStep
<1>6. ~NextCmd
    BY DEF NextCmd, jobVars
<1> QED
    BY <1>2, <1>3, <1>4, <1>5, <1>6

\* The firmware stores the block under way.
LEMMA FirmwareFile ==
    ASSUME TypeOK, SendInv, FileInv, FwTake \/ FwAnswer \/ FwFail
    PROVE  FileInv'
<1> SUFFICES ASSUME job'.kind = "file" PROVE FileInv'
    BY DEF FileInv
<1>1. UNCHANGED <<pc, job, ret, mail, path, late>> /\ job.kind = "file"
    BY DEF FwTake, FwAnswer, FwFail, Answered, jobVars, sendVars, mailVars, auxVars
<1>2. /\ job.path \in Paths /\ job.size \in Nat /\ job.i \in Nat
      /\ Blocks(job.size) \in Nat /\ Len(stored) \in Nat
    BY <1>1, FileJob DEF TypeOK
<1>3. CASE FwTake
    BY <1>1, <1>3 DEF FwTake, FileInv, Served, mailVars
<1>4. CASE FwAnswer \/ FwFail
    <2>1. fw.cmd # Nothing /\ doorbell' = 0
        BY <1>4 DEF FwAnswer, FwFail, Answered
    <2>2. CASE late
        BY <1>1, <2>2 DEF FileInv
    <2>3. CASE ~late
        <3>1. /\ pc = "poll" /\ doorbell = 1 /\ fw.cmd = [op |-> "file"]
              /\ fw.block = [total |-> mail.total, hdr |-> mail.hdr]
              /\ fw.path = PathRead
            BY <1>1, <2>1, <2>3 DEF SendInv, FileInv
        <3>2. Len(stored) = job.i
            BY <1>1, <2>3, <3>1 DEF FileInv
        <3>3. CASE FwFail
            <4>1. stored' = stored /\ answer'.result # 0
                BY <3>1, <3>3 DEF FwFail, Answered
            <4> QED
                BY <1>1, <1>2, <2>1, <2>3, <3>1, <3>2, <4>1 DEF FileInv, Served
        <3>4. CASE FwAnswer
            <4>1. stored' = Append(stored, [path |-> fw.path, block |-> fw.block])
                BY <3>1, <3>4 DEF FwAnswer
            <4>2. fw.path \in Seq(Words) /\ fw.block \in [total : Nat, hdr : Headers]
                BY <2>1 DEF TypeOK
            <4>3. [path |-> fw.path, block |-> fw.block] \in Files
                BY <4>2 DEF Files
            <4>4. stored \in Seq(Files)
                BY DEF TypeOK
            <4>5. /\ Len(stored') = job.i + 1
                  /\ \A i \in 1..job.i : stored'[i] = stored[i]
                  /\ stored'[job.i + 1] = [path |-> fw.path, block |-> fw.block]
                BY <3>2, <4>1, <4>3, <4>4
            <4>6. job.i \in 0..Blocks(job.size)
                BY <1>1, <1>2 DEF FileInv
            <4>7. fw.block = FileBlocks(job.size)[job.i + 1]
                <5>1. FileBlocks(job.size)[job.i + 1].hdr = mail.hdr /\ mail.total = job.size
                    BY <1>1, <3>1 DEF FileInv
                <5>2. FileBlocks(job.size)[job.i + 1] =
                        [total |-> job.size, hdr |-> FileBlocks(job.size)[job.i + 1].hdr]
                    <6>1. PICK h : FileBlocks(job.size)[job.i + 1] =
                                    [total |-> job.size, hdr |-> h]
                        BY ONLY <1>2, <4>6, FileBlock, Zenon
                    <6> QED
                        BY <6>1
                <5> QED
                    BY <3>1, <5>1, <5>2
            <4>8. ~job.path.exact => fw.path = PathWords(job.path)
                BY <1>1, <1>2, <3>1, PathReadOwn DEF FileInv, TypeOK
            <4>9. \A i \in 1..Len(stored') : stored'[i].block = FileBlocks(job.size)[i]
                BY <1>1, <1>2, <2>3, <3>2, <4>5, <4>7 DEF FileInv
            <4>10. ~job.path.exact =>
                    \A i \in 1..Len(stored') : stored'[i].path = PathWords(job.path)
                <5> SUFFICES ASSUME ~job.path.exact, NEW i \in 1..Len(stored')
                             PROVE  stored'[i].path = PathWords(job.path)
                    OBVIOUS
                <5>1. CASE i = job.i + 1
                    BY <4>5, <4>8, <5>1
                <5>2. CASE i # job.i + 1
                    <6>1. i \in 1..Len(stored) /\ i \in 1..job.i
                        BY <1>2, <3>2, <4>5, <5>2
                    <6> QED
                        BY <1>1, <2>3, <4>5, <6>1 DEF FileInv
                <5> QED
                    BY <5>1, <5>2
            <4> QED
                BY <1>1, <1>2, <2>1, <2>3, <3>1, <4>5, <4>9, <4>10 DEF FileInv, Served
        <3> QED
            BY <1>4, <3>3, <3>4
    <2> QED
        BY <2>2, <2>3
<1> QED
    BY <1>3, <1>4

LEMMA NextFileInv ==
    ASSUME ArmInv, [Next]_vars
    PROVE  FileInv'
<1>1. TypeOK /\ SendInv /\ FileInv /\ MarginInv
    BY DEF ArmInv
<1>2. CASE UNCHANGED vars
    BY <1>1, <1>2 DEF FileInv, Served, vars, jobVars, sendVars, mailVars, fwVars, auxVars
<1> QED
    BY <1>1, <1>2, StartFile, BlockFile, SendFile, NextFile, FirmwareFile DEF Next, Tool

\* What is stored is the beginning of the file.
LEMMA StoredInOrder == ArmInv => FileInOrder
<1> SUFFICES ASSUME ArmInv, job.kind = "file", ~late
             PROVE  LET got == [i \in DOMAIN stored |-> stored[i].block]
                    IN /\ IsPrefix(got, FileBlocks(job.size))
                       /\ pc = "idle" /\ ret = "0" => got = FileBlocks(job.size)
                       /\ ~job.path.exact =>
                            \A i \in DOMAIN stored : stored[i].path = PathWords(job.path)
    BY DEF FileInOrder
<1> DEFINE got == [i \in DOMAIN stored |-> stored[i].block]
           all == FileBlocks(job.size)
           B   == [total : Nat, hdr : Headers]
           n   == Len(stored)
<1>1. TypeOK /\ FileInv
    BY DEF ArmInv
<1>2. /\ job.size \in Nat /\ job.i \in Nat /\ Blocks(job.size) \in Nat
    BY <1>1, FileJob DEF TypeOK
<1>3. stored \in Seq(Files) /\ n \in Nat /\ DOMAIN stored = 1..n
    BY <1>1 DEF TypeOK
<1>4. /\ n <= Blocks(job.size) + 1
      /\ \A i \in 1..n : got[i] = all[i]
      /\ pc = "idle" /\ ret = "0" => n = Blocks(job.size) + 1
      /\ ~job.path.exact => \A i \in 1..n : stored[i].path = PathWords(job.path)
    BY <1>1, <1>2, <1>3 DEF FileInv
<1>5. got \in Seq(B) /\ Len(got) = n
    <2>1. \A i \in 1..n : got[i] \in B
        <3>1. \A f \in Files : f.block \in B
            BY DEF Files
        <3>2. \A i \in 1..n : stored[i] \in Files
            BY <1>3
        <3> HIDE DEF B
        <3> QED
            BY <1>3, <3>1, <3>2
    <2> HIDE DEF B
    <2> QED
        BY <1>3, <2>1
<1>6. all \in Seq(B) /\ Len(all) = Blocks(job.size) + 1
    <2> DEFINE m == Blocks(job.size) + 1
    <2>1. \A i \in 1..m : all[i] \in B
        <3> SUFFICES ASSUME NEW i \in 1..m PROVE all[i] \in B
            OBVIOUS
        <3> DEFINE j == i - 1
                   len == IF j = Blocks(job.size) THEN job.size % DataLen ELSE DataLen
                   sync == IF j = Blocks(job.size) THEN 1 ELSE 0
        <3>1. j \in 0..Blocks(job.size) /\ j + 1 = i
            BY <1>2
        <3>2. j * DataLen \in Nat /\ len \in Nat /\ sync \in Nat
            <4>1. job.size % DataLen \in Nat
                BY <1>2, BlocksOf
            <4>2. j \in Nat
                BY <3>1
            <4> QED
                BY <4>1, <4>2, Bounds
        <3>3. all[j + 1] = [total |-> job.size,
                            hdr |-> [off |-> j * DataLen, len |-> len, sync |-> sync,
                                     sum |-> Checksum(j * DataLen, len)]]
            BY ONLY <1>2, <3>1, FileBlock, Zenon
        <3> HIDE DEF len, sync, j
        <3>4. Checksum(j * DataLen, len) \in Nat
            BY <3>2, ChecksumNat
        <3>5. [off |-> j * DataLen, len |-> len, sync |-> sync,
               sum |-> Checksum(j * DataLen, len)] \in Headers
            BY <3>2, <3>4 DEF Headers
        <3> QED
            BY <1>2, <3>1, <3>3, <3>5
    <2>2. all = [i \in 1..m |-> all[i]]
        BY DEF FileBlocks
    <2>3. m \in Nat
        BY <1>2
    <2> HIDE DEF m, all, B
    <2>4. all \in Seq(B) /\ Len(all) = m
        <3>1. all \in [1..m -> B]
            BY <2>1, <2>2
        <3> QED
            BY <2>3, <3>1
    <2> QED
        BY <2>4 DEF m
<1> HIDE DEF got, all, n, B
<1>7. IsPrefix(got, all)
    <2>1. /\ SubSeq(got, 1, n) \in Seq(B) /\ Len(SubSeq(got, 1, n)) = n
          /\ \A i \in 1..n : SubSeq(got, 1, n)[i] = got[i]
        BY <1>3, <1>5
    <2>2. /\ SubSeq(all, 1, n) \in Seq(B) /\ Len(SubSeq(all, 1, n)) = n
          /\ \A i \in 1..n : SubSeq(all, 1, n)[i] = all[i]
        BY <1>2, <1>3, <1>4, <1>6
    <2>3. SubSeq(got, 1, n) = SubSeq(all, 1, n)
        BY <1>4, <2>1, <2>2
    <2> QED
        BY <1>4, <1>5, <1>6, <2>3 DEF IsPrefix
<1>8. pc = "idle" /\ ret = "0" => got = all
    BY <1>4, <1>5, <1>6
<1> QED
    BY <1>3, <1>4, <1>7, <1>8 DEF got, all, n
-----------------------------------------------------------------------------
(* Tables.                                                                 *)

LEMMA InitTable == Init => TableInv
BY DEF Init, TableInv

\* The devices are listed first, nothing is written.
LEMMA StartTable ==
    ASSUME TypeOK, SendInv, Start
    PROVE  TableInv'
<1>1. ASSUME NEW t \in Tables, MainTable(t) PROVE TableInv'
    <2>1. /\ job' = [kind |-> "table", table |-> t, at |-> 0]
          /\ applied' = <<>> /\ pc' = "write" /\ cmd' = Detect
        BY <1>1 DEF MainTable, Main
    <2>2. t \in Seq(Elements) /\ Len(t) \in Nat
        BY Bounds
    <2>3. Past' = -1
        BY <2>1 DEF Past, Served
    <2>4. Embeds(applied', t, -1)
        BY <2>1, EmbedsNone
    <2>5. IsStart(applied', t, -1)
        BY <2>1, <2>2 DEF IsStart
    <2>6. /\ job'.kind = "table" /\ job'.table = t /\ job'.at = 0
        BY <2>1
    <2> QED
        BY <2>1, <2>2, <2>3, <2>4, <2>5, <2>6 DEF TableInv
<1>2. ASSUME NEW b, Main(b), b.kind # "table" PROVE TableInv'
    BY <1>2 DEF Main, TableInv
<1> QED
    BY <1>1, <1>2 DEF Start, MainCmd, MainFile, MainMargin

\* More of the table is past once the message is answered or given up.
LEMMA SendTable ==
    ASSUME TypeOK, SendInv, TableInv,
           \/ SendWrite \/ SendRing \/ Poll \/ PollTimeout \/ ReadResult \/ ReadAnswer
           \/ SendBlock \/ BlockUnread
    PROVE  TableInv'
<1> SUFFICES ASSUME job'.kind = "table" PROVE TableInv'
    BY DEF TableInv
<1>0. ~SendBlock /\ ~BlockUnread
    <2>1. UNCHANGED job
        BY DEF SendWrite, SendRing, Poll, PollTimeout, ReadResult, ReadAnswer, SendBlock,
               BlockUnread, jobVars
    <2> QED
        BY <2>1 DEF SendBlock, BlockUnread, SendInv
<1>1. UNCHANGED <<job, cmd, applied, faults>> /\ job.kind = "table" /\ pc' # "idle"
      /\ pc # "idle"
    <2>1. UNCHANGED <<job, cmd, applied, faults>>
        <3>1. CASE SendWrite
            BY <3>1 DEF SendWrite, jobVars, fwVars, auxVars
        <3>2. CASE SendRing
            BY <3>2 DEF SendRing, jobVars, sendVars, fwVars, auxVars
        <3>3. CASE Poll
            BY <3>3 DEF Poll, jobVars, fwVars
        <3>4. CASE PollTimeout
            BY <3>4 DEF PollTimeout, jobVars, fwVars
        <3>5. CASE ReadResult
            BY <3>5 DEF ReadResult, jobVars, fwVars, auxVars
        <3>6. CASE ReadAnswer
            BY <3>6 DEF ReadAnswer, jobVars, fwVars, auxVars
        <3> QED
            BY <1>0, <3>1, <3>2, <3>3, <3>4, <3>5, <3>6
    <2>2. pc' # "idle" /\ pc # "idle"
        BY <1>0 DEF SendWrite, SendRing, Poll, PollTimeout, ReadResult, ReadAnswer, Fail
    <2> QED
        BY <2>1, <2>2
<1>2. job.table \in Seq(Elements) /\ job.at \in Nat
    BY <1>1, TableJob DEF TypeOK
<1>3. /\ ~late' => ~late
      /\ slow' = 0 => slow = 0
    BY DEF SendWrite, SendRing, Poll, PollTimeout, ReadResult, ReadAnswer, SendBlock,
           BlockUnread, TypeOK, auxVars
<1>4. CASE Past' = Past
    BY <1>1, <1>3, <1>4 DEF TableInv
<1>5. CASE Past' # Past
    <2>1. PollTimeout
        <3>1. CASE SendWrite \/ SendRing
            <4>1. Served' = FALSE /\ Served = FALSE
                BY <3>1, <1>5 DEF SendWrite, SendRing, Past, Served
            <4> QED
                BY <1>1, <1>5, <4>1 DEF Past
        <3>2. CASE Poll
            <4>1. Served' <=> Served
                BY <3>2 DEF Poll, Served, mailVars
            <4> QED
                BY <1>1, <1>5, <4>1 DEF Past
        <3>3. CASE ReadResult \/ ReadAnswer
            <4>1. Served' /\ Served
                BY <3>3 DEF ReadResult, ReadAnswer, Fail, Served
            <4> QED
                BY <1>1, <1>5, <4>1 DEF Past
        <3> QED
            BY <1>0, <3>1, <3>2, <3>3
    <2>2. pc' = "next" /\ Past' = job.at /\ Past \in Int /\ Past <= Past' /\ slow' # 0
        <3>1. pc' = "next" /\ pc = "poll" /\ slow' = slow /\ loop_count = PollLimit
            BY <2>1 DEF PollTimeout, Fail
        <3>2. slow # 0
            BY <3>1, Bounds DEF PollLimit, SendInv, TypeOK
        <3> QED
            BY <1>1, <1>2, <3>1, <3>2 DEF Past, Served
    <2>3. DOMAIN job.table \subseteq Int
        BY <1>2
    <2>4. ~late => Embeds(applied, job.table, Past')
        BY <1>1, <1>2, <2>2, <2>3, EmbedsMore DEF TableInv
    <2> QED
        BY <1>1, <1>3, <2>2, <2>4 DEF TableInv
<1> QED
    BY <1>4, <1>5

\* The next element is under way, the last one is past.
LEMMA NextTable ==
    ASSUME TypeOK, SendInv, TableInv, MarginInv,
           NextBlock \/ NextElement \/ NextMargin \/ NextCmd
    PROVE  TableInv'
<1> SUFFICES ASSUME job'.kind = "table" PROVE TableInv'
    BY DEF TableInv
<1>1. ~NextBlock /\ ~NextCmd
    <2>1. NextBlock => FALSE
        BY FileJob DEF NextBlock, TypeOK
    <2>2. NextCmd => FALSE
        BY DEF NextCmd, jobVars
    <2> QED
        BY <2>1, <2>2
<1>2. ~NextMargin
    <2>1. NextMargin => job.kind = "margin"
        BY DEF NextMargin
    <2> QED
        BY <2>1, MarginStep
<1>3. CASE NextElement
    <2>1. /\ pc = "next" /\ job.kind = "table" /\ UNCHANGED <<applied, slow, faults, late>>
        BY <1>3 DEF NextElement, fwVars, auxVars
    <2>2. /\ job \in [kind : {"table"}, table : Tables, at : Nat]
          /\ job.table \in Seq(Elements) /\ job.at \in Nat /\ Len(job.table) \in Nat
        BY <2>1, TableJob DEF TypeOK
    <2>3. Past = job.at
        BY <2>1 DEF Past, Served
    <2>4. CASE job.at <= Len(job.table)
        <3>1. /\ job'.at = job.at + 1 /\ job'.table = job.table /\ pc' = "write"
              /\ cmd' = Element(job.table, job.at + 1)
            BY <1>3, <2>2, <2>4 DEF NextElement
        <3>2. Past' = job.at
            BY <2>2, <3>1 DEF Past, Served
        <3> QED
            BY <2>1, <2>2, <2>3, <2>4, <3>1, <3>2 DEF TableInv
    <2>5. CASE ~(job.at <= Len(job.table))
        <3>1. job' = job /\ pc' = "idle"
            BY <1>3, <2>5 DEF NextElement
        <3>2. Past' = job.at
            BY <3>1 DEF Past
        <3> QED
            BY <2>1, <2>2, <2>3, <2>5, <3>1, <3>2 DEF TableInv
    <2> QED
        BY <2>4, <2>5
<1> QED
    BY <1>1, <1>2, <1>3

\* The firmware writes the element under way.
LEMMA FirmwareTable ==
    ASSUME TypeOK, SendInv, TableInv, FwTake \/ FwAnswer \/ FwFail
    PROVE  TableInv'
<1> SUFFICES ASSUME job'.kind = "table" PROVE TableInv'
    BY DEF TableInv
<1>1. UNCHANGED <<pc, job, cmd, slow, late>> /\ job.kind = "table"
    BY DEF FwTake, FwAnswer, FwFail, Answered, jobVars, sendVars, auxVars
<1>2. /\ job.table \in Seq(Elements) /\ job.at \in Nat /\ Len(job.table) \in Nat
      /\ applied \in Seq(Elements)
    BY <1>1, TableJob DEF TypeOK
<1>3. CASE FwTake
    BY <1>1, <1>3 DEF FwTake, TableInv, Past, Served, mailVars, auxVars
<1>4. CASE FwAnswer \/ FwFail
    <2>1. fw.cmd # Nothing /\ doorbell' = 0 /\ (faults' = 0 => faults = 0)
        BY <1>4 DEF FwAnswer, FwFail, Answered, TypeOK
    <2>2. CASE late
        BY <1>1, <2>2 DEF TableInv
    <2>3. CASE ~late
        <3>1. pc = "poll" /\ doorbell = 1 /\ fw.cmd = cmd
            BY <1>1, <2>1, <2>3 DEF SendInv
        <3>2. Past = job.at - 1 /\ Past' = job.at
            BY <1>1, <2>1, <3>1 DEF Past, Served
        <3>3. /\ Embeds(applied, job.table, job.at - 1)
              /\ slow = 0 /\ faults = 0 => IsStart(applied, job.table, job.at - 1)
              /\ cmd = IF job.at = 0 THEN Detect ELSE Element(job.table, job.at)
              /\ job.at <= Len(job.table) + 1
            BY <1>1, <2>3, <3>1, <3>2 DEF TableInv
        <3>4. DOMAIN job.table \subseteq Int
            BY <1>2
        <3>5. Embeds(applied, job.table, job.at)
            <4>1. job.at - 1 \in Int /\ job.at \in Int /\ job.at - 1 <= job.at
                BY <1>2
            <4> QED
                BY <3>3, <3>4, <4>1, EmbedsMore
        <3>6. CASE cmd.op = "elem"
            <4>1. /\ job.at \in 1..Len(job.table) /\ cmd.elem = job.table[job.at]
                BY <1>2, <3>3, <3>6 DEF Element, Detect
            <4>2. CASE FwFail
                <5>1. applied' = applied /\ faults' # 0
                    BY <4>2 DEF FwFail, TypeOK
                <5> QED
                    BY <1>1, <2>3, <3>1, <3>2, <3>3, <3>5, <5>1 DEF TableInv
            <4>3. CASE FwAnswer
                <5>1. applied' = Append(applied, job.table[job.at]) /\ faults' = faults
                    BY <3>1, <3>6, <4>1, <4>3 DEF FwAnswer
                <5>2. Embeds(applied', job.table, job.at)
                    BY <1>2, <3>3, <4>1, <5>1, EmbedsNext
                <5>3. slow = 0 /\ faults = 0 => IsStart(applied', job.table, job.at)
                    <6> SUFFICES ASSUME IsStart(applied, job.table, job.at - 1)
                                 PROVE  IsStart(applied', job.table, job.at)
                        BY <3>3
                    <6>1. Len(applied) = job.at - 1
                        BY <1>2, <4>1 DEF IsStart
                    <6>2. job.table[job.at] \in Elements
                        BY <1>2, <4>1
                    <6>3. /\ Len(applied') = job.at
                          /\ \A i \in 1..Len(applied) : applied'[i] = applied[i]
                          /\ applied'[job.at] = job.table[job.at]
                        BY <1>2, <5>1, <6>1, <6>2
                    <6>4. \A i \in 1..job.at : applied'[i] = job.table[i]
                        BY <1>2, <6>1, <6>3 DEF IsStart
                    <6> QED
                        BY <1>2, <4>1, <6>3, <6>4 DEF IsStart
                <5> QED
                    BY <1>1, <2>3, <3>1, <3>2, <3>3, <5>1, <5>2, <5>3 DEF TableInv
            <4> QED
                BY <1>4, <4>2, <4>3
        <3>7. CASE cmd.op # "elem"
            <4>1. cmd = Detect /\ (job.at = 0 \/ job.at = Len(job.table) + 1)
                BY <1>2, <3>3, <3>7 DEF Element
            <4>2. applied' = applied
                BY <1>4, <3>1, <4>1 DEF FwAnswer, FwFail, Detect
            <4>3. IsStart(applied, job.table, job.at - 1) => IsStart(applied, job.table, job.at)
                BY <1>2, <4>1 DEF IsStart
            <4> QED
                BY <1>1, <2>1, <2>3, <3>1, <3>2, <3>3, <3>5, <4>2, <4>3 DEF TableInv
        <3> QED
            BY <3>6, <3>7
    <2> QED
        BY <2>2, <2>3
<1> QED
    BY <1>3, <1>4

LEMMA NextTableInv ==
    ASSUME ArmInv, [Next]_vars
    PROVE  TableInv'
<1>1. TypeOK /\ SendInv /\ TableInv /\ MarginInv
    BY DEF ArmInv
<1>2. CASE UNCHANGED vars
    BY <1>1, <1>2 DEF TableInv, Past, Served, vars, jobVars, sendVars, mailVars, fwVars, auxVars
<1> QED
    BY <1>1, <1>2, StartTable, SendTable, NextTable, FirmwareTable DEF Next, Tool

\* What is written comes in the table's order.
LEMMA AppliedInOrder == ArmInv => TableInOrder
<1> SUFFICES ASSUME ArmInv, job.kind = "table", ~late
             PROVE  /\ InOrderIn(applied, job.table)
                    /\ pc = "idle" /\ slow = 0 /\ faults = 0 => applied = job.table
    BY DEF TableInOrder
<1>1. TypeOK /\ TableInv
    BY DEF ArmInv
<1>2. /\ job.table \in Seq(Elements) /\ applied \in Seq(Elements) /\ job.at \in Nat
    BY <1>1, TableJob DEF TypeOK
<1>3. InOrderIn(applied, job.table)
    <2>1. Embeds(applied, job.table, Past)
        BY <1>1 DEF TableInv
    <2> QED
        BY <2>1 DEF Embeds, InOrderIn
<1>4. ASSUME pc = "idle", slow = 0, faults = 0 PROVE applied = job.table
    <2>1. IsStart(applied, job.table, Len(job.table) + 1)
        BY <1>1, <1>4 DEF TableInv, Past
    <2>2. Len(applied) = Len(job.table) /\ \A i \in 1..Len(applied) : applied[i] = job.table[i]
        BY <1>2, <2>1 DEF IsStart
    <2> QED
        BY <1>2, <2>2
<1> QED
    BY <1>3, <1>4
-----------------------------------------------------------------------------
(* The margin test.                                                        *)

\* Where the registers that matter are read and written.
LEMMA AccessAt ==
    ASSUME NEW n \in PartNames, NEW i \in 1..Len(Parts[n])
    PROVE  LET c == Parts[n][i]
           IN /\ c.op = "rd" /\ c.dev = "se" /\ c.reg = "REG01" => n = "init" /\ i = 3
              /\ c.op = "rd" /\ c.dev = "se" /\ c.reg = "RLMS95" =>
                    (n = "init" /\ i = 17) \/ (n = "lower" /\ i = 1)
              /\ c.op = "wr" /\ c.dev = "se" /\ c.reg = "RLMS95" =>
                    (n = "init" /\ i \in {4, 19}) \/ (n = "lower" /\ i = 2) \/
                    (n = "restore" /\ i = 1)
              /\ c.op = "wr" /\ c.dev = "de" /\ c.reg = "RLMS3" =>
                    (n = "init" /\ i = 16) \/ n = "lower" \/ (n = "restore" /\ i \in {3, 5})
<1> DEFINE Q(p, j, c) ==
              /\ c.op = "rd" /\ c.dev = "se" /\ c.reg = "REG01" => p = "init" /\ j = 3
              /\ c.op = "rd" /\ c.dev = "se" /\ c.reg = "RLMS95" =>
                    (p = "init" /\ j = 17) \/ (p = "lower" /\ j = 1)
              /\ c.op = "wr" /\ c.dev = "se" /\ c.reg = "RLMS95" =>
                    (p = "init" /\ j \in {4, 19}) \/ (p = "lower" /\ j = 2) \/
                    (p = "restore" /\ j = 1)
              /\ c.op = "wr" /\ c.dev = "de" /\ c.reg = "RLMS3" =>
                    (p = "init" /\ j = 16) \/ p = "lower" \/ (p = "restore" /\ j \in {3, 5})
<1>1. ASSUME NEW p, NEW j PROVE Q(p, j, Detect)
    BY DEF Detect
<1>2. ASSUME NEW p, NEW j, NEW d \in Chips, NEW r \in RegNames,
             d = "se" => r # "REG01" /\ r # "RLMS95"
      PROVE  Q(p, j, Rd(d, r))
    BY <1>2 DEF Rd
<1>3. ASSUME NEW p, NEW j, NEW d \in Chips, NEW r \in WrRegs, NEW h,
             d = "se" => r # "RLMS95", d = "de" => r # "RLMS3"
      PROVE  Q(p, j, Wr(d, r, h))
    BY <1>3 DEF Wr
<1>4. /\ Q("init", 3, Rd("se", "REG01")) /\ Q("init", 17, Rd("se", "RLMS95"))
      /\ Q("lower", 1, Rd("se", "RLMS95"))
    BY DEF Rd
<1>5. ASSUME NEW h
      PROVE  /\ Q("init", 4, Wr("se", "RLMS95", h)) /\ Q("init", 19, Wr("se", "RLMS95", h))
             /\ Q("lower", 2, Wr("se", "RLMS95", h)) /\ Q("restore", 1, Wr("se", "RLMS95", h))
             /\ Q("init", 16, Wr("de", "RLMS3", h)) /\ Q("lower", 4, Wr("de", "RLMS3", h))
             /\ Q("lower", 6, Wr("de", "RLMS3", h)) /\ Q("restore", 3, Wr("de", "RLMS3", h))
             /\ Q("restore", 5, Wr("de", "RLMS3", h))
    BY DEF Wr
<1> HIDE DEF Q
<1>6. /\ "se" \in Chips /\ "de" \in Chips /\ "RLMS95" \in WrRegs /\ "RLMSA4" \in WrRegs
      /\ "RLMS4" \in WrRegs /\ "RLMS3" \in WrRegs /\ WrRegs \subseteq RegNames
      /\ "REG01" \in RegNames /\ "CNT0" \in RegNames /\ "CTRL3" \in RegNames
    BY DEF Chips, WrRegs, RegNames
<1>7. ASSUME NEW p, NEW j
      PROVE  /\ Q(p, j, Rd("de", "REG01")) /\ Q(p, j, Rd("de", "RLMS95"))
             /\ Q(p, j, Rd("de", "RLMS3")) /\ Q(p, j, Rd("se", "RLMS3"))
             /\ Q(p, j, Rd("de", "RLMS4")) /\ Q(p, j, Rd("se", "RLMS4"))
             /\ Q(p, j, Rd("de", "RLMSA4")) /\ Q(p, j, Rd("se", "RLMSA4"))
             /\ Q(p, j, Rd("de", "CNT0")) /\ Q(p, j, Rd("se", "CNT0"))
             /\ Q(p, j, Rd("de", "CTRL3"))
    BY <1>2, <1>6
<1>8. ASSUME NEW p, NEW j, NEW h
      PROVE  /\ Q(p, j, Wr("de", "RLMS95", h)) /\ Q(p, j, Wr("se", "RLMS3", h))
             /\ Q(p, j, Wr("de", "RLMS4", h)) /\ Q(p, j, Wr("se", "RLMS4", h))
             /\ Q(p, j, Wr("de", "RLMSA4", h)) /\ Q(p, j, Wr("se", "RLMSA4", h))
    BY <1>3, <1>6
<1>9. CASE n = "init"
    <2>1. Len(Parts.init) = 22
        BY InitPart, Zenon
    <2>2. i \in 1..22
        BY <1>9, <2>1
    <2> DEFINE T(j) == Q("init", j, Parts.init[j])
    <2>3. T(1) /\ T(2) /\ T(3) /\ T(4)
        <3>1. /\ Parts.init[1] = Rd("de", "REG01")
              /\ Parts.init[2] = Wr("de", "RLMS95", "rate")
              /\ Parts.init[3] = Rd("se", "REG01")
              /\ Parts.init[4] = Wr("se", "RLMS95", "rate")
            BY InitPart, Zenon
        <3>2. /\ Q("init", 1, Rd("de", "REG01"))
              /\ Q("init", 2, Wr("de", "RLMS95", "rate"))
              /\ Q("init", 3, Rd("se", "REG01"))
              /\ Q("init", 4, Wr("se", "RLMS95", "rate"))
            BY ONLY <1>4, <1>5, <1>7, <1>8, Zenon
        <3> QED
            BY ONLY <3>1, <3>2, Zenon
    <2>4. T(5) /\ T(6) /\ T(7) /\ T(8)
        <3>1. /\ Parts.init[5] = Rd("se", "RLMSA4")
              /\ Parts.init[6] = Rd("de", "RLMSA4")
              /\ Parts.init[7] = Wr("se", "RLMSA4", "clear")
              /\ Parts.init[8] = Wr("de", "RLMSA4", "clear")
            BY InitPart, Zenon
        <3>2. /\ Q("init", 5, Rd("se", "RLMSA4"))
              /\ Q("init", 6, Rd("de", "RLMSA4"))
              /\ Q("init", 7, Wr("se", "RLMSA4", "clear"))
              /\ Q("init", 8, Wr("de", "RLMSA4", "clear"))
            BY ONLY <1>4, <1>5, <1>7, <1>8, Zenon
        <3> QED
            BY ONLY <3>1, <3>2, Zenon
    <2>5. T(9) /\ T(10) /\ T(11) /\ T(12)
        <3>1. /\ Parts.init[9] = Rd("se", "RLMS4")
              /\ Parts.init[10] = Rd("de", "RLMS4")
              /\ Parts.init[11] = Wr("se", "RLMS4", "clear")
              /\ Parts.init[12] = Wr("de", "RLMS4", "clear")
            BY InitPart, Zenon
        <3>2. /\ Q("init", 9, Rd("se", "RLMS4"))
              /\ Q("init", 10, Rd("de", "RLMS4"))
              /\ Q("init", 11, Wr("se", "RLMS4", "clear"))
              /\ Q("init", 12, Wr("de", "RLMS4", "clear"))
            BY ONLY <1>4, <1>5, <1>7, <1>8, Zenon
        <3> QED
            BY ONLY <3>1, <3>2, Zenon
    <2>6. T(13) /\ T(14) /\ T(15) /\ T(16)
        <3>1. /\ Parts.init[13] = Rd("se", "RLMS3")
              /\ Parts.init[14] = Rd("de", "RLMS3")
              /\ Parts.init[15] = Wr("se", "RLMS3", "clear")
              /\ Parts.init[16] = Wr("de", "RLMS3", "clear")
            BY InitPart, Zenon
        <3>2. /\ Q("init", 13, Rd("se", "RLMS3"))
              /\ Q("init", 14, Rd("de", "RLMS3"))
              /\ Q("init", 15, Wr("se", "RLMS3", "clear"))
              /\ Q("init", 16, Wr("de", "RLMS3", "clear"))
            BY ONLY <1>4, <1>5, <1>7, <1>8, Zenon
        <3> QED
            BY ONLY <3>1, <3>2, Zenon
    <2>7. T(17) /\ T(18) /\ T(19) /\ T(20)
        <3>1. /\ Parts.init[17] = Rd("se", "RLMS95")
              /\ Parts.init[18] = Rd("de", "RLMS95")
              /\ Parts.init[19] = Wr("se", "RLMS95", "clear")
              /\ Parts.init[20] = Wr("de", "RLMS95", "clear")
            BY InitPart, Zenon
        <3>2. /\ Q("init", 17, Rd("se", "RLMS95"))
              /\ Q("init", 18, Rd("de", "RLMS95"))
              /\ Q("init", 19, Wr("se", "RLMS95", "clear"))
              /\ Q("init", 20, Wr("de", "RLMS95", "clear"))
            BY ONLY <1>4, <1>5, <1>7, <1>8, Zenon
        <3> QED
            BY ONLY <3>1, <3>2, Zenon
    <2>8. T(21) /\ T(22)
        <3>1. /\ Parts.init[21] = Rd("se", "CNT0")
              /\ Parts.init[22] = Rd("de", "CNT0")
            BY InitPart, Zenon
        <3>2. /\ Q("init", 21, Rd("se", "CNT0"))
              /\ Q("init", 22, Rd("de", "CNT0"))
            BY ONLY <1>4, <1>5, <1>7, <1>8, Zenon
        <3> QED
            BY ONLY <3>1, <3>2, Zenon
    <2> HIDE DEF T
    <2>9. \/ i = 1 \/ i = 2 \/ i = 3 \/ i = 4 \/ i = 5 \/ i = 6 \/ i = 7 \/ i = 8 \/ i = 9 \/ i = 10 \/ i = 11
          \/ i = 12 \/ i = 13 \/ i = 14 \/ i = 15 \/ i = 16 \/ i = 17 \/ i = 18 \/ i = 19 \/ i = 20 \/ i = 21 \/ i = 22
        BY ONLY <2>2
    <2>10. T(i)
        BY ONLY <2>3, <2>4, <2>5, <2>6, <2>7, <2>8, <2>9, Zenon
    <2> QED
        BY <1>9, <2>10 DEF T, Q
<1>10. CASE n = "lower"
    <2>1. Len(Parts.lower) = 6
        BY OtherParts, Zenon
    <2>2. i \in 1..6
        BY <1>10, <2>1
    <2> DEFINE T(j) == Q("lower", j, Parts.lower[j])
    <2>3. T(1) /\ T(2) /\ T(3) /\ T(4) /\ T(5) /\ T(6)
        BY <1>4, <1>5, <1>7, <1>8, OtherParts, Zenon
    <2> HIDE DEF T
    <2>4. T(i)
        BY <2>2, <2>3
    <2> QED
        BY <1>10, <2>4 DEF T, Q
<1>11. CASE n = "restore"
    <2>1. Len(Parts.restore) = 5
        BY OtherParts, Zenon
    <2>2. i \in 1..5
        BY <1>11, <2>1
    <2> DEFINE T(j) == Q("restore", j, Parts.restore[j])
    <2>3. T(1) /\ T(2) /\ T(3) /\ T(4) /\ T(5)
        BY <1>4, <1>5, <1>7, <1>8, OtherParts, Zenon
    <2> HIDE DEF T
    <2>4. T(i)
        BY <2>2, <2>3
    <2> QED
        BY <1>11, <2>4 DEF T, Q
<1>12. CASE n \in {"detect", "lock", "wait", "count", "complete"}
    <2> DEFINE other == {Detect, Rd("de", "CNT0"), Rd("de", "CTRL3"), Rd("se", "CNT0")}
    <2>1. Parts[n][i] \in other
        <3> DEFINE w1 == Rd("de", "CNT0")
                   w2 == Rd("de", "CTRL3")
                   w3 == Rd("se", "CNT0")
        <3>1. /\ Parts.detect = <<Detect>> /\ Parts.lock = <<w1, w2>> /\ Parts.wait = <<w2>>
              /\ Parts.count = <<w1, w1>> /\ Parts.complete = <<w3, w1>>
            BY OtherParts, Zenon
        <3> HIDE DEF w1, w2, w3
        <3>2. CASE n = "detect"
            <4>1. Parts[n] = <<Detect>>
                BY <3>1, <3>2
            <4>2. i = 1
                BY <4>1
            <4> QED
                BY <4>1, <4>2
        <3>3. CASE n = "lock"
            BY <3>1, <3>3 DEF w1, w2, w3
        <3>4. CASE n = "wait"
            BY <3>1, <3>4 DEF w1, w2, w3
        <3>5. CASE n = "count"
            BY <3>1, <3>5 DEF w1, w2, w3
        <3>6. CASE n = "complete"
            BY <3>1, <3>6 DEF w1, w2, w3
        <3> QED
            BY <1>12, <3>2, <3>3, <3>4, <3>5, <3>6
    <2>2. \A c \in other : Q(n, i, c)
        BY <1>1, <1>7
    <2>3. Q(n, i, Parts[n][i])
        BY <2>1, <2>2
    <2> QED
        BY <2>3 DEF Q
<1> QED
    BY <1>9, <1>10, <1>11, <1>12 DEF PartNames

LEMMA InitMargin == Init => MarginInv
BY DEF Init, MarginInv

\* The test begins by listing the devices.
LEMMA StartMargin ==
    ASSUME Start
    PROVE  MarginInv'
<1>1. CASE MainMargin
    <2>1. /\ job' = [kind |-> "margin", part |-> "detect", at |-> 1, tries |-> 0, amp |-> 0]
          /\ cmd' = Detect /\ pc' = "write"
        BY <1>1 DEF MainMargin, Main
    <2>2. Parts.detect = <<Detect>>
        BY OtherParts, Zenon
    <2>3. Len(Parts.detect) = 1 /\ Parts.detect[1] = Detect
        BY <2>2
    <2>4. Matches(Detect, Detect)
        BY DEF Matches, Detect
    <2>5. ~Served'
        BY <2>1 DEF Served
    <2>6. job'.part = "detect" /\ job'.at = 1
        BY <2>1
    <2>7. Parts[job'.part][job'.at] = Detect /\ job'.at \in 1..Len(Parts[job'.part])
        BY <2>3, <2>6
    <2>8. ReadInv' /\ ValueInv' /\ AmpInv' /\ AdaptInv'
        BY <2>1, <2>5, <2>6 DEF ReadInv, ValueInv, AmpInv, AdaptInv, InPart
    <2> QED
        BY <2>1, <2>4, <2>7, <2>8 DEF MarginInv
<1>2. ASSUME NEW b, Main(b), b.kind # "margin" PROVE MarginInv'
    BY <1>2 DEF Main, MarginInv
<1> QED
    BY <1>1, <1>2 DEF Start, MainCmd, MainFile, MainTable

\* A bus that is healthy after a step was so before, and nothing was given up.
LEMMA StaysClean ==
    ASSUME ArmInv, Next, Clean'
    PROVE  Clean /\ ~late /\ ~PollTimeout /\ ~FwFail
<1>1. TypeOK /\ SendInv
    BY DEF ArmInv
<1>2. slow = 0 /\ faults = 0
    <2>1. /\ slow' = slow \/ slow' = slow + 1
          /\ faults' = faults \/ faults' = faults + 1
        <3>1. CASE Start
            BY <3>1 DEF Start, MainCmd, MainTable, MainMargin, MainFile, Main, auxVars
        <3>2. CASE SendWrite \/ SendRing \/ ReadResult \/ ReadAnswer
            BY <3>2 DEF SendWrite, SendRing, ReadResult, ReadAnswer, auxVars
        <3>3. CASE Poll \/ PollTimeout
            BY <3>3 DEF Poll, PollTimeout
        <3>4. CASE SendBlock \/ BlockUnread \/ NextBlock
            BY <3>4 DEF SendBlock, BlockUnread, NextBlock, auxVars
        <3>5. CASE NextElement \/ NextMargin \/ NextCmd
            BY <3>5 DEF NextElement, NextMargin, NextCmd, auxVars
        <3>6. CASE FwTake
            BY <3>6 DEF FwTake, auxVars
        <3>7. CASE FwAnswer \/ FwFail
            BY <3>7 DEF FwAnswer, FwFail, Answered
        <3> QED
            BY <3>1, <3>2, <3>3, <3>4, <3>5, <3>6, <3>7 DEF Next, Tool
    <2> QED
        BY <1>1, <2>1 DEF Clean, TypeOK
<1>3. regs'[<<"se", "REG01">>] = regs[<<"se", "REG01">>]
    <2>1. CASE UNCHANGED regs
        BY <2>1
    <2>2. CASE regs' # regs
        <3>1. /\ fw.cmd.op = "wr"
              /\ regs' = [regs EXCEPT ![<<fw.cmd.dev, fw.cmd.reg>>] = fw.cmd.value]
            BY <2>2 DEF Next, Start, MainCmd, MainTable, MainMargin, MainFile, Main, Tool,
               SendWrite, SendRing, Poll, PollTimeout, ReadResult, ReadAnswer, SendBlock,
               BlockUnread, NextBlock, NextElement, NextMargin, NextCmd, FwTake, FwAnswer,
               FwFail, fwVars
        <3>2. fw.cmd.reg # "REG01"
            <4>1. fw.cmd \in Messages
                BY <1>1 DEF TypeOK
            <4> QED
                BY <3>1, <4>1 DEF Messages, Nothing, Detect, Reads, Writes, WrRegs
        <3> QED
            BY <1>1, <3>1, <3>2 DEF TypeOK, Registers
    <2> QED
        BY <2>1, <2>2
<1>4. Clean /\ ~late
    BY <1>1, <1>2, <1>3 DEF Clean, SendInv
<1>5. ~PollTimeout
    BY <1>1, <1>2, Bounds DEF PollTimeout, PollLimit, SendInv, TypeOK
<1>6. ~FwFail
    BY <1>1 DEF FwFail, Clean, TypeOK
<1> QED
    BY <1>4, <1>5, <1>6

\* A message is written, polled for and answered within one step of the test.
LEMMA SendMargin ==
    ASSUME ArmInv, Next, job'.kind = "margin",
           \/ SendWrite \/ SendRing \/ Poll \/ PollTimeout \/ ReadResult \/ ReadAnswer
           \/ SendBlock \/ BlockUnread \/ FwTake
    PROVE  MarginInv'
<1>1. TypeOK /\ SendInv /\ MarginInv
    BY DEF ArmInv
<1>2. UNCHANGED <<job, locals, se_tx_amp_org>> /\ job.kind = "margin"
    BY DEF SendWrite, SendRing, Poll, PollTimeout, ReadResult, ReadAnswer, SendBlock,
           BlockUnread, FwTake, jobVars
<1>3. ~SendBlock /\ ~BlockUnread
    BY <1>1, <1>2 DEF SendBlock, BlockUnread, SendInv
<1>4. UNCHANGED <<cmd, regs>>
    <2>1. CASE SendWrite
        BY <2>1 DEF SendWrite, fwVars
    <2>2. CASE SendRing
        BY <2>2 DEF SendRing, sendVars, fwVars
    <2>3. CASE Poll
        BY <2>3 DEF Poll, fwVars
    <2>4. CASE PollTimeout
        BY <2>4 DEF PollTimeout, fwVars
    <2>5. CASE ReadResult
        BY <2>5 DEF ReadResult, fwVars
    <2>6. CASE ReadAnswer
        BY <2>6 DEF ReadAnswer, fwVars
    <2>7. CASE FwTake
        BY <2>7 DEF FwTake, sendVars
    <2> QED
        BY <1>3, <2>1, <2>2, <2>3, <2>4, <2>5, <2>6, <2>7
<1>5. (pc' = "idle") <=> (pc = "idle")
    <2>1. CASE FwTake
        BY <2>1 DEF FwTake
    <2>2. CASE ~FwTake
        BY <1>3, <2>2 DEF SendWrite, SendRing, Poll, PollTimeout, ReadResult, ReadAnswer, Fail
    <2> QED
        BY <2>1, <2>2
<1>6. ASSUME Clean' PROVE ReadInv' /\ ValueInv' /\ AmpInv' /\ AdaptInv'
    <2>1. Clean /\ ~late /\ ~PollTimeout
        BY <1>6, StaysClean
    <2>2. ReadInv /\ ValueInv /\ AmpInv /\ AdaptInv
        BY <1>1, <1>2, <2>1 DEF MarginInv
    <2>3. Served' <=> Served
        <3>1. CASE SendWrite
            BY <3>1 DEF SendWrite, Served
        <3>2. CASE SendRing
            BY <3>2 DEF SendRing, Served
        <3>3. CASE Poll
            BY <3>3 DEF Poll, Served, mailVars
        <3>4. CASE ReadResult
            BY <3>4 DEF ReadResult, Fail, Served
        <3>5. CASE ReadAnswer
            BY <3>5 DEF ReadAnswer, Served
        <3>6. CASE FwTake
            BY <3>6 DEF FwTake, Served, mailVars
        <3> QED
            BY <1>3, <2>1, <3>1, <3>2, <3>3, <3>4, <3>5, <3>6
    <2>4. ASSUME NEW n, NEW k PROVE InPart(n, k)' <=> InPart(n, k)
        BY <1>2, <1>5, <2>3 DEF InPart
    <2>5. AmpInv' /\ AdaptInv'
        BY <1>2, <1>4, <2>2, <2>4 DEF AmpInv, AdaptInv, Amp, SeReg
    <2>6. ValueInv'
        BY <1>2, <1>4, <1>5, <2>2 DEF ValueInv
    <2>7. ReadInv'
        <3>1. CASE SendWrite \/ SendRing
            BY <3>1 DEF SendWrite, SendRing, ReadInv, Served
        <3>2. CASE Poll
            <4>1. UNCHANGED <<answer, cmd_result>> /\ pc' # "next"
                BY <3>2 DEF Poll, mailVars
            <4> QED
                BY <1>4, <2>2, <2>3, <3>2, <4>1 DEF ReadInv, Poll
        <3>5. CASE FwTake
            <4>1. UNCHANGED <<pc, answer, cmd_result, ret>>
                BY <3>5 DEF FwTake, mailVars, sendVars
            <4> QED
                BY <1>4, <2>2, <2>3, <4>1 DEF ReadInv
        <3>3. CASE ReadResult
            <4>1. answer.result = 0 /\ pc' = "answer" /\ UNCHANGED <<answer, cmd_result>>
                BY <1>2, <2>2, <3>3 DEF ReadResult, ReadInv, Served, mailVars
            <4> QED
                BY <1>4, <2>2, <2>3, <3>3, <4>1 DEF ReadInv, ReadResult
        <3>4. CASE ReadAnswer
            <4>1. /\ pc = "answer" /\ pc' = "next" /\ ret' = "0"
                  /\ cmd_result'.value = IF Cursor(answer.len) = 0 THEN answer.value ELSE 0
                BY <3>4 DEF ReadAnswer
            <4>2. cmd.op = "rd" /\ cmd.dev = "se" /\ cmd.reg \in {"REG01", "RLMS95"} =>
                    cmd_result'.value = regs[<<"se", cmd.reg>>]
                BY <2>2, <4>1, ShortAnswer DEF ReadInv, Served
            <4> QED
                BY <1>4, <4>1, <4>2 DEF ReadInv
        <3> QED
            BY <1>3, <2>1, <3>1, <3>2, <3>3, <3>4, <3>5
    <2> QED
        BY <2>5, <2>6, <2>7
<1> QED
    BY <1>1, <1>2, <1>4, <1>5, <1>6 DEF MarginInv

\* The firmware reads or writes the register of the step.
LEMMA AnswerMargin ==
    ASSUME ArmInv, Next, job'.kind = "margin", FwAnswer \/ FwFail
    PROVE  MarginInv'
<1>1. TypeOK /\ SendInv /\ MarginInv
    BY DEF ArmInv
<1>2. UNCHANGED <<pc, job, locals, se_tx_amp_org, cmd, ret, cmd_result>> /\ job.kind = "margin"
    BY DEF FwAnswer, FwFail, Answered, jobVars, sendVars
<1>3. job.part \in PartNames /\ job.at \in Nat /\ job.amp \in Int
    BY <1>1, <1>2, MarginJob DEF TypeOK
<1> SUFFICES ASSUME Clean' PROVE ReadInv' /\ ValueInv' /\ AmpInv' /\ AdaptInv'
    BY <1>1, <1>2 DEF MarginInv
<1>4. Clean /\ ~late /\ FwAnswer
    BY StaysClean
<1>5. ReadInv /\ ValueInv /\ AmpInv /\ AdaptInv
    BY <1>1, <1>2, <1>4 DEF MarginInv
<1>6. fw.cmd # Nothing /\ doorbell' = 0
    BY <1>4 DEF FwAnswer, Answered
<1>7. pc = "poll" /\ doorbell = 1 /\ fw.cmd = cmd
    BY <1>1, <1>2, <1>4, <1>6 DEF SendInv
<1>8. ~Served /\ Served' /\ pc' = "poll"
    BY <1>2, <1>6, <1>7 DEF Served
<1> DEFINE c == Parts[job.part][job.at]
<1>9. Matches(cmd, c) /\ job.at \in 1..Len(Parts[job.part])
    BY <1>1, <1>2, <1>7 DEF MarginInv
<1>10. /\ cmd.op = "rd" /\ cmd.dev = "se" /\ cmd.reg = "RLMS95" => job.part \in {"init", "lower"}
       /\ cmd.op = "wr" /\ cmd.dev = "se" /\ cmd.reg = "RLMS95" =>
            (job.part = "init" /\ job.at \in {4, 19}) \/ (job.part = "lower" /\ job.at = 2) \/
            (job.part = "restore" /\ job.at = 1)
       /\ cmd.op = "wr" /\ cmd.dev = "de" /\ cmd.reg = "RLMS3" =>
            (job.part = "init" /\ job.at = 16) \/ job.part = "lower" \/
            (job.part = "restore" /\ job.at \in {3, 5})
    BY <1>3, <1>9, AccessAt DEF Matches
<1>11. /\ job.part = "init" /\ job.at = 4 => cmd.op = "wr" /\ cmd.dev = "se" /\ cmd.reg = "RLMS95"
       /\ job.part = "lower" /\ job.at = 2 => cmd.op = "wr" /\ cmd.dev = "se" /\ cmd.reg = "RLMS95"
       /\ job.part = "restore" /\ job.at = 1 =>
            cmd.op = "wr" /\ cmd.dev = "se" /\ cmd.reg = "RLMS95"
       /\ job.part = "init" /\ job.at = 16 => cmd.op = "wr" /\ cmd.dev = "de" /\ cmd.reg = "RLMS3"
       /\ job.part = "restore" /\ job.at = 5 =>
            cmd.op = "wr" /\ cmd.dev = "de" /\ cmd.reg = "RLMS3"
    <2>1. /\ Parts.init[4] = Wr("se", "RLMS95", "rate") /\ Parts.init[16] = Wr("de", "RLMS3", "clear")
          /\ Parts.lower[2] = Wr("se", "RLMS95", "lower")
          /\ Parts.restore[1] = Wr("se", "RLMS95", "org")
          /\ Parts.restore[5] = Wr("de", "RLMS3", "clear")
        BY InitPart, OtherParts, Zenon
    <2> QED
        BY <1>9, <2>1 DEF Matches, Wr
<1>12. /\ cmd.op = "wr" => regs' = [regs EXCEPT ![<<cmd.dev, cmd.reg>>] = cmd.value]
       /\ cmd.op # "wr" => regs' = regs
       /\ cmd.op = "rd" => answer'.len = 1 /\ answer'.value \in Readings(cmd)
       /\ answer'.result = 0
    BY <1>4, <1>7 DEF FwAnswer, Answered
<1>13. /\ <<"se", "RLMS95">> \in Chips \X RegNames /\ <<"de", "RLMS3">> \in Chips \X RegNames
       /\ regs \in [Chips \X RegNames -> Int]
    BY <1>1 DEF TypeOK, Registers, Chips, RegNames
<1>14. SeReg' = IF cmd.op = "wr" /\ cmd.dev = "se" /\ cmd.reg = "RLMS95" THEN cmd.value ELSE SeReg
    BY <1>12, <1>13 DEF SeReg
<1>15. regs'[<<"de", "RLMS3">>] = IF cmd.op = "wr" /\ cmd.dev = "de" /\ cmd.reg = "RLMS3"
                                  THEN cmd.value ELSE regs[<<"de", "RLMS3">>]
    BY <1>12, <1>13
<1>16. ASSUME NEW n, NEW k \in Nat
       PROVE  /\ InPart(n, k)' <=> job.part = n /\ (job.at > k \/ job.at = k)
              /\ InPart(n, k) <=> job.part = n /\ job.at > k
    BY <1>2, <1>7, <1>8 DEF InPart
<1>17. ReadInv'
    <2>1. ASSUME cmd.op = "rd", cmd.dev = "se", cmd.reg \in {"REG01", "RLMS95"}
          PROVE  answer'.len = 1 /\ answer'.value = regs'[<<"se", cmd.reg>>]
        BY <1>12, <2>1 DEF Readings
    <2> QED
        BY <1>2, <1>8, <1>12, <2>1 DEF ReadInv
<1>18. ValueInv'
    BY <1>2, <1>5 DEF ValueInv
<1>19. AdaptInv'
    <2> SUFFICES ASSUME InPart("init", 16)' \/ InPart("restore", 5)' \/
                        job.part \in {"lock", "complete"}
                 PROVE  regs'[<<"de", "RLMS3">>] = 0
        BY <1>2 DEF AdaptInv
    <2>1. CASE cmd.op = "wr" /\ cmd.dev = "de" /\ cmd.reg = "RLMS3"
        <3>1. (job.part = "init" /\ job.at = 16) \/ (job.part = "restore" /\ job.at = 5)
            BY <1>10, <1>16, <2>1
        <3> QED
            BY <1>5, <1>7, <1>15, <2>1, <3>1 DEF ValueInv
    <2>2. CASE ~(cmd.op = "wr" /\ cmd.dev = "de" /\ cmd.reg = "RLMS3")
        <3>1. InPart("init", 16) \/ InPart("restore", 5) \/ job.part \in {"lock", "complete"}
            BY <1>11, <1>16, <2>2
        <3> QED
            BY <1>5, <1>15, <2>2, <3>1 DEF AdaptInv
    <2> QED
        BY <2>1, <2>2
<1>20. AmpInv'
    <2>1. Amp' = SeReg' % AmpMask
        BY DEF Amp
    <2>2. CASE ~(cmd.op = "wr" /\ cmd.dev = "se" /\ cmd.reg = "RLMS95")
        <3>1. SeReg' = SeReg /\ Amp' = Amp
            BY <1>14, <2>1, <2>2 DEF Amp
        <3>2. /\ InPart("init", 4)' <=> InPart("init", 4)
              /\ InPart("lower", 2)' <=> InPart("lower", 2)
              /\ InPart("restore", 1)' <=> InPart("restore", 1)
            BY <1>11, <1>16, <2>2
        <3> QED
            BY <1>2, <1>5, <3>1, <3>2 DEF AmpInv
    <2>3. CASE cmd.op = "wr" /\ cmd.dev = "se" /\ cmd.reg = "RLMS95"
        <3>1. SeReg' = cmd.value
            BY <1>14, <2>3
        <3>2. CASE job.part = "init" /\ job.at \in {4, 19}
            <4>1. cmd.value = AmpOrg
                BY <1>5, <1>7, <3>2 DEF ValueInv
            <4>2. ~InPart("lower", 2)' /\ ~InPart("restore", 1)'
                BY <1>16, <3>2
            <4> QED
                BY <1>2, <3>1, <3>2, <4>1, <4>2 DEF AmpInv
        <3>3. CASE job.part = "lower" /\ job.at = 2
            <4>1. cmd.value = job.amp + Manual /\ AmpMin <= job.amp /\ job.amp < AmpOrg
                BY <1>5, <1>7, <3>3 DEF ValueInv
            <4>2. job.amp \in 0..(AmpMask - 1) /\ AmpMask \in Nat \ {0}
                BY <1>3, <4>1, Bounds
            <4>3. (job.amp + 2 * AmpMask) % AmpMask = job.amp
                BY ONLY <4>2, Remainder
            <4>4. Amp' = job.amp
                BY <2>1, <3>1, <4>1, <4>3 DEF Manual
            <4>5. InPart("lower", 2)' /\ ~InPart("restore", 1)' /\ ~InPart("init", 4)'
                BY <1>16, <3>3
            <4> QED
                BY <1>2, <3>3, <4>1, <4>4, <4>5 DEF AmpInv
        <3>4. CASE job.part = "restore" /\ job.at = 1
            <4>1. cmd.value = AmpOrg + Manual
                BY <1>5, <1>7, <3>4 DEF ValueInv
            <4>2. Amp' = AmpOrg
                BY <2>1, <3>1, <4>1, Original
            <4>3. InPart("restore", 1)' /\ ~InPart("lower", 2)' /\ ~InPart("init", 4)'
                BY <1>16, <3>4
            <4> QED
                BY <1>2, <3>4, <4>2, <4>3 DEF AmpInv
        <3> QED
            BY <1>10, <2>3, <3>2, <3>3, <3>4
    <2> QED
        BY <2>2, <2>3
<1> QED
    BY <1>17, <1>18, <1>19, <1>20

\* Which step a step of the test comes from.
LEMMA CameFrom ==
    ASSUME TypeOK, MarginInv, NextMargin
    PROVE  /\ pc = "next" /\ job.kind = "margin" /\ job.part \in PartNames
           /\ Matches(cmd, Parts[job.part][job.at])
           /\ job.at \in 1..Len(Parts[job.part]) /\ Len(Parts[job.part]) \in Nat
           /\ NewAt \in Nat
           /\ \/ More /\ NewPart = job.part /\ NewAt = job.at + 1
              \/ /\ ~More /\ job.at = Len(Parts[job.part]) /\ NewAt = 1
                 /\ NewPart = After(NewLocals)
<1>1. pc = "next" /\ job.kind = "margin"
    BY DEF NextMargin
<1>2. job.part \in PartNames /\ job.at \in Nat
    BY <1>1, MarginJob DEF TypeOK
<1>3. /\ Matches(cmd, Parts[job.part][job.at])
      /\ job.at \in 1..Len(Parts[job.part])
    BY <1>1 DEF MarginInv
<1>4. Len(Parts[job.part]) \in Nat
    BY <1>2, PartsTyped
<1> QED
    BY <1>1, <1>2, <1>3, <1>4 DEF More, NewPart, NewAt

\* On a healthy bus: the C variables, and what is written next.
LEMMA NextValues ==
    ASSUME ArmInv, NextMargin, Next, Clean', NewPart # "done"
    PROVE  ValueInv'
<1>1. TypeOK /\ MarginInv
    BY DEF ArmInv
<1>2. /\ pc = "next" /\ job.kind = "margin" /\ job.part \in PartNames
      /\ Matches(cmd, Parts[job.part][job.at])
      /\ job.at \in 1..Len(Parts[job.part]) /\ Len(Parts[job.part]) \in Nat
      /\ NewAt \in Nat
      /\ \/ More /\ NewPart = job.part /\ NewAt = job.at + 1
         \/ /\ ~More /\ job.at = Len(Parts[job.part]) /\ NewAt = 1
            /\ NewPart = After(NewLocals)
    BY <1>1, CameFrom
<1>3. Clean
    BY StaysClean
<1>4. ReadInv /\ ValueInv /\ AmpInv /\ AdaptInv
    BY <1>1, <1>2, <1>3 DEF MarginInv
<1>5. /\ locals' = NewLocals /\ se_tx_amp_org' = NewOrg /\ pc' = "write"
      /\ NewPart \in PartNames /\ NewAt \in 1..Len(Parts[NewPart]) /\ NewStep \in Steps
      /\ cmd' = IF NewStep.op = "wr"
                THEN [op |-> "wr", dev |-> NewStep.dev, reg |-> NewStep.reg,
                      value |-> Written(NewStep, NewLocals, NewOrg)]
                ELSE NewStep
      /\ job'.part = NewPart /\ job'.at = NewAt
      /\ job'.amp = IF NewStep.op = "wr" /\ NewPart = "lower" /\ NewAt = 2
                    THEN Lowered(NewLocals[<<"se", "RLMS95">>]) ELSE job.amp
    BY <1>1, MarginStep
<1>6. Served /\ \A n : \A k \in Nat : InPart(n, k) <=> job.part = n /\ job.at >= k
    BY <1>2 DEF Served, InPart
<1>7. /\ cmd.op = "rd" /\ cmd.dev = "se" /\ cmd.reg = "REG01" => job.part = "init" /\ job.at = 3
      /\ cmd.op = "rd" /\ cmd.dev = "se" /\ cmd.reg = "RLMS95" =>
            (job.part = "init" /\ job.at = 17) \/ (job.part = "lower" /\ job.at = 1)
    BY <1>2, AccessAt DEF Matches
<1>8. /\ Parts.init[3] = Rd("se", "REG01") /\ Parts.init[17] = Rd("se", "RLMS95")
      /\ Parts.init[18] = Rd("de", "RLMS95") /\ Parts.lower[1] = Rd("se", "RLMS95")
      /\ Parts.init[4] = Wr("se", "RLMS95", "rate")
      /\ Parts.init[16] = Wr("de", "RLMS3", "clear")
      /\ Parts.init[19] = Wr("se", "RLMS95", "clear")
      /\ Parts.lower[2] = Wr("se", "RLMS95", "lower")
      /\ Parts.restore[1] = Wr("se", "RLMS95", "org")
      /\ Parts.restore[5] = Wr("de", "RLMS3", "clear")
      /\ Len(Parts.init) = 22
    BY InitPart, OtherParts, Zenon
<1>9. /\ job.part = "init" /\ job.at = 3 => cmd.op = "rd" /\ cmd.dev = "se" /\ cmd.reg = "REG01"
      /\ job.part = "init" /\ job.at = 17 => cmd.op = "rd" /\ cmd.dev = "se" /\ cmd.reg = "RLMS95"
      /\ job.part = "init" /\ job.at = 18 => cmd.op = "rd" /\ cmd.dev = "de" /\ cmd.reg = "RLMS95"
      /\ job.part = "lower" /\ job.at = 1 => cmd.op = "rd" /\ cmd.dev = "se" /\ cmd.reg = "RLMS95"
    <2>1. ASSUME NEW d, NEW r, Matches(cmd, Rd(d, r))
          PROVE  cmd.op = "rd" /\ cmd.dev = d /\ cmd.reg = r
        BY <2>1 DEF Matches, Rd
    <2>2. CASE job.part = "init" /\ job.at = 3
        <3>1. Matches(cmd, Rd("se", "REG01"))
            BY <1>2, <1>8, <2>2
        <3> QED
            BY <2>1, <2>2, <3>1
    <2>3. CASE job.part = "init" /\ job.at = 17
        <3>1. Matches(cmd, Rd("se", "RLMS95"))
            BY <1>2, <1>8, <2>3
        <3> QED
            BY <2>1, <2>3, <3>1
    <2>4. CASE job.part = "init" /\ job.at = 18
        <3>1. Matches(cmd, Rd("de", "RLMS95"))
            BY <1>2, <1>8, <2>4
        <3> QED
            BY <2>1, <2>4, <3>1
    <2>5. CASE job.part = "lower" /\ job.at = 1
        <3>1. Matches(cmd, Rd("se", "RLMS95"))
            BY <1>2, <1>8, <2>5
        <3> QED
            BY <2>1, <2>5, <3>1
    <2> QED
        BY <2>2, <2>3, <2>4, <2>5
<1>10. NewAt > 1 => NewPart = job.part /\ job.at = NewAt - 1
    BY <1>2
<1>11. NewPart \notin {"detect", "init"} =>
         job.part \notin {"detect", "init"} \/ (job.part = "init" /\ job.at = 22)
    <2>1. job.part = "detect" => After(NewLocals) = "init"
        BY <1>2, AfterPart
    <2> QED
        BY <1>2, <1>8, <2>1
<1>12. NewPart \notin {"detect", "init"} \/ (NewPart = "init" /\ NewAt >= 4) => NewOrg = AmpOrg
    <2> SUFFICES ASSUME NewPart \notin {"detect", "init"} \/ (NewPart = "init" /\ NewAt >= 4)
                 PROVE  NewOrg = AmpOrg
        OBVIOUS
    <2>1. CASE cmd.op = "rd" /\ cmd.dev = "se" /\ cmd.reg = "REG01"
        <3>1. cmd_result.value = regs[<<"se", "REG01">>]
            BY <1>2, <1>4, <1>6, <2>1 DEF ReadInv
        <3>2. cmd_result.value <= 2
            BY <1>3, <3>1 DEF Clean
        <3> QED
            BY <2>1, <3>2 DEF NewOrg, SeAmp
    <2>2. CASE ~(cmd.op = "rd" /\ cmd.dev = "se" /\ cmd.reg = "REG01")
        <3>1. NewOrg = se_tx_amp_org
            BY <2>2 DEF NewOrg
        <3>2. ~(job.part = "init" /\ job.at = 3)
            BY <1>9, <2>2
        <3>3. job.part \notin {"detect", "init"} \/ (job.part = "init" /\ job.at >= 4)
            BY <1>2, <1>10, <1>11, <3>2
        <3> QED
            BY <1>4, <3>1, <3>3 DEF ValueInv
    <2> QED
        BY <2>1, <2>2
<1>13. NewPart = "init" /\ NewAt \in {18, 19} => NewLocals[<<"se", "RLMS95">>] = AmpOrg
    <2>1. /\ <<"se", "RLMS95">> \in Chips \X RegNames /\ <<"de", "RLMS95">> # <<"se", "RLMS95">>
          /\ locals \in [Chips \X RegNames -> Int]
        BY <1>1 DEF TypeOK, Registers, Chips, RegNames
    <2>2. CASE NewPart = "init" /\ NewAt = 18
        <3>1. job.part = "init" /\ job.at = 17
            BY <1>10, <2>2
        <3>2. cmd_result.value = regs[<<"se", "RLMS95">>]
            BY <1>2, <1>4, <1>6, <1>9, <3>1 DEF ReadInv
        <3>3. regs[<<"se", "RLMS95">>] = AmpOrg
            <4>1. InPart("init", 4)
                BY <1>6, <3>1
            <4> QED
                BY <1>4, <4>1 DEF AmpInv, SeReg
        <3> QED
            BY <1>9, <2>1, <3>1, <3>2, <3>3 DEF NewLocals
    <2>3. CASE NewPart = "init" /\ NewAt = 19
        <3>1. job.part = "init" /\ job.at = 18
            BY <1>10, <2>3
        <3>2. locals[<<"se", "RLMS95">>] = AmpOrg
            BY <1>4, <3>1 DEF ValueInv
        <3> QED
            BY <1>9, <2>1, <3>1, <3>2 DEF NewLocals
    <2> QED
        BY <2>2, <2>3
<1>14. NewPart = "lower" /\ NewAt = 2 =>
         /\ NewLocals[<<"se", "RLMS95">>] = SeReg
         /\ SeReg \in Int /\ AmpMin < Amp /\ Amp <= AmpOrg
    <2> SUFFICES ASSUME NewPart = "lower", NewAt = 2
                 PROVE  /\ NewLocals[<<"se", "RLMS95">>] = SeReg
                        /\ SeReg \in Int /\ AmpMin < Amp /\ Amp <= AmpOrg
        OBVIOUS
    <2>1. job.part = "lower" /\ job.at = 1
        BY <1>10
    <2>2. /\ <<"se", "RLMS95">> \in Chips \X RegNames
          /\ locals \in [Chips \X RegNames -> Int] /\ regs \in [Chips \X RegNames -> Int]
        BY <1>1 DEF TypeOK, Registers, Chips, RegNames
    <2>3. cmd_result.value = SeReg
        BY <1>2, <1>4, <1>6, <1>9, <2>1 DEF ReadInv, SeReg
    <2>4. ~InPart("lower", 2)
        BY <1>6, <2>1
    <2> QED
        BY <1>4, <1>9, <2>1, <2>2, <2>3, <2>4 DEF NewLocals, AmpInv, SeReg
<1>15. NewStep.op = "wr" => cmd'.value = Written(NewStep, NewLocals, NewOrg)
    BY <1>5
<1>16. NewPart = "init" /\ NewAt = 4 => cmd'.value = AmpOrg
    BY <1>8, <1>12, <1>15 DEF NewStep, Wr, Written
<1>17. NewPart = "init" /\ NewAt = 19 => cmd'.value = AmpOrg
    BY <1>8, <1>13, <1>15, Original DEF NewStep, Wr, Written
<1>18. NewPart = "init" /\ NewAt = 16 => cmd'.value = 0
    BY <1>8, <1>15 DEF NewStep, Wr, Written
<1>19. NewPart = "restore" /\ NewAt = 5 => cmd'.value = 0
    BY <1>8, <1>15 DEF NewStep, Wr, Written
<1>20. NewPart = "restore" /\ NewAt = 1 => cmd'.value = AmpOrg + Manual
    BY <1>8, <1>12, <1>15, Original DEF NewStep, Wr, Written
<1>21. NewPart = "lower" /\ NewAt = 2 =>
         /\ cmd'.value = job'.amp + Manual
         /\ AmpMin <= job'.amp /\ job'.amp < AmpOrg
    <2> SUFFICES ASSUME NewPart = "lower", NewAt = 2
                 PROVE  /\ cmd'.value = job'.amp + Manual
                        /\ AmpMin <= job'.amp /\ job'.amp < AmpOrg
        OBVIOUS
    <2>1. NewStep = Wr("se", "RLMS95", "lower")
        BY <1>8 DEF NewStep
    <2>2. job'.amp = Lowered(SeReg) /\ cmd'.value = OrManual(Lowered(SeReg))
        BY <1>5, <1>14, <1>15, <2>1 DEF Wr, Written
    <2>3. SeReg \in Int /\ SeReg % AmpMask > AmpMin /\ Amp = SeReg % AmpMask
        BY <1>14, Bounds DEF Amp
    <2>4. Lowered(SeReg) = (SeReg % AmpMask) - 1 /\ OrManual(Lowered(SeReg)) = Lowered(SeReg) + Manual
        BY <2>3, Lowering
    <2>5. Amp \in Int
        BY <2>3, Bounds, Modulo
    <2> QED
        BY <1>14, <2>2, <2>3, <2>4, <2>5, Bounds
<1> QED
    BY <1>5, <1>12, <1>13, <1>16, <1>17, <1>18, <1>19, <1>20, <1>21 DEF ValueInv

\* On a healthy bus: where the amplitude and the adaption are in the next step.
LEMMA NextAmplitude ==
    ASSUME ArmInv, NextMargin, Next, Clean', NewPart # "done"
    PROVE  AmpInv' /\ AdaptInv'
<1>1. TypeOK /\ MarginInv
    BY DEF ArmInv
<1>2. /\ pc = "next" /\ job.kind = "margin" /\ job.part \in PartNames
      /\ job.at \in 1..Len(Parts[job.part]) /\ Len(Parts[job.part]) \in Nat
      /\ NewAt \in Nat
      /\ \/ More /\ NewPart = job.part /\ NewAt = job.at + 1
         \/ /\ ~More /\ job.at = Len(Parts[job.part]) /\ NewAt = 1
            /\ NewPart = After(NewLocals)
    BY <1>1, CameFrom
<1>3. ValueInv /\ AmpInv /\ AdaptInv
    BY <1>1, <1>2, StaysClean DEF MarginInv
<1>4. /\ pc' = "write" /\ NewPart \in PartNames /\ NewAt \in 1..Len(Parts[NewPart])
      /\ job'.part = NewPart /\ job'.at = NewAt
      /\ ~(NewPart = "lower" /\ NewAt = 2) => job'.amp = job.amp
    BY <1>1, MarginStep
<1>5. regs' = regs /\ SeReg' = SeReg /\ Amp' = Amp
    BY DEF NextMargin, fwVars, SeReg, Amp
<1>6. /\ \A n : \A k \in Nat : InPart(n, k) <=> job.part = n /\ job.at >= k
      /\ \A n : \A k \in Nat : InPart(n, k)' <=> NewPart = n /\ NewAt > k
    BY <1>2, <1>4 DEF Served, InPart
<1>7. /\ Len(Parts.init) = 22 /\ Len(Parts.lower) = 6 /\ Len(Parts.restore) = 5
    BY InitPart, OtherParts, Zenon
<1>8. NewAt > 1 => NewPart = job.part /\ job.at = NewAt - 1
    BY <1>2
<1>9. NewAt = 1 => /\ ~More /\ job.at = Len(Parts[job.part])
                   /\ NewPart = After(NewLocals)
    BY <1>2
<1>10. NewAt = 1 \/ NewAt > 1
    BY <1>4
\* Where a part is left from, in instances of <1>6.
<1>11. /\ job.part = "init" /\ job.at = 22 => InPart("init", 4) /\ InPart("init", 16)
       /\ job.part = "lower" /\ job.at = 6 => InPart("lower", 2)
       /\ job.part = "restore" /\ job.at = 5 => InPart("restore", 1) /\ InPart("restore", 5)
    BY <1>6
<1>12. ~(NewPart = "lower" /\ NewAt = 2 /\ InPart("lower", 2)')
    BY <1>6
<1>13. NewAt = 1 => /\ job.part = "init" => job.at = 22
                    /\ job.part = "lower" => job.at = 6
                    /\ job.part = "restore" => job.at = 5
    BY <1>7, <1>9
<1>14. /\ AmpMin \in Nat /\ AmpOrg \in Nat /\ AmpMin < AmpOrg /\ job.amp \in Int /\ Amp \in Int
    <2>1. job.amp \in Int
        BY <1>1, <1>2, MarginJob DEF TypeOK
    <2>2. SeReg \in Int
        BY <1>1 DEF SeReg, TypeOK, Registers, Chips, RegNames
    <2>3. SeReg % AmpMask \in Int
        BY <2>2, Bounds, Modulo
    <2> QED
        BY <2>1, <2>3, Bounds DEF Amp
<1>15. AdaptInv'
    <2> SUFFICES ASSUME InPart("init", 16)' \/ InPart("restore", 5)' \/
                        NewPart \in {"lock", "complete"}
                 PROVE  regs[<<"de", "RLMS3">>] = 0
        BY <1>4, <1>5 DEF AdaptInv
    <2>1. CASE NewPart \in {"init", "restore"}
        <3>1. InPart("init", 16) \/ InPart("restore", 5)
            BY <1>2, <1>6, <1>8, <2>1
        <3> QED
            BY <1>3, <3>1 DEF AdaptInv
    <2>2. CASE NewPart \in {"lock", "complete"} /\ NewAt > 1
        BY <1>3, <1>8, <2>2 DEF AdaptInv
    <2>3. CASE NewPart \in {"lock", "complete"} /\ NewAt = 1
        <3>1. job.part \in {"init", "lock", "restore"}
            BY <1>2, <1>9, <2>3, AfterPart DEF PartNames
        <3>2. InPart("init", 16) \/ InPart("restore", 5) \/ job.part = "lock"
            BY <1>11, <1>13, <2>3, <3>1
        <3> QED
            BY <1>3, <3>2 DEF AdaptInv
    <2> QED
        BY <1>6, <1>10, <2>1, <2>2, <2>3
<1>16. InPart("init", 4)' \/ NewPart = "lock" => SeReg = AmpOrg
    <2>1. CASE InPart("init", 4)'
        <3>1. InPart("init", 4)
            BY <1>2, <1>6, <1>8, <2>1
        <3> QED
            BY <1>3, <3>1 DEF AmpInv
    <2>2. CASE NewPart = "lock" /\ NewAt > 1
        BY <1>3, <1>8, <2>2 DEF AmpInv
    <2>3. CASE NewPart = "lock" /\ NewAt = 1
        <3>1. job.part \in {"init", "lock"}
            BY <1>2, <1>9, <2>3, AfterPart DEF PartNames
        <3>2. InPart("init", 4) \/ job.part = "lock"
            BY <1>11, <1>13, <2>3, <3>1
        <3> QED
            BY <1>3, <3>2 DEF AmpInv
    <2> QED
        BY <1>10, <2>1, <2>2, <2>3
<1>17. NewPart = "lower" /\ ~InPart("lower", 2)' => AmpMin < Amp /\ Amp <= AmpOrg
    <2> SUFFICES ASSUME NewPart = "lower", ~InPart("lower", 2)'
                 PROVE  AmpMin < Amp /\ Amp <= AmpOrg
        OBVIOUS
    <2>1. CASE NewAt > 1
        <3>1. job.part = "lower" /\ ~InPart("lower", 2)
            BY <1>2, <1>4, <1>6, <1>8, <2>1
        <3> QED
            BY <1>3, <3>1 DEF AmpInv
    <2>2. CASE NewAt = 1
        <3>1. job.part = "lock" \/ (job.part = "count" /\ job.amp > AmpMin)
            BY <1>2, <1>9, <2>2, AfterPart DEF PartNames, GoesOn
        <3>2. CASE job.part = "lock"
            <4>1. SeReg = AmpOrg
                BY <1>3, <3>2 DEF AmpInv
            <4> QED
                BY <1>14, <4>1, Original DEF Amp
        <3>3. CASE job.part = "count" /\ job.amp > AmpMin
            BY <1>3, <1>14, <3>3 DEF AmpInv
        <3> QED
            BY <3>1, <3>2, <3>3
    <2> QED
        BY <1>10, <2>1, <2>2
<1>18. InPart("lower", 2)' \/ NewPart \in {"wait", "count"} \/
       (NewPart = "restore" /\ ~InPart("restore", 1)') =>
         Amp = job'.amp /\ AmpMin <= Amp /\ Amp < AmpOrg
    <2> SUFFICES ASSUME InPart("lower", 2)' \/ NewPart \in {"wait", "count"} \/
                        (NewPart = "restore" /\ ~InPart("restore", 1)')
                 PROVE  Amp = job'.amp /\ AmpMin <= Amp /\ Amp < AmpOrg
        OBVIOUS
    <2>1. ~(NewPart = "lower" /\ NewAt = 2)
        <3>1. CASE InPart("lower", 2)'
            BY <1>12, <3>1
        <3>2. CASE NewPart \in {"wait", "count"} \/ NewPart = "restore"
            BY <3>2
        <3> QED
            BY <3>1, <3>2
    <2>2. InPart("lower", 2) \/ job.part \in {"wait", "count"}
        <3>1. CASE NewPart = "lower"
            BY <1>2, <1>6, <1>8, <3>1
        <3>2. CASE NewPart \in {"wait", "count"} /\ NewAt > 1
            BY <1>8, <3>2
        <3>3. CASE NewPart \in {"wait", "count"} /\ NewAt = 1
            <4>1. job.part \in {"lower", "wait"}
                BY <1>2, <1>9, <3>3, AfterPart DEF PartNames
            <4> QED
                BY <1>11, <1>13, <3>3, <4>1
        <3>4. CASE NewPart = "restore"
            <4>1. NewAt = 1
                BY <1>6, <1>10, <3>4
            <4> QED
                BY <1>2, <1>9, <3>4, <4>1, AfterPart DEF PartNames
        <3> QED
            BY <1>6, <1>10, <3>1, <3>2, <3>3, <3>4
    <2> QED
        BY <1>3, <1>4, <2>1, <2>2 DEF AmpInv
<1>19. InPart("restore", 1)' \/ NewPart = "complete" => Amp = AmpOrg
    <2>1. CASE InPart("restore", 1)'
        <3>1. InPart("restore", 1)
            BY <1>2, <1>6, <1>8, <2>1
        <3> QED
            BY <1>3, <3>1 DEF AmpInv
    <2>2. CASE NewPart = "complete" /\ NewAt > 1
        BY <1>3, <1>8, <2>2 DEF AmpInv
    <2>3. CASE NewPart = "complete" /\ NewAt = 1
        <3>1. job.part \in {"lock", "restore"}
            BY <1>2, <1>9, <2>3, AfterPart DEF PartNames
        <3>2. CASE job.part = "lock"
            <4>1. SeReg = AmpOrg
                BY <1>3, <3>2 DEF AmpInv
            <4> QED
                BY <4>1, Original DEF Amp
        <3>3. CASE job.part = "restore"
            <4>1. InPart("restore", 1)
                BY <1>11, <1>13, <2>3, <3>3
            <4> QED
                BY <1>3, <4>1 DEF AmpInv
        <3> QED
            BY <3>1, <3>2, <3>3
    <2> QED
        BY <1>10, <2>1, <2>2, <2>3
<1>20. AmpInv'
    BY <1>4, <1>5, <1>16, <1>17, <1>18, <1>19 DEF AmpInv
<1> QED
    BY <1>15, <1>20

LEMMA NextMarginInv ==
    ASSUME ArmInv, Next, NextMargin
    PROVE  MarginInv'
<1>1. TypeOK /\ MarginInv
    BY DEF ArmInv
<1>2. CASE NewPart # "done"
    <2>1. /\ pc' = "write" /\ NewPart \in PartNames /\ NewAt \in 1..Len(Parts[NewPart])
          /\ cmd' = IF NewStep.op = "wr"
                    THEN [op |-> "wr", dev |-> NewStep.dev, reg |-> NewStep.reg,
                          value |-> Written(NewStep, NewLocals, NewOrg)]
                    ELSE NewStep
          /\ job'.part = NewPart /\ job'.at = NewAt
        BY <1>1, <1>2, MarginStep
    <2>2. Matches(cmd', NewStep)
        BY <2>1 DEF Matches
    <2>3. ReadInv'
        BY <2>1 DEF ReadInv, Served
    <2>4. Clean' => ValueInv' /\ AmpInv' /\ AdaptInv'
        BY <1>2, NextValues, NextAmplitude
    <2> QED
        BY <2>1, <2>2, <2>3, <2>4 DEF MarginInv, NewStep
<1>3. CASE NewPart = "done"
    <2>1. pc' = "idle" /\ UNCHANGED <<job, cmd>> /\ se_tx_amp_org' = NewOrg
        BY <1>1, <1>3, MarginStep
    <2>2. /\ pc = "next" /\ job.kind = "margin" /\ job.part \in PartNames
          /\ Matches(cmd, Parts[job.part][job.at])
          /\ job.at \in 1..Len(Parts[job.part])
          /\ NewPart = job.part \/ NewPart = After(NewLocals)
        BY <1>1, CameFrom
    <2>3. job.part = "complete"
        BY <1>3, <2>2, AfterPart DEF PartNames
    <2>4. ASSUME Clean' PROVE ReadInv' /\ ValueInv' /\ AmpInv' /\ AdaptInv'
        <3>1. ReadInv /\ ValueInv /\ AmpInv /\ AdaptInv
            BY <1>1, <2>2, <2>4, StaysClean DEF MarginInv
        <3>2. ReadInv'
            BY <2>1 DEF ReadInv, Served
        <3>3. NewOrg = se_tx_amp_org
            BY <2>2, <2>3, AccessAt DEF NewOrg, Matches
        <3>4. ValueInv'
            BY <2>1, <2>3, <3>1, <3>3 DEF ValueInv
        <3>5. regs' = regs
            BY DEF NextMargin, fwVars
        <3>6. AmpInv' /\ AdaptInv'
            BY <2>1, <2>3, <3>1, <3>5 DEF AmpInv, AdaptInv, InPart, SeReg, Amp
        <3> QED
            BY <3>2, <3>4, <3>6
    <2> QED
        BY <1>1, <2>1, <2>2, <2>3, <2>4 DEF MarginInv
<1> QED
    BY <1>2, <1>3

LEMMA NextMarginInvariant ==
    ASSUME ArmInv, [Next]_vars
    PROVE  MarginInv'
<1> SUFFICES ASSUME job'.kind = "margin" PROVE MarginInv'
    BY DEF MarginInv
<1>1. TypeOK /\ SendInv /\ MarginInv
    BY DEF ArmInv
<1>2. CASE UNCHANGED vars
    BY <1>1, <1>2 DEF MarginInv, ReadInv, ValueInv, AmpInv, AdaptInv, InPart, SeReg, Amp,
       Clean, Served, vars, jobVars, sendVars, mailVars, fwVars, auxVars
<1>3. ~NextBlock /\ ~NextElement /\ ~NextCmd
    <2>1. NextBlock => job'.kind = "file"
        BY <1>1, FileJob DEF NextBlock, TypeOK
    <2>2. NextElement => job'.kind = "table"
        BY <1>1, TableJob DEF NextElement, TypeOK
    <2>3. NextCmd => job'.kind = "cmd"
        BY DEF NextCmd, jobVars
    <2> QED
        BY <2>1, <2>2, <2>3
<1> QED
    BY <1>2, <1>3, StartMargin, SendMargin, AnswerMargin, NextMarginInv DEF Next, Tool

\* On a healthy bus the test stays within its limits.
LEMMA MarginIsSafe == ArmInv => MarginSafe
<1> SUFFICES ASSUME ArmInv, job.kind = "margin", Clean
             PROVE  /\ job.part \in {"lower", "wait", "count", "restore"} =>
                            Amp \in AmpMin..AmpOrg
                    /\ pc = "idle" => Amp = AmpOrg /\ regs[<<"de", "RLMS3">>] = 0
    BY DEF MarginSafe, Clean, Amp, SeReg
<1>1. TypeOK /\ MarginInv /\ AmpInv /\ AdaptInv
    BY DEF ArmInv, MarginInv
<1>2. Amp \in Int
    <2>1. SeReg \in Int
        BY <1>1 DEF SeReg, TypeOK, Registers, Chips, RegNames
    <2> QED
        BY <2>1, Bounds, Modulo DEF Amp
<1>3. job.part \in {"lower", "wait", "count", "restore"} => AmpMin <= Amp /\ Amp <= AmpOrg
    BY <1>1, <1>2, Bounds DEF AmpInv
<1>4. pc = "idle" => job.part = "complete"
    BY <1>1 DEF MarginInv
<1> QED
    BY <1>1, <1>2, <1>3, <1>4, Bounds DEF AmpInv, AdaptInv
-----------------------------------------------------------------------------
(* The theorems.                                                           *)

LEMMA ArmInvariance == Spec => []ArmInv
<1>1. Init => ArmInv
    BY InitType, InitSend, InitFile, InitTable, InitMargin DEF ArmInv
<1>2. ArmInv /\ [Next]_vars => ArmInv'
    BY NextType, NextSendInv, NextFileInv, NextTableInv, NextMarginInvariant DEF ArmInv
<1> QED
    BY <1>1, <1>2, PTL DEF Spec

\* The types of messages, programs, mailbox and registers hold in every run of
\* the tool (pcie_a53_rw, main()).
THEOREM ArmTypes == Spec => []TypeOK
<1>1. ArmInv => TypeOK
    BY DEF ArmInv
<1> QED
    BY <1>1, ArmInvariance, PTL

\* What send_cmd_to_a53_sync() reports as success is the answer to that message,
\* and the copy of it fits the buffer, for every poll limit and answer length.
THEOREM AnswersAreOwn == Spec => []AnswerIsOwn
BY OwnAnswer, ArmInvariance, PTL

\* The blocks of every file and the elements of every table reach the firmware
\* in order and complete, as send_file_to_a53_sync() and
\* element_channel_process() mean them.
THEOREM DeliversInOrder == Spec => []DeliveredInOrder
<1>1. ArmInv => DeliveredInOrder
    BY StoredInOrder, AppliedInOrder DEF DeliveredInOrder
<1> QED
    BY <1>1, ArmInvariance, PTL

\* link_margin_test() keeps the amplitude of a healthy link within its limits and
\* restores it, for every amplitude width and stop value.
THEOREM MarginStaysSafe == Spec => []MarginSafe
BY MarginIsSafe, ArmInvariance, PTL
=============================================================================
