-------------------------- MODULE XdmaDeviceProofs --------------------------
(***************************************************************************)
(* Proofs about XdmaDevice for any number of devices, channels, user       *)
(* interrupts, failures and probes, and any hardware: handlers have their  *)
(* engines, nodes their devices, and the unwinding is exact.               *)
(***************************************************************************)
EXTENDS XdmaDevice, SequenceTheorems, TLAPS

(* What a device does by itself.                                           *)
Step(d) == Probe(d) \/ Close(d) \/ Pci(d) \/ CtrlIoctl(d)

(* What takes it offline and online again.                                 *)
Admin(d) ==
    \/ ErrorDetected(d) \/ SlotReset(d) \/ ResetPrepare(d) \/ ResetDone(d)
    \/ CtrlIoctl(d)

(* What the invariant says of a device stays as it is.                     *)
Same(o) == UNCHANGED <<pc[o], held[o], cut[o], h2c_max[o], c2h_max[o], msi[o],
                       role[o], flags[o], major[o]>>
-----------------------------------------------------------------------------
(* Resources                                                               *)

(* The resources that there is one of.                                     *)
LEMMA SingleResources ==
    \A n \in {"xpdev", "xdev", "listed", "enabled", "regions", "vectors", "line",
              "region", "input"} : One(n) \in Resources /\ One(n) = <<n, 0>>
<1> QED
    BY DEF Resources, One

(* BARs, interrupts, engines and nodes are resources of their own kinds.   *)
LEMMA KindsOfResources ==
    /\ \A b \in 0..5 : <<"bar", b>> \in Resources
    /\ \A v \in Vectors : <<"irq", v>> \in Resources
    /\ \A c \in Cdevs : <<"cdev", c>> \in Resources
    /\ \A e \in Engines : \A r \in EngineResources(e) :
            /\ r \in Resources
            /\ r[1] \in {"ring", "wb", "result", "work", "armed"}
            /\ r[2] = e
            /\ r = <<r[1], e>>
    /\ \A r \in Irqs : r \in Resources /\ r[1] \in {"irq", "line"}
<1>1. \A b \in 0..5 : <<"bar", b>> \in Resources
    BY DEF Resources
<1>2. \A v \in Vectors : <<"irq", v>> \in Resources
    BY DEF Resources
<1>3. \A c \in Cdevs : <<"cdev", c>> \in Resources
    BY DEF Resources
<1>4. ASSUME NEW e \in Engines, NEW r \in EngineResources(e)
      PROVE  /\ r \in Resources
             /\ r[1] \in {"ring", "wb", "result", "work", "armed"}
             /\ r[2] = e
             /\ r = <<r[1], e>>
    BY <1>4 DEF Resources, EngineResources
<1>5. \A r \in Irqs : r \in Resources /\ r[1] \in {"irq", "line"}
    BY <1>2, SingleResources DEF Irqs, One
<1> QED
    BY <1>1, <1>2, <1>3, <1>4, <1>5

(* What Acquire() and Release() do.                                        *)
LEMMA AcquireEffect ==
    ASSUME TypeOK, NEW d \in Devices, NEW R, AcquireAll(d, R)
    PROVE  /\ held' \in [Devices -> [Resources -> Int]]
           /\ \A o \in Devices \ {d} : held'[o] = held[o]
           /\ \A r \in Resources :
                held'[d][r] = IF r \in R THEN held[d][r] + 1 ELSE held[d][r]
<1>1. held \in [Devices -> [Resources -> Int]]
    BY DEF TypeOK
<1>2. [r \in Resources |-> IF r \in R THEN held[d][r] + 1 ELSE held[d][r]]
        \in [Resources -> Int]
    BY <1>1
<1> QED
    BY <1>1, <1>2 DEF AcquireAll

LEMMA ReleaseEffect ==
    ASSUME TypeOK, NEW d \in Devices, NEW R, Release(d, R)
    PROVE  /\ held' \in [Devices -> [Resources -> Int]]
           /\ \A o \in Devices \ {d} : held'[o] = held[o]
           /\ \A r \in Resources :
                held'[d][r] = IF r \in R THEN held[d][r] - 1 ELSE held[d][r]
<1>1. held \in [Devices -> [Resources -> Int]]
    BY DEF TypeOK
<1>2. [r \in Resources |-> IF r \in R THEN held[d][r] - 1 ELSE held[d][r]]
        \in [Resources -> Int]
    BY <1>1
<1> QED
    BY <1>1, <1>2 DEF Release

(* Where a jump and a turn of a loop lead.                                 *)
LEMMA GotoEffect ==
    ASSUME TypeOK, NEW d \in Devices, NEW l \in Labels, Goto(d, l)
    PROVE  /\ pc' \in [Devices -> [at : Labels, i : Nat]]
           /\ \A o \in Devices \ {d} : pc'[o] = pc[o]
           /\ pc'[d].at = l /\ pc'[d].i = 0
    BY DEF TypeOK, Goto, At

LEMMA LoopEffect ==
    ASSUME TypeOK, NEW d \in Devices, Loop(d)
    PROVE  /\ pc' \in [Devices -> [at : Labels, i : Nat]]
           /\ \A o \in Devices \ {d} : pc'[o] = pc[o]
           /\ pc'[d].at = pc[d].at /\ pc'[d].i = pc[d].i + 1
<1>1. pc[d] \in [at : Labels, i : Nat] /\ pc \in [Devices -> [at : Labels, i : Nat]]
    BY DEF TypeOK
<1>2. pc' = [pc EXCEPT ![d] = [pc[d] EXCEPT !.i = pc[d].i + 1]]
    BY DEF Loop
<1>3. [pc[d] EXCEPT !.i = pc[d].i + 1] \in [at : Labels, i : Nat]
    BY <1>1
<1> QED
    BY <1>1, <1>2, <1>3

(* What is noted is added to the notes of this device, and a charge keeps  *)
(* to the bound.                                                           *)
LEMMA NoteEffect ==
    ASSUME TypeOK, NEW d \in Devices, NEW W \in SUBSET (CutKinds \X Nat), Note(d, W)
    PROVE  /\ cut' \in [Devices -> SUBSET (CutKinds \X Nat)]
           /\ \A o \in Devices \ {d} : cut'[o] = cut[o]
           /\ cut'[d] = cut[d] \cup W
    BY DEF TypeOK, Note

LEMMA ChargeEffect == TypeOK /\ Charge => fails' \in 0..MaxFails
    BY BoundsAssumption DEF TypeOK, Charge

(* A failure is added to those of this device.                             *)
LEMMA FailsEffect ==
    ASSUME TypeOK, NEW d \in Devices, NEW w \in CutKinds \X Nat, Fails(d, w)
    PROVE  /\ cut' \in [Devices -> SUBSET (CutKinds \X Nat)]
           /\ \A o \in Devices \ {d} : cut'[o] = cut[o]
           /\ cut'[d] = cut[d] \cup {w}
           /\ fails' \in 0..MaxFails
    BY NoteEffect, ChargeEffect DEF Fails

-----------------------------------------------------------------------------
(* The character devices of a device                                       *)

(* A sequence of different character devices of the kinds K.               *)
Nodes(s, K) ==
    /\ s \in Seq(Cdevs)
    /\ \A i \in 1..Len(s) : s[i][1] \in K
    /\ \A i, j \in 1..Len(s) : s[i] = s[j] => i = j

LEMMA NodesConcat ==
    ASSUME NEW s, NEW t, NEW K, NEW L, Nodes(s, K), Nodes(t, L), K \cap L = {}
    PROVE  Nodes(s \o t, K \cup L)
<1>1. s \in Seq(Cdevs) /\ t \in Seq(Cdevs) /\ Len(s) \in Nat /\ Len(t) \in Nat
    BY DEF Nodes
<1>2. /\ s \o t \in Seq(Cdevs)
      /\ Len(s \o t) = Len(s) + Len(t)
      /\ \A i \in 1..(Len(s) + Len(t)) :
            (s \o t)[i] = IF i <= Len(s) THEN s[i] ELSE t[i - Len(s)]
    BY <1>1
<1>3. ASSUME NEW i \in 1..Len(s \o t)
      PROVE  /\ i <= Len(s) => (s \o t)[i][1] \in K
             /\ i > Len(s) => (s \o t)[i][1] \in L
    BY <1>1, <1>2 DEF Nodes
<1>4. ASSUME NEW i \in 1..Len(s \o t), NEW j \in 1..Len(s \o t),
             (s \o t)[i] = (s \o t)[j]
      PROVE  i = j
    <2>1. i <= Len(s) <=> j <= Len(s)
        BY <1>1, <1>2, <1>3, <1>4
    <2>2. CASE i <= Len(s)
        BY <1>1, <1>2, <1>4, <2>1, <2>2 DEF Nodes
    <2>3. CASE i > Len(s)
        <3>1. i - Len(s) \in 1..Len(t) /\ j - Len(s) \in 1..Len(t)
            BY <1>1, <1>2, <2>1, <2>3
        <3>2. t[i - Len(s)] = t[j - Len(s)]
            BY <1>1, <1>2, <1>4, <2>1, <2>3
        <3>3. i - Len(s) = j - Len(s)
            BY <3>1, <3>2 DEF Nodes
        <3> QED
            BY <1>1, <3>3
    <2> QED
        BY <1>1, <1>2, <2>2, <2>3
<1> QED
    BY <1>1, <1>2, <1>3, <1>4 DEF Nodes

LEMMA NodesAll ==
    ASSUME NEW kind \in CdevKinds, NEW n \in Nat, n <= Channels \/ n <= UserIrqs
    PROVE  Nodes(All(kind, n), {kind}) /\ Len(All(kind, n)) = n
<1>1. ASSUME NEW i \in 1..n
      PROVE  <<kind, i - 1>> \in Cdevs
    BY CountsAssumption DEF Cdevs
<1>2. All(kind, n) \in Seq(Cdevs) /\ Len(All(kind, n)) = n
    BY <1>1 DEF All
<1>3. ASSUME NEW i \in 1..n
      PROVE  All(kind, n)[i] = <<kind, i - 1>>
    BY DEF All
<1> QED
    BY <1>2, <1>3 DEF Nodes

LEMMA NodesOne ==
    ASSUME NEW kind \in CdevKinds
    PROVE  Nodes(<< <<kind, 0>> >>, {kind})
<1>1. <<kind, 0>> \in Cdevs
    BY CountsAssumption DEF Cdevs
<1> QED
    BY <1>1 DEF Nodes

(* The control device is the first of them.                                *)
Starts(s) ==
    /\ Len(s) >= 1
    /\ s[1] = <<"ctrl", 0>>
    /\ \A i \in 2..Len(s) : s[i][1] # "ctrl"

LEMMA NodesGrow ==
    ASSUME NEW s, NEW t, NEW K, NEW L, Nodes(s, K), Starts(s), Nodes(t, L),
           K \cap L = {}, "ctrl" \notin L
    PROVE  Nodes(s \o t, K \cup L) /\ Starts(s \o t)
<1>1. s \in Seq(Cdevs) /\ t \in Seq(Cdevs) /\ Len(s) \in Nat /\ Len(t) \in Nat
    BY DEF Nodes
<1>2. /\ Len(s \o t) = Len(s) + Len(t)
      /\ \A i \in 1..(Len(s) + Len(t)) :
            (s \o t)[i] = IF i <= Len(s) THEN s[i] ELSE t[i - Len(s)]
    BY <1>1
<1>3. (s \o t)[1] = <<"ctrl", 0>> /\ Len(s \o t) >= 1
    BY <1>1, <1>2 DEF Starts
<1>4. ASSUME NEW i \in 2..Len(s \o t)
      PROVE  (s \o t)[i][1] # "ctrl"
    <2>1. CASE i <= Len(s)
        BY <1>1, <1>2, <2>1 DEF Starts
    <2>2. CASE i > Len(s)
        <3>1. i - Len(s) \in 1..Len(t) /\ (s \o t)[i] = t[i - Len(s)]
            BY <1>1, <1>2, <2>2
        <3> QED
            BY <3>1 DEF Nodes
    <2> QED
        BY <1>1, <1>2, <2>1, <2>2
<1> QED
    BY <1>3, <1>4, NodesConcat DEF Starts

(* What xpdev_create_interfaces() makes with h and c channels and the BARs *)
(* x.                                                                      *)
NodeSeq(h, c, x) ==
    <<<<"ctrl", 0>>>> \o All("event", UserIrqs)
    \o All("h2c", h) \o All("c2h", c)
    \o (IF x.bypass > 0
        THEN All("bp_h2c", h) \o All("bp_c2h", c) \o <<<<"bypass", 0>>>>
        ELSE <<>>)
    \o (IF x.user >= 0 THEN <<<<"user", 0>>, <<"xvc", 0>>>> ELSE <<>>)

(* They are different devices, the control device first.                   *)
LEMMA NodeSeqFacts ==
    ASSUME NEW h \in 0..Channels, NEW c \in 0..Channels, NEW x
    PROVE  /\ NodeSeq(h, c, x) \in Seq(Cdevs)
           /\ Len(NodeSeq(h, c, x)) \in Nat \ {0}
           /\ \A i, j \in 1..Len(NodeSeq(h, c, x)) :
                NodeSeq(h, c, x)[i] = NodeSeq(h, c, x)[j] => i = j
           /\ NodeSeq(h, c, x)[1] = <<"ctrl", 0>>
           /\ \A i \in 2..Len(NodeSeq(h, c, x)) : NodeSeq(h, c, x)[i][1] # "ctrl"
<1> DEFINE ctrl == << <<"ctrl", 0>> >>
           bp == IF x.bypass > 0
                 THEN (All("bp_h2c", h) \o All("bp_c2h", c)) \o << <<"bypass", 0>> >>
                 ELSE <<>>
           us == IF x.user >= 0 THEN << <<"user", 0>>, <<"xvc", 0>> >> ELSE <<>>
           K1 == {"ctrl"} \cup {"event"}
           K2 == K1 \cup {"h2c"}
           K3 == K2 \cup {"c2h"}
           K4 == K3 \cup {"bp_h2c", "bp_c2h", "bypass"}
           K5 == K4 \cup {"user", "xvc"}
           s1 == ctrl \o All("event", UserIrqs)
           s2 == s1 \o All("h2c", h)
           s3 == s2 \o All("c2h", c)
           s4 == s3 \o bp
           s5 == s4 \o us
<1>1. h \in Nat /\ h <= Channels /\ c \in Nat /\ c <= Channels /\ UserIrqs \in Nat
    BY CountsAssumption
<1>2. /\ Nodes(All("event", UserIrqs), {"event"})
      /\ Nodes(All("h2c", h), {"h2c"}) /\ Nodes(All("c2h", c), {"c2h"})
      /\ Nodes(All("bp_h2c", h), {"bp_h2c"}) /\ Nodes(All("bp_c2h", c), {"bp_c2h"})
    BY <1>1, NodesAll DEF CdevKinds
<1>3. Nodes(<< <<"bypass", 0>> >>, {"bypass"}) /\ Nodes(ctrl, {"ctrl"})
    BY NodesOne DEF CdevKinds
<1>4. Starts(ctrl)
    BY DEF Starts
<1>5. Nodes(bp, {"bp_h2c", "bp_c2h", "bypass"})
    <2>1. Nodes(All("bp_h2c", h) \o All("bp_c2h", c), {"bp_h2c"} \cup {"bp_c2h"})
        BY <1>2, NodesConcat, {"bp_h2c"} \cap {"bp_c2h"} = {}
    <2>2. Nodes((All("bp_h2c", h) \o All("bp_c2h", c)) \o << <<"bypass", 0>> >>,
                ({"bp_h2c"} \cup {"bp_c2h"}) \cup {"bypass"})
        BY <1>3, <2>1, NodesConcat, ({"bp_h2c"} \cup {"bp_c2h"}) \cap {"bypass"} = {}
    <2>3. Nodes(<<>>, {"bp_h2c", "bp_c2h", "bypass"})
        BY DEF Nodes
    <2>4. ({"bp_h2c"} \cup {"bp_c2h"}) \cup {"bypass"} = {"bp_h2c", "bp_c2h", "bypass"}
        OBVIOUS
    <2> QED
        BY <2>2, <2>3, <2>4
<1>6. Nodes(us, {"user", "xvc"})
    <2>1. <<"user", 0>> \in Cdevs /\ <<"xvc", 0>> \in Cdevs
        BY CountsAssumption DEF Cdevs, CdevKinds
    <2>2. Nodes(<< <<"user", 0>>, <<"xvc", 0>> >>, {"user", "xvc"})
        BY <2>1 DEF Nodes
    <2>3. Nodes(<<>>, {"user", "xvc"})
        BY DEF Nodes
    <2> QED
        BY <2>2, <2>3
<1> HIDE DEF ctrl, bp, us, s1, s2, s3, s4, s5
<1>7. Nodes(s1, K1) /\ Starts(s1)
    BY <1>2, <1>3, <1>4, NodesGrow, {"ctrl"} \cap {"event"} = {} DEF s1
<1>8. Nodes(s2, K2) /\ Starts(s2)
    BY <1>2, <1>7, NodesGrow, K1 \cap {"h2c"} = {} DEF s2
<1>9. Nodes(s3, K3) /\ Starts(s3)
    BY <1>2, <1>8, NodesGrow, K2 \cap {"c2h"} = {} DEF s3
<1>10. Nodes(s4, K4) /\ Starts(s4)
    BY <1>5, <1>9, NodesGrow, K3 \cap {"bp_h2c", "bp_c2h", "bypass"} = {} DEF s4
<1>11. Nodes(s5, K5) /\ Starts(s5)
    BY <1>6, <1>10, NodesGrow, K4 \cap {"user", "xvc"} = {} DEF s5
<1>12. NodeSeq(h, c, x) = s5
    BY DEF NodeSeq, ctrl, bp, us, s1, s2, s3, s4, s5
<1> QED
    BY <1>11, <1>12 DEF Nodes, Starts

LEMMA CdevSeqIs ==
    ASSUME NEW d \in Devices
    PROVE  /\ CdevSeq(d) = NodeSeq(h2c_max[d], c2h_max[d], role[d])
           /\ CdevSeq(d)' = NodeSeq(h2c_max'[d], c2h_max'[d], role'[d])
<1>1. CdevSeq(d) = NodeSeq(h2c_max[d], c2h_max[d], role[d])
    BY DEF CdevSeq, NodeSeq
<1>2. CdevSeq(d)' = NodeSeq(h2c_max'[d], c2h_max'[d], role'[d])
    BY DEF CdevSeq, NodeSeq, All
<1> QED
    BY <1>1, <1>2

LEMMA CdevSeqFacts ==
    ASSUME TypeOK, NEW d \in Devices
    PROVE  /\ CdevSeq(d) \in Seq(Cdevs)
           /\ Len(CdevSeq(d)) \in Nat \ {0}
           /\ \A i, j \in 1..Len(CdevSeq(d)) : CdevSeq(d)[i] = CdevSeq(d)[j] => i = j
           /\ CdevSeq(d)[1] = <<"ctrl", 0>>
           /\ \A i \in 2..Len(CdevSeq(d)) : CdevSeq(d)[i][1] # "ctrl"
<1> DEFINE h == h2c_max[d]
           c == c2h_max[d]
           x == role[d]
<1>1. h \in 0..Channels /\ c \in 0..Channels
    BY DEF TypeOK
<1>2. CdevSeq(d) = NodeSeq(h, c, x)
    BY CdevSeqIs
<1> HIDE DEF h, c, x
<1> QED
    BY <1>1, <1>2, NodeSeqFacts

Groups == {"ctrl", "event", "SG", "BYPASS", "user", "xvc"}

(* The flags of the groups: none at first, that of the control device from *)
(* then on, all in the end.                                                *)
LEMMA FlagsFacts ==
    ASSUME TypeOK, NEW d \in Devices
    PROVE  /\ \A n \in 0..Len(CdevSeq(d)) : FlagsAfter(d, n) \subseteq Groups
           /\ FlagsAfter(d, 0) = {}
           /\ \A n \in 1..Len(CdevSeq(d)) : "ctrl" \in FlagsAfter(d, n)
           /\ \A i \in 1..Len(CdevSeq(d)) :
                Group(CdevSeq(d)[i]) \in FlagsAfter(d, Len(CdevSeq(d)))
<1> DEFINE s == CdevSeq(d)
<1>1. /\ s \in Seq(Cdevs) /\ Len(s) \in Nat \ {0} /\ s[1] = <<"ctrl", 0>>
      /\ \A i \in 2..Len(s) : s[i][1] # "ctrl"
    BY CdevSeqFacts
<1> HIDE DEF s
<1>2. ASSUME NEW c \in Cdevs
      PROVE  Group(c) \in Groups /\ (c[1] # "ctrl" => Group(c) # "ctrl")
    <2>1. c[1] \in CdevKinds
        BY DEF Cdevs
    <2> QED
        BY <2>1 DEF Group, Groups, CdevKinds
<1>3. Group(s[1]) = "ctrl"
    BY <1>1 DEF Group
<1>4. \A i \in 1..Len(s) : s[i] \in Cdevs /\ Group(s[i]) \in Groups
    BY <1>1, <1>2
<1>5. \A i \in 2..Len(s) : Group(s[i]) # "ctrl"
    BY <1>1, <1>2, <1>4
<1>6. \A n : FlagsAfter(d, n) = {Group(s[i]) : i \in 1..n}
                                \ {Group(s[i]) : i \in (n + 1)..Len(s)}
    BY DEF FlagsAfter, s
<1>7. ASSUME NEW n \in 0..Len(s)
      PROVE  FlagsAfter(d, n) \subseteq Groups
    BY <1>1, <1>4, <1>6
<1>8. FlagsAfter(d, 0) = {}
    BY <1>6
<1>9. ASSUME NEW n \in 1..Len(s)
      PROVE  "ctrl" \in FlagsAfter(d, n)
    BY <1>1, <1>3, <1>5, <1>6
<1>10. ASSUME NEW i \in 1..Len(s)
       PROVE  Group(s[i]) \in FlagsAfter(d, Len(s))
    BY <1>1, <1>6
<1> QED
    BY <1>7, <1>8, <1>9, <1>10 DEF s

(* No failure of a kind.                                                   *)
LEMMA NoCut ==
    ASSUME NEW d \in Devices, NEW kind
    PROVE  CutAt(d, kind) = {} <=> \A x \in cut[d] : x[1] # kind
    BY DEF CutAt

(* What new failures add to those of a kind.                               *)
LEMMA CutGrows ==
    ASSUME NEW d \in Devices, NEW kind, NEW W, cut'[d] = cut[d] \cup W
    PROVE  /\ CutAt(d, kind) \subseteq CutAt(d, kind)'
           /\ (\A w \in W : w[1] # kind) => CutAt(d, kind)' = CutAt(d, kind)
           /\ \A k : W = {<<kind, k>>} => CutAt(d, kind)' = CutAt(d, kind) \cup {k}
<1>1. CutAt(d, kind) \subseteq CutAt(d, kind)'
    BY DEF CutAt
<1>2. ASSUME \A w \in W : w[1] # kind
      PROVE  CutAt(d, kind)' = CutAt(d, kind)
    <2>1. {x \in cut'[d] : x[1] = kind} = {x \in cut[d] : x[1] = kind}
        BY <1>2
    <2> QED
        BY <2>1 DEF CutAt
<1>3. ASSUME NEW k, W = {<<kind, k>>}
      PROVE  CutAt(d, kind)' = CutAt(d, kind) \cup {k}
    <2>1. {x \in cut'[d] : x[1] = kind} = {x \in cut[d] : x[1] = kind} \cup {<<kind, k>>}
        BY <1>3
    <2>2. \A x \in {<<kind, k>>} : x[2] = k
        OBVIOUS
    <2>3. CutAt(d, kind)' = {c[2] : c \in {x \in cut[d] : x[1] = kind} \cup {<<kind, k>>}}
        BY <2>1 DEF CutAt
    <2> QED
        BY <2>2, <2>3 DEF CutAt
<1> QED
    BY <1>1, <1>2, <1>3
-----------------------------------------------------------------------------
(* The steps of a device are its own, and keep the types                   *)

Local(d) ==
    /\ TypeOK'
    /\ \A o \in Devices \ {d} : Same(o)
    /\ UNCHANGED <<hw, poll_mode>>

BarSet == [bar : 0..5, kind : BarKinds]

LEMMA LayoutFacts ==
    ASSUME TypeOK, NEW d \in Devices
    PROVE  /\ Bars(d) \in Seq(BarSet)
           /\ Len(Bars(d)) \in Nat
           /\ \A i \in 1..Len(Bars(d)) : Bars(d)[i].bar \in 0..5
           /\ \A i, j \in 1..Len(Bars(d)) : Bars(d)[i].bar = Bars(d)[j].bar => i = j
<1>1. hw[d] \in Layouts[d] /\ hw[d] \in LayoutSet
    BY LayoutsAssumption DEF TypeOK
<1>2. Bars(d) \in Seq(BarSet)
    BY <1>1 DEF LayoutSet, Bars, BarSet
<1>3. ASSUME NEW i \in 1..Len(Bars(d))
      PROVE  Bars(d)[i].bar \in 0..5
    <2>1. Bars(d)[i] \in BarSet
        BY <1>2
    <2> QED
        BY <2>1 DEF BarSet
<1>4. \A i, j \in 1..Len(Bars(d)) : i < j => Bars(d)[i].bar < Bars(d)[j].bar
    BY <1>1, BarsAssumption DEF Bars
<1>5. Len(Bars(d)) \in Nat
    BY <1>2
<1>6. ASSUME NEW i \in 1..Len(Bars(d)), NEW j \in 1..Len(Bars(d)),
             Bars(d)[i].bar = Bars(d)[j].bar
      PROVE  i = j
    <2>1. i \in Int /\ j \in Int /\ Bars(d)[i].bar \in Int /\ Bars(d)[j].bar \in Int
        BY <1>3, <1>5
    <2> QED
        BY <1>4, <1>6, <2>1
<1> QED
    BY <1>2, <1>3, <1>5, <1>6

(* The parts of that.                                                      *)
Moved(d) ==
    /\ pc' \in [Devices -> [at : Labels, i : Nat]]
    /\ \A o \in Devices \ {d} : pc'[o] = pc[o]

Charged(d) ==
    /\ held' \in [Devices -> [Resources -> Int]]
    /\ \A o \in Devices \ {d} : held'[o] = held[o]

Noted(d) ==
    /\ fails' \in 0..MaxFails
    /\ cut' \in [Devices -> SUBSET (CutKinds \X Nat)]
    /\ \A o \in Devices \ {d} : cut'[o] = cut[o]

Shared ==
    /\ xdev_list' \in Seq(Devices) /\ idx' \in [Devices -> Nat]
    /\ threads' \in BOOLEAN /\ in_use' \in [Devices -> BOOLEAN]
    /\ probes' \in 0..MaxProbes
    /\ region' \in [Majors -> Devices \cup {NoDevice}]

Fields(d) ==
    /\ h2c_max' \in [Devices -> 0..Channels] /\ c2h_max' \in [Devices -> 0..Channels]
    /\ msi' \in [Devices -> {"msix", "msi", "none"}]
    /\ role' \in [Devices -> [config : -1..5, user : -1..5, bypass : -1..5]]
    /\ major' \in [Devices -> Majors \cup {0}]
    /\ flags' \in [Devices -> SUBSET {"ctrl", "event", "SG", "BYPASS", "user", "xvc"}]
    /\ \A o \in Devices \ {d} :
            UNCHANGED <<h2c_max[o], c2h_max[o], msi[o], role[o], major[o], flags[o]>>

LEMMA LocalParts ==
    ASSUME TypeOK, NEW d \in Devices, Moved(d), Charged(d), Noted(d), Shared, Fields(d),
           UNCHANGED <<module, class, hw, poll_mode>>
    PROVE  Local(d)
<1>1. TypeOK'
    BY DEF TypeOK, Moved, Charged, Noted, Shared, Fields
<1>2. \A o \in Devices \ {d} : Same(o)
    BY DEF Moved, Charged, Noted, Fields, Same
<1> QED
    BY <1>1, <1>2 DEF Local

LEMMA GotoMoves ==
    ASSUME TypeOK, NEW d \in Devices, NEW l \in Labels, Goto(d, l)
    PROVE  Moved(d)
    BY GotoEffect DEF Moved

LEMMA LoopMoves ==
    ASSUME TypeOK, NEW d \in Devices, Loop(d)
    PROVE  Moved(d)
    BY LoopEffect DEF Moved

LEMMA AcquireCharges ==
    ASSUME TypeOK, NEW d \in Devices, NEW R, AcquireAll(d, R)
    PROVE  Charged(d)
    BY AcquireEffect DEF Charged

LEMMA ReleaseCharges ==
    ASSUME TypeOK, NEW d \in Devices, NEW R, Release(d, R)
    PROVE  Charged(d)
    BY ReleaseEffect DEF Charged

LEMMA KeepCharges ==
    ASSUME TypeOK, NEW d \in Devices, UNCHANGED held
    PROVE  Charged(d)
    BY DEF Charged, TypeOK

LEMMA FailsNotes ==
    ASSUME TypeOK, NEW d \in Devices, NEW w \in CutKinds \X Nat, Fails(d, w)
    PROVE  Noted(d)
    BY FailsEffect DEF Noted

LEMMA ChargeNotes ==
    ASSUME TypeOK, NEW d \in Devices, NEW W \in SUBSET (CutKinds \X Nat), Charge,
           Note(d, W)
    PROVE  Noted(d)
    BY NoteEffect, ChargeEffect DEF Noted

LEMMA SucceedsNotes ==
    ASSUME TypeOK, NEW d \in Devices, UNCHANGED <<fails, cut>>
    PROVE  Noted(d)
    BY DEF Noted, TypeOK

LEMMA KeepShared ==
    ASSUME TypeOK, UNCHANGED <<xdev_list, idx, threads, in_use, probes, region>>
    PROVE  Shared
    BY DEF Shared, TypeOK

LEMMA KeepFields ==
    ASSUME TypeOK, NEW d \in Devices,
           UNCHANGED <<h2c_max, c2h_max, msi, role, major, flags>>
    PROVE  Fields(d)
    BY DEF Fields, TypeOK

LEMMA OneNamed == \A n \in CutKinds : One(n) \in CutKinds \X Nat
    BY DEF One

LEMMA OpenLocal ==
    ASSUME TypeOK, NEW d \in Devices,
           \/ ProbeAlloc(d) \/ ListAdd(d) \/ EnableDevice(d) \/ RequestRegions(d)
           \/ SetDmaMask(d) \/ EnableMsi(d) \/ MsixIrq(d) \/ MsixIrqEnd(d)
           \/ LineIrq(d) \/ Online(d)
    PROVE  Local(d)
<1> USE DEF modVars, boundVars, devVars, listVars, cdevVars
<1>1. CASE ProbeAlloc(d)
    <2>1. Moved(d)
        BY <1>1, GotoMoves DEF ProbeAlloc, Labels
    <2>2. Charged(d)
        <3>1. held \in [Devices -> [Resources -> Int]]
            BY DEF TypeOK
        <3> DEFINE g == [held[d] EXCEPT ![One("input")] = 0, ![One("xpdev")] = 1,
                                        ![One("xdev")] = 1]
        <3>2. g \in [Resources -> Int]
            <4>1. \A f \in [Resources -> Int] : \A r : \A n \in Int :
                    [f EXCEPT ![r] = n] \in [Resources -> Int]
                OBVIOUS
            <4>2. [held[d] EXCEPT ![One("input")] = 0] \in [Resources -> Int]
                BY <3>1, <4>1
            <4>3. [[held[d] EXCEPT ![One("input")] = 0] EXCEPT ![One("xpdev")] = 1]
                    \in [Resources -> Int]
                BY <4>1, <4>2
            <4> QED
                BY <4>1, <4>3
        <3>3. held' = [held EXCEPT ![d] = g]
            BY <1>1 DEF ProbeAlloc
        <3> HIDE DEF g
        <3> QED
            BY <3>1, <3>2, <3>3 DEF Charged
    <2>3. Noted(d)
        BY <1>1 DEF ProbeAlloc, Noted, TypeOK
    <2>4. Shared
        BY <1>1, BoundsAssumption DEF ProbeAlloc, Shared, TypeOK
    <2>5. Fields(d)
        BY <1>1, CountsAssumption DEF ProbeAlloc, Fields, TypeOK, NoRole
    <2> QED
        BY <1>1, <2>1, <2>2, <2>3, <2>4, <2>5, LocalParts DEF ProbeAlloc
<1>2. CASE ListAdd(d)
    <2>1. Moved(d)
        BY <1>2, GotoMoves DEF ListAdd, Labels
    <2>2. Charged(d)
        BY <1>2, AcquireCharges, KeepCharges DEF ListAdd, Acquire
    <2>3. Noted(d)
        <3>1. One("threads") \in CutKinds \X Nat
            BY OneNamed DEF CutKinds
        <3>2. UNCHANGED <<fails, cut>> \/ Fails(d, One("threads"))
            BY <1>2 DEF ListAdd, Succeeds
        <3> QED
            BY <3>1, <3>2, FailsNotes, SucceedsNotes
    <2>4. NextIdx \in Nat
        <3>1. xdev_list \in Seq(Devices) /\ idx \in [Devices -> Nat]
            BY DEF TypeOK
        <3>2. xdev_list # <<>> => xdev_list[Len(xdev_list)] \in Devices
            BY <3>1
        <3> QED
            BY <3>1, <3>2 DEF NextIdx, Last
    <2>5. Shared
        <3>1. xdev_list' \in Seq(Devices)
            <4>1. xdev_list' = Append(xdev_list, d) \/ xdev_list' = xdev_list
                BY <1>2 DEF ListAdd
            <4>2. xdev_list \in Seq(Devices)
                BY DEF TypeOK
            <4> QED
                BY <4>1, <4>2
        <3>3. threads' \in BOOLEAN
            BY <1>2, Zenon DEF ListAdd, TypeOK
        <3>2. idx' \in [Devices -> Nat]
            BY <1>2, <2>4 DEF ListAdd, TypeOK
        <3> QED
            BY <1>2, <3>1, <3>2, <3>3 DEF ListAdd, Shared, TypeOK
    <2>6. Fields(d)
        BY <1>2, KeepFields DEF ListAdd
    <2> QED
        BY <1>2, <2>1, <2>2, <2>3, <2>5, <2>6, LocalParts DEF ListAdd
<1>3. CASE EnableDevice(d)
    <2>1. Moved(d)
        BY <1>3, GotoMoves DEF EnableDevice, Labels
    <2>2. Charged(d)
        BY <1>3, AcquireCharges, KeepCharges DEF EnableDevice, Acquire
    <2>3. Noted(d)
        BY <1>3, FailsNotes, SucceedsNotes, OneNamed DEF EnableDevice, Succeeds, CutKinds
    <2>4. Shared /\ Fields(d)
        BY <1>3, KeepShared, KeepFields DEF EnableDevice
    <2> QED
        BY <1>3, <2>1, <2>2, <2>3, <2>4, LocalParts DEF EnableDevice
<1>4. CASE RequestRegions(d)
    <2>1. Moved(d)
        BY <1>4, GotoMoves DEF RequestRegions, Labels
    <2>2. Charged(d)
        BY <1>4, AcquireCharges, KeepCharges DEF RequestRegions, Acquire
    <2>3. Noted(d)
        BY <1>4, FailsNotes, SucceedsNotes, OneNamed DEF RequestRegions, Succeeds, CutKinds
    <2>4. Shared
        BY <1>4 DEF RequestRegions, Shared, TypeOK
    <2>5. Fields(d)
        BY <1>4, KeepFields DEF RequestRegions
    <2> QED
        BY <1>4, <2>1, <2>2, <2>3, <2>4, <2>5, LocalParts DEF RequestRegions
<1>5. CASE SetDmaMask(d)
    <2>1. Moved(d)
        BY <1>5, GotoMoves DEF SetDmaMask, Labels
    <2>2. Charged(d)
        BY <1>5, KeepCharges DEF SetDmaMask
    <2>3. Noted(d)
        BY <1>5, FailsNotes, SucceedsNotes, OneNamed DEF SetDmaMask, Succeeds, CutKinds
    <2>4. Shared /\ Fields(d)
        BY <1>5, KeepShared, KeepFields DEF SetDmaMask
    <2> QED
        BY <1>5, <2>1, <2>2, <2>3, <2>4, LocalParts DEF SetDmaMask
<1>6. CASE EnableMsi(d)
    <2>1. Moved(d)
        BY <1>6, GotoMoves DEF EnableMsi, Labels
    <2>2. Charged(d)
        BY <1>6, AcquireCharges, KeepCharges DEF EnableMsi, Acquire
    <2>3. Noted(d)
        BY <1>6, FailsNotes, SucceedsNotes, OneNamed DEF EnableMsi, Succeeds, CutKinds
    <2>4. Shared
        BY <1>6, KeepShared DEF EnableMsi
    <2>5. Fields(d)
        BY <1>6 DEF EnableMsi, Fields, TypeOK
    <2> QED
        BY <1>6, <2>1, <2>2, <2>3, <2>4, <2>5, LocalParts DEF EnableMsi
<1>7. CASE MsixIrq(d)
    <2>1. Moved(d)
        BY <1>7, GotoMoves, LoopMoves DEF MsixIrq, Labels
    <2>2. Charged(d)
        BY <1>7, AcquireCharges, ReleaseCharges DEF MsixIrq, Acquire
    <2>3. <<"irq", pc[d].i>> \in CutKinds \X Nat
        BY DEF TypeOK, CutKinds
    <2>4. Noted(d)
        BY <1>7, <2>3, FailsNotes, SucceedsNotes DEF MsixIrq, Succeeds
    <2>5. Shared /\ Fields(d)
        BY <1>7, KeepShared, KeepFields DEF MsixIrq
    <2> QED
        BY <1>7, <2>1, <2>2, <2>4, <2>5, LocalParts DEF MsixIrq
<1>8. CASE MsixIrqEnd(d) \/ Online(d)
    <2>1. Moved(d)
        BY <1>8, GotoMoves DEF MsixIrqEnd, Online, Labels
    <2>2. Charged(d) /\ Noted(d)
        BY <1>8, KeepCharges, SucceedsNotes DEF MsixIrqEnd, Online
    <2>3. Shared /\ Fields(d)
        BY <1>8, KeepShared, KeepFields DEF MsixIrqEnd, Online
    <2> QED
        BY <1>8, <2>1, <2>2, <2>3, LocalParts DEF MsixIrqEnd, Online
<1>9. CASE LineIrq(d)
    <2>1. Moved(d)
        BY <1>9, GotoMoves DEF LineIrq, Labels
    <2>2. Charged(d)
        BY <1>9, AcquireCharges, KeepCharges DEF LineIrq, Acquire
    <2>3. Noted(d)
        BY <1>9, FailsNotes, SucceedsNotes, OneNamed DEF LineIrq, Succeeds, CutKinds
    <2>4. Shared /\ Fields(d)
        BY <1>9, KeepShared, KeepFields DEF LineIrq
    <2> QED
        BY <1>9, <2>1, <2>2, <2>3, <2>4, LocalParts DEF LineIrq
<1> QED
    BY <1>1, <1>2, <1>3, <1>4, <1>5, <1>6, <1>7, <1>8, <1>9

LEMMA MapLocal ==
    ASSUME TypeOK, NEW d \in Devices, MapBar(d) \/ MapBarsEnd(d)
    PROVE  Local(d)
<1> USE DEF modVars, boundVars, listVars, cdevVars
<1>1. CASE MapBar(d)
    <2> DEFINE b == Bars(d)[pc[d].i + 1]
    <2>1. pc[d].i + 1 \in 1..Len(Bars(d)) /\ b.bar \in 0..5
        <3>1. pc[d].i \in Nat /\ pc[d].i < Len(Bars(d))
            BY <1>1 DEF MapBar, TypeOK
        <3> QED
            BY <3>1, LayoutFacts
    <2>2. Moved(d)
        BY <1>1, GotoMoves, LoopMoves DEF MapBar, Labels
    <2>3. Charged(d)
        BY <1>1, AcquireCharges, ReleaseCharges DEF MapBar, Acquire
    <2>4. Noted(d)
        BY <1>1, FailsNotes, SucceedsNotes, OneNamed DEF MapBar, Succeeds, CutKinds
    <2>5. Shared
        BY <1>1, KeepShared DEF MapBar
    <2>6. role \in [Devices -> [config : -1..5, user : -1..5, bypass : -1..5]]
        BY DEF TypeOK
    <2>7. \/ role' = role
          \/ \E c \in -1..5 : role' = [role EXCEPT ![d] = [role[d] EXCEPT !.config = c]]
        <3>1. role[d].config \in -1..5
            BY <2>6
        <3> QED
            BY <1>1, <2>1, <3>1 DEF MapBar
    <2>8. Fields(d)
        <3>1. /\ role' \in [Devices -> [config : -1..5, user : -1..5, bypass : -1..5]]
              /\ \A o \in Devices \ {d} : role'[o] = role[o]
            BY <2>6, <2>7
        <3> QED
            BY <1>1, <3>1 DEF MapBar, Fields, TypeOK
    <2> QED
        BY <1>1, <2>2, <2>3, <2>4, <2>5, <2>8, LocalParts DEF MapBar
<1>2. CASE MapBarsEnd(d)
    <2>1. Moved(d)
        BY <1>2, GotoMoves DEF MapBarsEnd, Labels
    <2>2. Charged(d)
        BY <1>2, ReleaseCharges, KeepCharges DEF MapBarsEnd
    <2>3. Noted(d)
        BY <1>2, SucceedsNotes DEF MapBarsEnd
    <2>4. Shared
        BY <1>2, KeepShared DEF MapBarsEnd
    <2>5. \A p : IdentifyBars(Bars(d), p).user \in -1..5
                 /\ IdentifyBars(Bars(d), p).bypass \in -1..5
        BY LayoutFacts DEF IdentifyBars
    <2>6. role \in [Devices -> [config : -1..5, user : -1..5, bypass : -1..5]]
        BY DEF TypeOK
    <2>7. \/ role' = role
          \/ \E u, y \in -1..5 :
                role' = [role EXCEPT ![d] = [[role[d] EXCEPT !.user = u] EXCEPT !.bypass = y]]
        <3> DEFINE p == CHOOSE i \in 0..(Len(Bars(d)) - 1) :
                            Bars(d)[i + 1].bar = role[d].config
                   f == IdentifyBars(Bars(d), p)
        <3>1. f.user \in -1..5 /\ f.bypass \in -1..5
            BY <2>5
        <3>2. \/ role' = role
              \/ role' = [role EXCEPT ![d].user = f.user, ![d].bypass = f.bypass]
            BY <1>2 DEF MapBarsEnd
        <3> HIDE DEF f
        <3> QED
            BY <2>6, <3>1, <3>2
    <2>8. Fields(d)
        <3>1. /\ role' \in [Devices -> [config : -1..5, user : -1..5, bypass : -1..5]]
              /\ \A o \in Devices \ {d} : role'[o] = role[o]
            BY <2>6, <2>7
        <3> QED
            BY <1>2, <3>1 DEF MapBarsEnd, Fields, TypeOK
    <2> QED
        BY <1>2, <2>1, <2>2, <2>3, <2>4, <2>8, LocalParts DEF MapBarsEnd
<1> QED
    BY <1>1, <1>2

LEMMA EngineLocal ==
    ASSUME TypeOK, NEW d \in Devices, EngineInv(d), NEW dir \in {"h2c", "c2h"},
           ProbeEngine(d, dir)
    PROVE  Local(d)
<1> USE DEF modVars, listVars, cdevVars
<1>1. Moved(d)
    BY GotoMoves, LoopMoves DEF ProbeEngine, Labels
<1>2. Charged(d)
    BY AcquireCharges, KeepCharges DEF ProbeEngine
<1>3. Noted(d)
    BY FailsNotes, SucceedsNotes, OneNamed DEF ProbeEngine, Succeeds, CutKinds
<1>4. Shared
    BY KeepShared DEF ProbeEngine
<1>5. pc[d].i \in 0..Channels
    <2>1. pc[d].i \in Nat /\ pc[d].i <= ChannelMax(d, dir)
        BY DEF ProbeEngine, EngineInv, TypeOK
    <2>2. ChannelMax(d, dir) \in 0..Channels
        BY DEF ChannelMax, TypeOK
    <2> QED
        BY <2>1, <2>2, CountsAssumption
<1>6. Fields(d)
    BY <1>5 DEF ProbeEngine, Fields, TypeOK
<1> QED
    BY <1>1, <1>2, <1>3, <1>4, <1>6, LocalParts DEF ProbeEngine

LEMMA CreateLocal ==
    ASSUME TypeOK, NEW d \in Devices, CreateCdev(d) \/ CreateCdevFails(d) \/ ProbeEnd(d)
    PROVE  Local(d)
<1> USE DEF modVars, devVars, listVars, cdevVars
<1>1. CASE CreateCdev(d)
    <2> DEFINE k == pc[d].i + 1
    <2>1. k \in 1..Len(CdevSeq(d))
        <3>1. pc[d].i \in Nat
            BY DEF TypeOK
        <3>2. pc[d].i + 1 <= Len(CdevSeq(d))
            BY <1>1 DEF CreateCdev
        <3> QED
            BY <3>1, <3>2, CdevSeqFacts
    <2>2. Moved(d)
        BY <1>1, LoopMoves DEF CreateCdev
    <2>3. Charged(d)
        BY <1>1, AcquireCharges DEF CreateCdev, Acquire
    <2>4. Noted(d)
        BY <1>1, SucceedsNotes DEF CreateCdev, Succeeds
    <2>5. Shared
        <3>1. region \in [Majors -> Devices \cup {NoDevice}]
            BY DEF TypeOK
        <3>2. \/ region' = region
              \/ \E m \in Majors : region' = [region EXCEPT ![m] = d]
            BY <1>1 DEF CreateCdev, AllocRegion
        <3>3. region' \in [Majors -> Devices \cup {NoDevice}]
            BY <3>1, <3>2
        <3> QED
            BY <1>1, <3>3 DEF CreateCdev, Shared, TypeOK
    <2>6. FlagsAfter(d, k) \subseteq Groups
        BY <2>1, FlagsFacts, CdevSeqFacts
    <2>7. /\ flags' \in [Devices -> SUBSET Groups]
          /\ \A o \in Devices \ {d} : flags'[o] = flags[o]
        BY <1>1, <2>6 DEF CreateCdev, TypeOK, Groups
    <2>8. /\ major' \in [Devices -> Majors \cup {0}]
          /\ \A o \in Devices \ {d} : major'[o] = major[o]
        <3>1. major \in [Devices -> Majors \cup {0}]
            BY DEF TypeOK
        <3>2. \/ major' = major
              \/ \E m \in Majors : major' = [major EXCEPT ![d] = m]
            BY <1>1 DEF CreateCdev, AllocRegion
        <3> QED
            BY <3>1, <3>2
    <2>9. Fields(d)
        BY <1>1, <2>7, <2>8 DEF CreateCdev, Fields, TypeOK, Groups
    <2> QED
        BY <1>1, <2>2, <2>3, <2>4, <2>5, <2>9, LocalParts DEF CreateCdev
<1>2. CASE CreateCdevFails(d)
    <2>1. Moved(d)
        BY <1>2, GotoMoves DEF CreateCdevFails, Labels
    <2>2. Charged(d)
        BY <1>2, KeepCharges, AcquireCharges, ReleaseCharges DEF CreateCdevFails, Acquire
    <2>3. <<"cdev", pc[d].i + 1>> \in CutKinds \X Nat /\ One("user_region") \in CutKinds \X Nat
        <3>1. pc[d].i + 1 \in Nat
            BY DEF TypeOK
        <3> QED
            BY <3>1, OneNamed DEF CutKinds
    <2>4. Noted(d)
        <3>1. Charge /\ \E W \in SUBSET (CutKinds \X Nat) : Note(d, W)
            BY <1>2, <2>3 DEF CreateCdevFails
        <3> QED
            BY <3>1, ChargeNotes
    <2>5. Shared
        <3>1. region \in [Majors -> Devices \cup {NoDevice}]
            BY DEF TypeOK
        <3>2. \/ region' = region
              \/ \E m \in Majors : region' = [region EXCEPT ![m] = d]
              \/ region' = [region EXCEPT ![major[d]] = NoDevice]
            BY <1>2 DEF CreateCdevFails, AllocRegion, Unregister
        <3>3. region' \in [Majors -> Devices \cup {NoDevice}]
            BY <3>1, <3>2
        <3> QED
            BY <1>2, <3>3 DEF CreateCdevFails, Shared, TypeOK
    <2>6. Fields(d)
        <3>1. major \in [Devices -> Majors \cup {0}]
            BY DEF TypeOK
        <3>2. \/ major' = major
              \/ \E m \in Majors : major' = [major EXCEPT ![d] = m]
            BY <1>2 DEF CreateCdevFails, AllocRegion
        <3>3. /\ major' \in [Devices -> Majors \cup {0}]
              /\ \A o \in Devices \ {d} : major'[o] = major[o]
            BY <3>1, <3>2
        <3> QED
            BY <1>2, <3>3 DEF CreateCdevFails, Fields, TypeOK
    <2> QED
        BY <1>2, <2>1, <2>2, <2>4, <2>5, <2>6, LocalParts DEF CreateCdevFails
<1>3. CASE ProbeEnd(d)
    <2>1. Moved(d)
        BY <1>3, GotoMoves DEF ProbeEnd, Labels
    <2>2. Charged(d)
        BY <1>3, AcquireCharges, KeepCharges DEF ProbeEnd, Acquire
    <2>3. Noted(d)
        BY <1>3, FailsNotes, SucceedsNotes, OneNamed DEF ProbeEnd, Succeeds, CutKinds
    <2>4. Shared /\ Fields(d)
        BY <1>3, KeepShared, KeepFields DEF ProbeEnd
    <2> QED
        BY <1>3, <2>1, <2>2, <2>3, <2>4, LocalParts DEF ProbeEnd
<1> QED
    BY <1>1, <1>2, <1>3

LEMMA CloseLocal ==
    ASSUME TypeOK, NEW d \in Devices, Close(d)
    PROVE  Local(d)
<1> USE DEF modVars, boundVars, devVars, listVars, cdevVars
<1>1. CASE CreateUnwind(d) \/ FreeInterfaces(d)
    <2>1. Moved(d)
        BY <1>1, GotoMoves DEF CreateUnwind, FreeInterfaces, Labels
    <2>2. Charged(d)
        BY <1>1, ReleaseCharges DEF CreateUnwind, FreeInterfaces, DestroyInterfaces
    <2>3. Noted(d)
        BY <1>1, SucceedsNotes DEF CreateUnwind, FreeInterfaces
    <2>4. Shared
        BY <1>1 DEF CreateUnwind, FreeInterfaces, DestroyInterfaces, Unregister,
           Shared, TypeOK
    <2>5. Fields(d)
        BY <1>1, KeepFields DEF CreateUnwind, FreeInterfaces
    <2> QED
        BY <1>1, <2>1, <2>2, <2>3, <2>4, <2>5, LocalParts
           DEF CreateUnwind, FreeInterfaces
<1>2. CASE IrqTeardown(d)
    <2>1. Moved(d)
        BY <1>2, GotoMoves DEF IrqTeardown, Labels
    <2>2. Charged(d)
        BY <1>2, ReleaseCharges, KeepCharges DEF IrqTeardown
    <2>3. Noted(d) /\ Shared /\ Fields(d)
        BY <1>2, SucceedsNotes, KeepShared, KeepFields DEF IrqTeardown
    <2> QED
        BY <1>2, <2>1, <2>2, <2>3, LocalParts DEF IrqTeardown
<1>3. CASE DisableMsi(d)
    <2>1. Moved(d)
        BY <1>3, GotoMoves DEF DisableMsi, Labels
    <2>2. Charged(d)
        BY <1>3, ReleaseCharges DEF DisableMsi
    <2>3. Noted(d) /\ Shared
        BY <1>3, SucceedsNotes, KeepShared DEF DisableMsi
    <2>4. Fields(d)
        BY <1>3 DEF DisableMsi, Fields, TypeOK
    <2> QED
        BY <1>3, <2>1, <2>2, <2>3, <2>4, LocalParts DEF DisableMsi
<1>4. CASE RemoveEngines(d)
    <2>1. Moved(d)
        BY <1>4, GotoMoves, LoopMoves DEF RemoveEngines, Labels
    <2>2. Charged(d)
        BY <1>4, ReleaseCharges, KeepCharges DEF RemoveEngines
    <2>3. Noted(d) /\ Shared /\ Fields(d)
        BY <1>4, SucceedsNotes, KeepShared, KeepFields DEF RemoveEngines
    <2> QED
        BY <1>4, <2>1, <2>2, <2>3, LocalParts DEF RemoveEngines
<1>5. CASE UnmapBars(d) \/ ReleaseRegions(d) \/ DisableDevice(d) \/ FreeXdev(d)
           \/ FreeXpdev(d)
    <2>1. Moved(d)
        BY <1>5, GotoMoves DEF UnmapBars, ReleaseRegions, DisableDevice, FreeXdev,
           FreeXpdev, Labels
    <2>2. Charged(d)
        BY <1>5, ReleaseCharges DEF UnmapBars, ReleaseRegions, DisableDevice, FreeXdev,
           FreeXpdev
    <2>3. Noted(d) /\ Shared /\ Fields(d)
        BY <1>5, SucceedsNotes, KeepShared, KeepFields DEF UnmapBars, ReleaseRegions,
           DisableDevice, FreeXdev, FreeXpdev
    <2> QED
        BY <1>5, <2>1, <2>2, <2>3, LocalParts DEF UnmapBars, ReleaseRegions,
           DisableDevice, FreeXdev, FreeXpdev
<1>6. CASE ListRemove(d)
    <2>1. Moved(d)
        BY <1>6, GotoMoves DEF ListRemove, Labels
    <2>2. Charged(d)
        BY <1>6, ReleaseCharges DEF ListRemove
    <2>3. Noted(d) /\ Fields(d)
        BY <1>6, SucceedsNotes, KeepFields DEF ListRemove
    <2>4. xdev_list' \in Seq(Devices)
        <3>1. PICK i \in 1..Len(xdev_list) : xdev_list' = RemoveAt(xdev_list, i)
            BY <1>6 DEF ListRemove
        <3>2. xdev_list \in Seq(Devices)
            BY DEF TypeOK
        <3>3. SubSeq(xdev_list, 1, i - 1) \in Seq(Devices)
            BY <3>2
        <3>4. SubSeq(xdev_list, i + 1, Len(xdev_list)) \in Seq(Devices)
            BY <3>2
        <3> QED
            BY <3>1, <3>3, <3>4 DEF RemoveAt
    <2>5. threads' \in BOOLEAN
        BY <1>6, Zenon DEF ListRemove
    <2>6. Shared
        BY <1>6, <2>4, <2>5 DEF ListRemove, Shared, TypeOK
    <2> QED
        BY <1>6, <2>1, <2>2, <2>3, <2>6, LocalParts DEF ListRemove
<1> QED
    BY <1>1, <1>2, <1>3, <1>4, <1>5, <1>6 DEF Close

(* What is released when a device goes offline, and acquired when it comes *)
(* online again.                                                           *)
LEMMA OnlineEffect ==
    ASSUME TypeOK, NEW d \in Devices, NEW also, DeviceOnline(d, also)
    PROVE  \E R \in SUBSET IrqSet(d) : \E W \in {{}, {One("line_twice")}} :
                /\ AcquireAll(d, also \cup R)
                /\ Note(d, W)
                /\ \A r \in R :
                        held[d][r] <= 0 \/ (r = One("line") /\ W = {One("line_twice")})
<1>1. ASSUME UNCHANGED cut
      PROVE  Note(d, {})
    BY <1>1 DEF Note, TypeOK
<1>2. CASE AcquireAll(d, also) /\ UNCHANGED cut
    <2>1. AcquireAll(d, also \cup {})
        BY <1>2
    <2> WITNESS {} \in SUBSET IrqSet(d)
    <2> WITNESS {} \in {{}, {One("line_twice")}}
    <2> QED
        BY <1>1, <1>2, <2>1
<1>3. CASE msi[d] = "msix" /\ MsixAgain(d, also)
    <2>1. PICK n \in 0..(ChannelIrqs(d) + UserIrqs) :
            /\ \A v \in 0..(n - 1) : held[d][<<"irq", v>>] = 0
            /\ AcquireAll(d, also \cup ({"irq"} \X {v \in 0..(n - 1) :
                                v < ChannelIrqs(d) \/ n = ChannelIrqs(d) + UserIrqs}))
            /\ UNCHANGED cut
        BY <1>3 DEF MsixAgain
    <2> DEFINE R == {"irq"} \X {v \in 0..(n - 1) :
                                v < ChannelIrqs(d) \/ n = ChannelIrqs(d) + UserIrqs}
    <2>2. ChannelIrqs(d) \in Nat /\ UserIrqs \in Nat
        BY CountsAssumption DEF ChannelIrqs, TypeOK
    <2>3. R \subseteq IrqSet(d)
        BY <1>3, <2>2 DEF IrqSet
    <2>4. \A r \in R : held[d][r] <= 0
        BY <2>1
    <2>5. AcquireAll(d, also \cup R)
        BY <2>1
    <2> HIDE DEF R
    <2> R \in SUBSET IrqSet(d)
        BY <2>3
    <2> WITNESS R \in SUBSET IrqSet(d)
    <2> WITNESS {} \in {{}, {One("line_twice")}}
    <2> QED
        BY <1>1, <2>1, <2>4, <2>5
<1>4. CASE msi[d] # "msix" /\ LineAgain(d, also)
    <2>1. {One("line")} \subseteq IrqSet(d)
        BY <1>4 DEF IrqSet
    <2>2. CASE /\ AcquireAll(d, also \cup {One("line")})
               /\ Note(d, IF held[d][One("line")] > 0 THEN {One("line_twice")} ELSE {})
        <3>1. held[d][One("line")] \in Int
            BY SingleResources DEF TypeOK
        <3>2. CASE held[d][One("line")] > 0
            <4>1. Note(d, {One("line_twice")})
                BY <2>2, <3>2
            <4> {One("line")} \in SUBSET IrqSet(d)
                BY <2>1
            <4> WITNESS {One("line")} \in SUBSET IrqSet(d)
            <4> WITNESS {One("line_twice")} \in {{}, {One("line_twice")}}
            <4> QED
                BY <2>1, <2>2, <4>1
        <3>3. CASE ~(held[d][One("line")] > 0)
            <4>1. Note(d, {}) /\ held[d][One("line")] <= 0
                BY <2>2, <3>1, <3>3
            <4> {One("line")} \in SUBSET IrqSet(d)
                BY <2>1
            <4> WITNESS {One("line")} \in SUBSET IrqSet(d)
            <4> WITNESS {} \in {{}, {One("line_twice")}}
            <4> QED
                BY <2>1, <2>2, <4>1
        <3> QED
            BY <3>2, <3>3
    <2> QED
        BY <1>2, <1>4, <2>2 DEF LineAgain
<1> QED
    BY <1>2, <1>3, <1>4 DEF DeviceOnline

(* What an administrative step changes.                                    *)
LEMMA AdminEffect ==
    ASSUME TypeOK, NEW d \in Devices, Admin(d)
    PROVE  /\ UNCHANGED <<module, class, probes, hw, poll_mode, devVars, listVars,
                          cdevVars>>
           /\ fails' \in 0..MaxFails
           /\ Moved(d) /\ Charged(d)
           /\ \/ \E also \in {{}, {One("enabled")}} : DeviceOffline(d, also)
              \/ \E also \in {{}, {One("enabled")}} : DeviceOnline(d, also)
<1> USE DEF Labels
<1>1. \A also : DeviceOffline(d, also) => Charged(d)
    BY ReleaseCharges DEF DeviceOffline
<1>2. ASSUME NEW also, DeviceOnline(d, also)
      PROVE  Charged(d)
    BY <1>2, OnlineEffect, AcquireCharges
<1>3. UNCHANGED pc => Moved(d)
    BY DEF Moved, TypeOK
<1>4. UNCHANGED fails => fails' \in 0..MaxFails
    BY DEF TypeOK
<1>5. CASE ErrorDetected(d)
    BY <1>1, <1>5, GotoMoves, ChargeEffect DEF ErrorDetected, modVars
<1>6. CASE SlotReset(d)
    BY <1>2, <1>4, <1>6, GotoMoves DEF SlotReset, modVars, boundVars
<1>7. CASE ResetPrepare(d)
    BY <1>1, <1>7, GotoMoves, ChargeEffect DEF ResetPrepare, modVars
<1>8. CASE ResetDone(d)
    BY <1>2, <1>4, <1>8, GotoMoves DEF ResetDone, modVars, boundVars
<1>9. CASE CtrlIoctl(d)
    BY <1>1, <1>2, <1>3, <1>9, ChargeEffect DEF CtrlIoctl, modVars
<1> QED
    BY <1>5, <1>6, <1>7, <1>8, <1>9 DEF Admin

(* It notes that the device has been offline, or the second request of the *)
(* line, and nothing else.                                                 *)
LEMMA AdminNotes ==
    ASSUME TypeOK, NEW d \in Devices, Admin(d)
    PROVE  /\ Noted(d)
           /\ \/ cut'[d] = cut[d]
              \/ cut'[d] = cut[d] \cup {One("offline")}
              \/ cut'[d] = cut[d] \cup {One("line_twice")}
<1>1. /\ {One("offline")} \in SUBSET (CutKinds \X Nat)
      /\ {One("line_twice")} \in SUBSET (CutKinds \X Nat)
      /\ {} \in SUBSET (CutKinds \X Nat)
    BY OneNamed DEF CutKinds
<1>2. fails' \in 0..MaxFails
    BY AdminEffect
<1>3. \E W \in {{}, {One("offline")}, {One("line_twice")}} : Note(d, W)
    <2>1. CASE \E also \in {{}, {One("enabled")}} : DeviceOffline(d, also)
        BY <2>1 DEF DeviceOffline
    <2>2. CASE \E also \in {{}, {One("enabled")}} : DeviceOnline(d, also)
        BY <2>2, OnlineEffect
    <2> QED
        BY <2>1, <2>2, AdminEffect
<1>4. PICK W \in {{}, {One("offline")}, {One("line_twice")}} : Note(d, W)
    BY <1>3
<1>5. W \in SUBSET (CutKinds \X Nat)
    BY <1>1
<1>6. /\ cut' \in [Devices -> SUBSET (CutKinds \X Nat)]
      /\ \A o \in Devices \ {d} : cut'[o] = cut[o]
      /\ cut'[d] = cut[d] \cup W
    BY <1>4, <1>5, NoteEffect
<1> QED
    BY <1>2, <1>6 DEF Noted

LEMMA AdminLocal ==
    ASSUME TypeOK, NEW d \in Devices, Admin(d)
    PROVE  Local(d)
<1>1. Shared /\ Fields(d)
    BY AdminEffect, KeepShared, KeepFields DEF devVars, listVars, cdevVars
<1> QED
    BY <1>1, AdminEffect, AdminNotes, LocalParts

LEMMA RemoveLocal ==
    ASSUME TypeOK, NEW d \in Devices, RemoveOne(d)
    PROVE  Local(d)
<1> USE DEF modVars, boundVars, devVars, listVars, cdevVars
<1>1. Moved(d)
    BY GotoMoves DEF RemoveOne, Labels
<1>2. Charged(d)
    <2>1. held \in [Devices -> [Resources -> Int]] /\ One("input") \in Resources
        BY SingleResources DEF TypeOK
    <2>2. \/ held' = held
          \/ held' = [held EXCEPT ![d] =
                        [held[d] EXCEPT ![One("input")] = held[d][One("input")] - 2]]
        BY DEF RemoveOne
    <2>3. [held[d] EXCEPT ![One("input")] = held[d][One("input")] - 2]
            \in [Resources -> Int]
        BY <2>1
    <2> QED
        BY <2>1, <2>2, <2>3 DEF Charged
<1>3. Noted(d)
    <2>1. {One("removed"), One("frozen")} \subseteq CutKinds \X Nat
        BY OneNamed DEF CutKinds
    <2>2. \E W \in SUBSET {One("removed"), One("frozen")} : Note(d, W)
        BY DEF RemoveOne
    <2>3. PICK W \in SUBSET {One("removed"), One("frozen")} : Note(d, W)
        BY <2>2
    <2>4. W \in SUBSET (CutKinds \X Nat)
        BY <2>1
    <2> QED
        BY <2>3, <2>4, NoteEffect DEF RemoveOne, Noted, TypeOK
<1>4. Shared /\ Fields(d)
    BY KeepShared, KeepFields DEF RemoveOne
<1> QED
    BY <1>1, <1>2, <1>3, <1>4, LocalParts DEF RemoveOne

LEMMA StepLocal ==
    ASSUME TypeOK, NEW d \in Devices, EngineInv(d), Step(d)
    PROVE  Local(d)
    BY OpenLocal, MapLocal, EngineLocal, CreateLocal, CloseLocal, RemoveLocal, AdminLocal
       DEF Step, Probe, Pci, Admin
-----------------------------------------------------------------------------
(* What each step touches, and where it leads                              *)

(* Only resources of these kinds change hands.                             *)
Touches(d, K) == \A r \in Resources : r[1] \notin K => held'[d][r] = held[d][r]

EngineKinds == {"ring", "wb", "result", "work", "armed"}

LEMMA AcquireTouches ==
    ASSUME TypeOK, NEW d \in Devices, NEW R, NEW K, AcquireAll(d, R),
           \A r \in R : r[1] \in K
    PROVE  Touches(d, K)
    BY AcquireEffect DEF Touches

LEMMA ReleaseTouches ==
    ASSUME TypeOK, NEW d \in Devices, NEW R, NEW K, Release(d, R),
           \A r \in R : r[1] \in K
    PROVE  Touches(d, K)
    BY ReleaseEffect DEF Touches

LEMMA KeepTouches ==
    ASSUME NEW d \in Devices, NEW K, UNCHANGED held
    PROVE  Touches(d, K)
    BY DEF Touches

LEMMA OneKind == \A n : One(n)[1] = n /\ One(n)[2] = 0
    BY DEF One

(* The sets that are acquired and released as a whole.                     *)
LEMMA SetKinds ==
    ASSUME NEW d \in Devices
    PROVE  /\ \A r \in BarsHeld(d) : r[1] = "bar"
           /\ \A r \in IrqSet(d) : r[1] \in {"irq", "line"}
           /\ HeldIrqs(d) \subseteq IrqSet(d)
           /\ \A e \in Engines :
                /\ EngineInit(d, e) \subseteq EngineResources(e)
                /\ EngineDestroy(d, e) \subseteq EngineResources(e)
<1>1. \A r \in BarsHeld(d) : r[1] = "bar"
    BY DEF BarsHeld
<1>2. \A r \in IrqSet(d) : r[1] \in {"irq", "line"}
    BY OneKind DEF IrqSet
<1>3. ASSUME NEW e \in Engines
      PROVE  /\ EngineInit(d, e) \subseteq EngineResources(e)
             /\ EngineDestroy(d, e) \subseteq EngineResources(e)
    <2>1. \A n \in EngineKinds : <<n, e>> \in EngineResources(e)
        BY DEF EngineResources, EngineKinds
    <2>2. EngineInit(d, e) \subseteq EngineResources(e)
        BY <2>1 DEF EngineInit, EngineMemory, EngineRegs, EngineKinds
    <2>3. {"ring", "wb", "result"} \X {e} \subseteq EngineResources(e)
        BY DEF EngineResources
    <2>4. EngineDestroy(d, e) \subseteq EngineResources(e)
        BY <2>1, <2>3 DEF EngineDestroy, EngineRegs, EngineKinds
    <2> QED
        BY <2>2, <2>4
<1>4. HeldIrqs(d) \subseteq IrqSet(d)
    BY DEF HeldIrqs
<1> QED
    BY <1>1, <1>2, <1>3, <1>4

LEMMA OpenTouches ==
    ASSUME TypeOK, NEW d \in Devices
    PROVE  /\ ListAdd(d) => Touches(d, {"listed"})
           /\ EnableDevice(d) => Touches(d, {"enabled"})
           /\ RequestRegions(d) => Touches(d, {"regions"})
           /\ MapBar(d) \/ MapBarsEnd(d) => Touches(d, {"bar"})
           /\ SetDmaMask(d) \/ MsixIrqEnd(d) \/ Online(d) => Touches(d, {})
           /\ EnableMsi(d) => Touches(d, {"vectors"})
           /\ MsixIrq(d) \/ LineIrq(d) => Touches(d, {"irq", "line"})
           /\ CreateCdev(d) => Touches(d, {"cdev", "region"})
           /\ CreateCdevFails(d) => Touches(d, {"region"})
           /\ ProbeEnd(d) => Touches(d, {"input"})
<1>1. ASSUME NEW n, NEW K, n \in K, Acquire(d, One(n))
      PROVE  Touches(d, K)
    BY <1>1, AcquireTouches, OneKind DEF Acquire
<1>2. ListAdd(d) => Touches(d, {"listed"})
    BY <1>1, KeepTouches DEF ListAdd
<1>3. EnableDevice(d) => Touches(d, {"enabled"})
    BY <1>1, KeepTouches DEF EnableDevice
<1>4. RequestRegions(d) => Touches(d, {"regions"})
    BY <1>1, KeepTouches DEF RequestRegions
<1>5. ASSUME MapBar(d)
      PROVE  Touches(d, {"bar"})
    BY <1>5, AcquireTouches, ReleaseTouches, SetKinds DEF MapBar, Acquire
<1>6. ASSUME MapBarsEnd(d)
      PROVE  Touches(d, {"bar"})
    BY <1>6, KeepTouches, ReleaseTouches, SetKinds DEF MapBarsEnd
<1>7. SetDmaMask(d) \/ MsixIrqEnd(d) \/ Online(d) => Touches(d, {})
    BY KeepTouches DEF SetDmaMask, MsixIrqEnd, Online
<1>8. EnableMsi(d) => Touches(d, {"vectors"})
    BY <1>1, KeepTouches DEF EnableMsi
<1>9. ASSUME MsixIrq(d)
      PROVE  Touches(d, {"irq", "line"})
    BY <1>9, AcquireTouches, ReleaseTouches DEF MsixIrq, Acquire
<1>10. LineIrq(d) => Touches(d, {"irq", "line"})
    BY <1>1, KeepTouches DEF LineIrq
<1>11. ASSUME CreateCdev(d)
       PROVE  Touches(d, {"cdev", "region"})
    BY <1>11, AcquireTouches, OneKind DEF CreateCdev, Acquire
<1>12. ProbeEnd(d) => Touches(d, {"input"})
    BY <1>1, KeepTouches DEF ProbeEnd
<1>13. CreateCdevFails(d) => Touches(d, {"region"})
    <2>1. Release(d, {One("region")}) => Touches(d, {"region"})
        BY ReleaseTouches, OneKind
    <2> QED
        BY <1>1, <2>1, KeepTouches DEF CreateCdevFails
<1> QED
    BY <1>2, <1>3, <1>4, <1>5, <1>6, <1>7, <1>8, <1>9, <1>10, <1>11, <1>12, <1>13

LEMMA CloseTouches ==
    ASSUME TypeOK, NEW d \in Devices
    PROVE  /\ ListRemove(d) => Touches(d, {"listed"})
           /\ DisableDevice(d) => Touches(d, {"enabled"})
           /\ ReleaseRegions(d) => Touches(d, {"regions"})
           /\ UnmapBars(d) => Touches(d, {"bar"})
           /\ DisableMsi(d) => Touches(d, {"vectors"})
           /\ IrqTeardown(d) => Touches(d, {"irq", "line"})
           /\ Admin(d) => Touches(d, {"irq", "line", "enabled"})
           /\ CreateUnwind(d) \/ FreeInterfaces(d) => Touches(d, {"cdev", "region"})
           /\ RemoveOne(d) => Touches(d, {"input"})
           /\ FreeXdev(d) => Touches(d, {"xdev"})
           /\ FreeXpdev(d) => Touches(d, {"xpdev"})
<1>1. ASSUME NEW n, NEW K, n \in K, Release(d, {One(n)})
      PROVE  Touches(d, K)
    BY <1>1, ReleaseTouches, OneKind
<1>2. ASSUME NEW K, Release(d, {})
      PROVE  Touches(d, K)
    BY <1>2, ReleaseTouches
<1>3. ListRemove(d) => Touches(d, {"listed"})
    BY <1>1 DEF ListRemove
<1>4. DisableDevice(d) => Touches(d, {"enabled"})
    BY <1>1, <1>2 DEF DisableDevice
<1>5. ReleaseRegions(d) => Touches(d, {"regions"})
    BY <1>1 DEF ReleaseRegions
<1>6. ASSUME UnmapBars(d)
      PROVE  Touches(d, {"bar"})
    BY <1>6, ReleaseTouches, SetKinds DEF UnmapBars
<1>7. DisableMsi(d) => Touches(d, {"vectors"})
    BY <1>1, <1>2 DEF DisableMsi
<1>8. ASSUME IrqTeardown(d)
      PROVE  Touches(d, {"irq", "line"})
    BY <1>8, ReleaseTouches, KeepTouches, SetKinds DEF IrqTeardown
<1>9. ASSUME Admin(d)
      PROVE  Touches(d, {"irq", "line", "enabled"})
    <2>1. \A r \in IrqSet(d) \cup HeldIrqs(d) : r[1] \in {"irq", "line", "enabled"}
        BY SetKinds
    <2>2. CASE \E also \in {{}, {One("enabled")}} : DeviceOffline(d, also)
        <3>1. PICK also \in {{}, {One("enabled")}} : Release(d, HeldIrqs(d) \cup also)
            BY <2>2 DEF DeviceOffline
        <3>2. \A r \in HeldIrqs(d) \cup also : r[1] \in {"irq", "line", "enabled"}
            BY <2>1, OneKind
        <3> QED
            BY <3>1, <3>2, ReleaseTouches
    <2>3. CASE \E also \in {{}, {One("enabled")}} : DeviceOnline(d, also)
        <3>1. PICK also \in {{}, {One("enabled")}} :
                    \E R \in SUBSET IrqSet(d) : AcquireAll(d, also \cup R)
            BY <2>3, OnlineEffect
        <3>2. PICK R \in SUBSET IrqSet(d) : AcquireAll(d, also \cup R)
            BY <3>1
        <3>3. \A r \in also \cup R : r[1] \in {"irq", "line", "enabled"}
            BY <2>1, OneKind
        <3> QED
            BY <3>2, <3>3, AcquireTouches
    <2> QED
        BY <1>9, <2>2, <2>3, AdminEffect
<1>12. ASSUME CreateUnwind(d) \/ FreeInterfaces(d)
       PROVE  Touches(d, {"cdev", "region"})
    BY <1>12, ReleaseTouches, OneKind DEF CreateUnwind, FreeInterfaces, DestroyInterfaces
<1>13. ASSUME RemoveOne(d)
       PROVE  Touches(d, {"input"})
    <2>1. held \in [Devices -> [Resources -> Int]]
        BY DEF TypeOK
    <2>2. \A r \in Resources : r[1] # "input" => r # One("input")
        BY OneKind
    <2> QED
        BY <1>13, <2>1, <2>2, KeepTouches DEF RemoveOne, Touches
<1>14. FreeXdev(d) => Touches(d, {"xdev"})
    BY <1>1 DEF FreeXdev
<1>15. FreeXpdev(d) => Touches(d, {"xpdev"})
    BY <1>1 DEF FreeXpdev
<1> QED
    BY <1>3, <1>4, <1>5, <1>6, <1>7, <1>8, <1>9, <1>12, <1>13, <1>14, <1>15

(* The engines by their place in remove_engines().                         *)
LEMMA EngineSeqFacts ==
    ASSUME TypeOK, NEW d \in Devices
    PROVE  /\ Len(EngineSeq(d)) = h2c_max[d] + c2h_max[d]
           /\ \A k \in 1..(h2c_max[d] + c2h_max[d]) :
                /\ EngineSeq(d)[k] = IF k <= h2c_max[d] THEN <<"h2c", k - 1>>
                                     ELSE <<"c2h", k - h2c_max[d] - 1>>
                /\ EngineSeq(d)[k] \in Engines
<1> DEFINE h == h2c_max[d]
           c == c2h_max[d]
           s == [i \in 1..h |-> <<"h2c", i - 1>>]
           t == [i \in 1..c |-> <<"c2h", i - 1>>]
<1>1. h \in 0..Channels /\ c \in 0..Channels /\ Channels \in Nat
    BY CountsAssumption DEF TypeOK
<1>2. \A n \in 0..(Channels - 1) : <<"h2c", n>> \in Engines /\ <<"c2h", n>> \in Engines
    BY DEF Engines
<1>3. s \in Seq(Engines) /\ Len(s) = h
    <2>1. ASSUME NEW i \in 1..h
          PROVE  <<"h2c", i - 1>> \in Engines
        BY <1>1 DEF Engines
    <2>2. h \in Nat
        BY <1>1
    <2> HIDE DEF h
    <2> QED
        BY <2>1, <2>2
<1>4. t \in Seq(Engines) /\ Len(t) = c
    <2>1. ASSUME NEW i \in 1..c
          PROVE  <<"c2h", i - 1>> \in Engines
        BY <1>1 DEF Engines
    <2>2. c \in Nat
        BY <1>1
    <2> HIDE DEF c
    <2> QED
        BY <2>1, <2>2
<1>5. EngineSeq(d) = s \o t
    BY DEF EngineSeq
<1>6. /\ \A k \in 1..h : s[k] = <<"h2c", k - 1>>
      /\ \A k \in 1..c : t[k] = <<"c2h", k - 1>>
    OBVIOUS
<1> HIDE DEF s, t, h, c
<1>7. /\ Len(s \o t) = h + c
      /\ \A k \in 1..(h + c) : (s \o t)[k] = IF k <= h THEN s[k] ELSE t[k - h]
    BY <1>1, <1>3, <1>4
<1>8. ASSUME NEW k \in 1..(h + c)
      PROVE  /\ (s \o t)[k] = IF k <= h THEN <<"h2c", k - 1>> ELSE <<"c2h", k - h - 1>>
             /\ (s \o t)[k] \in Engines
    <2>1. CASE k <= h
        <3>1. k \in 1..h /\ k - 1 \in 0..(Channels - 1)
            BY <1>1, <2>1
        <3> QED
            BY <1>2, <1>6, <1>7, <2>1, <3>1
    <2>2. CASE ~(k <= h)
        <3>1. k - h \in 1..c /\ k - h - 1 \in 0..(Channels - 1)
            BY <1>1, <2>2
        <3> QED
            BY <1>2, <1>6, <1>7, <2>2, <3>1
    <2> QED
        BY <2>1, <2>2
<1> QED
    BY <1>5, <1>7, <1>8 DEF h, c

(* An engine that is being initialised.                                    *)
LEMMA ProbedEngine ==
    ASSUME TypeOK, NEW d \in Devices, EngineInv(d), NEW dir \in {"h2c", "c2h"},
           ProbeEngine(d, dir), pc'[d].at = dir
    PROVE  /\ <<dir, pc[d].i>> \in Engines
           /\ pc[d].i < ChannelMax(d, dir)
           /\ pc[d].at = dir /\ pc'[d].i = pc[d].i + 1
           /\ AcquireAll(d, EngineInit(d, <<dir, pc[d].i>>))
           /\ UNCHANGED <<h2c_max, c2h_max, cut>>
<1>1. ~Goto(d, IF dir = "h2c" THEN "c2h" ELSE "msi")
    <2>1. (IF dir = "h2c" THEN "c2h" ELSE "msi") \in Labels
        BY DEF Labels
    <2> QED
        BY <2>1, GotoEffect
<1>2. /\ AcquireAll(d, EngineInit(d, <<dir, pc[d].i>>)) /\ Loop(d)
      /\ UNCHANGED <<h2c_max, c2h_max, cut>>
      /\ pc[d].i # ChannelMax(d, dir) /\ pc[d].at = dir
    BY <1>1 DEF ProbeEngine, Succeeds, In
<1>3. pc[d].i \in Nat /\ pc[d].i <= ChannelMax(d, dir) /\ ChannelMax(d, dir) \in 0..Channels
    BY <1>2 DEF EngineInv, In, TypeOK, ChannelMax
<1>4. pc[d].i < ChannelMax(d, dir) /\ pc[d].i \in 0..(Channels - 1)
    BY <1>2, <1>3, CountsAssumption
<1> QED
    BY <1>2, <1>4, LoopEffect DEF Engines

(* The end of a direction.                                                 *)
LEMMA ProbedAll ==
    ASSUME TypeOK, NEW d \in Devices, NEW dir \in {"h2c", "c2h"},
           ProbeEngine(d, dir), pc'[d].at # dir
    PROVE  /\ pc[d].at = dir
           /\ pc'[d].at = IF dir = "h2c" THEN "c2h" ELSE "msi"
           /\ pc'[d].i = 0
           /\ UNCHANGED held
           /\ dir = "h2c" => h2c_max'[d] = pc[d].i /\ UNCHANGED c2h_max
           /\ dir = "c2h" => c2h_max'[d] = pc[d].i /\ UNCHANGED h2c_max
           /\ cut'[d] = cut[d] \/ cut'[d] = cut[d] \cup {One("engine")}
<1> DEFINE l == IF dir = "h2c" THEN "c2h" ELSE "msi"
<1>1. pc[d].at = dir
    BY DEF ProbeEngine, In
<1>2. ~Loop(d)
    BY <1>1, LoopEffect
<1>3. Goto(d, l) /\ UNCHANGED held
      /\ (dir = "h2c" => h2c_max' = [h2c_max EXCEPT ![d] = pc[d].i] /\ UNCHANGED c2h_max)
      /\ (dir = "c2h" => c2h_max' = [c2h_max EXCEPT ![d] = pc[d].i] /\ UNCHANGED h2c_max)
    BY <1>2 DEF ProbeEngine
<1>4. l \in Labels
    BY DEF Labels
<1>5. pc'[d].at = l /\ pc'[d].i = 0
    BY <1>3, <1>4, GotoEffect
<1>6. cut'[d] = cut[d] \/ cut'[d] = cut[d] \cup {One("engine")}
    BY <1>2 DEF ProbeEngine, Succeeds, Fails, Note, TypeOK
<1> QED
    BY <1>1, <1>3, <1>5, <1>6 DEF TypeOK

LEMMA EngineTouches ==
    ASSUME TypeOK, NEW d \in Devices, EngineInv(d)
    PROVE  /\ \A dir \in {"h2c", "c2h"} : ProbeEngine(d, dir) => Touches(d, EngineKinds)
           /\ RemoveEngines(d) => Touches(d, EngineKinds)
<1>1. ASSUME NEW e \in Engines
      PROVE  \A r \in EngineInit(d, e) \cup EngineDestroy(d, e) : r[1] \in EngineKinds
    BY <1>1, SetKinds, KindsOfResources DEF EngineKinds
<1>2. ASSUME NEW dir \in {"h2c", "c2h"}, ProbeEngine(d, dir)
      PROVE  Touches(d, EngineKinds)
    <2>1. CASE pc'[d].at = dir
        BY <1>1, <1>2, <2>1, ProbedEngine, AcquireTouches
    <2>2. CASE pc'[d].at # dir
        BY <1>2, <2>2, ProbedAll, KeepTouches
    <2> QED
        BY <2>1, <2>2
<1>3. ASSUME RemoveEngines(d)
      PROVE  Touches(d, EngineKinds)
    <2>1. CASE UNCHANGED held
        BY <2>1, KeepTouches
    <2>2. CASE pc[d].i + 1 <= Len(EngineSeq(d))
               /\ Release(d, EngineDestroy(d, EngineSeq(d)[pc[d].i + 1]))
        <3>1. pc[d].i \in Nat /\ h2c_max[d] \in Nat /\ c2h_max[d] \in Nat
            BY CountsAssumption DEF TypeOK
        <3>2. Len(EngineSeq(d)) = h2c_max[d] + c2h_max[d]
            BY EngineSeqFacts
        <3>3. pc[d].i + 1 \in 1..(h2c_max[d] + c2h_max[d])
            <4>1. pc[d].i + 1 <= h2c_max[d] + c2h_max[d]
                BY <2>2, <3>2
            <4> QED
                BY <3>1, <4>1
        <3>4. EngineSeq(d)[pc[d].i + 1] \in Engines
            BY <3>3, EngineSeqFacts
        <3> QED
            BY <1>1, <2>2, <3>4, ReleaseTouches
    <2> QED
        BY <1>3, <2>1, <2>2 DEF RemoveEngines
<1> QED
    BY <1>2, <1>3

(* From which label to which.                                              *)
Jumps(d, from, to) == pc[d].at = from /\ pc'[d].at \in to

LEMMA OpenJumps ==
    ASSUME TypeOK, NEW d \in Devices
    PROVE  /\ ProbeAlloc(d) => Jumps(d, "absent", {"list_add"})
           /\ ListAdd(d) => Jumps(d, "list_add", {"enable", "free_xdev"})
           /\ EnableDevice(d) => Jumps(d, "enable", {"regions", "err_enable"})
           /\ RequestRegions(d) => Jumps(d, "regions", {"map", "err_regions"})
           /\ MapBar(d) => Jumps(d, "map", {"map", "err_map"})
           /\ MapBarsEnd(d) => Jumps(d, "map", {"mask", "err_map"})
           /\ SetDmaMask(d) => Jumps(d, "mask", {"h2c", "err_mask"})
           /\ ProbeEngine(d, "h2c") => Jumps(d, "h2c", {"h2c", "c2h"})
           /\ ProbeEngine(d, "c2h") => Jumps(d, "c2h", {"c2h", "msi"})
           /\ EnableMsi(d) => Jumps(d, "msi", {"irq", "err_engines"})
           /\ MsixIrq(d) => Jumps(d, "irq", {"irq", "err_msix"})
           /\ MsixIrqEnd(d) => Jumps(d, "irq", {"online"})
           /\ LineIrq(d) => Jumps(d, "irq", {"online", "err_msix"})
           /\ Online(d) => Jumps(d, "online", {IF HandleFound(d) THEN "create"
                                               ELSE "free_xpdev"})
           /\ CreateCdev(d) => Jumps(d, "create", {"create"})
           /\ CreateCdevFails(d) => Jumps(d, "create", {"fail"})
           /\ ProbeEnd(d) => Jumps(d, "create", {"bound", "oops"})
<1>1. ASSUME NEW l \in Labels, Goto(d, l)
      PROVE  pc'[d].at = l
    BY <1>1, GotoEffect
<1>2. Loop(d) => pc'[d].at = pc[d].at
    BY LoopEffect
<1> USE DEF Jumps, In, Labels
<1>3. /\ ProbeAlloc(d) => Jumps(d, "absent", {"list_add"})
      /\ ListAdd(d) => Jumps(d, "list_add", {"enable", "free_xdev"})
    BY <1>1 DEF ProbeAlloc, ListAdd
<1>4. /\ EnableDevice(d) => Jumps(d, "enable", {"regions", "err_enable"})
      /\ RequestRegions(d) => Jumps(d, "regions", {"map", "err_regions"})
    BY <1>1 DEF EnableDevice, RequestRegions
<1>5. MapBar(d) => Jumps(d, "map", {"map", "err_map"})
    BY <1>1, <1>2 DEF MapBar
<1>6. MapBarsEnd(d) => Jumps(d, "map", {"mask", "err_map"})
    BY <1>1 DEF MapBarsEnd
<1>7. SetDmaMask(d) => Jumps(d, "mask", {"h2c", "err_mask"})
    BY <1>1 DEF SetDmaMask
<1>8. /\ ProbeEngine(d, "h2c") => Jumps(d, "h2c", {"h2c", "c2h"})
      /\ ProbeEngine(d, "c2h") => Jumps(d, "c2h", {"c2h", "msi"})
    BY <1>1, <1>2 DEF ProbeEngine
<1>9. /\ EnableMsi(d) => Jumps(d, "msi", {"irq", "err_engines"})
      /\ MsixIrq(d) => Jumps(d, "irq", {"irq", "err_msix"})
    BY <1>1, <1>2 DEF EnableMsi, MsixIrq
<1>10. /\ MsixIrqEnd(d) => Jumps(d, "irq", {"online"})
       /\ LineIrq(d) => Jumps(d, "irq", {"online", "err_msix"})
       /\ Online(d) => Jumps(d, "online", {IF HandleFound(d) THEN "create"
                                           ELSE "free_xpdev"})
    BY <1>1 DEF MsixIrqEnd, LineIrq, Online
<1>11. /\ CreateCdev(d) => Jumps(d, "create", {"create"})
       /\ CreateCdevFails(d) => Jumps(d, "create", {"fail"})
       /\ ProbeEnd(d) => Jumps(d, "create", {"bound", "oops"})
    BY <1>1, <1>2 DEF CreateCdev, CreateCdevFails, ProbeEnd
<1> QED
    BY <1>3, <1>4, <1>5, <1>6, <1>7, <1>8, <1>9, <1>10, <1>11

LEMMA CloseJumps ==
    ASSUME TypeOK, NEW d \in Devices
    PROVE  /\ CreateUnwind(d) => Jumps(d, "fail", {"free_interfaces"})
           /\ FreeInterfaces(d) => Jumps(d, "free_interfaces", {"close"})
           /\ IrqTeardown(d) => Jumps(d, "close", {IF HandleFound(d) THEN "err_msix"
                                                   ELSE "free_xpdev"})
           /\ DisableMsi(d) => Jumps(d, "err_msix", {"err_engines"})
           /\ RemoveEngines(d) => Jumps(d, "err_engines", {"err_engines", "err_mask"})
           /\ UnmapBars(d) => Jumps(d, "err_mask", {"err_map"})
           /\ ReleaseRegions(d) => Jumps(d, "err_map", {"err_regions"})
           /\ DisableDevice(d) => Jumps(d, "err_regions", {"err_enable"})
           /\ ListRemove(d) => Jumps(d, "err_enable", {"free_xdev"})
           /\ FreeXdev(d) => Jumps(d, "free_xdev", {"free_xpdev"})
           /\ FreeXpdev(d) => Jumps(d, "free_xpdev", {"absent"})
           /\ RemoveOne(d) => /\ pc[d].at \in {"bound", "frozen"}
                              /\ pc'[d].at \in {"free_interfaces", "oops"}
           /\ ErrorDetected(d) => Jumps(d, "bound", {"frozen"})
           /\ SlotReset(d) => Jumps(d, "frozen", {"bound"})
           /\ ResetPrepare(d) => Jumps(d, "bound", {"reset"})
           /\ ResetDone(d) => Jumps(d, "reset", {"bound"})
           /\ CtrlIoctl(d) => UNCHANGED pc
<1>1. ASSUME NEW l \in Labels, Goto(d, l)
      PROVE  pc'[d].at = l
    BY <1>1, GotoEffect
<1>2. Loop(d) => pc'[d].at = pc[d].at
    BY LoopEffect
<1> USE DEF Jumps, In, Labels
<1>3. /\ CreateUnwind(d) => Jumps(d, "fail", {"free_interfaces"})
      /\ FreeInterfaces(d) => Jumps(d, "free_interfaces", {"close"})
    BY <1>1 DEF CreateUnwind, FreeInterfaces
<1>4. /\ IrqTeardown(d) => Jumps(d, "close", {IF HandleFound(d) THEN "err_msix"
                                              ELSE "free_xpdev"})
      /\ DisableMsi(d) => Jumps(d, "err_msix", {"err_engines"})
    BY <1>1 DEF IrqTeardown, DisableMsi
<1>5. RemoveEngines(d) => Jumps(d, "err_engines", {"err_engines", "err_mask"})
    BY <1>1, <1>2 DEF RemoveEngines
<1>6. /\ UnmapBars(d) => Jumps(d, "err_mask", {"err_map"})
      /\ ReleaseRegions(d) => Jumps(d, "err_map", {"err_regions"})
      /\ DisableDevice(d) => Jumps(d, "err_regions", {"err_enable"})
    BY <1>1 DEF UnmapBars, ReleaseRegions, DisableDevice
<1>7. /\ ListRemove(d) => Jumps(d, "err_enable", {"free_xdev"})
      /\ FreeXdev(d) => Jumps(d, "free_xdev", {"free_xpdev"})
      /\ FreeXpdev(d) => Jumps(d, "free_xpdev", {"absent"})
    BY <1>1 DEF ListRemove, FreeXdev, FreeXpdev
<1>8. RemoveOne(d) => /\ pc[d].at \in {"bound", "frozen"}
                      /\ pc'[d].at \in {"free_interfaces", "oops"}
    BY <1>1 DEF RemoveOne
<1>9. CtrlIoctl(d) => UNCHANGED pc
    BY DEF CtrlIoctl
<1>10. /\ ErrorDetected(d) => Jumps(d, "bound", {"frozen"})
       /\ SlotReset(d) => Jumps(d, "frozen", {"bound"})
       /\ ResetPrepare(d) => Jumps(d, "bound", {"reset"})
       /\ ResetDone(d) => Jumps(d, "reset", {"bound"})
    BY <1>1 DEF ErrorDetected, SlotReset, ResetPrepare, ResetDone
<1> QED
    BY <1>3, <1>4, <1>5, <1>6, <1>7, <1>8, <1>9, <1>10

(* Where there may be an ioctl.                                            *)
Placed(d) == CtrlIoctl(d) => pc[d].at \in Public \cup {"fail"}

LEMMA AdminJumps ==
    ASSUME TypeOK, NEW d \in Devices, Placed(d), Admin(d)
    PROVE  \/ /\ pc[d].at \in Public \cup {"fail"} /\ UNCHANGED pc
           \/ /\ pc[d].at \in {"bound", "frozen", "reset"}
              /\ pc'[d].at \in {"bound", "frozen", "reset"}
    BY CloseJumps DEF Jumps, Placed, Admin

(* A removal, and what takes a device offline and online.                  *)
LEMMA PciJumps ==
    ASSUME TypeOK, NEW d \in Devices, Placed(d), Pci(d) \/ CtrlIoctl(d)
    PROVE  /\ pc[d].at \in Public \cup {"fail"} /\ pc'[d].at \in Public \cup {"fail"}
           /\ UNCHANGED <<hw, poll_mode, probes, devVars, listVars, cdevVars>>
           /\ Touches(d, {"input"}) \/ Touches(d, {"irq", "line", "enabled"})
<1>1. CASE RemoveOne(d)
    <2>1. UNCHANGED <<hw, poll_mode, probes, devVars, listVars, cdevVars>>
        BY <1>1 DEF RemoveOne, boundVars
    <2> QED
        BY <1>1, <2>1, CloseJumps, CloseTouches DEF Public
<1>2. CASE Admin(d)
    <2>1. pc[d].at \in Public \cup {"fail"} /\ pc'[d].at \in Public \cup {"fail"}
        BY <1>2, AdminJumps DEF Public
    <2> QED
        BY <1>2, <2>1, AdminEffect, CloseTouches
<1> QED
    BY <1>1, <1>2 DEF Pci, Admin
-----------------------------------------------------------------------------
(* The list of the devices                                                 *)

(* A step from a listed label to a listed label leaves the list alone.     *)
LEMMA ListQuiet ==
    ASSUME TypeOK, ListInv, NEW d \in Devices, Local(d), UNCHANGED <<xdev_list, idx>>,
           pc[d].at \in IsListed, pc'[d].at \in IsListed,
           NEW K, Touches(d, K), "xdev" \notin K, "xpdev" \notin K
    PROVE  ListInv'
<1>1. ASSUME NEW o \in Devices
      PROVE  HandleFound(o)' <=> HandleFound(o)
    BY DEF HandleFound
<1>2. \A o \in Devices \ {d} : pc'[o] = pc[o] /\ held'[o] = held[o]
    BY DEF Local, Same
<1>3. /\ held'[d][One("xdev")] = held[d][One("xdev")]
      /\ held'[d][One("xpdev")] = held[d][One("xpdev")]
    BY SingleResources, OneKind DEF Touches
<1>4. ASSUME NEW o \in Devices
      PROVE  /\ HandleFound(o)' <=> pc'[o].at \in IsListed
             /\ pc'[o].at \in IsListed \cup {"list_add", "free_xdev"} =>
                    held'[o][One("xdev")] = 1 /\ held'[o][One("xpdev")] = 1
    <2>1. CASE o = d
        BY <1>1, <1>3, <2>1 DEF ListInv
    <2>2. CASE o # d
        BY <1>1, <1>2, <2>2 DEF ListInv
    <2> QED
        BY <2>1, <2>2
<1> QED
    BY <1>4 DEF ListInv

LEMMA RemoveAtFacts ==
    ASSUME NEW S, NEW s \in Seq(S), NEW i \in 1..Len(s)
    PROVE  /\ RemoveAt(s, i) \in Seq(S)
           /\ Len(RemoveAt(s, i)) = Len(s) - 1
           /\ \A k \in 1..(Len(s) - 1) : RemoveAt(s, i)[k] = IF k < i THEN s[k] ELSE s[k + 1]
<1> DEFINE t == SubSeq(s, 1, i - 1)
           u == SubSeq(s, i + 1, Len(s))
<1>1. Len(s) \in Nat /\ i \in Nat /\ i >= 1 /\ i <= Len(s)
    OBVIOUS
<1>2. /\ t \in Seq(S) /\ Len(t) = i - 1
      /\ \A k \in 1..(i - 1) : t[k] = s[k]
    BY <1>1
<1>3. /\ u \in Seq(S) /\ Len(u) = Len(s) - i
      /\ \A k \in 1..(Len(s) - i) : u[k] = s[i + k]
    BY <1>1
<1>4. RemoveAt(s, i) = t \o u
    BY DEF RemoveAt
<1> HIDE DEF t, u
<1>5. /\ t \o u \in Seq(S) /\ Len(t \o u) = Len(s) - 1
      /\ \A k \in 1..(Len(s) - 1) : (t \o u)[k] = IF k <= i - 1 THEN t[k] ELSE u[k - (i - 1)]
    BY <1>1, <1>2, <1>3
<1>6. ASSUME NEW k \in 1..(Len(s) - 1)
      PROVE  (t \o u)[k] = IF k < i THEN s[k] ELSE s[k + 1]
    <2>1. CASE k < i
        BY <1>1, <1>2, <1>5, <2>1
    <2>2. CASE ~(k < i)
        <3>1. k - (i - 1) \in 1..(Len(s) - i) /\ i + (k - (i - 1)) = k + 1
            BY <1>1, <2>2
        <3>2. u[k - (i - 1)] = s[k + 1]
            BY <1>3, <3>1
        <3> QED
            BY <1>1, <1>5, <2>2, <3>2
    <2> QED
        BY <2>1, <2>2
<1> QED
    BY <1>4, <1>5, <1>6

(* xdev_list_add() gives the new device an index above all others.         *)
LEMMA ListAddKeeps ==
    ASSUME TypeOK, ListInv, NEW d \in Devices, ListAdd(d), Local(d)
    PROVE  ListInv'
<1>1. /\ xdev_list \in Seq(Devices) /\ Len(xdev_list) \in Nat /\ idx \in [Devices -> Nat]
      /\ \A i \in 1..Len(xdev_list) : xdev_list[i] \in Devices
    BY DEF TypeOK
<1>2. pc[d].at = "list_add" /\ ~HandleFound(d)
    BY DEF ListAdd, In, ListInv, IsListed, HasBars, HasEngines, Active, Complete
<1>3. /\ held'[d][One("xdev")] = 1 /\ held'[d][One("xpdev")] = 1
      /\ \A o \in Devices \ {d} : pc'[o] = pc[o] /\ held'[o] = held[o]
    <2>1. Touches(d, {"listed"})
        BY OpenTouches
    <2>2. /\ held'[d][One("xdev")] = held[d][One("xdev")]
          /\ held'[d][One("xpdev")] = held[d][One("xpdev")]
        BY <2>1, SingleResources, OneKind DEF Touches
    <2> QED
        BY <1>2, <2>2 DEF ListInv, Local, Same
<1>4. CASE Goto(d, "free_xdev") /\ UNCHANGED <<xdev_list, idx>>
    <2>1. pc'[d].at = "free_xdev"
        BY <1>4, GotoEffect DEF Labels
    <2>2. \A o \in Devices : HandleFound(o)' <=> HandleFound(o)
        BY <1>4 DEF HandleFound
    <2>3. "free_xdev" \notin IsListed
        BY DEF IsListed, HasBars, HasEngines, Active, Complete
    <2>4. ASSUME NEW o \in Devices
          PROVE  /\ HandleFound(o)' <=> pc'[o].at \in IsListed
                 /\ pc'[o].at \in IsListed \cup {"list_add", "free_xdev"} =>
                        held'[o][One("xdev")] = 1 /\ held'[o][One("xpdev")] = 1
        <3>1. CASE o = d
            BY <1>2, <1>3, <2>1, <2>2, <2>3, <3>1
        <3>2. CASE o # d
            BY <1>3, <2>2, <3>2 DEF ListInv
        <3> QED
            BY <3>1, <3>2
    <2> QED
        BY <1>4, <2>4 DEF ListInv
<1>5. CASE /\ Goto(d, "enable")
           /\ xdev_list' = Append(xdev_list, d)
           /\ idx' = [idx EXCEPT ![d] = NextIdx]
    <2> DEFINE n == Len(xdev_list)
    <2>1. pc'[d].at = "enable" /\ "enable" \in IsListed
        BY <1>5, GotoEffect DEF Labels, IsListed
    <2>2. /\ Len(xdev_list') = n + 1 /\ xdev_list'[n + 1] = d
          /\ \A i \in 1..n : xdev_list'[i] = xdev_list[i] /\ xdev_list[i] # d
        BY <1>1, <1>2, <1>5 DEF HandleFound
    <2>3. /\ idx'[d] = NextIdx
          /\ \A i \in 1..n : idx'[xdev_list[i]] = idx[xdev_list[i]]
        BY <1>1, <1>5, <2>2
    <2>4. ASSUME NEW i \in 1..n
          PROVE  idx[xdev_list[i]] < NextIdx
        <3>1. xdev_list # <<>> /\ n \in 1..n
            BY <1>1
        <3>2. NextIdx = idx[xdev_list[n]] + 1
            BY <3>1 DEF NextIdx, Last
        <3>3. idx[xdev_list[i]] \in Nat /\ idx[xdev_list[n]] \in Nat
            BY <1>1, <3>1
        <3>4. idx[xdev_list[i]] <= idx[xdev_list[n]]
            BY <1>1, <3>1, <3>3 DEF ListInv
        <3> QED
            BY <3>2, <3>3, <3>4
    <2>5. ASSUME NEW i \in 1..(n + 1), NEW j \in 1..(n + 1), i < j
          PROVE  idx'[xdev_list'[i]] < idx'[xdev_list'[j]]
        <3>1. i \in 1..n
            BY <1>1, <2>5
        <3>2. CASE j \in 1..n
            BY <2>2, <2>3, <2>5, <3>1, <3>2 DEF ListInv
        <3>3. CASE j = n + 1
            BY <2>2, <2>3, <2>4, <3>1, <3>3
        <3> QED
            BY <1>1, <3>2, <3>3
    <2>6. ASSUME NEW o \in Devices
          PROVE  /\ HandleFound(o)' <=> pc'[o].at \in IsListed
                 /\ pc'[o].at \in IsListed \cup {"list_add", "free_xdev"} =>
                        held'[o][One("xdev")] = 1 /\ held'[o][One("xpdev")] = 1
        <3>1. CASE o = d
            <4>1. HandleFound(d)'
                BY <1>1, <2>2 DEF HandleFound
            <4> QED
                BY <1>3, <2>1, <3>1, <4>1
        <3>2. CASE o # d
            <4>1. HandleFound(o)' <=> HandleFound(o)
                BY <1>1, <2>2, <3>2 DEF HandleFound
            <4> QED
                BY <1>3, <3>2, <4>1 DEF ListInv
        <3> QED
            BY <3>1, <3>2
    <2> QED
        BY <2>2, <2>5, <2>6 DEF ListInv
<1> QED
    BY <1>4, <1>5 DEF ListAdd, listVars

(* xdev_list_remove() takes this device out and keeps the order.           *)
LEMMA ListRemoveKeeps ==
    ASSUME TypeOK, ListInv, NEW d \in Devices, ListRemove(d), Local(d)
    PROVE  ListInv'
<1> DEFINE n == Len(xdev_list)
           skip(i, k) == IF k < i THEN k ELSE k + 1
<1>1. /\ xdev_list \in Seq(Devices) /\ n \in Nat /\ idx \in [Devices -> Nat]
      /\ \A i \in 1..n : xdev_list[i] \in Devices
    BY DEF TypeOK
<1>2. PICK i \in 1..n : xdev_list[i] = d /\ xdev_list' = RemoveAt(xdev_list, i)
    BY DEF ListRemove
<1>3. /\ Len(xdev_list') = n - 1
      /\ \A k \in 1..(n - 1) : xdev_list'[k] = xdev_list[skip(i, k)]
    BY <1>1, <1>2, RemoveAtFacts
<1>4. ASSUME NEW k \in 1..(n - 1)
      PROVE  skip(i, k) \in 1..n /\ skip(i, k) # i
    BY <1>1
<1>5. UNCHANGED idx
    BY DEF ListRemove
<1>6. ASSUME NEW k \in 1..(n - 1), NEW l \in 1..(n - 1), k < l
      PROVE  idx'[xdev_list'[k]] < idx'[xdev_list'[l]]
    <2>1. skip(i, k) < skip(i, l)
        BY <1>1, <1>6
    <2> QED
        BY <1>3, <1>4, <1>5, <2>1 DEF ListInv
<1>7. ASSUME NEW j \in 1..n, xdev_list[j] = d
      PROVE  j = i
    <2>1. idx[d] \in Nat
        BY <1>1
    <2>2. ~(i < j) /\ ~(j < i)
        BY <1>2, <1>7, <2>1 DEF ListInv
    <2> QED
        BY <1>1, <2>2
<1>8. ~HandleFound(d)'
    <2>1. \A k \in 1..(n - 1) : xdev_list'[k] # d
        BY <1>3, <1>4, <1>7
    <2> QED
        BY <1>3, <2>1 DEF HandleFound
<1>9. ASSUME NEW o \in Devices \ {d}
      PROVE  HandleFound(o)' <=> HandleFound(o)
    <2>1. ASSUME NEW j \in 1..n, xdev_list[j] = o
          PROVE  \E k \in 1..(n - 1) : xdev_list'[k] = o
        <3>1. CASE j < i
            <4>1. j \in 1..(n - 1) /\ skip(i, j) = j
                BY <1>1, <3>1
            <4> QED
                BY <1>3, <2>1, <4>1
        <3>2. CASE j > i
            <4>1. j - 1 \in 1..(n - 1) /\ skip(i, j - 1) = j
                BY <1>1, <3>2
            <4> QED
                BY <1>3, <2>1, <4>1
        <3>3. j # i
            BY <1>2, <2>1
        <3> QED
            BY <1>1, <3>1, <3>2, <3>3
    <2>2. ASSUME NEW k \in 1..(n - 1), xdev_list'[k] = o
          PROVE  \E j \in 1..n : xdev_list[j] = o
        BY <1>3, <1>4, <2>2
    <2> QED
        BY <1>3, <2>1, <2>2 DEF HandleFound
<1>10. /\ held'[d][One("xdev")] = 1 /\ held'[d][One("xpdev")] = 1
       /\ \A o \in Devices \ {d} : pc'[o] = pc[o] /\ held'[o] = held[o]
    <2>1. Touches(d, {"listed"})
        BY CloseTouches
    <2>2. /\ held'[d][One("xdev")] = held[d][One("xdev")]
          /\ held'[d][One("xpdev")] = held[d][One("xpdev")]
        BY <2>1, SingleResources, OneKind DEF Touches
    <2>3. pc[d].at \in IsListed
        BY DEF ListRemove, In, IsListed
    <2> QED
        BY <2>2, <2>3 DEF ListInv, Local, Same
<1>11. pc'[d].at = "free_xdev" /\ "free_xdev" \notin IsListed
    BY CloseJumps DEF Jumps, IsListed, HasBars, HasEngines, Active, Complete
<1>12. ASSUME NEW o \in Devices
       PROVE  /\ HandleFound(o)' <=> pc'[o].at \in IsListed
              /\ pc'[o].at \in IsListed \cup {"list_add", "free_xdev"} =>
                    held'[o][One("xdev")] = 1 /\ held'[o][One("xpdev")] = 1
    <2>1. CASE o = d
        BY <1>8, <1>10, <1>11, <2>1
    <2>2. CASE o # d
        BY <1>9, <1>10, <2>2 DEF ListInv
    <2> QED
        BY <2>1, <2>2
<1> QED
    BY <1>3, <1>6, <1>12 DEF ListInv

(* The structures come before and go after that.                           *)
LEMMA ListEnds ==
    ASSUME TypeOK, ListInv, NEW d \in Devices, Local(d),
           ProbeAlloc(d) \/ FreeXdev(d) \/ FreeXpdev(d)
    PROVE  ListInv'
<1>1. UNCHANGED <<xdev_list, idx>>
    BY DEF ProbeAlloc, FreeXdev, FreeXpdev, listVars
<1>2. /\ pc[d].at \in {"absent", "free_xdev", "free_xpdev"}
      /\ pc'[d].at \in {"absent", "list_add", "free_xpdev"}
    BY OpenJumps, CloseJumps DEF Jumps
<1>3. pc[d].at \notin IsListed /\ pc'[d].at \notin IsListed
    BY <1>2 DEF IsListed, HasBars, HasEngines, Active, Complete
<1>4. pc'[d].at = "list_add" =>
        held'[d][One("xdev")] = 1 /\ held'[d][One("xpdev")] = 1
    <2>1. CASE ProbeAlloc(d)
        <3>1. held' = [held EXCEPT ![d] = [held[d] EXCEPT ![One("input")] = 0,
                                ![One("xpdev")] = 1, ![One("xdev")] = 1]]
            BY <2>1 DEF ProbeAlloc
        <3>2. held \in [Devices -> [Resources -> Int]] /\ One("xdev") # One("xpdev")
            BY DEF TypeOK, One
        <3>3. One("xdev") \in Resources /\ One("xpdev") \in Resources
            BY SingleResources
        <3> QED
            BY <3>1, <3>2, <3>3
    <2>2. CASE FreeXdev(d) \/ FreeXpdev(d)
        BY <2>2, CloseJumps DEF Jumps
    <2> QED
        BY <2>1, <2>2
<1>5. ASSUME NEW o \in Devices
      PROVE  /\ HandleFound(o)' <=> pc'[o].at \in IsListed
             /\ pc'[o].at \in IsListed \cup {"list_add", "free_xdev"} =>
                    held'[o][One("xdev")] = 1 /\ held'[o][One("xpdev")] = 1
    <2>1. HandleFound(o)' <=> HandleFound(o)
        BY <1>1 DEF HandleFound
    <2>2. CASE o = d
        BY <1>2, <1>3, <1>4, <2>1, <2>2 DEF ListInv
    <2>3. CASE o # d
        BY <2>1, <2>3 DEF ListInv, Local, Same
    <2> QED
        BY <2>2, <2>3
<1> QED
    BY <1>1, <1>5 DEF ListInv

LEMMA ListStep ==
    ASSUME TypeOK, ListInv, NEW d \in Devices, EngineInv(d), Placed(d), Step(d)
    PROVE  ListInv'
<1> USE DEF modVars, boundVars, devVars, listVars, cdevVars
<1>1. Local(d)
    BY StepLocal
<1>2. ASSUME NEW K, Touches(d, K), "xdev" \notin K, "xpdev" \notin K,
             UNCHANGED <<xdev_list, idx>>, pc[d].at \in IsListed, pc'[d].at \in IsListed
      PROVE  ListInv'
    BY <1>1, <1>2, ListQuiet
<1>3. /\ {"enable", "regions", "map", "mask", "h2c", "c2h", "msi", "irq", "online",
          "create", "bound", "oops", "fail"} \subseteq IsListed
      /\ {"frozen", "reset", "free_interfaces", "close", "err_msix", "err_engines",
          "err_mask", "err_map", "err_regions", "err_enable"} \subseteq IsListed
      /\ Public \cup {"fail"} \subseteq IsListed
    BY DEF IsListed, HasBars, HasEngines, Active, Complete, Public
<1>4. pc[d].at \in IsListed => HandleFound(d)
    BY DEF ListInv
<1>5. CASE ListAdd(d) \/ ListRemove(d) \/ ProbeAlloc(d) \/ FreeXdev(d) \/ FreeXpdev(d)
    BY <1>1, <1>5, ListAddKeeps, ListRemoveKeeps, ListEnds
<1>6. CASE EnableDevice(d) \/ RequestRegions(d) \/ MapBar(d) \/ MapBarsEnd(d)
    <2>1. UNCHANGED <<xdev_list, idx>>
        BY <1>6 DEF EnableDevice, RequestRegions, MapBar, MapBarsEnd
    <2>2. pc[d].at \in IsListed /\ pc'[d].at \in IsListed
        BY <1>3, <1>6, OpenJumps DEF Jumps
    <2>3. Touches(d, {"enabled"}) \/ Touches(d, {"regions"}) \/ Touches(d, {"bar"})
        BY <1>6, OpenTouches
    <2> QED
        BY <1>2, <2>1, <2>2, <2>3
<1>7. CASE SetDmaMask(d) \/ MsixIrqEnd(d) \/ Online(d) \/ CreateCdevFails(d) \/ EnableMsi(d)
    <2>1. UNCHANGED <<xdev_list, idx>>
        BY <1>7 DEF SetDmaMask, MsixIrqEnd, Online, CreateCdevFails, EnableMsi
    <2>2. pc[d].at \in IsListed /\ pc'[d].at \in IsListed
        BY <1>3, <1>4, <1>7, OpenJumps DEF Jumps
    <2>3. Touches(d, {}) \/ Touches(d, {"vectors"}) \/ Touches(d, {"region"})
        BY <1>7, OpenTouches
    <2> QED
        BY <1>2, <2>1, <2>2, <2>3
<1>8. CASE MsixIrq(d) \/ LineIrq(d) \/ CreateCdev(d) \/ ProbeEnd(d)
    <2>1. UNCHANGED <<xdev_list, idx>>
        BY <1>8 DEF MsixIrq, LineIrq, CreateCdev, ProbeEnd
    <2>2. pc[d].at \in IsListed /\ pc'[d].at \in IsListed
        BY <1>3, <1>8, OpenJumps DEF Jumps
    <2>3. Touches(d, {"irq", "line"}) \/ Touches(d, {"cdev", "region"}) \/ Touches(d, {"input"})
        BY <1>8, OpenTouches
    <2> QED
        BY <1>2, <2>1, <2>2, <2>3
<1>9. ASSUME RemoveEngines(d) \/ \E dir \in {"h2c", "c2h"} : ProbeEngine(d, dir)
      PROVE  ListInv'
    <2>1. UNCHANGED <<xdev_list, idx>>
        BY <1>9 DEF RemoveEngines, ProbeEngine
    <2>2. pc[d].at \in IsListed /\ pc'[d].at \in IsListed
        BY <1>3, <1>9, OpenJumps, CloseJumps DEF Jumps
    <2>3. Touches(d, EngineKinds)
        BY <1>9, EngineTouches
    <2> QED
        BY <1>2, <2>1, <2>2, <2>3 DEF EngineKinds
<1>10. CASE CreateUnwind(d) \/ FreeInterfaces(d) \/ IrqTeardown(d) \/ DisableMsi(d)
    <2>1. UNCHANGED <<xdev_list, idx>>
        BY <1>10 DEF CreateUnwind, FreeInterfaces, IrqTeardown, DisableMsi
    <2>2. pc[d].at \in IsListed /\ pc'[d].at \in IsListed
        BY <1>3, <1>4, <1>10, CloseJumps DEF Jumps
    <2>3. Touches(d, {"irq", "line"}) \/ Touches(d, {"cdev", "region"}) \/ Touches(d, {"vectors"})
        BY <1>10, CloseTouches
    <2> QED
        BY <1>2, <2>1, <2>2, <2>3
<1>11. CASE UnmapBars(d) \/ ReleaseRegions(d) \/ DisableDevice(d)
    <2>1. UNCHANGED <<xdev_list, idx>>
        BY <1>11 DEF UnmapBars, ReleaseRegions, DisableDevice
    <2>2. pc[d].at \in IsListed /\ pc'[d].at \in IsListed
        BY <1>3, <1>11, CloseJumps DEF Jumps
    <2>3. Touches(d, {"bar"}) \/ Touches(d, {"regions"}) \/ Touches(d, {"enabled"})
        BY <1>11, CloseTouches
    <2> QED
        BY <1>2, <2>1, <2>2, <2>3
<1>12. ASSUME Pci(d) \/ CtrlIoctl(d)
       PROVE  ListInv'
    BY <1>2, <1>3, <1>12, PciJumps
<1> QED
    BY <1>5, <1>6, <1>7, <1>8, <1>9, <1>10, <1>11, <1>12 DEF Step, Probe, Close
-----------------------------------------------------------------------------
(* The engines                                                             *)

(* The initialised engines, from the label, the loop counter and the       *)
(* numbers of channels.                                                    *)
Place(e, h) == IF e[1] = "h2c" THEN e[2] + 1 ELSE h + e[2] + 1
Below(e, h, c) == IF e[1] = "h2c" THEN e[2] < h ELSE e[2] < c

Live(at, i, h, c) ==
    {e \in Engines :
        \/ at = "h2c" /\ e[1] = "h2c" /\ e[2] < i
        \/ at = "c2h" /\ e[1] = "h2c" /\ e[2] < h
        \/ at = "c2h" /\ e[1] = "c2h" /\ e[2] < i
        \/ at \in HasEngines /\ Below(e, h, c)
        \/ at = "err_engines" /\ Below(e, h, c) /\ i < Place(e, h)}

LEMMA LiveIs ==
    ASSUME NEW d \in Devices
    PROVE  /\ LiveEngines(d) = Live(pc[d].at, pc[d].i, h2c_max[d], c2h_max[d])
           /\ LiveEngines(d)' = Live(pc'[d].at, pc'[d].i, h2c_max'[d], c2h_max'[d])
<1>1. LiveEngines(d) = Live(pc[d].at, pc[d].i, h2c_max[d], c2h_max[d])
    BY DEF LiveEngines, Live, Place, Below, ChannelMax
<1>2. LiveEngines(d)' = Live(pc'[d].at, pc'[d].i, h2c_max'[d], c2h_max'[d])
    BY DEF LiveEngines, Live, Place, Below, ChannelMax
<1> QED
    BY <1>1, <1>2

LEMMA EngineFacts ==
    ASSUME NEW e \in Engines
    PROVE  /\ e[1] \in {"h2c", "c2h"} /\ e[2] \in Nat /\ e[2] < Channels
           /\ e = <<e[1], e[2]>>
    BY CountsAssumption DEF Engines

(* Where all of them are there, and where none is.                         *)
Full(at, i) == at \in HasEngines \/ (at = "err_engines" /\ i = 0)
None(at, i) == at \notin HasEngines \cup {"c2h", "err_engines"} /\ (at = "h2c" => i = 0)

LEMMA LiveFull ==
    ASSUME NEW at, NEW i, Full(at, i), NEW h \in Nat, NEW c \in Nat
    PROVE  Live(at, i, h, c) = {e \in Engines : Below(e, h, c)}
<1>1. at \notin {"h2c", "c2h"}
    BY DEF Full, HasEngines, Active, Complete
<1>2. \A e \in Engines : 0 < Place(e, h)
    BY EngineFacts DEF Place
<1> QED
    BY <1>1, <1>2 DEF Live, Full

LEMMA LiveNone ==
    ASSUME NEW at, NEW i, None(at, i), NEW h, NEW c
    PROVE  Live(at, i, h, c) = {}
<1>1. \A e \in Engines : ~(e[2] < 0)
    BY EngineFacts
<1> QED
    BY <1>1 DEF Live, None

(* What of the engines' resources is held when this set of them is live.   *)
Holds(d, h, L) ==
    \A e \in Engines : \A r \in EngineResources(e) :
        h[r] = IF e \in L /\ r \in EngineInit(d, e) THEN 1 ELSE 0

(* The loops of probe_engines() stay within the channels.                  *)
Within(d) == \A dir \in {"h2c", "c2h"} : In(d, dir) => pc[d].i <= ChannelMax(d, dir)

LEMMA EngineParts ==
    ASSUME NEW d \in Devices, UNCHANGED <<hw, poll_mode>>
    PROVE  /\ EngineInv(d) <=> Within(d) /\ Holds(d, held[d], LiveEngines(d))
           /\ EngineInv(d)' <=> Within(d)' /\ Holds(d, held'[d], LiveEngines(d)')
<1>1. \A e : EngineInit(d, e)' = EngineInit(d, e)
    BY DEF EngineInit, EngineMemory, EngineRegs
<1>2. EngineInv(d) <=> Within(d) /\ Holds(d, held[d], LiveEngines(d))
    BY DEF EngineInv, Within, Holds
<1>3. EngineInv(d)' <=> Within(d)' /\ Holds(d, held'[d], LiveEngines(d)')
    BY <1>1 DEF EngineInv, Within, Holds
<1> QED
    BY <1>2, <1>3

(* A step that has nothing to do with the engines.                         *)
LEMMA EngineQuiet ==
    ASSUME TypeOK, NEW d \in Devices, EngineInv(d), Local(d),
           NEW K, Touches(d, K), K \cap EngineKinds = {},
           \/ None(pc[d].at, pc[d].i) /\ None(pc'[d].at, pc'[d].i)
           \/ /\ Full(pc[d].at, pc[d].i) /\ Full(pc'[d].at, pc'[d].i)
              /\ h2c_max'[d] = h2c_max[d] /\ c2h_max'[d] = c2h_max[d]
    PROVE  EngineInv(d)'
<1>1. UNCHANGED <<hw, poll_mode>> /\ TypeOK'
    BY DEF Local
<1>2. LiveEngines(d)' = LiveEngines(d)
    <2>1. h2c_max[d] \in Nat /\ c2h_max[d] \in Nat
        BY CountsAssumption DEF TypeOK
    <2>2. CASE None(pc[d].at, pc[d].i) /\ None(pc'[d].at, pc'[d].i)
        <3>1. Live(pc[d].at, pc[d].i, h2c_max[d], c2h_max[d]) = {}
            BY <2>2, LiveNone
        <3>2. Live(pc'[d].at, pc'[d].i, h2c_max'[d], c2h_max'[d]) = {}
            BY <2>2, LiveNone
        <3> QED
            BY <3>1, <3>2, LiveIs
    <2>3. CASE /\ Full(pc[d].at, pc[d].i) /\ Full(pc'[d].at, pc'[d].i)
               /\ h2c_max'[d] = h2c_max[d] /\ c2h_max'[d] = c2h_max[d]
        <3> DEFINE all == {e \in Engines : Below(e, h2c_max[d], c2h_max[d])}
        <3>1. Live(pc[d].at, pc[d].i, h2c_max[d], c2h_max[d]) = all
            BY <2>1, <2>3, LiveFull
        <3>2. Live(pc'[d].at, pc'[d].i, h2c_max'[d], c2h_max'[d]) = all
            BY <2>1, <2>3, LiveFull
        <3> QED
            BY <3>1, <3>2, LiveIs
    <2> QED
        BY <2>2, <2>3
<1>3. Within(d)'
    <2>1. pc'[d].at = "h2c" => pc'[d].i = 0
        BY DEF None, Full, HasEngines, Active, Complete
    <2>2. pc'[d].at # "c2h"
        BY DEF None, Full, HasEngines, Active, Complete
    <2>3. h2c_max'[d] \in 0..Channels
        BY <1>1 DEF TypeOK
    <2>4. 0 <= h2c_max'[d]
        BY <2>3, CountsAssumption
    <2> QED
        BY <2>1, <2>2, <2>4 DEF Within, In, ChannelMax
<1>4. \A e \in Engines : \A r \in EngineResources(e) : held'[d][r] = held[d][r]
    BY KindsOfResources DEF Touches, EngineKinds
<1> QED
    BY <1>1, <1>2, <1>3, <1>4, EngineParts DEF Holds

(* probe_engines() initialises one more engine, or ends a direction.       *)
LEMMA ProbeEngineKeeps ==
    ASSUME TypeOK, NEW d \in Devices, EngineInv(d), Local(d),
           NEW dir \in {"h2c", "c2h"}, ProbeEngine(d, dir)
    PROVE  EngineInv(d)'
<1> DEFINE i == pc[d].i
           e0 == <<dir, i>>
           h == h2c_max[d]
           c == c2h_max[d]
<1>1. UNCHANGED <<hw, poll_mode>> /\ TypeOK'
    BY DEF Local
<1>2. i \in Nat /\ h \in 0..Channels /\ c \in 0..Channels /\ Channels \in Nat
    BY CountsAssumption DEF TypeOK
<1>3. Holds(d, held[d], LiveEngines(d)) /\ Within(d)
    BY <1>1, EngineParts
<1>4. CASE pc'[d].at = dir
    <2>1. /\ e0 \in Engines /\ i < ChannelMax(d, dir)
          /\ pc[d].at = dir /\ pc'[d].i = i + 1
          /\ AcquireAll(d, EngineInit(d, e0))
          /\ UNCHANGED <<h2c_max, c2h_max, cut>>
        BY <1>4, ProbedEngine
    <2>2. dir \notin HasEngines
        BY DEF HasEngines, Active, Complete
    <2>3. e0 \notin LiveEngines(d)
        <3>1. e0 \notin Live(dir, i, h, c)
            BY <1>2, <2>2 DEF Live
        <3> QED
            BY <2>1, <3>1, LiveIs
    <2>4. LiveEngines(d)' = LiveEngines(d) \cup {e0}
        <3>1. ASSUME NEW e \in Engines
              PROVE  e \in Live(dir, i + 1, h, c) <=> e \in Live(dir, i, h, c) \/ e = e0
            <4>1. e[2] < i + 1 <=> e[2] < i \/ e[2] = i
                BY <1>2, EngineFacts
            <4>2. e = e0 <=> e[1] = dir /\ e[2] = i
                BY EngineFacts
            <4> QED
                BY <2>2, <4>1, <4>2 DEF Live
        <3>2. Live(dir, i + 1, h, c) = Live(dir, i, h, c) \cup {e0}
            BY <2>1, <3>1 DEF Live
        <3> QED
            BY <1>4, <2>1, <3>2, LiveIs
    <2>5. ASSUME NEW e \in Engines, NEW r \in EngineResources(e)
          PROVE  held'[d][r] = IF e \in LiveEngines(d)' /\ r \in EngineInit(d, e)
                               THEN 1 ELSE 0
        <3>1. r \in Resources /\ r[2] = e
            BY KindsOfResources
        <3>2. held'[d][r] = IF r \in EngineInit(d, e0) THEN held[d][r] + 1 ELSE held[d][r]
            BY <2>1, <3>1, AcquireEffect
        <3>3. CASE e = e0
            <4>1. held[d][r] = 0
                BY <1>3, <2>3, <3>3 DEF Holds
            <4> QED
                BY <2>4, <3>2, <3>3, <4>1
        <3>4. CASE e # e0
            <4>1. r \notin EngineInit(d, e0)
                BY <2>1, <3>1, <3>4, SetKinds, KindsOfResources
            <4> QED
                BY <1>3, <2>4, <3>2, <3>4, <4>1 DEF Holds
        <3> QED
            BY <3>3, <3>4
    <2>6. Within(d)'
        <3>1. ChannelMax(d, dir) \in Nat
            BY <1>2 DEF ChannelMax
        <3>2. i + 1 <= ChannelMax(d, dir)
            BY <1>2, <2>1, <3>1
        <3> QED
            BY <1>4, <2>1, <3>2 DEF Within, In, ChannelMax
    <2> QED
        BY <1>1, <2>5, <2>6, EngineParts DEF Holds
<1>5. CASE pc'[d].at # dir
    <2>1. /\ pc[d].at = dir
          /\ pc'[d].at = IF dir = "h2c" THEN "c2h" ELSE "msi"
          /\ pc'[d].i = 0
          /\ UNCHANGED held
          /\ dir = "h2c" => h2c_max'[d] = i /\ c2h_max'[d] = c
          /\ dir = "c2h" => c2h_max'[d] = i /\ h2c_max'[d] = h
        BY <1>5, ProbedAll
    <2>2. CASE dir = "h2c"
        <3>1. Live("h2c", i, h, c) = Live("c2h", 0, i, c)
            <4>1. \A e \in Engines : ~(e[2] < 0)
                BY EngineFacts
            <4> QED
                BY <4>1 DEF Live, HasEngines, Active, Complete
        <3>2. LiveEngines(d)' = LiveEngines(d)
            BY <2>1, <2>2, <3>1, LiveIs
        <3>3. Within(d)'
            BY <1>2, <2>1, <2>2 DEF Within, In, ChannelMax
        <3> QED
            BY <1>1, <1>3, <2>1, <3>2, <3>3, EngineParts
    <2>3. CASE dir = "c2h"
        <3>1. Live("c2h", i, h, c) = Live("msi", 0, h, i)
            <4>1. \A e \in Engines : e[1] \in {"h2c", "c2h"}
                BY EngineFacts
            <4> QED
                BY <4>1 DEF Live, HasEngines, Active, Complete, Below
        <3>2. LiveEngines(d)' = LiveEngines(d)
            BY <2>1, <2>3, <3>1, LiveIs
        <3>3. Within(d)'
            BY <2>1, <2>3 DEF Within, In
        <3> QED
            BY <1>1, <1>3, <2>1, <3>2, <3>3, EngineParts
    <2> QED
        BY <2>2, <2>3
<1> QED
    BY <1>4, <1>5

(* remove_engines() destroys exactly what engine_init() acquired.          *)
LEMMA DestroyIsInit ==
    ASSUME TypeOK, NEW d \in Devices, EngineInv(d), NEW e \in LiveEngines(d)
    PROVE  EngineDestroy(d, e) = EngineInit(d, e)
<1>1. e \in Engines
    BY DEF LiveEngines
<1>2. \A r \in EngineResources(e) : held[d][r] > 0 <=> r \in EngineInit(d, e)
    BY <1>1 DEF EngineInv
<1>3. {"ring", "wb", "result"} \X {e} \subseteq EngineResources(e)
    BY DEF EngineResources
<1>4. {r \in {"ring", "wb", "result"} \X {e} : held[d][r] > 0} = EngineMemory(d, e)
    <2>1. EngineMemory(d, e) \subseteq {"ring", "wb", "result"} \X {e}
        BY DEF EngineMemory
    <2>2. EngineMemory(d, e) \subseteq EngineInit(d, e)
        BY DEF EngineInit
    <2>3. ASSUME NEW r \in {"ring", "wb", "result"} \X {e}, r \in EngineInit(d, e)
          PROVE  r \in EngineMemory(d, e)
        <3>1. r # <<"armed", e>> /\ r # <<"work", e>>
            BY <2>3
        <3> QED
            BY <2>3, <3>1 DEF EngineInit, EngineRegs
    <2> QED
        BY <1>2, <1>3, <2>1, <2>2, <2>3
<1> QED
    BY <1>4 DEF EngineDestroy, EngineInit

LEMMA RemoveEnginesKeeps ==
    ASSUME TypeOK, NEW d \in Devices, EngineInv(d), Local(d), RemoveEngines(d)
    PROVE  EngineInv(d)'
<1> DEFINE i == pc[d].i
           k == i + 1
           h == h2c_max[d]
           c == c2h_max[d]
           e0 == EngineSeq(d)[k]
<1>1. UNCHANGED <<hw, poll_mode>> /\ TypeOK'
    BY DEF Local
<1>2. i \in Nat /\ h \in Nat /\ c \in Nat
    BY CountsAssumption DEF TypeOK
<1>3. Holds(d, held[d], LiveEngines(d)) /\ Within(d)
    BY <1>1, EngineParts
<1>4. /\ pc[d].at = "err_engines" /\ pc'[d].at \in {"err_engines", "err_mask"}
      /\ UNCHANGED <<h2c_max, c2h_max>>
    BY CloseJumps DEF Jumps, RemoveEngines, devVars
<1>5. Within(d)'
    BY <1>4 DEF Within, In
<1>6. ASSUME NEW e \in Engines, NEW j
      PROVE  e \in Live("err_engines", j, h, c) <=> Below(e, h, c) /\ j < Place(e, h)
    BY DEF Live, HasEngines, Active, Complete
<1>7. CASE k <= Len(EngineSeq(d)) /\ Release(d, EngineDestroy(d, e0)) /\ Loop(d)
    <2>1. pc'[d].i = k /\ pc'[d].at = "err_engines"
        BY <1>4, <1>7, LoopEffect
    <2>2. k \in 1..(h + c)
        BY <1>2, <1>7, EngineSeqFacts
    <2>3. /\ e0 = IF k <= h THEN <<"h2c", k - 1>> ELSE <<"c2h", k - h - 1>>
          /\ e0 \in Engines
        BY <2>2, EngineSeqFacts
    <2>4. ASSUME NEW e \in Engines, Below(e, h, c)
          PROVE  Place(e, h) \in Nat /\ (Place(e, h) = k <=> e = e0)
        <3>1. e[1] \in {"h2c", "c2h"} /\ e[2] \in Nat /\ e = <<e[1], e[2]>>
            BY EngineFacts
        <3>2. CASE e[1] = "h2c"
            BY <1>2, <2>3, <2>4, <3>1, <3>2 DEF Place, Below
        <3>3. CASE e[1] = "c2h"
            BY <1>2, <2>3, <2>4, <3>1, <3>3 DEF Place, Below
        <3> QED
            BY <3>1, <3>2, <3>3
    <2>5. Below(e0, h, c)
        BY <1>2, <2>2, <2>3 DEF Below
    <2>6. e0 \in LiveEngines(d) /\ LiveEngines(d)' = LiveEngines(d) \ {e0}
        <3>1. Place(e0, h) = k
            BY <2>3, <2>4, <2>5
        <3>2. e0 \in Live("err_engines", i, h, c)
            BY <1>2, <1>6, <2>3, <2>5, <3>1
        <3>3. ASSUME NEW e \in Engines
              PROVE  e \in Live("err_engines", k, h, c) <=>
                        e \in Live("err_engines", i, h, c) /\ e # e0
            <4>1. CASE Below(e, h, c)
                <5>1. k < Place(e, h) <=> i < Place(e, h) /\ Place(e, h) # k
                    BY <1>2, <2>4, <4>1
                <5> QED
                    BY <1>6, <2>4, <4>1, <5>1
            <4>2. CASE ~Below(e, h, c)
                BY <1>6, <4>2
            <4> QED
                BY <4>1, <4>2
        <3>4. Live("err_engines", k, h, c) = Live("err_engines", i, h, c) \ {e0}
            BY <3>3 DEF Live
        <3> QED
            BY <1>4, <2>1, <3>2, <3>4, LiveIs
    <2>7. EngineDestroy(d, e0) = EngineInit(d, e0)
        BY <2>6, DestroyIsInit
    <2>8. ASSUME NEW e \in Engines, NEW r \in EngineResources(e)
          PROVE  held'[d][r] = IF e \in LiveEngines(d)' /\ r \in EngineInit(d, e)
                               THEN 1 ELSE 0
        <3>1. r \in Resources /\ r[2] = e
            BY KindsOfResources
        <3>2. held'[d][r] = IF r \in EngineInit(d, e0) THEN held[d][r] - 1 ELSE held[d][r]
            BY <1>7, <2>7, <3>1, ReleaseEffect
        <3>3. CASE e = e0
            <4>1. held[d][r] = IF r \in EngineInit(d, e0) THEN 1 ELSE 0
                BY <1>3, <2>6, <3>3 DEF Holds
            <4> QED
                BY <2>6, <3>2, <3>3, <4>1
        <3>4. CASE e # e0
            <4>1. r \notin EngineInit(d, e0)
                BY <2>3, <3>1, <3>4, SetKinds, KindsOfResources
            <4> QED
                BY <1>3, <2>6, <3>2, <3>4, <4>1 DEF Holds
        <3> QED
            BY <3>3, <3>4
    <2> QED
        BY <1>1, <1>5, <2>8, EngineParts DEF Holds
<1>8. CASE k > Len(EngineSeq(d)) /\ Goto(d, "err_mask") /\ UNCHANGED held
    <2>1. pc'[d].at = "err_mask"
        BY <1>8, GotoEffect DEF Labels
    <2>2. Live(pc'[d].at, pc'[d].i, h2c_max'[d], c2h_max'[d]) = {}
        BY <2>1, LiveNone DEF None, HasEngines, Active, Complete
    <2>3. ASSUME NEW e \in Engines
          PROVE  e \notin Live("err_engines", i, h, c)
        <3>1. h + c < k
            BY <1>8, EngineSeqFacts
        <3>2. Below(e, h, c) => ~(i < Place(e, h))
            BY <1>2, <3>1, EngineFacts DEF Below, Place
        <3> QED
            BY <1>6, <3>2
    <2>4. LiveEngines(d) = {} /\ LiveEngines(d)' = {}
        BY <1>4, <2>2, <2>3, LiveIs DEF Live
    <2> QED
        BY <1>1, <1>3, <1>5, <1>8, <2>4, EngineParts
<1> QED
    BY <1>7, <1>8 DEF RemoveEngines

LEMMA AllocTouches ==
    ASSUME TypeOK, NEW d \in Devices, ProbeAlloc(d)
    PROVE  Touches(d, {"input", "xpdev", "xdev"})
<1>1. held' = [held EXCEPT ![d] = [held[d] EXCEPT ![One("input")] = 0,
                        ![One("xpdev")] = 1, ![One("xdev")] = 1]]
    BY DEF ProbeAlloc
<1>2. held \in [Devices -> [Resources -> Int]]
    BY DEF TypeOK
<1>3. ASSUME NEW r \in Resources, r[1] \notin {"input", "xpdev", "xdev"}
      PROVE  held'[d][r] = held[d][r]
    <2>1. r # One("input") /\ r # One("xpdev") /\ r # One("xdev")
        BY <1>3, OneKind
    <2> QED
        BY <1>1, <1>2, <2>1
<1> QED
    BY <1>3 DEF Touches

(* The steps that have nothing to do with the engines.                     *)
EngineFree(d) ==
    \/ ProbeAlloc(d) \/ ListAdd(d) \/ EnableDevice(d) \/ RequestRegions(d)
    \/ MapBar(d) \/ MapBarsEnd(d) \/ SetDmaMask(d)
    \/ EnableMsi(d) \/ MsixIrq(d) \/ MsixIrqEnd(d) \/ LineIrq(d) \/ Online(d)
    \/ CreateCdev(d) \/ CreateCdevFails(d) \/ ProbeEnd(d)
    \/ CreateUnwind(d) \/ FreeInterfaces(d) \/ IrqTeardown(d) \/ DisableMsi(d)
    \/ UnmapBars(d) \/ ReleaseRegions(d) \/ DisableDevice(d)
    \/ ListRemove(d) \/ FreeXdev(d) \/ FreeXpdev(d) \/ Pci(d) \/ CtrlIoctl(d)

LEMMA StepSplit ==
    ASSUME NEW d \in Devices, Step(d)
    PROVE  \/ EngineFree(d) \/ RemoveEngines(d)
           \/ \E dir \in {"h2c", "c2h"} : ProbeEngine(d, dir)
    BY DEF Step, Probe, Close, EngineFree

LEMMA EngineFreeTouches ==
    ASSUME TypeOK, NEW d \in Devices, EngineFree(d)
    PROVE  \E K : Touches(d, K) /\ K \cap EngineKinds = {}
<1>1. {"input", "xpdev", "xdev"} \cap EngineKinds = {}
    BY DEF EngineKinds
<1>2. /\ {"listed"} \cap EngineKinds = {} /\ {"enabled"} \cap EngineKinds = {}
      /\ {"regions"} \cap EngineKinds = {} /\ {"bar"} \cap EngineKinds = {}
      /\ {} \cap EngineKinds = {} /\ {"vectors"} \cap EngineKinds = {}
    BY DEF EngineKinds
<1>3. /\ {"irq", "line"} \cap EngineKinds = {} /\ {"cdev", "region"} \cap EngineKinds = {}
      /\ {"region"} \cap EngineKinds = {}
      /\ {"input"} \cap EngineKinds = {} /\ {"xdev"} \cap EngineKinds = {}
      /\ {"xpdev"} \cap EngineKinds = {} /\ {"irq", "line", "enabled"} \cap EngineKinds = {}
    BY DEF EngineKinds
<1>4. CASE \/ ProbeAlloc(d) \/ ListAdd(d) \/ EnableDevice(d) \/ RequestRegions(d)
           \/ MapBar(d) \/ MapBarsEnd(d) \/ SetDmaMask(d)
    BY <1>1, <1>2, <1>4, AllocTouches, OpenTouches
<1>5. CASE \/ EnableMsi(d) \/ MsixIrq(d) \/ MsixIrqEnd(d) \/ LineIrq(d) \/ Online(d)
           \/ CreateCdev(d) \/ CreateCdevFails(d) \/ ProbeEnd(d)
    BY <1>2, <1>3, <1>5, OpenTouches
<1>6. CASE \/ CreateUnwind(d) \/ FreeInterfaces(d) \/ IrqTeardown(d) \/ DisableMsi(d)
           \/ UnmapBars(d) \/ ReleaseRegions(d) \/ DisableDevice(d)
    BY <1>2, <1>3, <1>6, CloseTouches
<1>7. CASE \/ ListRemove(d) \/ FreeXdev(d) \/ FreeXpdev(d)
    BY <1>2, <1>3, <1>7, CloseTouches
<1>8. CASE Pci(d) \/ CtrlIoctl(d)
    BY <1>3, <1>8, CloseTouches DEF Pci, Admin
<1> QED
    BY <1>4, <1>5, <1>6, <1>7, <1>8 DEF EngineFree

LEMMA EngineFreeJumps ==
    ASSUME TypeOK, ListInv, NEW d \in Devices, Placed(d), EngineFree(d)
    PROVE  \/ None(pc[d].at, pc[d].i) /\ None(pc'[d].at, pc'[d].i)
           \/ /\ Full(pc[d].at, pc[d].i) /\ Full(pc'[d].at, pc'[d].i)
              /\ h2c_max'[d] = h2c_max[d] /\ c2h_max'[d] = c2h_max[d]
<1>1. \A at \in {"absent", "list_add", "enable", "regions", "map", "mask", "err_mask",
                 "err_map", "err_regions", "err_enable", "free_xdev", "free_xpdev"} :
        \A i : None(at, i)
    BY DEF None, HasEngines, Active, Complete
<1>2. \A at \in {"msi", "irq", "online", "create", "bound", "oops", "fail", "frozen",
                 "reset", "free_interfaces", "close", "err_msix"} : \A i : Full(at, i)
    BY DEF Full, HasEngines, Active, Complete
<1>3. None("h2c", 0) /\ Full("err_engines", 0)
    BY DEF None, Full, HasEngines, Active, Complete
<1>4. pc[d].at \in {"online", "close"} => HandleFound(d)
    BY DEF ListInv, IsListed, HasBars, HasEngines, Active, Complete
<1>5. CASE \/ ProbeAlloc(d) \/ ListAdd(d) \/ EnableDevice(d) \/ RequestRegions(d)
           \/ MapBar(d) \/ MapBarsEnd(d)
    BY <1>1, <1>5, OpenJumps DEF Jumps
<1>6. CASE SetDmaMask(d)
    <2>1. pc[d].at = "mask" /\ pc'[d].at \in {"h2c", "err_mask"} /\ pc'[d].i = 0
        BY <1>6, GotoEffect DEF SetDmaMask, In, Labels
    <2> QED
        BY <1>1, <1>3, <2>1
<1>7. CASE EnableMsi(d)
    <2>1. pc[d].at = "msi" /\ pc'[d].at \in {"irq", "err_engines"} /\ pc'[d].i = 0
        BY <1>7, GotoEffect DEF EnableMsi, In, Labels
    <2>2. UNCHANGED <<h2c_max, c2h_max>>
        BY <1>7 DEF EnableMsi
    <2> QED
        BY <1>2, <1>3, <2>1, <2>2
<1>8. CASE \/ MsixIrq(d) \/ MsixIrqEnd(d) \/ LineIrq(d) \/ Online(d)
           \/ CreateCdev(d) \/ CreateCdevFails(d) \/ ProbeEnd(d)
    <2>1. UNCHANGED <<h2c_max, c2h_max>>
        BY <1>8 DEF MsixIrq, MsixIrqEnd, LineIrq, Online, CreateCdev, CreateCdevFails,
           ProbeEnd, devVars
    <2> QED
        BY <1>2, <1>4, <1>8, <2>1, OpenJumps DEF Jumps
<1>9. CASE CreateUnwind(d) \/ FreeInterfaces(d) \/ IrqTeardown(d)
    <2>1. UNCHANGED <<h2c_max, c2h_max>>
        BY <1>9 DEF CreateUnwind, FreeInterfaces, IrqTeardown, devVars
    <2> QED
        BY <1>2, <1>4, <1>9, <2>1, CloseJumps DEF Jumps
<1>10. CASE DisableMsi(d)
    <2>1. pc[d].at = "err_msix" /\ pc'[d].at = "err_engines" /\ pc'[d].i = 0
        BY <1>10, GotoEffect DEF DisableMsi, In, Labels
    <2>2. UNCHANGED <<h2c_max, c2h_max>>
        BY <1>10 DEF DisableMsi
    <2> QED
        BY <1>2, <1>3, <2>1, <2>2
<1>11. CASE \/ UnmapBars(d) \/ ReleaseRegions(d) \/ DisableDevice(d)
            \/ ListRemove(d) \/ FreeXdev(d) \/ FreeXpdev(d)
    BY <1>1, <1>11, CloseJumps DEF Jumps
<1>12. CASE Pci(d) \/ CtrlIoctl(d)
    <2>1. UNCHANGED <<h2c_max, c2h_max>>
        BY <1>12, PciJumps DEF devVars
    <2>2. \A at \in Public \cup {"fail"} : \A i : Full(at, i)
        BY <1>2 DEF Public
    <2> QED
        BY <1>12, <2>1, <2>2, PciJumps
<1> QED
    BY <1>5, <1>6, <1>7, <1>8, <1>9, <1>10, <1>11, <1>12 DEF EngineFree

LEMMA EngineStep ==
    ASSUME TypeOK, ListInv, NEW d \in Devices, EngineInv(d), Placed(d), Step(d)
    PROVE  EngineInv(d)'
<1>1. Local(d)
    BY StepLocal
<1>2. CASE EngineFree(d)
    BY <1>1, <1>2, EngineFreeTouches, EngineFreeJumps, EngineQuiet
<1> QED
    BY <1>1, <1>2, StepSplit, ProbeEngineKeeps, RemoveEnginesKeeps
-----------------------------------------------------------------------------
(* The BARs                                                                *)

(* The first n BARs are held once each; of these the first with registers  *)
(* is the config BAR; identify_bars() has found the others.                *)
BarsMapped(d, h, n) ==
    \A b \in 0..5 : h[<<"bar", b>>] = IF \E k \in 1..n : Bars(d)[k].bar = b THEN 1 ELSE 0

ConfigIs(d, x, n) ==
    IF ConfigAt(d, n) = {} THEN x.config = -1
    ELSE \E k \in ConfigAt(d, n) :
            x.config = Bars(d)[k].bar /\ \A j \in ConfigAt(d, n) : k <= j

RolesAre(d, x) ==
    /\ x.config # -1
    /\ Regular(Bars(d)) =>
        /\ x.user = IF Bars(d)[1].kind = "user" THEN Bars(d)[1].bar ELSE -1
        /\ x.bypass = IF Bars(d)[Len(Bars(d))].kind = "bypass"
                      THEN Bars(d)[Len(Bars(d))].bar ELSE -1

BarsAre(d, p, h, x) ==
    LET n == IF p.at \in HasBars THEN Len(Bars(d)) ELSE IF p.at = "map" THEN p.i ELSE 0 IN
    /\ n <= Len(Bars(d))
    /\ BarsMapped(d, h, n)
    /\ p.at \in {"list_add", "enable", "regions"} => x.config = -1
    /\ p.at \in HasBars \cup {"map"} => ConfigIs(d, x, n)
    /\ p.at \in HasBars => RolesAre(d, x)

LEMMA BarParts ==
    ASSUME NEW d \in Devices, UNCHANGED hw
    PROVE  /\ BarInv(d) <=> BarsAre(d, pc[d], held[d], role[d])
           /\ BarInv(d)' <=> BarsAre(d, pc'[d], held'[d], role'[d])
<1>1. Bars(d)' = Bars(d)
    BY DEF Bars
<1>2. \A n : ConfigAt(d, n)' = ConfigAt(d, n)
    BY <1>1 DEF ConfigAt
<1>3. BarInv(d) <=> BarsAre(d, pc[d], held[d], role[d])
    BY DEF BarInv, BarsAre, MappedBars, In, BarsMapped, ConfigIs, RolesAre
<1>4. BarInv(d)' <=> BarsAre(d, pc'[d], held'[d], role'[d])
    <2>1. MappedBars(d)' = IF pc'[d].at \in HasBars THEN Len(Bars(d))
                           ELSE IF pc'[d].at = "map" THEN pc'[d].i ELSE 0
        BY <1>1 DEF MappedBars, In
    <2>2. Regular(Bars(d))' <=> Regular(Bars(d))
        BY <1>1 DEF Regular
    <2> QED
        BY <1>1, <1>2, <2>1, <2>2 DEF BarInv, BarsAre, BarsMapped, ConfigIs, RolesAre
<1> QED
    BY <1>3, <1>4

LEMMA NoBars ==
    ASSUME NEW d \in Devices, NEW h
    PROVE  BarsMapped(d, h, 0) <=> \A b \in 0..5 : h[<<"bar", b>>] = 0
    BY DEF BarsMapped

(* unmap_bars() unmaps what is mapped.                                     *)
LEMMA UnmapAll ==
    ASSUME TypeOK, NEW d \in Devices, NEW n, BarsMapped(d, held[d], n),
           Release(d, BarsHeld(d))
    PROVE  BarsMapped(d, held'[d], 0)
<1>1. ASSUME NEW b \in 0..5
      PROVE  held'[d][<<"bar", b>>] = 0
    <2>1. <<"bar", b>> \in Resources
        BY KindsOfResources
    <2>2. held[d][<<"bar", b>>] \in {0, 1}
        BY DEF BarsMapped
    <2>3. <<"bar", b>> \in BarsHeld(d) <=> held[d][<<"bar", b>>] > 0
        BY DEF BarsHeld
    <2> QED
        BY <2>1, <2>2, <2>3, ReleaseEffect
<1> QED
    BY <1>1, NoBars

(* A step that leaves the BARs alone: they are mapped or not, before and   *)
(* after it.                                                               *)
LEMMA BarQuiet ==
    ASSUME TypeOK, NEW d \in Devices, BarInv(d), Local(d),
           NEW K, Touches(d, K), "bar" \notin K,
           \/ pc[d].at \in HasBars /\ pc'[d].at \in HasBars /\ role'[d] = role[d]
           \/ /\ pc[d].at \notin HasBars \cup {"map"} /\ pc'[d].at \notin HasBars \cup {"map"}
              /\ pc'[d].at \in {"list_add", "enable", "regions"} => role'[d].config = -1
    PROVE  BarInv(d)'
<1>1. BarsAre(d, pc[d], held[d], role[d]) /\ UNCHANGED hw
    BY BarParts DEF Local
<1>2. \A b \in 0..5 : held'[d][<<"bar", b>>] = held[d][<<"bar", b>>]
    <2>1. ASSUME NEW b \in 0..5
          PROVE  held'[d][<<"bar", b>>] = held[d][<<"bar", b>>]
        <3>1. <<"bar", b>> \in Resources /\ <<"bar", b>>[1] = "bar"
            BY KindsOfResources
        <3> QED
            BY <3>1 DEF Touches
    <2> QED
        BY <2>1
<1>3. \A n : BarsMapped(d, held'[d], n) <=> BarsMapped(d, held[d], n)
    BY <1>2 DEF BarsMapped
<1>4. BarsAre(d, pc'[d], held'[d], role'[d])
    <2>1. CASE pc[d].at \in HasBars /\ pc'[d].at \in HasBars /\ role'[d] = role[d]
        <3>1. pc[d].at \notin {"list_add", "enable", "regions", "map"}
              /\ pc'[d].at \notin {"list_add", "enable", "regions", "map"}
            BY <2>1 DEF HasBars, HasEngines, Active, Complete
        <3> QED
            BY <1>1, <1>3, <2>1, <3>1 DEF BarsAre
    <2>2. CASE /\ pc[d].at \notin HasBars \cup {"map"}
               /\ pc'[d].at \notin HasBars \cup {"map"}
               /\ pc'[d].at \in {"list_add", "enable", "regions"} => role'[d].config = -1
        BY <1>1, <1>3, <2>2 DEF BarsAre
    <2> QED
        BY <2>1, <2>2
<1> QED
    BY <1>1, <1>4, BarParts

(* What a mapped BAR, a failed map_bars() and identify_bars() leave.       *)
LEMMA MapBarKeeps ==
    ASSUME TypeOK, NEW d \in Devices, BarInv(d), Local(d), MapBar(d)
    PROVE  BarInv(d)'
<1> DEFINE i == pc[d].i
           b == Bars(d)[i + 1]
<1>1. BarsAre(d, pc[d], held[d], role[d]) /\ UNCHANGED hw
    BY BarParts DEF Local
<1>2. /\ pc[d].at = "map" /\ i < Len(Bars(d)) /\ i \in Nat /\ Len(Bars(d)) \in Nat
      /\ \A at \in {"map", "err_map"} : at \notin HasBars
      /\ "err_map" \notin {"list_add", "enable", "regions"}
    BY LayoutFacts DEF MapBar, In, TypeOK, HasBars, HasEngines, Active, Complete
<1>3. BarsMapped(d, held[d], i) /\ ConfigIs(d, role[d], i)
    BY <1>1, <1>2 DEF BarsAre
<1>4. CASE Release(d, BarsHeld(d)) /\ Goto(d, "err_map")
    <2>1. BarsMapped(d, held'[d], 0)
        BY <1>3, <1>4, UnmapAll
    <2>2. pc'[d].at = "err_map"
        BY <1>4, GotoEffect DEF Labels
    <2> QED
        BY <1>1, <1>2, <2>1, <2>2, BarParts DEF BarsAre
<1>5. CASE /\ Acquire(d, <<"bar", b.bar>>)
           /\ role' = [role EXCEPT ![d].config =
                            IF @ < 0 /\ b.kind = "config" THEN b.bar ELSE @]
           /\ Loop(d)
    <2>1. pc'[d].at = "map" /\ pc'[d].i = i + 1
        BY <1>2, <1>5, LoopEffect
    <2>2. /\ b.bar \in 0..5 /\ i + 1 \in 1..Len(Bars(d))
          /\ \A k \in 1..i : Bars(d)[k].bar # b.bar
        <3>1. i + 1 \in 1..Len(Bars(d))
            BY <1>2
        <3>2. ASSUME NEW k \in 1..i
              PROVE  Bars(d)[k].bar # b.bar
            <4>1. k \in 1..Len(Bars(d)) /\ k # i + 1
                BY <1>2
            <4> QED
                BY <3>1, <4>1, LayoutFacts
        <3> QED
            BY <3>1, <3>2, LayoutFacts
    <2>3. BarsMapped(d, held'[d], i + 1)
        <3>1. ASSUME NEW y \in 0..5
              PROVE  held'[d][<<"bar", y>>] =
                        IF \E k \in 1..(i + 1) : Bars(d)[k].bar = y THEN 1 ELSE 0
            <4>1. <<"bar", y>> \in Resources
                BY KindsOfResources
            <4>2. held'[d][<<"bar", y>>] = IF y = b.bar THEN held[d][<<"bar", y>>] + 1
                                           ELSE held[d][<<"bar", y>>]
                BY <1>5, <4>1, AcquireEffect DEF Acquire
            <4>3. held[d][<<"bar", y>>] =
                        IF \E k \in 1..i : Bars(d)[k].bar = y THEN 1 ELSE 0
                BY <1>3 DEF BarsMapped
            <4>4. (\E k \in 1..(i + 1) : Bars(d)[k].bar = y)
                    <=> (\E k \in 1..i : Bars(d)[k].bar = y) \/ y = b.bar
                <5>1. 1..(i + 1) = 1..i \cup {i + 1}
                    BY <1>2
                <5> QED
                    BY <5>1
            <4>5. y = b.bar => ~(\E k \in 1..i : Bars(d)[k].bar = y)
                BY <2>2
            <4> QED
                BY <4>2, <4>3, <4>4, <4>5
        <3> QED
            BY <3>1 DEF BarsMapped
    <2>4. role'[d].config = IF role[d].config < 0 /\ b.kind = "config" THEN b.bar
                            ELSE role[d].config
        <3>1. role[d] \in [config : -1..5, user : -1..5, bypass : -1..5]
              /\ role \in [Devices -> [config : -1..5, user : -1..5, bypass : -1..5]]
            BY DEF TypeOK
        <3> QED
            BY <1>5, <3>1
    <2>5. ConfigAt(d, i + 1) = IF b.kind = "config" THEN ConfigAt(d, i) \cup {i + 1}
                               ELSE ConfigAt(d, i)
        <3>1. 1..(i + 1) = 1..i \cup {i + 1}
            BY <1>2
        <3> QED
            BY <3>1 DEF ConfigAt
    <2>6. \A k \in ConfigAt(d, i) : k \in 1..i /\ Bars(d)[k].bar \in 0..5
        BY <1>2, LayoutFacts DEF ConfigAt
    <2>7. ConfigIs(d, role'[d], i + 1)
        <3>1. CASE ConfigAt(d, i) = {}
            <4>1. role[d].config = -1
                BY <1>3, <3>1 DEF ConfigIs
            <4>2. CASE b.kind = "config"
                <5>1. ConfigAt(d, i + 1) = {i + 1} /\ role'[d].config = b.bar
                    BY <2>4, <2>5, <3>1, <4>1, <4>2
                <5>2. i + 1 <= i + 1
                    BY <1>2
                <5> QED
                    BY <5>1, <5>2 DEF ConfigIs
            <4>3. CASE b.kind # "config"
                BY <2>4, <2>5, <3>1, <4>1, <4>3 DEF ConfigIs
            <4> QED
                BY <4>2, <4>3
        <3>2. CASE ConfigAt(d, i) # {}
            <4>1. PICK k \in ConfigAt(d, i) :
                    role[d].config = Bars(d)[k].bar /\ \A j \in ConfigAt(d, i) : k <= j
                BY <1>3, <3>2 DEF ConfigIs
            <4>2. role'[d].config = Bars(d)[k].bar
                BY <2>4, <2>6, <4>1
            <4>3. k \in ConfigAt(d, i + 1) /\ \A j \in ConfigAt(d, i + 1) : k <= j
                BY <1>2, <2>5, <2>6, <4>1
            <4> QED
                BY <4>2, <4>3 DEF ConfigIs
        <3> QED
            BY <3>1, <3>2
    <2>8. i + 1 <= Len(Bars(d))
        BY <1>2
    <2> QED
        BY <1>1, <1>2, <2>1, <2>3, <2>7, <2>8, BarParts DEF BarsAre
<1> QED
    BY <1>4, <1>5 DEF MapBar

LEMMA SameInterval ==
    ASSUME NEW m \in Nat, NEW n \in Nat, 1..m = 1..n
    PROVE  m = n
<1>1. m >= 1 => m \in 1..n
    OBVIOUS
<1>2. n >= 1 => n \in 1..m
    OBVIOUS
<1> QED
    BY <1>1, <1>2

(* identify_bars() finds the BARs of the rule.                             *)
LEMMA Identified ==
    ASSUME TypeOK, NEW d \in Devices, Regular(Bars(d)),
           NEW x, ConfigIs(d, x, Len(Bars(d))), x.config # -1,
           NEW p, p = CHOOSE i \in 0..(Len(Bars(d)) - 1) : Bars(d)[i + 1].bar = x.config
    PROVE  /\ IdentifyBars(Bars(d), p).user =
                IF Bars(d)[1].kind = "user" THEN Bars(d)[1].bar ELSE -1
           /\ IdentifyBars(Bars(d), p).bypass =
                IF Bars(d)[Len(Bars(d))].kind = "bypass" THEN Bars(d)[Len(Bars(d))].bar
                ELSE -1
<1> DEFINE s == Bars(d)
           n == Len(s)
<1>1. n \in Nat
    BY LayoutFacts
<1>2. PICK k \in 1..n : s[k].kind = "config" /\ x.config = s[k].bar
    BY DEF ConfigIs, ConfigAt
<1>3. p = k - 1
    <2>1. k - 1 \in 0..(n - 1) /\ s[(k - 1) + 1].bar = x.config
        BY <1>1, <1>2
    <2>2. p \in 0..(n - 1) /\ s[p + 1].bar = x.config
        BY <2>1
    <2>3. p + 1 \in 1..n
        BY <1>1, <2>2
    <2>4. p + 1 = k
        BY <1>2, <2>2, <2>3, LayoutFacts
    <2> QED
        BY <1>1, <2>2, <2>4
<1> DEFINE f == [j \in 1..n |-> s[j].kind]
<1>4. \A j \in 1..n : f[j] = s[j].kind
    OBVIOUS
<1>5. DOMAIN f = 1..n
    OBVIOUS
<1>6. f \in {<<"config">>, <<"user", "config">>, <<"config", "bypass">>,
             <<"user", "config", "bypass">>}
    BY DEF Regular
<1> HIDE DEF f, n
<1>7. CASE f = <<"config">>
    <2>1. n = 1 /\ s[1].kind = "config"
        <3>1. Len(f) = 1
            BY <1>7
        <3>2. DOMAIN f = 1..1
            BY <1>7
        <3>3. n = 1
            BY <1>1, <1>5, <3>2, SameInterval
        <3> QED
            BY <1>4, <1>7, <3>3
    <2> QED
        BY <2>1 DEF IdentifyBars, n
<1>8. CASE f = <<"user", "config">>
    <2>1. n = 2
        <3>1. DOMAIN f = 1..2
            BY <1>8
        <3> QED
            BY <1>1, <1>5, <3>1, SameInterval
    <2>2. s[1].kind = "user" /\ s[2].kind = "config"
        BY <1>4, <1>8, <2>1
    <2>3. k = 2
        BY <1>2, <2>1, <2>2
    <2> QED
        BY <1>3, <2>1, <2>2, <2>3 DEF IdentifyBars, n
<1>9. CASE f = <<"config", "bypass">>
    <2>1. n = 2
        <3>1. DOMAIN f = 1..2
            BY <1>9
        <3> QED
            BY <1>1, <1>5, <3>1, SameInterval
    <2>2. s[1].kind = "config" /\ s[2].kind = "bypass"
        BY <1>4, <1>9, <2>1
    <2>3. p = 0
        BY <1>2, <1>3, <2>1, <2>2
    <2>4. IdentifyBars(s, p) = [user |-> -1, bypass |-> s[2].bar]
        <3>1. ASSUME NEW q, Len(q) = 2
              PROVE  IdentifyBars(q, 0) = [user |-> -1, bypass |-> q[2].bar]
            BY <3>1 DEF IdentifyBars
        <3> QED
            BY <2>1, <2>3, <3>1 DEF n
    <2> QED
        BY <2>1, <2>2, <2>4 DEF n
<1>10. CASE f = <<"user", "config", "bypass">>
    <2>1. n = 3
        <3>1. DOMAIN f = 1..3
            BY <1>10
        <3> QED
            BY <1>1, <1>5, <3>1, SameInterval
    <2>2. s[1].kind = "user" /\ s[2].kind = "config" /\ s[3].kind = "bypass"
        BY <1>4, <1>10, <2>1
    <2>3. k = 2
        BY <1>2, <2>1, <2>2
    <2> QED
        BY <1>3, <2>1, <2>2, <2>3 DEF IdentifyBars, n
<1> QED
    BY <1>6, <1>7, <1>8, <1>9, <1>10

LEMMA MapBarsEndKeeps ==
    ASSUME TypeOK, NEW d \in Devices, BarInv(d), Local(d), MapBarsEnd(d)
    PROVE  BarInv(d)'
<1> DEFINE n == Len(Bars(d))
           p == CHOOSE i \in 0..(Len(Bars(d)) - 1) : Bars(d)[i + 1].bar = role[d].config
           f == IdentifyBars(Bars(d), p)
<1>1. BarsAre(d, pc[d], held[d], role[d]) /\ UNCHANGED hw
    BY BarParts DEF Local
<1>2. /\ pc[d].at = "map" /\ pc[d].i = n /\ n \in Nat
      /\ "mask" \in HasBars /\ \A at \in {"map", "err_map"} : at \notin HasBars
    BY LayoutFacts DEF MapBarsEnd, In, HasBars, HasEngines, Active, Complete
<1>3. BarsMapped(d, held[d], n) /\ ConfigIs(d, role[d], n)
    BY <1>1, <1>2 DEF BarsAre
<1>4. CASE Release(d, BarsHeld(d)) /\ Goto(d, "err_map")
    <2>1. BarsMapped(d, held'[d], 0)
        BY <1>3, <1>4, UnmapAll
    <2>2. pc'[d].at = "err_map"
        BY <1>4, GotoEffect DEF Labels
    <2> QED
        BY <1>1, <1>2, <2>1, <2>2, BarParts DEF BarsAre
<1>5. CASE /\ role[d].config >= 0
           /\ role' = [role EXCEPT ![d].user = f.user, ![d].bypass = f.bypass]
           /\ Goto(d, "mask") /\ UNCHANGED held
    <2>1. pc'[d].at = "mask"
        BY <1>5, GotoEffect DEF Labels
    <2>2. /\ role'[d].config = role[d].config
          /\ role'[d].user = f.user /\ role'[d].bypass = f.bypass
        <3>1. role \in [Devices -> [config : -1..5, user : -1..5, bypass : -1..5]]
            BY DEF TypeOK
        <3> HIDE DEF f
        <3> QED
            BY <1>5, <3>1
    <2>3. role[d].config # -1
        BY <1>5
    <2>4. ConfigIs(d, role'[d], n)
        BY <1>3, <2>2 DEF ConfigIs
    <2>5. RolesAre(d, role'[d])
        <3>1. Regular(Bars(d)) =>
                /\ f.user = IF Bars(d)[1].kind = "user" THEN Bars(d)[1].bar ELSE -1
                /\ f.bypass = IF Bars(d)[n].kind = "bypass" THEN Bars(d)[n].bar ELSE -1
            BY <1>3, <2>3, Identified
        <3> QED
            BY <2>2, <2>3, <3>1 DEF RolesAre
    <2>6. n <= n
        BY <1>2
    <2> QED
        BY <1>1, <1>2, <1>3, <1>5, <2>1, <2>4, <2>5, <2>6, BarParts DEF BarsAre
<1> QED
    BY <1>4, <1>5 DEF MapBarsEnd

LEMMA BarEnds ==
    ASSUME TypeOK, NEW d \in Devices, BarInv(d), Local(d),
           RequestRegions(d) \/ UnmapBars(d)
    PROVE  BarInv(d)'
<1>1. BarsAre(d, pc[d], held[d], role[d]) /\ UNCHANGED hw
    BY BarParts DEF Local
<1>2. Len(Bars(d)) \in Nat
    BY LayoutFacts
<1>3. CASE RequestRegions(d)
    <2>1. /\ pc[d].at = "regions" /\ pc'[d].i = 0
          /\ pc'[d].at \in {"map", "err_regions"} /\ role'[d] = role[d]
        BY <1>3, GotoEffect DEF RequestRegions, In, Labels
    <2>2. \A at \in {"regions", "map", "err_regions"} : at \notin HasBars
        BY DEF HasBars, HasEngines, Active, Complete
    <2>3. BarsMapped(d, held[d], 0) /\ role[d].config = -1
        BY <1>1, <2>1, <2>2 DEF BarsAre
    <2>4. BarsMapped(d, held'[d], 0)
        <3>1. Touches(d, {"regions"})
            BY <1>3, OpenTouches
        <3>2. ASSUME NEW b \in 0..5
              PROVE  held'[d][<<"bar", b>>] = held[d][<<"bar", b>>]
            <4>1. <<"bar", b>> \in Resources /\ <<"bar", b>>[1] = "bar"
                BY KindsOfResources
            <4> QED
                BY <3>1, <4>1 DEF Touches
        <3> QED
            BY <2>3, <3>2, NoBars
    <2>5. ConfigIs(d, role'[d], 0)
        <3>1. ConfigAt(d, 0) = {}
            BY DEF ConfigAt
        <3> QED
            BY <2>1, <2>3, <3>1 DEF ConfigIs
    <2> QED
        BY <1>1, <1>2, <2>1, <2>2, <2>4, <2>5, BarParts DEF BarsAre
<1>4. CASE UnmapBars(d)
    <2>1. pc[d].at = "err_mask" /\ pc'[d].at = "err_map" /\ Release(d, BarsHeld(d))
        BY <1>4, CloseJumps DEF UnmapBars, Jumps
    <2>2. "err_mask" \in HasBars /\ "err_map" \notin HasBars
        BY DEF HasBars, HasEngines, Active, Complete
    <2>3. BarsMapped(d, held[d], Len(Bars(d)))
        BY <1>1, <2>1, <2>2 DEF BarsAre
    <2>4. BarsMapped(d, held'[d], 0)
        BY <2>1, <2>3, UnmapAll
    <2> QED
        BY <1>1, <1>2, <2>1, <2>2, <2>4, BarParts DEF BarsAre
<1> QED
    BY <1>3, <1>4

LEMMA BarStep ==
    ASSUME TypeOK, ListInv, NEW d \in Devices, EngineInv(d), BarInv(d), Placed(d), Step(d)
    PROVE  BarInv(d)'
<1> USE DEF modVars, boundVars, devVars, listVars, cdevVars
<1>1. Local(d)
    BY StepLocal
<1>2. ASSUME NEW K, Touches(d, K), "bar" \notin K, UNCHANGED role,
             pc[d].at \in HasBars /\ pc'[d].at \in HasBars
      PROVE  BarInv(d)'
    BY <1>1, <1>2, BarQuiet
<1>3. {"mask", "h2c", "c2h", "err_engines", "err_mask", "msi", "irq", "frozen", "reset",
       "err_msix", "online", "create", "bound", "oops", "fail", "free_interfaces",
       "close"} \cup Public \subseteq HasBars
    BY DEF HasBars, HasEngines, Active, Complete, Public
<1>4. \A at \in {"absent", "list_add", "enable", "regions", "err_map", "err_regions",
                 "err_enable", "free_xdev", "free_xpdev"} : at \notin HasBars \cup {"map"}
    BY DEF HasBars, HasEngines, Active, Complete
<1>5. pc[d].at \in {"online", "close"} => HandleFound(d)
    BY DEF ListInv, IsListed, HasBars, HasEngines, Active, Complete
<1>6. CASE MapBar(d) \/ MapBarsEnd(d) \/ RequestRegions(d) \/ UnmapBars(d)
    BY <1>1, <1>6, MapBarKeeps, MapBarsEndKeeps, BarEnds
<1>7. CASE ProbeAlloc(d)
    <2>1. role'[d].config = -1
        BY <1>7 DEF ProbeAlloc, NoRole, TypeOK
    <2>2. pc[d].at = "absent" /\ pc'[d].at = "list_add"
        BY <1>7, OpenJumps DEF Jumps
    <2>3. Touches(d, {"input", "xpdev", "xdev"}) /\ "bar" \notin {"input", "xpdev", "xdev"}
        BY <1>7, AllocTouches
    <2> QED
        BY <1>1, <1>4, <2>1, <2>2, <2>3, BarQuiet
<1>8. CASE ListAdd(d) \/ EnableDevice(d)
    <2>1. UNCHANGED role
        BY <1>8 DEF ListAdd, EnableDevice
    <2>2. /\ pc[d].at \in {"list_add", "enable"}
          /\ pc'[d].at \in {"enable", "free_xdev", "regions", "err_enable"}
        BY <1>8, OpenJumps DEF Jumps
    <2>3. Touches(d, {"listed"}) \/ Touches(d, {"enabled"})
        BY <1>8, OpenTouches
    <2>4. role[d].config = -1
        BY <2>2 DEF BarInv
    <2> QED
        BY <1>1, <1>4, <2>1, <2>2, <2>3, <2>4, BarQuiet
<1>9. CASE SetDmaMask(d) \/ MsixIrqEnd(d) \/ Online(d) \/ CreateCdevFails(d) \/ EnableMsi(d)
    <2>1. UNCHANGED role
        BY <1>9 DEF SetDmaMask, MsixIrqEnd, Online, CreateCdevFails, EnableMsi
    <2>2. pc[d].at \in HasBars /\ pc'[d].at \in HasBars
        BY <1>3, <1>5, <1>9, OpenJumps DEF Jumps
    <2>3. Touches(d, {}) \/ Touches(d, {"vectors"}) \/ Touches(d, {"region"})
        BY <1>9, OpenTouches
    <2> QED
        BY <1>2, <2>1, <2>2, <2>3
<1>10. CASE MsixIrq(d) \/ LineIrq(d) \/ CreateCdev(d) \/ ProbeEnd(d)
    <2>1. UNCHANGED role
        BY <1>10 DEF MsixIrq, LineIrq, CreateCdev, ProbeEnd
    <2>2. pc[d].at \in HasBars /\ pc'[d].at \in HasBars
        BY <1>3, <1>10, OpenJumps DEF Jumps
    <2>3. Touches(d, {"irq", "line"}) \/ Touches(d, {"cdev", "region"}) \/ Touches(d, {"input"})
        BY <1>10, OpenTouches
    <2> QED
        BY <1>2, <2>1, <2>2, <2>3
<1>11. ASSUME RemoveEngines(d) \/ \E dir \in {"h2c", "c2h"} : ProbeEngine(d, dir)
       PROVE  BarInv(d)'
    <2>1. UNCHANGED role
        BY <1>11 DEF RemoveEngines, ProbeEngine
    <2>2. pc[d].at \in HasBars /\ pc'[d].at \in HasBars
        BY <1>3, <1>11, OpenJumps, CloseJumps DEF Jumps
    <2>3. Touches(d, EngineKinds)
        BY <1>11, EngineTouches
    <2> QED
        BY <1>2, <2>1, <2>2, <2>3 DEF EngineKinds
<1>12. CASE CreateUnwind(d) \/ FreeInterfaces(d) \/ IrqTeardown(d) \/ DisableMsi(d)
    <2>1. UNCHANGED role
        BY <1>12 DEF CreateUnwind, FreeInterfaces, IrqTeardown, DisableMsi
    <2>2. pc[d].at \in HasBars /\ pc'[d].at \in HasBars
        BY <1>3, <1>5, <1>12, CloseJumps DEF Jumps
    <2>3. Touches(d, {"irq", "line"}) \/ Touches(d, {"cdev", "region"}) \/ Touches(d, {"vectors"})
        BY <1>12, CloseTouches
    <2> QED
        BY <1>2, <2>1, <2>2, <2>3
<1>13. CASE ReleaseRegions(d) \/ DisableDevice(d) \/ ListRemove(d) \/ FreeXdev(d)
            \/ FreeXpdev(d)
    <2>1. UNCHANGED role
        BY <1>13 DEF ReleaseRegions, DisableDevice, ListRemove, FreeXdev, FreeXpdev
    <2>2. /\ pc[d].at \in {"err_map", "err_regions", "err_enable", "free_xdev", "free_xpdev"}
          /\ pc'[d].at \in {"err_regions", "err_enable", "free_xdev", "free_xpdev", "absent"}
        BY <1>13, CloseJumps DEF Jumps
    <2>3. \/ Touches(d, {"regions"}) \/ Touches(d, {"enabled"}) \/ Touches(d, {"listed"})
          \/ Touches(d, {"xdev"}) \/ Touches(d, {"xpdev"})
        BY <1>13, CloseTouches
    <2> QED
        BY <1>1, <1>4, <2>1, <2>2, <2>3, BarQuiet
<1>14. ASSUME Pci(d) \/ CtrlIoctl(d)
       PROVE  BarInv(d)'
    <2>1. UNCHANGED role
        BY <1>14, PciJumps
    <2>2. pc[d].at \in HasBars /\ pc'[d].at \in HasBars
        BY <1>3, <1>14, PciJumps
    <2> QED
        BY <1>2, <1>14, <2>1, <2>2, PciJumps
<1> QED
    BY <1>6, <1>7, <1>8, <1>9, <1>10, <1>11, <1>12, <1>13, <1>14
       DEF Step, Probe, Close
-----------------------------------------------------------------------------
(* What has been noted                                                     *)

(* The notes of a step of a probe are of the kinds K.                      *)
Notes(d, K) == \E W : (\A w \in W : w[1] \in K) /\ cut'[d] = cut[d] \cup W

PlainNotes == {"threads", "enable", "regions", "map", "mask", "engine", "msi", "line"}

LEMMA NotesOf ==
    ASSUME TypeOK, NEW d \in Devices
    PROVE  /\ \A K : UNCHANGED cut => Notes(d, K)
           /\ \A K, W : Note(d, W) /\ (\A w \in W : w[1] \in K) => Notes(d, K)
           /\ \A K, n : Fails(d, One(n)) /\ n \in K => Notes(d, K)
<1>1. ASSUME NEW K, UNCHANGED cut
      PROVE  Notes(d, K)
    <2>1. cut'[d] = cut[d] \cup {} /\ \A w \in {} : w[1] \in K
        BY <1>1
    <2> QED
        BY <2>1 DEF Notes
<1>2. ASSUME NEW K, NEW W, Note(d, W), \A w \in W : w[1] \in K
      PROVE  Notes(d, K)
    <2>1. cut'[d] = cut[d] \cup W
        BY <1>2 DEF Note, TypeOK
    <2> QED
        BY <1>2, <2>1 DEF Notes
<1>3. ASSUME NEW K, NEW n, Fails(d, One(n)), n \in K
      PROVE  Notes(d, K)
    <2>1. Note(d, {One(n)}) /\ \A w \in {One(n)} : w[1] \in K
        BY <1>3, OneKind DEF Fails
    <2> QED
        BY <1>2, <2>1
<1> QED
    BY <1>1, <1>2, <1>3

LEMMA StepNotes ==
    ASSUME TypeOK, NEW d \in Devices, Step(d), ~ProbeAlloc(d)
    PROVE  \/ MsixIrq(d) /\ Notes(d, {"irq"})
           \/ CreateCdevFails(d) /\ Notes(d, {"cdev", "user_region"})
           \/ ProbeEnd(d) /\ Notes(d, {"input", "unregistered"})
           \/ RemoveOne(d) /\ Notes(d, {"removed", "frozen"})
           \/ Admin(d) /\ Notes(d, {"offline", "line_twice"})
           \/ Notes(d, PlainNotes)
<1> DEFINE P == Notes(d, PlainNotes)
<1>1. UNCHANGED cut => P
    BY NotesOf
<1>2. \A n \in {"threads", "enable", "regions", "map", "mask", "engine", "msi", "line"} :
            Fails(d, One(n)) => P
    BY NotesOf DEF PlainNotes
<1> HIDE DEF P
<1>3. ListAdd(d) \/ EnableDevice(d) \/ RequestRegions(d) => P
    BY <1>1, <1>2 DEF ListAdd, EnableDevice, RequestRegions, Succeeds
<1>4. MapBar(d) \/ MapBarsEnd(d) \/ SetDmaMask(d) => P
    BY <1>1, <1>2 DEF MapBar, MapBarsEnd, SetDmaMask, Succeeds
<1>5. (\E dir \in {"h2c", "c2h"} : ProbeEngine(d, dir)) => P
    BY <1>1, <1>2 DEF ProbeEngine, Succeeds
<1>6. EnableMsi(d) \/ MsixIrqEnd(d) \/ LineIrq(d) \/ Online(d) \/ CreateCdev(d) => P
    BY <1>1, <1>2 DEF EnableMsi, MsixIrqEnd, LineIrq, Online, CreateCdev, Succeeds
<1>7. Close(d) => P
    BY <1>1 DEF Close, CreateUnwind, FreeInterfaces, IrqTeardown, DisableMsi,
       RemoveEngines, UnmapBars, ReleaseRegions, DisableDevice, ListRemove, FreeXdev,
       FreeXpdev
<1>8. ASSUME Admin(d)
      PROVE  Notes(d, {"offline", "line_twice"})
    <2> DEFINE Q == {{}, {One("offline")}, {One("line_twice")}}
    <2>1. PICK W \in Q : cut'[d] = cut[d] \cup W
        BY <1>8, AdminNotes
    <2>2. \A w \in W : w[1] \in {"offline", "line_twice"}
        BY OneKind
    <2> QED
        BY <2>1, <2>2 DEF Notes
<1>9. ASSUME MsixIrq(d)
      PROVE  Notes(d, {"irq"})
    <2>1. CASE UNCHANGED cut
        BY <2>1, NotesOf
    <2>2. CASE Fails(d, <<"irq", pc[d].i>>)
        <3>1. Note(d, {<<"irq", pc[d].i>>}) /\ \A w \in {<<"irq", pc[d].i>>} : w[1] \in {"irq"}
            BY <2>2 DEF Fails
        <3> QED
            BY <3>1, NotesOf
    <2> QED
        BY <1>9, <2>1, <2>2 DEF MsixIrq, Succeeds
<1>10. ASSUME CreateCdevFails(d)
       PROVE  Notes(d, {"cdev", "user_region"})
    <2> DEFINE x == <<"cdev", pc[d].i + 1>>
    <2>1. Note(d, {x}) \/ Note(d, {x, One("user_region")})
        BY <1>10 DEF CreateCdevFails
    <2>2. x[1] = "cdev"
        OBVIOUS
    <2> HIDE DEF x
    <2>3. /\ \A w \in {x} : w[1] \in {"cdev", "user_region"}
          /\ \A w \in {x, One("user_region")} : w[1] \in {"cdev", "user_region"}
        BY <2>2, OneKind
    <2> QED
        BY <2>1, <2>3, NotesOf
<1>11. ASSUME ProbeEnd(d)
       PROVE  Notes(d, {"input", "unregistered"})
    BY <1>11, NotesOf DEF ProbeEnd, Succeeds
<1>12. ASSUME RemoveOne(d)
       PROVE  Notes(d, {"removed", "frozen"})
    <2>1. \E W \in SUBSET {One("removed"), One("frozen")} : Note(d, W)
        BY <1>12 DEF RemoveOne
    <2>2. PICK W \in SUBSET {One("removed"), One("frozen")} : Note(d, W)
        BY <2>1
    <2>3. \A w \in W : w[1] \in {"removed", "frozen"}
        BY OneKind
    <2> QED
        BY <2>2, <2>3, NotesOf
<1> QED
    BY <1>3, <1>4, <1>5, <1>6, <1>7, <1>8, <1>9, <1>10, <1>11, <1>12
       DEF Step, Probe, Pci, Admin, P

(* The notes of other kinds are what they were.                            *)
LEMMA KindsKept ==
    ASSUME NEW d \in Devices, NEW K, Notes(d, K)
    PROVE  /\ cut[d] \subseteq cut'[d]
           /\ \A n : n \notin K =>
                /\ CutAt(d, n)' = CutAt(d, n)
                /\ One(n) \in cut'[d] <=> One(n) \in cut[d]
<1>1. PICK W : (\A w \in W : w[1] \in K) /\ cut'[d] = cut[d] \cup W
    BY DEF Notes
<1>2. ASSUME NEW n, n \notin K
      PROVE  CutAt(d, n)' = CutAt(d, n) /\ (One(n) \in cut'[d] <=> One(n) \in cut[d])
    <2>1. \A w \in W : w[1] # n
        BY <1>1, <1>2
    <2>2. One(n) \notin W
        BY <2>1, OneKind
    <2>3. CutAt(d, n)' = CutAt(d, n)
        BY <1>1, <2>1, CutGrows
    <2> QED
        BY <1>1, <2>2, <2>3
<1> QED
    BY <1>1, <1>2

(* What a probe has noted stays noted.                                     *)
LEMMA CutKept ==
    ASSUME TypeOK, NEW d \in Devices, Step(d), ~ProbeAlloc(d)
    PROVE  cut[d] \subseteq cut'[d]
    BY StepNotes, KindsKept

(* Which step notes what.                                                  *)
LEMMA NotesKept ==
    ASSUME TypeOK, NEW d \in Devices, Step(d), ~ProbeAlloc(d)
    PROVE  /\ ~MsixIrq(d) => CutAt(d, "irq")' = CutAt(d, "irq")
           /\ ~CreateCdevFails(d) =>
                /\ CutAt(d, "cdev")' = CutAt(d, "cdev")
                /\ One("user_region") \in cut'[d] <=> One("user_region") \in cut[d]
           /\ ~ProbeEnd(d) => (One("unregistered") \in cut'[d] <=> One("unregistered") \in cut[d])
           /\ ~RemoveOne(d) =>
                /\ One("removed") \in cut'[d] <=> One("removed") \in cut[d]
                /\ One("frozen") \in cut'[d] <=> One("frozen") \in cut[d]
           /\ ~Admin(d) => (One("line_twice") \in cut'[d] <=> One("line_twice") \in cut[d])
<1>1. PICK K : /\ Notes(d, K)
               /\ \/ MsixIrq(d) /\ K = {"irq"}
                  \/ CreateCdevFails(d) /\ K = {"cdev", "user_region"}
                  \/ ProbeEnd(d) /\ K = {"input", "unregistered"}
                  \/ RemoveOne(d) /\ K = {"removed", "frozen"}
                  \/ Admin(d) /\ K = {"offline", "line_twice"}
                  \/ K = PlainNotes
    BY StepNotes
<1>3. ~MsixIrq(d) => "irq" \notin K
    BY <1>1 DEF PlainNotes
<1>4. ~CreateCdevFails(d) => "cdev" \notin K /\ "user_region" \notin K
    BY <1>1 DEF PlainNotes
<1>5. ~ProbeEnd(d) => "unregistered" \notin K
    BY <1>1 DEF PlainNotes
<1>6. ~RemoveOne(d) => "removed" \notin K /\ "frozen" \notin K
    BY <1>1 DEF PlainNotes
<1>7. ~Admin(d) => "line_twice" \notin K
    BY <1>1 DEF PlainNotes
<1>8. /\ ~MsixIrq(d) => CutAt(d, "irq")' = CutAt(d, "irq")
      /\ ~CreateCdevFails(d) => CutAt(d, "cdev")' = CutAt(d, "cdev")
    BY <1>1, <1>3, <1>4, KindsKept
<1>9. /\ ~CreateCdevFails(d) => (One("user_region") \in cut'[d] <=> One("user_region") \in cut[d])
      /\ ~ProbeEnd(d) => (One("unregistered") \in cut'[d] <=> One("unregistered") \in cut[d])
      /\ ~RemoveOne(d) => /\ One("removed") \in cut'[d] <=> One("removed") \in cut[d]
                          /\ One("frozen") \in cut'[d] <=> One("frozen") \in cut[d]
      /\ ~Admin(d) => (One("line_twice") \in cut'[d] <=> One("line_twice") \in cut[d])
    BY <1>1, <1>4, <1>5, <1>6, <1>7, KindsKept
<1> QED
    BY <1>8, <1>9
-----------------------------------------------------------------------------
(* The interrupts                                                          *)

IrqCount(d) == ChannelIrqs(d) + UserIrqs

(* What the invariant says of one that is held n times, from the label, the *)
(* loop counter, those that are left, the notes, the kind of interrupt and *)
(* irq_teardown()'s set.                                                   *)
IrqIs(at, i, L, c, m, S, r, n) ==
    LET twice == r = One("line") /\ One("line_twice") \in c IN
    /\ n \in Nat
    /\ at \in Active =>
            /\ r \notin S => n = 0
            /\ r \in S => n <= 1 \/ twice
            /\ r \in S => n >= 1 \/ One("offline") \in c
    /\ at \notin Active =>
            \/ n = Num(\/ r \in L
                       \/ at = "irq" /\ m = "msix" /\ r \in {"irq"} \X (0..(i - 1)))
            \/ twice

LEMMA IrqParts ==
    ASSUME NEW d \in Devices
    PROVE  /\ IrqInv(d) <=>
                /\ CutAt(d, "irq") # {} => pc[d].at \in Unwinding /\ hw[d].cap = "msix"
                /\ One("line_twice") \in cut[d] => pc[d].at \in Active \cup Unwinding
                /\ pc[d].at = "irq" => pc[d].i <= IrqCount(d)
                /\ \A r \in Irqs : IrqIs(pc[d].at, pc[d].i, IrqsLeft(d), cut[d], msi[d],
                                         IrqSet(d), r, held[d][r])
           /\ IrqInv(d)' <=>
                /\ CutAt(d, "irq")' # {} => pc'[d].at \in Unwinding /\ hw'[d].cap = "msix"
                /\ One("line_twice") \in cut'[d] => pc'[d].at \in Active \cup Unwinding
                /\ pc'[d].at = "irq" => pc'[d].i <= IrqCount(d)'
                /\ \A r \in Irqs : IrqIs(pc'[d].at, pc'[d].i, IrqsLeft(d)', cut'[d], msi'[d],
                                         IrqSet(d)', r, held'[d][r])
    BY DEF IrqInv, IrqIs, In, IrqCount, Num

LEMMA IrqFacts ==
    ASSUME NEW r \in Irqs
    PROVE  \/ r = One("line") /\ r[1] = "line"
           \/ r[1] = "irq" /\ r[2] \in Vectors /\ r = <<"irq", r[2]>>
    BY OneKind DEF Irqs

LEMMA IrqCountType ==
    ASSUME TypeOK, NEW d \in Devices
    PROVE  /\ IrqCount(d) \in Nat /\ IrqCount(d) <= 2 * Channels + UserIrqs
           /\ ChannelIrqs(d) \in Nat /\ ChannelIrqs(d) <= 2 * Channels
<1> DEFINE h == h2c_max[d]
           c == c2h_max[d]
<1>1. h \in 0..Channels /\ c \in 0..Channels
    BY DEF TypeOK
<1>2. ChannelIrqs(d) = h + c /\ IrqCount(d) = (h + c) + UserIrqs
    BY DEF IrqCount, ChannelIrqs
<1> HIDE DEF h, c
<1>3. h + c \in Nat /\ h + c <= 2 * Channels
    BY <1>1, CountsAssumption
<1> QED
    BY <1>2, <1>3, CountsAssumption

LEMMA LabelsApart ==
    /\ Active \cap Unwinding = {} /\ "irq" \notin Active \cup Unwinding
    /\ Public \cup {"fail", "bound", "frozen", "reset", "online", "close"} \subseteq Active
    /\ {"err_msix", "err_engines", "err_mask", "err_map", "err_regions", "err_enable",
        "free_xdev", "free_xpdev", "absent"} = Unwinding
    BY DEF Active, Complete, Unwinding, Public

(* No vectors are left when none has failed; and those that are left do    *)
(* not change as long as the numbers of the engines do not.                *)
LEMMA LeftIs ==
    ASSUME NEW d \in Devices
    PROVE  /\ CutAt(d, "irq") = {} => IrqsLeft(d) = {}
           /\ CutAt(d, "irq")' = {} => IrqsLeft(d)' = {}
           /\ /\ CutAt(d, "irq")' = CutAt(d, "irq")
              /\ \/ CutAt(d, "irq") = {}
                 \/ h2c_max'[d] = h2c_max[d] /\ c2h_max'[d] = c2h_max[d]
              => IrqsLeft(d)' = IrqsLeft(d)
<1>1. CutAt(d, "irq") = {} => IrqsLeft(d) = {}
    BY DEF IrqsLeft
<1>2. CutAt(d, "irq")' = {} => IrqsLeft(d)' = {}
    BY DEF IrqsLeft
<1>3. ASSUME CutAt(d, "irq")' = CutAt(d, "irq"),
             h2c_max'[d] = h2c_max[d], c2h_max'[d] = c2h_max[d]
      PROVE  IrqsLeft(d)' = IrqsLeft(d)
    BY <1>3 DEF IrqsLeft, ChannelIrqs
<1> QED
    BY <1>1, <1>2, <1>3

LEMMA IrqUntouched ==
    ASSUME TypeOK, NEW d \in Devices, NEW K, Touches(d, K), "irq" \notin K, "line" \notin K,
           NEW r \in Irqs
    PROVE  held'[d][r] = held[d][r] /\ held[d][r] \in Int /\ r \in Resources
<1>1. r \in Resources /\ r[1] \in {"irq", "line"}
    BY KindsOfResources
<1>2. r[1] \notin K
    BY <1>1
<1> QED
    BY <1>1, <1>2 DEF Touches, TypeOK

(* A step that requests and frees no interrupt, of a device whose are not  *)
(* requested, or all are.                                                  *)
LEMMA IrqIdle ==
    ASSUME TypeOK, NEW d \in Devices, IrqInv(d), Local(d),
           NEW K, Touches(d, K), "irq" \notin K, "line" \notin K,
           cut[d] \subseteq cut'[d], CutAt(d, "irq")' = CutAt(d, "irq"),
           One("line_twice") \in cut'[d] <=> One("line_twice") \in cut[d],
           pc[d].at \notin Active, pc[d].at = "irq" => msi[d] # "msix",
           pc'[d].at \notin Active, pc'[d].at = "irq" => pc'[d].i = 0,
           pc[d].at \in Unwinding =>
                pc'[d].at \in Unwinding /\ h2c_max'[d] = h2c_max[d] /\ c2h_max'[d] = c2h_max[d]
    PROVE  IrqInv(d)'
<1>1. /\ CutAt(d, "irq") # {} => pc[d].at \in Unwinding /\ hw[d].cap = "msix"
      /\ One("line_twice") \in cut[d] => pc[d].at \in Active \cup Unwinding
      /\ \A r \in Irqs : IrqIs(pc[d].at, pc[d].i, IrqsLeft(d), cut[d], msi[d],
                               IrqSet(d), r, held[d][r])
    BY IrqParts
<1>2. IrqsLeft(d)' = IrqsLeft(d)
    BY <1>1, LeftIs
<1>3. TypeOK' /\ hw'[d] = hw[d]
    BY DEF Local
<1>4. IrqCount(d)' \in Nat
    <2>1. h2c_max'[d] \in 0..Channels /\ c2h_max'[d] \in 0..Channels
        BY <1>3 DEF TypeOK
    <2> QED
        BY <2>1, CountsAssumption DEF IrqCount, ChannelIrqs
<1>5. ASSUME NEW r \in Irqs
      PROVE  IrqIs(pc'[d].at, pc'[d].i, IrqsLeft(d)', cut'[d], msi'[d], IrqSet(d)', r,
                   held'[d][r])
    <2>1. IrqIs(pc[d].at, pc[d].i, IrqsLeft(d), cut[d], msi[d], IrqSet(d), r, held[d][r])
        BY <1>1
    <2>2. held'[d][r] = held[d][r]
        BY IrqUntouched
    <2>3. \/ held[d][r] = Num(r \in IrqsLeft(d))
          \/ r = One("line") /\ One("line_twice") \in cut[d]
        BY <2>1 DEF IrqIs, Num
    <2>4. pc'[d].at = "irq" => r \notin {"irq"} \X (0..(pc'[d].i - 1))
        <3>1. 0..(0 - 1) = {}
            OBVIOUS
        <3> QED
            BY <3>1
    <2>5. \/ held'[d][r] = Num(\/ r \in IrqsLeft(d)'
                               \/ /\ pc'[d].at = "irq" /\ msi'[d] = "msix"
                                  /\ r \in {"irq"} \X (0..(pc'[d].i - 1)))
          \/ r = One("line") /\ One("line_twice") \in cut'[d]
        BY <1>2, <2>2, <2>3, <2>4 DEF Num
    <2>6. held'[d][r] \in Nat
        BY <2>1, <2>2 DEF IrqIs
    <2> QED
        BY <2>5, <2>6 DEF IrqIs
<1>6. CutAt(d, "irq")' # {} => pc'[d].at \in Unwinding /\ hw'[d].cap = "msix"
    BY <1>1, <1>3
<1>7. One("line_twice") \in cut'[d] => pc'[d].at \in Active \cup Unwinding
    BY <1>1
<1>8. pc'[d].at = "irq" => pc'[d].i <= IrqCount(d)'
    BY <1>4
<1> QED
    BY <1>5, <1>6, <1>7, <1>8, IrqParts

LEMMA IrqBusy ==
    ASSUME TypeOK, NEW d \in Devices, IrqInv(d), Local(d),
           NEW K, Touches(d, K), "irq" \notin K, "line" \notin K,
           cut[d] \subseteq cut'[d], CutAt(d, "irq")' = CutAt(d, "irq"),
           pc[d].at \in Active, pc'[d].at \in Active,
           UNCHANGED <<h2c_max, c2h_max, msi>>
    PROVE  IrqInv(d)'
<1>1. /\ CutAt(d, "irq") # {} => pc[d].at \in Unwinding /\ hw[d].cap = "msix"
      /\ \A r \in Irqs : IrqIs(pc[d].at, pc[d].i, IrqsLeft(d), cut[d], msi[d],
                               IrqSet(d), r, held[d][r])
    BY IrqParts
<1>2. IrqSet(d)' = IrqSet(d) /\ pc[d].at \notin Unwinding /\ pc'[d].at # "irq"
    BY LabelsApart DEF IrqSet, ChannelIrqs
<1>3. ASSUME NEW r \in Irqs
      PROVE  IrqIs(pc'[d].at, pc'[d].i, IrqsLeft(d)', cut'[d], msi'[d], IrqSet(d)', r,
                   held'[d][r])
    <2>1. IrqIs(pc[d].at, pc[d].i, IrqsLeft(d), cut[d], msi[d], IrqSet(d), r, held[d][r])
        BY <1>1
    <2>2. held'[d][r] = held[d][r]
        BY IrqUntouched
    <2> QED
        BY <1>2, <2>1, <2>2 DEF IrqIs
<1> QED
    BY <1>1, <1>2, <1>3, IrqParts

(* What is requested for the first time.                                   *)
LEMMA MsixIrqKeeps ==
    ASSUME TypeOK, NEW d \in Devices, IrqInv(d), Local(d), MsixIrq(d), hw[d].cap = "msix",
           cut[d] \subseteq cut'[d],
           One("line_twice") \in cut'[d] <=> One("line_twice") \in cut[d]
    PROVE  IrqInv(d)'
<1> DEFINE v == pc[d].i
           x == <<"irq", v>>
           n == ChannelIrqs(d)
<1>1. /\ pc[d].at = "irq" /\ msi[d] = "msix" /\ v \in Nat /\ v < IrqCount(d)
      /\ UNCHANGED <<msi, h2c_max, c2h_max>> /\ hw'[d] = hw[d]
    BY DEF MsixIrq, In, TypeOK, devVars, IrqCount, Local
<1>2. /\ IrqCount(d)' = IrqCount(d) /\ IrqCount(d) \in Nat
      /\ IrqCount(d) <= 2 * Channels + UserIrqs
      /\ ChannelIrqs(d)' = n /\ n \in Nat /\ n <= 2 * Channels
    BY <1>1, IrqCountType DEF IrqCount, ChannelIrqs
<1>3. /\ CutAt(d, "irq") = {} /\ IrqsLeft(d) = {} /\ One("line_twice") \notin cut[d]
      /\ \A r \in Irqs : IrqIs("irq", v, {}, cut[d], "msix", IrqSet(d), r, held[d][r])
    BY <1>1, LabelsApart, IrqParts, LeftIs
<1>4. \A r \in Irqs : held[d][r] = Num(r \in {"irq"} \X (0..(v - 1)))
    BY <1>3, LabelsApart DEF IrqIs, Num
<1>5. \A r \in Irqs : r \in Resources
    BY KindsOfResources
<1>6. CASE /\ Fails(d, x) /\ Goto(d, "err_msix")
           /\ Release(d, {"irq"} \X (n..(v - 1)))
    <2>1. cut'[d] = cut[d] \cup {x}
        BY <1>6 DEF Fails, Note, TypeOK
    <2>2. CutAt(d, "irq")' = {v}
        <3> DEFINE W == {x}
        <3>1. W = {<<"irq", v>>} /\ cut'[d] = cut[d] \cup W
            BY <2>1
        <3> HIDE DEF W, v
        <3>2. W = {<<"irq", v>>} => CutAt(d, "irq")' = CutAt(d, "irq") \cup {v}
            BY <3>1, CutGrows
        <3> QED
            BY <1>3, <3>1, <3>2
    <2>3. pc'[d].at = "err_msix" /\ "err_msix" \notin Active /\ "err_msix" \in Unwinding
        BY <1>6, GotoEffect, LabelsApart DEF Labels
    <2>4. IrqsLeft(d)' = {r \in {"irq"} \X (0..(n - 1)) : r[2] < v}
        BY <1>2, <2>2 DEF IrqsLeft
    <2>5. ASSUME NEW r \in Irqs
          PROVE  held'[d][r] = Num(r \in IrqsLeft(d)')
        <3>1. held'[d][r] = IF r \in {"irq"} \X (n..(v - 1)) THEN held[d][r] - 1
                            ELSE held[d][r]
            BY <1>5, <1>6, ReleaseEffect
        <3>2. CASE r[1] = "irq"
            <4>1. r[2] \in Nat /\ r = <<"irq", r[2]>>
                BY <3>2, IrqFacts, CountsAssumption, OneKind DEF Vectors
            <4>2. r \in {"irq"} \X (n..(v - 1)) <=> n <= r[2] /\ r[2] < v
                BY <1>1, <1>2, <4>1
            <4>3. r \in IrqsLeft(d)' <=> r[2] < n /\ r[2] < v
                BY <1>1, <1>2, <2>4, <4>1
            <4>4. r \in {"irq"} \X (0..(v - 1)) <=> r[2] < v
                BY <1>1, <4>1
            <4> QED
                BY <1>2, <1>4, <3>1, <4>1, <4>2, <4>3, <4>4 DEF Num
        <3>3. CASE r[1] # "irq"
            <4>1. r \notin {"irq"} \X (n..(v - 1)) /\ r \notin {"irq"} \X (0..(v - 1))
                  /\ r \notin IrqsLeft(d)'
                BY <2>4, <3>3
            <4> QED
                BY <1>4, <3>1, <4>1 DEF Num
        <3> QED
            BY <3>2, <3>3
    <2>6. \A r \in Irqs : IrqIs("err_msix", pc'[d].i, IrqsLeft(d)', cut'[d], msi'[d],
                                IrqSet(d)', r, held'[d][r])
        BY <2>3, <2>5 DEF IrqIs, Num
    <2> QED
        BY <1>1, <2>3, <2>6, IrqParts
<1>7. CASE Acquire(d, x) /\ Loop(d) /\ UNCHANGED cut
    <2>1. pc'[d].at = "irq" /\ pc'[d].i = v + 1
        BY <1>1, <1>7, LoopEffect
    <2>2. CutAt(d, "irq")' = {} /\ IrqsLeft(d)' = {}
        <3>1. CutAt(d, "irq")' = CutAt(d, "irq")
            BY <1>7 DEF CutAt
        <3> QED
            BY <1>3, <3>1, LeftIs
    <2>3. ASSUME NEW r \in Irqs
          PROVE  held'[d][r] = Num(r \in {"irq"} \X (0..v))
        <3>1. held'[d][r] = IF r = x THEN held[d][r] + 1 ELSE held[d][r]
            BY <1>5, <1>7, AcquireEffect DEF Acquire
        <3>2. CASE r[1] = "irq"
            <4>1. r[2] \in Nat /\ r = <<"irq", r[2]>>
                BY <3>2, IrqFacts, CountsAssumption, OneKind DEF Vectors
            <4>2. /\ r \in {"irq"} \X (0..v) <=> r[2] <= v
                  /\ r \in {"irq"} \X (0..(v - 1)) <=> r[2] < v
                  /\ r = x <=> r[2] = v
                BY <1>1, <4>1
            <4> QED
                BY <1>1, <1>4, <3>1, <4>1, <4>2 DEF Num
        <3>3. CASE r[1] # "irq"
            <4>1. r \notin {"irq"} \X (0..v) /\ r \notin {"irq"} \X (0..(v - 1)) /\ r # x
                BY <3>3
            <4> QED
                BY <1>4, <3>1, <4>1 DEF Num
        <3> QED
            BY <3>2, <3>3
    <2>4. 0..(pc'[d].i - 1) = 0..v
        BY <1>1, <2>1
    <2>5. ASSUME NEW r \in Irqs
          PROVE  IrqIs("irq", pc'[d].i, {}, cut'[d], "msix", IrqSet(d)', r, held'[d][r])
        <3>1. held'[d][r] = Num(r \in {"irq"} \X (0..(pc'[d].i - 1)))
            BY <2>3, <2>4
        <3> QED
            BY <3>1, LabelsApart DEF IrqIs, Num
    <2>6. pc'[d].i <= IrqCount(d)' /\ One("line_twice") \notin cut'[d]
        BY <1>1, <1>2, <1>3, <2>1
    <2> QED
        BY <1>1, <2>1, <2>2, <2>5, <2>6, IrqParts
<1> QED
    BY <1>6, <1>7 DEF MsixIrq, Succeeds

(* The device has all of its vectors.                                      *)
LEMMA MsixEndKeeps ==
    ASSUME TypeOK, NEW d \in Devices, IrqInv(d), Local(d), MsixIrqEnd(d)
    PROVE  IrqInv(d)'
<1>1. /\ pc[d].at = "irq" /\ msi[d] = "msix" /\ pc[d].i = IrqCount(d)
      /\ pc'[d].at = "online" /\ UNCHANGED <<msi, h2c_max, c2h_max, held, cut>>
    BY OpenJumps DEF MsixIrqEnd, In, Jumps, devVars, IrqCount
<1>2. /\ CutAt(d, "irq") = {} /\ IrqsLeft(d) = {} /\ One("line_twice") \notin cut[d]
      /\ \A r \in Irqs : IrqIs("irq", IrqCount(d), {}, cut[d], "msix", IrqSet(d), r,
                               held[d][r])
    BY <1>1, LabelsApart, IrqParts, LeftIs
<1>3. IrqSet(d) = {"irq"} \X (0..(IrqCount(d) - 1)) /\ IrqSet(d)' = IrqSet(d)
    <2>1. IrqSet(d) = {"irq"} \X (0..(ChannelIrqs(d) + UserIrqs - 1))
        BY <1>1 DEF IrqSet
    <2>2. IrqSet(d)' = IrqSet(d)
        BY <1>1 DEF IrqSet, ChannelIrqs
    <2>3. ChannelIrqs(d) + UserIrqs - 1 = IrqCount(d) - 1
        BY IrqCountType, CountsAssumption DEF IrqCount
    <2> QED
        BY <2>1, <2>2, <2>3
<1>4. \A r \in Irqs : held[d][r] = Num(r \in IrqSet(d))
    BY <1>2, <1>3, LabelsApart DEF IrqIs, Num
<1>5. \A r \in Irqs : IrqIs("online", pc'[d].i, IrqsLeft(d)', cut'[d], msi'[d], IrqSet(d)', r,
                            held'[d][r])
    BY <1>1, <1>3, <1>4, LabelsApart DEF IrqIs, Num
<1>6. CutAt(d, "irq")' = {}
    BY <1>1, <1>2 DEF CutAt
<1> QED
    BY <1>1, <1>2, <1>5, <1>6, IrqParts

LEMMA LineIrqKeeps ==
    ASSUME TypeOK, NEW d \in Devices, IrqInv(d), Local(d), LineIrq(d),
           cut[d] \subseteq cut'[d], CutAt(d, "irq")' = CutAt(d, "irq"),
           One("line_twice") \in cut'[d] <=> One("line_twice") \in cut[d]
    PROVE  IrqInv(d)'
<1>1. pc[d].at = "irq" /\ msi[d] # "msix" /\ UNCHANGED <<msi, h2c_max, c2h_max>>
    BY DEF LineIrq, In, devVars
<1>2. CASE UNCHANGED held /\ Goto(d, "err_msix")
    <2>1. pc'[d].at = "err_msix"
        BY <1>2, GotoEffect DEF Labels
    <2>2. Touches(d, {})
        BY <1>2, KeepTouches
    <2> QED
        BY <1>1, <2>1, <2>2, LabelsApart, IrqIdle
<1>3. CASE Acquire(d, One("line")) /\ Goto(d, "online")
    <2>1. pc'[d].at = "online"
        BY <1>3, GotoEffect DEF Labels
    <2>2. /\ CutAt(d, "irq") = {} /\ IrqsLeft(d) = {} /\ One("line_twice") \notin cut[d]
          /\ \A r \in Irqs : IrqIs("irq", pc[d].i, {}, cut[d], msi[d], IrqSet(d), r,
                                   held[d][r])
        BY <1>1, LabelsApart, IrqParts, LeftIs
    <2>3. \A r \in Irqs : held[d][r] = 0
        BY <1>1, <2>2, LabelsApart DEF IrqIs, Num
    <2>4. IrqSet(d)' = {One("line")}
        BY <1>1 DEF IrqSet
    <2>5. ASSUME NEW r \in Irqs
          PROVE  held'[d][r] = Num(r \in IrqSet(d)')
        <3>1. r \in Resources
            BY KindsOfResources
        <3> QED
            BY <1>3, <2>3, <2>4, <3>1, AcquireEffect DEF Acquire, Num
    <2>6. \A r \in Irqs : IrqIs("online", pc'[d].i, IrqsLeft(d)', cut'[d], msi'[d],
                                IrqSet(d)', r, held'[d][r])
        BY <2>5, LabelsApart DEF IrqIs, Num
    <2> QED
        BY <2>1, <2>2, <2>6, LabelsApart, IrqParts
<1> QED
    BY <1>2, <1>3 DEF LineIrq

(* irq_teardown() frees what is held.                                      *)
LEMMA TeardownKeeps ==
    ASSUME TypeOK, NEW d \in Devices, IrqInv(d), Local(d), IrqTeardown(d), HandleFound(d)
    PROVE  IrqInv(d)'
<1>1. pc[d].at = "close" /\ pc'[d].at = "err_msix" /\ UNCHANGED cut
    BY CloseJumps DEF IrqTeardown, Jumps
<1>2. /\ CutAt(d, "irq") = {} /\ CutAt(d, "irq")' = {}
      /\ \A r \in Irqs : IrqIs("close", pc[d].i, IrqsLeft(d), cut[d], msi[d], IrqSet(d), r,
                               held[d][r])
    <2>1. CutAt(d, "irq")' = CutAt(d, "irq")
        BY <1>1 DEF CutAt
    <2> QED
        BY <1>1, <2>1, LabelsApart, IrqParts
<1>3. "close" \in Active /\ "err_msix" \notin Active /\ "err_msix" \in Unwinding
    BY LabelsApart
<1>4. ASSUME NEW r \in Irqs
      PROVE  /\ held'[d][r] \in Nat
             /\ held'[d][r] = 0 \/ (r = One("line") /\ One("line_twice") \in cut[d])
    <2>1. r \in Resources
        BY KindsOfResources
    <2>2. held'[d][r] = IF r \in HeldIrqs(d) THEN held[d][r] - 1 ELSE held[d][r]
        BY <2>1, ReleaseEffect DEF IrqTeardown
    <2>3. r \in HeldIrqs(d) <=> r \in IrqSet(d) /\ held[d][r] > 0
        BY DEF HeldIrqs
    <2>4. /\ held[d][r] \in Nat
          /\ r \notin IrqSet(d) => held[d][r] = 0
          /\ r \in IrqSet(d) =>
                held[d][r] <= 1 \/ (r = One("line") /\ One("line_twice") \in cut[d])
        BY <1>2, <1>3 DEF IrqIs
    <2> QED
        BY <2>2, <2>3, <2>4
<1>5. IrqsLeft(d)' = {}
    BY <1>2, LeftIs
<1>6. \A r \in Irqs : IrqIs("err_msix", pc'[d].i, {}, cut'[d], msi'[d], IrqSet(d)', r,
                            held'[d][r])
    BY <1>1, <1>3, <1>4 DEF IrqIs, Num
<1> QED
    BY <1>1, <1>2, <1>3, <1>5, <1>6, IrqParts

(* Offline and online again.                                               *)
LEMMA AdminIrqs ==
    ASSUME TypeOK, NEW d \in Devices, IrqInv(d), Local(d), Placed(d), Admin(d),
           CutAt(d, "irq")' = CutAt(d, "irq")
    PROVE  IrqInv(d)'
<1>1. pc[d].at \in Active /\ pc'[d].at \in Active
    BY AdminJumps, LabelsApart
<1>2. UNCHANGED <<h2c_max, c2h_max, msi>>
    BY AdminEffect DEF devVars
<1>3. IrqSet(d)' = IrqSet(d)
    BY <1>2 DEF IrqSet, ChannelIrqs
<1>4. /\ CutAt(d, "irq") = {}
      /\ \A r \in Irqs : IrqIs(pc[d].at, pc[d].i, IrqsLeft(d), cut[d], msi[d], IrqSet(d), r,
                               held[d][r])
    BY <1>1, LabelsApart, IrqParts
<1>5. ASSUME NEW r \in Irqs
      PROVE  /\ r \in Resources /\ r # One("enabled") /\ held[d][r] \in Nat
             /\ r \notin IrqSet(d) => held[d][r] = 0
             /\ r \in IrqSet(d) =>
                    held[d][r] <= 1 \/ (r = One("line") /\ One("line_twice") \in cut[d])
             /\ r \in IrqSet(d) => held[d][r] >= 1 \/ One("offline") \in cut[d]
    <2>1. r \in Resources /\ r[1] \in {"irq", "line"}
        BY KindsOfResources
    <2>2. r # One("enabled")
        BY <2>1, OneKind
    <2> QED
        BY <1>1, <1>4, <2>1, <2>2 DEF IrqIs
<1>6. ASSUME NEW r \in Irqs
      PROVE  /\ held'[d][r] \in Nat
             /\ r \notin IrqSet(d) => held'[d][r] = 0
             /\ r \in IrqSet(d) =>
                    held'[d][r] <= 1 \/ (r = One("line") /\ One("line_twice") \in cut'[d])
             /\ r \in IrqSet(d) => held'[d][r] >= 1 \/ One("offline") \in cut'[d]
    <2>1. CASE \E also \in {{}, {One("enabled")}} : DeviceOffline(d, also)
        <3>1. PICK also \in {{}, {One("enabled")}} :
                    Release(d, HeldIrqs(d) \cup also) /\ Note(d, {One("offline")})
            BY <2>1 DEF DeviceOffline
        <3>2. cut'[d] = cut[d] \cup {One("offline")}
            BY <3>1 DEF Note, TypeOK
        <3>3. r \in HeldIrqs(d) \cup also <=> r \in IrqSet(d) /\ held[d][r] > 0
            BY <1>5 DEF HeldIrqs
        <3>4. held'[d][r] = IF r \in HeldIrqs(d) \cup also THEN held[d][r] - 1 ELSE held[d][r]
            BY <1>5, <3>1, ReleaseEffect
        <3> QED
            BY <1>5, <3>2, <3>3, <3>4
    <2>2. CASE \E also \in {{}, {One("enabled")}} : DeviceOnline(d, also)
        <3>1. PICK also \in {{}, {One("enabled")}} : DeviceOnline(d, also)
            BY <2>2
        <3>2. PICK R \in SUBSET IrqSet(d) : \E W \in {{}, {One("line_twice")}} :
                /\ AcquireAll(d, also \cup R)
                /\ Note(d, W)
                /\ \A x \in R :
                        held[d][x] <= 0 \/ (x = One("line") /\ W = {One("line_twice")})
            BY <3>1, OnlineEffect
        <3>3. PICK W \in {{}, {One("line_twice")}} :
                /\ AcquireAll(d, also \cup R)
                /\ Note(d, W)
                /\ \A x \in R :
                        held[d][x] <= 0 \/ (x = One("line") /\ W = {One("line_twice")})
            BY <3>2
        <3>4. cut'[d] = cut[d] \cup W
            BY <3>3 DEF Note, TypeOK
        <3>5. held'[d][r] = IF r \in R THEN held[d][r] + 1 ELSE held[d][r]
            BY <1>5, <3>3, AcquireEffect
        <3>6. r \in R => r \in IrqSet(d)
            OBVIOUS
        <3> QED
            BY <1>5, <3>3, <3>4, <3>5, <3>6
    <2> QED
        BY <2>1, <2>2, AdminEffect
<1>7. \A r \in Irqs : IrqIs(pc'[d].at, pc'[d].i, IrqsLeft(d)', cut'[d], msi'[d], IrqSet(d)',
                            r, held'[d][r])
    BY <1>1, <1>3, <1>6 DEF IrqIs
<1> QED
    BY <1>1, <1>4, <1>7, LabelsApart, IrqParts

LEMMA IrqStep ==
    ASSUME TypeOK, ListInv, NEW d \in Devices, EngineInv(d), IrqInv(d), SingleInv(d),
           Placed(d), Step(d)
    PROVE  IrqInv(d)'
<1> USE DEF modVars, boundVars, devVars, listVars, cdevVars
<1>1. Local(d)
    BY StepLocal
<1>2. ~ProbeAlloc(d) => /\ cut[d] \subseteq cut'[d]
                        /\ ~MsixIrq(d) => CutAt(d, "irq")' = CutAt(d, "irq")
                        /\ ~Admin(d) => (One("line_twice") \in cut'[d]
                                            <=> One("line_twice") \in cut[d])
    BY CutKept, NotesKept
<1>3. pc[d].at \in {"online", "close"} => HandleFound(d)
    BY DEF ListInv, IsListed, HasBars, HasEngines, Active, Complete
<1>4. /\ ProbeAlloc(d) => pc[d].at = "absent"
      /\ MsixIrq(d) => pc[d].at = "irq" /\ msi[d] = "msix"
      /\ Admin(d) => pc[d].at \in Active
    BY OpenJumps, AdminJumps, LabelsApart DEF Jumps, MsixIrq
<1>5. \A at \in {"list_add", "enable", "regions", "map", "mask", "h2c", "c2h", "msi"} :
            at \notin Active \cup Unwinding /\ at # "irq" /\ at # "absent"
    BY DEF Active, Complete, Unwinding
<1>6. ASSUME NEW K, Touches(d, K), "irq" \notin K, "line" \notin K, ~Admin(d),
             pc[d].at \in {"list_add", "enable", "regions", "map", "mask", "h2c", "c2h", "msi"},
             \/ pc'[d].at \in {"list_add", "enable", "regions", "map", "mask", "h2c", "c2h", "msi"}
             \/ pc'[d].at \in Unwinding
             \/ pc'[d].at = "irq" /\ pc'[d].i = 0
      PROVE  IrqInv(d)'
    <2>1. ~ProbeAlloc(d) /\ ~MsixIrq(d)
        BY <1>4, <1>5, <1>6
    <2>2. pc[d].at \notin Active \cup Unwinding /\ pc[d].at # "irq"
        BY <1>5, <1>6
    <2>3. pc'[d].at \notin Active /\ (pc'[d].at = "irq" => pc'[d].i = 0)
        BY <1>5, <1>6, LabelsApart
    <2> QED
        BY <1>1, <1>2, <1>6, <2>1, <2>2, <2>3, IrqIdle
<1>7. ASSUME NEW K, Touches(d, K), "irq" \notin K, "line" \notin K, ~Admin(d), ~ProbeAlloc(d),
             pc[d].at \in Unwinding, pc'[d].at \in Unwinding,
             UNCHANGED <<h2c_max, c2h_max>>
      PROVE  IrqInv(d)'
    <2>1. ~MsixIrq(d)
        BY <1>4, <1>7, LabelsApart
    <2>2. pc[d].at \notin Active /\ pc'[d].at \notin Active /\ pc[d].at # "irq" /\ pc'[d].at # "irq"
        BY <1>7, LabelsApart
    <2> QED
        BY <1>1, <1>2, <1>7, <2>1, <2>2, IrqIdle
<1>8. ASSUME NEW K, Touches(d, K), "irq" \notin K, "line" \notin K,
             pc[d].at \in Active, pc'[d].at \in Active, UNCHANGED <<h2c_max, c2h_max, msi>>
      PROVE  IrqInv(d)'
    <2>1. ~ProbeAlloc(d) /\ ~MsixIrq(d)
        BY <1>4, <1>8, LabelsApart
    <2> QED
        BY <1>1, <1>2, <1>8, <2>1, IrqBusy
<1>9. CASE ProbeAlloc(d)
    <2>1. pc'[d].at = "list_add" /\ cut'[d] = {}
        BY <1>9, OpenJumps DEF Jumps, ProbeAlloc, TypeOK
    <2>2. CutAt(d, "irq")' = {} /\ IrqsLeft(d)' = {}
        <3>1. CutAt(d, "irq")' = {}
            BY <2>1 DEF CutAt
        <3> QED
            BY <3>1, LeftIs
    <2>3. ASSUME NEW r \in Irqs
          PROVE  held'[d][r] = 0
        <3>1. r \in Resources /\ r[1] \in {"irq", "line"}
            BY KindsOfResources
        <3>2. r # One("input") /\ r[1] \notin {"input", "xpdev", "xdev"}
            BY <3>1, OneKind
        <3>3. held'[d][r] = held[d][r]
            BY <1>9, <3>1, <3>2, AllocTouches DEF Touches
        <3> QED
            BY <1>9, <3>1, <3>2, <3>3 DEF ProbeAlloc
    <2>4. \A r \in Irqs : IrqIs("list_add", pc'[d].i, {}, cut'[d], msi'[d], IrqSet(d)', r,
                                held'[d][r])
        BY <1>5, <2>3 DEF IrqIs, Num
    <2> QED
        BY <2>1, <2>2, <2>4, IrqParts
<1>10. CASE ListAdd(d) \/ EnableDevice(d) \/ RequestRegions(d) \/ MapBar(d) \/ MapBarsEnd(d)
            \/ SetDmaMask(d)
    <2>1. /\ pc[d].at \in {"list_add", "enable", "regions", "map", "mask"}
          /\ pc'[d].at \in {"enable", "regions", "map", "mask", "h2c"} \cup Unwinding
        BY <1>10, OpenJumps, LabelsApart DEF Jumps
    <2>2. \/ Touches(d, {"listed"}) \/ Touches(d, {"enabled"}) \/ Touches(d, {"regions"})
          \/ Touches(d, {"bar"}) \/ Touches(d, {})
        BY <1>10, OpenTouches
    <2>3. ~Admin(d)
        BY <1>4, <1>5, <2>1
    <2> QED
        BY <1>6, <2>1, <2>2, <2>3
<1>11. ASSUME NEW dir \in {"h2c", "c2h"}, ProbeEngine(d, dir)
       PROVE  IrqInv(d)'
    <2>1. pc[d].at \in {"h2c", "c2h"} /\ pc'[d].at \in {"h2c", "c2h", "msi"}
        BY <1>11, OpenJumps DEF Jumps
    <2>2. Touches(d, EngineKinds) /\ "irq" \notin EngineKinds /\ "line" \notin EngineKinds
        BY <1>11, EngineTouches DEF EngineKinds
    <2>3. ~Admin(d)
        BY <1>4, <1>5, <2>1
    <2> QED
        BY <1>6, <2>1, <2>2, <2>3
<1>12. CASE EnableMsi(d)
    <2>1. pc[d].at = "msi" /\ pc'[d].i = 0 /\ pc'[d].at \in {"irq", "err_engines"}
        BY <1>12, GotoEffect DEF EnableMsi, In, Labels
    <2>2. ~Admin(d)
        BY <1>4, <1>5, <2>1
    <2> QED
        BY <1>6, <1>12, <2>1, <2>2, OpenTouches, LabelsApart
<1>13. CASE MsixIrq(d)
    <2>1. ~ProbeAlloc(d) /\ ~Admin(d)
        BY <1>4, <1>13, LabelsApart
    <2>2. hw[d].cap = "msix"
        <3>1. "irq" \in HasVectors
            BY DEF HasVectors, HasEngines
        <3> QED
            BY <1>4, <1>13, <3>1 DEF SingleInv
    <2> QED
        BY <1>1, <1>2, <1>13, <2>1, <2>2, MsixIrqKeeps
<1>14. CASE LineIrq(d) \/ MsixIrqEnd(d)
    <2>1. pc[d].at = "irq"
        BY <1>14, OpenJumps DEF Jumps
    <2>2. ~ProbeAlloc(d) /\ ~Admin(d)
        BY <1>4, <2>1, LabelsApart
    <2>3. LineIrq(d) => ~MsixIrq(d)
        BY <1>4 DEF LineIrq
    <2> QED
        BY <1>1, <1>2, <1>14, <2>2, <2>3, LineIrqKeeps, MsixEndKeeps
<1>15. CASE Online(d) \/ CreateCdev(d) \/ CreateCdevFails(d) \/ ProbeEnd(d)
    <2>1. pc[d].at \in Active /\ pc'[d].at \in Active
        BY <1>3, <1>15, OpenJumps DEF Jumps, Active, Complete
    <2>2. UNCHANGED <<msi, h2c_max, c2h_max>>
        BY <1>15 DEF Online, CreateCdev, CreateCdevFails, ProbeEnd
    <2>3. \/ Touches(d, {}) \/ Touches(d, {"cdev", "region"}) \/ Touches(d, {"input"})
          \/ Touches(d, {"region"})
        BY <1>15, OpenTouches
    <2> QED
        BY <1>8, <2>1, <2>2, <2>3
<1>16. CASE CreateUnwind(d) \/ FreeInterfaces(d) \/ RemoveOne(d)
    <2>1. pc[d].at \in Active /\ pc'[d].at \in Active
        BY <1>16, CloseJumps DEF Jumps, Active, Complete
    <2>2. UNCHANGED <<msi, h2c_max, c2h_max>>
        BY <1>16 DEF CreateUnwind, FreeInterfaces, RemoveOne
    <2>3. Touches(d, {"cdev", "region"}) \/ Touches(d, {"input"})
        BY <1>16, CloseTouches
    <2> QED
        BY <1>8, <2>1, <2>2, <2>3
<1>17. CASE IrqTeardown(d)
    <2>1. HandleFound(d)
        BY <1>3, <1>17 DEF IrqTeardown, In
    <2> QED
        BY <1>1, <1>17, <2>1, TeardownKeeps
<1>18. ASSUME \/ DisableMsi(d) \/ UnmapBars(d) \/ ReleaseRegions(d) \/ DisableDevice(d)
              \/ ListRemove(d) \/ FreeXdev(d) \/ FreeXpdev(d) \/ RemoveEngines(d)
       PROVE  IrqInv(d)'
    <2>1. pc[d].at \in Unwinding \ {"absent"} /\ pc'[d].at \in Unwinding
        BY <1>18, CloseJumps DEF Jumps, Unwinding
    <2>2. UNCHANGED <<h2c_max, c2h_max>>
        BY <1>18 DEF DisableMsi, UnmapBars, ReleaseRegions, DisableDevice, ListRemove,
           FreeXdev, FreeXpdev, RemoveEngines
    <2>3. \/ Touches(d, {"vectors"}) \/ Touches(d, {"bar"}) \/ Touches(d, {"regions"})
          \/ Touches(d, {"enabled"}) \/ Touches(d, {"listed"})
          \/ Touches(d, {"xdev"}) \/ Touches(d, {"xpdev"})
          \/ Touches(d, EngineKinds) /\ "irq" \notin EngineKinds /\ "line" \notin EngineKinds
        BY <1>18, CloseTouches, EngineTouches DEF EngineKinds
    <2>4. ~Admin(d) /\ ~ProbeAlloc(d)
        BY <1>4, <2>1, LabelsApart
    <2> QED
        BY <1>7, <2>1, <2>2, <2>3, <2>4
<1>19. CASE Admin(d)
    <2>1. ~ProbeAlloc(d) /\ ~MsixIrq(d)
        BY <1>4, <1>19, LabelsApart
    <2> QED
        BY <1>1, <1>2, <1>19, <2>1, AdminIrqs
<1> QED
    BY <1>9, <1>10, <1>11, <1>12, <1>13, <1>14, <1>15, <1>16, <1>17, <1>18, <1>19
       DEF Step, Probe, Close, Pci, Admin
-----------------------------------------------------------------------------
(* The character devices                                                   *)

(* What the invariant says of them, from the place p of the device, the    *)
(* failed creations C, the devices to make, and what is held.              *)
MadeAt(p, C, s) ==
    IF C # {} THEN (CHOOSE k \in C : TRUE) - 1
    ELSE IF p.at = "create" THEN p.i
    ELSE IF p.at \in {"bound", "frozen", "reset", "oops", "free_interfaces"} THEN Len(s)
    ELSE 0

RemovedAt(p, C, c, fl) ==
    IF C = {} \/ p.at = "fail" \/ Group(c) \notin fl THEN 0
    ELSE IF p.at = "free_interfaces" THEN 1 ELSE 2

FlagsOf(s, k) == {Group(s[i]) : i \in 1..k} \ {Group(s[i]) : i \in (k + 1)..Len(s)}

NodesHeld(p, C, s, h, fl) ==
    \A c \in Cdevs :
        h[<<"cdev", c>>] = IF \E k \in 1..MadeAt(p, C, s) : s[k] = c
                           THEN 1 - RemovedAt(p, C, c, fl) ELSE 0

(* And of the region of device numbers, with the major number m and the     *)
(* note u that the user device's failure took it.                          *)
RegionLeft(C, m, u) == IF C = {} \/ m = 0 THEN 0 ELSE -1 - Num(u)

RegionIs(p, C, h, m, u) ==
    /\ u => C # {} /\ m # 0
    /\ h[One("region")] =
            IF p.at \in Opening \cup (Public \ {"free_interfaces"}) \cup {"fail"}
            THEN Num(m # 0) - Num(u)
            ELSE IF p.at = "free_interfaces" THEN RegionLeft(C, m, u) + Num(m # 0)
            ELSE RegionLeft(C, m, u)

NodesAre(p, C, s, h, fl, m) ==
    /\ C # {} =>
            /\ \E k \in 1..Len(s) : C = {k}
            /\ p.at \notin Opening \cup (Public \ {"free_interfaces"})
    /\ p.at = "fail" => C # {}
    /\ MadeAt(p, C, s) <= Len(s)
    /\ NodesHeld(p, C, s, h, fl)
    /\ p.at \in Opening \cup Public \/ C # {} => fl = FlagsOf(s, MadeAt(p, C, s))
    /\ MadeAt(p, C, s) > 0 => m # 0
    /\ p.at \in Opening \cup {"create"} => (m = 0 <=> MadeAt(p, C, s) = 0)

LEMMA RegionLeftIs ==
    ASSUME NEW d \in Devices
    PROVE  /\ Leftover(d, One("region")) =
                RegionLeft(CutAt(d, "cdev"), major[d], One("user_region") \in cut[d])
           /\ Leftover(d, One("region"))' =
                RegionLeft(CutAt(d, "cdev")', major'[d], One("user_region") \in cut'[d])
<1>1. /\ One("region") # One("enabled") /\ One("region") # One("input")
      /\ One("region") \notin Irqs /\ One("region")[1] # "cdev"
    BY OneKind, KindsOfResources
<1>2. Leftover(d, One("region")) =
            RegionLeft(CutAt(d, "cdev"), major[d], One("user_region") \in cut[d])
    BY <1>1 DEF Leftover, RegionLeft
<1>3. Leftover(d, One("region"))' =
            RegionLeft(CutAt(d, "cdev")', major'[d], One("user_region") \in cut'[d])
    BY <1>1 DEF Leftover, RegionLeft
<1> QED
    BY <1>2, <1>3

LEMMA RegionParts ==
    ASSUME NEW d \in Devices
    PROVE  /\ RegionInv(d) <=> RegionIs(pc[d], CutAt(d, "cdev"), held[d], major[d],
                                        One("user_region") \in cut[d])
           /\ RegionInv(d)' <=> RegionIs(pc'[d], CutAt(d, "cdev")', held'[d], major'[d],
                                         One("user_region") \in cut'[d])
<1>1. RegionInv(d) <=> RegionIs(pc[d], CutAt(d, "cdev"), held[d], major[d],
                                One("user_region") \in cut[d])
    BY RegionLeftIs DEF RegionInv, RegionIs, In
<1>2. RegionInv(d)' <=> RegionIs(pc'[d], CutAt(d, "cdev")', held'[d], major'[d],
                                 One("user_region") \in cut'[d])
    BY RegionLeftIs DEF RegionInv, RegionIs, In
<1> QED
    BY <1>1, <1>2

LEMMA CdevParts ==
    ASSUME NEW d \in Devices
    PROVE  /\ CdevInv(d) <=> /\ NodesAre(pc[d], CutAt(d, "cdev"), CdevSeq(d), held[d],
                                         flags[d], major[d])
                             /\ RegionInv(d)
           /\ CdevInv(d)' <=> /\ NodesAre(pc'[d], CutAt(d, "cdev")', CdevSeq(d)', held'[d],
                                          flags'[d], major'[d])
                              /\ RegionInv(d)'
<1>1. CdevInv(d) <=> /\ NodesAre(pc[d], CutAt(d, "cdev"), CdevSeq(d), held[d], flags[d],
                                 major[d])
                     /\ RegionInv(d)
    BY DEF CdevInv, NodesAre, Made, MadeAt, Removed, RemovedAt, NodesHeld, FlagsAfter,
       FlagsOf, In
<1>2. CdevInv(d)' <=> /\ NodesAre(pc'[d], CutAt(d, "cdev")', CdevSeq(d)', held'[d],
                                  flags'[d], major'[d])
                      /\ RegionInv(d)'
    BY DEF CdevInv, NodesAre, Made, MadeAt, Removed, RemovedAt, NodesHeld, FlagsAfter,
       FlagsOf, In, Group
<1> QED
    BY <1>1, <1>2

(* Nothing is made yet.                                                    *)
LEMMA CdevEmpty ==
    ASSUME NEW p, NEW s, Len(s) \in Nat, NEW h,
           \A c \in Cdevs : h[<<"cdev", c>>] = 0,
           p.at \notin Public \cup {"fail"} \/ (p.at = "create" /\ p.i = 0)
    PROVE  NodesAre(p, {}, s, h, {}, 0)
<1>1. MadeAt(p, {}, s) = 0
    BY DEF MadeAt, Public
<1>2. FlagsOf(s, 0) = {}
    BY DEF FlagsOf
<1>3. p.at # "fail"
    BY DEF Public
<1> QED
    BY <1>1, <1>2, <1>3 DEF NodesAre, NodesHeld

LEMMA OpeningEmpty ==
    ASSUME NEW p, NEW C, NEW s, NEW h, NEW fl, NEW m, NodesAre(p, C, s, h, fl, m),
           p.at \in Opening
    PROVE  C = {} /\ fl = {} /\ m = 0 /\ \A c \in Cdevs : h[<<"cdev", c>>] = 0
<1>1. C = {}
    BY DEF NodesAre
<1>2. p.at \notin Public
    BY DEF Opening, Public
<1>3. MadeAt(p, C, s) = 0
    BY <1>1, <1>2 DEF MadeAt, Public
<1>4. FlagsOf(s, 0) = {}
    BY DEF FlagsOf
<1> QED
    BY <1>1, <1>3, <1>4 DEF NodesAre, NodesHeld

(* Only a creation that fails is noted as such.                            *)
LEMMA CdevCutSame ==
    ASSUME TypeOK, NEW d \in Devices, Step(d), ~ProbeAlloc(d), ~CreateCdevFails(d)
    PROVE  /\ CutAt(d, "cdev")' = CutAt(d, "cdev")
           /\ One("user_region") \in cut'[d] <=> One("user_region") \in cut[d]
    BY NotesKept

LEMMA CdevUntouched ==
    ASSUME NEW d \in Devices, NEW K, Touches(d, K), "cdev" \notin K, NEW c \in Cdevs
    PROVE  held'[d][<<"cdev", c>>] = held[d][<<"cdev", c>>]
<1>1. <<"cdev", c>> \in Resources /\ <<"cdev", c>>[1] = "cdev"
    BY KindsOfResources
<1> QED
    BY <1>1 DEF Touches

LEMMA RegionUntouched ==
    ASSUME NEW d \in Devices, NEW K, Touches(d, K), "region" \notin K
    PROVE  held'[d][One("region")] = held[d][One("region")]
<1>1. One("region") \in Resources /\ One("region")[1] = "region"
    BY SingleResources, OneKind
<1> QED
    BY <1>1 DEF Touches

LEMMA NextSeqLen ==
    ASSUME NEW d \in Devices, Local(d)
    PROVE  Len(CdevSeq(d)') \in Nat
<1>1. h2c_max'[d] \in 0..Channels /\ c2h_max'[d] \in 0..Channels
    BY DEF Local, TypeOK
<1> QED
    BY <1>1, NodeSeqFacts, CdevSeqIs

(* Before xpdev_create_interfaces() there is nothing.                      *)
LEMMA CdevOpening ==
    ASSUME TypeOK, NEW d \in Devices, CdevInv(d), Local(d),
           NEW K, Touches(d, K), "cdev" \notin K, "region" \notin K,
           UNCHANGED <<flags, major>>, CutAt(d, "cdev")' = CutAt(d, "cdev"),
           One("user_region") \in cut'[d] <=> One("user_region") \in cut[d],
           pc[d].at \in Opening,
           \/ pc'[d].at \notin Public \cup {"fail"}
           \/ pc'[d].at = "create" /\ pc'[d].i = 0
    PROVE  CdevInv(d)'
<1>1. /\ CutAt(d, "cdev") = {} /\ flags[d] = {} /\ major[d] = 0
      /\ \A c \in Cdevs : held[d][<<"cdev", c>>] = 0
    BY CdevParts, OpeningEmpty
<1>2. \A c \in Cdevs : held'[d][<<"cdev", c>>] = 0
    BY <1>1, CdevUntouched
<1>3. One("user_region") \notin cut[d] /\ held[d][One("region")] = 0
    <2>1. RegionIs(pc[d], {}, held[d], 0, One("user_region") \in cut[d])
        BY <1>1, CdevParts, RegionParts
    <2>2. One("user_region") \notin cut[d]
        BY <2>1 DEF RegionIs
    <2>3. held[d][One("region")] = Num(0 # 0) - Num(One("user_region") \in cut[d])
        BY <2>1 DEF RegionIs
    <2>4. Num(0 # 0) = 0
        BY DEF Num
    <2>5. Num(One("user_region") \in cut[d]) = 0
        BY <2>2 DEF Num
    <2> QED
        BY <2>2, <2>3, <2>4, <2>5
<1>4. RegionIs(pc'[d], {}, held'[d], 0, One("user_region") \in cut'[d])
    BY <1>3, RegionUntouched DEF RegionIs, RegionLeft, Num
<1>5. NodesAre(pc'[d], {}, CdevSeq(d)', held'[d], {}, 0)
    BY <1>2, NextSeqLen, CdevEmpty
<1> QED
    BY <1>1, <1>4, <1>5, CdevParts, RegionParts

(* While the device is bound and when it has closed, they stay as they     *)
(* are.                                                                    *)
Bound == {"bound", "frozen", "reset", "oops", "free_interfaces"}
Closing == {"close", "err_msix", "err_engines", "err_mask", "err_map", "err_regions",
           "err_enable", "free_xdev", "free_xpdev", "absent"}

LEMMA CdevQuiet ==
    ASSUME TypeOK, NEW d \in Devices, CdevInv(d), Local(d),
           NEW K, Touches(d, K), "cdev" \notin K, "region" \notin K,
           UNCHANGED <<flags, major>>,
           h2c_max'[d] = h2c_max[d], c2h_max'[d] = c2h_max[d], role'[d] = role[d],
           CutAt(d, "cdev")' = CutAt(d, "cdev"),
           One("user_region") \in cut'[d] <=> One("user_region") \in cut[d],
           \/ pc'[d] = pc[d]
           \/ /\ \/ pc[d].at \in Bound \ {"free_interfaces"}
                 \/ pc[d].at = "create" /\ pc[d].i = Len(CdevSeq(d))
              /\ pc'[d].at \in Bound
           \/ pc[d].at \in Closing /\ pc'[d].at \in Closing
    PROVE  CdevInv(d)'
<1> DEFINE C == CutAt(d, "cdev")
           s == CdevSeq(d)
           p == pc[d]
           q == pc'[d]
<1>1. NodesAre(p, C, s, held[d], flags[d], major[d]) /\ Len(s) \in Nat
    BY CdevParts, CdevSeqFacts
<1>2. CdevSeq(d)' = s
    BY CdevSeqIs
<1>3. \A c \in Cdevs : held'[d][<<"cdev", c>>] = held[d][<<"cdev", c>>]
    BY CdevUntouched
<1>5. RegionInv(d)'
    <2>1. /\ RegionIs(p, C, held[d], major[d], One("user_region") \in cut[d])
          /\ C # {} => p.at \notin Opening \cup (Public \ {"free_interfaces"})
        BY <1>1, CdevParts, RegionParts DEF NodesAre
    <2>2. held'[d][One("region")] = held[d][One("region")]
        BY RegionUntouched
    <2> HIDE DEF C, p, q
    <2>3. ASSUME p = q
          PROVE  RegionIs(q, C, held'[d], major[d], One("user_region") \in cut'[d])
        BY <2>1, <2>2, <2>3 DEF RegionIs, Num, RegionLeft
    <2>4. ASSUME p.at \in (Bound \ {"free_interfaces"}) \cup {"create"}, q.at \in Bound
          PROVE  RegionIs(q, C, held'[d], major[d], One("user_region") \in cut'[d])
        <3>1. /\ p.at \in Public \ {"free_interfaces"}
              /\ q.at \in Public /\ q.at \notin Opening
            BY <2>4 DEF Bound, Public, Opening
        <3>2. C = {}
            BY <2>1, <3>1
        <3> QED
            BY <2>1, <2>2, <3>1, <3>2 DEF RegionIs, RegionLeft, Num
    <2>5. ASSUME p.at \in Closing, q.at \in Closing
          PROVE  RegionIs(q, C, held'[d], major[d], One("user_region") \in cut'[d])
        <3>1. /\ q.at \notin Opening \cup Public \cup {"fail"}
              /\ p.at \notin Opening \cup Public \cup {"fail"}
              /\ q.at # "free_interfaces" /\ p.at # "free_interfaces"
            BY <2>5 DEF Closing, Opening, Public
        <3> QED
            BY <2>1, <2>2, <3>1 DEF RegionIs, Num, RegionLeft
    <2>6. RegionIs(q, C, held'[d], major[d], One("user_region") \in cut'[d])
        <3>1. \/ p = q
              \/ p.at \in (Bound \ {"free_interfaces"}) \cup {"create"} /\ q.at \in Bound
              \/ p.at \in Closing /\ q.at \in Closing
            BY DEF p, q
        <3> QED
            BY <2>3, <2>4, <2>5, <3>1
    <2> QED
        BY <2>6, RegionParts DEF C, q
<1> HIDE DEF C, s, p, q
<1>4. NodesAre(q, C, s, held'[d], flags[d], major[d])
    <2>3. CASE p = q
        <3>1. NodesHeld(p, C, s, held'[d], flags[d])
            BY <1>1, <1>3 DEF NodesAre, NodesHeld
        <3> QED
            BY <1>1, <2>3, <3>1 DEF NodesAre
    <2>1. CASE /\ \/ p.at \in Bound \ {"free_interfaces"}
                  \/ p.at = "create" /\ p.i = Len(s)
               /\ q.at \in Bound
        <3>1. /\ p.at \in Public \ {"free_interfaces"} /\ q.at \in Public
              /\ p.at # "fail" /\ q.at # "fail" /\ q.at # "create" /\ q.at \notin Opening
            BY <2>1 DEF Bound, Public, Opening
        <3>2. C = {}
            BY <1>1, <3>1 DEF NodesAre
        <3>3. MadeAt(p, C, s) = Len(s) /\ MadeAt(q, C, s) = Len(s)
            BY <2>1, <3>1, <3>2 DEF MadeAt, Bound
        <3>4. \A c : RemovedAt(q, C, c, flags[d]) = 0 /\ RemovedAt(p, C, c, flags[d]) = 0
            BY <3>2 DEF RemovedAt
        <3>5. NodesHeld(q, C, s, held'[d], flags[d])
            <4>1. NodesHeld(p, C, s, held[d], flags[d])
                BY <1>1 DEF NodesAre
            <4>2. ASSUME NEW c \in Cdevs
                  PROVE  held'[d][<<"cdev", c>>] =
                            IF \E k \in 1..MadeAt(q, C, s) : s[k] = c
                            THEN 1 - RemovedAt(q, C, c, flags[d]) ELSE 0
                <5>1. held[d][<<"cdev", c>>] =
                            IF \E k \in 1..MadeAt(p, C, s) : s[k] = c
                            THEN 1 - RemovedAt(p, C, c, flags[d]) ELSE 0
                    BY <4>1 DEF NodesHeld
                <5> QED
                    BY <1>3, <3>3, <3>4, <5>1
            <4> QED
                BY <4>2 DEF NodesHeld
        <3> QED
            BY <1>1, <3>1, <3>2, <3>3, <3>5 DEF NodesAre
    <2>2. CASE p.at \in Closing /\ q.at \in Closing
        <3>1. /\ q.at \notin Opening \cup Public \cup {"fail", "create"}
              /\ p.at \notin Opening \cup Public \cup {"fail"}
            BY <2>2 DEF Closing, Opening, Public
        <3>2. MadeAt(q, C, s) = MadeAt(p, C, s)
            BY <3>1 DEF MadeAt, Public
        <3>3. \A c : RemovedAt(q, C, c, flags[d]) = RemovedAt(p, C, c, flags[d])
            BY <3>1 DEF RemovedAt, Public
        <3>4. NodesHeld(q, C, s, held'[d], flags[d])
            <4>1. NodesHeld(p, C, s, held[d], flags[d])
                BY <1>1 DEF NodesAre
            <4>2. ASSUME NEW c \in Cdevs
                  PROVE  held'[d][<<"cdev", c>>] =
                            IF \E k \in 1..MadeAt(q, C, s) : s[k] = c
                            THEN 1 - RemovedAt(q, C, c, flags[d]) ELSE 0
                <5>1. held[d][<<"cdev", c>>] =
                            IF \E k \in 1..MadeAt(p, C, s) : s[k] = c
                            THEN 1 - RemovedAt(p, C, c, flags[d]) ELSE 0
                    BY <4>1 DEF NodesHeld
                <5> QED
                    BY <1>3, <3>2, <3>3, <5>1
            <4> QED
                BY <4>2 DEF NodesHeld
        <3> QED
            BY <1>1, <3>1, <3>2, <3>4 DEF NodesAre
    <2> QED
        BY <2>1, <2>2, <2>3 DEF p, q, s
<1> QED
    BY <1>2, <1>4, <1>5, CdevParts DEF C, q

(* n devices are made, of which none has been removed.                     *)
LEMMA NodesHeldAll ==
    ASSUME NEW p, NEW C, NEW s, NEW h, NEW fl, NEW n, MadeAt(p, C, s) = n,
           \A c : RemovedAt(p, C, c, fl) = 0
    PROVE  NodesHeld(p, C, s, h, fl) <=>
                \A c \in Cdevs : h[<<"cdev", c>>] = IF \E k \in 1..n : s[k] = c THEN 1 ELSE 0
<1>1. ASSUME NEW c \in Cdevs
      PROVE  (IF \E k \in 1..MadeAt(p, C, s) : s[k] = c THEN 1 - RemovedAt(p, C, c, fl) ELSE 0)
                = IF \E k \in 1..n : s[k] = c THEN 1 ELSE 0
    <2>1. 1 - RemovedAt(p, C, c, fl) = 1
        OBVIOUS
    <2> QED
        BY <2>1
<1> QED
    BY <1>1, Zenon DEF NodesHeld

(* create_xcdev() makes one more ...                                       *)
LEMMA CreateCdevKeeps ==
    ASSUME TypeOK, NEW d \in Devices, CdevInv(d), Local(d), CreateCdev(d)
    PROVE  CdevInv(d)'
<1> DEFINE C == CutAt(d, "cdev")
           s == CdevSeq(d)
           p == pc[d]
           q == pc'[d]
           i == pc[d].i
           k == i + 1
<1>1. /\ NodesAre(p, C, s, held[d], flags[d], major[d]) /\ Len(s) \in Nat
      /\ \A j, l \in 1..Len(s) : s[j] = s[l] => j = l
      /\ s \in Seq(Cdevs)
    BY CdevParts, CdevSeqFacts
<1>2. p.at = "create" /\ q.at = "create" /\ q.i = k /\ i \in Nat /\ k <= Len(s)
    BY OpenJumps, LoopEffect DEF CreateCdev, Jumps, TypeOK
<1>3. CdevSeq(d)' = s /\ CutAt(d, "cdev")' = C
    BY CdevSeqIs DEF CreateCdev, devVars, CutAt, Succeeds
<1>4. C = {}
    BY <1>1, <1>2 DEF NodesAre, Public
<1>5. flags'[d] = FlagsOf(s, k)
    BY DEF CreateCdev, TypeOK, FlagsAfter, FlagsOf
<1>6. major'[d] # 0
    <2>1. CASE major[d] = 0
        <3>1. \E m \in Majors : major' = [major EXCEPT ![d] = m]
            BY <2>1 DEF CreateCdev, AllocRegion
        <3> QED
            BY <3>1, MajorsAssumption DEF TypeOK
    <2>2. CASE major[d] # 0
        BY <2>2 DEF CreateCdev
    <2> QED
        BY <2>1, <2>2
<1>7. /\ held'[d][<<"cdev", s[k]>>] = held[d][<<"cdev", s[k]>>] + 1
      /\ \A c \in Cdevs \ {s[k]} : held'[d][<<"cdev", c>>] = held[d][<<"cdev", c>>]
    <2>1. \A c \in Cdevs : <<"cdev", c>> \in Resources
        BY KindsOfResources
    <2>2. s[k] \in Cdevs
        BY <1>1, <1>2
    <2>3. \E R \in {{<<"cdev", s[k]>>}, {<<"cdev", s[k]>>, One("region")}} :
                AcquireAll(d, R)
        BY DEF CreateCdev, Acquire
    <2>4. PICK R \in {{<<"cdev", s[k]>>}, {<<"cdev", s[k]>>, One("region")}} :
                AcquireAll(d, R)
        BY <2>3
    <2>5. \A c \in Cdevs : <<"cdev", c>> # One("region")
        BY DEF One
    <2>6. \A c \in Cdevs : <<"cdev", c>> \in R <=> c = s[k]
        BY <2>5
    <2>7. \A r \in Resources : held'[d][r] = IF r \in R THEN held[d][r] + 1 ELSE held[d][r]
        BY <2>4, AcquireEffect
    <2> QED
        BY <2>1, <2>2, <2>6, <2>7
<1>12. RegionInv(d)'
    <2>1. /\ RegionIs(p, {}, held[d], major[d], One("user_region") \in cut[d])
          /\ cut' = cut /\ p.at = "create" /\ q.at = "create"
        BY <1>2, <1>4, CdevParts, RegionParts DEF CreateCdev, Succeeds
    <2>2. One("region") \in Resources
        BY SingleResources
    <2>3. "create" \in Opening \cup (Public \ {"free_interfaces"}) \cup {"fail"}
        BY DEF Public
    <2>4. /\ One("user_region") \notin cut[d]
          /\ held[d][One("region")] = IF major[d] # 0 THEN 1 ELSE 0
        BY <2>1, <2>3 DEF RegionIs, Num
    <2>5. held'[d][One("region")] = 1
        <3>1. CASE major[d] = 0
            <4>1. AcquireAll(d, {<<"cdev", s[k]>>, One("region")})
                BY <3>1 DEF CreateCdev
            <4>2. One("region") \in {<<"cdev", s[k]>>, One("region")}
                OBVIOUS
            <4>3. held'[d][One("region")] = held[d][One("region")] + 1
                BY <2>2, <4>1, <4>2, AcquireEffect
            <4> QED
                BY <2>4, <3>1, <4>3
        <3>2. CASE major[d] # 0
            <4>1. AcquireAll(d, {<<"cdev", s[k]>>})
                BY <3>2 DEF CreateCdev, Acquire
            <4>2. One("region") \notin {<<"cdev", s[k]>>}
                BY OneKind
            <4>3. held'[d][One("region")] = held[d][One("region")]
                BY <2>2, <4>1, <4>2, AcquireEffect
            <4> QED
                BY <2>4, <3>2, <4>3
        <3> QED
            BY <3>1, <3>2
    <2> HIDE DEF p, q
    <2>6. RegionIs(q, {}, held'[d], major'[d], One("user_region") \in cut'[d])
        BY <1>6, <2>1, <2>3, <2>4, <2>5 DEF RegionIs, Num
    <2> QED
        BY <1>3, <1>4, <2>6, RegionParts DEF q
<1> HIDE DEF C, s, p, q
<1>8. MadeAt(p, C, s) = i /\ MadeAt(q, C, s) = k
    BY <1>2, <1>4 DEF MadeAt, p
<1>9. \A c, fl : RemovedAt(p, C, c, fl) = 0 /\ RemovedAt(q, C, c, fl) = 0
    BY <1>4 DEF RemovedAt
<1>10. NodesHeld(q, C, s, held'[d], flags'[d])
    <2>1. ASSUME NEW c \in Cdevs
          PROVE  held'[d][<<"cdev", c>>] = IF \E j \in 1..k : s[j] = c THEN 1 ELSE 0
        <3>1. held[d][<<"cdev", c>>] = IF \E j \in 1..i : s[j] = c THEN 1 ELSE 0
            BY <1>1, <1>8, <1>9 DEF NodesAre, NodesHeld
        <3>2. (\E j \in 1..k : s[j] = c) <=> (\E j \in 1..i : s[j] = c) \/ s[k] = c
            <4>1. 1..k = 1..i \cup {k}
                BY <1>2
            <4> QED
                BY <4>1
        <3>3. s[k] = c => ~(\E j \in 1..i : s[j] = c)
            <4>1. ASSUME NEW j \in 1..i
                  PROVE  s[j] # s[k]
                <5>1. j \in 1..Len(s) /\ k \in 1..Len(s) /\ j # k
                    BY <1>1, <1>2
                <5> QED
                    BY <1>1, <5>1
            <4> QED
                BY <4>1
        <3> QED
            BY <1>7, <3>1, <3>2, <3>3
    <2> QED
        BY <1>8, <1>9, <2>1, NodesHeldAll
<1>11. NodesAre(q, C, s, held'[d], flags'[d], major'[d])
    BY <1>2, <1>4, <1>5, <1>6, <1>8, <1>10 DEF NodesAre
<1> QED
    BY <1>3, <1>11, <1>12, CdevParts DEF q

(* ... or fails, and that is noted.                                        *)
LEMMA CreateFailsKeeps ==
    ASSUME TypeOK, NEW d \in Devices, CdevInv(d), Local(d), CreateCdevFails(d)
    PROVE  CdevInv(d)' /\ CutAt(d, "cdev")' = {pc[d].i + 1}
<1> DEFINE C == CutAt(d, "cdev")
           s == CdevSeq(d)
           p == pc[d]
           q == pc'[d]
           i == pc[d].i
           k == i + 1
<1>1. NodesAre(p, C, s, held[d], flags[d], major[d]) /\ Len(s) \in Nat
    BY CdevParts, CdevSeqFacts
<1>2. p.at = "create" /\ q.at = "fail" /\ i \in Nat /\ k <= Len(s)
    BY OpenJumps DEF CreateCdevFails, Jumps, TypeOK
<1>3. CdevSeq(d)' = s
    BY CdevSeqIs DEF CreateCdevFails, devVars
<1>4. C = {}
    BY <1>1, <1>2 DEF NodesAre, Public
<1>5. CutAt(d, "cdev")' = {k}
    <2>1. Note(d, {<<"cdev", k>>}) \/ Note(d, {<<"cdev", k>>, One("user_region")})
        BY DEF CreateCdevFails
    <2>2. \/ cut'[d] = cut[d] \cup {<<"cdev", k>>}
          \/ cut'[d] = cut[d] \cup {<<"cdev", k>>, One("user_region")}
        BY <2>1 DEF Note, TypeOK
    <2>3. One("user_region")[1] # "cdev" /\ <<"cdev", k>>[1] = "cdev" /\ <<"cdev", k>>[2] = k
        BY OneKind
    <2>4. {x \in cut[d] : x[1] = "cdev"} = {}
        BY <1>4, NoCut
    <2>5. {x \in cut'[d] : x[1] = "cdev"} = {<<"cdev", k>>}
        BY <2>2, <2>3, <2>4
    <2>6. CutAt(d, "cdev")' = {c[2] : c \in {<<"cdev", k>>}}
        BY <2>5 DEF CutAt
    <2> QED
        BY <2>3, <2>6
<1>6. /\ UNCHANGED flags
      /\ major[d] # 0 => major'[d] # 0
      /\ \A c \in Cdevs : held'[d][<<"cdev", c>>] = held[d][<<"cdev", c>>]
    <2>1. Touches(d, {"region"})
        BY OpenTouches
    <2>2. \A c \in Cdevs : held'[d][<<"cdev", c>>] = held[d][<<"cdev", c>>]
        BY <2>1, CdevUntouched
    <2>3. UNCHANGED flags /\ (major[d] # 0 => major' = major)
        BY DEF CreateCdevFails
    <2> QED
        BY <2>2, <2>3
<1>12. RegionInv(d)'
    <2>1. /\ RegionIs(p, {}, held[d], major[d], One("user_region") \in cut[d])
          /\ p.at = "create" /\ q.at = "fail"
        BY <1>2, <1>4, CdevParts, RegionParts
    <2>2. One("region") \in Resources /\ One("user_region") \in CutKinds \X Nat
        BY SingleResources, OneNamed DEF CutKinds
    <2>3. "create" \in Opening \cup (Public \ {"free_interfaces"}) \cup {"fail"}
        BY DEF Public
    <2>4. /\ One("user_region") \notin cut[d]
          /\ held[d][One("region")] = IF major[d] # 0 THEN 1 ELSE 0
        BY <2>1, <2>3 DEF RegionIs, Num
    <2>5. One("user_region") # <<"cdev", k>>
        BY OneKind
    <2>6. \/ /\ One("user_region") \notin cut'[d]
             /\ held'[d][One("region")] = IF major'[d] # 0 THEN 1 ELSE 0
          \/ /\ One("user_region") \in cut'[d] /\ major'[d] # 0
             /\ held'[d][One("region")] = 0
        <3>1. ASSUME Note(d, {<<"cdev", k>>})
              PROVE  One("user_region") \notin cut'[d]
            BY <2>4, <2>5, <3>1 DEF Note, TypeOK
        <3>2. CASE Note(d, {<<"cdev", k>>}) /\ UNCHANGED <<held, region, major>>
            BY <2>4, <3>1, <3>2
        <3>3. CASE /\ major[d] = 0 /\ Note(d, {<<"cdev", k>>})
                   /\ AllocRegion(d) /\ Acquire(d, One("region"))
            <4>1. major'[d] # 0
                BY <3>3, MajorsAssumption DEF AllocRegion, TypeOK
            <4>2. AcquireAll(d, {One("region")})
                BY <3>3 DEF Acquire
            <4>3. held'[d][One("region")] = held[d][One("region")] + 1
                BY <2>2, <4>2, AcquireEffect
            <4> QED
                BY <2>4, <3>1, <3>3, <4>1, <4>3
        <3>4. CASE /\ major[d] # 0
                   /\ Note(d, {<<"cdev", k>>, One("user_region")})
                   /\ Release(d, {One("region")}) /\ UNCHANGED major
            <4>1. One("user_region") \in cut'[d]
                BY <3>4 DEF Note, TypeOK
            <4>2. held'[d][One("region")] = held[d][One("region")] - 1
                BY <2>2, <3>4, ReleaseEffect
            <4> QED
                BY <2>4, <3>4, <4>1, <4>2
        <3> QED
            BY <3>2, <3>3, <3>4 DEF CreateCdevFails
    <2> HIDE DEF p, q, k
    <2>7. RegionIs(q, {k}, held'[d], major'[d], One("user_region") \in cut'[d])
        BY <2>1, <2>6 DEF RegionIs, Num
    <2> QED
        BY <1>5, <2>7, RegionParts DEF q
<1> HIDE DEF C, s, p, q
<1>7. MadeAt(p, C, s) = i /\ MadeAt(q, {k}, s) = i
    <2>1. MadeAt(p, C, s) = i
        BY <1>2, <1>4 DEF MadeAt, p
    <2>2. (CHOOSE x \in {k} : TRUE) = k
        OBVIOUS
    <2>3. MadeAt(q, {k}, s) = k - 1
        BY <2>2 DEF MadeAt
    <2> QED
        BY <1>2, <2>1, <2>3
<1>8. \A c, fl : RemovedAt(p, C, c, fl) = 0 /\ RemovedAt(q, {k}, c, fl) = 0
    BY <1>2, <1>4 DEF RemovedAt
<1>9. NodesHeld(q, {k}, s, held'[d], flags'[d])
    <2>1. NodesHeld(p, C, s, held[d], flags[d])
        BY <1>1 DEF NodesAre
    <2>2. ASSUME NEW c \in Cdevs
          PROVE  held[d][<<"cdev", c>>] = IF \E j \in 1..i : s[j] = c THEN 1 ELSE 0
        BY <1>7, <1>8, <2>1 DEF NodesHeld
    <2> DEFINE K == {k}
               n == i
               h == held'[d]
               fl == flags'[d]
    <2>3. MadeAt(q, K, s) = n /\ \A c : RemovedAt(q, K, c, fl) = 0
        BY <1>7, <1>8
    <2>4. \A c \in Cdevs : h[<<"cdev", c>>] = IF \E j \in 1..n : s[j] = c THEN 1 ELSE 0
        BY <1>6, <2>2
    <2> HIDE DEF K, n, h, fl
    <2>5. NodesHeld(q, K, s, h, fl)
        BY <2>3, <2>4, NodesHeldAll
    <2> QED
        BY <2>5 DEF K, h, fl
<1>10. p.at \in Public /\ q.at \notin Opening \cup Public
    BY <1>2 DEF Opening, Public
<1>11. NodesAre(q, {k}, s, held'[d], flags'[d], major'[d])
    <2>1. k \in 1..Len(s) /\ i <= Len(s)
        BY <1>1, <1>2
    <2>2. flags[d] = FlagsOf(s, i) /\ (major[d] = 0 <=> i = 0)
        BY <1>1, <1>2, <1>7, <1>10 DEF NodesAre
    <2> QED
        BY <1>2, <1>6, <1>7, <1>9, <1>10, <2>1, <2>2 DEF NodesAre
<1> QED
    BY <1>3, <1>5, <1>11, <1>12, CdevParts DEF q

(* xpdev_destroy_interfaces() removes what was made of the finished        *)
(* groups.                                                                 *)
LEMMA DestroyEffect ==
    ASSUME TypeOK, NEW d \in Devices, DestroyInterfaces(d),
           NEW n \in 0..Len(CdevSeq(d)), flags[d] = FlagsOf(CdevSeq(d), n),
           NEW c \in Cdevs
    PROVE  held'[d][<<"cdev", c>>] =
                IF (\E j \in 1..n : CdevSeq(d)[j] = c) /\ Group(c) \in flags[d]
                THEN held[d][<<"cdev", c>>] - 1 ELSE held[d][<<"cdev", c>>]
<1> DEFINE s == CdevSeq(d)
           R == {<<"cdev", s[i]>> : i \in {j \in 1..Len(s) : Group(s[j]) \in flags[d]}}
                \cup (IF major[d] = 0 THEN {} ELSE {One("region")})
<1>1. Len(s) \in Nat /\ <<"cdev", c>> \in Resources
    BY CdevSeqFacts, KindsOfResources
<1>2. Release(d, R)
    BY DEF DestroyInterfaces
<1> HIDE DEF s
<1>3. <<"cdev", c>> \in R <=> \E j \in 1..Len(s) : Group(s[j]) \in flags[d] /\ s[j] = c
    <2>1. <<"cdev", c>> # One("region")
        BY DEF One
    <2> QED
        BY <2>1
<1>4. ASSUME NEW j \in 1..Len(s), Group(s[j]) \in flags[d]
      PROVE  j \in 1..n
    <2>1. Group(s[j]) \notin {Group(s[i]) : i \in (n + 1)..Len(s)}
        BY <1>4 DEF FlagsOf, s
    <2>2. j \notin (n + 1)..Len(s)
        BY <2>1
    <2> QED
        BY <1>1, <2>2 DEF s
<1>5. 1..n \subseteq 1..Len(s)
    BY <1>1 DEF s
<1>6. <<"cdev", c>> \in R <=> (\E j \in 1..n : s[j] = c) /\ Group(c) \in flags[d]
    BY <1>3, <1>4, <1>5
<1> HIDE DEF R
<1> QED
    BY <1>1, <1>2, <1>6, ReleaseEffect DEF s

LEMMA DestroyRegion ==
    ASSUME TypeOK, NEW d \in Devices, DestroyInterfaces(d)
    PROVE  held'[d][One("region")] = held[d][One("region")] - Num(major[d] # 0)
<1> DEFINE s == CdevSeq(d)
           Q == {<<"cdev", s[i]>> : i \in {j \in 1..Len(s) : Group(s[j]) \in flags[d]}}
           R == Q \cup (IF major[d] = 0 THEN {} ELSE {One("region")})
<1>1. One("region") \notin Q
    BY OneKind
<1>2. Release(d, R)
    BY DEF DestroyInterfaces
<1> HIDE DEF Q
<1>3. One("region") \in R <=> major[d] # 0
    BY <1>1
<1> HIDE DEF R
<1>4. One("region") \in Resources /\ held[d][One("region")] \in Int
    BY SingleResources DEF TypeOK
<1> QED
    BY <1>2, <1>3, <1>4, ReleaseEffect DEF Num

(* The failed creation removes them, and xpdev_free() once more.           *)
LEMMA UnwindKeeps ==
    ASSUME TypeOK, NEW d \in Devices, CdevInv(d), Local(d),
           CreateUnwind(d) \/ FreeInterfaces(d)
    PROVE  CdevInv(d)'
<1> DEFINE C == CutAt(d, "cdev")
           s == CdevSeq(d)
           p == pc[d]
           q == pc'[d]
           n == MadeAt(p, C, s)
           fl == flags[d]
<1>1. NodesAre(p, C, s, held[d], fl, major[d]) /\ Len(s) \in Nat
    BY CdevParts, CdevSeqFacts
<1>2. /\ CdevSeq(d)' = s /\ CutAt(d, "cdev")' = C /\ UNCHANGED <<flags, major>>
      /\ DestroyInterfaces(d)
    BY CdevSeqIs DEF CreateUnwind, FreeInterfaces, devVars, CutAt
<1>3. \/ p.at = "fail" /\ q.at = "free_interfaces" /\ C # {}
      \/ p.at = "free_interfaces" /\ q.at = "close"
    BY <1>1, CloseJumps DEF Jumps, NodesAre
<1>4. /\ {"free_interfaces"} \subseteq Public
      /\ "fail" \notin Opening \cup Public /\ "close" \notin Opening \cup Public
      /\ "free_interfaces" \notin Opening
    BY DEF Opening, Public
<1>5. fl = FlagsOf(s, n)
    BY <1>1, <1>3, <1>4 DEF NodesAre
<1>6. n \in 0..Len(s)
    <2>1. CASE C # {}
        <3>1. PICK k \in 1..Len(s) : C = {k}
            BY <1>1, <2>1 DEF NodesAre
        <3>2. (CHOOSE x \in {k} : TRUE) = k
            OBVIOUS
        <3>3. n = k - 1
            BY <2>1, <3>1, <3>2 DEF MadeAt
        <3> QED
            BY <1>1, <3>1, <3>3
    <2>2. CASE C = {}
        BY <1>1, <1>3, <2>2 DEF MadeAt
    <2> QED
        BY <2>1, <2>2
<1>7. ASSUME NEW c \in Cdevs
      PROVE  held'[d][<<"cdev", c>>] =
                IF (\E j \in 1..n : s[j] = c) /\ Group(c) \in fl
                THEN held[d][<<"cdev", c>>] - 1 ELSE held[d][<<"cdev", c>>]
    BY <1>2, <1>5, <1>6, DestroyEffect
<1>8. ASSUME NEW c \in Cdevs
      PROVE  held[d][<<"cdev", c>>] =
                IF \E j \in 1..n : s[j] = c THEN 1 - RemovedAt(p, C, c, fl) ELSE 0
    BY <1>1 DEF NodesAre, NodesHeld
<1>11. RegionInv(d)'
    <2>1. RegionIs(p, C, held[d], major[d], One("user_region") \in cut[d])
        BY CdevParts, RegionParts
    <2>2. held'[d][One("region")] = held[d][One("region")] - Num(major[d] # 0)
        BY <1>2, DestroyRegion
    <2>3. UNCHANGED cut
        BY DEF CreateUnwind, FreeInterfaces
    <2> HIDE DEF C, p, q
    <2>6. RegionIs(q, C, held'[d], major[d], One("user_region") \in cut[d])
        <3>1. \/ p.at = "fail" /\ q.at = "free_interfaces" /\ C # {}
              \/ p.at = "free_interfaces" /\ q.at = "close"
            BY <1>3 DEF p, q, C
        <3>2. /\ p.at = "fail" /\ q.at = "free_interfaces" /\ C # {} =>
                    RegionIs(q, C, held'[d], major[d], One("user_region") \in cut[d])
              /\ p.at = "free_interfaces" /\ q.at = "close" =>
                    RegionIs(q, C, held'[d], major[d], One("user_region") \in cut[d])
            BY <1>4, <2>1, <2>2 DEF RegionIs, RegionLeft, Num
        <3> QED
            BY <3>1, <3>2
    <2> QED
        BY <1>2, <2>3, <2>6, RegionParts DEF C, q
<1> HIDE DEF C, s, p, q, n, fl
<1>9. CASE C # {}
    <2>1. MadeAt(q, C, s) = n
        BY <1>9 DEF MadeAt, n
    <2>2. ASSUME NEW c \in Cdevs
          PROVE  RemovedAt(q, C, c, fl) = IF Group(c) \in fl THEN RemovedAt(p, C, c, fl) + 1
                                          ELSE RemovedAt(p, C, c, fl)
        BY <1>3, <1>9 DEF RemovedAt
    <2>3. ASSUME NEW c \in Cdevs
          PROVE  held'[d][<<"cdev", c>>] =
                    IF \E j \in 1..n : s[j] = c THEN 1 - RemovedAt(q, C, c, fl) ELSE 0
        <3>1. RemovedAt(p, C, c, fl) \in Int
            BY DEF RemovedAt
        <3> QED
            BY <1>7, <1>8, <2>2, <3>1
    <2>4. NodesHeld(q, C, s, held'[d], fl)
        BY <2>1, <2>3 DEF NodesHeld
    <2>5. n > 0 => major[d] # 0
        BY <1>1 DEF NodesAre, n
    <2>6. q.at \notin Opening \cup (Public \ {"free_interfaces"}) /\ q.at # "fail"
        BY <1>3, <1>4
    <2>7. q.at \notin Opening \cup {"create"}
        BY <1>3, <1>4
    <2>8. n <= Len(s) /\ \E k \in 1..Len(s) : C = {k}
        BY <1>1, <1>9 DEF NodesAre, n
    <2>9. NodesAre(q, C, s, held'[d], fl, major[d])
        BY <1>5, <2>1, <2>4, <2>5, <2>6, <2>7, <2>8 DEF NodesAre
    <2> QED
        BY <1>2, <1>11, <2>9, CdevParts DEF C, q, fl
<1>10. CASE C = {}
    <2>1. p.at = "free_interfaces" /\ q.at = "close"
        BY <1>3, <1>10
    <2>2. n = Len(s)
        BY <1>10, <2>1 DEF MadeAt, n
    <2>3. ASSUME NEW c \in Cdevs
          PROVE  held'[d][<<"cdev", c>>] = 0
        <3>1. RemovedAt(p, C, c, fl) = 0
            BY <1>10 DEF RemovedAt
        <3>2. ASSUME NEW j \in 1..n, s[j] = c
              PROVE  Group(c) \in fl
            <4>1. Group(s[j]) \in FlagsAfter(d, Len(s))
                BY <2>2, FlagsFacts DEF s
            <4>2. FlagsAfter(d, Len(s)) = FlagsOf(s, n)
                BY <2>2 DEF FlagsAfter, FlagsOf, s
            <4> QED
                BY <1>5, <3>2, <4>1, <4>2
        <3> QED
            BY <1>7, <1>8, <3>1, <3>2
    <2>4. MadeAt(q, {}, s) = 0
        BY <2>1 DEF MadeAt
    <2>5. NodesAre(q, {}, s, held'[d], fl, major[d])
        BY <1>1, <1>4, <2>1, <2>3, <2>4 DEF NodesAre, NodesHeld
    <2> QED
        BY <1>2, <1>10, <1>11, <2>5, CdevParts DEF C, q, fl
<1> QED
    BY <1>9, <1>10

LEMMA CdevStep ==
    ASSUME TypeOK, ListInv, NEW d \in Devices, EngineInv(d), CdevInv(d), Placed(d),
           Step(d)
    PROVE  CdevInv(d)'
<1> USE DEF modVars, boundVars, devVars, listVars, cdevVars
<1>1. Local(d)
    BY StepLocal
<1>2. ~ProbeAlloc(d) /\ ~CreateCdevFails(d) =>
            /\ CutAt(d, "cdev")' = CutAt(d, "cdev")
            /\ One("user_region") \in cut'[d] <=> One("user_region") \in cut[d]
    BY CdevCutSame
<1>3. pc[d].at \in {"online", "close"} => HandleFound(d)
    BY DEF ListInv, IsListed, HasBars, HasEngines, Active, Complete
<1>4. /\ ProbeAlloc(d) => pc[d].at = "absent"
      /\ CreateCdevFails(d) => pc[d].at = "create"
    BY OpenJumps DEF Jumps
<1>5. \A at \in Opening : at # "absent" /\ at # "create"
    BY DEF Opening
<1>6. {"free_xdev", "err_enable", "err_regions", "err_map", "err_mask", "err_engines",
       "err_msix"} \cup Opening \subseteq Labels \ (Public \cup {"fail"})
    BY DEF Opening, Public, Labels
<1>7. ASSUME NEW K, Touches(d, K), "cdev" \notin K, "region" \notin K,
             UNCHANGED <<flags, major>>, pc[d].at \in Opening,
             \/ pc'[d].at \in Opening \cup {"free_xdev", "err_enable", "err_regions",
                        "err_map", "err_mask", "err_engines", "err_msix"}
             \/ pc'[d].at = "create" /\ pc'[d].i = 0
      PROVE  CdevInv(d)'
    <2>1. /\ CutAt(d, "cdev")' = CutAt(d, "cdev")
          /\ One("user_region") \in cut'[d] <=> One("user_region") \in cut[d]
        BY <1>2, <1>4, <1>5, <1>7
    <2>2. \/ pc'[d].at \notin Public \cup {"fail"}
          \/ pc'[d].at = "create" /\ pc'[d].i = 0
        BY <1>6, <1>7
    <2> QED
        BY <1>1, <1>7, <2>1, <2>2, CdevOpening
<1>8. CASE ProbeAlloc(d)
    <2>1. pc'[d].at = "list_add" /\ "list_add" \notin Public \cup {"fail"}
        BY <1>8, OpenJumps DEF Jumps, Public
    <2>2. ASSUME NEW c \in Cdevs
          PROVE  held'[d][<<"cdev", c>>] = 0
        <3>1. <<"cdev", c>> \in Resources /\ <<"cdev", c>>[1] = "cdev"
            BY KindsOfResources
        <3>2. held'[d][<<"cdev", c>>] = held[d][<<"cdev", c>>]
            BY <1>8, AllocTouches, CdevUntouched
        <3>3. <<"cdev", c>> # One("input")
            BY DEF One
        <3> QED
            BY <1>8, <3>1, <3>2, <3>3 DEF ProbeAlloc
    <2>3. /\ CutAt(d, "cdev")' = {} /\ flags'[d] = {} /\ major'[d] = 0
          /\ One("user_region") \notin cut'[d]
        <3>1. cut'[d] = {} /\ flags'[d] = {} /\ major'[d] = 0
            BY <1>8 DEF ProbeAlloc, TypeOK
        <3> QED
            BY <3>1 DEF CutAt
    <2>4. held'[d][One("region")] = 0
        <3>1. One("region") \in Resources /\ One("region") # One("input")
            BY SingleResources, OneKind
        <3>2. held'[d][One("region")] = held[d][One("region")]
            BY <1>8, AllocTouches, RegionUntouched
        <3> QED
            BY <1>8, <3>1, <3>2 DEF ProbeAlloc
    <2>5. RegionIs(pc'[d], {}, held'[d], 0, FALSE)
        BY <2>4 DEF RegionIs, RegionLeft, Num
    <2>6. NodesAre(pc'[d], {}, CdevSeq(d)', held'[d], {}, 0)
        BY <1>1, <2>1, <2>2, NextSeqLen, CdevEmpty
    <2>7. (One("user_region") \in cut'[d]) = FALSE
        BY <2>3
    <2> QED
        BY <2>3, <2>5, <2>6, <2>7, CdevParts, RegionParts
<1>9. CASE ListAdd(d) \/ EnableDevice(d) \/ RequestRegions(d) \/ MapBar(d) \/ MapBarsEnd(d)
           \/ SetDmaMask(d)
    <2>1. UNCHANGED <<flags, major>>
        BY <1>9 DEF ListAdd, EnableDevice, RequestRegions, MapBar, MapBarsEnd, SetDmaMask
    <2>2. /\ pc[d].at \in Opening
          /\ pc'[d].at \in Opening \cup {"free_xdev", "err_enable", "err_regions",
                        "err_map", "err_mask"}
        BY <1>9, OpenJumps DEF Jumps, Opening
    <2>3. \/ Touches(d, {"listed"}) \/ Touches(d, {"enabled"}) \/ Touches(d, {"regions"})
          \/ Touches(d, {"bar"}) \/ Touches(d, {})
        BY <1>9, OpenTouches
    <2> QED
        BY <1>7, <2>1, <2>2, <2>3
<1>10. ASSUME NEW dir \in {"h2c", "c2h"}, ProbeEngine(d, dir)
       PROVE  CdevInv(d)'
    <2>1. UNCHANGED <<flags, major>>
        BY <1>10 DEF ProbeEngine
    <2>2. pc[d].at \in Opening /\ pc'[d].at \in Opening
        BY <1>10, OpenJumps DEF Jumps, Opening
    <2>3. Touches(d, EngineKinds) /\ "cdev" \notin EngineKinds /\ "region" \notin EngineKinds
        BY <1>10, EngineTouches DEF EngineKinds
    <2> QED
        BY <1>7, <2>1, <2>2, <2>3
<1>11. CASE EnableMsi(d) \/ MsixIrq(d) \/ MsixIrqEnd(d) \/ LineIrq(d)
    <2>1. UNCHANGED <<flags, major>>
        BY <1>11 DEF EnableMsi, MsixIrq, MsixIrqEnd, LineIrq
    <2>2. pc[d].at \in Opening /\ pc'[d].at \in Opening \cup {"err_engines", "err_msix"}
        BY <1>11, OpenJumps DEF Jumps, Opening
    <2>3. Touches(d, {"vectors"}) \/ Touches(d, {"irq", "line"}) \/ Touches(d, {})
        BY <1>11, OpenTouches
    <2> QED
        BY <1>7, <2>1, <2>2, <2>3
<1>12. CASE Online(d)
    <2>1. pc[d].at = "online" /\ HandleFound(d)
        BY <1>3, <1>12 DEF Online, In
    <2>2. pc'[d].at = "create" /\ pc'[d].i = 0
        BY <1>12, <2>1, GotoEffect DEF Online, Labels
    <2>3. UNCHANGED <<flags, major>> /\ "online" \in Opening
        BY <1>12 DEF Online, Opening
    <2> QED
        BY <1>7, <1>12, <2>1, <2>2, <2>3, OpenTouches
<1>13. CASE CreateCdev(d) \/ CreateCdevFails(d) \/ CreateUnwind(d) \/ FreeInterfaces(d)
    BY <1>1, <1>13, CreateCdevKeeps, CreateFailsKeeps, UnwindKeeps
<1>14. CASE ProbeEnd(d)
    <2>1. /\ pc[d].at = "create" /\ pc'[d].at \in {"bound", "oops"}
          /\ pc[d].i = Len(CdevSeq(d)) /\ UNCHANGED <<flags, major, h2c_max, c2h_max, role>>
        BY <1>14, OpenJumps DEF ProbeEnd, Jumps
    <2>2. /\ CutAt(d, "cdev")' = CutAt(d, "cdev")
          /\ One("user_region") \in cut'[d] <=> One("user_region") \in cut[d]
        <3>1. ~CreateCdevFails(d)
            BY <2>1, OpenJumps DEF Jumps
        <3> QED
            BY <1>2, <1>4, <2>1, <3>1
    <2>3. Touches(d, {"input"}) /\ pc'[d].at \in Bound
        BY <1>14, <2>1, OpenTouches DEF Bound
    <2> QED
        BY <1>1, <2>1, <2>2, <2>3, CdevQuiet
<1>15. ASSUME \/ IrqTeardown(d) \/ DisableMsi(d) \/ RemoveEngines(d) \/ UnmapBars(d)
              \/ ReleaseRegions(d) \/ DisableDevice(d) \/ ListRemove(d) \/ FreeXdev(d)
              \/ FreeXpdev(d)
       PROVE  CdevInv(d)'
    <2>1. UNCHANGED <<flags, major, h2c_max, c2h_max, role, cut>>
        BY <1>15 DEF IrqTeardown, DisableMsi, RemoveEngines, UnmapBars, ReleaseRegions,
           DisableDevice, ListRemove, FreeXdev, FreeXpdev
    <2>2. pc[d].at \in Closing /\ pc'[d].at \in Closing
        BY <1>15, CloseJumps DEF Jumps, Closing
    <2>3. /\ CutAt(d, "cdev")' = CutAt(d, "cdev")
          /\ One("user_region") \in cut'[d] <=> One("user_region") \in cut[d]
        BY <2>1 DEF CutAt
    <2>4. \E K : Touches(d, K) /\ "cdev" \notin K /\ "region" \notin K
        BY <1>15, CloseTouches, EngineTouches DEF EngineKinds
    <2> QED
        BY <1>1, <2>1, <2>2, <2>3, <2>4, CdevQuiet
<1>16. ASSUME Pci(d) \/ CtrlIoctl(d)
       PROVE  CdevInv(d)'
    <2>1. UNCHANGED <<flags, major, h2c_max, c2h_max, role>>
        BY <1>16, PciJumps
    <2>2. \/ pc'[d] = pc[d]
          \/ pc[d].at \in Bound \ {"free_interfaces"} /\ pc'[d].at \in Bound
        BY <1>16, CloseJumps DEF Jumps, Pci, Bound
    <2>3. /\ CutAt(d, "cdev")' = CutAt(d, "cdev")
          /\ One("user_region") \in cut'[d] <=> One("user_region") \in cut[d]
        <3>1. pc[d].at # "absent"
            BY <1>16, PciJumps DEF Public
        <3>2. ~CreateCdevFails(d)
            <4>1. CreateCdevFails(d) => pc[d].at = "create" /\ pc'[d].at = "fail"
                BY OpenJumps DEF Jumps
            <4> QED
                BY <2>2, <4>1 DEF Bound
        <3> QED
            BY <1>2, <1>4, <3>1, <3>2
    <2>4. Touches(d, {"input"}) \/ Touches(d, {"irq", "line", "enabled"})
        BY <1>16, PciJumps
    <2> QED
        BY <1>1, <2>1, <2>2, <2>3, <2>4, CdevQuiet
<1> QED
    BY <1>8, <1>9, <1>10, <1>11, <1>12, <1>13, <1>14, <1>15, <1>16 DEF Step, Probe, Close
-----------------------------------------------------------------------------
(* The major numbers                                                       *)

(* The region of a torn device has been released too often, and it is not  *)
(* probed again.                                                           *)
LEMMA TornNotProbed ==
    ASSUME TypeOK, NEW d \in Devices, CdevInv(d), ProbeAlloc(d)
    PROVE  ~Torn(d)
<1> DEFINE C == CutAt(d, "cdev")
           u == One("user_region") \in cut[d]
<1> SUFFICES ASSUME Torn(d)
             PROVE  FALSE
    OBVIOUS
<1>1. RegionIs(pc[d], C, held[d], major[d], u) /\ pc[d].at = "absent"
    BY CdevParts, RegionParts DEF ProbeAlloc, In
<1>2. held[d][One("region")] = RegionLeft(C, major[d], u)
    BY <1>1 DEF RegionIs, Opening, Public
<1>3. RegionLeft(C, major[d], u) = -1 - Num(u)
    BY DEF Torn, RegionLeft
<1>4. -1 - Num(u) # 0
    BY DEF Num
<1>5. One("region") \in Resources /\ One("region") # One("input")
    BY SingleResources, OneKind
<1> QED
    BY <1>2, <1>3, <1>4, <1>5 DEF ProbeAlloc

(* Only the first character device allocates a number.                     *)
LEMMA MajorKept ==
    ASSUME TypeOK, NEW d \in Devices, Step(d), ~ProbeAlloc(d)
    PROVE  UNCHANGED major \/ CreateCdev(d) \/ CreateCdevFails(d)
<1> USE DEF cdevVars
<1>1. ASSUME \/ ListAdd(d) \/ EnableDevice(d) \/ RequestRegions(d) \/ MapBar(d)
             \/ MapBarsEnd(d) \/ SetDmaMask(d)
      PROVE  UNCHANGED major
    BY <1>1 DEF ListAdd, EnableDevice, RequestRegions, MapBar, MapBarsEnd, SetDmaMask
<1>2. ASSUME \/ EnableMsi(d) \/ MsixIrq(d) \/ MsixIrqEnd(d) \/ LineIrq(d) \/ Online(d)
             \/ ProbeEnd(d)
      PROVE  UNCHANGED major
    BY <1>2 DEF EnableMsi, MsixIrq, MsixIrqEnd, LineIrq, Online, ProbeEnd
<1>5. (\E dir \in {"h2c", "c2h"} : ProbeEngine(d, dir)) => UNCHANGED major
    BY DEF ProbeEngine
<1>3. Close(d) => UNCHANGED major
    BY DEF Close, CreateUnwind, FreeInterfaces, IrqTeardown, DisableMsi, RemoveEngines,
       UnmapBars, ReleaseRegions, DisableDevice, ListRemove, FreeXdev, FreeXpdev
<1>4. Pci(d) \/ CtrlIoctl(d) => UNCHANGED major
    BY DEF Pci, RemoveOne, ErrorDetected, SlotReset, ResetPrepare, ResetDone, CtrlIoctl
<1> QED
    BY <1>1, <1>2, <1>3, <1>4, <1>5 DEF Step, Probe

LEMMA TornKept ==
    ASSUME TypeOK, NEW d \in Devices, EngineInv(d), CdevInv(d), Step(d), NEW o \in Devices,
           Torn(o)
    PROVE  Torn(o)'
<1>1. CASE o # d
    <2>1. cut'[o] = cut[o] /\ major'[o] = major[o]
        BY <1>1, StepLocal DEF Local, Same
    <2> QED
        BY <2>1 DEF Torn, CutAt
<1>2. CASE o = d
    <2>1. ~ProbeAlloc(d)
        BY <1>2, TornNotProbed
    <2>2. cut'[d] = cut[d] \cup cut'[d]
        BY <2>1, CutKept
    <2>3. CutAt(d, "cdev") \subseteq CutAt(d, "cdev")'
        BY <2>2, CutGrows
    <2>4. pc[d].at # "create"
        BY <1>2, CdevParts DEF Torn, NodesAre, Public
    <2>5. UNCHANGED major
        BY <2>1, <2>4, MajorKept DEF CreateCdev, CreateCdevFails, In
    <2> QED
        BY <1>2, <2>3, <2>5 DEF Torn
<1> QED
    BY <1>1, <1>2

(* Without a torn device, a region is its owner's.                         *)
Owned == \A d \in Devices : pc[d].at \in Public /\ major[d] # 0 => region[major[d]] = d

LEMMA MajorIs == MajorInv <=> ((\A d \in Devices : ~Torn(d)) => Owned)
    BY DEF MajorInv, Owned

LEMMA MajorQuiet ==
    ASSUME TypeOK, NEW d \in Devices, Local(d), Owned, UNCHANGED region,
           pc'[d].at \in Public =>
                major'[d] = 0 \/ (pc[d].at \in Public /\ major'[d] = major[d])
    PROVE  Owned'
<1>1. \A o \in Devices \ {d} : pc'[o] = pc[o] /\ major'[o] = major[o]
    BY DEF Local, Same
<1> QED
    BY <1>1 DEF Owned

(* The number that create_xcdev() allocates was nobody's.                  *)
LEMMA CreateOwned ==
    ASSUME TypeOK, NEW d \in Devices, Local(d), Owned, CreateCdev(d)
    PROVE  Owned'
<1>1. pc[d].at = "create" /\ "create" \in Public
    BY DEF CreateCdev, In, Public
<1>2. CASE major[d] # 0
    BY <1>1, <1>2, MajorQuiet DEF CreateCdev
<1>3. CASE major[d] = 0
    <2>1. PICK m \in Majors : /\ region[m] = NoDevice
                              /\ region' = [region EXCEPT ![m] = d]
                              /\ major' = [major EXCEPT ![d] = m]
        BY <1>3 DEF CreateCdev, AllocRegion
    <2>2. region'[m] = d /\ major'[d] = m /\ \A y \in Majors \ {m} : region'[y] = region[y]
        BY <2>1 DEF TypeOK
    <2>3. ASSUME NEW o \in Devices, pc'[o].at \in Public, major'[o] # 0
          PROVE  region'[major'[o]] = o
        <3>1. CASE o = d
            BY <2>2, <3>1
        <3>2. CASE o # d
            <4>1. pc'[o] = pc[o] /\ major'[o] = major[o]
                BY <3>2 DEF Local, Same
            <4>2. region[major[o]] = o /\ major[o] \in Majors
                BY <2>3, <4>1 DEF Owned, TypeOK
            <4>3. major[o] # m
                BY <2>1, <4>2, NoDeviceAssumption
            <4> QED
                BY <2>2, <4>1, <4>2, <4>3
        <3> QED
            BY <3>1, <3>2
    <2> QED
        BY <2>3 DEF Owned
<1> QED
    BY <1>2, <1>3

(* The number that xpdev_free() unregisters is its own.                    *)
LEMMA FreeOwned ==
    ASSUME TypeOK, NEW d \in Devices, Local(d), Owned, FreeInterfaces(d)
    PROVE  Owned'
<1>1. /\ pc[d].at = "free_interfaces" /\ pc'[d].at = "close"
      /\ "free_interfaces" \in Public /\ "close" \notin Public
    BY CloseJumps DEF Jumps, Public
<1>2. Unregister(major[d])
    BY DEF FreeInterfaces, DestroyInterfaces
<1>3. CASE major[d] = 0
    <2>1. UNCHANGED region
        BY <1>2, <1>3 DEF Unregister
    <2> QED
        BY <1>1, <2>1, MajorQuiet
<1>4. CASE major[d] # 0
    <2>1. region[major[d]] = d
        BY <1>1, <1>4 DEF Owned
    <2>2. region' = [region EXCEPT ![major[d]] = NoDevice]
        BY <1>2, <1>4 DEF Unregister
    <2>3. ASSUME NEW o \in Devices, pc'[o].at \in Public, major'[o] # 0
          PROVE  region'[major'[o]] = o
        <3>1. o # d
            BY <1>1, <2>3
        <3>2. pc'[o] = pc[o] /\ major'[o] = major[o]
            BY <3>1 DEF Local, Same
        <3>3. region[major[o]] = o /\ major[o] \in Majors
            BY <2>3, <3>2 DEF Owned, TypeOK
        <3>4. major[o] # major[d]
            BY <2>1, <3>1, <3>3
        <3> QED
            BY <2>2, <3>2, <3>3, <3>4 DEF TypeOK
    <2> QED
        BY <2>3 DEF Owned
<1> QED
    BY <1>3, <1>4

(* A failure that removes a region, or that comes after the allocation,    *)
(* tears the device.                                                       *)
LEMMA FailsOwned ==
    ASSUME TypeOK, NEW d \in Devices, CdevInv(d), Local(d), Owned,
           CreateCdevFails(d) \/ CreateUnwind(d)
    PROVE  Owned' \/ Torn(d)'
<1>1. CASE CreateCdevFails(d)
    <2>1. pc'[d].at = "fail" /\ "fail" \notin Public
        BY <1>1, OpenJumps DEF Jumps, Public
    <2>2. CASE UNCHANGED region
        BY <1>1, <2>1, <2>2, MajorQuiet
    <2>3. CutAt(d, "cdev")' # {}
        BY <1>1, CreateFailsKeeps
    <2>4. ASSUME AllocRegion(d)
          PROVE  major'[d] # 0
        BY <2>4, MajorsAssumption DEF AllocRegion, TypeOK
    <2>5. CASE major'[d] # 0
        BY <2>3, <2>5 DEF Torn
    <2> QED
        BY <1>1, <2>2, <2>4, <2>5 DEF CreateCdevFails
<1>2. CASE CreateUnwind(d)
    <2>1. /\ pc[d].at = "fail" /\ pc'[d].at = "free_interfaces" /\ UNCHANGED <<major, cut>>
          /\ Unregister(major[d])
        BY <1>2, CloseJumps DEF Jumps, CreateUnwind, DestroyInterfaces
    <2>2. CASE major[d] = 0
        <3>1. UNCHANGED region
            BY <2>1, <2>2 DEF Unregister
        <3> QED
            BY <2>1, <2>2, <3>1, MajorQuiet
    <2>3. CASE major[d] # 0
        <3>1. CutAt(d, "cdev") # {}
            BY <2>1, CdevParts DEF NodesAre
        <3> QED
            BY <2>1, <2>3, <3>1 DEF Torn, CutAt
    <2> QED
        BY <2>2, <2>3
<1> QED
    BY <1>1, <1>2

LEMMA MajorStep ==
    ASSUME TypeOK, NEW d \in Devices, EngineInv(d), CdevInv(d), MajorInv, Placed(d), Step(d)
    PROVE  MajorInv'
<1> USE DEF modVars, boundVars, devVars, listVars, cdevVars
<1>1. Local(d)
    BY StepLocal
<1>2. SUFFICES ASSUME \A o \in Devices : ~Torn(o)'
               PROVE  Owned'
    BY DEF MajorInv, Owned
<1>3. \A o \in Devices : ~Torn(o)
    BY <1>2, TornKept
<1>4. Owned
    BY <1>3, MajorIs
<1>5. CASE CreateCdev(d) \/ FreeInterfaces(d) \/ CreateCdevFails(d) \/ CreateUnwind(d)
    BY <1>1, <1>2, <1>4, <1>5, CreateOwned, FreeOwned, FailsOwned
<1>6. CASE ProbeAlloc(d)
    <2>1. pc'[d].at = "list_add" /\ "list_add" \notin Public /\ UNCHANGED region
        BY <1>6, OpenJumps DEF Jumps, Public, ProbeAlloc
    <2> QED
        BY <1>1, <1>4, <2>1, MajorQuiet
<1>7. CASE Online(d)
    <2>1. pc[d].at \in Opening /\ UNCHANGED <<region, major>>
        BY <1>7 DEF Online, In, Opening
    <2>2. major[d] = 0
        BY <2>1, CdevParts, OpeningEmpty
    <2> QED
        BY <1>1, <1>4, <2>1, <2>2, MajorQuiet
<1>8. CASE \/ ListAdd(d) \/ EnableDevice(d) \/ RequestRegions(d) \/ MapBar(d)
           \/ MapBarsEnd(d) \/ SetDmaMask(d) \/ EnableMsi(d) \/ MsixIrq(d)
           \/ MsixIrqEnd(d) \/ LineIrq(d)
    <2>1. UNCHANGED region
        BY <1>8 DEF ListAdd, EnableDevice, RequestRegions, MapBar, MapBarsEnd,
           SetDmaMask, EnableMsi, MsixIrq, MsixIrqEnd, LineIrq
    <2>2. pc'[d].at \notin Public
        BY <1>8, OpenJumps DEF Jumps, Public
    <2> QED
        BY <1>1, <1>4, <2>1, <2>2, MajorQuiet
<1>9. ASSUME NEW dir \in {"h2c", "c2h"}, ProbeEngine(d, dir)
      PROVE  Owned'
    <2>1. UNCHANGED region /\ pc'[d].at \notin Public
        BY <1>9, OpenJumps DEF ProbeEngine, Jumps, Public
    <2> QED
        BY <1>1, <1>4, <2>1, MajorQuiet
<1>10. CASE ProbeEnd(d)
    <2>1. UNCHANGED <<region, major>> /\ pc[d].at \in Public
        BY <1>10 DEF ProbeEnd, In, Public
    <2> QED
        BY <1>1, <1>4, <2>1, MajorQuiet
<1>11. ASSUME \/ IrqTeardown(d) \/ DisableMsi(d) \/ RemoveEngines(d) \/ UnmapBars(d)
              \/ ReleaseRegions(d) \/ DisableDevice(d) \/ ListRemove(d) \/ FreeXdev(d)
              \/ FreeXpdev(d)
       PROVE  Owned'
    <2>1. UNCHANGED region
        BY <1>11 DEF IrqTeardown, DisableMsi, RemoveEngines, UnmapBars, ReleaseRegions,
           DisableDevice, ListRemove, FreeXdev, FreeXpdev
    <2>2. pc'[d].at \notin Public
        BY <1>11, CloseJumps DEF Jumps, Public
    <2> QED
        BY <1>1, <1>4, <2>1, <2>2, MajorQuiet
<1>12. ASSUME Pci(d) \/ CtrlIoctl(d)
       PROVE  Owned'
    <2>1. UNCHANGED <<region, major>>
        BY <1>12, PciJumps
    <2>2. pc'[d].at \in Public => pc[d].at \in Public
        BY <1>12, CloseJumps DEF Jumps, Pci, Public
    <2> QED
        BY <1>1, <1>4, <2>1, <2>2, MajorQuiet
<1> QED
    BY <1>5, <1>6, <1>7, <1>8, <1>9, <1>10, <1>11, <1>12 DEF Step, Probe, Close
-----------------------------------------------------------------------------
(* What there is one of                                                    *)

LEMMA LeftoverIs ==
    ASSUME NEW d \in Devices
    PROVE  /\ Leftover(d, One("enabled"))
                = Num(in_use[d]) - Num(One("frozen") \in cut[d])
           /\ Leftover(d, One("enabled"))'
                = Num(in_use'[d]) - Num(One("frozen") \in cut'[d])
           /\ Leftover(d, One("input")) = IF One("removed") \in cut[d] THEN -1 ELSE 0
           /\ Leftover(d, One("input"))' = IF One("removed") \in cut'[d] THEN -1 ELSE 0
           /\ \A r \in Irqs : Leftover(d, r) = Num(r \in IrqsLeft(d))
<1>1. One("enabled") # One("input") /\ One("enabled") # One("region") /\ One("input") # One("region")
    BY OneKind
<1>2. One("enabled") \notin Irqs /\ One("input") \notin Irqs
    BY KindsOfResources, OneKind
<1>3. One("enabled")[1] # "cdev" /\ One("input")[1] # "cdev"
    BY OneKind
<1>4. \A r \in Irqs : /\ r # One("enabled") /\ r # One("input") /\ r # One("region")
                      /\ r[1] # "cdev"
    BY <1>2, KindsOfResources, OneKind
<1>5. /\ Leftover(d, One("enabled")) = Num(in_use[d]) - Num(One("frozen") \in cut[d])
      /\ Leftover(d, One("input")) = IF One("removed") \in cut[d] THEN -1 ELSE 0
    BY <1>1, <1>2, <1>3 DEF Leftover
<1>6. /\ Leftover(d, One("enabled"))' = Num(in_use'[d]) - Num(One("frozen") \in cut'[d])
      /\ Leftover(d, One("input"))' = IF One("removed") \in cut'[d] THEN -1 ELSE 0
    BY <1>1, <1>2, <1>3 DEF Leftover
<1>7. ASSUME NEW r \in Irqs
      PROVE  Leftover(d, r) = Num(r \in IrqsLeft(d))
    BY <1>4 DEF Leftover
<1> QED
    BY <1>5, <1>6, <1>7

(* RequestRegions and the allocation change regions_in_use, nothing else.  *)
LEMMA UseKept ==
    ASSUME TypeOK, NEW d \in Devices, Step(d)
    PROVE  /\ \A o \in Devices \ {d} : in_use'[o] = in_use[o]
           /\ ~ProbeAlloc(d) /\ ~RequestRegions(d) => UNCHANGED in_use
<1> USE DEF devVars
<1>1. ProbeAlloc(d) \/ RequestRegions(d) => \A o \in Devices \ {d} : in_use'[o] = in_use[o]
    BY DEF ProbeAlloc, RequestRegions, TypeOK
<1>2. ASSUME \/ ListAdd(d) \/ EnableDevice(d) \/ MapBar(d) \/ MapBarsEnd(d) \/ SetDmaMask(d)
      PROVE  UNCHANGED in_use
    BY <1>2 DEF ListAdd, EnableDevice, MapBar, MapBarsEnd, SetDmaMask
<1>3. ASSUME \E dir \in {"h2c", "c2h"} : ProbeEngine(d, dir)
      PROVE  UNCHANGED in_use
    BY <1>3 DEF ProbeEngine
<1>4. ASSUME \/ EnableMsi(d) \/ MsixIrq(d) \/ MsixIrqEnd(d) \/ LineIrq(d) \/ Online(d)
             \/ CreateCdev(d) \/ CreateCdevFails(d) \/ ProbeEnd(d)
      PROVE  UNCHANGED in_use
    BY <1>4 DEF EnableMsi, MsixIrq, MsixIrqEnd, LineIrq, Online, CreateCdev,
       CreateCdevFails, ProbeEnd
<1>5. ASSUME Close(d)
      PROVE  UNCHANGED in_use
    BY <1>5 DEF Close, CreateUnwind, FreeInterfaces, IrqTeardown, DisableMsi, RemoveEngines,
       UnmapBars, ReleaseRegions, DisableDevice, ListRemove, FreeXdev, FreeXpdev
<1>6. ASSUME Pci(d) \/ CtrlIoctl(d)
      PROVE  UNCHANGED in_use
    BY <1>6 DEF Pci, RemoveOne, ErrorDetected, SlotReset, ResetPrepare, ResetDone, CtrlIoctl
<1> QED
    BY <1>1, <1>2, <1>3, <1>4, <1>5, <1>6 DEF Step, Probe

(* What the invariant says of them, from the place p of the device, what   *)
(* is held, the notes c, the interrupt's kind m and regions_in_use u.      *)
Kind(d) == IF hw[d].cap \in {"msix", "msi"} THEN hw[d].cap ELSE "none"

SinglesAre(d, at, h, c, m, u) ==
    /\ h[One("xpdev")] = Num(at # "absent")
    /\ h[One("xdev")] = Num(at \in IsListed \cup {"list_add", "free_xdev"})
    /\ h[One("listed")] = Num(at \in IsListed)
    /\ h[One("regions")] = Num(at \in HasBars \cup {"map", "err_map"})
    /\ h[One("vectors")] = Num(at \in HasVectors /\ m # "none")
    /\ at \in HasVectors => m = Kind(d)
    /\ h[One("enabled")] =
            IF at \notin IsEnabled THEN Num(u) - Num(One("frozen") \in c)
            ELSE IF at = "frozen" \/ One("frozen") \in c THEN 0 ELSE 1
    /\ One("frozen") \in c => at \in Gone \cup {"oops"}
    /\ u => at \in {"err_regions", "err_enable", "free_xdev", "free_xpdev", "absent"}
    /\ h[One("input")] =
            IF \/ at \in {"bound", "frozen", "reset"}
               \/ at = "oops" /\ One("unregistered") \in c
            THEN 1 ELSE IF One("removed") \in c THEN -1 ELSE 0
    /\ One("removed") \in c => at \in Gone
    /\ One("unregistered") \in c => at \in {"bound", "frozen", "reset", "oops"} \cup Gone

LEMMA SingleParts ==
    ASSUME NEW d \in Devices, UNCHANGED hw
    PROVE  /\ SingleInv(d)
                <=> SinglesAre(d, pc[d].at, held[d], cut[d], msi[d], in_use[d])
           /\ SingleInv(d)'
                <=> SinglesAre(d, pc'[d].at, held'[d], cut'[d], msi'[d], in_use'[d])
<1>1. SingleInv(d) <=> SinglesAre(d, pc[d].at, held[d], cut[d], msi[d], in_use[d])
    BY LeftoverIs DEF SingleInv, SinglesAre, Kind
<1>2. SingleInv(d)' <=> SinglesAre(d, pc'[d].at, held'[d], cut'[d], msi'[d], in_use'[d])
    <2>1. Kind(d)' = Kind(d)
        BY DEF Kind
    <2> QED
        BY <2>1, LeftoverIs DEF SingleInv, SinglesAre, Kind
<1> QED
    BY <1>1, <1>2

(* The sets of labels.                                                     *)
LEMMA Places ==
    /\ HasVectors = {"irq", "frozen", "reset", "err_msix", "online", "create", "bound",
                     "oops", "fail", "free_interfaces", "close"}
    /\ HasBars = {"mask", "h2c", "c2h", "err_engines", "err_mask", "msi", "irq", "frozen",
                  "reset", "err_msix", "online", "create", "bound", "oops", "fail",
                  "free_interfaces", "close"}
    /\ IsListed = HasBars \cup {"enable", "regions", "map", "err_map", "err_regions",
                                "err_enable"}
    /\ IsEnabled = HasBars \cup {"regions", "map", "err_map", "err_regions"}
    /\ Gone = {"free_interfaces", "close"} \cup {"err_msix", "err_engines", "err_mask", "err_map",
               "err_regions", "err_enable", "free_xdev", "free_xpdev", "absent"}
    /\ HasVectors \subseteq HasBars
<1>1. HasVectors = {"irq", "frozen", "reset", "err_msix", "online", "create", "bound",
                    "oops", "fail", "free_interfaces", "close"}
    BY DEF HasVectors, HasEngines, Active, Complete
<1>2. HasBars = {"mask", "h2c", "c2h", "err_engines", "err_mask", "msi", "irq", "frozen",
                 "reset", "err_msix", "online", "create", "bound", "oops", "fail",
                 "free_interfaces", "close"}
    BY DEF HasBars, HasEngines, Active, Complete
<1>3. IsListed = HasBars \cup {"enable", "regions", "map", "err_map", "err_regions",
                               "err_enable"}
    BY DEF IsListed
<1>4. IsEnabled = HasBars \cup {"regions", "map", "err_map", "err_regions"}
    BY DEF IsEnabled
<1>5. Gone = {"free_interfaces", "close"} \cup
             {"err_msix", "err_engines", "err_mask", "err_map",
              "err_regions", "err_enable", "free_xdev", "free_xpdev", "absent"}
    BY DEF Gone, Unwinding
<1> QED
    BY <1>1, <1>2, <1>3, <1>4, <1>5

Singles == {"xpdev", "xdev", "listed", "enabled", "regions", "vectors", "input"}

LEMMA SinglesKeep ==
    ASSUME NEW d \in Devices, NEW K, Touches(d, K), NEW n \in Singles, n \notin K
    PROVE  held'[d][One(n)] = held[d][One(n)]
    BY SingleResources, OneKind DEF Touches, Singles

(* The notes that they depend on.                                          *)
SameNotes(d) ==
    \A n \in {"removed", "frozen", "unregistered"} : One(n) \in cut'[d] <=> One(n) \in cut[d]

(* A step in the middle that touches none of them.                         *)
Similar(a, b) ==
    /\ {a, b} \subseteq (HasBars \cup {"map", "err_map"}) \ {"bound", "frozen", "reset", "oops"}
    /\ a \in HasVectors <=> b \in HasVectors
    /\ a \in Gone => b \in Gone

LEMMA SingleQuiet ==
    ASSUME TypeOK, NEW d \in Devices, SingleInv(d), Local(d), NEW K, Touches(d, K),
           K \cap Singles = {}, SameNotes(d), UNCHANGED in_use, msi'[d] = msi[d],
           Similar(pc[d].at, pc'[d].at)
    PROVE  SingleInv(d)'
<1>1. UNCHANGED hw
    BY DEF Local
<1>2. \A n \in Singles : held'[d][One(n)] = held[d][One(n)]
    BY SinglesKeep
<1>3. /\ held'[d][One("xpdev")] = held[d][One("xpdev")]
      /\ held'[d][One("xdev")] = held[d][One("xdev")]
      /\ held'[d][One("listed")] = held[d][One("listed")]
      /\ held'[d][One("regions")] = held[d][One("regions")]
      /\ held'[d][One("vectors")] = held[d][One("vectors")]
      /\ held'[d][One("enabled")] = held[d][One("enabled")]
      /\ held'[d][One("input")] = held[d][One("input")]
    BY <1>2 DEF Singles
<1> DEFINE a == pc[d].at
           b == pc'[d].at
<1>4. SinglesAre(d, a, held[d], cut[d], msi[d], in_use[d])
    BY <1>1, SingleParts
<1>5. Similar(a, b)
    OBVIOUS
<1>6. /\ One("removed") \in cut'[d] <=> One("removed") \in cut[d]
      /\ One("frozen") \in cut'[d] <=> One("frozen") \in cut[d]
      /\ One("unregistered") \in cut'[d] <=> One("unregistered") \in cut[d]
    BY DEF SameNotes
<1>7. in_use'[d] = in_use[d]
    OBVIOUS
<1> HIDE DEF a, b
<1>8. /\ a \in IsListed /\ b \in IsListed /\ a \in IsEnabled /\ b \in IsEnabled
      /\ a # "absent" /\ b # "absent"
      /\ {a, b} \cap {"bound", "frozen", "reset", "oops"} = {}
      /\ a \in HasBars \cup {"map", "err_map"} /\ b \in HasBars \cup {"map", "err_map"}
    BY <1>5, Places DEF Similar
<1>9. ~in_use[d]
    BY <1>4, <1>5, Places DEF SinglesAre, Similar
<1>10. SinglesAre(d, b, held'[d], cut'[d], msi'[d], in_use'[d])
    <2>1. /\ held'[d][One("xpdev")] = Num(b # "absent")
          /\ held'[d][One("xdev")] = Num(b \in IsListed \cup {"list_add", "free_xdev"})
          /\ held'[d][One("listed")] = Num(b \in IsListed)
          /\ held'[d][One("regions")] = Num(b \in HasBars \cup {"map", "err_map"})
        BY <1>3, <1>4, <1>8 DEF SinglesAre, Num
    <2>2. /\ held'[d][One("vectors")] = Num(b \in HasVectors /\ msi'[d] # "none")
          /\ b \in HasVectors => msi'[d] = Kind(d)
        BY <1>3, <1>4, <1>5 DEF SinglesAre, Num, Similar
    <2>3. /\ held'[d][One("enabled")] = IF One("frozen") \in cut'[d] THEN 0 ELSE 1
          /\ One("frozen") \in cut'[d] => b \in Gone
          /\ One("removed") \in cut'[d] => b \in Gone
          /\ One("unregistered") \in cut'[d] => b \in Gone
        BY <1>3, <1>4, <1>5, <1>6, <1>8 DEF SinglesAre, Similar
    <2>4. held'[d][One("input")] = IF One("removed") \in cut'[d] THEN -1 ELSE 0
        BY <1>3, <1>4, <1>6, <1>8 DEF SinglesAre
    <2> QED
        BY <1>7, <1>8, <1>9, <2>1, <2>2, <2>3, <2>4 DEF SinglesAre
<1> QED
    BY <1>1, <1>10, SingleParts DEF b

LEMMA NotesSame ==
    ASSUME TypeOK, NEW d \in Devices, Step(d), ~ProbeAlloc(d), ~ProbeEnd(d), ~RemoveOne(d)
    PROVE  SameNotes(d)
    BY NotesKept DEF SameNotes

(* What changes when the step is from a to b and touches only one of them. *)
SinglesBut(d, k) ==
    /\ \A n \in Singles \ {k} : held'[d][One(n)] = held[d][One(n)]
    /\ One("removed") \in cut'[d] <=> One("removed") \in cut[d]
    /\ One("frozen") \in cut'[d] <=> One("frozen") \in cut[d]
    /\ One("unregistered") \in cut'[d] <=> One("unregistered") \in cut[d]

LEMMA ButOne ==
    ASSUME TypeOK, NEW d \in Devices, NEW k \in Singles, Touches(d, {k}), SameNotes(d)
    PROVE  /\ SinglesBut(d, k)
           /\ held[d][One(k)] \in Int
           /\ \A R : Release(d, R) => held'[d][One(k)] = held[d][One(k)] - Num(One(k) \in R)
           /\ \A R : AcquireAll(d, R) => held'[d][One(k)] = held[d][One(k)] + Num(One(k) \in R)
<1>1. SinglesBut(d, k)
    <2>1. \A n \in Singles \ {k} : held'[d][One(n)] = held[d][One(n)]
        BY SinglesKeep
    <2> QED
        BY <2>1 DEF SinglesBut, SameNotes
<1>2. One(k) \in Resources
    BY SingleResources DEF Singles
<1>3. held[d][One(k)] \in Int
    BY <1>2 DEF TypeOK
<1>4. ASSUME NEW R, Release(d, R)
      PROVE  held'[d][One(k)] = held[d][One(k)] - Num(One(k) \in R)
    BY <1>2, <1>3, <1>4, ReleaseEffect DEF Num
<1>5. ASSUME NEW R, AcquireAll(d, R)
      PROVE  held'[d][One(k)] = held[d][One(k)] + Num(One(k) \in R)
    BY <1>2, <1>3, <1>5, AcquireEffect DEF Num
<1> QED
    BY <1>1, <1>3, <1>4, <1>5

LEMMA ListAddSingles ==
    ASSUME TypeOK, NEW d \in Devices, SingleInv(d), Local(d), ListAdd(d), SameNotes(d),
           UNCHANGED in_use
    PROVE  SingleInv(d)'
<1> DEFINE b == pc'[d].at
<1>1. UNCHANGED hw /\ UNCHANGED msi
    BY DEF Local, ListAdd, devVars
<1>2. SinglesAre(d, "list_add", held[d], cut[d], msi[d], in_use[d])
    BY <1>1, SingleParts, OpenJumps DEF Jumps
<1>3. SinglesBut(d, "listed")
    BY OpenTouches, ButOne DEF Singles
<1>4. \/ b = "enable" /\ held'[d][One("listed")] = held[d][One("listed")] + 1
      \/ b = "free_xdev" /\ held'[d][One("listed")] = held[d][One("listed")]
    <2>1. CASE Acquire(d, One("listed")) /\ Goto(d, "enable")
        <3>1. b = "enable"
            BY <2>1, GotoEffect DEF Labels
        <3>2. held'[d][One("listed")] = held[d][One("listed")] + 1
            BY <2>1, OpenTouches, ButOne DEF Singles, Acquire, Num
        <3> QED
            BY <3>1, <3>2
    <2>2. CASE UNCHANGED held /\ Goto(d, "free_xdev")
        BY <2>2, GotoEffect DEF Labels
    <2> QED
        BY <2>1, <2>2 DEF ListAdd
<1> HIDE DEF b
<1>5. SinglesAre(d, b, held'[d], cut'[d], msi'[d], in_use'[d])
    BY <1>1, <1>2, <1>3, <1>4, Places DEF SinglesAre, SinglesBut, Singles, Num
<1> QED
    BY <1>1, <1>5, SingleParts DEF b

LEMMA EnableSingles ==
    ASSUME TypeOK, NEW d \in Devices, SingleInv(d), Local(d), EnableDevice(d), SameNotes(d),
           UNCHANGED in_use
    PROVE  SingleInv(d)'
<1> DEFINE b == pc'[d].at
<1>1. UNCHANGED hw /\ UNCHANGED msi
    BY DEF Local, EnableDevice, devVars
<1>2. SinglesAre(d, "enable", held[d], cut[d], msi[d], in_use[d])
    BY <1>1, SingleParts, OpenJumps DEF Jumps
<1>3. SinglesBut(d, "enabled")
    BY OpenTouches, ButOne DEF Singles
<1>4. \/ b = "regions" /\ held'[d][One("enabled")] = held[d][One("enabled")] + 1
      \/ b = "err_enable" /\ held'[d][One("enabled")] = held[d][One("enabled")]
    <2>1. CASE Acquire(d, One("enabled")) /\ Goto(d, "regions")
        <3>1. b = "regions"
            BY <2>1, GotoEffect DEF Labels
        <3>2. held'[d][One("enabled")] = held[d][One("enabled")] + 1
            BY <2>1, OpenTouches, ButOne DEF Singles, Acquire, Num
        <3> QED
            BY <3>1, <3>2
    <2>2. CASE UNCHANGED held /\ Goto(d, "err_enable")
        BY <2>2, GotoEffect DEF Labels
    <2> QED
        BY <2>1, <2>2 DEF EnableDevice
<1> HIDE DEF b
<1>5. SinglesAre(d, b, held'[d], cut'[d], msi'[d], in_use'[d])
    BY <1>1, <1>2, <1>3, <1>4, Places DEF SinglesAre, SinglesBut, Singles, Num
<1> QED
    BY <1>1, <1>5, SingleParts DEF b

LEMMA RegionsSingles ==
    ASSUME TypeOK, NEW d \in Devices, SingleInv(d), Local(d), RequestRegions(d), SameNotes(d)
    PROVE  SingleInv(d)'
<1> DEFINE b == pc'[d].at
<1>1. UNCHANGED hw /\ UNCHANGED msi
    BY DEF Local, RequestRegions
<1>2. SinglesAre(d, "regions", held[d], cut[d], msi[d], in_use[d])
    BY <1>1, SingleParts, OpenJumps DEF Jumps
<1>3. SinglesBut(d, "regions")
    BY OpenTouches, ButOne DEF Singles
<1>4. \/ b = "map" /\ held'[d][One("regions")] = held[d][One("regions")] + 1
         /\ in_use'[d] = in_use[d]
      \/ b = "err_regions" /\ held'[d][One("regions")] = held[d][One("regions")]
    <2>1. CASE Acquire(d, One("regions")) /\ Goto(d, "map") /\ UNCHANGED in_use
        <3>1. b = "map"
            BY <2>1, GotoEffect DEF Labels
        <3>2. held'[d][One("regions")] = held[d][One("regions")] + 1
            BY <2>1, OpenTouches, ButOne DEF Singles, Acquire, Num
        <3> QED
            BY <2>1, <3>1, <3>2
    <2>2. CASE UNCHANGED held /\ Goto(d, "err_regions")
        BY <2>2, GotoEffect DEF Labels
    <2> QED
        BY <2>1, <2>2 DEF RequestRegions
<1> HIDE DEF b
<1>5. SinglesAre(d, b, held'[d], cut'[d], msi'[d], in_use'[d])
    BY <1>1, <1>2, <1>3, <1>4, Places DEF SinglesAre, SinglesBut, Singles, Num
<1> QED
    BY <1>1, <1>5, SingleParts DEF b

LEMMA EnableMsiSingles ==
    ASSUME TypeOK, NEW d \in Devices, SingleInv(d), Local(d), EnableMsi(d), SameNotes(d),
           UNCHANGED in_use
    PROVE  SingleInv(d)'
<1> DEFINE b == pc'[d].at
<1>1. UNCHANGED hw /\ msi'[d] = Kind(d)
    BY DEF Local, EnableMsi, Kind, TypeOK
<1>2. SinglesAre(d, "msi", held[d], cut[d], msi[d], in_use[d])
    BY <1>1, SingleParts, OpenJumps DEF Jumps
<1>3. SinglesBut(d, "vectors")
    BY OpenTouches, ButOne DEF Singles
<1>4. \/ b = "irq" /\ held'[d][One("vectors")] =
                        held[d][One("vectors")] + Num(Kind(d) # "none")
      \/ b = "err_engines" /\ held'[d][One("vectors")] = held[d][One("vectors")]
    <2>1. CASE /\ IF Kind(d) = "none" THEN UNCHANGED held ELSE Acquire(d, One("vectors"))
               /\ Goto(d, "irq")
        <3>1. b = "irq"
            BY <2>1, GotoEffect DEF Labels
        <3>2. CASE Kind(d) = "none"
            <4>1. held[d][One("vectors")] \in Int
                BY SingleResources DEF TypeOK
            <4> QED
                BY <2>1, <3>1, <3>2, <4>1 DEF Num
        <3>3. CASE Kind(d) # "none"
            <4>1. held'[d][One("vectors")] = held[d][One("vectors")] + 1
                BY <2>1, <3>3, OpenTouches, ButOne DEF Singles, Acquire, Num
            <4> QED
                BY <3>1, <3>3, <4>1 DEF Num
        <3> QED
            BY <3>2, <3>3
    <2>2. CASE UNCHANGED held /\ Goto(d, "err_engines")
        BY <2>2, GotoEffect DEF Labels
    <2> QED
        BY <2>1, <2>2 DEF EnableMsi, Kind
<1> HIDE DEF b
<1>5. SinglesAre(d, b, held'[d], cut'[d], msi'[d], in_use'[d])
    BY <1>1, <1>2, <1>3, <1>4, Places DEF SinglesAre, SinglesBut, Singles, Num
<1> QED
    BY <1>1, <1>5, SingleParts DEF b

LEMMA ProbeEndSingles ==
    ASSUME TypeOK, NEW d \in Devices, SingleInv(d), Local(d), ProbeEnd(d), UNCHANGED in_use
    PROVE  SingleInv(d)'
<1> DEFINE b == pc'[d].at
<1>1. UNCHANGED hw /\ UNCHANGED msi
    BY DEF Local, ProbeEnd, devVars
<1>2. SinglesAre(d, "create", held[d], cut[d], msi[d], in_use[d])
    BY <1>1, SingleParts, OpenJumps DEF Jumps
<1>3. /\ \A n \in Singles \ {"input"} : held'[d][One(n)] = held[d][One(n)]
      /\ Notes(d, {"input", "unregistered"})
    <2>1. Notes(d, {"input", "unregistered"})
        BY NotesOf DEF ProbeEnd, Succeeds
    <2> QED
        BY <2>1, OpenTouches, SinglesKeep DEF Singles
<1>4. /\ One("removed") \in cut'[d] <=> One("removed") \in cut[d]
      /\ One("frozen") \in cut'[d] <=> One("frozen") \in cut[d]
    BY <1>3, KindsKept
<1>5. \/ b = "bound" /\ held'[d][One("input")] = held[d][One("input")] + 1
      \/ /\ b = "oops" /\ held'[d][One("input")] = held[d][One("input")]
         /\ One("unregistered") \in cut'[d] <=> One("unregistered") \in cut[d]
    <2>1. CASE Acquire(d, One("input")) /\ Goto(d, "bound")
        <3>1. b = "bound"
            BY <2>1, GotoEffect DEF Labels
        <3>2. held'[d][One("input")] = held[d][One("input")] + 1
            <4>1. One("input") \in Resources
                BY SingleResources
            <4> QED
                BY <2>1, <4>1, AcquireEffect DEF Acquire
        <3> QED
            BY <3>1, <3>2
    <2>2. CASE UNCHANGED held /\ Goto(d, "oops") /\ Fails(d, One("input"))
        <3>1. Notes(d, {"input"})
            BY <2>2, NotesOf
        <3>2. One("unregistered") \in cut'[d] <=> One("unregistered") \in cut[d]
            BY <3>1, KindsKept
        <3> QED
            BY <2>2, <3>2, GotoEffect DEF Labels
    <2> QED
        BY <2>1, <2>2 DEF ProbeEnd
<1> HIDE DEF b
<1>6. SinglesAre(d, b, held'[d], cut'[d], msi'[d], in_use'[d])
    BY <1>1, <1>2, <1>3, <1>4, <1>5, Places DEF SinglesAre, Singles, Num
<1> QED
    BY <1>1, <1>6, SingleParts DEF b

(* The allocation of a probe, when nothing was left of the last one.       *)
LEMMA AllocSingles ==
    ASSUME TypeOK, NEW d \in Devices, Local(d), ProbeAlloc(d)
    PROVE  SingleInv(d)'
<1> DEFINE b == pc'[d].at
<1>1. UNCHANGED hw
    BY DEF Local
<1>2. b = "list_add"
    BY OpenJumps DEF Jumps
<1>3. msi'[d] = "none" /\ in_use'[d] = FALSE /\ cut'[d] = {}
    BY DEF ProbeAlloc, TypeOK
<1>4. held'[d] = [held[d] EXCEPT ![One("input")] = 0, ![One("xpdev")] = 1,
                                 ![One("xdev")] = 1]
    BY DEF ProbeAlloc, TypeOK
<1>5. held[d] \in [Resources -> Int]
    BY DEF TypeOK
<1>6. ASSUME NEW n \in Singles
      PROVE  /\ One(n) \in Resources
             /\ n # "input" => held[d][One(n)] = 0
             /\ \A m \in Singles : One(n) = One(m) => n = m
    BY SingleResources, OneKind DEF ProbeAlloc, Singles
<1>7. /\ held'[d][One("input")] = 0 /\ held'[d][One("xpdev")] = 1
      /\ held'[d][One("xdev")] = 1
      /\ held'[d][One("listed")] = 0 /\ held'[d][One("enabled")] = 0
      /\ held'[d][One("regions")] = 0 /\ held'[d][One("vectors")] = 0
    <2>1. \A n \in {"listed", "enabled", "regions", "vectors"} : held'[d][One(n)] = 0
        BY <1>4, <1>5, <1>6 DEF Singles
    <2> QED
        BY <1>4, <1>5, <1>6, <2>1 DEF Singles
<1> HIDE DEF b
<1>8. /\ ~in_use'[d] /\ One("frozen") \notin cut'[d] /\ One("removed") \notin cut'[d]
      /\ One("unregistered") \notin cut'[d]
      /\ msi'[d] = "none"
    BY <1>3
<1>9. /\ b \notin IsListed /\ b \notin HasBars \cup {"map", "err_map"}
      /\ b \notin HasVectors /\ b \notin IsEnabled
    BY <1>2, Places
<1>10. SinglesAre(d, b, held'[d], cut'[d], msi'[d], in_use'[d])
    <2>1. /\ held'[d][One("xpdev")] = Num(b # "absent")
          /\ held'[d][One("xdev")] = Num(b \in IsListed \cup {"list_add", "free_xdev"})
        BY <1>2, <1>7, <1>9 DEF Num
    <2>2. /\ held'[d][One("listed")] = Num(b \in IsListed)
          /\ held'[d][One("regions")] = Num(b \in HasBars \cup {"map", "err_map"})
          /\ held'[d][One("vectors")] = Num(b \in HasVectors /\ msi'[d] # "none")
        BY <1>2, <1>7, <1>9 DEF Num
    <2>3. held'[d][One("enabled")] = Num(in_use'[d]) - Num(One("frozen") \in cut'[d])
        BY <1>7, <1>8 DEF Num
    <2>4. held'[d][One("input")] = IF One("removed") \in cut'[d] THEN -1 ELSE 0
        BY <1>7, <1>8 DEF Num
    <2> QED
        BY <1>2, <1>8, <1>9, <2>1, <2>2, <2>3, <2>4 DEF SinglesAre
<1> QED
    BY <1>1, <1>10, SingleParts DEF b

LEMMA ReleaseSingles ==
    ASSUME TypeOK, NEW d \in Devices, SingleInv(d), Local(d), ReleaseRegions(d), SameNotes(d),
           UNCHANGED in_use
    PROVE  SingleInv(d)'
<1>1. UNCHANGED hw /\ UNCHANGED msi
    BY DEF Local, ReleaseRegions, devVars
<1>2. /\ SinglesAre(d, "err_map", held[d], cut[d], msi[d], in_use[d])
      /\ pc'[d].at = "err_regions"
    BY <1>1, SingleParts, CloseJumps DEF Jumps
<1>3. SinglesBut(d, "regions")
    BY CloseTouches, ButOne DEF Singles
<1>4. held'[d][One("regions")] = held[d][One("regions")] - 1
    BY CloseTouches, ButOne DEF Singles, ReleaseRegions, Num
<1>5. SinglesAre(d, "err_regions", held'[d], cut'[d], msi'[d], in_use'[d])
    BY <1>1, <1>2, <1>3, <1>4, Places DEF SinglesAre, SinglesBut, Singles, Num
<1> QED
    BY <1>1, <1>2, <1>5, SingleParts

LEMMA ListRemoveSingles ==
    ASSUME TypeOK, NEW d \in Devices, SingleInv(d), Local(d), ListRemove(d), SameNotes(d),
           UNCHANGED in_use
    PROVE  SingleInv(d)'
<1>1. UNCHANGED hw /\ UNCHANGED msi
    BY DEF Local, ListRemove, devVars
<1>2. /\ SinglesAre(d, "err_enable", held[d], cut[d], msi[d], in_use[d])
      /\ pc'[d].at = "free_xdev"
    BY <1>1, SingleParts, CloseJumps DEF Jumps
<1>3. SinglesBut(d, "listed")
    BY CloseTouches, ButOne DEF Singles
<1>4. held'[d][One("listed")] = held[d][One("listed")] - 1
    BY CloseTouches, ButOne DEF Singles, ListRemove, Num
<1>5. SinglesAre(d, "free_xdev", held'[d], cut'[d], msi'[d], in_use'[d])
    BY <1>1, <1>2, <1>3, <1>4, Places DEF SinglesAre, SinglesBut, Singles, Num
<1> QED
    BY <1>1, <1>2, <1>5, SingleParts

LEMMA FreeXdevSingles ==
    ASSUME TypeOK, NEW d \in Devices, SingleInv(d), Local(d), FreeXdev(d), SameNotes(d),
           UNCHANGED in_use
    PROVE  SingleInv(d)'
<1>1. UNCHANGED hw /\ UNCHANGED msi
    BY DEF Local, FreeXdev, devVars
<1>2. /\ SinglesAre(d, "free_xdev", held[d], cut[d], msi[d], in_use[d])
      /\ pc'[d].at = "free_xpdev"
    BY <1>1, SingleParts, CloseJumps DEF Jumps
<1>3. SinglesBut(d, "xdev")
    BY CloseTouches, ButOne DEF Singles
<1>4. held'[d][One("xdev")] = held[d][One("xdev")] - 1
    BY CloseTouches, ButOne DEF Singles, FreeXdev, Num
<1>5. SinglesAre(d, "free_xpdev", held'[d], cut'[d], msi'[d], in_use'[d])
    BY <1>1, <1>2, <1>3, <1>4, Places DEF SinglesAre, SinglesBut, Singles, Num
<1> QED
    BY <1>1, <1>2, <1>5, SingleParts

LEMMA FreeXpdevSingles ==
    ASSUME TypeOK, NEW d \in Devices, SingleInv(d), Local(d), FreeXpdev(d), SameNotes(d),
           UNCHANGED in_use
    PROVE  SingleInv(d)'
<1>1. UNCHANGED hw /\ UNCHANGED msi
    BY DEF Local, FreeXpdev, devVars
<1>2. /\ SinglesAre(d, "free_xpdev", held[d], cut[d], msi[d], in_use[d])
      /\ pc'[d].at = "absent"
    BY <1>1, SingleParts, CloseJumps DEF Jumps
<1>3. SinglesBut(d, "xpdev")
    BY CloseTouches, ButOne DEF Singles
<1>4. held'[d][One("xpdev")] = held[d][One("xpdev")] - 1
    BY CloseTouches, ButOne DEF Singles, FreeXpdev, Num
<1>5. SinglesAre(d, "absent", held'[d], cut'[d], msi'[d], in_use'[d])
    BY <1>1, <1>2, <1>3, <1>4, Places DEF SinglesAre, SinglesBut, Singles, Num
<1> QED
    BY <1>1, <1>2, <1>5, SingleParts

LEMMA DisableSingles ==
    ASSUME TypeOK, NEW d \in Devices, SingleInv(d), Local(d), DisableDevice(d), SameNotes(d),
           UNCHANGED in_use
    PROVE  SingleInv(d)'
<1>1. UNCHANGED hw /\ UNCHANGED msi
    BY DEF Local, DisableDevice, devVars
<1>2. /\ SinglesAre(d, "err_regions", held[d], cut[d], msi[d], in_use[d])
      /\ pc'[d].at = "err_enable"
    BY <1>1, SingleParts, CloseJumps DEF Jumps
<1>3. SinglesBut(d, "enabled")
    BY CloseTouches, ButOne DEF Singles
<1>4. held'[d][One("enabled")] = held[d][One("enabled")] - Num(~in_use[d])
    <2>1. Num(One("enabled") \in (IF in_use[d] THEN {} ELSE {One("enabled")}))
            = Num(~in_use[d])
        BY DEF Num
    <2>2. Release(d, IF in_use[d] THEN {} ELSE {One("enabled")})
        BY DEF DisableDevice
    <2> QED
        BY <2>1, <2>2, CloseTouches, ButOne DEF Singles
<1>5. SinglesAre(d, "err_enable", held'[d], cut'[d], msi'[d], in_use'[d])
    BY <1>1, <1>2, <1>3, <1>4, Places DEF SinglesAre, SinglesBut, Singles, Num
<1> QED
    BY <1>1, <1>2, <1>5, SingleParts

LEMMA DisableMsiSingles ==
    ASSUME TypeOK, NEW d \in Devices, SingleInv(d), Local(d), DisableMsi(d), SameNotes(d),
           UNCHANGED in_use
    PROVE  SingleInv(d)'
<1>1. UNCHANGED hw /\ msi'[d] = "none"
    BY DEF Local, DisableMsi, TypeOK
<1>2. /\ SinglesAre(d, "err_msix", held[d], cut[d], msi[d], in_use[d])
      /\ pc'[d].at = "err_engines"
    BY <1>1, SingleParts, CloseJumps DEF Jumps
<1>3. SinglesBut(d, "vectors")
    BY CloseTouches, ButOne DEF Singles
<1>4. held'[d][One("vectors")] = held[d][One("vectors")] - Num(msi[d] # "none")
    <2>1. Num(One("vectors") \in (IF msi[d] = "none" THEN {} ELSE {One("vectors")}))
            = Num(msi[d] # "none")
        BY DEF Num
    <2>2. Release(d, IF msi[d] = "none" THEN {} ELSE {One("vectors")})
        BY DEF DisableMsi
    <2> QED
        BY <2>1, <2>2, CloseTouches, ButOne DEF Singles
<1>5. SinglesAre(d, "err_engines", held'[d], cut'[d], msi'[d], in_use'[d])
    BY <1>1, <1>2, <1>3, <1>4, Places DEF SinglesAre, SinglesBut, Singles, Num
<1> QED
    BY <1>1, <1>2, <1>5, SingleParts

(* A frozen device is disabled, which a reset undoes; an ioctl may come at  *)
(* any time.                                                               *)
LEMMA AdminSingles ==
    ASSUME TypeOK, NEW d \in Devices, SingleInv(d), Local(d), Admin(d), SameNotes(d)
    PROVE  SingleInv(d)'
<1> DEFINE a == pc[d].at
           b == pc'[d].at
           n == held[d][One("enabled")]
<1>1. UNCHANGED hw /\ UNCHANGED msi /\ UNCHANGED in_use
    BY AdminEffect DEF devVars
<1>2. SinglesAre(d, a, held[d], cut[d], msi[d], in_use[d])
    BY <1>1, SingleParts
<1>3. SinglesBut(d, "enabled")
    <2>1. \A k \in Singles \ {"enabled"} : held'[d][One(k)] = held[d][One(k)]
        BY CloseTouches, SinglesKeep DEF Singles
    <2> QED
        BY <2>1 DEF SinglesBut, SameNotes
<1>4. /\ One("enabled") \notin IrqSet(d) /\ One("enabled") \notin HeldIrqs(d)
      /\ One("enabled") \in Resources /\ n \in Int
    <2>1. One("enabled") \notin IrqSet(d) /\ One("enabled") \in Resources
        BY SetKinds, OneKind, SingleResources
    <2> QED
        BY <2>1, SetKinds DEF TypeOK
<1>5. \A also : DeviceOffline(d, also) =>
            held'[d][One("enabled")] = IF One("enabled") \in also THEN n - 1 ELSE n
    BY <1>4, ReleaseEffect DEF DeviceOffline
<1>6. ASSUME NEW also, DeviceOnline(d, also)
      PROVE  held'[d][One("enabled")] = IF One("enabled") \in also THEN n + 1 ELSE n
    <2>1. PICK R \in SUBSET IrqSet(d) : AcquireAll(d, also \cup R)
        BY <1>6, OnlineEffect
    <2> QED
        BY <1>4, <2>1, AcquireEffect
<1>7. \/ a = "bound" /\ b = "frozen" /\ held'[d][One("enabled")] = n - 1
      \/ a = "frozen" /\ b = "bound" /\ held'[d][One("enabled")] = n + 1
      \/ a = "bound" /\ b = "reset" /\ held'[d][One("enabled")] = n
      \/ a = "reset" /\ b = "bound" /\ held'[d][One("enabled")] = n
      \/ a = b /\ held'[d][One("enabled")] = n
    <2>1. ErrorDetected(d) => a = "bound" /\ b = "frozen" /\ held'[d][One("enabled")] = n - 1
        BY <1>5, CloseJumps DEF ErrorDetected, Jumps
    <2>2. SlotReset(d) => a = "frozen" /\ b = "bound" /\ held'[d][One("enabled")] = n + 1
        BY <1>6, CloseJumps DEF SlotReset, Jumps
    <2>3. ResetPrepare(d) => a = "bound" /\ b = "reset" /\ held'[d][One("enabled")] = n
        BY <1>5, CloseJumps DEF ResetPrepare, Jumps
    <2>4. ResetDone(d) => a = "reset" /\ b = "bound" /\ held'[d][One("enabled")] = n
        BY <1>6, CloseJumps DEF ResetDone, Jumps
    <2>5. CtrlIoctl(d) => a = b /\ held'[d][One("enabled")] = n
        BY <1>5, <1>6, CloseJumps DEF CtrlIoctl
    <2> QED
        BY <2>1, <2>2, <2>3, <2>4, <2>5 DEF Admin
<1> HIDE DEF a, b
<1>8. SinglesAre(d, b, held'[d], cut'[d], msi'[d], in_use'[d])
    <2>1. CASE a = b
        BY <1>1, <1>2, <1>3, <1>7, <2>1 DEF SinglesAre, SinglesBut, Singles, n
    <2>2. CASE a # b
        BY <1>1, <1>2, <1>3, <1>4, <1>7, <2>2, Places DEF SinglesAre, SinglesBut, Singles, Num, n
    <2> QED
        BY <2>1, <2>2
<1> QED
    BY <1>1, <1>8, SingleParts DEF b

(* A removal drops the input device twice, and notes that it did, if the   *)
(* kernel lets it unregister the device.                                   *)
LEMMA RemoveSingles ==
    ASSUME TypeOK, NEW d \in Devices, SingleInv(d), Local(d), RemoveOne(d), UNCHANGED in_use
    PROVE  SingleInv(d)'
<1> DEFINE a == pc[d].at
           b == pc'[d].at
           n == held[d][One("input")]
<1>1. UNCHANGED hw /\ UNCHANGED msi
    BY DEF Local, RemoveOne, devVars
<1>2. /\ SinglesAre(d, a, held[d], cut[d], msi[d], in_use[d])
      /\ a \in {"bound", "frozen"}
    BY <1>1, SingleParts, CloseJumps
<1>3. \A k \in Singles \ {"input"} : held'[d][One(k)] = held[d][One(k)]
    BY CloseTouches, SinglesKeep DEF Singles
<1>4. /\ One("frozen") \in cut'[d] <=> (a = "frozen" \/ One("frozen") \in cut[d])
      /\ One("unregistered") \in cut'[d] <=> One("unregistered") \in cut[d]
      /\ \/ /\ b = "free_interfaces" /\ held'[d][One("input")] = n - 2
            /\ One("removed") \in cut'[d]
         \/ /\ b = "oops" /\ held'[d][One("input")] = n /\ One("unregistered") \in cut[d]
            /\ One("removed") \in cut'[d] <=> One("removed") \in cut[d]
    <2> DEFINE frozen == IF In(d, "frozen") THEN {One("frozen")} ELSE {}
    <2>1. /\ One("frozen") # One("removed") /\ One("frozen") # One("unregistered")
          /\ One("removed") # One("unregistered")
        BY OneKind
    <2>2. /\ One("frozen") \in frozen <=> a = "frozen"
          /\ One("removed") \notin frozen /\ One("unregistered") \notin frozen
        BY <2>1 DEF In
    <2>3. One("input") \in Resources
        BY SingleResources
    <2>4. \/ /\ held' = [held EXCEPT ![d][One("input")] = @ - 2]
             /\ Note(d, {One("removed")} \cup frozen)
             /\ Goto(d, "free_interfaces")
          \/ /\ One("unregistered") \in cut[d]
             /\ Note(d, frozen)
             /\ Goto(d, "oops")
             /\ UNCHANGED held
        BY DEF RemoveOne
    <2> HIDE DEF frozen
    <2>5. CASE /\ held' = [held EXCEPT ![d][One("input")] = @ - 2]
               /\ Note(d, {One("removed")} \cup frozen)
               /\ Goto(d, "free_interfaces")
        <3>1. cut'[d] = cut[d] \cup ({One("removed")} \cup frozen)
            BY <2>5 DEF Note, TypeOK
        <3>2. held'[d][One("input")] = n - 2
            BY <2>3, <2>5 DEF TypeOK
        <3>3. b = "free_interfaces"
            BY <2>5, GotoEffect DEF Labels
        <3> QED
            BY <2>1, <2>2, <3>1, <3>2, <3>3
    <2>6. CASE /\ One("unregistered") \in cut[d]
               /\ Note(d, frozen)
               /\ Goto(d, "oops")
               /\ UNCHANGED held
        <3>1. cut'[d] = cut[d] \cup frozen
            BY <2>6 DEF Note, TypeOK
        <3>2. b = "oops"
            BY <2>6, GotoEffect DEF Labels
        <3> QED
            BY <2>2, <2>6, <3>1, <3>2
    <2> QED
        BY <2>4, <2>5, <2>6
<1> HIDE DEF a, b
<1>5. SinglesAre(d, b, held'[d], cut'[d], msi'[d], in_use'[d])
    BY <1>1, <1>2, <1>3, <1>4, Places DEF SinglesAre, Singles, Num, n
<1> QED
    BY <1>1, <1>5, SingleParts DEF b

(* The steps that touch none of them.                                      *)
LEMMA MiddleSingles ==
    ASSUME TypeOK, ListInv, NEW d \in Devices, EngineInv(d), SingleInv(d), Local(d), SameNotes(d),
           UNCHANGED in_use,
           \/ MapBar(d) \/ MapBarsEnd(d) \/ SetDmaMask(d)
           \/ \E dir \in {"h2c", "c2h"} : ProbeEngine(d, dir)
           \/ MsixIrq(d) \/ MsixIrqEnd(d) \/ LineIrq(d) \/ Online(d)
           \/ CreateCdev(d) \/ CreateCdevFails(d) \/ CreateUnwind(d) \/ FreeInterfaces(d)
           \/ IrqTeardown(d) \/ RemoveEngines(d) \/ UnmapBars(d)
    PROVE  SingleInv(d)'
<1> DEFINE a == pc[d].at
           b == pc'[d].at
<1>1. /\ {"bar"} \cap Singles = {} /\ {} \cap Singles = {}
      /\ {"cdev", "region"} \cap Singles = {} /\ {"region"} \cap Singles = {}
      /\ {"irq", "line"} \cap Singles = {} /\ EngineKinds \cap Singles = {}
    BY DEF Singles, EngineKinds
<1>2. ASSUME NEW K, Touches(d, K), K \cap Singles = {}, msi'[d] = msi[d], Similar(a, b)
      PROVE  SingleInv(d)'
    BY <1>2, SingleQuiet
<1>3. ASSUME MapBar(d) \/ MapBarsEnd(d)
      PROVE  SingleInv(d)'
    <2>1. msi'[d] = msi[d] /\ Touches(d, {"bar"})
        BY <1>3, OpenTouches DEF MapBar, MapBarsEnd
    <2>2. a = "map" /\ b \in {"map", "mask", "err_map"}
        BY <1>3, OpenJumps DEF Jumps
    <2>3. Similar(a, b)
        BY <2>2, Places DEF Similar
    <2> QED
        BY <1>1, <1>2, <2>1, <2>3
<1>4. ASSUME SetDmaMask(d)
      PROVE  SingleInv(d)'
    <2>1. msi'[d] = msi[d] /\ Touches(d, {})
        BY <1>4, OpenTouches DEF SetDmaMask, devVars
    <2>2. a = "mask" /\ b \in {"h2c", "err_mask"}
        BY <1>4, OpenJumps DEF Jumps
    <2>3. Similar(a, b)
        BY <2>2, Places DEF Similar
    <2> QED
        BY <1>1, <1>2, <2>1, <2>3
<1>5. ASSUME NEW dir \in {"h2c", "c2h"}, ProbeEngine(d, dir)
      PROVE  SingleInv(d)'
    <2>1. msi'[d] = msi[d] /\ Touches(d, EngineKinds)
        BY <1>5, EngineTouches DEF ProbeEngine
    <2>2. a \in {"h2c", "c2h"} /\ b \in {"h2c", "c2h", "msi"}
        BY <1>5, OpenJumps DEF Jumps
    <2>3. Similar(a, b)
        BY <2>2, Places DEF Similar
    <2> QED
        BY <1>1, <1>2, <2>1, <2>3
<1>6. ASSUME MsixIrq(d) \/ LineIrq(d)
      PROVE  SingleInv(d)'
    <2>1. msi'[d] = msi[d] /\ Touches(d, {"irq", "line"})
        BY <1>6, OpenTouches DEF MsixIrq, LineIrq, devVars
    <2>2. a = "irq" /\ b \in {"irq", "online", "err_msix"}
        BY <1>6, OpenJumps DEF Jumps
    <2>3. Similar(a, b)
        BY <2>2, Places DEF Similar
    <2> QED
        BY <1>1, <1>2, <2>1, <2>3
<1>7. ASSUME MsixIrqEnd(d) \/ Online(d) \/ CreateCdevFails(d)
      PROVE  SingleInv(d)'
    <2>1. msi'[d] = msi[d] /\ (Touches(d, {}) \/ Touches(d, {"region"}))
        BY <1>7, OpenTouches DEF MsixIrqEnd, Online, CreateCdevFails, devVars
    <2>2. pc[d].at = "online" => HandleFound(d)
        BY Places DEF ListInv
    <2>3. a \in {"irq", "online", "create"} /\ b \in {"online", "create", "fail"}
        BY <1>7, <2>2, OpenJumps DEF Jumps
    <2>4. Similar(a, b)
        BY <2>3, Places DEF Similar
    <2> QED
        BY <1>1, <1>2, <2>1, <2>4
<1>8. ASSUME CreateCdev(d) \/ CreateUnwind(d) \/ FreeInterfaces(d)
      PROVE  SingleInv(d)'
    <2>1. msi'[d] = msi[d] /\ Touches(d, {"cdev", "region"})
        BY <1>8, OpenTouches, CloseTouches DEF CreateCdev, CreateUnwind, FreeInterfaces,
           devVars
    <2>2. \/ a = "create" /\ b = "create"
          \/ a = "fail" /\ b = "free_interfaces"
          \/ a = "free_interfaces" /\ b = "close"
        <3>1. CreateCdev(d) => a = "create" /\ b = "create"
            BY OpenJumps DEF Jumps
        <3>2. /\ CreateUnwind(d) => a = "fail" /\ b = "free_interfaces"
              /\ FreeInterfaces(d) => a = "free_interfaces" /\ b = "close"
            BY CloseJumps DEF Jumps
        <3> QED
            BY <1>8, <3>1, <3>2
    <2>3. Similar(a, b)
        BY <2>2, Places DEF Similar
    <2> QED
        BY <1>1, <1>2, <2>1, <2>3
<1>9. ASSUME IrqTeardown(d)
      PROVE  SingleInv(d)'
    <2>1. msi'[d] = msi[d] /\ Touches(d, {"irq", "line"})
        BY <1>9, CloseTouches DEF IrqTeardown, devVars
    <2>2. pc[d].at = "close" => HandleFound(d)
        BY Places DEF ListInv
    <2>3. a = "close" /\ b = "err_msix"
        BY <1>9, <2>2, CloseJumps DEF Jumps
    <2>4. Similar(a, b)
        BY <2>3, Places DEF Similar
    <2> QED
        BY <1>1, <1>2, <2>1, <2>4
<1>10. ASSUME RemoveEngines(d) \/ UnmapBars(d)
       PROVE  SingleInv(d)'
    <2>1. msi'[d] = msi[d] /\ (Touches(d, {"bar"}) \/ Touches(d, EngineKinds))
        BY <1>10, CloseTouches, EngineTouches DEF RemoveEngines, UnmapBars, devVars
    <2>2. \/ a = "err_engines" /\ b \in {"err_engines", "err_mask"}
          \/ a = "err_mask" /\ b = "err_map"
        BY <1>10, CloseJumps DEF Jumps
    <2>3. Similar(a, b)
        BY <2>2, Places DEF Similar
    <2> QED
        BY <1>1, <1>2, <2>1, <2>3
<1> QED
    BY <1>3, <1>4, <1>5, <1>6, <1>7, <1>8, <1>9, <1>10

(* Everything there is one of is held where it should be.                  *)
LEMMA SingleStep ==
    ASSUME TypeOK, ListInv, NEW d \in Devices, EngineInv(d), SingleInv(d), Step(d)
    PROVE  SingleInv(d)'
<1>1. Local(d)
    BY StepLocal
<1>2. CASE ProbeAlloc(d)
    BY <1>1, <1>2, AllocSingles
<1>3. ASSUME ~ProbeAlloc(d)
      PROVE  SingleInv(d)'
    <2>1. ~RequestRegions(d) => UNCHANGED in_use
        BY <1>3, UseKept
    <2>2. ~RemoveOne(d) /\ ~ProbeEnd(d) => SameNotes(d)
        BY <1>3, NotesSame
    <2>3. /\ pc[d].at \in {"bound", "frozen"} => ~RequestRegions(d)
          /\ pc[d].at = "create" => ~RequestRegions(d)
        BY OpenJumps DEF Jumps
    <2>4. CASE RemoveOne(d)
        BY <1>1, <2>1, <2>3, <2>4, RemoveSingles, CloseJumps
    <2>5. CASE ProbeEnd(d)
        <3>1. UNCHANGED in_use
            BY <2>1, <2>3, <2>5, OpenJumps DEF Jumps
        <3> QED
            BY <1>1, <2>5, <3>1, ProbeEndSingles
    <2>6. CASE RequestRegions(d) /\ ~RemoveOne(d) /\ ~ProbeEnd(d)
        BY <1>1, <2>2, <2>6, RegionsSingles
    <2>7. ASSUME ~RequestRegions(d), ~RemoveOne(d), ~ProbeEnd(d)
          PROVE  SingleInv(d)'
        <3>1. UNCHANGED in_use /\ SameNotes(d)
            BY <2>1, <2>2, <2>7
        <3>2. CASE \/ MapBar(d) \/ MapBarsEnd(d) \/ SetDmaMask(d)
                   \/ \E dir \in {"h2c", "c2h"} : ProbeEngine(d, dir)
                   \/ MsixIrq(d) \/ MsixIrqEnd(d) \/ LineIrq(d) \/ Online(d)
                   \/ CreateCdev(d) \/ CreateCdevFails(d) \/ CreateUnwind(d)
                   \/ FreeInterfaces(d) \/ IrqTeardown(d) \/ RemoveEngines(d)
                   \/ UnmapBars(d)
            BY <1>1, <3>1, <3>2, MiddleSingles
        <3>3. CASE ListAdd(d) \/ EnableDevice(d) \/ EnableMsi(d)
            BY <1>1, <3>1, <3>3, ListAddSingles, EnableSingles, EnableMsiSingles
        <3>4. CASE DisableMsi(d) \/ ReleaseRegions(d) \/ DisableDevice(d) \/ ListRemove(d)
            BY <1>1, <3>1, <3>4, DisableMsiSingles, ReleaseSingles, DisableSingles,
               ListRemoveSingles
        <3>5. CASE FreeXdev(d) \/ FreeXpdev(d)
            BY <1>1, <3>1, <3>5, FreeXdevSingles, FreeXpdevSingles
        <3>6. CASE Admin(d)
            BY <1>1, <3>1, <3>6, AdminSingles
        <3> QED
            BY <1>3, <2>7, <3>2, <3>3, <3>4, <3>5, <3>6 DEF Step, Probe, Close, Pci, Admin
    <2> QED
        BY <2>4, <2>5, <2>6, <2>7
<1> QED
    BY <1>2, <1>3
-----------------------------------------------------------------------------
(* The invariant                                                           *)

(* What it says of a device.                                               *)
DeviceParts(d) == EngineInv(d) /\ BarInv(d) /\ IrqInv(d) /\ CdevInv(d) /\ SingleInv(d)

(* Another device, to which nothing happens.                               *)
LEMMA OthersKeep ==
    ASSUME NEW o \in Devices, Same(o), UNCHANGED <<hw, poll_mode>>,
           in_use'[o] = in_use[o], DeviceParts(o)
    PROVE  DeviceParts(o)'
<1>1. /\ pc'[o] = pc[o] /\ held'[o] = held[o] /\ cut'[o] = cut[o]
      /\ h2c_max'[o] = h2c_max[o] /\ c2h_max'[o] = c2h_max[o] /\ msi'[o] = msi[o]
      /\ role'[o] = role[o] /\ flags'[o] = flags[o] /\ major'[o] = major[o]
    BY DEF Same
<1>2. EngineInv(o)'
    <2>1. LiveEngines(o)' = LiveEngines(o)
        BY <1>1, LiveIs
    <2>2. Within(o)' <=> Within(o)
        BY <1>1 DEF Within, In, ChannelMax
    <2> QED
        BY <1>1, <2>1, <2>2, EngineParts DEF DeviceParts
<1>3. BarInv(o)'
    BY <1>1, BarParts DEF DeviceParts
<1>4. IrqInv(o)'
    <2>1. IrqCount(o)' = IrqCount(o) /\ IrqSet(o)' = IrqSet(o) /\ IrqsLeft(o)' = IrqsLeft(o)
        BY <1>1 DEF IrqCount, ChannelIrqs, IrqSet, IrqsLeft, CutAt
    <2>2. CutAt(o, "irq")' = CutAt(o, "irq")
        BY <1>1 DEF CutAt
    <2> QED
        BY <1>1, <2>1, <2>2, IrqParts DEF DeviceParts
<1>5. CdevInv(o)'
    <2>1. CdevSeq(o)' = CdevSeq(o)
        BY <1>1, CdevSeqIs
    <2>2. CutAt(o, "cdev")' = CutAt(o, "cdev")
        BY <1>1 DEF CutAt
    <2>3. RegionInv(o)'
        BY <1>1, <2>2, RegionParts, CdevParts DEF DeviceParts
    <2> QED
        BY <1>1, <2>1, <2>2, <2>3, CdevParts DEF DeviceParts
<1>6. SingleInv(o)'
    BY <1>1, SingleParts DEF DeviceParts
<1> QED
    BY <1>2, <1>3, <1>4, <1>5, <1>6 DEF DeviceParts

(* The control device is there from the first create_xcdev() to the first  *)
(* xpdev_destroy_interfaces().                                             *)
LEMMA CtrlPlaced ==
    ASSUME TypeOK, NEW d \in Devices, CdevInv(d)
    PROVE  Placed(d)
<1> DEFINE s == CdevSeq(d)
           C == CutAt(d, "cdev")
           p == pc[d]
           n == MadeAt(p, C, s)
           x == <<"ctrl", 0>>
<1> SUFFICES ASSUME held[d][<<"cdev", x>>] > 0
             PROVE  p.at \in Public \cup {"fail"}
    BY DEF Placed, CtrlIoctl
<1>1. NodesAre(p, C, s, held[d], flags[d], major[d])
    BY CdevParts
<1>2. /\ s \in Seq(Cdevs) /\ Len(s) \in Nat \ {0} /\ s[1] = x
      /\ \A k \in 1..Len(s) : "ctrl" \in FlagsAfter(d, k)
    BY CdevSeqFacts, FlagsFacts
<1>3. x \in Cdevs /\ Group(x) = "ctrl"
    BY <1>2 DEF Group
<1>4. held[d][<<"cdev", x>>] = IF \E j \in 1..n : s[j] = x
                               THEN 1 - RemovedAt(p, C, x, flags[d]) ELSE 0
    BY <1>1, <1>3 DEF NodesAre, NodesHeld
<1>5. (\E j \in 1..n : s[j] = x) /\ 1 - RemovedAt(p, C, x, flags[d]) > 0
    <2> HIDE DEF n
    <2> QED
        BY <1>4
<1>6. n # 0
    BY <1>5
<1>7. CASE C = {}
    BY <1>6, <1>7 DEF MadeAt, Public
<1>8. CASE C # {}
    <2>1. PICK k \in 1..Len(s) : C = {k}
        BY <1>1, <1>8 DEF NodesAre
    <2>2. n = k - 1
        <3>1. (CHOOSE y \in {k} : TRUE) = k
            OBVIOUS
        <3> QED
            BY <1>8, <2>1, <3>1 DEF MadeAt
    <2>3. n \in 1..Len(s)
        BY <1>2, <1>6, <2>2
    <2>4. "ctrl" \in flags[d]
        <3>1. flags[d] = FlagsOf(s, n)
            BY <1>1, <1>8 DEF NodesAre
        <3>2. FlagsAfter(d, n) = FlagsOf(s, n)
            BY DEF FlagsAfter, FlagsOf
        <3> QED
            BY <1>2, <2>3, <3>1, <3>2
    <2>5. CASE p.at = "fail"
        BY <2>5
    <2>6. CASE p.at # "fail"
        <3>1. RemovedAt(p, C, x, flags[d]) = IF p.at = "free_interfaces" THEN 1 ELSE 2
            BY <1>3, <1>8, <2>4, <2>6 DEF RemovedAt
        <3> QED
            BY <1>5, <3>1 DEF Public
    <2> QED
        BY <2>5, <2>6
<1> QED
    BY <1>7, <1>8

(* A step of one device.                                                   *)
LEMMA StepInvariant ==
    ASSUME DeviceInv, NEW d \in Devices, Step(d)
    PROVE  DeviceInv'
<1>1. /\ TypeOK /\ ListInv /\ MajorInv
      /\ EngineInv(d) /\ BarInv(d) /\ IrqInv(d) /\ CdevInv(d)
      /\ SingleInv(d) /\ Placed(d)
    BY CtrlPlaced DEF DeviceInv
<1>2. Local(d)
    BY <1>1, StepLocal
<1>3. TypeOK' /\ UNCHANGED <<hw, poll_mode>> /\ \A o \in Devices \ {d} : Same(o)
    BY <1>2 DEF Local
<1>4. ListInv'
    BY <1>1, ListStep
<1>5. MajorInv'
    BY <1>1, MajorStep
<1>6. DeviceParts(d)'
    <2>1. EngineInv(d)' /\ BarInv(d)' /\ IrqInv(d)' /\ CdevInv(d)'
        BY <1>1, EngineStep, BarStep, IrqStep, CdevStep
    <2>2. SingleInv(d)'
        BY <1>1, SingleStep
    <2> QED
        BY <2>1, <2>2 DEF DeviceParts
<1>7. ASSUME NEW o \in Devices
      PROVE  DeviceParts(o)'
    <2>1. CASE o = d
        BY <1>6, <2>1
    <2>2. CASE o # d
        <3>1. DeviceParts(o)
            BY DEF DeviceInv, DeviceParts
        <3>2. in_use'[o] = in_use[o]
            BY <1>1, <2>2, UseKept
        <3> QED
            BY <1>3, <2>2, <3>1, <3>2, OthersKeep
    <2> QED
        BY <2>1, <2>2
<1> QED
    BY <1>3, <1>4, <1>5, <1>7 DEF DeviceInv, DeviceParts

(* The module is loaded or unloaded, or nothing happens.                   *)
LEMMA ModuleInvariant ==
    ASSUME DeviceInv, ModInit \/ ModExit \/ ModCleanup \/ UNCHANGED vars
    PROVE  DeviceInv'
<1>1. TypeOK /\ ListInv /\ MajorInv
    BY DEF DeviceInv
<1>2. /\ UNCHANGED <<probes, hw, poll_mode, pc, held, cut>>
      /\ UNCHANGED <<devVars, listVars, cdevVars>>
    BY DEF ModInit, ModExit, ModCleanup, vars, boundVars
<1>3. /\ module' \in {"out", "in", "exiting"}
      /\ class' \in BOOLEAN
    BY <1>1 DEF TypeOK, ModInit, ModExit, ModCleanup, vars, modVars
<1>4. fails' \in 0..MaxFails
    BY <1>1, ChargeEffect DEF TypeOK, ModInit, ModExit, ModCleanup, vars, boundVars
<1>5. TypeOK'
    BY <1>1, <1>2, <1>3, <1>4 DEF TypeOK, devVars, listVars, cdevVars
<1>6. ListInv'
    BY <1>1, <1>2 DEF ListInv, HandleFound, listVars
<1>7. \A o \in Devices : Same(o)
    BY <1>2 DEF Same, devVars, cdevVars
<1>8. MajorInv'
    BY <1>1, <1>2 DEF MajorInv, Torn, CutAt, cdevVars
<1>9. \A o \in Devices : in_use'[o] = in_use[o]
    BY <1>2 DEF devVars
<1>10. \A o \in Devices : DeviceParts(o)
    BY DEF DeviceInv, DeviceParts
<1>11. \A o \in Devices : DeviceParts(o)'
    BY <1>2, <1>7, <1>9, <1>10, OthersKeep
<1> QED
    BY <1>5, <1>6, <1>8, <1>11 DEF DeviceInv, DeviceParts

(* At first there is no device, and nothing is held.                       *)
LEMMA InitInvariant == Init => DeviceInv
<1> SUFFICES ASSUME Init
             PROVE  DeviceInv
    OBVIOUS
<1>1. \A d \in Devices : hw[d] \in Layouts[d]
    BY DEF Init
<1>2. pc \in [Devices -> [at : Labels, i : Nat]]
    BY DEF Init, At, Labels
<1>3. /\ held \in [Devices -> [Resources -> Int]]
      /\ cut \in [Devices -> SUBSET (CutKinds \X Nat)]
    BY DEF Init
<1>4. /\ h2c_max \in [Devices -> 0..Channels] /\ c2h_max \in [Devices -> 0..Channels]
      /\ msi \in [Devices -> {"msix", "msi", "none"}]
    BY CountsAssumption DEF Init
<1>5. role \in [Devices -> [config : -1..5, user : -1..5, bypass : -1..5]]
    <2>1. NoRole \in [config : -1..5, user : -1..5, bypass : -1..5]
        BY DEF NoRole
    <2> QED
        BY <2>1 DEF Init
<1>6. /\ in_use \in [Devices -> BOOLEAN]
      /\ xdev_list \in Seq(Devices) /\ idx \in [Devices -> Nat]
      /\ region \in [Majors -> Devices \cup {NoDevice}]
      /\ major \in [Devices -> Majors \cup {0}]
      /\ flags \in [Devices -> SUBSET {"ctrl", "event", "SG", "BYPASS", "user", "xvc"}]
    BY DEF Init
<1>7. /\ module \in {"out", "in", "exiting"} /\ class \in BOOLEAN
      /\ poll_mode \in BOOLEAN /\ threads \in BOOLEAN
    BY DEF Init
<1>8. fails \in 0..MaxFails /\ probes \in 0..MaxProbes
    BY BoundsAssumption DEF Init
<1>9. TypeOK
    BY <1>1, <1>2, <1>3, <1>4, <1>5, <1>6, <1>7, <1>8 DEF TypeOK
<1>10. "absent" \notin IsListed \cup Public \cup Opening \cup {"fail", "free_interfaces"}
    BY DEF IsListed, HasBars, HasEngines, Active, Complete, Public, Opening
<1>11. \A d \in Devices :
        /\ pc[d].at = "absent" /\ pc[d].i = 0
        /\ \A r \in Resources : held[d][r] = 0
        /\ cut[d] = {}
    BY DEF Init, At
<1>12. ListInv
    BY <1>10, <1>11 DEF ListInv, HandleFound, Init
<1>13. MajorInv
    BY <1>10, <1>11 DEF MajorInv
<1>14. ASSUME NEW d \in Devices
       PROVE  EngineInv(d)
    <2>1. LiveEngines(d) = {}
        <3>1. None(pc[d].at, pc[d].i)
            BY <1>10, <1>11 DEF None, IsListed, HasBars
        <3> QED
            BY <3>1, LiveNone, LiveIs
    <2> QED
        BY <1>11, <2>1, KindsOfResources DEF EngineInv, In
<1>15. ASSUME NEW d \in Devices
       PROVE  BarInv(d)
    <2>1. "absent" \notin HasBars
        BY <1>10 DEF IsListed
    <2>2. MappedBars(d) = 0
        BY <1>11, <2>1 DEF MappedBars, In
    <2>3. Len(Bars(d)) \in Nat
        BY <1>9, LayoutFacts
    <2> QED
        BY <1>11, <2>1, <2>2, <2>3, KindsOfResources DEF BarInv
<1>16. ASSUME NEW d \in Devices
       PROVE  IrqInv(d)
    <2>1. Irqs \subseteq Resources
        BY KindsOfResources
    <2>2. CutAt(d, "irq") = {}
        BY <1>11 DEF CutAt
    <2>3. IrqsLeft(d) = {}
        BY <2>2, LeftIs
    <2>4. "absent" \notin Active
        BY LabelsApart
    <2>5. ASSUME NEW q \in Irqs
          PROVE  IrqIs(pc[d].at, pc[d].i, IrqsLeft(d), cut[d], msi[d], IrqSet(d), q, held[d][q])
        BY <1>11, <2>1, <2>3, <2>4 DEF IrqIs, Num
    <2> QED
        BY <1>11, <2>2, <2>5, IrqParts
<1>17. ASSUME NEW d \in Devices
       PROVE  CdevInv(d)
    <2>1. CutAt(d, "cdev") = {} /\ One("user_region") \notin cut[d]
        BY <1>11 DEF CutAt
    <2>2. Len(CdevSeq(d)) \in Nat
        BY <1>9, CdevSeqFacts
    <2>3. NodesAre(pc[d], {}, CdevSeq(d), held[d], {}, 0)
        BY <1>10, <1>11, <2>2, KindsOfResources, CdevEmpty
    <2>4. flags[d] = {} /\ major[d] = 0
        BY DEF Init
    <2>5. RegionInv(d)
        <3>1. held[d][One("region")] = 0
            BY <1>11, SingleResources
        <3>2. RegionIs(pc[d], CutAt(d, "cdev"), held[d], major[d], One("user_region") \in cut[d])
            BY <1>10, <1>11, <2>1, <2>4, <3>1 DEF RegionIs, RegionLeft
        <3> QED
            BY <3>2, RegionParts
    <2> QED
        BY <2>1, <2>3, <2>4, <2>5, CdevParts
<1>18. ASSUME NEW d \in Devices
       PROVE  SingleInv(d)
    <2>1. in_use[d] = FALSE
        BY DEF Init
    <2>2. /\ "absent" \notin HasBars /\ "absent" \notin HasVectors
          /\ "absent" \notin IsEnabled
        BY Places
    <2>3. /\ Leftover(d, One("enabled")) = 0
          /\ Leftover(d, One("input")) = 0
        BY <1>11, <2>1, LeftoverIs DEF Num
    <2>4. \A n \in Singles : held[d][One(n)] = 0
        BY <1>11, SingleResources DEF Singles
    <2> QED
        BY <1>10, <1>11, <2>1, <2>2, <2>3, <2>4 DEF SingleInv, Num, Singles
<1> QED
    BY <1>9, <1>12, <1>13, <1>14, <1>15, <1>16, <1>17, <1>18 DEF DeviceInv

(* What is held at every label of xdma_device_open(), xdma_device_close()  *)
(* and xpdev_create_interfaces(): the inductive invariant.                 *)
THEOREM DeviceInvariant == Spec => []DeviceInv
<1>1. DeviceInv /\ [Next]_vars => DeviceInv'
    BY StepInvariant, ModuleInvariant DEF Next, Step
<1> QED
    BY <1>1, InitInvariant, PTL DEF Spec

(* Types: every variable of the devices' life has its type throughout.     *)
THEOREM DeviceTypeOK == Spec => []TypeOK
<1>1. DeviceInv => TypeOK
    BY DEF DeviceInv
<1> QED
    BY <1>1, DeviceInvariant, PTL
-----------------------------------------------------------------------------
(* Handlers have their engines                                             *)

(* What an initialised engine relies on: its memory, the device structure  *)
(* and the register BAR.                                                   *)
Ready(d, e) ==
    /\ \A r \in EngineMemory(d, e) : held[d][r] = 1
    /\ held[d][One("xdev")] = 1
    /\ held[d][<<"bar", role[d].config>>] = 1

LEMMA LiveReady ==
    ASSUME DeviceInv, NEW d \in Devices, NEW e \in LiveEngines(d)
    PROVE  Ready(d, e)
<1>1. TypeOK /\ ListInv /\ EngineInv(d) /\ BarInv(d)
    BY DEF DeviceInv
<1>2. e \in Engines
    BY DEF LiveEngines
<1>3. pc[d].at \in HasBars /\ pc[d].at \in IsListed
    BY DEF LiveEngines, HasBars, IsListed
<1>4. \A r \in EngineMemory(d, e) : held[d][r] = 1
    <2>1. EngineMemory(d, e) \subseteq EngineInit(d, e)
        BY DEF EngineInit
    <2>2. EngineMemory(d, e) \subseteq EngineResources(e)
        BY DEF EngineMemory, EngineResources
    <2> QED
        BY <1>1, <1>2, <2>1, <2>2 DEF EngineInv
<1>5. held[d][One("xdev")] = 1
    BY <1>1, <1>3 DEF ListInv
<1>6. held[d][<<"bar", role[d].config>>] = 1
    <2>1. MappedBars(d) = Len(Bars(d))
        BY <1>3 DEF MappedBars
    <2>2. PICK k \in 1..Len(Bars(d)) : role[d].config = Bars(d)[k].bar
        BY <1>1, <1>3, <2>1 DEF BarInv, ConfigAt
    <2>3. role[d].config \in 0..5
        BY <1>1, <2>2, LayoutFacts
    <2> QED
        BY <1>1, <2>1, <2>2, <2>3 DEF BarInv
<1> QED
    BY <1>4, <1>5, <1>6 DEF Ready

LEMMA HandlersReady ==
    ASSUME DeviceInv
    PROVE  HandlersHaveEngine
<1> DEFINE Engine(d, v) == IF v < h2c_max[d] THEN <<"h2c", v>>
                                             ELSE <<"c2h", v - h2c_max[d]>>
<1>1. ASSUME NEW d \in Devices, NEW e \in Engines,
             held[d][<<"work", e>>] + held[d][<<"armed", e>>] > 0
      PROVE  Ready(d, e)
    <2>1. EngineInv(d)
        BY DEF DeviceInv
    <2>2. <<"work", e>> \in EngineResources(e) /\ <<"armed", e>> \in EngineResources(e)
        BY DEF EngineResources
    <2>3. e \in LiveEngines(d)
        BY <1>1, <2>1, <2>2 DEF EngineInv
    <2> QED
        BY <2>3, LiveReady
<1> DEFINE Whole(d) == CutAt(d, "irq") = {} /\ One("line_twice") \notin cut[d]
<1>2. ASSUME NEW d \in Devices, Whole(d), NEW r \in Irqs, held[d][r] > 0
      PROVE  pc[d].at \in HasEngines
    <2>1. IrqsLeft(d) = {}
        BY <1>2, LeftIs
    <2>2. IrqIs(pc[d].at, pc[d].i, {}, cut[d], msi[d], IrqSet(d), r, held[d][r])
        BY <2>1, IrqParts DEF DeviceInv
    <2>3. pc[d].at \in Active \/ pc[d].at = "irq"
        BY <1>2, <2>2 DEF IrqIs, Num
    <2> QED
        BY <2>3 DEF HasEngines
<1>3. ASSUME NEW d \in Devices, Whole(d), NEW v \in 0..(ChannelIrqs(d) - 1),
             held[d][<<"irq", v>>] > 0
      PROVE  Ready(d, Engine(d, v))
    <2>1. h2c_max[d] \in 0..Channels /\ c2h_max[d] \in 0..Channels
        BY DEF DeviceInv, TypeOK
    <2>2. v \in Vectors
        BY <2>1, CountsAssumption DEF Vectors, ChannelIrqs
    <2>3. <<"irq", v>> \in Irqs
        BY <2>2 DEF Irqs
    <2>4. pc[d].at \in HasEngines
        BY <1>2, <1>3, <2>3
    <2>5. Engine(d, v) \in Engines /\ Engine(d, v)[2] < ChannelMax(d, Engine(d, v)[1])
        BY <2>1, CountsAssumption DEF Engines, ChannelMax, ChannelIrqs
    <2>6. Engine(d, v) \in LiveEngines(d)
        BY <2>4, <2>5 DEF LiveEngines
    <2> QED
        BY <2>6, LiveReady
<1>4. ASSUME NEW d \in Devices, Whole(d), held[d][One("line")] > 0,
             NEW e \in Engines, e[2] < ChannelMax(d, e[1])
      PROVE  Ready(d, e)
    <2>1. One("line") \in Irqs
        BY DEF Irqs
    <2>2. pc[d].at \in HasEngines
        BY <1>2, <1>4, <2>1
    <2>3. e \in LiveEngines(d)
        BY <1>4, <2>2 DEF LiveEngines
    <2> QED
        BY <2>3, LiveReady
<1> QED
    BY <1>1, <1>3, <1>4 DEF HandlersHaveEngine, Ready

(* What an interrupt handler, a completion thread or the hardware uses of  *)
(* an engine and of its device is there as long as it may be used: no      *)
(* order of set-up, failure, removal and reset takes it away earlier.      *)
THEOREM HandlersHaveTheirEngine == Spec => []HandlersHaveEngine
<1> QED
    BY DeviceInvariant, HandlersReady, PTL
-----------------------------------------------------------------------------
(* Nodes have their device                                                 *)

(* In the layouts that identify_bars() is written for, no two BARs have    *)
(* the same role, the user BAR is the first, the bypass BAR the last.      *)
LEMMA RegularFacts ==
    ASSUME NEW bars \in Seq(BarSet), Regular(bars)
    PROVE  /\ Len(bars) \in Nat \ {0}
           /\ \A i, j \in 1..Len(bars) : bars[i].kind = bars[j].kind => i = j
           /\ \A i \in 1..Len(bars) : bars[i].kind = "user" => i = 1
           /\ \A i \in 1..Len(bars) : bars[i].kind = "bypass" => i = Len(bars)
<1> DEFINE K == [i \in 1..Len(bars) |-> bars[i].kind]
<1>1. Len(bars) \in Nat
    OBVIOUS
<1>2. \A i \in 1..Len(bars) : K[i] = bars[i].kind
    OBVIOUS
<1>3. K \in Seq(BarKinds)
    <2>1. \A i \in 1..Len(bars) : bars[i].kind \in BarKinds
        <3>1. \A i \in 1..Len(bars) : bars[i] \in BarSet
            OBVIOUS
        <3> QED
            BY <3>1 DEF BarSet
    <2>2. K \in [1..Len(bars) -> BarKinds]
        BY <2>1
    <2> QED
        BY <1>1, <2>2
<1>4. Len(K) = Len(bars)
    BY <1>1, <1>3
<1>5. K \in {<<"config">>, <<"user", "config">>, <<"config", "bypass">>,
             <<"user", "config", "bypass">>}
    BY DEF Regular
<1> HIDE DEF K
<1>6. \/ Len(K) = 1 /\ K[1] = "config"
      \/ Len(K) = 2 /\ K[1] = "user" /\ K[2] = "config"
      \/ Len(K) = 2 /\ K[1] = "config" /\ K[2] = "bypass"
      \/ Len(K) = 3 /\ K[1] = "user" /\ K[2] = "config" /\ K[3] = "bypass"
    BY <1>5
<1>7. Len(bars) = 1 \/ Len(bars) = 2 \/ Len(bars) = 3
    BY <1>4, <1>6
<1>8. ASSUME NEW i \in 1..Len(bars)
      PROVE  i = 1 \/ i = 2 \/ i = 3
    <2>1. i \in Int /\ 1 <= i /\ i <= Len(bars)
        BY <1>1
    <2>2. ASSUME NEW n \in {1, 2, 3}, i <= n
          PROVE  i = 1 \/ i = 2 \/ i = 3
        BY <2>1, <2>2
    <2> QED
        BY <1>7, <2>1, <2>2
<1>9. ASSUME NEW i \in 1..Len(bars), NEW j \in 1..Len(bars), K[i] = K[j]
      PROVE  i = j
    BY <1>4, <1>6, <1>7, <1>8, <1>9
<1>10. ASSUME NEW i \in 1..Len(bars)
       PROVE  (K[i] = "user" => i = 1) /\ (K[i] = "bypass" => i = Len(bars))
    BY <1>4, <1>6, <1>7, <1>8
<1>11. Len(bars) \in Nat \ {0}
    BY <1>7
<1>12. \A i, j \in 1..Len(bars) : bars[i].kind = bars[j].kind => i = j
    BY <1>2, <1>9
<1>13. \A i \in 1..Len(bars) : bars[i].kind = "user" => i = 1
    BY <1>2, <1>10
<1>14. \A i \in 1..Len(bars) : bars[i].kind = "bypass" => i = Len(bars)
    BY <1>2, <1>10
<1> QED
    BY <1>11, <1>12, <1>13, <1>14

(* The roles are the BARs of those kinds.                                  *)
LEMMA RolesOfKinds ==
    ASSUME DeviceInv, NEW d \in Devices, pc[d].at \in HasBars, Regular(Bars(d)),
           NEW at, \A kind \in {"config", "user", "bypass"} : at[kind] =
                LET bar == {b \in 1..Len(Bars(d)) : Bars(d)[b].kind = kind}
                IN IF bar = {} THEN -1 ELSE Bars(d)[CHOOSE b \in bar : TRUE].bar
    PROVE  role[d] = [config |-> at["config"], user |-> at["user"],
                      bypass |-> at["bypass"]]
<1> DEFINE bar(kind) == {b \in 1..Len(Bars(d)) : Bars(d)[b].kind = kind}
<1>1. TypeOK /\ BarInv(d)
    BY DEF DeviceInv
<1>2. Bars(d) \in Seq(BarSet) /\ Len(Bars(d)) \in Nat
    BY <1>1, LayoutFacts
<1>3. /\ Len(Bars(d)) \in Nat \ {0}
      /\ \A i, j \in 1..Len(Bars(d)) : Bars(d)[i].kind = Bars(d)[j].kind => i = j
      /\ \A i \in 1..Len(Bars(d)) : Bars(d)[i].kind = "user" => i = 1
      /\ \A i \in 1..Len(Bars(d)) : Bars(d)[i].kind = "bypass" => i = Len(Bars(d))
    BY <1>2, RegularFacts
<1>4. \A kind \in {"config", "user", "bypass"} :
        at[kind] = IF bar(kind) = {} THEN -1
                   ELSE Bars(d)[CHOOSE b \in bar(kind) : TRUE].bar
    OBVIOUS
<1>5. ASSUME NEW kind \in {"config", "user", "bypass"}, NEW k \in bar(kind)
      PROVE  at[kind] = Bars(d)[k].bar
    <2>1. (CHOOSE b \in bar(kind) : TRUE) \in bar(kind)
        BY <1>5
    <2>2. (CHOOSE b \in bar(kind) : TRUE) = k
        BY <1>3, <1>5, <2>1
    <2>3. bar(kind) # {}
        BY <1>5
    <2> QED
        BY <1>4, <2>2, <2>3
<1>6. ASSUME NEW kind \in {"config", "user", "bypass"}, bar(kind) = {}
      PROVE  at[kind] = -1
    BY <1>4, <1>6
<1>7. ConfigAt(d, Len(Bars(d))) = bar("config")
    BY DEF ConfigAt
<1>8. MappedBars(d) = Len(Bars(d))
    BY DEF MappedBars
<1>9. role[d].config = at["config"]
    <2>1. PICK k \in bar("config") : role[d].config = Bars(d)[k].bar
        BY <1>1, <1>7, <1>8 DEF BarInv
    <2> QED
        BY <1>5, <2>1
<1>10. role[d].user = at["user"]
    <2>1. CASE Bars(d)[1].kind = "user"
        <3>1. 1 \in bar("user")
            BY <1>3, <2>1
        <3>2. role[d].user = Bars(d)[1].bar
            BY <1>1, <2>1 DEF BarInv
        <3> QED
            BY <1>5, <3>1, <3>2
    <2>2. CASE Bars(d)[1].kind # "user"
        <3>1. bar("user") = {}
            BY <1>3, <2>2
        <3>2. role[d].user = -1
            BY <1>1, <2>2 DEF BarInv
        <3> QED
            BY <1>6, <3>1, <3>2
    <2> QED
        BY <2>1, <2>2
<1>11. role[d].bypass = at["bypass"]
    <2> DEFINE n == Len(Bars(d))
    <2>1. CASE Bars(d)[n].kind = "bypass"
        <3>1. n \in bar("bypass")
            BY <1>3, <2>1
        <3>2. role[d].bypass = Bars(d)[n].bar
            BY <1>1, <2>1 DEF BarInv
        <3> QED
            BY <1>5, <3>1, <3>2
    <2>2. CASE Bars(d)[n].kind # "bypass"
        <3>1. bar("bypass") = {}
            BY <1>3, <2>2
        <3>2. role[d].bypass = -1
            BY <1>1, <2>2 DEF BarInv
        <3> QED
            BY <1>6, <3>1, <3>2
    <2> QED
        BY <2>1, <2>2
<1>12. role[d] \in [config : -1..5, user : -1..5, bypass : -1..5]
    BY <1>1 DEF TypeOK
<1> QED
    BY <1>9, <1>10, <1>11, <1>12

(* The index of a listed device is its own.                                *)
LEMMA IndexIsOwn ==
    ASSUME TypeOK, ListInv, NEW d \in Devices, NEW o \in Devices, o # d,
           HandleFound(d), HandleFound(o)
    PROVE  idx[o] # idx[d]
<1>1. PICK i \in 1..Len(xdev_list) : xdev_list[i] = d
    BY DEF HandleFound
<1>2. PICK j \in 1..Len(xdev_list) : xdev_list[j] = o
    BY DEF HandleFound
<1>3. idx[d] \in Nat /\ idx[o] \in Nat /\ Len(xdev_list) \in Nat
    BY DEF TypeOK
<1>4. i \in Int /\ j \in Int /\ i # j
    BY <1>1, <1>2, <1>3
<1>5. i < j \/ j < i
    BY <1>4
<1> QED
    BY <1>1, <1>2, <1>3, <1>5 DEF ListInv

LEMMA NodeReady ==
    ASSUME DeviceInv, \A x \in Devices : CutAt(x, "cdev") = {},
           NEW d \in Devices, NEW c \in Cdevs, held[d][<<"cdev", c>>] > 0
    PROVE  /\ held[d][One("xdev")] = 1 /\ held[d][One("xpdev")] = 1
           /\ HandleFound(d)
           /\ region[major[d]] = d
           /\ \A o \in Devices \ {d} : HandleFound(o) => idx[o] # idx[d]
           /\ pc[d].at \in HasBars
<1>1. TypeOK /\ ListInv /\ MajorInv /\ CdevInv(d)
    BY DEF DeviceInv
<1>2. PICK k \in 1..Made(d) : CdevSeq(d)[k] = c
    BY <1>1 DEF CdevInv
<1>3. Made(d) \in Nat /\ Made(d) > 0
    <2>1. Made(d) \in Nat
        BY <1>1, CdevSeqFacts DEF Made, TypeOK
    <2> QED
        BY <1>2, <2>1
<1>4. pc[d].at \in {"create", "bound", "frozen", "reset", "oops", "free_interfaces"}
    BY <1>3 DEF Made, In
<1>5. pc[d].at \in Public /\ pc[d].at \in HasBars /\ pc[d].at \in IsListed
    BY <1>4 DEF Public, HasBars, HasEngines, Active, Complete, IsListed
<1>6. major[d] # 0
    BY <1>1, <1>3, <1>5 DEF CdevInv
<1>7. \A x \in Devices : ~Torn(x)
    BY DEF Torn
<1>8. region[major[d]] = d
    BY <1>1, <1>5, <1>6, <1>7 DEF MajorInv
<1>9. HandleFound(d) /\ held[d][One("xdev")] = 1 /\ held[d][One("xpdev")] = 1
    BY <1>1, <1>5 DEF ListInv
<1>10. \A o \in Devices \ {d} : HandleFound(o) => idx[o] # idx[d]
    BY <1>1, <1>9, IndexIsOwn
<1> QED
    BY <1>5, <1>8, <1>9, <1>10

LEMMA NodesReady ==
    ASSUME DeviceInv
    PROVE  NodesHaveDevice
<1> DEFINE bar(d, kind) == {b \in 1..Len(Bars(d)) : Bars(d)[b].kind = kind}
           at(d, kind) == IF bar(d, kind) = {} THEN -1
                          ELSE Bars(d)[CHOOSE b \in bar(d, kind) : TRUE].bar
<1>1. ASSUME NEW d \in Devices, pc[d].at \in HasBars, Regular(Bars(d))
      PROVE  role[d] = [config |-> at(d, "config"), user |-> at(d, "user"),
                        bypass |-> at(d, "bypass")]
    <2> DEFINE f == [kind \in {"config", "user", "bypass"} |-> at(d, kind)]
    <2>1. \A kind \in {"config", "user", "bypass"} : f[kind] = at(d, kind)
        OBVIOUS
    <2> HIDE DEF f
    <2>2. role[d] = [config |-> f["config"], user |-> f["user"], bypass |-> f["bypass"]]
        BY <1>1, <2>1, RolesOfKinds
    <2> HIDE DEF at
    <2> QED
        BY <2>1, <2>2
<1>2. ASSUME \A x \in Devices : CutAt(x, "cdev") = {},
             NEW d \in Devices, \E c \in Cdevs : held[d][<<"cdev", c>>] > 0
      PROVE  /\ held[d][One("xdev")] = 1 /\ held[d][One("xpdev")] = 1
             /\ HandleFound(d)
             /\ region[major[d]] = d
             /\ \A o \in Devices \ {d} : HandleFound(o) => idx[o] # idx[d]
             /\ pc[d].at \in HasBars
    BY <1>2, NodeReady
<1> QED
    BY <1>1, <1>2 DEF NodesHaveDevice

(* Until the creation of a node fails somewhere, a node that can be opened *)
(* belongs to an open device that alone has its major number and its       *)
(* index, and behind whose roles are the BARs of those kinds.              *)
THEOREM NodesHaveTheirDevice == Spec => []NodesHaveDevice
<1> QED
    BY DeviceInvariant, NodesReady, PTL
-----------------------------------------------------------------------------
(* The unwinding is exact                                                  *)

(* What is left of the resources of each kind.                             *)
LEMMA NothingElse ==
    ASSUME NEW d \in Devices, NEW r,
           r \notin {One("enabled"), One("input"), One("region")}, r \notin Irqs,
           r[1] # "cdev"
    PROVE  Leftover(d, r) = 0
    BY DEF Leftover

LEMMA NodesLeft ==
    ASSUME NEW d \in Devices, NEW c \in Cdevs
    PROVE  Leftover(d, <<"cdev", c>>) =
            IF c \notin {CdevSeq(d)[i] : i \in UNION {1..(k - 1) : k \in CutAt(d, "cdev")}}
            THEN 0 ELSE IF Group(c) \in flags[d] THEN -1 ELSE 1
<1> DEFINE r == <<"cdev", c>>
<1>1. r \notin {One("enabled"), One("input"), One("region")}
    BY DEF One
<1>2. r \notin Irqs
    BY KindsOfResources
<1>3. r[1] = "cdev" /\ r[2] = c
    OBVIOUS
<1> HIDE DEF r
<1>4. Leftover(d, r) =
        IF r[2] \notin {CdevSeq(d)[i] : i \in UNION {1..(k - 1) : k \in CutAt(d, "cdev")}}
        THEN 0 ELSE IF Group(r[2]) \in flags[d] THEN -1 ELSE 1
    BY <1>1, <1>2, <1>3 DEF Leftover
<1> QED
    BY <1>3, <1>4 DEF r

(* Every resource is of one of the kinds.                                  *)
LEMMA EveryResource ==
    ASSUME NEW r \in Resources
    PROVE  \/ \E n \in Singles : r = One(n)
           \/ r = One("region")
           \/ r \in Irqs
           \/ \E b \in 0..5 : r = <<"bar", b>>
           \/ \E e \in Engines : r \in EngineResources(e)
           \/ \E c \in Cdevs : r = <<"cdev", c>>
<1>1. \/ r \in {"xpdev", "xdev", "listed", "enabled", "regions", "vectors", "line",
               "region", "input"} \X {0}
      \/ r \in {"bar"} \X (0..5) \/ r \in {"irq"} \X Vectors
      \/ r \in EngineKinds \X Engines
      \/ r \in {"cdev"} \X Cdevs
    BY DEF Resources, EngineKinds
<1>2. CASE r \in {"xpdev", "xdev", "listed", "enabled", "regions", "vectors", "line",
                  "region", "input"} \X {0}
    <2>1. PICK n \in Singles \cup {"line", "region"} : r = One(n)
        BY <1>2 DEF Singles, One
    <2> QED
        BY <2>1 DEF Irqs
<1>3. CASE r \in {"bar"} \X (0..5)
    BY <1>3
<1>4. CASE r \in {"irq"} \X Vectors
    BY <1>4 DEF Irqs
<1>5. CASE r \in EngineKinds \X Engines
    <2>1. r[2] \in Engines /\ r \in EngineResources(r[2])
        BY <1>5 DEF EngineResources, EngineKinds
    <2> QED
        BY <2>1
<1>6. CASE r \in {"cdev"} \X Cdevs
    BY <1>6
<1> QED
    BY <1>1, <1>2, <1>3, <1>4, <1>5, <1>6

(* A device that is gone has no BAR mapped and no engine, ...              *)
LEMMA GoneBars ==
    ASSUME NEW d \in Devices, In(d, "absent"), BarInv(d), NEW b \in 0..5
    PROVE  held[d][<<"bar", b>>] = Leftover(d, <<"bar", b>>)
<1>1. "absent" \notin HasBars
    BY Places
<1>2. MappedBars(d) = 0
    BY <1>1 DEF MappedBars, In
<1>3. held[d][<<"bar", b>>] = 0
    <2> DEFINE n == MappedBars(d)
    <2>1. held[d][<<"bar", b>>] = IF \E k \in 1..n : Bars(d)[k].bar = b THEN 1 ELSE 0
        BY DEF BarInv
    <2>2. 1..n = {}
        BY <1>2
    <2> HIDE DEF n
    <2> QED
        BY <2>1, <2>2
<1>4. <<"bar", b>> \notin Irqs /\ <<"bar", b>>[1] # "cdev"
    BY KindsOfResources
<1>5. <<"bar", b>> \notin {One("enabled"), One("input"), One("region")}
    BY DEF One
<1> QED
    BY <1>3, <1>4, <1>5, NothingElse

LEMMA GoneEngines ==
    ASSUME NEW d \in Devices, In(d, "absent"), EngineInv(d),
           NEW e \in Engines, NEW r \in EngineResources(e)
    PROVE  held[d][r] = Leftover(d, r)
<1>1. LiveEngines(d) = {}
    <2>1. None(pc[d].at, pc[d].i)
        BY DEF None, HasEngines, Active, Complete, In
    <2> QED
        BY <2>1, LiveNone, LiveIs
<1>2. held[d][r] = 0
    BY <1>1 DEF EngineInv
<1>3. r[1] \in {"ring", "wb", "result", "work", "armed"}
    BY KindsOfResources
<1>4. r \notin Irqs /\ r[1] # "cdev"
    BY <1>3, KindsOfResources
<1>5. r \notin {One("enabled"), One("input"), One("region")}
    BY <1>3, OneKind
<1> QED
    BY <1>2, <1>4, <1>5, NothingElse

(* ... of what there is one of only what is left, ...                      *)
LEMMA GoneSingles ==
    ASSUME NEW d \in Devices, In(d, "absent"), SingleInv(d), NEW n \in Singles
    PROVE  held[d][One(n)] = Leftover(d, One(n))
<1>1. pc[d].at = "absent"
    BY DEF In
<1>2. /\ "absent" \notin HasBars /\ "absent" \notin HasVectors
      /\ "absent" \notin IsEnabled /\ "absent" \notin IsListed
    BY Places
<1>3. CASE n \in {"enabled", "input"}
    BY <1>1, <1>2, <1>3 DEF SingleInv
<1>4. CASE n \in {"xpdev", "xdev", "listed", "regions", "vectors"}
    <2>1. held[d][One(n)] = 0
        BY <1>1, <1>2, <1>4 DEF SingleInv, Num
    <2>2. One(n) \notin Irqs /\ One(n)[1] # "cdev"
        BY <1>4, OneKind, KindsOfResources
    <2>3. One(n) \notin {One("enabled"), One("input"), One("region")}
        BY <1>4, OneKind
    <2> QED
        BY <2>1, <2>2, <2>3, NothingElse
<1> QED
    BY <1>3, <1>4 DEF Singles

(* ... and of the character devices those of an unfinished group, and one  *)
(* release too many of the others.                                         *)
LEMMA GoneNodes ==
    ASSUME TypeOK, NEW d \in Devices, In(d, "absent"), CdevInv(d), NEW c \in Cdevs
    PROVE  held[d][<<"cdev", c>>] = Leftover(d, <<"cdev", c>>)
<1> DEFINE C == CutAt(d, "cdev")
           s == CdevSeq(d)
           p == pc[d]
           made == {s[i] : i \in UNION {1..(k - 1) : k \in C}}
<1>1. NodesAre(p, C, s, held[d], flags[d], major[d]) /\ Len(s) \in Nat
    BY CdevParts, CdevSeqFacts
<1>2. Leftover(d, <<"cdev", c>>) = IF c \notin made THEN 0
                                   ELSE IF Group(c) \in flags[d] THEN -1 ELSE 1
    BY NodesLeft
<1>3. p.at = "absent"
    BY DEF In
<1> HIDE DEF C, s, p
<1>4. held[d][<<"cdev", c>>] = IF \E k \in 1..MadeAt(p, C, s) : s[k] = c
                               THEN 1 - RemovedAt(p, C, c, flags[d]) ELSE 0
    BY <1>1 DEF NodesAre, NodesHeld
<1>5. CASE C = {}
    <2>1. MadeAt(p, C, s) = 0
        BY <1>3, <1>5 DEF MadeAt
    <2>2. made = {}
        BY <1>5
    <2> QED
        BY <1>2, <1>4, <2>1, <2>2
<1>6. CASE C # {}
    <2>1. PICK k \in 1..Len(s) : C = {k}
        BY <1>1, <1>6 DEF NodesAre
    <2>2. MadeAt(p, C, s) = k - 1
        <3>1. (CHOOSE x \in {k} : TRUE) = k
            OBVIOUS
        <3> QED
            BY <1>6, <2>1, <3>1 DEF MadeAt
    <2>3. made = {s[i] : i \in 1..(k - 1)}
        BY <2>1
    <2>4. c \in made <=> \E i \in 1..(k - 1) : s[i] = c
        BY <2>3
    <2>5. RemovedAt(p, C, c, flags[d]) = IF Group(c) \in flags[d] THEN 2 ELSE 0
        BY <1>3, <1>6 DEF RemovedAt
    <2> QED
        BY <1>2, <1>4, <2>2, <2>4, <2>5
<1> QED
    BY <1>5, <1>6

(* The region of device numbers, that a failed creation released again.    *)
LEMMA GoneRegion ==
    ASSUME NEW d \in Devices, In(d, "absent"), CdevInv(d)
    PROVE  held[d][One("region")] = Leftover(d, One("region"))
    BY DEF CdevInv, RegionInv, In, Opening, Public

(* Its interrupts are those that are left, or requests of the line that    *)
(* was requested twice.                                                    *)
LEMMA GoneIrqs ==
    ASSUME NEW d \in Devices, In(d, "absent"), IrqInv(d), NEW r \in Irqs
    PROVE  \/ held[d][r] = Leftover(d, r)
           \/ r = One("line") /\ One("line_twice") \in cut[d] /\ held[d][r] \in Nat
<1>1. IrqIs("absent", pc[d].i, IrqsLeft(d), cut[d], msi[d], IrqSet(d), r, held[d][r])
    BY IrqParts DEF In
<1>2. "absent" \notin Active
    BY LabelsApart
<1>3. Leftover(d, r) = Num(r \in IrqsLeft(d))
    BY LeftoverIs
<1> QED
    BY <1>1, <1>2, <1>3 DEF IrqIs, Num

(* What xdma_device_close() frees is held, unless it has been offline.     *)
LEMMA CloseIrqs ==
    ASSUME TypeOK, NEW d \in Devices, In(d, "close"), IrqInv(d)
    PROVE  HeldIrqs(d) = IrqSet(d) \/ One("offline") \in cut[d]
<1>1. SUFFICES ASSUME One("offline") \notin cut[d], NEW r \in IrqSet(d)
               PROVE  held[d][r] > 0
    BY DEF HeldIrqs
<1>2. r \in Irqs
    <2>1. IrqCount(d) \in Nat /\ IrqCount(d) <= 2 * Channels + UserIrqs
        BY IrqCountType
    <2>2. CASE msi[d] = "msix"
        <3>1. r \in {"irq"} \X (0..(IrqCount(d) - 1))
            <4>1. ChannelIrqs(d) \in Nat /\ UserIrqs \in Nat
                BY IrqCountType, CountsAssumption
            <4> QED
                BY <1>1, <2>2, <4>1 DEF IrqSet, IrqCount
        <3>2. 0..(IrqCount(d) - 1) \subseteq Vectors
            BY <2>1, CountsAssumption DEF Vectors
        <3> QED
            BY <3>1, <3>2 DEF Irqs
    <2>3. CASE msi[d] # "msix"
        BY <1>1, <2>3 DEF IrqSet, Irqs
    <2> QED
        BY <2>2, <2>3
<1>3. IrqIs("close", pc[d].i, IrqsLeft(d), cut[d], msi[d], IrqSet(d), r, held[d][r])
    BY <1>2, IrqParts DEF In
<1>4. "close" \in Active
    BY LabelsApart
<1> QED
    BY <1>1, <1>3, <1>4 DEF IrqIs

LEMMA UnwindReady ==
    ASSUME DeviceInv
    PROVE  UnwindExact
<1>1. ASSUME NEW d \in Devices, In(d, "close")
      PROVE  HeldIrqs(d) = IrqSet(d) \/ One("offline") \in cut[d]
    BY <1>1, CloseIrqs DEF DeviceInv
<1>2. ASSUME NEW d \in Devices, In(d, "absent"), NEW r \in Resources
      PROVE  \/ held[d][r] = Leftover(d, r)
             \/ r = One("line") /\ One("line_twice") \in cut[d] /\ held[d][r] \in Nat
    <2>1. TypeOK /\ EngineInv(d) /\ BarInv(d) /\ IrqInv(d) /\ CdevInv(d) /\ SingleInv(d)
        BY DEF DeviceInv
    <2>2. CASE r \in Irqs
        BY <1>2, <2>1, <2>2, GoneIrqs
    <2>3. CASE r = One("region")
        BY <1>2, <2>1, <2>3, GoneRegion
    <2>4. CASE \E n \in Singles : r = One(n)
        BY <1>2, <2>1, <2>4, GoneSingles
    <2>5. CASE \E b \in 0..5 : r = <<"bar", b>>
        BY <1>2, <2>1, <2>5, GoneBars
    <2>6. CASE \E e \in Engines : r \in EngineResources(e)
        BY <1>2, <2>1, <2>6, GoneEngines
    <2>7. CASE \E c \in Cdevs : r = <<"cdev", c>>
        BY <1>2, <2>1, <2>7, GoneNodes
    <2> QED
        BY <2>2, <2>3, <2>4, <2>5, <2>6, <2>7, EveryResource
<1> QED
    BY <1>1, <1>2 DEF UnwindExact

(* A device that is gone has given back everything exactly once, wherever  *)
(* its set-up failed and whatever happened to it meanwhile, but for what   *)
(* Leftover lists and the requests of a legacy line that was requested     *)
(* while it was held; and the interrupts that xdma_device_close() frees    *)
(* are held, unless the device has been offline.                           *)
THEOREM UnwindIsExact == Spec => []UnwindExact
<1> QED
    BY DeviceInvariant, UnwindReady, PTL
=============================================================================
