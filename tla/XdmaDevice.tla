----------------------------- MODULE XdmaDevice -----------------------------
(***************************************************************************)
(* The life of the XDMA devices: the module's load and unload and the PCI  *)
(* callbacks (xdma/xdma_mod.c), xdma_device_open() and xdma_device_close() *)
(* with everything they acquire (xdma/libxdma.c), and the creation and     *)
(* removal of the character devices (xdma/xdma_cdev.c).                    *)
(*                                                                         *)
(* Probing two devices may interleave; what they share is the list of      *)
(* devices, the completion threads and the kernel's table of major         *)
(* numbers.  held[d][r] counts the references device d has to resource r:  *)
(* acquiring adds one, releasing takes one away, so that a leak leaves 1   *)
(* and a double release -1.  Only free_irq() of an interrupt that is not   *)
(* held changes nothing but the log.                                       *)
(***************************************************************************)
EXTENDS Integers, Sequences, FiniteSets, SequencesExt

CONSTANTS
    Devices,    \* the PCI functions
    Layouts,    \* what the hardware of each may look like, see LayoutSet
    Channels,   \* XDMA_CHANNEL_NUM_MAX
    UserIrqs,   \* MAX_USER_IRQ
    Majors,     \* the major numbers the kernel may hand out
    MaxFails,   \* bound on what goes wrong, see Charge
    MaxProbes,  \* bound on the probes
    NoDevice    \* owner of a free major number

BarKinds == {"user", "config", "bypass", "other"}

\* bars is what lies behind the implemented BARs, by increasing BAR number;
\* h2c and c2h are the numbers of engines, which stream or not; cap is the
\* interrupt capability.
LayoutSet ==
    [bars : Seq([bar : 0..5, kind : BarKinds]), h2c : Nat, c2h : Nat,
     streaming : BOOLEAN, cap : {"msix", "msi", "legacy", "nopin"}]

ASSUME LayoutsAssumption   == \A d \in Devices : Layouts[d] \subseteq LayoutSet
ASSUME BarsAssumption ==    \* map_bars() goes through the BARs in this order
    \A d \in Devices : \A l \in Layouts[d] : \A i, j \in 1..Len(l.bars) :
        i < j => l.bars[i].bar < l.bars[j].bar
ASSUME CountsAssumption    == Channels \in Nat \ {0} /\ UserIrqs \in Nat
ASSUME BoundsAssumption    == {MaxFails, MaxProbes} \subseteq Nat
ASSUME MajorsAssumption    == 0 \notin Majors
ASSUME NoDeviceAssumption  == NoDevice \notin Devices

Engines == {"h2c", "c2h"} \X (0..Channels - 1)
Vectors == 0..(2 * Channels + UserIrqs - 1)
CdevKinds == {"ctrl", "event", "h2c", "c2h", "bp_h2c", "bp_c2h", "bypass",
              "user", "xvc"}
Cdevs == CdevKinds \X ((0..(Channels - 1)) \cup (0..(UserIrqs - 1)))

\* A resource, or a place, there is one of.
One(name) == <<name, 0>>

Resources ==
    ({"xpdev", "xdev", "listed", "enabled", "regions", "vectors", "line",
      "region", "input"} \X {0})
    \cup ({"bar"} \X (0..5)) \cup ({"irq"} \X Vectors)
    \cup ({"ring", "wb", "result", "work", "armed"} \X Engines)
    \cup ({"cdev"} \X Cdevs)

VARIABLES
    module,     \* out, in, or exiting
    class,      \* the class "xdma" exists
    poll_mode,  \* the module parameter
    fails,      \* what went wrong so far
    probes,     \* probes so far
    hw,         \* the device's layout
    pc,         \* where the device is: a label and a loop counter
    held,       \* references to resources
    cut,        \* auxiliary: where this probe failed, and what else went on
    h2c_max,    \* h2c_channel_max
    c2h_max,    \* c2h_channel_max
    msi,        \* msix_enabled or msi_enabled is set: "msix", "msi", "none"
    role,       \* config_bar_idx, user_bar_idx and bypass_bar_idx
    in_use,     \* regions_in_use
    xdev_list,  \* xdev_list
    idx,        \* xdev->idx
    threads,    \* thread_cnt is not 0
    region,     \* the kernel's table of character-device majors (external)
    major,      \* xpdev->major
    flags       \* xpdev->flags: groups of character devices

modVars == <<module, class>>
boundVars == <<fails, probes, hw, poll_mode>>
devVars == <<h2c_max, c2h_max, msi, role, in_use>>
listVars == <<xdev_list, idx, threads>>
cdevVars == <<region, major, flags>>
vars == <<modVars, boundVars, pc, held, cut, devVars, listVars, cdevVars>>

At(label, i) == [at |-> label, i |-> i]
NoRole == [config |-> -1, user |-> -1, bypass |-> -1]

Init ==
    /\ module = "out" /\ class = FALSE
    /\ poll_mode \in BOOLEAN
    /\ fails = 0
    /\ probes = 0
    /\ hw \in {h \in [Devices -> UNION {Layouts[d] : d \in Devices}] :
                \A d \in Devices : h[d] \in Layouts[d]}
    /\ pc = [d \in Devices |-> At("absent", 0)]
    /\ held = [d \in Devices |-> [r \in Resources |-> 0]]
    /\ cut = [d \in Devices |-> {}]
    /\ h2c_max = [d \in Devices |-> 0]
    /\ c2h_max = [d \in Devices |-> 0]
    /\ msi = [d \in Devices |-> "none"]
    /\ role = [d \in Devices |-> NoRole]
    /\ in_use = [d \in Devices |-> FALSE]
    /\ xdev_list = <<>>
    /\ idx = [d \in Devices |-> 0]
    /\ threads = FALSE
    /\ region = [m \in Majors |-> NoDevice]
    /\ major = [d \in Devices |-> 0]
    /\ flags = [d \in Devices |-> {}]
-----------------------------------------------------------------------------
Goto(d, label) == pc' = [pc EXCEPT ![d] = At(label, 0)]
Loop(d) == pc' = [pc EXCEPT ![d].i = @ + 1]
In(d, label) == pc[d].at = label

AcquireAll(d, R) == held' = [held EXCEPT ![d] =
                            [r \in Resources |-> IF r \in R THEN @[r] + 1 ELSE @[r]]]
Acquire(d, r) == AcquireAll(d, {r})
Release(d, R) == held' = [held EXCEPT ![d] =
                            [r \in Resources |-> IF r \in R THEN @[r] - 1 ELSE @[r]]]

Note(d, what) == cut' = [cut EXCEPT ![d] = @ \cup what]

\* A failure, and what sends a device offline or online on its own, with the
\* failure that may follow from it, is charged to the bound; a probe's is noted.
Charge == fails < MaxFails /\ fails' = fails + 1
Fails(d, where) == Charge /\ Note(d, {where})

Succeeds == UNCHANGED <<fails, cut>>
-----------------------------------------------------------------------------
(* The module                                                              *)

\* xdma_mod_init(): the class, the cache of async requests and the driver.  A
\* class of that name must not exist yet; what failed later leaves it behind.
ModInit ==
    /\ module = "out"
    /\ ~class
    /\ class' = TRUE
    /\ \/ /\ module' = "in"
          /\ UNCHANGED fails
       \/ /\ Charge
          /\ UNCHANGED module
    /\ UNCHANGED <<probes, hw, poll_mode, pc, held, cut, devVars, listVars, cdevVars>>

\* xdma_mod_exit(): pci_unregister_driver() removes every device ...
ModExit ==
    /\ module = "in"
    /\ \A d \in Devices : pc[d].at \in {"absent", "bound", "frozen", "reset"}
    /\ module' = "exiting"
    /\ UNCHANGED <<class, boundVars, pc, held, cut, devVars, listVars,
                   cdevVars>>

\* ... and then the class and the cache go.
ModCleanup ==
    /\ module = "exiting"
    /\ \A d \in Devices : In(d, "absent")
    /\ module' = "out"
    /\ class' = FALSE
    /\ UNCHANGED <<boundVars, pc, held, cut, devVars, listVars,
                   cdevVars>>
-----------------------------------------------------------------------------
(* probe_one() up to the first step of xdma_device_open()                  *)

\* xpdev_alloc() and alloc_dev_instance().  A device that has left something
\* behind is not probed again.
ProbeAlloc(d) ==
    /\ module = "in"
    /\ In(d, "absent")
    /\ probes < MaxProbes
    /\ \A r \in Resources \ {One("input")} : held[d][r] = 0
    /\ probes' = probes + 1
    /\ held' = [held EXCEPT ![d] = [@ EXCEPT ![One("input")] = 0, ![One("xpdev")] = 1,
                                             ![One("xdev")] = 1]]
    /\ cut' = [cut EXCEPT ![d] = {}]
    /\ h2c_max' = [h2c_max EXCEPT ![d] = Channels]
    /\ c2h_max' = [c2h_max EXCEPT ![d] = Channels]
    /\ msi' = [msi EXCEPT ![d] = "none"]
    /\ role' = [role EXCEPT ![d] = NoRole]
    /\ in_use' = [in_use EXCEPT ![d] = FALSE]
    /\ major' = [major EXCEPT ![d] = 0]
    /\ flags' = [flags EXCEPT ![d] = {}]
    /\ Goto(d, "list_add")
    /\ UNCHANGED <<modVars, fails, hw, poll_mode, listVars, region>>

\* Mutant: the new index is the number of listed devices.
NextIdxCount == Len(xdev_list)

\* The index xdev_list_add() gives: one more than the last device's.
NextIdx == IF xdev_list = <<>> THEN 0 ELSE idx[Last(xdev_list)] + 1

\* xdev_list_add(), under xdev_mutex: the first device creates the completion
\* threads in polled mode, which may fail.
ListAdd(d) ==
    /\ In(d, "list_add")
    /\ \/ /\ Succeeds
          /\ xdev_list' = Append(xdev_list, d)
          /\ idx' = [idx EXCEPT ![d] = NextIdx]
          /\ threads' = (threads \/ poll_mode)
          /\ Acquire(d, One("listed"))
          /\ Goto(d, "enable")
       \/ /\ poll_mode /\ xdev_list = <<>>
          /\ Fails(d, One("threads"))
          /\ Goto(d, "free_xdev")
          /\ UNCHANGED <<listVars, held>>
    /\ UNCHANGED <<modVars, probes, hw, poll_mode, devVars, cdevVars>>

\* pci_enable_device().
EnableDevice(d) ==
    /\ In(d, "enable")
    /\ \/ /\ Succeeds
          /\ Acquire(d, One("enabled"))
          /\ Goto(d, "regions")
       \/ /\ Fails(d, One("enable"))
          /\ Goto(d, "err_enable")
          /\ UNCHANGED held
    /\ UNCHANGED <<modVars, probes, hw, poll_mode, devVars, listVars, cdevVars>>

\* request_regions(): a failure means another driver owns the device.
RequestRegions(d) ==
    /\ In(d, "regions")
    /\ \/ /\ Succeeds
          /\ Acquire(d, One("regions"))
          /\ Goto(d, "map")
          /\ UNCHANGED in_use
       \/ /\ Fails(d, One("regions"))
          /\ in_use' = [in_use EXCEPT ![d] = TRUE]
          /\ Goto(d, "err_regions")
          /\ UNCHANGED held
    /\ UNCHANGED <<modVars, probes, hw, poll_mode, h2c_max, c2h_max, msi, role,
                   listVars, cdevVars>>
-----------------------------------------------------------------------------
(* BARs                                                                    *)

Bars(d) == hw[d].bars
BarsHeld(d) == {r \in {"bar"} \X (0..5) : held[d][r] > 0}

\* map_bars(): one BAR after the other; a failure unmaps all of them.
MapBar(d) ==
    LET b == Bars(d)[pc[d].i + 1] IN
    /\ In(d, "map")
    /\ pc[d].i < Len(Bars(d))
    /\ \/ /\ Succeeds
          /\ Acquire(d, <<"bar", b.bar>>)
          /\ role' = [role EXCEPT ![d].config =
                        IF @ < 0 /\ b.kind = "config" THEN b.bar ELSE @]
          /\ Loop(d)
       \/ /\ Fails(d, One("map"))
          /\ Release(d, BarsHeld(d))
          /\ Goto(d, "err_map")
          /\ UNCHANGED role
    /\ UNCHANGED <<modVars, probes, hw, poll_mode, h2c_max, c2h_max, msi, in_use,
                   listVars, cdevVars>>

\* identify_bars(): the user and the bypass BAR, from the number of BARs and
\* the config BAR's position among them (from 0).
IdentifyBars(bars, pos) ==
    CASE Len(bars) = 2 /\ pos = 0 -> [user |-> -1, bypass |-> bars[2].bar]
      [] Len(bars) = 2 /\ pos = 1 -> [user |-> bars[1].bar, bypass |-> -1]
      [] Len(bars) \in {3, 4} /\ pos \in {1, 2} ->
            [user |-> bars[1].bar, bypass |-> bars[Len(bars)].bar]
      [] OTHER -> [user |-> -1, bypass |-> -1]

\* All BARs are mapped: without a config BAR they are unmapped again.
MapBarsEnd(d) ==
    LET pos == CHOOSE i \in 0..(Len(Bars(d)) - 1) : Bars(d)[i + 1].bar = role[d].config
        found == IdentifyBars(Bars(d), pos)
    IN
    /\ In(d, "map")
    /\ pc[d].i = Len(Bars(d))
    /\ \/ /\ role[d].config >= 0
          /\ role' = [role EXCEPT ![d].user = found.user,
                                  ![d].bypass = found.bypass]
          /\ Goto(d, "mask")
          /\ UNCHANGED held
       \/ /\ role[d].config < 0
          /\ Release(d, BarsHeld(d))
          /\ Goto(d, "err_map")
          /\ UNCHANGED role
    /\ UNCHANGED <<modVars, boundVars, cut, h2c_max, c2h_max, msi, in_use,
                   listVars, cdevVars>>

\* set_dma_mask(), and the interrupt enable masks are cleared.
SetDmaMask(d) ==
    /\ In(d, "mask")
    /\ \/ Succeeds /\ Goto(d, "h2c")
       \/ Fails(d, One("mask")) /\ Goto(d, "err_mask")
    /\ UNCHANGED <<modVars, probes, hw, poll_mode, held, devVars, listVars, cdevVars>>
-----------------------------------------------------------------------------
(* Engines and interrupts                                                  *)

Found(d, dir) == IF dir = "h2c" THEN hw[d].h2c ELSE hw[d].c2h
ChannelMax(d, dir) == IF dir = "h2c" THEN h2c_max[d] ELSE c2h_max[d]

\* engine_alloc_resource(): the descriptor ring, the write-back word in polled
\* mode, the results of a receiving stream.  One that is missing frees the rest.
EngineMemory(d, e) ==
    {<<"ring", e>>}
    \cup (IF poll_mode THEN {<<"wb", e>>} ELSE {})
    \cup (IF hw[d].streaming /\ e[1] = "c2h" THEN {<<"result", e>>} ELSE {})

\* engine_init_regs(): the hardware may interrupt, or write back.
EngineRegs(e) == {<<"armed", e>>}

\* engine_init(): in polled mode the engine is also given to a thread.
EngineInit(d, e) ==
    EngineMemory(d, e) \cup EngineRegs(e)
    \cup (IF poll_mode THEN {<<"work", e>>} ELSE {})

\* engine_destroy(): disarmed, taken from its thread, and whatever memory it
\* has freed.
EngineDestroy(d, e) ==
    EngineRegs(e)
    \cup (IF poll_mode THEN {<<"work", e>>} ELSE {})
    \cup {r \in {"ring", "wb", "result"} \X {e} : held[d][r] > 0}

\* probe_engines(): engines are initialised until one is missing or cannot be
\* allocated; that ends the direction and is not an error.
ProbeEngine(d, dir) ==
    LET i == pc[d].i
        ends == i = ChannelMax(d, dir) \/ i >= Found(d, dir)
        stop(n) == /\ IF dir = "h2c"
                      THEN /\ h2c_max' = [h2c_max EXCEPT ![d] = n]
                           /\ UNCHANGED c2h_max
                      ELSE /\ c2h_max' = [c2h_max EXCEPT ![d] = n]
                           /\ UNCHANGED h2c_max
                   /\ Goto(d, IF dir = "h2c" THEN "c2h" ELSE "msi")
                   /\ UNCHANGED held
    IN
    /\ In(d, dir)
    /\ \/ ends /\ Succeeds /\ stop(i)
       \/ ~ends /\ Fails(d, One("engine")) /\ stop(i)
       \/ /\ ~ends
          /\ Succeeds
          /\ AcquireAll(d, EngineInit(d, <<dir, i>>))
          /\ Loop(d)
          /\ UNCHANGED <<h2c_max, c2h_max>>
    /\ UNCHANGED <<modVars, probes, hw, poll_mode, msi, role, in_use, listVars, cdevVars>>

\* enable_msi_msix(): the flag is set even when enabling fails.
EnableMsi(d) ==
    LET kind == IF hw[d].cap \in {"msix", "msi"} THEN hw[d].cap ELSE "none" IN
    /\ In(d, "msi")
    /\ msi' = [msi EXCEPT ![d] = kind]
    /\ \/ /\ Succeeds
          /\ IF kind = "none" THEN UNCHANGED held ELSE Acquire(d, One("vectors"))
          /\ Goto(d, "irq")
       \/ /\ kind # "none"
          /\ Fails(d, One("msi"))
          /\ Goto(d, "err_engines")
          /\ UNCHANGED held
    /\ UNCHANGED <<modVars, probes, hw, poll_mode, h2c_max, c2h_max, role, in_use,
                   listVars, cdevVars>>

ChannelIrqs(d) == h2c_max[d] + c2h_max[d]

\* irq_msix_channel_setup() and irq_msix_user_setup(): one vector after the
\* other.  The user set-up frees its own vectors when it fails, and nobody
\* frees the channels'.
MsixIrq(d) ==
    LET v == pc[d].i IN
    /\ In(d, "irq") /\ msi[d] = "msix"
    /\ v < ChannelIrqs(d) + UserIrqs
    /\ \/ /\ Succeeds
          /\ Acquire(d, <<"irq", v>>)
          /\ Loop(d)
       \/ /\ Fails(d, <<"irq", v>>)
          /\ Release(d, {"irq"} \X (ChannelIrqs(d)..(v - 1)))
          /\ Goto(d, "err_msix")
    /\ UNCHANGED <<modVars, probes, hw, poll_mode, devVars, listVars, cdevVars>>

\* The vectors are programmed: the device is complete.
MsixIrqEnd(d) ==
    /\ In(d, "irq") /\ msi[d] = "msix"
    /\ pc[d].i = ChannelIrqs(d) + UserIrqs
    /\ Goto(d, "online")
    /\ UNCHANGED <<modVars, boundVars, held, cut, devVars, listVars, cdevVars>>

\* irq_msi_setup() and irq_legacy_setup(): one interrupt line; without an
\* interrupt pin there is none.
LineIrq(d) ==
    /\ In(d, "irq") /\ msi[d] # "msix"
    /\ \/ /\ hw[d].cap # "nopin"
          /\ Succeeds
          /\ Acquire(d, One("line"))
          /\ Goto(d, "online")
       \/ /\ hw[d].cap # "nopin"
          /\ Fails(d, One("line"))
          /\ Goto(d, "err_msix")
          /\ UNCHANGED held
       \/ /\ hw[d].cap = "nopin"
          /\ Succeeds
          /\ Goto(d, "err_msix")
          /\ UNCHANGED held
    /\ UNCHANGED <<modVars, probes, hw, poll_mode, devVars, listVars, cdevVars>>

\* What irq_setup() requests when nothing fails and irq_teardown() frees.
IrqSet(d) ==
    IF msi[d] = "msix" THEN {"irq"} \X (0..(ChannelIrqs(d) + UserIrqs - 1))
                       ELSE {One("line")}

\* debug_check_dev_hndl() and xdev_find_by_pdev(): the first listed device with
\* this pdev is this one.
HandleFound(d) == \E i \in 1..Len(xdev_list) : xdev_list[i] = d

\* xdma_device_open() returns; probe_one() enables the user interrupts and
\* looks the device up.  If that failed, the device would stay open for ever:
\* xpdev->xdev is still NULL for xpdev_free().
Online(d) ==
    /\ In(d, "online")
    /\ Goto(d, IF HandleFound(d) THEN "create" ELSE "free_xpdev")
    /\ UNCHANGED <<modVars, boundVars, held, cut, devVars, listVars, cdevVars>>
-----------------------------------------------------------------------------
(* Character devices                                                       *)

All(kind, n) == [i \in 1..n |-> <<kind, i - 1>>]

\* What xpdev_create_interfaces() creates, in its order.
CdevSeq(d) ==
    <<<<"ctrl", 0>>>> \o All("event", UserIrqs)
    \o All("h2c", h2c_max[d]) \o All("c2h", c2h_max[d])
    \o (IF role[d].bypass > 0
        THEN All("bp_h2c", h2c_max[d]) \o All("bp_c2h", c2h_max[d])
             \o <<<<"bypass", 0>>>>
        ELSE <<>>)
    \o (IF role[d].user >= 0 THEN <<<<"user", 0>>, <<"xvc", 0>>>> ELSE <<>>)

\* The flag that stands for a character device.
Group(c) ==
    CASE c[1] \in {"h2c", "c2h"} -> "SG"
      [] c[1] \in {"bp_h2c", "bp_c2h", "bypass"} -> "BYPASS"
      [] OTHER -> c[1]

\* A group's flag is set when its last member has been created.
FlagsAfter(d, k) ==
    LET s == CdevSeq(d) IN
    {Group(s[i]) : i \in 1..k} \ {Group(s[i]) : i \in (k + 1)..Len(s)}

\* alloc_chrdev_region(): a major number nobody has.
AllocRegion(d) ==
    \E m \in Majors :
        /\ region[m] = NoDevice
        /\ region' = [region EXCEPT ![m] = d]
        /\ major' = [major EXCEPT ![d] = m]

\* create_xcdev(): the first one allocates the major number.
CreateCdev(d) ==
    LET k == pc[d].i + 1
        c == CdevSeq(d)[k]
    IN
    /\ In(d, "create")
    /\ k <= Len(CdevSeq(d))
    /\ flags' = [flags EXCEPT ![d] = FlagsAfter(d, k)]
    /\ \/ /\ major[d] = 0
          /\ AllocRegion(d)
          /\ AcquireAll(d, {<<"cdev", c>>, One("region")})
       \/ /\ major[d] # 0
          /\ Acquire(d, <<"cdev", c>>)
          /\ UNCHANGED <<region, major>>
    /\ Loop(d)
    /\ Succeeds
    /\ UNCHANGED <<modVars, probes, hw, poll_mode, devVars, listVars>>

\* unregister_chrdev_region() (external) removes the range that starts at this
\* minor number, whoever owns it; all the driver's ranges start at 0.
Unregister(m) == region' = IF m # 0 THEN [region EXCEPT ![m] = NoDevice] ELSE region

\* create_xcdev() fails because the major number cannot be allocated, or after
\* that because the name cannot be set or the device not be added, which may
\* also unregister "the region" from the cdev's own minor number on.  That is 0
\* for the user device, which is never the first, and removes the whole region.
CreateCdevFails(d) ==
    LET k == pc[d].i + 1
        c == CdevSeq(d)[k]
    IN
    /\ In(d, "create")
    /\ k <= Len(CdevSeq(d))
    /\ Charge
    /\ \/ /\ Note(d, {<<"cdev", k>>})
          /\ UNCHANGED <<held, region, major>>
       \/ /\ major[d] = 0
          /\ Note(d, {<<"cdev", k>>})
          /\ AllocRegion(d)
          /\ Acquire(d, One("region"))
       \/ /\ major[d] # 0 /\ c[1] = "user"
          /\ Note(d, {<<"cdev", k>>, One("user_region")})
          /\ Unregister(major[d])
          /\ Release(d, {One("region")})
          /\ UNCHANGED major
    /\ Goto(d, "fail")
    /\ UNCHANGED <<modVars, probes, hw, poll_mode, devVars, listVars, flags>>

\* The interfaces are complete: the driver data and the input device.  A probe
\* that gets no input device ends in a fault; if only its registration fails,
\* that is logged.
ProbeEnd(d) ==
    /\ In(d, "create")
    /\ pc[d].i = Len(CdevSeq(d))
    /\ \/ /\ Succeeds \/ Fails(d, One("unregistered"))
          /\ Acquire(d, One("input"))
          /\ Goto(d, "bound")
       \/ /\ Fails(d, One("input"))
          /\ Goto(d, "oops")
          /\ UNCHANGED held
    /\ UNCHANGED <<modVars, probes, hw, poll_mode, devVars, listVars, cdevVars>>

\* xpdev_destroy_interfaces(): the groups whose flag is set, then the major
\* number.  Neither the flags nor the number are cleared.
DestroyInterfaces(d) ==
    LET s == CdevSeq(d)
        flagged == {i \in 1..Len(s) : Group(s[i]) \in flags[d]}
    IN
    /\ Release(d, {<<"cdev", s[i]>> : i \in flagged}
                  \cup (IF major[d] = 0 THEN {} ELSE {One("region")}))
    /\ Unregister(major[d])

\* The failed xpdev_create_interfaces() removes what it made ...
CreateUnwind(d) ==
    /\ In(d, "fail")
    /\ DestroyInterfaces(d)
    /\ Goto(d, "free_interfaces")
    /\ UNCHANGED <<modVars, boundVars, cut, devVars, listVars, major, flags>>

\* ... and xpdev_free() removes it, again in that case, before it closes.
FreeInterfaces(d) ==
    /\ In(d, "free_interfaces")
    /\ DestroyInterfaces(d)
    /\ Goto(d, "close")
    /\ UNCHANGED <<modVars, boundVars, cut, devVars, listVars, major, flags>>
-----------------------------------------------------------------------------
(* xdma_device_close(), and the labels of xdma_device_open()'s unwinding,  *)
(* which are the rest of it                                                *)

\* Mutant: the engines are removed before their interrupts.
IrqTeardownLate(d) ==
    /\ In(d, "close")
    /\ Release(d, UNION {EngineDestroy(d, e) : e \in Engines})
    /\ Goto(d, "err_msix")
    /\ UNCHANGED <<modVars, boundVars, cut, devVars, listVars, cdevVars>>

\* irq_teardown() frees all interrupts; free_irq() of one that is not held only
\* warns.
HeldIrqs(d) == {r \in IrqSet(d) : held[d][r] > 0}

\* The close goes on only with a handle of the list: the interrupts.
IrqTeardown(d) ==
    /\ In(d, "close")
    /\ \/ /\ HandleFound(d)
          /\ Release(d, HeldIrqs(d))
          /\ Goto(d, "err_msix")
       \/ /\ ~HandleFound(d)
          /\ Goto(d, "free_xpdev")
          /\ UNCHANGED held
    /\ UNCHANGED <<modVars, boundVars, cut, devVars, listVars, cdevVars>>

\* disable_msi_msix().
DisableMsi(d) ==
    /\ In(d, "err_msix")
    /\ Release(d, IF msi[d] = "none" THEN {} ELSE {One("vectors")})
    /\ msi' = [msi EXCEPT ![d] = "none"]
    /\ Goto(d, "err_engines")
    /\ UNCHANGED <<modVars, boundVars, cut, h2c_max, c2h_max, role, in_use,
                   listVars, cdevVars>>

\* The engines below the channel counts, in the order of remove_engines().
EngineSeq(d) == [i \in 1..h2c_max[d] |-> <<"h2c", i - 1>>]
                \o [i \in 1..c2h_max[d] |-> <<"c2h", i - 1>>]

\* remove_engines(): one engine after the other.
RemoveEngines(d) ==
    LET s == EngineSeq(d)
        k == pc[d].i + 1
    IN
    /\ In(d, "err_engines")
    /\ \/ /\ k <= Len(s)
          /\ Release(d, EngineDestroy(d, s[k]))
          /\ Loop(d)
       \/ /\ k > Len(s)
          /\ Goto(d, "err_mask")
          /\ UNCHANGED held
    /\ UNCHANGED <<modVars, boundVars, cut, devVars, listVars, cdevVars>>

\* unmap_bars().
UnmapBars(d) ==
    /\ In(d, "err_mask")
    /\ Release(d, BarsHeld(d))
    /\ Goto(d, "err_map")
    /\ UNCHANGED <<modVars, boundVars, cut, devVars, listVars, cdevVars>>

\* pci_release_regions(): got_regions is set whenever this label is reached.
ReleaseRegions(d) ==
    /\ In(d, "err_map")
    /\ Release(d, {One("regions")})
    /\ Goto(d, "err_regions")
    /\ UNCHANGED <<modVars, boundVars, cut, devVars, listVars, cdevVars>>

\* Mutant: the device is disabled whoever owns the regions.
DisableDeviceAlways(d) ==
    /\ In(d, "err_regions")
    /\ Release(d, {One("enabled")})
    /\ Goto(d, "err_enable")
    /\ UNCHANGED <<modVars, boundVars, cut, devVars, listVars, cdevVars>>

\* pci_disable_device(), not on a device that another driver uses.
DisableDevice(d) ==
    /\ In(d, "err_regions")
    /\ Release(d, IF in_use[d] THEN {} ELSE {One("enabled")})
    /\ Goto(d, "err_enable")
    /\ UNCHANGED <<modVars, boundVars, cut, devVars, listVars, cdevVars>>

\* xdev_list_remove(): the last device takes the threads with it.
ListRemove(d) ==
    /\ In(d, "err_enable")
    /\ \E i \in 1..Len(xdev_list) :
          /\ xdev_list[i] = d
          /\ xdev_list' = RemoveAt(xdev_list, i)
    /\ threads' = (threads /\ xdev_list' # <<>>)
    /\ Release(d, {One("listed")})
    /\ Goto(d, "free_xdev")
    /\ UNCHANGED <<modVars, boundVars, cut, devVars, idx, cdevVars>>

FreeXdev(d) ==
    /\ In(d, "free_xdev")
    /\ Release(d, {One("xdev")})
    /\ Goto(d, "free_xpdev")
    /\ UNCHANGED <<modVars, boundVars, cut, devVars, listVars, cdevVars>>

\* The end of xpdev_free(), and of the probe or the removal.
FreeXpdev(d) ==
    /\ In(d, "free_xpdev")
    /\ Release(d, {One("xpdev")})
    /\ Goto(d, "absent")
    /\ UNCHANGED <<modVars, boundVars, cut, devVars, listVars, cdevVars>>

\* remove_one(): unregistering the input device drops its last reference, and
\* input_free_device() drops one more.  What becomes of unregistering a device
\* that never was registered is the kernel's affair.
RemoveOne(d) ==
    LET frozen == IF In(d, "frozen") THEN {One("frozen")} ELSE {} IN
    /\ pc[d].at \in {"bound", "frozen"}
    /\ \/ /\ held' = [held EXCEPT ![d][One("input")] = @ - 2]
          /\ Note(d, {One("removed")} \cup frozen)
          /\ Goto(d, "free_interfaces")
       \/ /\ One("unregistered") \in cut[d]
          /\ Note(d, frozen)
          /\ Goto(d, "oops")
          /\ UNCHANGED held
    /\ UNCHANGED <<modVars, boundVars, devVars, listVars, cdevVars>>
-----------------------------------------------------------------------------
(* Offline and online: a frozen channel, a reset of the function, and the  *)
(* ioctls of the control device.                                           *)

\* xdma_device_offline() frees the interrupts, whether or not they are held;
\* `also` is released with them.
DeviceOffline(d, also) ==
    /\ Release(d, HeldIrqs(d) \cup also)
    /\ Note(d, {One("offline")})

\* irq_setup() in xdma_device_online(), which ignores what becomes of it: the
\* vectors in order, up to one that cannot be had, as one that is still held.
\* The channels' vectors before that one stay, the users' are freed again.
MsixAgain(d, also) ==
    LET all == ChannelIrqs(d) + UserIrqs IN
    \E n \in 0..all :
        /\ \A v \in 0..(n - 1) : held[d][<<"irq", v>>] = 0
        /\ AcquireAll(d, also \cup
                ({"irq"} \X {v \in 0..(n - 1) : v < ChannelIrqs(d) \/ n = all}))
        /\ UNCHANGED cut

\* A line that is held cannot be requested again, unless it is the legacy one,
\* which is shared.
LineAgain(d, also) ==
    LET busy == held[d][One("line")] > 0 IN
    \/ /\ ~busy \/ msi[d] = "none"
       /\ AcquireAll(d, also \cup {One("line")})
       /\ Note(d, IF busy THEN {One("line_twice")} ELSE {})
    \/ AcquireAll(d, also) /\ UNCHANGED cut

\* xdma_device_online(): in polled mode no interrupt is requested again.
DeviceOnline(d, also) ==
    \/ poll_mode /\ AcquireAll(d, also) /\ UNCHANGED cut
    \/ ~poll_mode /\ msi[d] = "msix" /\ MsixAgain(d, also)
    \/ ~poll_mode /\ msi[d] # "msix" /\ LineAgain(d, also)

\* xdma_error_detected(): the PCI core reports a frozen channel, once until it
\* has reset the slot.
ErrorDetected(d) ==
    /\ In(d, "bound")
    /\ Charge
    /\ DeviceOffline(d, {One("enabled")})
    /\ Goto(d, "frozen")
    /\ UNCHANGED <<modVars, probes, hw, poll_mode, devVars, listVars, cdevVars>>

\* xdma_slot_reset(): if the device cannot be enabled it stays as it is.
SlotReset(d) ==
    /\ In(d, "frozen")
    /\ DeviceOnline(d, {One("enabled")})
    /\ Goto(d, "bound")
    /\ UNCHANGED <<modVars, boundVars, devVars, listVars, cdevVars>>

\* xdma_reset_prepare(), with the device locked by the PCI core ...
ResetPrepare(d) ==
    /\ In(d, "bound")
    /\ Charge
    /\ DeviceOffline(d, {})
    /\ Goto(d, "reset")
    /\ UNCHANGED <<modVars, probes, hw, poll_mode, devVars, listVars, cdevVars>>

\* ... until xdma_reset_done().
ResetDone(d) ==
    /\ In(d, "reset")
    /\ DeviceOnline(d, {})
    /\ Goto(d, "bound")
    /\ UNCHANGED <<modVars, boundVars, devVars, listVars, cdevVars>>

\* char_ctrl_ioctl(), XDMA_IOCOFFLINE and XDMA_IOCONLINE: whatever the device is
\* doing, as long as it has its control node.
CtrlIoctl(d) ==
    /\ held[d][<<"cdev", <<"ctrl", 0>>>>] > 0
    /\ Charge
    /\ DeviceOffline(d, {}) \/ DeviceOnline(d, {})
    /\ UNCHANGED <<modVars, probes, hw, poll_mode, pc, devVars, listVars, cdevVars>>
-----------------------------------------------------------------------------
Probe(d) ==
    \/ ProbeAlloc(d) \/ ListAdd(d) \/ EnableDevice(d) \/ RequestRegions(d)
    \/ MapBar(d) \/ MapBarsEnd(d) \/ SetDmaMask(d)
    \/ \E dir \in {"h2c", "c2h"} : ProbeEngine(d, dir)
    \/ EnableMsi(d) \/ MsixIrq(d) \/ MsixIrqEnd(d) \/ LineIrq(d) \/ Online(d)
    \/ CreateCdev(d) \/ CreateCdevFails(d) \/ ProbeEnd(d)

Close(d) ==
    \/ CreateUnwind(d) \/ FreeInterfaces(d) \/ IrqTeardown(d) \/ DisableMsi(d)
    \/ RemoveEngines(d) \/ UnmapBars(d) \/ ReleaseRegions(d) \/ DisableDevice(d)
    \/ ListRemove(d) \/ FreeXdev(d) \/ FreeXpdev(d)

Pci(d) ==
    \/ RemoveOne(d)
    \/ ErrorDetected(d) \/ SlotReset(d)
    \/ ResetPrepare(d) \/ ResetDone(d)

Next ==
    \/ ModInit \/ ModExit \/ ModCleanup
    \/ \E d \in Devices : Probe(d) \/ Close(d) \/ Pci(d) \/ CtrlIoctl(d)

Spec == Init /\ [][Next]_vars
-----------------------------------------------------------------------------
(* Properties                                                              *)

Labels ==
    {"absent", "list_add", "enable", "regions", "map", "mask", "h2c", "c2h",
     "msi", "irq", "online", "create", "bound", "frozen", "reset", "oops", "fail",
     "free_interfaces", "close", "err_msix", "err_engines", "err_mask",
     "err_map", "err_regions", "err_enable", "free_xdev", "free_xpdev"}

CutKinds ==
    {"threads", "enable", "regions", "map", "mask", "engine", "msi", "irq", "line",
     "cdev", "user_region", "input", "unregistered", "removed", "frozen", "offline",
     "line_twice"}

TypeOK ==
    /\ module \in {"out", "in", "exiting"} /\ class \in BOOLEAN
    /\ fails \in 0..MaxFails
    /\ probes \in 0..MaxProbes /\ poll_mode \in BOOLEAN
    /\ \A d \in Devices : hw[d] \in Layouts[d]
    /\ pc \in [Devices -> [at : Labels, i : Nat]]
    /\ held \in [Devices -> [Resources -> Int]]
    /\ cut \in [Devices -> SUBSET (CutKinds \X Nat)]
    /\ h2c_max \in [Devices -> 0..Channels] /\ c2h_max \in [Devices -> 0..Channels]
    /\ msi \in [Devices -> {"msix", "msi", "none"}]
    /\ role \in [Devices -> [config : -1..5, user : -1..5, bypass : -1..5]]
    /\ in_use \in [Devices -> BOOLEAN]
    /\ xdev_list \in Seq(Devices) /\ idx \in [Devices -> Nat]
    /\ threads \in BOOLEAN
    /\ region \in [Majors -> Devices \cup {NoDevice}]
    /\ major \in [Devices -> Majors \cup {0}]
    /\ flags \in [Devices -> SUBSET {"ctrl", "event", "SG", "BYPASS", "user", "xvc"}]

\* The failed steps of a kind, if there are any.
CutAt(d, kind) == {c[2] : c \in {x \in cut[d] : x[1] = kind}}

Irqs == ({"irq"} \X Vectors) \cup {One("line")}

Num(b) == IF b THEN 1 ELSE 0

\* The channels' interrupts when a later vector could not be had.
IrqsLeft(d) ==
    {r \in {"irq"} \X (0..(ChannelIrqs(d) - 1)) : \E k \in CutAt(d, "irq") : r[2] < k}

\* What is left of resource r when device d is gone: those interrupts; the enable
\* count of a device whose regions are taken, or one too few after a reset that
\* did not come; a character device of an unfinished group, and one release too
\* many for the finished groups, if a later one could not be created, and then
\* one or two too many for the region of device numbers, if there was one; one
\* release too many of the input device.
Leftover(d, r) ==
    LET made == {CdevSeq(d)[i] : i \in UNION {1..(k - 1) : k \in CutAt(d, "cdev")}}
    IN
    CASE r = One("enabled") -> Num(in_use[d]) - Num(One("frozen") \in cut[d])
      [] r = One("input") -> IF One("removed") \in cut[d] THEN -1 ELSE 0
      [] r = One("region") -> IF CutAt(d, "cdev") = {} \/ major[d] = 0 THEN 0
                              ELSE -1 - Num(One("user_region") \in cut[d])
      [] r \in Irqs -> Num(r \in IrqsLeft(d))
      [] r[1] = "cdev" -> IF r[2] \notin made THEN 0
                          ELSE IF Group(r[2]) \in flags[d] THEN -1 ELSE 1
      [] OTHER -> 0

\* A device that is gone, after a removal or after a probe that failed at any
\* step, whatever happened in between, has given back what it acquired exactly
\* once, but for the leftovers above and a legacy line that was requested while
\* it was held, of which any number of requests may be left; and xdma_device_close()
\* frees interrupts that are held, unless the device has been offline.
UnwindExact ==
    \A d \in Devices :
        /\ In(d, "absent") =>
            \A r \in Resources :
                \/ held[d][r] = Leftover(d, r)
                \/ r = One("line") /\ One("line_twice") \in cut[d] /\ held[d][r] \in Nat
        /\ In(d, "close") => HeldIrqs(d) = IrqSet(d) \/ One("offline") \in cut[d]

\* While an engine's interrupt is requested, or a thread polls for it, or its
\* hardware may interrupt or write back, the engine's memory, the register BAR
\* and the device structure that handler, thread or hardware use are there, and
\* so are all the engines behind a shared line; unless irq_setup() failed
\* half-way or the line was requested twice.
HandlersHaveEngine ==
    \A d \in Devices :
        LET engine(v) == IF v < h2c_max[d] THEN <<"h2c", v>>
                                           ELSE <<"c2h", v - h2c_max[d]>>
            ready(e) == /\ \A r \in EngineMemory(d, e) : held[d][r] = 1
                        /\ held[d][One("xdev")] = 1
                        /\ held[d][<<"bar", role[d].config>>] = 1
        IN
        CutAt(d, "irq") = {} /\ One("line_twice") \notin cut[d] =>
            /\ \A e \in Engines :
                held[d][<<"work", e>>] + held[d][<<"armed", e>>] > 0 => ready(e)
            /\ \A v \in 0..(ChannelIrqs(d) - 1) :
                held[d][<<"irq", v>>] > 0 => ready(engine(v))
            /\ held[d][One("line")] > 0 =>
                \A e \in Engines : e[2] < ChannelMax(d, e[1]) => ready(e)

\* The rule of identify_bars(): user first, bypass last, both optional.
Regular(bars) ==
    [i \in 1..Len(bars) |-> bars[i].kind] \in
        {<<"config">>, <<"user", "config">>, <<"config", "bypass">>,
         <<"user", "config", "bypass">>}

\* As long as no creation of a character device has failed anywhere, a node that
\* can be opened has its device open behind it, its major number and its index
\* (the number in its name) belong to that device alone, and behind the roles
\* lie the BARs of those kinds, if the hardware follows the rule.
NodesHaveDevice ==
    (\A d \in Devices : CutAt(d, "cdev") = {}) =>
        \A d \in Devices :
            (\E c \in Cdevs : held[d][<<"cdev", c>>] > 0) =>
                LET bar(kind) == {b \in 1..Len(Bars(d)) : Bars(d)[b].kind = kind}
                    at(kind) == IF bar(kind) = {} THEN -1
                                ELSE Bars(d)[CHOOSE b \in bar(kind) : TRUE].bar
                IN /\ held[d][One("xdev")] = 1 /\ held[d][One("xpdev")] = 1
                   /\ HandleFound(d)
                   /\ region[major[d]] = d
                   /\ \A o \in Devices \ {d} : HandleFound(o) => idx[o] # idx[d]
                   /\ Regular(Bars(d)) =>
                        role[d] = [config |-> at("config"), user |-> at("user"),
                                   bypass |-> at("bypass")]
-----------------------------------------------------------------------------
(* The inductive invariant from which XdmaDeviceProofs derives the         *)
(* properties above: which resources are held at which label.              *)

\* Labels at which the interrupts have been requested, all engines that were
\* found are initialised, the BARs are mapped, and the device is listed.
Complete   == {"online", "create", "bound", "oops", "fail", "free_interfaces", "close"}
Active     == {"frozen", "reset"} \cup Complete
HasEngines == {"msi", "irq", "err_msix"} \cup Active
HasBars    == {"mask", "h2c", "c2h", "err_engines", "err_mask"} \cup HasEngines
IsListed   == {"enable", "regions", "map", "err_map", "err_regions", "err_enable"}
              \cup HasBars

\* A device is listed from xdev_list_add() to xdev_list_remove(), by increasing
\* index; its structures are there from before to after that.
ListInv ==
    /\ \A i, j \in 1..Len(xdev_list) :
            i < j => idx[xdev_list[i]] < idx[xdev_list[j]]
    /\ \A d \in Devices :
            /\ HandleFound(d) <=> pc[d].at \in IsListed
            /\ pc[d].at \in IsListed \cup {"list_add", "free_xdev"} =>
                    held[d][One("xdev")] = 1 /\ held[d][One("xpdev")] = 1

\* The engines that are initialised: in the middle of probe_engines() and of
\* remove_engines() some of them.
LiveEngines(d) ==
    LET at == pc[d].at
        i == pc[d].i
        place(e) == IF e[1] = "h2c" THEN e[2] + 1 ELSE h2c_max[d] + e[2] + 1
    IN {e \in Engines :
            \/ at = "h2c" /\ e[1] = "h2c" /\ e[2] < i
            \/ at = "c2h" /\ e[1] = "h2c" /\ e[2] < h2c_max[d]
            \/ at = "c2h" /\ e[1] = "c2h" /\ e[2] < i
            \/ at \in HasEngines /\ e[2] < ChannelMax(d, e[1])
            \/ at = "err_engines" /\ e[2] < ChannelMax(d, e[1]) /\ i < place(e)}

EngineResources(e) == {"ring", "wb", "result", "work", "armed"} \X {e}

\* An initialised engine has all that engine_init() acquires, any other nothing.
EngineInv(d) ==
    /\ \A dir \in {"h2c", "c2h"} : In(d, dir) => pc[d].i <= ChannelMax(d, dir)
    /\ \A e \in Engines : \A r \in EngineResources(e) :
            held[d][r] = IF e \in LiveEngines(d) /\ r \in EngineInit(d, e) THEN 1 ELSE 0

\* The number of BARs that are mapped.
MappedBars(d) ==
    IF pc[d].at \in HasBars THEN Len(Bars(d)) ELSE IF In(d, "map") THEN pc[d].i ELSE 0

ConfigAt(d, n) == {k \in 1..n : Bars(d)[k].kind = "config"}

\* Each mapped BAR is held once; the register BAR is the first of its kind.
BarInv(d) ==
    /\ MappedBars(d) <= Len(Bars(d))
    /\ \A b \in 0..5 :
            held[d][<<"bar", b>>] =
                IF \E k \in 1..MappedBars(d) : Bars(d)[k].bar = b THEN 1 ELSE 0
    /\ pc[d].at \in {"list_add", "enable", "regions"} => role[d].config = -1
    /\ pc[d].at \in HasBars \cup {"map"} =>
            IF ConfigAt(d, MappedBars(d)) = {} THEN role[d].config = -1
            ELSE \E k \in ConfigAt(d, MappedBars(d)) :
                    /\ role[d].config = Bars(d)[k].bar
                    /\ \A j \in ConfigAt(d, MappedBars(d)) : k <= j
    /\ pc[d].at \in HasBars =>
            /\ role[d].config # -1
            /\ Regular(Bars(d)) =>
                /\ role[d].user = IF Bars(d)[1].kind = "user" THEN Bars(d)[1].bar ELSE -1
                /\ role[d].bypass = IF Bars(d)[Len(Bars(d))].kind = "bypass"
                                    THEN Bars(d)[Len(Bars(d))].bar ELSE -1

Unwinding == {"err_msix", "err_engines", "err_mask", "err_map", "err_regions",
              "err_enable", "free_xdev", "free_xpdev", "absent"}

\* Between irq_setup() and irq_teardown() of xdma_device_open() and
\* xdma_device_close() the device's own interrupts are held once, unless it has
\* been offline or the line has been requested again, and no others; before,
\* those requested so far; afterwards, those that are left.
IrqInv(d) ==
    /\ CutAt(d, "irq") # {} => pc[d].at \in Unwinding /\ hw[d].cap = "msix"
    /\ One("line_twice") \in cut[d] => pc[d].at \in Active \cup Unwinding
    /\ In(d, "irq") => pc[d].i <= ChannelIrqs(d) + UserIrqs
    /\ \A r \in Irqs :
        LET twice == r = One("line") /\ One("line_twice") \in cut[d]
            n == held[d][r]
        IN
        /\ n \in Nat
        /\ pc[d].at \in Active =>
                /\ r \notin IrqSet(d) => n = 0
                /\ r \in IrqSet(d) => n <= 1 \/ twice
                /\ r \in IrqSet(d) => n >= 1 \/ One("offline") \in cut[d]
        /\ pc[d].at \notin Active =>
                \/ n = Num(\/ r \in IrqsLeft(d)
                           \/ /\ In(d, "irq") /\ msi[d] = "msix"
                              /\ r \in {"irq"} \X (0..(pc[d].i - 1)))
                \/ twice

\* The number of character devices that create_xcdev() made, of which those of
\* finished groups may be gone by now.
Made(d) ==
    IF CutAt(d, "cdev") # {} THEN (CHOOSE k \in CutAt(d, "cdev") : TRUE) - 1
    ELSE IF In(d, "create") THEN pc[d].i
    ELSE IF pc[d].at \in {"bound", "frozen", "reset", "oops", "free_interfaces"}
         THEN Len(CdevSeq(d))
    ELSE 0

\* How often a character device that was made has been removed: once when all is
\* well, twice after a failure, if its group was finished.
Removed(d, c) ==
    IF CutAt(d, "cdev") = {} \/ In(d, "fail") \/ Group(c) \notin flags[d] THEN 0
    ELSE IF In(d, "free_interfaces") THEN 1 ELSE 2

Opening == {"list_add", "enable", "regions", "map", "mask", "h2c", "c2h", "msi", "irq",
            "online"}
Public  == {"create", "bound", "frozen", "reset", "oops", "free_interfaces"}

\* The region of device numbers is there from the first character device until
\* xpdev_destroy_interfaces(), which a failed creation calls twice.
RegionInv(d) ==
    LET n == held[d][One("region")] IN
    /\ One("user_region") \in cut[d] => CutAt(d, "cdev") # {} /\ major[d] # 0
    /\ IF pc[d].at \in Opening \cup (Public \ {"free_interfaces"}) \cup {"fail"}
       THEN n = Num(major[d] # 0) - Num(One("user_region") \in cut[d])
       ELSE IF In(d, "free_interfaces")
       THEN n = Leftover(d, One("region")) + Num(major[d] # 0)
       ELSE n = Leftover(d, One("region"))

CdevInv(d) ==
    /\ CutAt(d, "cdev") # {} =>
            /\ \E k \in 1..Len(CdevSeq(d)) : CutAt(d, "cdev") = {k}
            /\ pc[d].at \notin Opening \cup (Public \ {"free_interfaces"})
    /\ In(d, "fail") => CutAt(d, "cdev") # {}
    /\ Made(d) <= Len(CdevSeq(d))
    /\ \A c \in Cdevs :
            held[d][<<"cdev", c>>] =
                IF \E k \in 1..Made(d) : CdevSeq(d)[k] = c THEN 1 - Removed(d, c) ELSE 0
    /\ pc[d].at \in Opening \cup Public \/ CutAt(d, "cdev") # {} =>
            flags[d] = FlagsAfter(d, Made(d))
    /\ Made(d) > 0 => major[d] # 0
    /\ pc[d].at \in Opening \cup {"create"} => (major[d] = 0 <=> Made(d) = 0)
    /\ RegionInv(d)

\* A failure after the major number was allocated: the next removal is one too
\* many.
Torn(d) == CutAt(d, "cdev") # {} /\ major[d] # 0

\* Until then a major number belongs to the device that got it.
MajorInv ==
    (\A d \in Devices : ~Torn(d)) =>
        \A d \in Devices :
            pc[d].at \in Public /\ major[d] # 0 => region[major[d]] = d

\* Labels at which the vectors are enabled, and at which the PCI device is.
HasVectors == HasEngines \ {"msi"}
IsEnabled  == {"regions", "map", "err_map", "err_regions"} \cup HasBars

\* Labels of a device that has been removed.
Gone == {"free_interfaces", "close"} \cup Unwinding

\* Of the resources there is one of, which are held where; a removed device
\* keeps the note of it.
SingleInv(d) ==
    LET at == pc[d].at
        has(r, b) == held[d][One(r)] = Num(b)
    IN
    /\ has("xpdev", at # "absent")
    /\ has("xdev", at \in IsListed \cup {"list_add", "free_xdev"})
    /\ has("listed", at \in IsListed)
    /\ has("regions", at \in HasBars \cup {"map", "err_map"})
    /\ has("vectors", at \in HasVectors /\ msi[d] # "none")
    /\ at \in HasVectors =>
            msi[d] = IF hw[d].cap \in {"msix", "msi"} THEN hw[d].cap ELSE "none"
    /\ held[d][One("enabled")] =
            IF at \notin IsEnabled THEN Leftover(d, One("enabled"))
            ELSE IF at = "frozen" \/ One("frozen") \in cut[d] THEN 0 ELSE 1
    /\ One("frozen") \in cut[d] => at \in Gone \cup {"oops"}
    /\ in_use[d] => at \in {"err_regions", "err_enable", "free_xdev", "free_xpdev",
                            "absent"}
    /\ held[d][One("input")] =
            IF \/ at \in {"bound", "frozen", "reset"}
               \/ at = "oops" /\ One("unregistered") \in cut[d]
            THEN 1 ELSE Leftover(d, One("input"))
    /\ One("removed") \in cut[d] => at \in Gone
    /\ One("unregistered") \in cut[d] =>
            at \in {"bound", "frozen", "reset", "oops"} \cup Gone

\* What is held is what the place of each device and the failures noted say, at
\* every label of xdma_device_open(), xdma_device_close() and
\* xpdev_create_interfaces(), and whatever the other devices do.
DeviceInv ==
    /\ TypeOK /\ ListInv /\ MajorInv
    /\ \A d \in Devices :
        EngineInv(d) /\ BarInv(d) /\ IrqInv(d) /\ CdevInv(d) /\ SingleInv(d)
=============================================================================
