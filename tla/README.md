# CIG4-8H: TLA+ models of the XDMA driver and the card's tools

The repository holds a Linux driver for a PCIe card with Xilinx's XDMA core
(`src/xdma`), programs that push camera frames through it into the card and
talk to the card's ARM (`src/tools`), and scripts that configure the card
(`src/bash`). This directory models the parts in which several actors meet:
threads that submit DMA, the interrupt and its work item, completion threads,
the hardware, the PCI core that probes, resets and removes devices, processes
with open files, and the tools with the firmware behind their registers.

Line numbers without a file are lines of `src/xdma/libxdma.c`.

## Inventory

| Part | State | Operations | What makes it correct |
|---|---|---|---|
| DMA engine, synchronous path (`libxdma.c`) | `struct xdma_engine`: transfer list, `running`, `shutdown`, descriptor ring with `desc_idx` and `desc_used`, `desc_dequeued`; per request `sw_desc_idx`, `tfer[0]` | `xdma_xfer_submit`, `transfer_init`, `transfer_queue`, `engine_start`, `xdma_engine_stop`, `engine_service`, `transfer_abort`, `transfer_destroy` | reported data was moved; each transfer is settled once; the list names no freed transfer; the hardware never follows a cleared or foreign descriptor; calls return |
| PCI error and reset callbacks (`xdma_mod.c`) | `XDEV_FLAG_OFFLINE`, shutdown flags, interrupt lines | `xdma_device_offline`, `xdma_device_online` | the same, across a reset |
| Asynchronous path (`libxdma.c`, `cdev_sgdma.c`) | `caio` with its counts, two transfers per request, several on the list | `cdev_aio_*`, `xdma_xfer_submit_nowait`, `xdma_xfer_completion`, `async_io_handler` | one completion per operation, of moved data; nothing freed while listed |
| Request building (`libxdma.c`, `cdev_sgdma.c`) | pages, scatterlist, software descriptors | `char_sgdma_map_user_buf_to_sgl`, `xdma_init_request`, `transfer_build`, `xdma_get_next_adj`, `ioctl_do_aperture_dma`, `xdma_xfer_aperture` | every byte once, in order, at its place |
| Polled completion (`xdma_thread.c`) | work list per thread, write-back word per engine | `xthread_main`, `engine_service_wb_monitor`, `engine_service_poll`, add and remove work | no queued transfer is forgotten, no freed engine polled |
| User events (`libxdma.c`, `cdev_events.c`) | `events_irq` per line, wait queue | `xdma_isr`, `user_irq_service`, `char_events_read`, `char_events_poll` | no event lost, no sleeper left |
| Device open and close (`libxdma.c`, `xdma_mod.c`, `xdma_cdev.c`) | BARs, engines, rings, interrupt vectors, device list, nodes, input device | `probe_one`, `xdma_device_open`, `irq_setup`, `xpdev_create_interfaces`, and their reverse | what is acquired is released exactly once, but for named leftovers; no handler without its engine |
| Character device of an engine (`cdev_sgdma.c`) | `device_open`, `non_incr_addr`, `xdma_perf` | open, close, read, write, ioctl | exclusive streaming open; a performance run is whole or absent |
| XVC device (`cdev_xvc.c`) | the bridge's LENGTH register, the lock | `xvc_ioctl`, `xvc_shift_bits` | each word shifted once, in order, with its length |
| Video injector (`dma_to_device.c`) | `g_send_count`, three slots and one ready register per channel | `test_dma`, `wait_fpga_ready`, `set_fpga_wait` | no frame over one still to be shown, order, only announced frames shown |
| ARM tool (`tools/pcie_a53_rw`) | mailbox in block RAM, doorbell, result buffer | commands, files, margin test, SerDes tables | an answer belongs to its message; blocks and elements arrive in order; the link is left as it was |
| Image decoding, SerDes raw tables, sample tools, scripts | none between calls | | not modelled |

Interaction. A thread in `xdma_xfer_submit()` holds the mutex `desc_lock` for
the whole request and the spinlock `engine->lock` for short sections; the
asynchronous path takes only the spinlock. The interrupt handler masks the
channel and schedules a work item; the work item runs `engine_service()` under
`engine->lock` and unmasks the channel. In polled mode a completion thread does
so, for several engines. The hardware reads the ring that the thread writes, and
changes status, counter and write-back between any two accesses of the driver.
The PCI core calls offline, online and remove at any time. The ioctls of the
character devices take no lock of the driver. The injector uses the write path
and shares slots and registers with the card; the ARM tool shares a mailbox
with firmware that answers when it likes.

What is hard: a timeout racing the interrupt of the same transfer, an interrupt
of an aborted transfer served while its successor runs, status read before the
counter, several transfers on one ring, a device taken offline under a running
transfer, a probe that fails at its twentieth step, flags stored without a lock,
a late answer to a message that was given up.

## Modules

| Module | Models |
|---|---|
| `DmaService` | the promise of a DMA engine, without ring, list or interrupt |
| `XdmaEngine` | one engine in interrupt mode, synchronous; implements `DmaService` |
| `XdmaAsync` | the same engine under asynchronous I/O |
| `XdmaPoll` | completion threads and engines in polled mode |
| `XdmaRequest` | from a user's buffer to descriptors |
| `XdmaDevice` | module, devices, interrupts, nodes: acquisition and release |
| `XdmaSgdma` | the character device of one engine, several processes |
| `XvcDevice` | the virtual cable |
| `UserEvents` | user interrupts and the event device |
| `FrameInjector` | the injector and the card's slots |
| `ArmTool` | the tool, the mailbox and the firmware |
| `XdmaEngineProofs` | proofs about `XdmaEngine`, with the refinement of `DmaService` |
| `XdmaPollProofs`, `XdmaDeviceProofs`, `XdmaSgdmaProofs`, `XdmaAsyncProofs`, `FrameInjectorProofs`, `ArmToolProofs` | proofs about the module of that name |
| `CharDeviceProofs` | proofs about `UserEvents` and `XvcDevice` |
| `MC*` | constants that a `.cfg` cannot write, symmetry |

Operators commented `Mutant:` are plausible mistakes in the code next to the
definition they would replace; they show that each property can fail.

### DmaService and XdmaEngine

A *request* is one call of `xdma_xfer_submit()`; its length is a number of
descriptors. `pc[r]` is the place of the call. The steps are:

| Action | Code |
|---|---|
| `Submit`, `SubmitRefused` | checks, mapping, `xdma_init_request` (3464-3545) |
| `LockDesc` | `mutex_lock(&engine->desc_lock)` (3548) |
| `TransferInit` | `transfer_init` and `transfer_build` (2934-3049), cut at the ring's end |
| `TransferQueueCheck`, `TransferQueue` | `transfer_queue` (2463-2540): the offline flag before the lock, list and start under it |
| `Woken`, `Timeout` | the end of the wait (3589-3595) |
| `Settle` | the switch on the transfer's state (3597-3659) with `transfer_abort` and `xdma_engine_stop` |
| `Destroy`, `UnmapReturn` | `desc_used`, `transfer_destroy`, unlock, unmap, return (3661-3687) |
| `Isr` | `xdma_isr`, `xdma_channel_irq` |
| `ServiceStatus`, `ServiceCount` | `engine_service` (1099-1205) as two steps with `lock` held between, because the hardware moves on between the read of the status and the read of the counter |
| `Offline*`, `Online*` | `xdma_device_offline`, `xdma_device_online` (4554-4657) |
| `HwFetch`, `HwComplete`, `HwError`, `HwReset` | the hardware, external |

Every other critical section under `engine->lock` is one step. `Faults` says
which faults may happen: `"timeout"` (a wait ends by timer or signal),
`"error"`, `"late_busy"` (893: "older HW has a race condition"), `"offline"`,
`"dead"` (registers do not answer while the device is down).

The hardware is modelled from the registers the driver uses: starting sets the
fetch position and clears the counter, stopping ends fetching while the
descriptor in flight is still moved, a descriptor with the STOP bit raises the
interrupt, a cleared descriptor (no magic number) is an error. Assumption: a
descriptor left in flight by a stopped run is not counted in the next run.

Where registers are dead, `engine_status_read()` fails and `transfer_abort()` is
skipped (3638-3650): the transfer stays on the list while its memory is freed.
What the driver then does is undefined; the model stops there (`Abandoned`).

`DmaService` has calls with a phase, pieces that are moved, and an account:
requests are served one at a time, and the count a caller is told (`told`) is a
gapless beginning of what was moved, shorter than the request only if an error
was met. The error itself is returned only if nothing was accounted:
`xdma_xfer_submit()` ends with `done ? done : rv` (3687, `ReturnValue`), so a
request that fails after a first completed transfer returns a short count and no
error. `XdmaEngine` keeps what the call returns in `ret`, next to its local `rv`.
The refinement mapping (`Dma` in `XdmaEngine`) reads the phase from `pc`, the turn
from `desc_lock`, `told` from `ret`, the rest from variables of the same meaning.
That hardware may still move a piece of a request that was given up is part of
the promise: it is what callers really get.

### XdmaAsync

An iocb has segments, a segment one request with up to two transfers
(`tfer[2]`). `AioStart` to `AioQueued` is `cdev_aio_read()` or `cdev_aio_write()` with
its early returns; `TransferInit` and `TransferQueue` take `engine->lock`
separately, so another call's transfers come in between; `ServiceStatus` and
`ServiceCount` go over a list of several transfers and run the callback of each
request that ends. There is no timer and no abort. `overrun` notes that
`transfer_init()` overwrote a descriptor still counted in `desc_used` (of a
transfer that is listed, or whose request has not ended: its entries are cleared
only then), `stalled` that the service left the engine stopped with work on its
list. Where freed memory is listed (`Dangling`) or a segment needs a third transfer
(`Overflown`) the model stops; the second does not happen in the instance of the
run, whose segments have at most two descriptors, and is there for the theorems.

### XdmaRequest

One request, from every buffer offset and length, on every place of the ring:
pages (`MapUserBuf`), counting and writing software descriptors (`RequestCount`,
`RequestFill`; `SetBlenMax` writes the module parameter in between), transfers
(`TransferInit`), or the aperture ioctl (`ApertureIoctl`, `ApertureBegin`) and the
loop and result of `xdma_xfer_aperture()`. `Moved`, what hardware
does with the chains, is compared with `Meant`, the definition of a request.
Numbers are unsigned 32 bits wide in the code: `EnterEntry` wraps at `Wrap`.
`ApertureLoop` is recursive, so this module is only model-checked.

### XdmaPoll

`ThreadLoop` to `Serve` is `xthread_main()` with its work function; the lock of
the thread is held over the processing. The write-back is read and cleared in
two steps (1270-1273) and written by the hardware at any time. `Expected` reads
the head of the list without `engine->lock`; with an empty list it reads the
word at that place in `struct xdma_engine` (a free spinlock, 0). Engines are
added, removed and the threads stopped, so that removal meets processing.

### XdmaDevice

`held[d][r]` counts device d's references to resource r: after a removal or a
failed probe it must be 0. Two devices share the list, the threads and the major
numbers. The steps of `probe_one()` and `xdma_device_open()` are actions with a
success and a failure, which jumps to the unwinding label of the code (`err_msix`
to `free_xpdev` are labels of those two functions). An input device whose
registration fails is a failure that is only logged (`xdma_mod.c:234`): the
device stays bound with an input device that was never registered, and what
unregistering it does at the removal is left to the kernel: nothing, or a fault
(`oops`).

`CreateCdev` and `CreateCdevFails` are `create_xcdev()`. The first call allocates
the major number and may fail after it has (`xdma_cdev.c:291`, then 313, 360, 371);
a later failure may also unregister the region of device numbers itself, if the
device's minor number is 0 (`user_region`). `xpdev_destroy_interfaces()` then runs
in `xpdev_create_interfaces()` and again in `xpdev_free()`, which clears neither
flags nor major number.

`ErrorDetected` and `SlotReset` are the callbacks of a frozen channel, `ResetPrepare`
and `ResetDone` those of a function reset, `CtrlIoctl` the two ioctls of the control
device, which test no state (`cdev_ctrl.c:178-183`): the device goes offline when it
is offline and online when it is frozen, during the probe, in a reset, as long as
the control node exists. `xdma_device_online()` ignores what `irq_setup()` returns,
so `MsixAgain` and `LineAgain` may stop anywhere; a vector or an MSI interrupt that
is still held cannot be requested, a legacy line can, once more each time
(`line_twice`). `free_irq()` of an interrupt that is not held only warns.

`Charge` bounds by `MaxFails` how much goes wrong: failures, errors and resets, and
those ioctls. `Leftover` lists, resource by resource, what the code does not give
back or gives back twice, and `UnwindExact` says that it does nothing else to the
resources of the model:

* a vector that cannot be had at the probe leaves the channels' interrupts
  requested before it;
* `remove_one()` frees the input device after unregistering it;
* a character device that cannot be created leaves those of its group, and the
  finished groups are destroyed twice;
* the region of major numbers is unregistered once too often after a creation that
  failed with a major number allocated, twice if the user device's own failure
  removed it before; by then it may be another device's;
* a device removed between error and recovery is disabled twice;
* a device whose regions belong to another driver stays enabled;
* of a legacy line that was requested while it was held, any number of requests
  may be left.

`NodesHaveDevice` holds as long as no creation of a character device has failed
anywhere: after that the second unregistration may take the region of a device that
has got the number in between. The rule by which `identify_bars()` finds the roles of
the BARs is `Regular`: user first, bypass last, both optional. The property speaks of
the roles of such hardware only, since for other layouts the code knows no right
answer.

Assumptions about the PCI core: it reports neither an error nor a reset of a device
that is frozen or in a reset; it holds the device's lock during a reset, so that no
removal comes in between; and a slot reset whose `pci_enable_device()` fails leaves
the device frozen. A device that has left something behind is not probed again, so
its notes in `cut` stay. A file that stays open after its node is gone, and a second
ioctl inside `xdma_device_offline()` or `xdma_device_online()`, are not modelled.

### XdmaSgdma

The ioctls take no lock, so each of their steps ends where the code may sleep or
reads the engine again. `device_open`, `running` and `non_incr_addr` are bits of
one byte (`libxdma.h:507`); an unlocked store is a load and a store of the byte.
A performance run is a cyclic transfer on the same list as ordinary requests.
`trouble` notes overlaps and failures, `damage` what became of the driver (a
leak, a null pointer, a request whose transfer or descriptors were taken), and
`DamageExplained` says which damage needs which trouble.

### XvcDevice, UserEvents

`XvcLock` to `XvcReturn` is one call; the LENGTH register is kept from word to
word as in the code. A shift that is given up goes on in the bridge (`late`).

`xdma_isr()` reads the request word, keeps eight bits, clears them in the card
and serves the lines lowest first; `char_events_read()` tests in
`wait_event_interruptible()` and takes the event in a second critical section.
The kernel's guarantee that test and sleep are atomic with respect to a wake-up
is assumed. Copying the event to user space may fail after it was taken; it is
lost then (`cdev_events.c:70-74`), and `NoLostEvent` counts it as read. `unread` is
an auxiliary variable: the card raised an event since the last read that took one.

### FrameInjector

One process per channel, each with its own number of frames. Addresses are
counted in slots of 0x2000000 bytes, so `FirstBufAddr` is `first_buf_addr[]`
divided by `buf_addr_step`. The card shows slots in turn and its register counts
announced slots up to 3 (external, from the comments at `dma_to_device.c:266`
and `:357` and from how the register is used). The uninitialized `count` of
`wait_fpga_ready()` is a free choice from `CountValues`.

### ArmTool

`main()` runs one of four programs, each a series of messages. `SendWrite`,
`SendRing`, `Poll`, `ReadResult`, `ReadAnswer` are one message; `NextBlock`,
`NextElement`, `NextMargin` and `NextCmd` compute the following one. `Parts` is
the margin test: the I2C writes and reads of each phase, in order. The firmware
(external) takes a message when the doorbell is set, answers later, and may fail
a command. Amplitude and register widths are scaled down; a `uint8_t` wraps.

## Runs

| Run | Instance | Shows |
|---|---|---|
| `engine_faults` | 2 requests of 1 or 3 descriptors, ring of 2, every fault, fairness | the safety properties across timeouts, errors, resets and dead registers; `desc_used` is exact up to refused transfers; every call returns (an error before the first descriptor, or a reset, needs the timer); the engine implements `DmaService` |
| `engine_live` | 3 requests, late busy, fairness | interrupts alone bring every call to its return |
| `async` | 2 operations, one of two segments, one split by a ring of 3, every fault, fairness | completion once and of moved data; freed memory is listed in two cases only; accepted operations complete unless the engine stalled or the ring was overrun |
| `request` | 3 pages of 4 bytes, every offset and length up to 10, descriptors of 2, 3 or 9 bytes, ring of 4, blocks of 2 | descriptors tile the buffer; aperture requests do until they need a second transfer beyond the first page, and report an error only when nothing was moved; prefetching is safe |
| `poll` | 2 engines, 2 threads, 2 transfers, hardware errors, fairness | exact work lists, no lost wake-up, completions are real, every transfer is settled |
| `device` | 2 devices, one of them with three hardware layouts (MSI-X, no pin, no config BAR), the other with the legacy interrupt; two major numbers; 2 things going wrong, 3 probes, with and without polled mode | unwinding is exact up to `Leftover`, handlers have their engines, nodes their devices |
| `sgdma` | 2 processes, 3 calls each, every fault | exclusive open, whole performance runs, explained damage, agreement of address mode |
| `xvc` | 2 processes, lengths of 0, less than, exactly and more than two words | words are shifted in order |
| `events` | 2 lines, 2 threads, 2 events each, fairness | no event lost, no missed wake-up, events reach blocked readers |
| `events_high_line` (violation) | line 9 | lines 8 to 15 are never served by the shared handler, although the API documents 0 to 15 |
| `injector` | 2 neighbouring channels, 4 frames and 1 frame, every fault, fairness | slots are never overwritten, order is kept, only frames whose write has returned are shown, what is announced is shown, processes end |
| `arm` | the margin test with one fault, four pairs of other programs with up to three, fairness | answers are own answers, blocks and elements in order, the margin test is safe, every run ends |

Bounds. A ring shorter than the longest request splits a request into several
transfers and makes chains wrap at the ring's end; two requests are enough for
a left-over of one to meet the other, three for contention on the mutex. A ring
of 3 under 4 asynchronous descriptors wraps and can be overrun. Two engines and
two threads share a thread or not, depending on how their scans interleave; the
transfers are bounded over both engines, so that one engine may have two in a
row. Two things going wrong in `device` put a failure at every step, and an error,
a reset or an ioctl before or after it; three probes let a device come back while
another stays, and two major numbers, which are interchangeable and declared
symmetric, let it find another's in use. It is the longest run (1.8 million states,
three minutes). Word, page, block, slot and byte are
scaled to the smallest size at which the boundary cases (none, part, exact, more)
differ. Four frames exceed the three slots. Runs without a deadlock check end:
calls, probes and messages are bounded, or the model stops at undefined
behaviour.

Fairness. Runnable threads run, a mutex waiter is served in the end (the
kernel's mutex hands over to a waiter that was passed over, hence strong
fairness for `LockDesc`; the same for the short spinlock sections of `XdmaPoll`),
timed waits end, interrupts are delivered, the work queue runs, hardware fetches
and completes, the PCI core ends what it began, the card shows frames, the
firmware takes and answers messages. No fairness for new calls, errors, signals,
for going offline or for removal. `Timeout` is fair, but disabled unless
`"timeout"` is in `Faults`.

## What the code does not promise

These outcomes are in the models. The properties either leave them out by a
condition, which the comments name, or the runs exclude the fault; each can be
seen by dropping the condition or adding the fault.

* After a timed-out wait the pages are unmapped, and the engine restarted, while
  a descriptor may be in flight (3635, and the comment at 677 that the engine
  must be idle): condition in `InFlightMapped`. A status bit left over by the
  aborted transfer can fail its successor.
* A request that fails after a part of it was accounted returns a short count and
  no error (3687): `ReturnValue`.
* `xdma_device_offline()` does not wait for the engines, whatever its comment
  says (4570).
* A transfer refused by `transfer_queue()` leaves its count in `desc_used`
  (3579-3584): `Leaked`.
* An asynchronous segment longer than the ring, or more queued than the ring
  holds, overwrites descriptors in use (3005): `overrun`. A transfer that is
  complete still counts as in use until its request ends: `transfer_destroy()`
  would otherwise clear entries that belong to another by then.
* A segment that is longer than the ring, or between whose transfers another
  call builds its own, may be cut into more than two transfers; `req->tfer[]` has
  room for two (`libxdma.h:480`): `Overflown`.
* A misaligned later segment frees `caio` under the queued ones
  (`cdev_sgdma.c:468`); going offline between the two transfers of a segment
  frees its request: exceptions in `DanglesOnlyIfCut`.
* An asynchronous operation hangs after an error before its first descriptor, a
  BUSY bit read late, or a reset: `stalled`.
* An aperture request that needs a second transfer beyond the first page reads
  the first page again, and an aperture that is no power of two starts its second
  transfer at a wrong offset: conditions of `ApertureTiles`.
* In polled mode a write-back that arrives after a timeout completes the next
  transfer: `Faults = {"timeout"}` in `poll.cfg` violates `PolledIsMoved`.
* `Leftover` of `XdmaDevice`, above. In particular a major number is given back twice
  after a failed creation (`xdma_cdev.c:600`, `xdma_mod.c:125`), the second time
  perhaps from under another device: condition of `NodesHaveDevice`. And the offline
  and online ioctls test no state (`cdev_ctrl.c:178-183`): exceptions for `offline`
  and `line_twice` in `UnwindExact` and `HandlersHaveEngine`.
* Two streaming opens, or an address-mode change and another call, at the same
  moment: conditions of `OpenExclusive` and `ModeAgrees`.
* Two readers of one event device may wake for one event; the second returns
  without one (`cdev_events.c:65`). An event whose copy to user space fails is gone
  (`cdev_events.c:70-74`).
* A frame written in part is announced and shown: `set_fpga_wait()`
  (`dma_to_device.c:442`) comes before the test of `underflow` (466).
  `wait_fpga_ready()` takes an error of `reg_rw()` for a value that allows
  writing: the properties promise the order and the slots of a channel until the
  first failing access to its register (`regfail`), those of its neighbours for
  ever. And it compares an uninitialized variable with 3
  (`dma_to_device.c:492`): 3 in `CountValues` violates `ProcessEnds`.
* An answer of the ARM that comes after its message was given up is taken for
  the next one's (`late`).

## Proofs

`XdmaEngineProofs` proves, for every set of requests, every ring size and every
combination of faults, that `IInv` is an invariant, and from it `TypeOK`,
`DoneIsMoved`, `CompletedIsMoved`, `NoDangling` and `FetchesOwnChain`. None of
these is inductive alone: that the count read by `engine_service()` belongs to
the listed transfer depends on the whole protocol. `IInv` adds

* `LockInv`: `desc_lock` is held exactly at the places between lock and unlock;
* `ListInv`: so at most one transfer is listed, that of the holder;
* `ProgressInv`: how `done`, `sw_desc_idx` and the transfer's length relate;
* `ChainInv`: the ring holds the holder's chain, ended by the STOP bit;
* `RunInv`: while a transfer is listed, the hardware's counter, position and
  moved data are those of that transfer, also if a descriptor of an earlier run
  is still in flight (`hw_stale`).

One lemma per action shows that it is preserved; the lemmas `NoneThrough`,
`OneThrough` and `NonePassed` compute what `engine_service_transfer_list()` does
on a list of one. The assumptions are those on the constants.

The second half of `XdmaEngineProofs` goes on from `IInv`. `OutcomeIsFinal` is an action property:
`IInv` says which transfers a step may find on the list, and only those change
their state. `ServiceInv` adds what the other three results need: what the
descriptor in flight and the interrupt left over belong to (`FlyInv`, `QuietInv`:
as long as no wait was cut short, nothing outlives its transfer), that pages stay
mapped from entry to the last `transfer_destroy()` (`MappedInv`), and what
`desc_used` is made of at each place of the call (`UsedInv`). From these follow
`InFlightMapped`, `DescUsedExact` and `ImplementsDma`: the initial state maps to an
initial state of `DmaService`, and each action to one of its steps or to none
(`TransferInit`, for one, is invisible; `ServiceCount` settles a piece;
`UnmapReturn` answers with the count and the error the caller really gets).

`CharDeviceProofs` proves `NoLostEvent` and `NoMissedWakeup` of `UserEvents` from
`EventInv`. It also proves `ShiftsInOrder` of `XvcDevice`, for every word length,
every number of bits and any number of callers. `CableInv` says how far the holder
of the lock is: the words read back are a beginning of the words of the call
(`Pieces`), the next one is in the bridge or already shifted, and LENGTH is a whole
word while one is left. The lemmas on `Pieces` are the division by the word length.

`FrameInjectorProofs` proves, for every set of channels, number of frames and
combination of faults, `WritesFreeSlot` from `SlotInv`, and `ShownInOrder` and
`ShownIsWritten` from `StreamInv`. `SlotInv` ties the host's `g_send_count` to the
card's `fetched` and `ready`; `ChannelsApart` and `SlotsApart` are the arithmetic
of `first_buf_addr[]` and of the slot index. `StreamInv` follows each frame from
its slot to the screen: the n-th frame sent is either shown or still in its slot
(`Sent`), and these are in order.

`XdmaPollProofs` proves, for any number of engines and threads, `WorkIsExact` from
`WorkInv` (an engine is once on the list of its own thread; items in hand are on
the list as long as the lock is held), `NoLostWakeup` from `WakeInv`, and
`PolledIsMoved` from `MoveInv`, the last under the hypothesis
`"timeout" \notin Faults`, without which it is false (above): `MoveInv` relates the
word that the monitor has read, before and after it is cleared, to the transfer
on the list.

`XdmaSgdmaProofs` proves all four properties of `XdmaSgdma`, for any finite number
of processes and every fault. `ModeInvariant` holds who has a file (`FileInv`),
what `device_open` says (`OpenInv`) and what a store under way is going to write
back (`ModeInv`); it gives `OpenExclusive` and `ModeAgrees`. `PerfInvariant` adds
the request that waits under `desc_lock` (`DmaInv`), what each step of a
performance call relies on (`PerfInv` with `CallInv`) and the life of the buffer
(`BufInv`), each under the weakest condition on `Trouble` that keeps it true; it
gives `DamageExplained`. `RunInv` then says that an undisturbed run is alone on the
list and running, which gives `PerfWhole`. `CallsApart` turns the cardinalities of
`Overlap` into facts about two processes; `Added` and `Removed` are what a step may
do to the list, so that no proof of an action looks at list positions.

`XdmaAsyncProofs` proves, for any number of operations and segments, every ring size
and every fault, `CompletesOnce` and `DanglesOnlyIfCut` from `AioInv` and
`ReportedIsMoved` from `MoveInv`. That the last
callback completes the operation is a fact about counts: `CountInv` says that
`cmpl_cnt` is the number of ended segments, so when it reaches `req_cnt` all of them
have ended. That a segment ends once, and is not listed any more when it has, needs
the order of its transfers on the list (`ListInv`), which of them is marked last
(`SegInv`, `BuildInv`), and how far the submitting call is (`CallInv`): it may still
be at the segment's second transfer, or at the next segment.

`ReportedIsMoved` rests on `MoveInv`, which relates the calls to the ring and the
hardware:

* `SplitInv`: the transfers of a segment cut it into parts, so that the descriptors
  of the second begin where those of the first end, and a listed one was queued;
* `RingInv`: as long as no descriptor in use was overwritten, the ring holds what
  `transfer_init()` wrote for every request that has not ended;
* `RunInv` with `AtTransfer`: a running engine is at the head of the list, has moved
  exactly the first `hw_count` descriptors of it and fetches the next one of its
  chain; one that has stopped has nothing left to report;
* `TransferMoved`, `CountedMoved`: what is COMPLETED was moved, and what `caio->res`
  counts are distinct moved descriptors of segments that have ended.

`SettlesHead` is the heart: `completed_desc_count` belongs to the head alone, so a
service settles one transfer although `engine_service_transfer_list()` could pass
over several (`PassesNone`). `CountedWasMoved` and `CountedGrows` map what
`xdma_xfer_completion()` counts injectively to what was moved; for this, bytes are
counted by the set of their descriptors and not by a sum.

`XdmaDeviceProofs` proves all three properties of `XdmaDevice`, for any number of
devices, channels, user interrupts, failures and probes, and any hardware. None is
inductive: that a handler's engine is there depends on what every step of
`xdma_device_open()` has acquired and what every label of the unwinding still has to
release. `DeviceInv` says exactly that, device by device, as a function of the label,
the loop counter and the failures noted in `cut`:

* `EngineInv`: which engines are initialised (in the middle of `probe_engines()` and
  `remove_engines()` some of them), and that these hold all their resources and the
  others none;
* `BarInv`: which BARs are mapped, and that the roles are those of the BARs behind
  them;
* `IrqInv`: that while the device is open its own interrupts are held once, unless
  it has been offline or a line was requested twice, and no others; before, those
  requested so far; afterwards, those that are left;
* `CdevInv`: how many character devices were made, which of their groups are
  finished, and how often each has been removed; with `RegionInv`, how often the
  region of device numbers has been;
* `SingleInv`: where each resource there is one of is held, in terms of `Leftover`;
* `ListInv`, `MajorInv`: that a device is listed exactly between
  `xdev_list_add()` and `xdev_list_remove()`, by increasing index, and that a major
  number is its owner's as long as no device is torn (`Torn`: a creation failed with
  a number allocated, so that it will be given back once more than it was taken).

`HandlersHaveEngine` then needs the first three, `NodesHaveDevice` the nodes, the list
and the majors, and `UnwindExact` each part at the labels `absent` and `close`. A step
changes one device (`StepLocal`), and the lemmas `OpenTouches`, `CloseTouches`,
`OpenJumps` and `CloseJumps` say which kinds of resources it touches and where it
leads, so that most steps preserve most parts by `EngineQuiet`, `BarQuiet`, `IrqIdle`,
`CdevQuiet` or `SingleQuiet`; what is left is one lemma for each action and each part
it disturbs. `OnlineEffect` and `AdminEffect` are what the callbacks and the ioctls
may do, in whatever state they find the interrupts. TLC finds no violation of
`DeviceInv` when it is added to `device.cfg`.

`ArmToolProofs` proves, for every table, file, command, buffer and amplitude,
`AnswerIsOwn`, `DeliveredInOrder` and `MarginSafe` from `ArmInv`:

* `SendInv`: as long as no message was given up that the firmware was at, it works
  on no other message than the one the tool waits for, and the answer it left is
  that message's;
* `FileInv`: the stored blocks are the first ones of the file, up to the one under
  way, each under the path and header written for it;
* `TableInv`: the applied elements are picked from the part of the table already
  sent, in order, and are all of it if nothing was slow or failed;
* `MarginInv`: the command under way is the one its part of the test names, and on a
  healthy bus the variables of the program and the registers of the chips are those
  of that place: the amplitude set, lowered but not below the stop value, restored
  (`AmpInv`), the global adaption off where it must be (`AdaptInv`).

The arithmetic is in a few lemmas: that setting the manual bit keeps the amplitude
(`Remainder`), that a lowered amplitude stays at or above the stop value
(`Lowering`), and that a path that does not end on a word boundary is read back
whole, whatever an earlier message left behind it (`PathReadOwn`).

The proofs assume only the named assumptions on the constants (a ring of at least
one descriptor, requests of at least one, a positive word length, null pointers
that are no process or thread, natural bounds, at least one channel, the BARs of a
device listed in increasing order, finitely many processes in `XdmaSgdma` because
`Overlap` counts them). Two facts about the environment are in
the models and not proved: what hardware, card and bridge do (the actions marked
external), and the kernel's locks and wait queues.

Only model-checked: liveness (out of the prover's reach) and `XdmaRequest`, whose
`ApertureLoop` is recursive and whose results are about what recursive definitions
compute.

## Plan

Every safety property but those of `XdmaRequest` is proved. What could be added is in
the models: files that stay open after their node is gone, ioctls inside one another,
and the creation of the completion threads one by one, all of which the code leaves
undefined from some step on (below).

## Not modelled

* The SerDes raw tables: ten thousand lines of register values without control.
  Image decoding: arithmetic on whole images, no state between calls. The
  sample tools: one open, one access. The scripts.
* Register reads and writes of the control and bypass devices, their mappings,
  llseek and ioctls that return a field: one access per call, nothing kept.
* End-of-packet flushing and the results of streaming engines; user handlers
  registered by other kernel modules (no caller in the repository).
* The creation of the completion threads one by one: if a later one fails,
  `cs_threads` is freed under the earlier ones (`xdma_thread.c:314`), which is
  undefined from there on.
* A device unbound while its files are open: no reference count ties the two,
  every later use is undefined.
* Reading frames from a file: a file shorter than a frame stops the injector with
  a division by zero (`dma_to_device.c:318`) before anything is sent.
* Two instances of the ARM tool at a time: nothing in the code arbitrates the
  mailbox.
