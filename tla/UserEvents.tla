----------------------------- MODULE UserEvents -----------------------------
(***************************************************************************)
(* The card's user interrupts and the event device: the shared interrupt   *)
(* handler xdma_isr() reads the pending requests, clears them in the card  *)
(* and passes each to user_irq_service() (xdma/libxdma.c); programs read   *)
(* or poll /dev/xdma*_events_* (xdma/cdev_events.c).  Handlers set with    *)
(* xdma_user_isr_register() have no caller in the repository.              *)
(***************************************************************************)
EXTENDS Integers, FiniteSets

CONSTANTS
    Lines,      \* user interrupt lines: numbers below xdev->user_max
    Readers,    \* threads that read or poll an event device
    MaxRaised,  \* bound: events the card raises per line
    MaxReads    \* bound: calls each thread makes

ASSUME LinesAssumption == Lines \subseteq Nat /\ IsFiniteSet(Lines)
ASSUME BoundsAssumption == MaxRaised \in Nat /\ MaxReads \in Nat

VARIABLES
    request,    \* user_int_request, per line
    raised,     \* how many events the card has raised, per line
    unread,     \* an event was raised since the last read that took one
    isr,        \* place of the interrupt handler
    pending,    \* user_irq, the handler's copy of the requests
    events_irq, \* user_irq->events_irq
    rpc,        \* place of each thread
    line,       \* the line whose device the thread uses
    events_user,\* what the thread's last read left in its buffer
    reads       \* calls made

cardVars == <<request, raised>>
isrVars == <<isr, pending>>
readVars == <<rpc, line, events_user, reads>>
eventsVars == <<cardVars, unread, isrVars, events_irq, readVars>>

EventsInit ==
    /\ request = [u \in Lines |-> FALSE]
    /\ raised = [u \in Lines |-> 0]
    /\ unread = [u \in Lines |-> FALSE]
    /\ isr = "idle"
    /\ pending = {}
    /\ events_irq = [u \in Lines |-> 0]
    /\ rpc = [r \in Readers |-> "idle"]
    /\ line \in [Readers -> Lines]
    /\ events_user = [r \in Readers |-> 0]
    /\ reads = [r \in Readers |-> 0]
-----------------------------------------------------------------------------
(* The interrupt                                                           *)

\* The card raises a user interrupt (external).
Raise(u) ==
    /\ raised[u] < MaxRaised
    /\ raised' = [raised EXCEPT ![u] = @ + 1]
    /\ request' = [request EXCEPT ![u] = TRUE]
    /\ unread' = [unread EXCEPT ![u] = TRUE]
    /\ UNCHANGED <<isrVars, events_irq, readVars>>

\* xdma_isr() reads user_int_request and keeps its low eight bits ...
IsrRead ==
    /\ isr = "idle"
    /\ \E u \in Lines : request[u]
    /\ pending' = {u \in Lines : request[u] /\ u < 8}
    /\ isr' = "clear"
    /\ UNCHANGED <<cardVars, unread, events_irq, readVars>>

\* Mutant: writes ones for every line instead of the lines that were read.
IsrClearAll ==
    /\ isr = "clear"
    /\ request' = [u \in Lines |-> FALSE]
    /\ isr' = IF pending = {} THEN "idle" ELSE "serve"
    /\ UNCHANGED <<raised, unread, pending, events_irq, readVars>>

\* ... clears what it has read in the card ...
IsrClear ==
    /\ isr = "clear"
    /\ request' = [u \in Lines |-> request[u] /\ u \notin pending]
    /\ isr' = IF pending = {} THEN "idle" ELSE "serve"
    /\ UNCHANGED <<raised, unread, pending, events_irq, readVars>>

\* Mutant: the event is noted, nobody is woken.
WokenNone(u) == {}

\* wake_up_interruptible(): the threads asleep on the line's queue.
WokenBy(u) == {r \in Readers : rpc[r] = "sleep" /\ line[r] = u}

\* user_irq_service(): note the event; wake the sleepers if it is the first.
UserIrqService(u) ==
    \/ /\ events_irq[u] # 0
       /\ UNCHANGED <<events_irq, rpc>>
    \/ /\ events_irq[u] = 0
       /\ events_irq' = [events_irq EXCEPT ![u] = 1]
       /\ rpc' = [r \in Readers |-> IF r \in WokenBy(u) THEN "check" ELSE rpc[r]]

\* ... and serves the lines it has read, lowest first.
IsrServe(u) ==
    /\ isr = "serve"
    /\ u \in pending /\ \A v \in pending : u <= v
    /\ UserIrqService(u)
    /\ pending' = pending \ {u}
    /\ isr' = IF pending' = {} THEN "idle" ELSE "serve"
    /\ UNCHANGED <<cardVars, unread, line, events_user, reads>>
-----------------------------------------------------------------------------
(* The event device                                                        *)

\* A thread calls read() or poll().
Call(r, place) ==
    /\ rpc[r] = "idle"
    /\ reads[r] < MaxReads
    /\ reads' = [reads EXCEPT ![r] = @ + 1]
    /\ rpc' = [rpc EXCEPT ![r] = place]
    /\ UNCHANGED <<cardVars, unread, isrVars, events_irq, line, events_user>>

\* wait_event_interruptible() in char_events_read(): go on, or queue up and
\* sleep; the kernel tests again once queued, so test and sleep are one step.
Check(r) ==
    /\ rpc[r] = "check"
    /\ rpc' = [rpc EXCEPT ![r] = IF events_irq[line[r]] # 0 THEN "take"
                                 ELSE "sleep"]
    /\ UNCHANGED <<cardVars, unread, isrVars, events_irq, line, events_user,
                   reads>>

\* A signal ends the sleep: the read fails with -ERESTARTSYS.
Signal(r) ==
    /\ rpc[r] = "sleep"
    /\ rpc' = [rpc EXCEPT ![r] = "idle"]
    /\ UNCHANGED <<cardVars, unread, isrVars, events_irq, line, events_user,
                   reads>>

\* char_events_read() takes the event under events_lock.  If the copy to user
\* space fails the read returns all the same, with the buffer as it was.
Take(r) ==
    /\ rpc[r] = "take"
    /\ \E copied \in BOOLEAN :
        events_user' = [events_user EXCEPT
                            ![r] = IF copied THEN events_irq[line[r]] ELSE @]
    /\ events_irq' = [events_irq EXCEPT ![line[r]] = 0]
    /\ unread' = IF events_irq[line[r]] = 1
                 THEN [unread EXCEPT ![line[r]] = FALSE] ELSE unread
    /\ rpc' = [rpc EXCEPT ![r] = "returned"]
    /\ UNCHANGED <<cardVars, isrVars, line, reads>>

\* char_events_poll(): a readable device is read next.
Poll(r) ==
    /\ rpc[r] = "poll"
    /\ rpc' = [rpc EXCEPT ![r] = IF events_irq[line[r]] # 0 THEN "check"
                                 ELSE "idle"]
    /\ UNCHANGED <<cardVars, unread, isrVars, events_irq, line, events_user,
                   reads>>

\* The program has the value and may call again.
Return(r) ==
    /\ rpc[r] = "returned"
    /\ rpc' = [rpc EXCEPT ![r] = "idle"]
    /\ events_user' = [events_user EXCEPT ![r] = 0]
    /\ UNCHANGED <<cardVars, unread, isrVars, events_irq, line, reads>>

Isr == IsrRead \/ IsrClear \/ \E u \in Lines : IsrServe(u)

Proceed(r) == Check(r) \/ Take(r) \/ Poll(r) \/ Return(r)

EventsNext ==
    \/ \E u \in Lines : Raise(u)
    \/ Isr
    \/ \E r \in Readers :
        \/ Call(r, "check") \/ Call(r, "poll")
        \/ Proceed(r)
        \/ Signal(r)

EventsSpec == EventsInit /\ [][EventsNext]_eventsVars

\* The interrupt is delivered and its handler runs to the end; a runnable
\* thread runs.  Nobody has to raise an event, call or send a signal.
EventsFairSpec ==
    EventsSpec /\ WF_eventsVars(Isr) /\ \A r \in Readers : WF_eventsVars(Proceed(r))
-----------------------------------------------------------------------------
(* Properties                                                              *)

EventsTypeOK ==
    /\ request \in [Lines -> BOOLEAN]
    /\ raised \in [Lines -> 0..MaxRaised]
    /\ unread \in [Lines -> BOOLEAN]
    /\ isr \in {"idle", "clear", "serve"}
    /\ pending \subseteq Lines
    /\ events_irq \in [Lines -> {0, 1}]
    /\ rpc \in [Readers -> {"idle", "check", "sleep", "take", "poll", "returned"}]
    /\ line \in [Readers -> Lines]
    /\ events_user \in [Readers -> {0, 1}]
    /\ reads \in [Readers -> 0..MaxReads]

\* No event is lost: until a read has taken it, an event is requested by
\* the card, in the handler's hands or noted in events_irq, although the
\* handler clears requests it read some time ago (xdma_isr()).
NoLostEvent ==
    \A u \in Lines : unread[u] =>
        request[u] \/ u \in pending \/ events_irq[u] = 1

\* Nobody sleeps on an event that has been noted, although only the first one
\* wakes the sleepers (user_irq_service()).
NoMissedWakeup ==
    \A r \in Readers : rpc[r] = "sleep" => events_irq[line[r]] = 0

\* Outside the handler no request is half served; with the two properties
\* above this is inductive (CharDeviceProofs).
EventInv ==
    /\ EventsTypeOK
    /\ isr = "idle" => pending = {}
    /\ NoLostEvent
    /\ NoMissedWakeup

\* An event reaches a blocked reader: it is read, or no reader of its line is
\* blocked any more (a signal).  (For lines below 8; libxdma_api.h:94 has
\* "bitmask of user interrupts (0 ~ 15)", but xdma_isr() masks with 0xff.)
Blocked(u) == \E r \in Readers : rpc[r] \in {"check", "sleep"} /\ line[r] = u
EventIsRead == \A u \in Lines :
    unread[u] /\ Blocked(u) ~> ~unread[u] \/ ~Blocked(u)
=============================================================================
