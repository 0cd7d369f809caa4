----------------------------- MODULE DmaService -----------------------------
(***************************************************************************)
(* What a DMA engine promises its callers, without ring, list, interrupt   *)
(* or register: the abstract specification that XdmaEngine implements.     *)
(*                                                                         *)
(* Requests are served one at a time.  A request is some number of pieces  *)
(* of data; what its caller is told was done is a gapless beginning of     *)
(* them that has really been moved, and less than all of them only if an   *)
(* error was met.  The caller is told of the error only if nothing was     *)
(* accounted to it: otherwise a short count is the only sign.  The promise *)
(* is silent about a piece that is moved after its request was given up:   *)
(* the hardware may still be at it.                                        *)
(***************************************************************************)
EXTENDS Naturals

CONSTANTS
    Requests,       \* calls
    Sizes,          \* numbers of pieces a call may ask for
    NoReq           \* nobody is being served

VARIABLES
    phase,          \* how far each call is
    want,           \* pieces it asks for
    moved,          \* pieces moved for it
    done,           \* pieces accounted to it
    failed,         \* an error was met
    told,           \* what its caller is told: a count, and whether it failed
    turn            \* the call being served

vars == <<phase, want, moved, done, failed, told, turn>>

Init ==
    /\ phase = [r \in Requests |-> "idle"]
    /\ want = [r \in Requests |-> 0]
    /\ moved = [r \in Requests |-> {}]
    /\ done = [r \in Requests |-> 0]
    /\ failed = [r \in Requests |-> FALSE]
    /\ told = [r \in Requests |-> [count |-> 0, error |-> FALSE]]
    /\ turn = NoReq

Enter(r, from, to) ==
    /\ phase[r] = from
    /\ phase' = [phase EXCEPT ![r] = to]

\* A call is accepted and waits for its turn.
Accept(r, n) ==
    /\ Enter(r, "idle", "waiting")
    /\ want' = [want EXCEPT ![r] = n]
    /\ UNCHANGED <<moved, done, failed, told, turn>>

\* A call is refused: nothing is moved for it, and it is told so.
Refuse(r) ==
    /\ Enter(r, "idle", "answered")
    /\ failed' = [failed EXCEPT ![r] = TRUE]
    /\ told' = [told EXCEPT ![r] = [count |-> 0, error |-> TRUE]]
    /\ UNCHANGED <<want, moved, done, turn>>

\* Its turn: nobody else is being served.
Grant(r) ==
    /\ turn = NoReq
    /\ turn' = r
    /\ Enter(r, "waiting", "served")
    /\ UNCHANGED <<want, moved, done, failed, told>>

\* A piece of a request that has had its turn is moved.
Move(r, k) ==
    /\ phase[r] \notin {"idle", "waiting"}
    /\ k < want[r]
    /\ moved' = [moved EXCEPT ![r] = @ \cup {k}]
    /\ UNCHANGED <<phase, want, done, failed, told, turn>>

\* Moved pieces are accounted, or an error is met, or both.
Account(r, n, error) ==
    /\ turn = r
    /\ phase[r] = "served"
    /\ n >= done[r]
    /\ \A k \in 0..(n - 1) : k \in moved[r]
    /\ done' = [done EXCEPT ![r] = n]
    /\ failed' = [failed EXCEPT ![r] = @ \/ error]
    /\ UNCHANGED <<phase, want, moved, told, turn>>

\* The turn ends when all is done, or with an error met before or now.
Release(r, error) ==
    /\ turn = r
    /\ turn' = NoReq
    /\ failed' = [failed EXCEPT ![r] = @ \/ error]
    /\ done[r] = want[r] \/ failed'[r]
    /\ Enter(r, "served", "released")
    /\ UNCHANGED <<want, moved, done, told>>

\* The caller is told what was accounted to it, or else that the call failed.
Answer(r) ==
    /\ Enter(r, "released", "answered")
    /\ told' = [told EXCEPT ![r] =
                    [count |-> done[r], error |-> failed[r] /\ done[r] = 0]]
    /\ UNCHANGED <<want, moved, done, failed, turn>>

Next ==
    \E r \in Requests :
        \/ \E n \in Sizes : Accept(r, n)
        \/ Refuse(r)
        \/ Grant(r)
        \/ \E k \in 0..want[r] : Move(r, k)
        \/ \E error \in BOOLEAN :
            Release(r, error) \/ \E n \in 0..want[r] : Account(r, n, error)
        \/ Answer(r)

Spec == Init /\ [][Next]_vars
=============================================================================
