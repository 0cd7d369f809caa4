--------------------------- MODULE XdmaPollProofs ---------------------------
(***************************************************************************)
(* Proofs about XdmaPoll for any number of engines and threads: a thread's *)
(* list and count are exact, no wake-up is lost, and without timeouts a    *)
(* transfer the monitor completes has been moved.                          *)
(***************************************************************************)
EXTENDS XdmaPoll, SequenceTheorems, TLAPS

(* RemoveAt() of a sequence drops one element and keeps the others' order: *)
(* list_del() of xdma_thread_remove_work().                                *)
LEMMA RemoveAtFacts ==
    ASSUME NEW S, NEW s \in Seq(S), NEW i \in 1..Len(s)
    PROVE  /\ RemoveAt(s, i) \in Seq(S)
           /\ Len(RemoveAt(s, i)) = Len(s) - 1
           /\ \A j \in 1..(Len(s) - 1) :
                RemoveAt(s, i)[j] = IF j < i THEN s[j] ELSE s[j + 1]
<1> DEFINE a == SubSeq(s, 1, i - 1)
           b == SubSeq(s, i + 1, Len(s))
<1>1. /\ a \in Seq(S) /\ Len(a) = i - 1
      /\ \A j \in 1..(i - 1) : a[j] = s[j]
    OBVIOUS
<1>2. /\ b \in Seq(S) /\ Len(b) = Len(s) - i
      /\ \A j \in 1..(Len(s) - i) : b[j] = s[i + j]
    OBVIOUS
<1>3. RemoveAt(s, i) = a \o b
    BY DEF RemoveAt
<1> HIDE DEF a, b
<1>4. a \o b \in Seq(S) /\ Len(a \o b) = Len(s) - 1
    <2>1. a \o b \in Seq(S)
        BY <1>1, <1>2
    <2>2. Len(a \o b) = Len(a) + Len(b)
        BY <1>1, <1>2, ConcatProperties
    <2> QED
        BY <1>1, <1>2, <2>1, <2>2
<1>5. ASSUME NEW j \in 1..(Len(s) - 1), j < i
      PROVE  (a \o b)[j] = s[j]
    <2>1. j \in 1..Len(a)
        BY <1>1, <1>5
    <2>2. (a \o b)[j] = a[j]
        BY <1>1, <1>2, <2>1
    <2> QED
        BY <1>1, <2>1, <2>2
<1>6. ASSUME NEW j \in 1..(Len(s) - 1), ~(j < i)
      PROVE  (a \o b)[j] = s[j + 1]
    <2>1. j \in (Len(a) + 1)..(Len(a) + Len(b)) /\ j - Len(a) = j - i + 1
        BY <1>1, <1>2, <1>6
    <2>2. (a \o b)[j] = b[j - Len(a)]
        BY <1>1, <1>2, <2>1
    <2>3. j - i + 1 \in 1..(Len(s) - i) /\ i + (j - i + 1) = j + 1
        BY <1>6
    <2> QED
        BY <1>2, <2>1, <2>2, <2>3
<1> QED
    BY <1>3, <1>4, <1>5, <1>6

(* The item a monitor works on is one of the engines.                      *)
LEMMA ItemInHand ==
    ASSUME TypeOK, WorkInv, NEW t \in Threads, todo[t] # <<>>
    PROVE  /\ Head(todo[t]) \in Engines
           /\ Head(todo[t]) = todo[t][1]
           /\ Len(todo[t]) > 0
           /\ Tail(todo[t]) \in Seq(Engines)
           /\ Len(Tail(todo[t])) = Len(todo[t]) - 1
           /\ \A i \in 1..Len(Tail(todo[t])) : Tail(todo[t])[i] = todo[t][i + 1]
           /\ Holds(t, Head(todo[t]))
<1> DEFINE s == todo[t]
<1>1. s \in Seq(Engines) /\ s # <<>>
    BY DEF TypeOK
<1>2. \A i \in 1..Len(s) : Holds(t, s[i])
    BY DEF WorkInv, HandInv
<1> HIDE DEF s
<1>3. /\ Head(s) \in Engines /\ Head(s) = s[1] /\ Len(s) > 0
      /\ Tail(s) \in Seq(Engines) /\ Len(Tail(s)) = Len(s) - 1
      /\ \A i \in 1..Len(Tail(s)) : Tail(s)[i] = s[i + 1]
    BY <1>1
<1>4. Holds(t, s[1])
    BY <1>2, <1>3, <1>1
<1> QED
    BY <1>3, <1>4 DEF s

(* TypeOK is inductive.                                                    *)
LEMMA TypeStep ==
    ASSUME TypeOK, WorkInv, [Next]_vars
    PROVE  TypeOK'
<1> DEFINE mon(t) == tpc[t] \in {"monitor", "clear", "serve"}
<1>0. ASSUME NEW t \in Threads, mon(t)
      PROVE  /\ todo[t] # <<>> /\ Head(todo[t]) \in Engines
             /\ Tail(todo[t]) \in Seq(Engines)
    <2>1. todo[t] # <<>>
        BY <1>0 DEF WorkInv, HandInv
    <2> QED
        BY <2>1, ItemInHand
<1>1. ASSUME NEW t \in Threads, ThreadLoop(t) PROVE TypeOK'
    BY <1>1 DEF TypeOK, ThreadLoop, TGoto, thrVars, workVars, lifeVars, subVars, engVars, hwVars
<1>2. ASSUME NEW t \in Threads, ThreadCheck(t) PROVE TypeOK'
    <2>1. CASE Begin(t)
        BY <2>1 DEF TypeOK, Begin, TGoto, thrVars, workVars, lifeVars, subVars, engVars, hwVars
    <2>2. CASE TGoto(t, "sleep") /\ UNCHANGED <<schedule, stop, tlock, todo,
                expected, got, workVars, lifeVars, subVars, engVars, hwVars>>
        BY <2>2 DEF TypeOK, TGoto, thrVars, workVars, lifeVars, subVars, engVars, hwVars
    <2> QED
        BY <1>2, <2>1, <2>2 DEF ThreadCheck
<1>3. ASSUME NEW t \in Threads, ThreadWake(t) PROVE TypeOK'
    BY <1>3 DEF TypeOK, ThreadWake, TGoto, Begin, thrVars, workVars, lifeVars, subVars, engVars, hwVars
<1>4. ASSUME NEW t \in Threads, ThreadProc(t) PROVE TypeOK'
    <2>1. CASE todo[t] = <<>>
        <3>1. tlock' \in [Threads -> BOOLEAN] /\ UNCHANGED expected
            BY <1>4, <2>1 DEF TypeOK, ThreadProc
        <3>2. tpc' = [tpc EXCEPT ![t] = "loop"]
            BY <1>4, <2>1 DEF ThreadProc, TGoto
        <3>3. UNCHANGED <<schedule, stop, todo, got, workVars, lifeVars, subVars,
                          engVars, hwVars>>
            BY <1>4 DEF ThreadProc
        <3> QED
            BY <3>1, <3>2, <3>3 DEF TypeOK, thrVars, workVars, lifeVars, subVars, engVars, hwVars
    <2>2. CASE todo[t] # <<>>
        <3>1. Expected(Head(todo[t])) \in Nat
            BY <2>2, ItemInHand DEF TypeOK, Expected
        <3>2. expected' \in [Threads -> Nat] /\ UNCHANGED tlock
            <4>1. /\ expected' = [expected EXCEPT ![t] = Expected(Head(todo[t]))]
                  /\ UNCHANGED tlock
                BY <1>4, <2>2 DEF ThreadProc
            <4>2. expected \in [Threads -> Nat]
                BY DEF TypeOK
            <4> QED
                BY <3>1, <4>1, <4>2
        <3>3. tpc' = [tpc EXCEPT ![t] = "monitor"]
            BY <1>4, <2>2 DEF ThreadProc, TGoto
        <3>4. UNCHANGED <<schedule, stop, todo, got, workVars, lifeVars, subVars,
                          engVars, hwVars>>
            BY <1>4 DEF ThreadProc
        <3> QED
            BY <3>2, <3>3, <3>4 DEF TypeOK, thrVars, workVars, lifeVars, subVars, engVars, hwVars
    <2> QED
        BY <2>1, <2>2
<1>5. ASSUME NEW t \in Threads, MonitorRead(t) PROVE TypeOK'
    BY <1>0, <1>5 DEF TypeOK, MonitorRead, TGoto, thrVars, workVars, lifeVars, subVars, engVars, hwVars
<1>6. ASSUME NEW t \in Threads, MonitorClear(t) PROVE TypeOK'
    BY <1>0, <1>6 DEF TypeOK, MonitorClear, TGoto, Enough, NoWb, Wb, thrVars, workVars, lifeVars, subVars, engVars, hwVars
<1>7. ASSUME NEW t \in Threads, MonitorEnd(t) PROVE TypeOK'
    BY <1>0, <1>7 DEF TypeOK, MonitorEnd, TGoto, NextItem, NoWb, Wb, thrVars, workVars, lifeVars, subVars, engVars, hwVars
<1>8. ASSUME NEW t \in Threads, Serve(t) PROVE TypeOK'
    <2> DEFINE e == Head(todo[t])
    <2>1. e \in Engines /\ Tail(todo[t]) \in Seq(Engines)
        BY <1>0, <1>8 DEF Serve
    <2>2. /\ NextItem(t)
          /\ UNCHANGED <<schedule, stop, tlock, workVars, lifeVars, subVars,
                         moved, wb, dead_end>>
        BY <1>8 DEF Serve
    <2>3. /\ tpc' \in [Threads -> {"loop", "check", "sleep", "proc", "monitor",
                                   "clear", "serve", "exit"}]
          /\ todo' \in [Threads -> Seq(Engines)]
          /\ expected' \in [Threads -> Nat]
          /\ got' \in [Threads -> Wb]
        BY <2>1, <2>2 DEF TypeOK, NextItem, TGoto, NoWb, Wb
    <2>4. hw_err' \in [Engines -> Int]
        <3>1. hw_err' = [hw_err EXCEPT ![e] = IF got[t].err THEN -1 ELSE @]
            BY <1>8 DEF Serve
        <3>2. (IF got[t].err THEN -1 ELSE hw_err[e]) \in Int
            BY <2>1 DEF TypeOK
        <3> QED
            BY <2>1, <3>1, <3>2 DEF TypeOK
    <2>5. /\ running' \in [Engines -> BOOLEAN]
          /\ listed' \in [Engines -> BOOLEAN]
          /\ hw' \in [Engines -> {"idle", "run", "last"}]
          /\ state' \in [Engines -> {"NEW", "SUBMITTED", "COMPLETED", "FAILED",
                                     "ABORTED"}]
        <3>1. CASE ~running[e]
            BY <1>8, <3>1 DEF TypeOK, Serve, engVars
        <3>2. CASE running[e]
            <4>1. /\ running' = [running EXCEPT ![e] = FALSE]
                  /\ hw' = [hw EXCEPT ![e] = IF @ = "run" THEN "idle" ELSE @]
                  /\ \/ UNCHANGED <<state, listed>>
                     \/ \E o \in {"FAILED", "COMPLETED"} :
                        /\ state' = [state EXCEPT ![e] = o]
                        /\ listed' = [listed EXCEPT ![e] = FALSE]
                BY <1>8, <3>2 DEF Serve, Outcome
            <4>2. running' \in [Engines -> BOOLEAN]
                BY <4>1 DEF TypeOK
            <4>3. hw' \in [Engines -> {"idle", "run", "last"}]
                BY <2>1, <4>1 DEF TypeOK
            <4>4. /\ listed' \in [Engines -> BOOLEAN]
                  /\ state' \in [Engines -> {"NEW", "SUBMITTED", "COMPLETED",
                                             "FAILED", "ABORTED"}]
                <5>1. CASE UNCHANGED <<state, listed>>
                    BY <5>1 DEF TypeOK
                <5>2. ASSUME NEW o \in {"FAILED", "COMPLETED"},
                             state' = [state EXCEPT ![e] = o],
                             listed' = [listed EXCEPT ![e] = FALSE]
                      PROVE  /\ listed' \in [Engines -> BOOLEAN]
                             /\ state' \in [Engines -> {"NEW", "SUBMITTED",
                                    "COMPLETED", "FAILED", "ABORTED"}]
                    BY <5>2 DEF TypeOK
                <5> QED
                    BY <4>1, <5>1, <5>2
            <4> QED
                BY <4>2, <4>3, <4>4
        <3> QED
            BY <3>1, <3>2
    <2> QED
        BY <2>2, <2>3, <2>4, <2>5 DEF TypeOK, workVars, lifeVars, subVars
<1>9. ASSUME NEW e \in Engines, AddWorkScan(e) PROVE TypeOK'
    <2>1. PICK t \in Threads :
            /\ epc' = [epc EXCEPT ![e] = "adding"] /\ slot' = [slot EXCEPT ![e] = t]
            /\ UNCHANGED <<thrVars, workVars, cmplthp, stopper, subVars, engVars, hwVars>>
        BY <1>9 DEF AddWorkScan
    <2>2. /\ epc' \in [Engines -> {"absent", "adding", "added", "ready",
                                   "removing", "gone"}]
          /\ slot' \in [Engines -> Threads]
        BY <2>1 DEF TypeOK
    <2> QED
        BY <2>1, <2>2 DEF TypeOK, thrVars, workVars, subVars, engVars, hwVars
<1>10. ASSUME NEW e \in Engines, AddWork(e) PROVE TypeOK'
    <2>1. slot[e] \in Threads
        BY DEF TypeOK
    <2>2. Append(work_list[slot[e]], e) \in Seq(Engines)
        BY <2>1 DEF TypeOK
    <2> QED
        <3>1. work_list' \in [Threads -> Seq(Engines)]
            BY <1>10, <2>2 DEF TypeOK, AddWork
        <3>2. work_cnt' \in [Threads -> Nat]
            <4>1. work_cnt' = [work_cnt EXCEPT ![slot[e]] = @ + 1]
                BY <1>10 DEF AddWork
            <4>2. work_cnt \in [Threads -> Nat]
                BY DEF TypeOK
            <4> QED
                BY <2>1, <4>1, <4>2
        <3> QED
            BY <1>10, <3>1, <3>2 DEF TypeOK, AddWork, thrVars, workVars, lifeVars, subVars, engVars, hwVars
<1>11. ASSUME NEW e \in Engines, AddWorkDone(e) PROVE TypeOK'
    BY <1>11 DEF TypeOK, AddWorkDone, thrVars, workVars, lifeVars, subVars, engVars, hwVars
<1>12. ASSUME NEW e \in Engines, RemoveWork(e) PROVE TypeOK'
    BY <1>12 DEF TypeOK, RemoveWork, thrVars, workVars, lifeVars, subVars, engVars, hwVars
<1>13. ASSUME NEW e \in Engines, RemoveWorkList(e) PROVE TypeOK'
    <2>1. slot[e] \in Threads
        BY DEF TypeOK
    <2>2. PICK i \in 1..Len(work_list[slot[e]]) :
            work_list' = [work_list EXCEPT ![slot[e]] = RemoveAt(@, i)]
        BY <1>13 DEF RemoveWorkList, ListDel
    <2>3. work_list[slot[e]] \in Seq(Engines)
        BY <2>1 DEF TypeOK
    <2>4. RemoveAt(work_list[slot[e]], i) \in Seq(Engines)
        BY <2>3, RemoveAtFacts
    <2>5. work_cnt[slot[e]] - 1 \in Nat
        BY <2>1, <2>3 DEF WorkInv
    <2>6. work_list' \in [Threads -> Seq(Engines)]
        BY <2>1, <2>2, <2>4 DEF TypeOK
    <2>7. work_cnt' \in [Threads -> Nat]
        BY <1>13, <2>1, <2>5 DEF TypeOK, RemoveWorkList
    <2> QED
        BY <1>13, <2>6, <2>7 DEF TypeOK, RemoveWorkList, thrVars, workVars, lifeVars, subVars, engVars, hwVars
<1>14. ASSUME NEW e \in Engines, SubmitWake(e) PROVE TypeOK'
    BY <1>14 DEF TypeOK, SubmitWake, SGoto, WakeThread, thrVars, workVars, lifeVars, subVars, engVars, hwVars
<1>15. ASSUME NEW e \in Engines, SubmitEnd(e) PROVE TypeOK'
    <2>1. CASE state[e] = "SUBMITTED"
        <3>0. /\ spc' = [spc EXCEPT ![e] = "idle"]
              /\ state' = [state EXCEPT ![e] = "ABORTED"]
              /\ listed' = [listed EXCEPT ![e] = FALSE]
              /\ running' = [running EXCEPT ![e] = FALSE]
              /\ hw' = [hw EXCEPT ![e] = IF @ = "run" THEN "idle" ELSE @]
            BY <1>15, <2>1 DEF SubmitEnd, SGoto
        <3>1. hw' \in [Engines -> {"idle", "run", "last"}]
            BY <3>0 DEF TypeOK
        <3>2. /\ spc' \in [Engines -> {"idle", "wake", "wait"}]
              /\ state' \in [Engines -> {"NEW", "SUBMITTED", "COMPLETED",
                                         "FAILED", "ABORTED"}]
            BY <3>0 DEF TypeOK
        <3>3. /\ listed' \in [Engines -> BOOLEAN]
              /\ running' \in [Engines -> BOOLEAN]
            BY <3>0 DEF TypeOK
        <3>4. UNCHANGED <<thrVars, workVars, lifeVars, calls, num, moved, wb,
                          hw_err, dead_end>>
            BY <1>15 DEF SubmitEnd
        <3> QED
            BY <3>1, <3>2, <3>3, <3>4 DEF TypeOK, thrVars, workVars, lifeVars
    <2>2. CASE state[e] # "SUBMITTED"
        <3>1. /\ spc' = [spc EXCEPT ![e] = "idle"]
              /\ UNCHANGED <<thrVars, workVars, lifeVars, calls, num, engVars, hwVars>>
            BY <1>15, <2>2 DEF SubmitEnd, SGoto, hwVars
        <3>2. spc' \in [Engines -> {"idle", "wake", "wait"}]
            BY <3>1 DEF TypeOK
        <3> QED
            BY <3>1, <3>2 DEF TypeOK, thrVars, workVars, lifeVars, engVars, hwVars
    <2> QED
        BY <2>1, <2>2
<1>16. ASSUME NEW e \in Engines, HwRun(e) PROVE TypeOK'
    BY <1>16 DEF TypeOK, HwRun, thrVars, workVars, lifeVars, subVars, engVars, hwVars
<1>17. ASSUME NEW e \in Engines, HwLast(e) PROVE TypeOK'
    BY <1>17 DEF TypeOK, HwLast, Wb, thrVars, workVars, lifeVars, subVars, engVars, hwVars
<1>18. ASSUME NEW e \in Engines, NEW k \in Sizes, Submit(e, k) PROVE TypeOK'
    <2>1. k \in Nat /\ calls + 1 \in 0..MaxCalls
        BY <1>18, SizesAssumption, MaxCallsAssumption DEF TypeOK, Submit
    <2> QED
        BY <1>18, <2>1 DEF TypeOK, Submit, SGoto, thrVars, workVars, lifeVars, subVars, engVars, hwVars
<1>19. ASSUME NEW e \in Engines, NEW c \in 0..2, HwError(e, c) PROVE TypeOK'
    <2>1. dead_end' \in [Engines -> BOOLEAN]
        BY <1>19, Zenon DEF TypeOK, HwError
    <2>2. wb' \in [Engines -> Wb] /\ hw_err' \in [Engines -> Int]
        <3>1. /\ wb' = [wb EXCEPT ![e] = [count |-> c, err |-> TRUE]]
              /\ hw_err' = [hw_err EXCEPT ![e] = c]
            BY <1>19 DEF HwError
        <3>2. [count |-> c, err |-> TRUE] \in Wb /\ c \in Int
            BY DEF Wb
        <3> QED
            BY <3>1, <3>2 DEF TypeOK
    <2> QED
        BY <1>19, <2>1, <2>2 DEF TypeOK, HwError, thrVars, workVars, lifeVars,
            subVars, engVars
<1>20. CASE StopSchedule
    BY <1>20 DEF TypeOK, StopSchedule, thrVars, workVars, lifeVars, subVars, engVars, hwVars
<1>21. CASE StopFlag
    BY <1>21 DEF TypeOK, StopFlag, thrVars, workVars, lifeVars, subVars, engVars, hwVars
<1>22. CASE StopJoin
    <2>1. stopper' \in Threads \X {"begin", "flag", "join", "freed"}
        BY <1>22, NumThreadsAssumption DEF TypeOK, StopJoin, Threads
    <2> QED
        BY <1>22, <2>1 DEF TypeOK, StopJoin, thrVars, workVars, lifeVars, subVars, engVars, hwVars
<1>23. CASE UNCHANGED vars
    BY <1>23 DEF TypeOK, vars, thrVars, workVars, lifeVars, subVars, engVars, hwVars
<1> QED
    BY <1>1, <1>2, <1>3, <1>4, <1>5, <1>6, <1>7, <1>8, <1>9, <1>10, <1>11, <1>12, <1>13, <1>14, <1>15, <1>16, <1>17, <1>18, <1>19, <1>20, <1>21, <1>22, <1>23
    DEF Next, Thread, Life, Submitter, Hardware, Stopping

(* What AddWork() and RemoveWorkList() make of the lists.                  *)
LEMMA AddHolds ==
    ASSUME TypeOK, WorkInv, NEW e \in Engines, AddWork(e)
    PROVE  /\ \A u \in Threads, x \in Engines :
                Holds(u, x)' <=> Holds(u, x) \/ (u = slot[e] /\ x = e)
           /\ \A u \in Threads : \A i, j \in 1..Len(work_list'[u]) :
                work_list'[u][i] = work_list'[u][j] => i = j
           /\ \A u \in Threads : work_cnt'[u] = Len(work_list'[u])
<1> DEFINE t == slot[e]
           s == work_list[t]
           n == Len(s)
<1>1. t \in Threads /\ s \in Seq(Engines) /\ n \in Nat
    BY DEF TypeOK
<1>2. /\ work_list' = [work_list EXCEPT ![t] = Append(s, e)]
      /\ work_cnt' = [work_cnt EXCEPT ![t] = @ + 1]
    BY DEF AddWork
<1>3. ~Holds(t, e)
    BY <1>1 DEF AddWork, WorkInv
<1>4. /\ Len(Append(s, e)) = n + 1
      /\ Append(s, e)[n + 1] = e
      /\ \A i \in 1..n : Append(s, e)[i] = s[i]
    BY <1>1
<1>5. ASSUME NEW u \in Threads, u # t
      PROVE  work_list'[u] = work_list[u] /\ work_cnt'[u] = work_cnt[u]
    BY <1>2, <1>5 DEF TypeOK
<1>6. work_list'[t] = Append(s, e) /\ work_cnt'[t] = work_cnt[t] + 1
    BY <1>1, <1>2 DEF TypeOK
<1>7. \A x : Holds(t, x) <=> \E i \in 1..n : s[i] = x
    BY DEF Holds
<1> HIDE DEF t, s, n
<1>8. \A x \in Engines :
        (\E i \in 1..Len(work_list'[t]) : work_list'[t][i] = x)
            <=> Holds(t, x) \/ x = e
    <2> TAKE x \in Engines
    <2>1. (\E i \in 1..Len(work_list'[t]) : work_list'[t][i] = x)
            <=> \E i \in 1..(n + 1) : Append(s, e)[i] = x
        BY <1>4, <1>6
    <2>2. (\E i \in 1..(n + 1) : Append(s, e)[i] = x)
            <=> (\E i \in 1..n : s[i] = x) \/ x = e
        BY <1>1, <1>4
    <2> QED
        BY <1>7, <2>1, <2>2
<1>9. ASSUME NEW i \in 1..Len(work_list'[t]), NEW j \in 1..Len(work_list'[t]),
             work_list'[t][i] = work_list'[t][j]
      PROVE  i = j
    <2>1. \A k \in 1..n : s[k] # e
        BY <1>3, <1>7
    <2>2. \A k, l \in 1..n : s[k] = s[l] => k = l
        BY <1>1 DEF WorkInv, s, n
    <2> QED
        BY <1>1, <1>4, <1>6, <1>9, <2>1, <2>2
<1> QED
    <2>1. \A u \in Threads, x \in Engines :
                Holds(u, x)' <=> Holds(u, x) \/ (u = t /\ x = e)
        <3> TAKE u \in Threads, x \in Engines
        <3>1. Holds(u, x)' <=> \E i \in 1..Len(work_list'[u]) : work_list'[u][i] = x
            BY DEF Holds
        <3>2. CASE u = t
            BY <1>8, <3>1, <3>2
        <3>3. CASE u # t
            BY <1>5, <3>1, <3>3 DEF Holds
        <3> QED
            BY <3>2, <3>3
    <2>2. \A u \in Threads : work_cnt'[u] = Len(work_list'[u])
        BY <1>4, <1>5, <1>6 DEF WorkInv, n, s
    <2>3. \A u \in Threads : \A i, j \in 1..Len(work_list'[u]) :
                work_list'[u][i] = work_list'[u][j] => i = j
        BY <1>5, <1>9 DEF WorkInv
    <2> QED
        BY <2>1, <2>2, <2>3 DEF t

\* list_del() takes the engine off its list and no other; the count follows.
LEMMA DelHolds ==
    ASSUME TypeOK, WorkInv, NEW e \in Engines, RemoveWorkList(e)
    PROVE  /\ \A u \in Threads, x \in Engines :
                Holds(u, x)' <=> Holds(u, x) /\ ~(u = slot[e] /\ x = e)
           /\ \A u \in Threads : \A i, j \in 1..Len(work_list'[u]) :
                work_list'[u][i] = work_list'[u][j] => i = j
           /\ \A u \in Threads : work_cnt'[u] = Len(work_list'[u])
<1> DEFINE t == slot[e]
           s == work_list[t]
           n == Len(s)
<1>1. t \in Threads /\ s \in Seq(Engines) /\ n \in Nat
    BY DEF TypeOK
<1>2. PICK d \in 1..n : /\ s[d] = e
                        /\ work_list' = [work_list EXCEPT ![t] = RemoveAt(s, d)]
    BY DEF RemoveWorkList, ListDel
<1>3. work_cnt' = [work_cnt EXCEPT ![t] = @ - 1]
    BY DEF RemoveWorkList
<1>4. ASSUME NEW u \in Threads, u # t
      PROVE  work_list'[u] = work_list[u] /\ work_cnt'[u] = work_cnt[u]
    BY <1>2, <1>3, <1>4 DEF TypeOK
<1> DEFINE r == RemoveAt(s, d)
<1>5. work_list'[t] = r /\ work_cnt'[t] = work_cnt[t] - 1
    BY <1>1, <1>2, <1>3 DEF TypeOK
<1>6. /\ Len(r) = n - 1
      /\ \A j \in 1..(n - 1) : r[j] = IF j < d THEN s[j] ELSE s[j + 1]
    BY <1>1, RemoveAtFacts
<1>7. \A x : Holds(t, x) <=> \E i \in 1..n : s[i] = x
    BY DEF Holds
<1>8. \A k, l \in 1..n : s[k] = s[l] => k = l
    BY <1>1 DEF WorkInv
<1>9. work_cnt[t] = n
    BY <1>1 DEF WorkInv
<1> HIDE DEF t, s, n, r
<1>10. \A x \in Engines :
        (\E i \in 1..Len(work_list'[t]) : work_list'[t][i] = x)
            <=> Holds(t, x) /\ x # e
    <2> TAKE x \in Engines
    <2>1. (\E i \in 1..Len(work_list'[t]) : work_list'[t][i] = x)
            <=> \E i \in 1..(n - 1) : r[i] = x
        BY <1>5, <1>6
    <2>2. ASSUME NEW i \in 1..(n - 1), r[i] = x
          PROVE  x # e /\ \E k \in 1..n : s[k] = x
        <3>1. CASE i < d
            BY <1>1, <1>2, <1>6, <1>8, <2>2, <3>1
        <3>2. CASE ~(i < d)
            <4>1. i + 1 \in 1..n /\ i + 1 # d
                BY <1>1, <3>2
            <4> QED
                BY <1>2, <1>6, <1>8, <2>2, <3>2, <4>1
        <3> QED
            BY <3>1, <3>2
    <2>3. ASSUME NEW k \in 1..n, s[k] = x, x # e
          PROVE  \E i \in 1..(n - 1) : r[i] = x
        <3>1. k # d
            BY <1>2, <2>3
        <3>2. CASE k < d
            <4>1. k \in 1..(n - 1) /\ r[k] = x
                BY <1>1, <1>6, <2>3, <3>2
            <4> QED
                BY <4>1
        <3>3. CASE k > d
            <4>1. k - 1 \in 1..(n - 1) /\ ~(k - 1 < d) /\ (k - 1) + 1 = k
                BY <1>1, <3>3
            <4>2. r[k - 1] = x
                BY <1>6, <2>3, <4>1
            <4> QED
                BY <4>1, <4>2
        <3> QED
            BY <1>1, <3>1, <3>2, <3>3
    <2> QED
        BY <1>7, <2>1, <2>2, <2>3
<1>11. ASSUME NEW i \in 1..(n - 1), NEW j \in 1..(n - 1), r[i] = r[j]
       PROVE  i = j
    <2>1. /\ i \in 1..n /\ j \in 1..n /\ i + 1 \in 1..n /\ j + 1 \in 1..n
        BY <1>1
    <2>2. /\ r[i] = IF i < d THEN s[i] ELSE s[i + 1]
          /\ r[j] = IF j < d THEN s[j] ELSE s[j + 1]
        BY <1>6
    <2>3. CASE i < d /\ j < d
        BY <1>8, <1>11, <2>1, <2>2, <2>3
    <2>4. CASE ~(i < d) /\ ~(j < d)
        <3>1. i + 1 = j + 1
            BY <1>8, <1>11, <2>1, <2>2, <2>4
        <3> QED
            BY <3>1
    <2>5. CASE i < d /\ ~(j < d)
        <3>1. i = j + 1
            BY <1>8, <1>11, <2>1, <2>2, <2>5
        <3> QED
            BY <2>5, <3>1
    <2>6. CASE ~(i < d) /\ j < d
        <3>1. i + 1 = j
            BY <1>8, <1>11, <2>1, <2>2, <2>6
        <3> QED
            BY <2>6, <3>1
    <2> QED
        BY <2>3, <2>4, <2>5, <2>6
<1> QED
    <2>1. \A u \in Threads, x \in Engines :
                Holds(u, x)' <=> Holds(u, x) /\ ~(u = t /\ x = e)
        <3> TAKE u \in Threads, x \in Engines
        <3>1. Holds(u, x)' <=> \E i \in 1..Len(work_list'[u]) : work_list'[u][i] = x
            BY DEF Holds
        <3>2. CASE u = t
            BY <1>10, <3>1, <3>2
        <3>3. CASE u # t
            BY <1>4, <3>1, <3>3 DEF Holds
        <3> QED
            BY <3>2, <3>3
    <2>2. \A u \in Threads : work_cnt'[u] = Len(work_list'[u])
        BY <1>4, <1>5, <1>6, <1>9 DEF WorkInv
    <2>3. \A u \in Threads : \A i, j \in 1..Len(work_list'[u]) :
                work_list'[u][i] = work_list'[u][j] => i = j
        <3> TAKE u \in Threads
        <3>1. CASE u = t
            BY <1>5, <1>6, <1>11, <3>1
        <3>2. CASE u # t
            BY <1>4, <3>2 DEF WorkInv
        <3> QED
            BY <3>1, <3>2
    <2> QED
        BY <2>1, <2>2, <2>3 DEF t

(* WorkInv is inductive: a thread's steps concern its own hands only, the  *)
(* lists change under the lock of their thread.                            *)
LEMMA WorkStep ==
    ASSUME TypeOK, TypeOK', WorkInv, [Next]_vars
    PROVE  WorkInv'
<1>1. ASSUME UNCHANGED <<work_list, work_cnt>>,
             \A t \in Threads, e \in Engines :
                (t = slot[e] /\ epc[e] \in {"added", "ready", "removing"})
                <=> (t = slot'[e] /\ epc'[e] \in {"added", "ready", "removing"}),
             \A t \in Threads : HandInv(t)'
      PROVE  WorkInv'
    <2>1. \A t \in Threads, e \in Engines : Holds(t, e)' <=> Holds(t, e)
        BY <1>1 DEF Holds
    <2>2. \A t \in Threads, e \in Engines :
            Holds(t, e) <=> t = slot[e] /\ epc[e] \in {"added", "ready", "removing"}
        BY DEF WorkInv
    <2>3. \A t \in Threads, e \in Engines :
            Holds(t, e)' <=>
                t = slot'[e] /\ epc'[e] \in {"added", "ready", "removing"}
        BY <1>1, <2>1, <2>2
    <2>4. /\ \A t \in Threads : work_cnt'[t] = Len(work_list'[t])
          /\ \A t \in Threads : \A i, j \in 1..Len(work_list'[t]) :
                work_list'[t][i] = work_list'[t][j] => i = j
        BY <1>1 DEF WorkInv
    <2> QED
        BY <1>1, <2>3, <2>4 DEF WorkInv
<1>2. ASSUME NEW u \in Threads, tpc'[u] = tpc[u], tlock'[u] = tlock[u],
             todo'[u] = todo[u], work_list'[u] = work_list[u]
      PROVE  HandInv(u)'
    <2>1. HandInv(u)
        BY DEF WorkInv
    <2> QED
        BY <1>2, <2>1 DEF HandInv, Holds
<1>3. ASSUME NEW t \in Threads, Thread(t)
      PROVE  WorkInv'
    <2>0. /\ DOMAIN tpc = Threads /\ DOMAIN tlock = Threads
          /\ DOMAIN todo = Threads
          /\ tpc = [u \in Threads |-> tpc[u]]
          /\ tlock = [u \in Threads |-> tlock[u]]
          /\ todo = [u \in Threads |-> todo[u]]
        BY DEF TypeOK
    <2>1. UNCHANGED <<work_list, work_cnt, epc, slot>>
        BY <1>3 DEF Thread, ThreadLoop, ThreadCheck, ThreadWake, ThreadProc,
            MonitorRead, MonitorClear, MonitorEnd, Serve, Begin, workVars, lifeVars
    <2>2. ASSUME NEW u \in Threads, u # t
          PROVE  HandInv(u)'
        <3>1. tpc'[u] = tpc[u] /\ tlock'[u] = tlock[u] /\ todo'[u] = todo[u]
            <4>1. CASE ThreadLoop(t)
                BY <2>0, <2>2, <4>1 DEF ThreadLoop, TGoto
            <4>2. CASE ThreadCheck(t)
                BY <2>0, <2>2, <4>2 DEF ThreadCheck, TGoto, Begin
            <4>3. CASE ThreadWake(t)
                BY <2>0, <2>2, <4>3 DEF ThreadWake, TGoto, Begin
            <4>4. CASE ThreadProc(t)
                BY <2>0, <2>2, <4>4 DEF ThreadProc, TGoto
            <4>5. CASE MonitorRead(t)
                BY <2>0, <2>2, <4>5 DEF MonitorRead, TGoto
            <4>6. CASE MonitorClear(t)
                BY <2>0, <2>2, <4>6 DEF MonitorClear, TGoto
            <4>7. CASE MonitorEnd(t)
                BY <2>0, <2>2, <4>7 DEF MonitorEnd, TGoto, NextItem
            <4>8. CASE Serve(t)
                <5>1. NextItem(t) /\ UNCHANGED tlock
                    BY <4>8 DEF Serve
                <5> QED
                    BY <2>0, <2>2, <5>1 DEF NextItem, TGoto
            <4> QED
                BY <1>3, <4>1, <4>2, <4>3, <4>4, <4>5, <4>6, <4>7, <4>8 DEF Thread
        <3> QED
            BY <1>2, <2>1, <3>1
    <2>3. \A x : Holds(t, x)' <=> Holds(t, x)
        BY <2>1 DEF Holds
    <2>4. HandInv(t)
        BY DEF WorkInv
    <2>5. ASSUME Begin(t) PROVE HandInv(t)'
        <3>1. tlock'[t] = TRUE /\ tpc'[t] = "proc" /\ todo'[t] = work_list[t]
            BY <2>5 DEF Begin, TGoto, TypeOK
        <3>2. \A i \in 1..Len(work_list[t]) : Holds(t, work_list[t][i])
            BY DEF Holds
        <3> QED
            BY <2>3, <3>1, <3>2 DEF HandInv, Busy
    <2>6. ASSUME UNCHANGED <<tlock, todo>>, tpc'[t] \in Busy <=> tpc[t] \in Busy,
                 tpc'[t] \in {"monitor", "clear", "serve"} => todo[t] # <<>>
          PROVE  HandInv(t)'
        BY <2>3, <2>4, <2>6 DEF HandInv
    <2>7. ASSUME NextItem(t), UNCHANGED tlock,
                 tpc[t] \in {"monitor", "clear", "serve"}
          PROVE  HandInv(t)'
        <3>1. tpc'[t] = "proc" /\ todo'[t] = Tail(todo[t])
            BY <2>7 DEF NextItem, TGoto, TypeOK
        <3>2. /\ todo[t] # <<>>
              /\ tlock'[t]
              /\ \A i \in 1..Len(todo[t]) : Holds(t, todo[t][i])
            BY <2>4, <2>7 DEF HandInv, Busy
        <3>3. /\ todo[t] \in Seq(Engines)
              /\ Len(Tail(todo[t])) = Len(todo[t]) - 1
              /\ \A i \in 1..Len(Tail(todo[t])) : Tail(todo[t])[i] = todo[t][i + 1]
            BY <3>2, ItemInHand DEF TypeOK
        <3>4. \A i \in 1..Len(Tail(todo[t])) : Holds(t, Tail(todo[t])[i])
            <4> TAKE i \in 1..Len(Tail(todo[t]))
            <4>1. i + 1 \in 1..Len(todo[t])
                BY <3>3
            <4> QED
                BY <3>2, <3>3, <4>1
        <3> QED
            BY <2>3, <3>1, <3>2, <3>4 DEF HandInv, Busy
    <2>8. HandInv(t)'
        <3>1. CASE ThreadLoop(t)
            <4>1. tpc[t] = "loop" /\ tpc'[t] \in {"exit", "check"}
                BY <2>0, <3>1 DEF ThreadLoop, TGoto
            <4>2. UNCHANGED <<tlock, todo>>
                BY <3>1 DEF ThreadLoop
            <4> QED
                BY <2>6, <4>1, <4>2 DEF Busy
        <3>2. CASE ThreadCheck(t)
            <4>1. CASE Begin(t)
                BY <2>5, <4>1
            <4>2. CASE TGoto(t, "sleep") /\ UNCHANGED <<tlock, todo>>
                BY <2>6, <3>2, <4>2 DEF ThreadCheck, TGoto, TypeOK, Busy
            <4> QED
                BY <3>2, <4>1, <4>2 DEF ThreadCheck
        <3>3. CASE ThreadWake(t)
            BY <2>5, <3>3 DEF ThreadWake
        <3>4. CASE ThreadProc(t)
            <4>1. CASE todo[t] = <<>>
                <5>1. /\ tlock'[t] = FALSE /\ tpc'[t] = "loop"
                      /\ todo'[t] = <<>>
                    BY <3>4, <4>1 DEF ThreadProc, TGoto, TypeOK
                <5> QED
                    BY <5>1 DEF HandInv, Busy
            <4>2. CASE todo[t] # <<>>
                BY <2>6, <3>4, <4>2 DEF ThreadProc, TGoto, TypeOK, Busy
            <4> QED
                BY <4>1, <4>2
        <3>5. CASE MonitorRead(t)
            BY <2>4, <2>6, <3>5 DEF MonitorRead, TGoto, TypeOK, Busy, HandInv
        <3>6. CASE MonitorClear(t)
            BY <2>4, <2>6, <3>6 DEF MonitorClear, TGoto, TypeOK, Busy, HandInv
        <3>7. CASE MonitorEnd(t)
            BY <2>7, <3>7 DEF MonitorEnd
        <3>8. CASE Serve(t)
            BY <2>7, <3>8 DEF Serve
        <3> QED
            BY <1>3, <3>1, <3>2, <3>3, <3>4, <3>5, <3>6, <3>7, <3>8 DEF Thread
    <2> QED
        BY <1>1, <2>1, <2>2, <2>8
<1>4. ASSUME UNCHANGED <<tpc, tlock, todo, workVars, epc, slot>>
      PROVE  WorkInv'
    BY <1>1, <1>2, <1>4 DEF workVars
<1>5. ASSUME NEW e \in Engines, AddWorkScan(e)
      PROVE  WorkInv'
    <2>1. UNCHANGED <<tpc, tlock, todo, work_list, work_cnt>>
        BY <1>5 DEF AddWorkScan, thrVars, workVars
    <2>2. /\ epc[e] = "absent" /\ epc' = [epc EXCEPT ![e] = "adding"]
          /\ \E t \in Threads : slot' = [slot EXCEPT ![e] = t]
        BY <1>5 DEF AddWorkScan
    <2>3. \A t \in Threads, x \in Engines :
            (t = slot[x] /\ epc[x] \in {"added", "ready", "removing"})
            <=> (t = slot'[x] /\ epc'[x] \in {"added", "ready", "removing"})
        <3> TAKE t \in Threads, x \in Engines
        <3>1. CASE x = e
            BY <2>2, <3>1 DEF TypeOK
        <3>2. CASE x # e
            BY <2>2, <3>2 DEF TypeOK
        <3> QED
            BY <3>1, <3>2
    <2> QED
        BY <1>1, <1>2, <2>1, <2>3
<1>6. ASSUME NEW e \in Engines, AddWorkDone(e) \/ RemoveWork(e)
      PROVE  WorkInv'
    <2>1. UNCHANGED <<tpc, tlock, todo, work_list, work_cnt, slot>>
        BY <1>6 DEF AddWorkDone, RemoveWork, thrVars, workVars
    <2>2. \A t \in Threads, x \in Engines :
            (t = slot[x] /\ epc[x] \in {"added", "ready", "removing"})
            <=> (t = slot'[x] /\ epc'[x] \in {"added", "ready", "removing"})
        <3>1. /\ epc[e] \in {"added", "ready"}
              /\ \E q \in {"ready", "removing"} : epc' = [epc EXCEPT ![e] = q]
            BY <1>6 DEF AddWorkDone, RemoveWork
        <3>2. /\ epc'[e] \in {"ready", "removing"}
              /\ \A x \in Engines : x # e => epc'[x] = epc[x]
            BY <3>1 DEF TypeOK
        <3> QED
            BY <2>1, <3>1, <3>2
    <2> QED
        BY <1>1, <1>2, <2>1, <2>2
<1>7. ASSUME NEW e \in Engines, AddWork(e)
      PROVE  WorkInv'
    <2>1. /\ epc[e] = "adding" /\ ~tlock[slot[e]]
          /\ epc' = [epc EXCEPT ![e] = "added"]
          /\ UNCHANGED <<tpc, tlock, todo, slot>>
        BY <1>7 DEF AddWork, thrVars
    <2>2. \A u \in Threads : HandInv(u)'
        <3> TAKE u \in Threads
        <3>1. HandInv(u)
            BY DEF WorkInv
        <3>2. \A x \in Engines : Holds(u, x) => Holds(u, x)'
            BY <1>7, AddHolds
        <3>3. todo[u] \in Seq(Engines)
            BY DEF TypeOK
        <3>4. \A i \in 1..Len(todo[u]) : todo[u][i] \in Engines
            BY <3>3
        <3>5. \A i \in 1..Len(todo[u]) : Holds(u, todo[u][i])'
            <4> TAKE i \in 1..Len(todo[u])
            <4>1. todo'[u][i] = todo[u][i] /\ Holds(u, todo[u][i])
                BY <2>1, <3>1 DEF HandInv
            <4> QED
                BY <3>2, <3>4, <4>1 DEF Holds
        <3> QED
            BY <2>1, <3>1, <3>5 DEF HandInv
    <2>3. \A u \in Threads, x \in Engines :
            Holds(u, x)' <=>
                u = slot'[x] /\ epc'[x] \in {"added", "ready", "removing"}
        <3>1. \A u \in Threads, x \in Engines :
                Holds(u, x) <=> u = slot[x] /\ epc[x] \in {"added", "ready", "removing"}
            BY DEF WorkInv
        <3>2. \A u \in Threads, x \in Engines :
                Holds(u, x)' <=> Holds(u, x) \/ (u = slot[e] /\ x = e)
            BY <1>7, AddHolds
        <3> TAKE u \in Threads, x \in Engines
        <3>3. slot'[x] = slot[x] /\ epc'[x] = IF x = e THEN "added" ELSE epc[x]
            BY <2>1 DEF TypeOK
        <3>4. Holds(u, x) <=> u = slot[x] /\ epc[x] \in {"added", "ready", "removing"}
            BY <3>1
        <3>5. Holds(u, x)' <=> Holds(u, x) \/ (u = slot[e] /\ x = e)
            BY <3>2
        <3> QED
            BY <2>1, <3>3, <3>4, <3>5
    <2> QED
        BY <1>7, <2>2, <2>3, AddHolds DEF WorkInv
<1>8. ASSUME NEW e \in Engines, RemoveWorkList(e)
      PROVE  WorkInv'
    <2>1. /\ epc[e] = "removing" /\ ~tlock[slot[e]]
          /\ epc' = [epc EXCEPT ![e] = "gone"]
          /\ UNCHANGED <<tpc, tlock, todo, slot>>
        BY <1>8 DEF RemoveWorkList, thrVars
    <2>2. \A u \in Threads : HandInv(u)'
        <3> TAKE u \in Threads
        <3>1. HandInv(u)
            BY DEF WorkInv
        <3>2. CASE u = slot[e]
            <4>1. ~tlock[u] /\ todo[u] = <<>> /\ todo'[u] = <<>>
                BY <2>1, <3>1, <3>2 DEF HandInv
            <4> QED
                BY <2>1, <3>1, <4>1 DEF HandInv
        <3>3. CASE u # slot[e]
            <4>1. work_list'[u] = work_list[u]
                BY <1>8, <3>3 DEF RemoveWorkList, ListDel, TypeOK
            <4> QED
                BY <1>2, <2>1, <4>1
        <3> QED
            BY <3>2, <3>3
    <2>3. \A u \in Threads, x \in Engines :
            Holds(u, x)' <=>
                u = slot'[x] /\ epc'[x] \in {"added", "ready", "removing"}
        <3>1. \A u \in Threads, x \in Engines :
                Holds(u, x) <=> u = slot[x] /\ epc[x] \in {"added", "ready", "removing"}
            BY DEF WorkInv
        <3>2. \A u \in Threads, x \in Engines :
                Holds(u, x)' <=> Holds(u, x) /\ ~(u = slot[e] /\ x = e)
            BY <1>8, DelHolds
        <3> TAKE u \in Threads, x \in Engines
        <3>3. slot'[x] = slot[x] /\ epc'[x] = IF x = e THEN "gone" ELSE epc[x]
            BY <2>1 DEF TypeOK
        <3>4. Holds(u, x) <=> u = slot[x] /\ epc[x] \in {"added", "ready", "removing"}
            BY <3>1
        <3>5. Holds(u, x)' <=> Holds(u, x) /\ ~(u = slot[e] /\ x = e)
            BY <3>2
        <3> QED
            BY <2>1, <3>3, <3>4, <3>5
    <2> QED
        BY <1>8, <2>2, <2>3, DelHolds DEF WorkInv
<1>9. ASSUME NEW e \in Engines,
             \/ \E n \in Sizes : Submit(e, n)
             \/ Submitter(e)
             \/ Hardware(e)
             \/ \E c \in 0..2 : HwError(e, c)
      PROVE  WorkInv'
    BY <1>4, <1>9 DEF Submit, Submitter, SubmitWake, SubmitEnd, Hardware, HwRun,
        HwLast, HwError, thrVars, lifeVars
<1>10. CASE Stopping
    BY <1>4, <1>10 DEF Stopping, StopSchedule, StopFlag, StopJoin, thrVars
<1>11. CASE UNCHANGED vars
    BY <1>4, <1>11 DEF vars, thrVars, lifeVars
<1> QED
    BY <1>3, <1>5, <1>6, <1>7, <1>8, <1>9, <1>10, <1>11 DEF Next, Life

(* WakeInv is inductive: between the thread's test of the lists and its    *)
(* sleep nothing can be listed without the wake-up still to come.          *)
LEMMA WakeStep ==
    ASSUME TypeOK, TypeOK', WorkInv, WakeInv, [Next]_vars
    PROVE  WakeInv'
<1> DEFINE Own(e) == /\ spc[e] # "idle" => epc[e] = "ready"
                     /\ epc[e] = "ready" => cmplthp[e] = slot[e]
           Wait(e) == listed[e] /\ spc[e] = "wait" /\ epc[e] = "ready"
           Woken(t) == tpc[t] = "sleep" => schedule[t]
<1>0. /\ \A e \in Engines : Own(e)
      /\ \A e \in Engines : Wait(e) => Woken(slot[e])
    BY DEF WakeInv, NoLostWakeup
<1>f. /\ DOMAIN epc = Engines /\ DOMAIN cmplthp = Engines
      /\ DOMAIN slot = Engines /\ DOMAIN spc = Engines
      /\ DOMAIN listed = Engines /\ DOMAIN schedule = Threads
      /\ epc = [x \in Engines |-> epc[x]]
      /\ cmplthp = [x \in Engines |-> cmplthp[x]]
      /\ slot = [x \in Engines |-> slot[x]]
      /\ spc = [x \in Engines |-> spc[x]]
      /\ listed = [x \in Engines |-> listed[x]]
      /\ schedule = [t \in Threads |-> schedule[t]]
    BY DEF TypeOK
<1>1. ASSUME \A e \in Engines : Own(e)',
             \A e \in Engines : Wait(e)' => Woken(slot[e])'
      PROVE  WakeInv'
    BY <1>1 DEF WakeInv, NoLostWakeup
<1>2. ASSUME UNCHANGED <<epc, cmplthp, slot, spc>>
      PROVE  \A e \in Engines : Own(e)'
    BY <1>0, <1>2
<1>3. ASSUME NEW t \in Threads, Thread(t)
      PROVE  WakeInv'
    <2>1. /\ UNCHANGED <<epc, cmplthp, slot, spc>>
        BY <1>3 DEF Thread, ThreadLoop, ThreadCheck, ThreadWake, ThreadProc,
            MonitorRead, MonitorClear, MonitorEnd, Serve, Begin, lifeVars, subVars
    <2>2. \A e \in Engines : listed'[e] => listed[e]
        <3>1. CASE Serve(t)
            <4>1. \/ UNCHANGED listed
                  \/ \E x : listed' = [listed EXCEPT ![x] = FALSE]
                BY <3>1 DEF Serve, engVars
            <4>2. listed \in [Engines -> BOOLEAN]
                BY DEF TypeOK
            <4> QED
                BY <4>1, <4>2
        <3>2. CASE ~Serve(t)
            BY <1>3, <3>2 DEF Thread, ThreadLoop, ThreadCheck, ThreadWake,
                ThreadProc, MonitorRead, MonitorClear, MonitorEnd, Begin, engVars
        <3> QED
            BY <3>1, <3>2
    <2>3. \A u \in Threads : u # t => tpc'[u] = tpc[u] /\ schedule'[u] = schedule[u]
        <3>0. /\ DOMAIN tpc = Threads /\ DOMAIN schedule = Threads
              /\ tpc = [u \in Threads |-> tpc[u]]
              /\ schedule = [u \in Threads |-> schedule[u]]
            BY DEF TypeOK
        <3>1. CASE ThreadLoop(t)
            BY <3>0, <3>1 DEF ThreadLoop, TGoto
        <3>2. CASE ThreadCheck(t)
            BY <3>0, <3>2 DEF ThreadCheck, TGoto, Begin
        <3>3. CASE ThreadWake(t)
            BY <3>0, <3>3 DEF ThreadWake, TGoto, Begin
        <3>4. CASE ThreadProc(t)
            BY <3>0, <3>4 DEF ThreadProc, TGoto
        <3>5. CASE MonitorRead(t) \/ MonitorClear(t)
            BY <3>0, <3>5 DEF MonitorRead, MonitorClear, TGoto
        <3>6. CASE MonitorEnd(t) \/ Serve(t)
            <4>1. NextItem(t) /\ UNCHANGED schedule
                BY <3>6 DEF MonitorEnd, Serve
            <4> QED
                BY <3>0, <4>1 DEF NextItem, TGoto
        <3> QED
            BY <1>3, <3>1, <3>2, <3>3, <3>4, <3>5, <3>6 DEF Thread
    <2>4. tpc'[t] = "sleep" => ~Pending(t)
        <3>0. \A q : TGoto(t, q) => tpc'[t] = q
            BY DEF TGoto, TypeOK
        <3>1. CASE ThreadCheck(t)
            <4>1. CASE Begin(t)
                BY <3>0, <4>1 DEF Begin
            <4>2. CASE ~Pending(t)
                BY <4>2
            <4> QED
                BY <3>1, <4>1, <4>2 DEF ThreadCheck
        <3>2. CASE ThreadLoop(t) \/ ThreadWake(t) \/ ThreadProc(t)
            BY <3>0, <3>2 DEF ThreadLoop, ThreadWake, ThreadProc, Begin
        <3>3. CASE MonitorRead(t) \/ MonitorClear(t)
            BY <3>0, <3>3 DEF MonitorRead, MonitorClear
        <3>4. CASE MonitorEnd(t) \/ Serve(t)
            <4>1. NextItem(t)
                BY <3>4 DEF MonitorEnd, Serve
            <4> QED
                BY <3>0, <4>1 DEF NextItem
        <3> QED
            BY <1>3, <3>1, <3>2, <3>3, <3>4 DEF Thread
    <2>5. \A e \in Engines : epc[e] = "ready" /\ slot[e] = t /\ listed[e] => Pending(t)
        BY DEF WorkInv, Holds, Pending
    <2>6. ASSUME NEW e \in Engines, Wait(e)'
          PROVE  Woken(slot[e])'
        <3>1. Wait(e)
            BY <2>1, <2>2, <2>6
        <3>2. CASE slot[e] = t
            BY <2>1, <2>4, <2>5, <3>1, <3>2
        <3>3. CASE slot[e] # t
            <4>1. slot[e] \in Threads
                BY DEF TypeOK
            <4> QED
                BY <1>0, <2>1, <2>3, <3>1, <3>3, <4>1
        <3> QED
            BY <3>2, <3>3
    <2> QED
        BY <1>1, <1>2, <2>1, <2>6
<1>4. ASSUME NEW e \in Engines, Life(e)
      PROVE  WakeInv'
    <2>1. UNCHANGED <<tpc, schedule, listed, spc>>
        BY <1>4 DEF Life, AddWorkScan, AddWork, AddWorkDone, RemoveWork,
            RemoveWorkList, thrVars, engVars, subVars
    <2>2. \A x \in Engines \ {e} :
            epc'[x] = epc[x] /\ cmplthp'[x] = cmplthp[x] /\ slot'[x] = slot[x]
        <3>1. CASE AddWorkScan(e) \/ AddWork(e)
            BY <1>f, <3>1 DEF AddWorkScan, AddWork
        <3>2. CASE AddWorkDone(e) \/ RemoveWork(e) \/ RemoveWorkList(e)
            BY <1>f, <3>2 DEF AddWorkDone, RemoveWork, RemoveWorkList
        <3> QED
            BY <1>4, <3>1, <3>2 DEF Life
    <2>3. Own(e)' /\ (epc'[e] = "ready" => spc[e] = "idle")
        <3>1. CASE AddWorkDone(e)
            BY <1>0, <2>1, <3>1 DEF AddWorkDone, TypeOK
        <3>2. CASE RemoveWork(e)
            BY <1>0, <2>1, <3>2 DEF RemoveWork, TypeOK
        <3>3. CASE AddWorkScan(e) \/ AddWork(e) \/ RemoveWorkList(e)
            <4>1. epc[e] # "ready" /\ epc'[e] # "ready"
                BY <1>f, <3>3 DEF AddWorkScan, AddWork, RemoveWorkList
            <4> QED
                BY <1>0, <2>1, <4>1
        <3> QED
            BY <1>4, <3>1, <3>2, <3>3 DEF Life
    <2>4. ASSUME NEW x \in Engines, Wait(x)'
          PROVE  Woken(slot[x])'
        <3>1. x # e
            BY <2>1, <2>3, <2>4
        <3> QED
            BY <1>0, <2>1, <2>2, <2>4, <3>1
    <2> QED
        BY <1>0, <1>1, <2>1, <2>2, <2>3, <2>4
<1>5. ASSUME NEW e \in Engines, NEW n \in Sizes, Submit(e, n)
      PROVE  WakeInv'
    <2>1. /\ UNCHANGED <<tpc, schedule, epc, cmplthp, slot>>
          /\ epc[e] = "ready"
          /\ spc' = [spc EXCEPT ![e] = "wake"]
          /\ listed' = [listed EXCEPT ![e] = TRUE]
        BY <1>5 DEF Submit, SGoto, thrVars, lifeVars
    <2>2. \A x \in Engines : Own(x)'
        BY <1>0, <1>f, <2>1
    <2>3. ASSUME NEW x \in Engines, Wait(x)'
          PROVE  Woken(slot[x])'
        <3>1. x # e /\ listed'[x] = listed[x] /\ spc'[x] = spc[x]
            BY <1>f, <2>1, <2>3
        <3> QED
            BY <1>0, <2>1, <2>3, <3>1
    <2> QED
        BY <1>1, <2>2, <2>3
<1>6. ASSUME NEW e \in Engines, SubmitWake(e)
      PROVE  WakeInv'
    <2>1. /\ UNCHANGED <<tpc, epc, cmplthp, slot, listed>>
          /\ spc[e] = "wake"
          /\ spc' = [spc EXCEPT ![e] = "wait"]
          /\ schedule' = [schedule EXCEPT ![cmplthp[e]] = TRUE]
        BY <1>6 DEF SubmitWake, WakeThread, SGoto, lifeVars, engVars
    <2>2. cmplthp[e] = slot[e] /\ epc[e] = "ready"
        BY <1>0, <2>1
    <2>3. \A x \in Engines : Own(x)'
        BY <1>0, <1>f, <2>1, <2>2
    <2>4. ASSUME NEW x \in Engines, Wait(x)'
          PROVE  Woken(slot[x])'
        <3>1. slot[x] \in Threads /\ slot[e] \in Threads
            BY DEF TypeOK
        <3>2. CASE slot[x] = slot[e]
            <4>1. schedule'[slot[e]] = TRUE
                BY <2>1, <2>2, <3>1 DEF TypeOK
            <4> QED
                BY <2>1, <3>2, <4>1
        <3>3. CASE slot[x] # slot[e]
            <4>1. schedule'[slot[x]] = schedule[slot[x]] /\ spc'[x] = spc[x]
                BY <2>1, <2>2, <3>1, <3>3 DEF TypeOK
            <4> QED
                BY <1>0, <2>1, <2>4, <4>1
        <3> QED
            BY <3>2, <3>3
    <2> QED
        BY <1>1, <2>3, <2>4
<1>7. ASSUME NEW e \in Engines, SubmitEnd(e)
      PROVE  WakeInv'
    <2>1. /\ UNCHANGED <<tpc, schedule, epc, cmplthp, slot>>
          /\ spc' = [spc EXCEPT ![e] = "idle"]
          /\ UNCHANGED listed \/ listed' = [listed EXCEPT ![e] = FALSE]
        BY <1>7 DEF SubmitEnd, SGoto, thrVars, lifeVars, engVars
    <2>2. \A x \in Engines : Own(x)'
        BY <1>0, <1>f, <2>1
    <2>3. ASSUME NEW x \in Engines, Wait(x)'
          PROVE  Woken(slot[x])'
        <3>1. x # e /\ listed[x] /\ spc'[x] = spc[x]
            BY <1>f, <2>1, <2>3
        <3> QED
            BY <1>0, <2>1, <2>3, <3>1
    <2> QED
        BY <1>1, <2>2, <2>3
<1>8. ASSUME UNCHANGED <<tpc, epc, cmplthp, slot, listed, spc>>,
             \A u \in Threads : schedule[u] => schedule'[u]
      PROVE  WakeInv'
    <2>1. ASSUME NEW x \in Engines, Wait(x)'
          PROVE  Woken(slot[x])'
        <3>1. slot[x] \in Threads
            BY DEF TypeOK
        <3> QED
            BY <1>0, <1>8, <2>1, <3>1
    <2> QED
        BY <1>1, <1>2, <1>8, <2>1
<1>9. ASSUME NEW e \in Engines, Hardware(e) \/ \E c \in 0..2 : HwError(e, c)
      PROVE  WakeInv'
    BY <1>8, <1>9 DEF Hardware, HwRun, HwLast, HwError, thrVars, lifeVars,
        subVars, engVars
<1>10. CASE Stopping
    <2>1. UNCHANGED <<tpc, epc, cmplthp, slot, listed, spc>>
        BY <1>10 DEF Stopping, StopSchedule, StopFlag, StopJoin, thrVars, engVars,
            subVars
    <2>2. UNCHANGED schedule \/ \E t : schedule' = [schedule EXCEPT ![t] = TRUE]
        BY <1>10 DEF Stopping, StopSchedule, StopFlag, StopJoin, thrVars
    <2> QED
        BY <1>8, <1>f, <2>1, <2>2
<1>11. CASE UNCHANGED vars
    BY <1>8, <1>11 DEF vars, thrVars, lifeVars, subVars, engVars
<1> QED
    BY <1>3, <1>4, <1>5, <1>6, <1>7, <1>9, <1>10, <1>11 DEF Next, Submitter

(* The lists, the locks and the wake-ups are right in every state, for any *)
(* number of engines and threads and every fault.                          *)
THEOREM ThreadInvariance == Spec => [](TypeOK /\ WorkInv /\ WakeInv)
<1>1. Init => TypeOK /\ WorkInv /\ WakeInv
    <2> SUFFICES ASSUME Init PROVE TypeOK /\ WorkInv /\ WakeInv
        OBVIOUS
    <2>1. TypeOK
        BY NumThreadsAssumption, MaxCallsAssumption
        DEF Init, TypeOK, NoWb, Wb, Threads
    <2>2. WorkInv
        BY DEF Init, WorkInv, HandInv, Holds, Busy
    <2>3. WakeInv
        BY DEF Init, WakeInv, NoLostWakeup
    <2> QED
        BY <2>1, <2>2, <2>3
<1>2. TypeOK /\ WorkInv /\ WakeInv /\ [Next]_vars => (TypeOK /\ WorkInv /\ WakeInv)'
    BY TypeStep, WorkStep, WakeStep
<1> QED
    BY <1>1, <1>2, PTL DEF Spec

(* xdma_thread_add_work() and xdma_thread_remove_work() keep every list    *)
(* exact, and no thread works on an engine that has been removed.          *)
THEOREM WorkListsAreExact == Spec => []WorkIsExact
<1>1. TypeOK /\ WorkInv => WorkIsExact
    <2> SUFFICES ASSUME TypeOK, WorkInv PROVE WorkIsExact
        OBVIOUS
    <2>1. ASSUME NEW e \in Engines, epc[e] \in {"absent", "gone"},
                 NEW t \in Threads, NEW i \in 1..Len(todo[t])
          PROVE  todo[t][i] # e
        <3>1. Holds(t, todo[t][i])
            BY DEF WorkInv, HandInv
        <3>2. ~Holds(t, e)
            BY <2>1 DEF WorkInv
        <3> QED
            BY <3>1, <3>2
    <2> QED
        BY <2>1 DEF WorkIsExact, WorkInv
<1> QED
    BY <1>1, ThreadInvariance, PTL

(* xthread_main() tests its lists before it sleeps and a submitter sets    *)
(* thp->schedule after it has listed: no listed transfer is slept over.    *)
THEOREM NoWakeupIsLost == Spec => []NoLostWakeup
<1>1. WakeInv => NoLostWakeup
    BY DEF WakeInv
<1> QED
    BY <1>1, ThreadInvariance, PTL

(* Two threads never work on the same engine.                              *)
LEMMA OneHand ==
    ASSUME TypeOK, WorkInv, NEW t \in Threads, NEW u \in Threads,
           todo[t] # <<>>, todo[u] # <<>>, Head(todo[t]) = Head(todo[u])
    PROVE  t = u
<1>1. /\ Head(todo[t]) \in Engines
      /\ Holds(t, Head(todo[t])) /\ Holds(u, Head(todo[t]))
    BY ItemInHand
<1> QED
    BY <1>1 DEF WorkInv

(* Without timeouts MoveInv is inductive: a write-back belongs to the      *)
(* transfer on the list, and the monitor that has read one keeps the       *)
(* transfer there until it serves it.                                      *)
LEMMA MoveStep ==
    ASSUME "timeout" \notin Faults,
           TypeOK, TypeOK', WorkInv, MoveInv, [Next]_vars
    PROVE  MoveInv'
<1> DEFINE M(u) == todo[u] # <<>> => MonInv(u, Head(todo[u]))
<1>0. /\ \A x \in Engines : WbInv(x)
      /\ \A u \in Threads : M(u)
    BY DEF MoveInv
<1>1. ASSUME \A x \in Engines : WbInv(x)', \A u \in Threads : M(u)'
      PROVE  MoveInv'
    BY <1>1 DEF MoveInv
<1>2. /\ listed = [x \in Engines |-> listed[x]] /\ DOMAIN listed = Engines
      /\ state = [x \in Engines |-> state[x]] /\ DOMAIN state = Engines
      /\ running = [x \in Engines |-> running[x]] /\ DOMAIN running = Engines
      /\ spc = [x \in Engines |-> spc[x]] /\ DOMAIN spc = Engines
      /\ num = [x \in Engines |-> num[x]] /\ DOMAIN num = Engines
      /\ hw = [x \in Engines |-> hw[x]] /\ DOMAIN hw = Engines
      /\ wb = [x \in Engines |-> wb[x]] /\ DOMAIN wb = Engines
      /\ moved = [x \in Engines |-> moved[x]] /\ DOMAIN moved = Engines
    BY DEF TypeOK
<1>3. /\ tpc = [u \in Threads |-> tpc[u]] /\ DOMAIN tpc = Threads
      /\ todo = [u \in Threads |-> todo[u]] /\ DOMAIN todo = Threads
      /\ expected = [u \in Threads |-> expected[u]] /\ DOMAIN expected = Threads
      /\ got = [u \in Threads |-> got[u]] /\ DOMAIN got = Threads
    BY DEF TypeOK
<1>4. ASSUME NEW x \in Engines, listed'[x] = listed[x], state'[x] = state[x],
             running'[x] = running[x], spc'[x] = spc[x], num'[x] = num[x],
             hw'[x] = hw[x], wb'[x] = wb[x], moved'[x] = moved[x]
      PROVE  WbInv(x)'
    <2>1. WbInv(x)
        BY <1>0
    <2> QED
        BY <1>4, <2>1 DEF WbInv, NoWb
<1>5. ASSUME NEW u \in Threads, todo'[u] = todo[u], tpc'[u] = tpc[u],
             expected'[u] = expected[u], got'[u] = got[u],
             todo[u] # <<>> =>
                LET x == Head(todo[u]) IN
                /\ listed'[x] = listed[x] /\ num'[x] = num[x] /\ hw'[x] = hw[x]
                /\ wb'[x] = wb[x] /\ moved'[x] = moved[x]
      PROVE  M(u)'
    <2>1. CASE todo[u] = <<>>
        BY <1>5, <2>1
    <2>2. CASE todo[u] # <<>>
        <3>1. MonInv(u, Head(todo[u]))
            BY <1>0, <2>2
        <3> QED
            BY <1>5, <2>2, <3>1 DEF MonInv, NoWb
    <2> QED
        BY <2>1, <2>2
<1>6. ASSUME NEW u \in Threads, tpc'[u] \notin {"monitor", "clear", "serve"}
      PROVE  M(u)'
    BY <1>6 DEF MonInv
<1>7. ASSUME NEW t \in Threads, Thread(t)
      PROVE  MoveInv'
    <2>1. UNCHANGED <<spc, num, moved>>
        BY <1>7 DEF Thread, ThreadLoop, ThreadCheck, ThreadWake, ThreadProc,
            MonitorRead, MonitorClear, MonitorEnd, Serve, Begin, subVars, hwVars
    <2>2. ASSUME UNCHANGED <<listed, state, running, hw, wb>>,
                 \A u \in Threads \ {t} :
                    /\ todo'[u] = todo[u] /\ tpc'[u] = tpc[u]
                    /\ expected'[u] = expected[u] /\ got'[u] = got[u],
                 M(t)'
          PROVE  MoveInv'
        <3>1. \A x \in Engines : WbInv(x)'
            BY <1>4, <2>1, <2>2
        <3>2. \A u \in Threads \ {t} : M(u)'
            BY <1>5, <2>1, <2>2
        <3> QED
            BY <1>1, <2>2, <3>1, <3>2
    <2>3. CASE ThreadLoop(t) \/ ThreadCheck(t) \/ ThreadWake(t)
        <3>1. UNCHANGED <<listed, state, running, hw, wb, expected, got>>
            BY <2>3 DEF ThreadLoop, ThreadCheck, ThreadWake, Begin, engVars, hwVars
        <3>2. /\ \E q \in {"exit", "check", "sleep", "proc"} :
                    tpc' = [tpc EXCEPT ![t] = q]
              /\ UNCHANGED todo \/ \E q : todo' = [todo EXCEPT ![t] = q]
            BY <2>3 DEF ThreadLoop, ThreadCheck, ThreadWake, Begin, TGoto
        <3>3. M(t)'
            <4>1. tpc'[t] \notin {"monitor", "clear", "serve"}
                BY <1>3, <3>2
            <4> QED
                BY <1>6, <4>1
        <3>4. \A u \in Threads \ {t} : todo'[u] = todo[u] /\ tpc'[u] = tpc[u]
            BY <1>3, <3>2
        <3> QED
            BY <2>2, <3>1, <3>3, <3>4
    <2>4. CASE ThreadProc(t)
        <3>1. UNCHANGED <<listed, state, running, hw, wb, todo, got>>
            BY <2>4 DEF ThreadProc, engVars, hwVars
        <3>2. CASE todo[t] = <<>>
            <4>1. UNCHANGED expected /\ tpc' = [tpc EXCEPT ![t] = "loop"]
                BY <2>4, <3>2 DEF ThreadProc, TGoto
            <4>2. M(t)'
                BY <3>1, <3>2
            <4>3. \A u \in Threads \ {t} : tpc'[u] = tpc[u]
                BY <1>3, <4>1
            <4> QED
                BY <2>2, <3>1, <4>1, <4>2, <4>3
        <3>3. CASE todo[t] # <<>>
            <4> DEFINE e == Head(todo[t])
            <4>1. /\ expected' = [expected EXCEPT ![t] = Expected(e)]
                  /\ tpc' = [tpc EXCEPT ![t] = "monitor"]
                BY <2>4, <3>3 DEF ThreadProc, TGoto
            <4>2. /\ \A u \in Threads \ {t} :
                        tpc'[u] = tpc[u] /\ expected'[u] = expected[u]
                  /\ tpc'[t] = "monitor" /\ expected'[t] = Expected(e)
                BY <1>3, <4>1
            <4>3. M(t)'
                <5>1. MonInv(t, e)'
                    BY <2>1, <3>1, <4>2 DEF MonInv, Expected
                <5> QED
                    BY <5>1
            <4> QED
                BY <2>2, <3>1, <4>2, <4>3
        <3> QED
            BY <3>2, <3>3
    <2>5. ASSUME tpc[t] \in {"monitor", "clear", "serve"}
          PROVE  /\ todo[t] # <<>>
                 /\ Head(todo[t]) \in Engines
                 /\ WbInv(Head(todo[t]))
                 /\ MonInv(t, Head(todo[t]))
                 /\ \A u \in Threads \ {t} :
                        todo[u] # <<>> =>
                            Head(todo[u]) \in Engines \ {Head(todo[t])}
        <3>1. todo[t] # <<>>
            BY <2>5 DEF WorkInv, HandInv
        <3>2. Head(todo[t]) \in Engines
            BY <3>1, ItemInHand
        <3>3. \A u \in Threads \ {t} : todo[u] # <<>> =>
                Head(todo[u]) \in Engines /\ Head(todo[u]) # Head(todo[t])
            BY <3>1, ItemInHand, OneHand
        <3> QED
            BY <1>0, <3>1, <3>2, <3>3
    <2>6. CASE MonitorRead(t)
        <3> DEFINE e == Head(todo[t])
        <3>1. /\ UNCHANGED <<listed, state, running, hw, wb, todo, expected>>
              /\ tpc[t] = "monitor" /\ expected[t] # 0 /\ wb[e] # NoWb
              /\ got' = [got EXCEPT ![t] = wb[e]]
              /\ tpc' = [tpc EXCEPT ![t] = "clear"]
            BY <2>6 DEF MonitorRead, TGoto, engVars, hwVars
        <3>2. /\ \A u \in Threads \ {t} : tpc'[u] = tpc[u] /\ got'[u] = got[u]
              /\ tpc'[t] = "clear" /\ got'[t] = wb[e]
            BY <1>3, <3>1
        <3>3. MonInv(t, e) /\ WbInv(e) /\ e \in Engines
            BY <2>5, <3>1
        <3>4. /\ listed[e] /\ expected[t] = num[e]
              /\ hw[e] = "idle"
              /\ ~wb[e].err => wb[e].count = num[e] /\ moved[e]
            BY <3>1, <3>3 DEF MonInv, WbInv
        <3>5. M(t)'
            <4>1. MonInv(t, e)'
                BY <2>1, <3>1, <3>2, <3>4 DEF MonInv
            <4> QED
                BY <4>1
        <3> QED
            BY <2>2, <3>1, <3>2, <3>5
    <2>7. CASE MonitorClear(t)
        <3>0. PICK e \in Engines : e = Head(todo[t])
            BY <2>5, <2>7 DEF MonitorClear
        <3>1. /\ UNCHANGED <<listed, state, running, hw, todo, expected, got>>
              /\ tpc[t] = "clear"
              /\ wb' = [wb EXCEPT ![e] = NoWb]
              /\ \E q \in {"serve", "monitor"} : tpc' = [tpc EXCEPT ![t] = q]
            BY <2>7, <3>0 DEF MonitorClear, TGoto, engVars
        <3>2. /\ \A u \in Threads \ {t} : tpc'[u] = tpc[u]
              /\ tpc'[t] \in {"serve", "monitor"}
            BY <1>3, <3>1
        <3>3. MonInv(t, e) /\ WbInv(e) /\ e \in Engines
            BY <2>5, <3>0, <3>1
        <3>4. wb'[e] = NoWb /\ \A x \in Engines \ {e} : wb'[x] = wb[x]
            BY <1>2, <3>1, <3>3
        <3>5. M(t)'
            <4>1. MonInv(t, e)'
                BY <2>1, <3>1, <3>2, <3>3, <3>4 DEF MonInv, NoWb
            <4>2. Head(todo'[t]) = e
                BY <3>0, <3>1
            <4> QED
                BY <4>1, <4>2 DEF MonInv
        <3>6. WbInv(e)'
            BY <2>1, <3>1, <3>3, <3>4 DEF WbInv, NoWb
        <3>7. \A x \in Engines \ {e} : WbInv(x)'
            BY <1>4, <2>1, <3>1, <3>4
        <3>8. \A u \in Threads \ {t} : M(u)'
            <4> TAKE u \in Threads \ {t}
            <4>1. todo[u] # <<>> => wb'[Head(todo[u])] = wb[Head(todo[u])]
                BY <2>5, <3>0, <3>1, <3>4
            <4> QED
                BY <1>5, <2>1, <3>1, <3>2, <4>1
        <3> QED
            BY <1>1, <3>5, <3>6, <3>7, <3>8
    <2>8. ASSUME NextItem(t)
          PROVE  /\ M(t)'
                 /\ \A u \in Threads \ {t} :
                    /\ todo'[u] = todo[u] /\ tpc'[u] = tpc[u]
                    /\ expected'[u] = expected[u] /\ got'[u] = got[u]
        <3>1. /\ tpc'[t] = "proc"
              /\ \A u \in Threads \ {t} :
                    /\ todo'[u] = todo[u] /\ tpc'[u] = tpc[u]
                    /\ expected'[u] = expected[u] /\ got'[u] = got[u]
            BY <1>3, <2>8 DEF NextItem, TGoto
        <3> QED
            BY <1>6, <3>1
    <2>9. CASE MonitorEnd(t)
        <3>1. NextItem(t) /\ UNCHANGED <<listed, state, running, hw, wb>>
            BY <2>9 DEF MonitorEnd, engVars, hwVars
        <3> QED
            BY <2>2, <2>8, <3>1
    <2>10. CASE Serve(t)
        <3>0. PICK e \in Engines : e = Head(todo[t])
            BY <2>5, <2>10 DEF Serve
        <3> DEFINE count == IF got[t].count # 0 THEN got[t].count ELSE hw_err[e]
        <3>1. NextItem(t) /\ UNCHANGED wb /\ tpc[t] = "serve"
            BY <2>10 DEF Serve
        <3>2. MonInv(t, e) /\ WbInv(e) /\ e \in Engines
            BY <2>5, <3>0, <3>1
        <3>3. CASE ~running[e]
            <4>1. UNCHANGED <<listed, state, running, hw>>
                BY <2>10, <3>0, <3>3 DEF Serve, engVars
            <4> QED
                BY <2>2, <2>8, <3>1, <4>1
        <3>4. CASE running[e]
            <4>1. /\ running' = [running EXCEPT ![e] = FALSE]
                  /\ hw' = [hw EXCEPT ![e] = IF @ = "run" THEN "idle" ELSE @]
                  /\ \/ UNCHANGED <<state, listed>>
                     \/ /\ state' = [state EXCEPT ![e] = Outcome(e, count, got[t].err)]
                        /\ listed' = [listed EXCEPT ![e] = FALSE]
                BY <2>10, <3>0, <3>4 DEF Serve
            <4>2. hw'[e] = "idle"
                BY <1>2, <3>1, <3>2, <4>1 DEF MonInv
            <4>3. /\ listed'[e] => listed[e]
                  /\ listed'[e] <=> state'[e] = "SUBMITTED"
                  /\ state'[e] = "COMPLETED" => moved[e]
                <5>1. CASE UNCHANGED <<state, listed>>
                    BY <3>2, <5>1 DEF WbInv
                <5>2. CASE /\ state' = [state EXCEPT ![e] = Outcome(e, count, got[t].err)]
                           /\ listed' = [listed EXCEPT ![e] = FALSE]
                    <6>1. state'[e] = Outcome(e, count, got[t].err) /\ ~listed'[e]
                        BY <1>2, <3>2, <5>2
                    <6>2. Outcome(e, count, got[t].err) = "COMPLETED" => moved[e]
                        BY <3>1, <3>2 DEF MonInv, Outcome
                    <6>3. Outcome(e, count, got[t].err) # "SUBMITTED"
                        BY DEF Outcome
                    <6> QED
                        BY <6>1, <6>2, <6>3
                <5> QED
                    BY <4>1, <5>1, <5>2
            <4>4. WbInv(e)'
                <5>1. wb[e] = NoWb
                    BY <3>1, <3>2 DEF MonInv
                <5> QED
                    BY <2>1, <3>1, <3>2, <4>2, <4>3, <5>1 DEF WbInv, NoWb
            <4>5. \A x \in Engines \ {e} :
                    /\ listed'[x] = listed[x] /\ state'[x] = state[x]
                    /\ running'[x] = running[x] /\ hw'[x] = hw[x]
                BY <1>2, <4>1
            <4>6. \A x \in Engines \ {e} : WbInv(x)'
                BY <1>4, <2>1, <3>1, <4>5
            <4>7. \A u \in Threads \ {t} : M(u)'
                <5> TAKE u \in Threads \ {t}
                <5>1. todo[u] # <<>> =>
                        LET x == Head(todo[u]) IN
                        /\ listed'[x] = listed[x] /\ num'[x] = num[x]
                        /\ hw'[x] = hw[x] /\ wb'[x] = wb[x] /\ moved'[x] = moved[x]
                    BY <2>1, <2>5, <3>0, <3>1, <4>5
                <5> QED
                    BY <1>5, <2>8, <3>1, <5>1
            <4> QED
                BY <1>1, <2>8, <3>1, <4>4, <4>6, <4>7
        <3> QED
            BY <3>3, <3>4
    <2> QED
        BY <1>7, <2>3, <2>4, <2>6, <2>7, <2>9, <2>10 DEF Thread
<1>8. ASSUME UNCHANGED <<tpc, todo, expected, got>>, NEW e \in Engines,
             \A x \in Engines \ {e} :
                /\ listed'[x] = listed[x] /\ state'[x] = state[x]
                /\ running'[x] = running[x] /\ spc'[x] = spc[x]
                /\ num'[x] = num[x] /\ hw'[x] = hw[x] /\ wb'[x] = wb[x]
                /\ moved'[x] = moved[x],
             WbInv(e)',
             \A u \in Threads : MonInv(u, e) => MonInv(u, e)'
      PROVE  MoveInv'
    <2>1. \A x \in Engines \ {e} : WbInv(x)'
        BY <1>4, <1>8
    <2>2. \A u \in Threads : M(u)'
        <3> TAKE u \in Threads
        <3>1. CASE todo[u] = <<>>
            BY <1>8, <3>1
        <3>2. CASE todo[u] # <<>> /\ Head(todo[u]) = e
            <4>1. MonInv(u, e)'
                BY <1>0, <1>8, <3>2
            <4>2. Head(todo'[u]) = e
                BY <1>8, <3>2
            <4> QED
                BY <4>1, <4>2 DEF MonInv
        <3>3. CASE todo[u] # <<>> /\ Head(todo[u]) # e
            <4>1. Head(todo[u]) \in Engines \ {e}
                BY <3>3, ItemInHand
            <4> QED
                BY <1>5, <1>8, <4>1
        <3> QED
            BY <3>1, <3>2, <3>3
    <2> QED
        BY <1>1, <1>8, <2>1, <2>2
<1>9. ASSUME NEW e \in Engines, NEW n \in Sizes, Submit(e, n)
      PROVE  MoveInv'
    <2>1. /\ UNCHANGED <<tpc, todo, expected, got, wb>>
          /\ spc[e] = "idle"
          /\ num' = [num EXCEPT ![e] = n]
          /\ state' = [state EXCEPT ![e] = "SUBMITTED"]
          /\ listed' = [listed EXCEPT ![e] = TRUE]
          /\ running' = [running EXCEPT ![e] = TRUE]
          /\ hw' = [hw EXCEPT ![e] = "run"]
          /\ moved' = [moved EXCEPT ![e] = FALSE]
          /\ spc' = [spc EXCEPT ![e] = "wake"]
        BY <1>9 DEF Submit, SGoto, thrVars
    <2>2. /\ num'[e] = n /\ state'[e] = "SUBMITTED" /\ listed'[e] /\ running'[e]
          /\ hw'[e] = "run" /\ spc'[e] = "wake" /\ wb'[e] = wb[e]
        BY <1>2, <2>1
    <2>3. \A x \in Engines \ {e} :
                /\ listed'[x] = listed[x] /\ state'[x] = state[x]
                /\ running'[x] = running[x] /\ spc'[x] = spc[x]
                /\ num'[x] = num[x] /\ hw'[x] = hw[x] /\ wb'[x] = wb[x]
                /\ moved'[x] = moved[x]
        BY <1>2, <2>1
    <2>4. n > 0
        BY SizesAssumption
    <2>5. ~listed[e] /\ wb[e] = NoWb
        BY <1>0, <2>1 DEF WbInv
    <2>6. WbInv(e)'
        BY <2>2, <2>4, <2>5 DEF WbInv, NoWb
    <2>7. \A u \in Threads : MonInv(u, e) => MonInv(u, e)'
        <3> TAKE u \in Threads
        <3>1. MonInv(u, e) => tpc[u] # "clear" /\ tpc[u] # "serve"
                              /\ (tpc[u] = "monitor" => expected[u] = 0)
            BY <2>5 DEF MonInv
        <3>2. tpc'[u] = tpc[u] /\ expected'[u] = expected[u]
            BY <2>1
        <3> QED
            BY <3>1, <3>2 DEF MonInv
    <2> QED
        BY <1>8, <2>1, <2>3, <2>6, <2>7
<1>10. ASSUME NEW e \in Engines, SubmitWake(e) \/ SubmitEnd(e)
       PROVE  MoveInv'
    <2>1. /\ UNCHANGED <<tpc, todo, expected, got, num, listed, state, running,
                         hw, wb, moved>>
          /\ \/ spc' = [spc EXCEPT ![e] = "wait"] /\ spc[e] = "wake"
             \/ spc' = [spc EXCEPT ![e] = "idle"] /\ state[e] # "SUBMITTED"
        BY <1>10 DEF SubmitWake, SubmitEnd, SGoto, thrVars, engVars, hwVars
    <2>2. \A x \in Engines \ {e} : spc'[x] = spc[x]
        BY <1>2, <2>1
    <2>3. spc'[e] = "idle" => state[e] # "SUBMITTED"
        BY <1>2, <2>1
    <2>4. WbInv(e)'
        <3>1. WbInv(e)
            BY <1>0
        <3> QED
            BY <2>1, <2>3, <3>1 DEF WbInv, NoWb
    <2>5. \A u \in Threads : MonInv(u, e) => MonInv(u, e)'
        BY <2>1 DEF MonInv, NoWb
    <2> QED
        BY <1>8, <2>1, <2>2, <2>4, <2>5
<1>11. ASSUME NEW e \in Engines, Hardware(e) \/ \E c \in 0..2 : HwError(e, c)
       PROVE  MoveInv'
    <2>1. UNCHANGED <<tpc, todo, expected, got, num, listed, state, running, spc>>
        BY <1>11 DEF Hardware, HwRun, HwLast, HwError, thrVars, subVars, engVars
    <2>2. hw[e] # "idle"
        BY <1>11 DEF Hardware, HwRun, HwLast, HwError
    <2>3. WbInv(e) /\ listed[e] /\ running[e] /\ wb[e] = NoWb
        BY <1>0, <2>2 DEF WbInv
    <2>4. \A x \in Engines \ {e} :
            hw'[x] = hw[x] /\ wb'[x] = wb[x] /\ moved'[x] = moved[x]
        <3>1. CASE HwRun(e) \/ HwLast(e)
            BY <1>2, <3>1 DEF HwRun, HwLast
        <3>2. CASE \E c \in 0..2 : HwError(e, c)
            BY <1>2, <3>2 DEF HwError
        <3> QED
            BY <1>11, <3>1, <3>2 DEF Hardware
    <2>5. \/ hw'[e] = "last" /\ wb'[e] = wb[e] /\ moved'[e] = moved[e]
          \/ /\ hw'[e] = "idle" /\ moved'[e]
             /\ wb'[e] = [count |-> num[e], err |-> FALSE]
          \/ /\ hw'[e] = "idle" /\ moved'[e] = moved[e]
             /\ \E c \in 0..2 : wb'[e] = [count |-> c, err |-> TRUE]
        <3>1. CASE HwRun(e)
            BY <1>2, <3>1 DEF HwRun
        <3>2. CASE HwLast(e)
            BY <1>2, <3>2 DEF HwLast
        <3>3. CASE \E c \in 0..2 : HwError(e, c)
            BY <1>2, <3>3 DEF HwError
        <3> QED
            BY <1>11, <3>1, <3>2, <3>3 DEF Hardware
    <2>6. WbInv(e)'
        <3>1. state[e] = "SUBMITTED" /\ num[e] > 0 /\ spc[e] # "idle"
            BY <2>3 DEF WbInv
        <3>2. /\ wb'[e] # NoWb /\ ~wb'[e].err => wb'[e].count = num[e] /\ moved'[e]
              /\ hw'[e] # "idle" => wb'[e] = NoWb
            BY <2>3, <2>5
        <3> QED
            BY <2>1, <2>3, <3>1, <3>2 DEF WbInv, NoWb
    <2>7. \A u \in Threads : MonInv(u, e) => MonInv(u, e)'
        BY <2>1, <2>2 DEF MonInv
    <2> QED
        BY <1>8, <2>1, <2>4, <2>6, <2>7
<1>12. ASSUME UNCHANGED <<tpc, todo, expected, got, engVars, spc, num, hw, wb, moved>>
       PROVE  MoveInv'
    BY <1>1, <1>4, <1>5, <1>12 DEF engVars
<1>13. ASSUME NEW e \in Engines, Life(e)
       PROVE  MoveInv'
    BY <1>12, <1>13 DEF Life, AddWorkScan, AddWork, AddWorkDone, RemoveWork,
        RemoveWorkList, thrVars, subVars, hwVars
<1>14. CASE Stopping
    BY <1>12, <1>14 DEF Stopping, StopSchedule, StopFlag, StopJoin, thrVars,
        subVars, hwVars
<1>15. CASE UNCHANGED vars
    BY <1>12, <1>15 DEF vars, thrVars, subVars, hwVars
<1> QED
    BY <1>7, <1>9, <1>10, <1>11, <1>13, <1>14, <1>15 DEF Next, Submitter

(* Polled mode reports COMPLETED only for what the hardware has moved, if  *)
(* no wait of a submitter ends early (after one that does, a late          *)
(* write-back completes the next transfer: see the README).                *)
THEOREM PolledTransfersAreMoved ==
    "timeout" \notin Faults => (Spec => []PolledIsMoved)
<1> SUFFICES ASSUME "timeout" \notin Faults
             PROVE  Spec => []PolledIsMoved
    OBVIOUS
<1>1. Init => MoveInv
    BY DEF Init, MoveInv, WbInv, MonInv, NoWb
<1>2. TypeOK /\ TypeOK' /\ WorkInv /\ MoveInv /\ [Next]_vars => MoveInv'
    BY MoveStep
<1>3. MoveInv => PolledIsMoved
    BY DEF MoveInv, WbInv, PolledIsMoved
<1> QED
    BY <1>1, <1>2, <1>3, ThreadInvariance, PTL DEF Spec

=============================================================================
