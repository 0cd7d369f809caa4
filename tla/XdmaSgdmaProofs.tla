--------------------------- MODULE XdmaSgdmaProofs ---------------------------
(***************************************************************************)
(* Proofs about XdmaSgdma for any number of processes and every fault: who *)
(* has the device open, what a performance run consists of, the addressing *)
(* mode the hardware uses, and what each kind of damage needs.             *)
(***************************************************************************)
EXTENDS XdmaSgdma, FiniteSetTheorems, SequenceTheorems, TLAPS

(* Of a finite set with no more than one element.                          *)
LEMMA AtMostOne ==
    ASSUME NEW S, IsFiniteSet(S), ~(Cardinality(S) > 1), NEW a \in S, NEW b \in S
    PROVE  a = b
<1> SUFFICES ASSUME a # b PROVE FALSE
    OBVIOUS
<1>1. IsFiniteSet({a, b}) /\ Cardinality({a, b}) <= Cardinality(S)
    BY FS_Subset
<1>2. IsFiniteSet({a}) /\ Cardinality({a}) = 1
    BY FS_Singleton
<1>3. {a, b} = {a} \cup {b}
    OBVIOUS
<1>4. Cardinality({a} \cup {b}) = Cardinality({a}) + 1
    BY <1>2, FS_AddElement
<1>5. Cardinality(S) \in Nat
    BY FS_CardinalityType
<1> QED
    BY <1>1, <1>2, <1>3, <1>4, <1>5

(* RemoveAt() of a sequence drops one element and keeps the others' order: *)
(* list_del() of engine_cyclic_stop().                                     *)
LEMMA RemoveAtFacts ==
    ASSUME NEW S, NEW s \in Seq(S), NEW i \in 1..Len(s)
    PROVE  /\ RemoveAt(s, i) \in Seq(S)
           /\ Len(RemoveAt(s, i)) = Len(s) - 1
           /\ \A j \in 1..(Len(s) - 1) :
                RemoveAt(s, i)[j] = IF j < i THEN s[j] ELSE s[j + 1]
<1> DEFINE a == SubSeq(s, 1, i - 1)
           b == SubSeq(s, i + 1, Len(s))
<1>1. /\ a \in Seq(S) /\ Len(a) = i - 1
      /\ \A j \in 1..(i - 1) : a[j] = s[j]
    OBVIOUS
<1>2. /\ b \in Seq(S) /\ Len(b) = Len(s) - i
      /\ \A j \in 1..(Len(s) - i) : b[j] = s[i + j]
    OBVIOUS
<1>3. RemoveAt(s, i) = a \o b
    BY DEF RemoveAt
<1> HIDE DEF a, b
<1>4. a \o b \in Seq(S) /\ Len(a \o b) = Len(s) - 1
    <2>1. a \o b \in Seq(S)
        BY <1>1, <1>2
    <2>2. Len(a \o b) = Len(a) + Len(b)
        BY <1>1, <1>2, ConcatProperties
    <2> QED
        BY <1>1, <1>2, <2>1, <2>2
<1>5. ASSUME NEW j \in 1..(Len(s) - 1), j < i
      PROVE  (a \o b)[j] = s[j]
    <2>1. j \in 1..Len(a)
        BY <1>1, <1>5
    <2>2. (a \o b)[j] = a[j]
        BY <1>1, <1>2, <2>1
    <2> QED
        BY <1>1, <2>1, <2>2
<1>6. ASSUME NEW j \in 1..(Len(s) - 1), ~(j < i)
      PROVE  (a \o b)[j] = s[j + 1]
    <2>1. j \in (Len(a) + 1)..(Len(a) + Len(b)) /\ j - Len(a) = j - i + 1
        BY <1>1, <1>2, <1>6
    <2>2. (a \o b)[j] = b[j - Len(a)]
        BY <1>1, <1>2, <2>1
    <2>3. j - i + 1 \in 1..(Len(s) - i) /\ i + (j - i + 1) = j + 1
        BY <1>6
    <2> QED
        BY <1>2, <2>1, <2>2, <2>3
<1> QED
    BY <1>3, <1>4, <1>5, <1>6


(* What Overlap says of the calls that are under way.                      *)
Apart ==
    /\ "race" \notin Trouble =>
        \A u, v \in Users : pc[u] \in PerfCalls /\ pc[v] \in PerfCalls => u = v
    /\ "mix" \notin Trouble =>
        \A u \in Users : pc[u] \in {"dma_queue", "dma_wait"} =>
            xdma_perf = Nobody /\ \A v \in Users : pc[v] \notin PerfCalls
    /\ "mode" \notin Trouble =>
        \A u, v \in Users : pc[u] \in {"mode_store", "mode_write"} =>
            /\ pc[v] \notin PerfCalls /\ pc[v] \notin {"dma_queue", "dma_wait"}
            /\ pc[v] \in {"mode_store", "mode_write"} => u = v
    /\ "opens" \notin Trouble =>
        \A u, v \in Users : pc[u] = "open_set" /\ pc[v] = "open_set" => u = v

\* Overlap is in Trouble, so without its marks the calls are apart.
LEMMA CallsApart == Apart
<1> DEFINE In(S) == {u \in Users : pc[u] \in S}
           dma == {"dma_queue", "dma_wait"}
           mode == {"mode_store", "mode_write"}
<1>1. ASSUME NEW S, ~(Cardinality(In(S)) > 1)
      PROVE  \A u, v \in Users : pc[u] \in S /\ pc[v] \in S => u = v
    <2>1. IsFiniteSet(In(S))
        BY UsersAssumption, FS_Subset
    <2> SUFFICES ASSUME NEW u \in Users, NEW v \in Users, pc[u] \in S, pc[v] \in S
                 PROVE  u = v
        OBVIOUS
    <2>2. u \in In(S) /\ v \in In(S)
        OBVIOUS
    <2> HIDE DEF In
    <2> QED
        BY <1>1, <2>1, <2>2, AtMostOne
<1>2. /\ Cardinality(In(PerfCalls)) > 1 => "race" \in Overlap
      /\ In(dma) # {} /\ (In(PerfCalls) # {} \/ xdma_perf # Nobody) =>
            "mix" \in Overlap
      /\ In(mode) # {} /\ (In(PerfCalls) \cup In(dma) # {} \/ Cardinality(In(mode)) > 1)
            => "mode" \in Overlap
      /\ Cardinality(In({"open_set"})) > 1 => "opens" \in Overlap
    BY DEF Overlap
<1>3. \A x : x \in Overlap => x \in Trouble
    BY DEF Trouble
<1>4. ASSUME "race" \notin Trouble
      PROVE  \A u, v \in Users : pc[u] \in PerfCalls /\ pc[v] \in PerfCalls => u = v
    BY <1>1, <1>2, <1>3, <1>4
<1>5. ASSUME "mix" \notin Trouble, NEW u \in Users, pc[u] \in {"dma_queue", "dma_wait"}
      PROVE  xdma_perf = Nobody /\ \A v \in Users : pc[v] \notin PerfCalls
    <2>1. In(dma) # {}
        BY <1>5
    <2>2. In(PerfCalls) = {} /\ xdma_perf = Nobody
        BY <1>2, <1>3, <1>5, <2>1
    <2> QED
        BY <2>2
<1>6. ASSUME "mode" \notin Trouble, NEW u \in Users, NEW v \in Users,
             pc[u] \in {"mode_store", "mode_write"}
      PROVE  /\ pc[v] \notin PerfCalls /\ pc[v] \notin {"dma_queue", "dma_wait"}
             /\ pc[v] \in {"mode_store", "mode_write"} => u = v
    <2>1. In(mode) # {}
        BY <1>6
    <2>2. In(PerfCalls) \cup In(dma) = {} /\ ~(Cardinality(In(mode)) > 1)
        BY <1>2, <1>3, <1>6, <2>1
    <2> QED
        BY <1>1, <1>6, <2>2
<1>7. ASSUME "opens" \notin Trouble
      PROVE  \A u, v \in Users : pc[u] = "open_set" /\ pc[v] = "open_set" => u = v
    <2>1. \A u, v \in Users : pc[u] \in {"open_set"} /\ pc[v] \in {"open_set"} => u = v
        BY <1>1, <1>2, <1>3, <1>7
    <2> QED
        BY <2>1
<1> QED
    BY <1>4, <1>5, <1>6, <1>7 DEF Apart

(* Overlap and the actions name only the troubles and damages there are,   *)
(* and what has happened is not forgotten.                                 *)
LEMMA BlameStep ==
    ASSUME TypeOK, [Next]_vars
    PROVE  /\ damage' \subseteq Damages /\ trouble' \subseteq Troubles
           /\ \A x : x \in damage => x \in damage'
           /\ \A x : x \in Trouble => x \in Trouble'
           /\ UNCHANGED vars \/ \A x : x \in Trouble => x \in trouble'
<1>1. Trouble \subseteq Troubles
    BY DEF TypeOK, Trouble, Overlap, Troubles
<1>2. CASE UNCHANGED vars
    <2>1. UNCHANGED <<damage, trouble, pc, xdma_perf>>
        BY <1>2 DEF vars, userVars, perfVars
    <2>2. Trouble' = Trouble
        BY <2>1 DEF Trouble, Overlap
    <2> QED
        BY <1>2, <2>1, <2>2 DEF TypeOK
<1>3. CASE Next
    <2>1. /\ \E D \in SUBSET Damages : Hurt(D)
          /\ \E T \in SUBSET Troubles : Blame(T)
        <3>1. CASE Service
            BY <3>1 DEF Service, If, Damages, Troubles
        <3>2. CASE ServiceError
            BY <3>2 DEF ServiceError, If, Damages, Troubles
        <3>3. CASE Offline
            BY <3>3 DEF Offline, If, Damages, Troubles
        <3>4. CASE Online
            BY <3>4 DEF Online, If, Damages, Troubles
        <3>5. ASSUME NEW u \in Users, OpenCheck(u)
              PROVE  /\ \E D \in SUBSET Damages : Hurt(D)
                     /\ \E T \in SUBSET Troubles : Blame(T)
            BY <3>5 DEF OpenCheck, If, Damages, Troubles
        <3>6. ASSUME NEW u \in Users, OpenSet(u)
              PROVE  /\ \E D \in SUBSET Damages : Hurt(D)
                     /\ \E T \in SUBSET Troubles : Blame(T)
            BY <3>6 DEF OpenSet, If, Damages, Troubles
        <3>7. ASSUME NEW u \in Users, Close(u)
              PROVE  /\ \E D \in SUBSET Damages : Hurt(D)
                     /\ \E T \in SUBSET Troubles : Blame(T)
            BY <3>7 DEF Close, If, Damages, Troubles
        <3>8. ASSUME NEW u \in Users, PerfStart(u)
              PROVE  /\ \E D \in SUBSET Damages : Hurt(D)
                     /\ \E T \in SUBSET Troubles : Blame(T)
            BY <3>8 DEF PerfStart, If, Damages, Troubles
        <3>9. ASSUME NEW u \in Users, PerfAlloc(u)
              PROVE  /\ \E D \in SUBSET Damages : Hurt(D)
                     /\ \E T \in SUBSET Troubles : Blame(T)
            BY <3>9 DEF PerfAlloc, If, Damages, Troubles
        <3>10. ASSUME NEW u \in Users, PerfCopy(u)
              PROVE  /\ \E D \in SUBSET Damages : Hurt(D)
                     /\ \E T \in SUBSET Troubles : Blame(T)
            BY <3>10 DEF PerfCopy, If, Damages, Troubles
        <3>11. ASSUME NEW u \in Users, PerfSubmit(u)
              PROVE  /\ \E D \in SUBSET Damages : Hurt(D)
                     /\ \E T \in SUBSET Troubles : Blame(T)
            BY <3>11 DEF PerfSubmit, If, Damages, Troubles
        <3>12. ASSUME NEW u \in Users, PerfRing(u)
              PROVE  /\ \E D \in SUBSET Damages : Hurt(D)
                     /\ \E T \in SUBSET Troubles : Blame(T)
            BY <3>12 DEF PerfRing, If, Damages, Troubles
        <3>13. ASSUME NEW u \in Users, PerfQueue(u)
              PROVE  /\ \E D \in SUBSET Damages : Hurt(D)
                     /\ \E T \in SUBSET Troubles : Blame(T)
            BY <3>13 DEF PerfQueue, If, Damages, Troubles
        <3>14. ASSUME NEW u \in Users, PerfStop(u)
              PROVE  /\ \E D \in SUBSET Damages : Hurt(D)
                     /\ \E T \in SUBSET Troubles : Blame(T)
            BY <3>14 DEF PerfStop, If, Damages, Troubles
        <3>15. ASSUME NEW u \in Users, CyclicPick(u)
              PROVE  /\ \E D \in SUBSET Damages : Hurt(D)
                     /\ \E T \in SUBSET Troubles : Blame(T)
            BY <3>15 DEF CyclicPick, If, Damages, Troubles
        <3>16. ASSUME NEW u \in Users, CyclicUnlink(u)
              PROVE  /\ \E D \in SUBSET Damages : Hurt(D)
                     /\ \E T \in SUBSET Troubles : Blame(T)
            BY <3>16 DEF CyclicUnlink, If, Damages, Troubles
        <3>17. ASSUME NEW u \in Users, PerfCopyOut(u)
              PROVE  /\ \E D \in SUBSET Damages : Hurt(D)
                     /\ \E T \in SUBSET Troubles : Blame(T)
            BY <3>17 DEF PerfCopyOut, If, Damages, Troubles
        <3>18. ASSUME NEW u \in Users, PerfGet(u)
              PROVE  /\ \E D \in SUBSET Damages : Hurt(D)
                     /\ \E T \in SUBSET Troubles : Blame(T)
            BY <3>18 DEF PerfGet, If, Damages, Troubles
        <3>19. ASSUME NEW u \in Users, PerfGetCopy(u)
              PROVE  /\ \E D \in SUBSET Damages : Hurt(D)
                     /\ \E T \in SUBSET Troubles : Blame(T)
            BY <3>19 DEF PerfGetCopy, If, Damages, Troubles
        <3>20. ASSUME NEW u \in Users, AddrModeLoad(u)
              PROVE  /\ \E D \in SUBSET Damages : Hurt(D)
                     /\ \E T \in SUBSET Troubles : Blame(T)
            BY <3>20 DEF AddrModeLoad, If, Damages, Troubles
        <3>21. ASSUME NEW u \in Users, AddrModeWrite(u)
              PROVE  /\ \E D \in SUBSET Damages : Hurt(D)
                     /\ \E T \in SUBSET Troubles : Blame(T)
            BY <3>21 DEF AddrModeWrite, If, Damages, Troubles
        <3>22. ASSUME NEW u \in Users, DmaCheck(u)
              PROVE  /\ \E D \in SUBSET Damages : Hurt(D)
                     /\ \E T \in SUBSET Troubles : Blame(T)
            BY <3>22 DEF DmaCheck, If, Damages, Troubles
        <3>23. ASSUME NEW u \in Users, DmaQueue(u)
              PROVE  /\ \E D \in SUBSET Damages : Hurt(D)
                     /\ \E T \in SUBSET Troubles : Blame(T)
            BY <3>23 DEF DmaQueue, If, Damages, Troubles
        <3>24. ASSUME NEW u \in Users, DmaTimeout(u)
              PROVE  /\ \E D \in SUBSET Damages : Hurt(D)
                     /\ \E T \in SUBSET Troubles : Blame(T)
            BY <3>24 DEF DmaTimeout, If, Damages, Troubles
        <3>25. ASSUME NEW u \in Users, NEW fixed \in BOOLEAN, AddrModeStore(u, fixed)
              PROVE  /\ \E D \in SUBSET Damages : Hurt(D)
                     /\ \E T \in SUBSET Troubles : Blame(T)
            BY <3>25 DEF AddrModeStore
        <3> QED
            BY <1>3, <3>1, <3>2, <3>3, <3>4, <3>5, <3>6, <3>7, <3>8, <3>9, <3>10, <3>11, <3>12, <3>13, <3>14, <3>15, <3>16, <3>17, <3>18, <3>19, <3>20, <3>21, <3>22, <3>23, <3>24, <3>25 DEF Next
    <2>2. \A x : x \in Trouble => x \in trouble'
        BY <2>1 DEF Blame
    <2>3. \A x : x \in trouble' => x \in Trouble'
        BY DEF Trouble
    <2>4. damage' \subseteq Damages /\ \A x : x \in damage => x \in damage'
        BY <2>1 DEF Hurt, TypeOK
    <2>5. trouble' \subseteq Troubles
        BY <1>1, <2>1 DEF Blame
    <2> QED
        BY <2>2, <2>3, <2>4, <2>5
<1> QED
    BY <1>2, <1>3

(* TypeOK is inductive.                                                    *)
LEMMA TypeStep ==
    ASSUME TypeOK, [Next]_vars
    PROVE  TypeOK'
<1> DEFINE places == {"idle", "open_set", "mode_store", "mode_write", "dma_queue",
                      "dma_wait"} \cup PerfCalls
           userOK == /\ streaming \in BOOLEAN
                     /\ file \in [Users -> BOOLEAN]
                     /\ pc \in [Users -> places]
                     /\ calls \in [Users -> 0..MaxCalls]
                     /\ loaded \in [Users -> Flags]
           perfOK == /\ xdma_perf \in Users \cup {Nobody}
                     /\ perf_buf \in Users \cup {Nobody}
                     /\ desc \in BOOLEAN
                     /\ picked \in [Users -> Transfers \cup {None}]
           engOK  == /\ flags \in Flags
                     /\ list \in Seq(Transfers)
                     /\ offline \in BOOLEAN
                     /\ hw \in Transfers \cup {None}
                     /\ hw_fixed \in BOOLEAN
<1>0. userOK /\ perfOK /\ engOK
    BY DEF TypeOK
<1>1. SUFFICES userOK' /\ perfOK' /\ engOK'
    <2>1. damage' \subseteq Damages /\ trouble' \subseteq Troubles
        BY BlameStep
    <2> QED
        BY <1>1, <2>1 DEF TypeOK
<1>2. ASSUME NEW u \in Users, NEW q \in places, Call(u, q)
      PROVE  calls' \in [Users -> 0..MaxCalls] /\ pc' \in [Users -> places]
    <2>1. calls[u] + 1 \in 0..MaxCalls
        BY <1>0, <1>2, MaxCallsAssumption DEF Call
    <2> QED
        BY <1>0, <1>2, <2>1 DEF Call, Goto
<1>3. ASSUME NEW u, NEW q \in places, Goto(u, q) PROVE pc' \in [Users -> places]
    BY <1>0, <1>3 DEF Goto
<1>4. ASSUME EngineStop
      PROVE  hw' \in Transfers \cup {None} /\ hw_fixed' \in BOOLEAN /\ flags' \in Flags
    BY <1>0, <1>4 DEF EngineStop, SetRunning, Flags
<1>5. ASSUME NEW q \in Seq(Transfers), q # <<>>, EngineStart(q)
      PROVE  hw' \in Transfers \cup {None} /\ hw_fixed' \in BOOLEAN /\ flags' \in Flags
    <2>1. Head(q) \in Transfers
        BY <1>5
    <2>2. flags.non_incr_addr \in BOOLEAN
        BY <1>0 DEF Flags
    <2> QED
        BY <1>0, <1>5, <2>1, <2>2 DEF EngineStart, SetRunning, Flags
<1>6. ASSUME NEW t \in Transfers, TransferQueue(t), UNCHANGED offline
      PROVE  engOK'
    <2>1. list' \in Seq(Transfers) /\ list' # <<>>
        BY <1>0, <1>6 DEF TransferQueue
    <2> QED
        BY <1>0, <1>5, <1>6, <2>1 DEF TransferQueue
<1>7. ASSUME list # <<>>, ServiceHead, UNCHANGED offline
      PROVE  engOK'
    <2>1. list' \in Seq(Transfers)
        BY <1>0, <1>7 DEF ServiceHead
    <2> QED
        BY <1>0, <1>4, <1>5, <1>7, <2>1 DEF ServiceHead
<1>8. \A u \in Users, c \in BOOLEAN : Transfer(u, c) \in Transfers
    BY DEF Transfer, Transfers
<1> HIDE DEF places
<1>9. {"idle", "open_set", "mode_store", "mode_write", "dma_queue", "dma_wait",
       "perf_alloc", "perf_copy", "perf_submit", "perf_ring", "perf_queue",
       "stop_pick", "stop_unlink", "stop_copy", "get_copy"} \subseteq places
    BY DEF places, PerfCalls
<1>10. CASE Service
    <2>1. pc' \in [Users -> places]
        BY <1>0, <1>3, <1>9, <1>10 DEF Service
    <2> QED
        BY <1>0, <1>7, <1>10, <2>1 DEF Service, perfVars
<1>11. CASE ServiceError
    <2>1. pc' \in [Users -> places]
        BY <1>0, <1>3, <1>9, <1>11 DEF ServiceError
    <2> QED
        BY <1>0, <1>7, <1>11, <2>1 DEF ServiceError, perfVars
<1>12. CASE Offline
    BY <1>0, <1>4, <1>12 DEF Offline, userVars, perfVars
<1>13. CASE Online
    BY <1>0, <1>13 DEF Online, userVars, perfVars
<1>14. ASSUME NEW u \in Users, OpenCheck(u) PROVE userOK' /\ perfOK' /\ engOK'
    <2>1. pc' \in [Users -> places] /\ calls' \in [Users -> 0..MaxCalls]
        BY <1>2, <1>9, <1>14 DEF OpenCheck
    <2>2. file' \in [Users -> BOOLEAN] /\ loaded' \in [Users -> Flags]
        BY <1>0, <1>14 DEF OpenCheck
    <2> QED
        BY <1>0, <1>14, <2>1, <2>2 DEF OpenCheck, perfVars, engVars
<1>15. ASSUME NEW u \in Users, OpenSet(u) PROVE userOK' /\ perfOK' /\ engOK'
    <2>1. pc' \in [Users -> places]
        BY <1>3, <1>9, <1>15 DEF OpenSet
    <2>2. file' \in [Users -> BOOLEAN] /\ flags' \in Flags
        BY <1>0, <1>15 DEF OpenSet, Flags
    <2> QED
        BY <1>0, <1>15, <2>1, <2>2 DEF OpenSet, perfVars
<1>16. ASSUME NEW u \in Users, Close(u) PROVE userOK' /\ perfOK' /\ engOK'
    <2>1. file' \in [Users -> BOOLEAN]
        BY <1>0, <1>16 DEF Close
    <2>2. flags' \in Flags
        BY <1>0, <1>16 DEF Close, Flags
    <2> QED
        BY <1>0, <1>16, <2>1, <2>2 DEF Close, perfVars
<1>17. ASSUME NEW u \in Users, PerfStart(u) PROVE userOK' /\ perfOK' /\ engOK'
    <2>1. pc' \in [Users -> places] /\ calls' \in [Users -> 0..MaxCalls]
        BY <1>2, <1>9, <1>17 DEF PerfStart
    <2>2. loaded' \in [Users -> Flags]
        BY <1>0, <1>17 DEF PerfStart
    <2> QED
        BY <1>0, <1>17, <2>1, <2>2 DEF PerfStart, perfVars, engVars
<1>18. ASSUME NEW u \in Users, PerfStop(u) PROVE userOK' /\ perfOK' /\ engOK'
    <2>1. pc' \in [Users -> places] /\ calls' \in [Users -> 0..MaxCalls]
        BY <1>2, <1>9, <1>18 DEF PerfStop
    <2>2. loaded' \in [Users -> Flags]
        BY <1>0, <1>18 DEF PerfStop
    <2> QED
        BY <1>0, <1>18, <2>1, <2>2 DEF PerfStop, perfVars, engVars
<1>19. ASSUME NEW u \in Users, PerfGet(u) PROVE userOK' /\ perfOK' /\ engOK'
    <2>1. pc' \in [Users -> places] /\ calls' \in [Users -> 0..MaxCalls]
        BY <1>2, <1>9, <1>19 DEF PerfGet
    <2>2. loaded' \in [Users -> Flags]
        BY <1>0, <1>19 DEF PerfGet
    <2> QED
        BY <1>0, <1>19, <2>1, <2>2 DEF PerfGet, perfVars, engVars
<1>20. ASSUME NEW u \in Users, DmaCheck(u) PROVE userOK' /\ perfOK' /\ engOK'
    <2>1. pc' \in [Users -> places] /\ calls' \in [Users -> 0..MaxCalls]
        BY <1>2, <1>9, <1>20 DEF DmaCheck
    <2>2. loaded' \in [Users -> Flags]
        BY <1>0, <1>20 DEF DmaCheck
    <2> QED
        BY <1>0, <1>20, <2>1, <2>2 DEF DmaCheck, perfVars, engVars
<1>21. ASSUME NEW u \in Users, AddrModeLoad(u) PROVE userOK' /\ perfOK' /\ engOK'
    <2>1. pc' \in [Users -> places] /\ calls' \in [Users -> 0..MaxCalls]
        BY <1>2, <1>9, <1>21 DEF AddrModeLoad
    <2>2. loaded' \in [Users -> Flags]
        BY <1>0, <1>21 DEF AddrModeLoad
    <2> QED
        BY <1>0, <1>21, <2>1, <2>2 DEF AddrModeLoad, perfVars, engVars
<1>22. ASSUME NEW u \in Users, PerfAlloc(u) PROVE userOK' /\ perfOK' /\ engOK'
    <2>1. pc' \in [Users -> places]
        BY <1>3, <1>9, <1>22 DEF PerfAlloc
    <2> QED
        BY <1>0, <1>22, <2>1 DEF PerfAlloc, perfVars, engVars
<1>23. ASSUME NEW u \in Users, PerfCopy(u) PROVE userOK' /\ perfOK' /\ engOK'
    <2>1. pc' \in [Users -> places]
        BY <1>3, <1>9, <1>23 DEF PerfCopy
    <2> QED
        BY <1>0, <1>23, <2>1 DEF PerfCopy, perfVars, engVars
<1>24. ASSUME NEW u \in Users, PerfSubmit(u) PROVE userOK' /\ perfOK' /\ engOK'
    <2>1. pc' \in [Users -> places]
        BY <1>3, <1>9, <1>24 DEF PerfSubmit
    <2> QED
        BY <1>0, <1>24, <2>1 DEF PerfSubmit, perfVars, engVars
<1>25. ASSUME NEW u \in Users, PerfRing(u) PROVE userOK' /\ perfOK' /\ engOK'
    <2>1. pc' \in [Users -> places]
        BY <1>3, <1>9, <1>25 DEF PerfRing
    <2> QED
        BY <1>0, <1>25, <2>1 DEF PerfRing, perfVars, engVars
<1>26. ASSUME NEW u \in Users, PerfGetCopy(u) PROVE userOK' /\ perfOK' /\ engOK'
    <2>1. pc' \in [Users -> places]
        BY <1>3, <1>9, <1>26 DEF PerfGetCopy
    <2> QED
        BY <1>0, <1>26, <2>1 DEF PerfGetCopy, perfVars, engVars
<1>27. ASSUME NEW u \in Users, PerfQueue(u) PROVE userOK' /\ perfOK' /\ engOK'
    <2>1. pc' \in [Users -> places]
        BY <1>3, <1>9, <1>27 DEF PerfQueue
    <2>2. engOK'
        <3>1. CASE offline
            BY <1>0, <1>27, <3>1 DEF PerfQueue, engVars
        <3>2. CASE ~offline
            BY <1>6, <1>8, <1>27, <3>2 DEF PerfQueue
        <3> QED
            BY <3>1, <3>2
    <2> QED
        BY <1>0, <1>27, <2>1, <2>2 DEF PerfQueue
<1>28. ASSUME NEW u \in Users, CyclicPick(u) PROVE userOK' /\ perfOK' /\ engOK'
    <2>1. pc' \in [Users -> places]
        BY <1>3, <1>9, <1>28 DEF CyclicPick
    <2>2. picked' \in [Users -> Transfers \cup {None}]
        <3>1. picked \in [Users -> Transfers \cup {None}] /\ list \in Seq(Transfers)
            BY <1>0
        <3>2. \/ picked' = picked
              \/ list # <<>> /\ picked' = [picked EXCEPT ![u] = Head(list)]
            BY <1>28 DEF CyclicPick
        <3>3. list # <<>> => Head(list) \in Transfers
            BY <3>1
        <3> QED
            BY <3>1, <3>2, <3>3
    <2> QED
        BY <1>0, <1>28, <2>1, <2>2 DEF CyclicPick, engVars
<1>29. ASSUME NEW u \in Users, CyclicUnlink(u) PROVE userOK' /\ perfOK' /\ engOK'
    <2>1. pc' \in [Users -> places]
        BY <1>3, <1>9, <1>29 DEF CyclicUnlink
    <2>2. list' \in Seq(Transfers)
        BY <1>0, <1>29, RemoveAtFacts DEF CyclicUnlink, Unlink
    <2> QED
        BY <1>0, <1>4, <1>29, <2>1, <2>2 DEF CyclicUnlink
<1>30. ASSUME NEW u \in Users, PerfCopyOut(u) PROVE userOK' /\ perfOK' /\ engOK'
    <2>1. pc' \in [Users -> places]
        BY <1>3, <1>9, <1>30 DEF PerfCopyOut
    <2>2. picked' \in [Users -> Transfers \cup {None}]
        BY <1>0, <1>30 DEF PerfCopyOut
    <2> QED
        BY <1>0, <1>30, <2>1, <2>2 DEF PerfCopyOut, engVars
<1>31. ASSUME NEW u \in Users, NEW fixed \in BOOLEAN, AddrModeStore(u, fixed)
      PROVE  userOK' /\ perfOK' /\ engOK'
    <2>1. pc' \in [Users -> places]
        BY <1>3, <1>9, <1>31 DEF AddrModeStore
    <2>2. flags' \in Flags
        BY <1>0, <1>31 DEF AddrModeStore, Flags
    <2> QED
        BY <1>0, <1>31, <2>1, <2>2 DEF AddrModeStore, perfVars
<1>32. ASSUME NEW u \in Users, AddrModeWrite(u) PROVE userOK' /\ perfOK' /\ engOK'
    <2>1. pc' \in [Users -> places]
        BY <1>3, <1>9, <1>32 DEF AddrModeWrite
    <2>2. hw_fixed' \in BOOLEAN
        BY <1>0, <1>32 DEF AddrModeWrite, Flags
    <2> QED
        BY <1>0, <1>32, <2>1, <2>2 DEF AddrModeWrite, perfVars
<1>33. ASSUME NEW u \in Users, DmaQueue(u) PROVE userOK' /\ perfOK' /\ engOK'
    <2>1. pc' \in [Users -> places]
        BY <1>3, <1>9, <1>33 DEF DmaQueue
    <2>2. engOK'
        <3>1. CASE offline
            BY <1>0, <1>33, <3>1 DEF DmaQueue, engVars
        <3>2. CASE ~offline
            BY <1>6, <1>8, <1>33, <3>2 DEF DmaQueue
        <3> QED
            BY <3>1, <3>2
    <2> QED
        BY <1>0, <1>33, <2>1, <2>2 DEF DmaQueue, perfVars
<1>34. ASSUME NEW u \in Users, DmaTimeout(u) PROVE userOK' /\ perfOK' /\ engOK'
    <2>1. pc' \in [Users -> places]
        BY <1>3, <1>9, <1>34 DEF DmaTimeout
    <2>2. list' \in Seq(Transfers)
        <3>1. CASE list # <<>> /\ Head(list) = Transfer(u, FALSE)
            <4>1. list' = Tail(list) /\ list # <<>>
                BY <1>34, <3>1 DEF DmaTimeout
            <4> QED
                BY <1>0, <4>1
        <3>2. CASE ~(list # <<>> /\ Head(list) = Transfer(u, FALSE))
            <4>1. list' = list
                BY <1>34, <3>2 DEF DmaTimeout
            <4> QED
                BY <1>0, <4>1
        <3> QED
            BY <3>1, <3>2
    <2> QED
        BY <1>0, <1>4, <1>34, <2>1, <2>2 DEF DmaTimeout, perfVars
<1>35. CASE UNCHANGED vars
    BY <1>0, <1>35 DEF vars, userVars, perfVars, engVars
<1> QED
    BY <1>10, <1>11, <1>12, <1>13, <1>14, <1>15, <1>16, <1>17, <1>18, <1>19, <1>20, <1>21, <1>22, <1>23, <1>24, <1>25, <1>26, <1>27, <1>28, <1>29, <1>30, <1>31, <1>32, <1>33, <1>34, <1>35 DEF Next

(* A step that neither opens, closes nor stores the mode: the other flags  *)
(* stay, and the hardware keeps or takes over the mode, or stops.          *)
Elsewhere ==
    /\ UNCHANGED <<streaming, file, loaded>>
    /\ flags'.device_open = flags.device_open
    /\ flags'.non_incr_addr = flags.non_incr_addr
    /\ \A v \in Users :
        \/ pc'[v] = pc[v]
        \/ /\ pc'[v] \notin {"open_set", "mode_store"}
           /\ pc'[v] # "idle" => file[v]
    /\ \/ hw' = None
       \/ hw_fixed' = flags.non_incr_addr
       \/ /\ UNCHANGED <<hw, hw_fixed>>
          /\ \A v \in Users : pc[v] = "mode_write" => pc'[v] = "mode_write"

(* The classes of steps of the proofs about opens and modes.               *)
LEMMA StepClasses ==
    ASSUME TypeOK, FileInv, OfflineInv, [Next]_vars
    PROVE  \/ \E u \in Users : \/ OpenCheck(u) \/ OpenSet(u) \/ Close(u)
                              \/ AddrModeLoad(u)
                              \/ \E fixed \in BOOLEAN : AddrModeStore(u, fixed)
           \/ Elsewhere
<1>1. /\ DOMAIN pc = Users /\ pc = [v \in Users |-> pc[v]]
      /\ flags \in Flags /\ list \in Seq(Transfers)
    BY DEF TypeOK
<1>2. ASSUME NEW u \in Users, NEW q, Goto(u, q), q \notin {"open_set", "mode_store"},
             q # "idle" => file[u]
      PROVE  /\ \A v \in Users :
                \/ pc'[v] = pc[v]
                \/ /\ pc'[v] \notin {"open_set", "mode_store"}
                   /\ pc'[v] # "idle" => file[v]
             /\ pc[u] # "mode_write" =>
                    \A v \in Users : pc[v] = "mode_write" => pc'[v] = "mode_write"
    BY <1>1, <1>2 DEF Goto
<1>3. ASSUME NEW r, SetRunning(r)
      PROVE  /\ flags'.device_open = flags.device_open
             /\ flags'.non_incr_addr = flags.non_incr_addr
    BY <1>1, <1>3 DEF SetRunning, Flags
<1>4. EngineStop => hw' = None /\ \E r : SetRunning(r)
    BY DEF EngineStop
<1>5. ASSUME NEW q, EngineStart(q)
      PROVE  hw_fixed' = flags.non_incr_addr /\ \E r : SetRunning(r)
    BY <1>5 DEF EngineStart
<1>6. CASE Service
    <2>1. \A v \in Users : pc'[v] = pc[v] \/ pc'[v] = "idle"
        BY <1>1, <1>6 DEF Service, Goto
    <2>2. \/ hw' = None /\ \E r : SetRunning(r)
          \/ hw_fixed' = flags.non_incr_addr /\ \E r : SetRunning(r)
        BY <1>4, <1>5, <1>6 DEF Service, ServiceHead
    <2>3. UNCHANGED <<streaming, file, loaded>>
        BY <1>6 DEF Service
    <2> QED
        BY <1>3, <2>1, <2>2, <2>3 DEF Elsewhere
<1>7. CASE ServiceError
    <2>1. \A v \in Users : pc'[v] = pc[v] \/ pc'[v] = "idle"
        BY <1>1, <1>7 DEF ServiceError, Goto
    <2>2. \/ hw' = None /\ \E r : SetRunning(r)
          \/ hw_fixed' = flags.non_incr_addr /\ \E r : SetRunning(r)
        BY <1>4, <1>5, <1>7 DEF ServiceError, ServiceHead
    <2>3. UNCHANGED <<streaming, file, loaded>>
        BY <1>7 DEF ServiceError
    <2> QED
        BY <1>3, <2>1, <2>2, <2>3 DEF Elsewhere
<1>8. CASE Offline
    BY <1>3, <1>4, <1>8 DEF Offline, userVars, Elsewhere
<1>9. CASE Online
    <2>1. hw' = None
        BY <1>9 DEF Online, OfflineInv
    <2> QED
        BY <1>9, <2>1 DEF Online, userVars, Elsewhere
<1>10. ASSUME NEW u \in Users, PerfStart(u) PROVE Elsewhere
    <2>1. Goto(u, "perf_alloc") /\ pc[u] = "idle" /\ file[u]
        BY <1>10 DEF PerfStart, Call
    <2>2. UNCHANGED <<streaming, file, loaded, flags, hw, hw_fixed>>
        BY <1>10 DEF PerfStart, engVars
    <2> QED
        BY <1>2, <2>1, <2>2 DEF Elsewhere
<1>11. ASSUME NEW u \in Users, PerfStop(u) PROVE Elsewhere
    <2>1. Goto(u, "stop_pick") /\ pc[u] = "idle" /\ file[u]
        BY <1>11 DEF PerfStop, Call
    <2>2. UNCHANGED <<streaming, file, loaded, flags, hw, hw_fixed>>
        BY <1>11 DEF PerfStop, engVars
    <2> QED
        BY <1>2, <2>1, <2>2 DEF Elsewhere
<1>12. ASSUME NEW u \in Users, PerfGet(u) PROVE Elsewhere
    <2>1. Goto(u, "get_copy") /\ pc[u] = "idle" /\ file[u]
        BY <1>12 DEF PerfGet, Call
    <2>2. UNCHANGED <<streaming, file, loaded, flags, hw, hw_fixed>>
        BY <1>12 DEF PerfGet, engVars
    <2> QED
        BY <1>2, <2>1, <2>2 DEF Elsewhere
<1>13. ASSUME NEW u \in Users, DmaCheck(u) PROVE Elsewhere
    <2>1. Goto(u, "dma_queue") /\ pc[u] = "idle" /\ file[u]
        BY <1>13 DEF DmaCheck, Call
    <2>2. UNCHANGED <<streaming, file, loaded, flags, hw, hw_fixed>>
        BY <1>13 DEF DmaCheck, engVars
    <2> QED
        BY <1>2, <2>1, <2>2 DEF Elsewhere
<1>14. ASSUME NEW u \in Users, PerfAlloc(u) PROVE Elsewhere
    <2>1. /\ \E q : /\ Goto(u, q) /\ q \notin {"open_set", "mode_store"}
          /\ pc[u] \notin {"idle", "open_set", "mode_write"}
        BY <1>14 DEF PerfAlloc
    <2>2. UNCHANGED <<streaming, file, loaded, flags, hw, hw_fixed>>
        BY <1>14 DEF PerfAlloc, engVars
    <2> QED
        BY <1>2, <2>1, <2>2 DEF Elsewhere, FileInv
<1>15. ASSUME NEW u \in Users, PerfCopy(u) PROVE Elsewhere
    <2>1. /\ \E q : /\ Goto(u, q) /\ q \notin {"open_set", "mode_store"}
          /\ pc[u] \notin {"idle", "open_set", "mode_write"}
        BY <1>15 DEF PerfCopy
    <2>2. UNCHANGED <<streaming, file, loaded, flags, hw, hw_fixed>>
        BY <1>15 DEF PerfCopy, engVars
    <2> QED
        BY <1>2, <2>1, <2>2 DEF Elsewhere, FileInv
<1>16. ASSUME NEW u \in Users, PerfSubmit(u) PROVE Elsewhere
    <2>1. /\ \E q : /\ Goto(u, q) /\ q \notin {"open_set", "mode_store"}
          /\ pc[u] \notin {"idle", "open_set", "mode_write"}
        BY <1>16 DEF PerfSubmit
    <2>2. UNCHANGED <<streaming, file, loaded, flags, hw, hw_fixed>>
        BY <1>16 DEF PerfSubmit, engVars
    <2> QED
        BY <1>2, <2>1, <2>2 DEF Elsewhere, FileInv
<1>17. ASSUME NEW u \in Users, PerfRing(u) PROVE Elsewhere
    <2>1. /\ \E q : /\ Goto(u, q) /\ q \notin {"open_set", "mode_store"}
          /\ pc[u] \notin {"idle", "open_set", "mode_write"}
        BY <1>17 DEF PerfRing
    <2>2. UNCHANGED <<streaming, file, loaded, flags, hw, hw_fixed>>
        BY <1>17 DEF PerfRing, engVars
    <2> QED
        BY <1>2, <2>1, <2>2 DEF Elsewhere, FileInv
<1>18. ASSUME NEW u \in Users, PerfCopyOut(u) PROVE Elsewhere
    <2>1. /\ \E q : /\ Goto(u, q) /\ q \notin {"open_set", "mode_store"}
          /\ pc[u] \notin {"idle", "open_set", "mode_write"}
        BY <1>18 DEF PerfCopyOut
    <2>2. UNCHANGED <<streaming, file, loaded, flags, hw, hw_fixed>>
        BY <1>18 DEF PerfCopyOut, engVars
    <2> QED
        BY <1>2, <2>1, <2>2 DEF Elsewhere, FileInv
<1>19. ASSUME NEW u \in Users, PerfGetCopy(u) PROVE Elsewhere
    <2>1. /\ \E q : /\ Goto(u, q) /\ q \notin {"open_set", "mode_store"}
          /\ pc[u] \notin {"idle", "open_set", "mode_write"}
        BY <1>19 DEF PerfGetCopy
    <2>2. UNCHANGED <<streaming, file, loaded, flags, hw, hw_fixed>>
        BY <1>19 DEF PerfGetCopy, engVars
    <2> QED
        BY <1>2, <2>1, <2>2 DEF Elsewhere, FileInv
<1>20. ASSUME NEW u \in Users, CyclicPick(u) PROVE Elsewhere
    <2>1. /\ \E q : /\ Goto(u, q) /\ q \notin {"open_set", "mode_store"}
          /\ pc[u] \notin {"idle", "open_set", "mode_write"}
        BY <1>20 DEF CyclicPick
    <2>2. UNCHANGED <<streaming, file, loaded, flags, hw, hw_fixed>>
        BY <1>20 DEF CyclicPick, engVars
    <2> QED
        BY <1>2, <2>1, <2>2 DEF Elsewhere, FileInv
<1>21. ASSUME NEW u \in Users, PerfQueue(u) PROVE Elsewhere
    <2>1. /\ \E q : /\ Goto(u, q) /\ q \notin {"open_set", "mode_store"}
          /\ pc[u] = "perf_queue"
        BY <1>21 DEF PerfQueue
    <2>2. UNCHANGED <<streaming, file, loaded>>
        BY <1>21 DEF PerfQueue
    <2>3. \/ hw' = None /\ \E r : SetRunning(r)
          \/ hw_fixed' = flags.non_incr_addr /\ \E r : SetRunning(r)
          \/ UNCHANGED <<flags, hw, hw_fixed>>
        BY <1>4, <1>5, <1>21 DEF PerfQueue, TransferQueue, engVars
    <2>4. pc[u] # "mode_write" /\ file[u]
        BY <2>1 DEF FileInv
    <2> QED
        BY <1>2, <1>3, <2>1, <2>2, <2>3, <2>4 DEF Elsewhere
<1>22. ASSUME NEW u \in Users, DmaQueue(u) PROVE Elsewhere
    <2>1. /\ \E q : /\ Goto(u, q) /\ q \notin {"open_set", "mode_store"}
          /\ pc[u] = "dma_queue"
        <3>1. pc[u] = "dma_queue" /\ (Goto(u, "idle") \/ Goto(u, "dma_wait"))
            BY <1>22 DEF DmaQueue
        <3> QED
            BY <3>1
    <2>2. UNCHANGED <<streaming, file, loaded>>
        BY <1>22 DEF DmaQueue
    <2>3. \/ hw' = None /\ \E r : SetRunning(r)
          \/ hw_fixed' = flags.non_incr_addr /\ \E r : SetRunning(r)
          \/ UNCHANGED <<flags, hw, hw_fixed>>
        BY <1>4, <1>5, <1>22 DEF DmaQueue, TransferQueue, engVars
    <2>4. pc[u] # "mode_write" /\ file[u]
        BY <2>1 DEF FileInv
    <2> QED
        BY <1>2, <1>3, <2>1, <2>2, <2>3, <2>4 DEF Elsewhere
<1>23. ASSUME NEW u \in Users, CyclicUnlink(u) PROVE Elsewhere
    <2>1. /\ \E q : /\ Goto(u, q) /\ q \notin {"open_set", "mode_store"}
          /\ pc[u] = "stop_unlink"
        BY <1>23 DEF CyclicUnlink
    <2>2. UNCHANGED <<streaming, file, loaded>>
        BY <1>23 DEF CyclicUnlink
    <2>3. \/ hw' = None /\ \E r : SetRunning(r)
          \/ hw_fixed' = flags.non_incr_addr /\ \E r : SetRunning(r)
          \/ UNCHANGED <<flags, hw, hw_fixed>>
        BY <1>4, <1>5, <1>23 DEF CyclicUnlink, EngineStop
    <2>4. pc[u] # "mode_write" /\ file[u]
        BY <2>1 DEF FileInv
    <2> QED
        BY <1>2, <1>3, <2>1, <2>2, <2>3, <2>4 DEF Elsewhere
<1>24. ASSUME NEW u \in Users, DmaTimeout(u) PROVE Elsewhere
    <2>1. /\ \E q : /\ Goto(u, q) /\ q \notin {"open_set", "mode_store"}
          /\ pc[u] = "dma_wait"
        BY <1>24 DEF DmaTimeout
    <2>2. UNCHANGED <<streaming, file, loaded>>
        BY <1>24 DEF DmaTimeout
    <2>3. \/ hw' = None /\ \E r : SetRunning(r)
          \/ hw_fixed' = flags.non_incr_addr /\ \E r : SetRunning(r)
          \/ UNCHANGED <<flags, hw, hw_fixed>>
        BY <1>4, <1>5, <1>24 DEF DmaTimeout, EngineStop
    <2>4. pc[u] # "mode_write" /\ file[u]
        BY <2>1 DEF FileInv
    <2> QED
        BY <1>2, <1>3, <2>1, <2>2, <2>3, <2>4 DEF Elsewhere
<1>25. ASSUME NEW u \in Users, AddrModeWrite(u) PROVE Elsewhere
    BY <1>2, <1>25 DEF AddrModeWrite, Elsewhere
<1>26. CASE UNCHANGED vars
    BY <1>26 DEF vars, userVars, engVars, Elsewhere
<1> QED
    BY <1>6, <1>7, <1>8, <1>9, <1>10, <1>11, <1>12, <1>13, <1>14, <1>15, <1>16, <1>17, <1>18, <1>19, <1>20, <1>21, <1>22, <1>23, <1>24, <1>25, <1>26 DEF Next

(* Only an engine that is online is started.                               *)
LEMMA OfflineStep ==
    ASSUME TypeOK, OfflineInv, [Next]_vars
    PROVE  OfflineInv'
<1>1. \A x : x \in Trouble => x \in Trouble'
    BY BlameStep
<1>2. UNCHANGED vars \/ \A x : x \in trouble => x \in trouble'
    BY BlameStep DEF Trouble
<1>3. \A t \in Transfers : t # None
    BY NobodyAssumption DEF Transfers, None, Transfer
<1>4. ASSUME UNCHANGED <<offline, hw>> PROVE OfflineInv'
    BY <1>2, <1>4 DEF OfflineInv, vars
<1>5. ASSUME list # <<>>, hw = Head(list), UNCHANGED offline PROVE OfflineInv'
    <2>1. hw \in Transfers
        BY <1>5 DEF TypeOK
    <2> QED
        BY <1>3, <1>5, <2>1 DEF OfflineInv
<1>6. CASE Service
    BY <1>5, <1>6 DEF Service
<1>7. CASE ServiceError
    BY <1>5, <1>7 DEF ServiceError
<1>8. CASE Offline
    <2>1. hw' = None /\ "offline" \in trouble'
        BY <1>8 DEF Offline, EngineStop, Blame
    <2> QED
        BY <2>1 DEF OfflineInv
<1>9. CASE Online
    BY <1>9 DEF Online, OfflineInv
<1>10. ASSUME NEW u \in Users, PerfQueue(u) PROVE OfflineInv'
    <2>1. UNCHANGED <<offline, hw>> \/ ~offline'
        BY <1>10 DEF PerfQueue, engVars
    <2> QED
        BY <1>4, <2>1 DEF OfflineInv
<1>11. ASSUME NEW u \in Users, DmaQueue(u) PROVE OfflineInv'
    <2>1. UNCHANGED <<offline, hw>> \/ ~offline'
        BY <1>11 DEF DmaQueue, engVars
    <2> QED
        BY <1>4, <2>1 DEF OfflineInv
<1>12. ASSUME NEW u \in Users, CyclicUnlink(u) \/ DmaTimeout(u) PROVE OfflineInv'
    <2>1. hw' = None /\ offline' = offline
        BY <1>12 DEF CyclicUnlink, DmaTimeout, EngineStop
    <2>2. UNCHANGED vars => hw' = hw
        BY DEF vars, engVars
    <2> QED
        BY <1>2, <1>4, <2>1, <2>2 DEF OfflineInv
<1>13. ASSUME NEW u \in Users, OpenCheck(u) \/ OpenSet(u) \/ Close(u) PROVE OfflineInv'
    BY <1>4, <1>13 DEF OpenCheck, OpenSet, Close, engVars
<1>14. ASSUME NEW u \in Users, PerfStart(u) \/ PerfAlloc(u) \/ PerfCopy(u) \/ PerfSubmit(u)
      PROVE  OfflineInv'
    BY <1>4, <1>14 DEF PerfStart, PerfAlloc, PerfCopy, PerfSubmit, engVars
<1>15. ASSUME NEW u \in Users, PerfRing(u) \/ PerfStop(u) \/ CyclicPick(u) \/ PerfCopyOut(u)
      PROVE  OfflineInv'
    BY <1>4, <1>15 DEF PerfRing, PerfStop, CyclicPick, PerfCopyOut, engVars
<1>16. ASSUME NEW u \in Users,
              PerfGet(u) \/ PerfGetCopy(u) \/ AddrModeLoad(u) \/ AddrModeWrite(u) \/ DmaCheck(u)
      PROVE  OfflineInv'
    BY <1>4, <1>16 DEF PerfGet, PerfGetCopy, AddrModeLoad, AddrModeWrite, DmaCheck, engVars
<1>17. ASSUME NEW u \in Users, NEW fixed \in BOOLEAN, AddrModeStore(u, fixed)
      PROVE  OfflineInv'
    BY <1>4, <1>17 DEF AddrModeStore
<1>18. CASE UNCHANGED vars
    BY <1>4, <1>18 DEF vars, engVars
<1> QED
    BY <1>6, <1>7, <1>8, <1>9, <1>10, <1>11, <1>12, <1>13, <1>14, <1>15, <1>16, <1>17,
       <1>18 DEF Next

(* A call needs an open file, and ends before that is closed.              *)
LEMMA FileStep ==
    ASSUME TypeOK, FileInv, OfflineInv, [Next]_vars
    PROVE  FileInv'
<1>1. /\ DOMAIN pc = Users /\ pc = [v \in Users |-> pc[v]]
      /\ DOMAIN file = Users /\ file = [v \in Users |-> file[v]]
    BY DEF TypeOK
<1>2. ASSUME NEW u \in Users, NEW q, Goto(u, q)
      PROVE  \A v \in Users : pc'[v] = IF v = u THEN q ELSE pc[v]
    BY <1>1, <1>2 DEF Goto
<1>3. CASE Elsewhere
    BY <1>3 DEF Elsewhere, FileInv
<1>4. ASSUME NEW u \in Users, OpenCheck(u) PROVE FileInv'
    <2>1. /\ streaming' = streaming
          /\ \A v \in Users : file[v] => file'[v]
          /\ \A v \in Users : pc'[v] = pc[v] \/ pc'[v] = "idle"
                              \/ (pc'[v] = "open_set" /\ streaming)
        <3>1. streaming' = streaming
            BY <1>4 DEF OpenCheck
        <3>2. streaming => Goto(u, "open_set")
            BY <1>4 DEF OpenCheck, Call
        <3>3. ~streaming => Goto(u, "idle")
            BY <1>4 DEF OpenCheck, Call
        <3>4. \A v \in Users : file[v] => file'[v]
            BY <1>1, <1>4 DEF OpenCheck
        <3>5. \A v \in Users : pc'[v] = pc[v] \/ pc'[v] = "idle"
                                \/ (pc'[v] = "open_set" /\ streaming)
            BY <1>2, <3>2, <3>3
        <3> QED
            BY <3>1, <3>4, <3>5
    <2> QED
        BY <2>1 DEF FileInv
<1>5. ASSUME NEW u \in Users, OpenSet(u) PROVE FileInv'
    <2>1. /\ streaming' = streaming
          /\ \A v \in Users : file[v] => file'[v]
          /\ \A v \in Users : pc'[v] = pc[v] \/ pc'[v] = "idle"
        BY <1>1, <1>5 DEF OpenSet, Goto
    <2> QED
        BY <2>1 DEF FileInv
<1>6. ASSUME NEW u \in Users, Close(u) PROVE FileInv'
    <2>1. /\ UNCHANGED <<streaming, pc>> /\ pc[u] = "idle"
          /\ \A v \in Users : v # u => file'[v] = file[v]
        BY <1>1, <1>6 DEF Close
    <2> QED
        BY <2>1 DEF FileInv
<1>7. ASSUME NEW u \in Users, AddrModeLoad(u) PROVE FileInv'
    <2>1. /\ UNCHANGED <<streaming, file>> /\ file[u]
          /\ \A v \in Users : pc'[v] = pc[v] \/ (v = u /\ pc'[v] = "mode_store")
        <3>1. UNCHANGED <<streaming, file>> /\ file[u] /\ Goto(u, "mode_store")
            BY <1>7 DEF AddrModeLoad, Call
        <3>2. \A v \in Users : pc'[v] = IF v = u THEN "mode_store" ELSE pc[v]
            BY <1>2, <3>1
        <3> QED
            BY <3>1, <3>2
    <2> QED
        BY <2>1 DEF FileInv
<1>8. ASSUME NEW u \in Users, NEW fixed \in BOOLEAN, AddrModeStore(u, fixed) PROVE FileInv'
    <2>1. /\ UNCHANGED <<streaming, file>> /\ pc[u] = "mode_store"
          /\ \A v \in Users : pc'[v] = pc[v] \/ (v = u /\ pc'[v] = "mode_write")
        <3>1. UNCHANGED <<streaming, file>> /\ Goto(u, "mode_write")
              /\ pc[u] = "mode_store"
            BY <1>8 DEF AddrModeStore
        <3>2. \A v \in Users : pc'[v] = IF v = u THEN "mode_write" ELSE pc[v]
            BY <1>2, <3>1
        <3> QED
            BY <3>1, <3>2
    <2> QED
        BY <2>1 DEF FileInv
<1> QED
    BY <1>3, <1>4, <1>5, <1>6, <1>7, <1>8, StepClasses

(* device_open and the open files, as long as no two opens overlap.        *)
LEMMA OpenStep ==
    ASSUME TypeOK, FileInv, OfflineInv, OpenInv, [Next]_vars
    PROVE  OpenInv'
<1>1. /\ DOMAIN pc = Users /\ pc = [v \in Users |-> pc[v]]
      /\ DOMAIN file = Users /\ file = [v \in Users |-> file[v]]
      /\ DOMAIN loaded = Users /\ loaded = [v \in Users |-> loaded[v]]
      /\ flags \in Flags /\ \A v \in Users : loaded[v] \in Flags
    BY DEF TypeOK
<1>2. SUFFICES ASSUME streaming', Clear({"opens"})'
      PROVE  /\ flags'.device_open <=> \E v \in Users : file'[v]
             /\ \A v, w \in Users : file'[v] /\ file'[w] => v = w
             /\ \A v \in Users : pc'[v] = "open_set" => ~flags'.device_open
             /\ \A v \in Users : pc'[v] = "mode_store" => loaded'[v].device_open
    BY DEF OpenInv
<1>3. "opens" \notin Trouble
    BY <1>2, BlameStep DEF Clear
<1>4. streaming' = streaming
    BY StepClasses DEF Elsewhere, OpenCheck, OpenSet, Close, AddrModeLoad, AddrModeStore
<1>5. /\ flags.device_open <=> \E v \in Users : file[v]
      /\ \A v, w \in Users : file[v] /\ file[w] => v = w
      /\ \A v \in Users : pc[v] = "open_set" => ~flags.device_open
      /\ \A v \in Users : pc[v] = "mode_store" => loaded[v].device_open
    BY <1>2, <1>3, <1>4 DEF OpenInv, Clear
<1>6. \A v, w \in Users : pc[v] = "open_set" /\ pc[w] = "open_set" => v = w
    BY <1>3, CallsApart DEF Apart
<1>7. \A v \in Users : pc[v] = "mode_store" => file[v]
    BY DEF FileInv
<1> DEFINE G == /\ flags'.device_open <=> \E v \in Users : file'[v]
                /\ \A v, w \in Users : file'[v] /\ file'[w] => v = w
                /\ \A v \in Users : pc'[v] = "open_set" => ~flags'.device_open
                /\ \A v \in Users : pc'[v] = "mode_store" => loaded'[v].device_open
<1>8. CASE Elsewhere
    <2>1. /\ UNCHANGED <<file, loaded>> /\ flags'.device_open = flags.device_open
          /\ \A v \in Users : pc'[v] \in {"open_set", "mode_store"} => pc'[v] = pc[v]
        BY <1>8 DEF Elsewhere
    <2> QED
        BY <1>5, <2>1
<1>9. ASSUME NEW u \in Users, OpenCheck(u) PROVE G
    <2>1. /\ UNCHANGED <<file, flags>> /\ ~flags.device_open
          /\ pc'[u] = "open_set"
          /\ \A v \in Users : v # u => pc'[v] = pc[v] /\ loaded'[v] = loaded[v]
        BY <1>1, <1>2, <1>4, <1>9 DEF OpenCheck, Call, Goto, engVars
    <2> QED
        BY <1>5, <2>1
<1>10. ASSUME NEW u \in Users, OpenSet(u) PROVE G
    <2>1. /\ flags'.device_open = TRUE /\ file'[u] /\ pc[u] = "open_set"
          /\ pc'[u] = "idle"
          /\ \A v \in Users : v # u => pc'[v] = pc[v] /\ file'[v] = file[v]
        BY <1>1, <1>10 DEF OpenSet, Goto, Flags
    <2>2. \A v \in Users : ~file[v]
        BY <1>5, <2>1
    <2> QED
        BY <1>5, <1>6, <1>7, <2>1, <2>2
<1>11. ASSUME NEW u \in Users, Close(u) PROVE G
    <2>1. /\ flags'.device_open = FALSE /\ ~file'[u] /\ file[u]
          /\ UNCHANGED <<pc, loaded>>
          /\ \A v \in Users : v # u => file'[v] = file[v]
        <3>1. flags'.device_open = (flags.device_open /\ ~streaming)
            BY <1>1, <1>11 DEF Close, Flags
        <3>2. file[u] /\ UNCHANGED <<pc, loaded>> /\ file' = [file EXCEPT ![u] = FALSE]
            BY <1>11 DEF Close
        <3> QED
            BY <1>1, <1>2, <1>4, <3>1, <3>2
    <2> QED
        BY <1>5, <1>7, <2>1
<1>12. ASSUME NEW u \in Users, AddrModeLoad(u) PROVE G
    <2>1. /\ UNCHANGED <<file, flags>> /\ file[u] /\ pc'[u] = "mode_store"
          /\ loaded'[u] = flags
          /\ \A v \in Users : v # u => pc'[v] = pc[v] /\ loaded'[v] = loaded[v]
        BY <1>1, <1>12 DEF AddrModeLoad, Call, Goto, engVars
    <2> QED
        BY <1>5, <2>1
<1>13. ASSUME NEW u \in Users, NEW fixed \in BOOLEAN, AddrModeStore(u, fixed) PROVE G
    <2>1. /\ UNCHANGED <<file, loaded>> /\ pc[u] = "mode_store"
          /\ flags'.device_open = loaded[u].device_open /\ pc'[u] = "mode_write"
          /\ \A v \in Users : v # u => pc'[v] = pc[v]
        BY <1>1, <1>13 DEF AddrModeStore, Goto, Flags
    <2> QED
        BY <1>5, <1>7, <2>1
<1> HIDE DEF G
<1>14. G
    BY <1>8, <1>9, <1>10, <1>11, <1>12, <1>13, StepClasses DEF G
<1> QED
    BY <1>14 DEF G

(* The mode of the hardware and of a store that is under way.              *)
LEMMA ModeStep ==
    ASSUME TypeOK, FileInv, OfflineInv, OpenInv, ModeInv, [Next]_vars
    PROVE  ModeInv'
<1>1. /\ DOMAIN pc = Users /\ pc = [v \in Users |-> pc[v]]
      /\ DOMAIN loaded = Users /\ loaded = [v \in Users |-> loaded[v]]
      /\ flags \in Flags /\ \A v \in Users : loaded[v] \in Flags
    BY DEF TypeOK
<1>2. SUFFICES ASSUME "mode" \notin Trouble', "opens" \notin Trouble'
      PROVE  /\ \A v \in Users :
                 pc'[v] = "open_set" => loaded'[v].non_incr_addr = flags'.non_incr_addr
             /\ \/ hw' = None
                \/ hw_fixed' = flags'.non_incr_addr
                \/ \E v \in Users : pc'[v] = "mode_write"
    BY DEF ModeInv, ModeAgrees, Clear, None, Transfer
<1>3. "opens" \notin Trouble /\ "mode" \notin Trouble
    BY <1>2, BlameStep
<1>4. /\ \A v \in Users :
          pc[v] = "open_set" => loaded[v].non_incr_addr = flags.non_incr_addr
      /\ \/ hw = None
         \/ hw_fixed = flags.non_incr_addr
         \/ \E v \in Users : pc[v] = "mode_write"
    BY <1>3 DEF ModeInv, ModeAgrees, Clear
<1>5. \A v, w \in Users : pc[v] = "open_set" => pc[w] # "mode_store"
                                               /\ (pc[w] = "open_set" => v = w)
    <2>1. \A v, w \in Users : pc[v] = "open_set" /\ pc[w] = "open_set" => v = w
        BY <1>3, CallsApart DEF Apart
    <2> SUFFICES ASSUME NEW v \in Users, NEW w \in Users,
                        pc[v] = "open_set", pc[w] = "mode_store"
                 PROVE  FALSE
        BY <2>1
    <2>2. streaming /\ file[w]
        BY DEF FileInv
    <2>3. flags.device_open /\ ~flags.device_open
        BY <1>3, <2>2 DEF OpenInv, Clear
    <2> QED
        BY <2>3
<1> DEFINE G == /\ \A v \in Users :
                    pc'[v] = "open_set" => loaded'[v].non_incr_addr = flags'.non_incr_addr
                /\ \/ hw' = None
                   \/ hw_fixed' = flags'.non_incr_addr
                   \/ \E v \in Users : pc'[v] = "mode_write"
<1>6. CASE Elsewhere
    <2>1. \A v \in Users :
            pc'[v] = "open_set" => loaded'[v].non_incr_addr = flags'.non_incr_addr
        BY <1>4, <1>6 DEF Elsewhere
    <2>2. \/ hw' = None
          \/ hw_fixed' = flags'.non_incr_addr
          \/ \E v \in Users : pc'[v] = "mode_write"
        BY <1>4, <1>6 DEF Elsewhere
    <2> QED
        BY <2>1, <2>2
<1>7. ASSUME NEW u \in Users, OpenCheck(u) PROVE G
    <2>1. /\ UNCHANGED <<flags, hw, hw_fixed>> /\ pc[u] = "idle"
          /\ pc'[u] = "open_set" => loaded'[u] = flags
          /\ \A v \in Users : v # u => pc'[v] = pc[v] /\ loaded'[v] = loaded[v]
        BY <1>1, <1>7 DEF OpenCheck, Call, Goto, engVars
    <2> QED
        BY <1>4, <2>1
<1>8. ASSUME NEW u \in Users, OpenSet(u) PROVE G
    <2>1. /\ UNCHANGED <<loaded, hw, hw_fixed>> /\ pc[u] = "open_set" /\ pc'[u] = "idle"
          /\ flags'.non_incr_addr = loaded[u].non_incr_addr
          /\ \A v \in Users : v # u => pc'[v] = pc[v]
        BY <1>1, <1>8 DEF OpenSet, Goto, Flags
    <2> QED
        BY <1>4, <1>5, <2>1
<1>9. ASSUME NEW u \in Users, Close(u) PROVE G
    <2>1. /\ UNCHANGED <<pc, loaded, hw, hw_fixed>>
          /\ flags'.non_incr_addr = flags.non_incr_addr
        BY <1>1, <1>9 DEF Close, Flags
    <2> QED
        BY <1>4, <2>1
<1>10. ASSUME NEW u \in Users, AddrModeLoad(u) PROVE G
    <2>1. /\ UNCHANGED <<flags, hw, hw_fixed>> /\ pc'[u] = "mode_store" /\ pc[u] = "idle"
          /\ \A v \in Users : v # u => pc'[v] = pc[v] /\ loaded'[v] = loaded[v]
        BY <1>1, <1>10 DEF AddrModeLoad, Call, Goto, engVars
    <2> QED
        BY <1>4, <2>1
<1>11. ASSUME NEW u \in Users, NEW fixed \in BOOLEAN, AddrModeStore(u, fixed) PROVE G
    <2>1. /\ pc[u] = "mode_store" /\ pc'[u] = "mode_write"
          /\ \A v \in Users : v # u => pc'[v] = pc[v]
        BY <1>1, <1>11 DEF AddrModeStore, Goto
    <2> QED
        BY <1>5, <2>1
<1> HIDE DEF G
<1>12. G
    BY <1>6, <1>7, <1>8, <1>9, <1>10, <1>11, StepClasses DEF G
<1> QED
    BY <1>12 DEF G

(* Who has the device open, which calls are under way and the mode they    *)
(* store: the part of the invariant that needs no performance run.         *)
ModeInvariant == TypeOK /\ FileInv /\ OfflineInv /\ OpenInv /\ ModeInv

\* ModeInvariant holds in every reachable state.
LEMMA ModeInvariance == Spec => []ModeInvariant
<1>1. Init => ModeInvariant
    <2> SUFFICES ASSUME Init PROVE ModeInvariant
        OBVIOUS
    <2>1. TypeOK
        <3>1. flags \in Flags /\ flags.device_open = FALSE
            BY DEF Init, Flags
        <3>2. loaded \in [Users -> Flags]
            BY <3>1 DEF Init
        <3>4. list \in Seq(Transfers)
            BY DEF Init
        <3>3. /\ picked \in [Users -> Transfers \cup {None}]
              /\ pc \in [Users -> {"idle"}]
              /\ calls \in [Users -> 0..MaxCalls]
            BY MaxCallsAssumption DEF Init
        <3> QED
            BY <3>1, <3>2, <3>3, <3>4 DEF Init, TypeOK
    <2>2. \A u \in Users : pc[u] = "idle" /\ ~file[u]
        BY DEF Init
    <2>3. ~offline /\ hw = None /\ ~flags.device_open
        BY DEF Init
    <2> QED
        BY <2>1, <2>2, <2>3
        DEF ModeInvariant, FileInv, OfflineInv, OpenInv, ModeInv, ModeAgrees
<1>2. ModeInvariant /\ [Next]_vars => ModeInvariant'
    BY TypeStep, FileStep, OfflineStep, OpenStep, ModeStep DEF ModeInvariant
<1> QED
    BY <1>1, <1>2, PTL DEF Spec

(* OpenExclusive for any number of processes: the device_open protocol of  *)
(* char_sgdma_open() and char_sgdma_close(), which no other store to the   *)
(* byte of flags breaks, fails only in the window between test and store.  *)
THEOREM OpensAreExclusive == Spec => []OpenExclusive
<1>1. ModeInvariant => OpenExclusive
    <2> SUFFICES ASSUME ModeInvariant, streaming, "opens" \notin Trouble
                 PROVE  /\ Cardinality({u \in Users : file[u]}) <= 1
                        /\ flags.device_open <=> \E u \in Users : file[u]
        BY DEF OpenExclusive
    <2>1. /\ flags.device_open <=> \E u \in Users : file[u]
          /\ \A u, v \in Users : file[u] /\ file[v] => u = v
        BY DEF ModeInvariant, OpenInv, Clear
    <2>2. CASE \E u \in Users : file[u]
        <3> PICK u \in Users : file[u]
            BY <2>2
        <3>1. {v \in Users : file[v]} = {u}
            BY <2>1
        <3>2. Cardinality({u}) = 1
            BY FS_Singleton
        <3> QED
            BY <2>1, <3>1, <3>2
    <2>3. CASE ~\E u \in Users : file[u]
        <3>1. {v \in Users : file[v]} = {}
            BY <2>3
        <3>2. Cardinality({}) = 0
            BY FS_EmptySet
        <3> QED
            BY <2>1, <3>1, <3>2
    <2> QED
        BY <2>2, <2>3
<1> QED
    BY <1>1, ModeInvariance, PTL

(* ModeAgrees for any number of processes and every fault: the engine runs *)
(* in the mode that check_transfer_align() went by, through starts, stops, *)
(* errors and a device that goes offline, unless stores of the flags raced.*)
THEOREM HardwareModeAgrees == Spec => []ModeAgrees
<1>1. ModeInvariant => ModeAgrees
    BY DEF ModeInvariant, ModeInv
<1> QED
    BY <1>1, ModeInvariance, PTL

(* What a step of the list may do: link a transfer at its end, or unlink   *)
(* one.                                                                    *)
Added(t) ==
    /\ Queued' = Queued \cup {t}
    /\ OneRequest /\ (t.cyclic \/ \A s \in Queued : s.cyclic) => OneRequest'
    /\ OneRun /\ (~t.cyclic \/ NoneCyclic) => OneRun'

Removed(t) ==
    /\ t \in Queued
    /\ Queued' \subseteq Queued
    /\ \A s \in Queued : s # t => s \in Queued'
    /\ OneRequest => OneRequest' /\ (~t.cyclic => \A s \in Queued' : s.cyclic)
    /\ OneRun => OneRun' /\ (t.cyclic => NoneCyclic')

\* The set of queued transfers and the places of the list.
LEMMA QueuedFacts ==
    ASSUME list \in Seq(Transfers)
    PROVE  /\ \A i \in 1..Len(list) : list[i] \in Queued
           /\ \A t \in Queued : t \in Transfers /\ \E i \in 1..Len(list) : list[i] = t
           /\ Queued = {} <=> list = <<>>
<1>1. DOMAIN list = 1..Len(list)
    OBVIOUS
<1>2. Queued = {list[i] : i \in 1..Len(list)}
    BY <1>1 DEF Queued, ToSet
<1>3. \A i \in 1..Len(list) : list[i] \in Transfers
    OBVIOUS
<1>4. list # <<>> => 1 \in 1..Len(list)
    OBVIOUS
<1>5. list = <<>> => 1..Len(list) = {}
    OBVIOUS
<1> QED
    BY <1>2, <1>3, <1>4, <1>5

\* The same of the list after a step.
LEMMA QueuedFactsNext ==
    ASSUME list' \in Seq(Transfers)
    PROVE  /\ \A i \in 1..Len(list') : list'[i] \in Queued'
           /\ \A t \in Queued' : t \in Transfers /\ \E i \in 1..Len(list') : list'[i] = t
           /\ Queued' = {} <=> list' = <<>>
<1>1. DOMAIN list' = 1..Len(list')
    OBVIOUS
<1>2. Queued' = {list'[i] : i \in 1..Len(list')}
    BY <1>1 DEF Queued, ToSet
<1>3. \A i \in 1..Len(list') : list'[i] \in Transfers
    OBVIOUS
<1>4. list' # <<>> => 1 \in 1..Len(list')
    OBVIOUS
<1>5. list' = <<>> => 1..Len(list') = {}
    OBVIOUS
<1> QED
    BY <1>2, <1>3, <1>4, <1>5

\* list_add_tail() of transfer_queue() links one transfer.
LEMMA AppendAdds ==
    ASSUME list \in Seq(Transfers), NEW t \in Transfers, list' = Append(list, t)
    PROVE  Added(t)
<1>1. /\ list' \in Seq(Transfers) /\ Len(list') = Len(list) + 1
      /\ \A i \in 1..Len(list) : list'[i] = list[i]
      /\ list'[Len(list) + 1] = t
    OBVIOUS
<1>2. Len(list) \in Nat
    OBVIOUS
<1>3. \A i \in 1..Len(list') : i \in 1..Len(list) \/ i = Len(list) + 1
    BY <1>1, <1>2
<1>4. \A i \in 1..Len(list) : i \in 1..Len(list')
    BY <1>1, <1>2
<1>5. Len(list) + 1 \in 1..Len(list')
    BY <1>1, <1>2
<1>6. /\ \A i \in 1..Len(list) : list[i] \in Queued
      /\ \A s \in Queued : \E i \in 1..Len(list) : list[i] = s
    BY QueuedFacts
<1>7. /\ \A i \in 1..Len(list') : list'[i] \in Queued'
      /\ \A s \in Queued' : \E i \in 1..Len(list') : list'[i] = s
    BY <1>1, QueuedFactsNext
<1>8. Queued' = Queued \cup {t}
    BY <1>1, <1>3, <1>4, <1>5, <1>6, <1>7
<1>9. ASSUME OneRequest, t.cyclic \/ \A s \in Queued : s.cyclic PROVE OneRequest'
    BY <1>1, <1>3, <1>6, <1>9 DEF OneRequest
<1>10. ASSUME OneRun, ~t.cyclic \/ NoneCyclic PROVE OneRun'
    BY <1>1, <1>3, <1>6, <1>10 DEF OneRun, NoneCyclic
<1> QED
    BY <1>8, <1>9, <1>10 DEF Added

\* A list without its i-th entry has that transfer unlinked.
LEMMA DropRemoves ==
    ASSUME list \in Seq(Transfers), list' \in Seq(Transfers), NEW i \in 1..Len(list),
           Len(list') = Len(list) - 1,
           \A j \in 1..(Len(list) - 1) : list'[j] = IF j < i THEN list[j] ELSE list[j + 1]
    PROVE  Removed(list[i])
<1>1. Len(list) \in Nat /\ Len(list') \in Nat
    OBVIOUS
<1> DEFINE at(j) == IF j < i THEN j ELSE j + 1
<1>2. \A j \in 1..Len(list') : at(j) \in 1..Len(list) /\ at(j) # i
    BY <1>1
<1>3. \A j \in 1..Len(list') : list'[j] = list[at(j)]
    BY <1>1
<1>4. \A j, k \in 1..Len(list') : at(j) = at(k) => j = k
    BY <1>1
<1>5. \A k \in 1..Len(list) : k # i => \E j \in 1..Len(list') : at(j) = k
    <2> SUFFICES ASSUME NEW k \in 1..Len(list), k # i
                 PROVE  \E j \in 1..Len(list') : at(j) = k
        OBVIOUS
    <2>1. CASE k < i
        <3>1. k \in 1..Len(list') /\ at(k) = k
            BY <1>1, <2>1
        <3> QED
            BY <3>1
    <2>2. CASE ~(k < i)
        <3>1. k - 1 \in 1..Len(list') /\ at(k - 1) = k
            BY <1>1, <2>2
        <3> QED
            BY <3>1
    <2> QED
        BY <2>1, <2>2
<1> HIDE DEF at
<1>6. /\ \A j \in 1..Len(list) : list[j] \in Queued
      /\ \A s \in Queued : \E j \in 1..Len(list) : list[j] = s
    BY QueuedFacts
<1>7. /\ \A j \in 1..Len(list') : list'[j] \in Queued'
      /\ \A s \in Queued' : \E j \in 1..Len(list') : list'[j] = s
    BY QueuedFactsNext
<1>8. list[i] \in Queued /\ Queued' \subseteq Queued
    <2>1. ASSUME NEW s \in Queued' PROVE s \in Queued
        <3> PICK j \in 1..Len(list') : list'[j] = s
            BY <1>7
        <3> QED
            BY <1>2, <1>3, <1>6
    <2> QED
        BY <1>6, <2>1
<1>9. ASSUME NEW s \in Queued, s # list[i] PROVE s \in Queued'
    <2> PICK k \in 1..Len(list) : list[k] = s
        BY <1>6
    <2> PICK j \in 1..Len(list') : at(j) = k
        BY <1>5, <1>9
    <2> QED
        BY <1>3, <1>7
<1>10. OneRequest => OneRequest' /\ (~list[i].cyclic => \A s \in Queued' : s.cyclic)
    <2> SUFFICES ASSUME OneRequest
                 PROVE  OneRequest' /\ (~list[i].cyclic => \A s \in Queued' : s.cyclic)
        OBVIOUS
    <2>1. OneRequest'
        BY <1>2, <1>3, <1>4 DEF OneRequest
    <2>2. ASSUME ~list[i].cyclic, NEW s \in Queued', ~s.cyclic PROVE FALSE
        <3> PICK j \in 1..Len(list') : list'[j] = s
            BY <1>7
        <3> QED
            BY <1>2, <1>3, <2>2 DEF OneRequest
    <2> QED
        BY <2>1, <2>2
<1>11. OneRun => OneRun' /\ (list[i].cyclic => NoneCyclic')
    <2> SUFFICES ASSUME OneRun
                 PROVE  OneRun' /\ (list[i].cyclic => NoneCyclic')
        OBVIOUS
    <2>1. OneRun'
        BY <1>2, <1>3, <1>4 DEF OneRun
    <2>2. ASSUME list[i].cyclic, NEW s \in Queued', s.cyclic PROVE FALSE
        <3> PICK j \in 1..Len(list') : list'[j] = s
            BY <1>7
        <3> QED
            BY <1>2, <1>3, <2>2 DEF OneRun
    <2> QED
        BY <2>1, <2>2 DEF NoneCyclic
<1> QED
    BY <1>8, <1>9, <1>10, <1>11 DEF Removed

\* The service and the abort unlink the head of the list.
LEMMA TailRemoves ==
    ASSUME list \in Seq(Transfers), list # <<>>, list' = Tail(list)
    PROVE  Removed(Head(list))
<1>1. /\ list' \in Seq(Transfers) /\ Len(list') = Len(list) - 1
      /\ 1 \in 1..Len(list) /\ Head(list) = list[1]
      /\ \A j \in 1..(Len(list) - 1) : list'[j] = list[j + 1]
    OBVIOUS
<1>2. \A j \in 1..(Len(list) - 1) : list'[j] = IF j < 1 THEN list[j] ELSE list[j + 1]
    BY <1>1
<1> QED
    BY <1>1, <1>2, DropRemoves

\* list_del() of a linked transfer unlinks it.
LEMMA UnlinkRemoves ==
    ASSUME list \in Seq(Transfers), NEW t, Unlink(t), t \in Queued
    PROVE  Removed(t)
<1> PICK i \in 1..Len(list) : list[i] = t /\ list' = RemoveAt(list, i)
    BY DEF Unlink
<1>1. /\ RemoveAt(list, i) \in Seq(Transfers)
      /\ Len(RemoveAt(list, i)) = Len(list) - 1
      /\ \A j \in 1..(Len(list) - 1) :
            RemoveAt(list, i)[j] = IF j < i THEN list[j] ELSE list[j + 1]
    BY RemoveAtFacts
<1> QED
    BY <1>1, DropRemoves

(* The request that waits under desc_lock is the one on the list.          *)
LEMMA DmaStep ==
    ASSUME TypeOK, DmaInv, [Next]_vars
    PROVE  DmaInv'
<1>1. /\ DOMAIN pc = Users /\ pc = [v \in Users |-> pc[v]]
      /\ list \in Seq(Transfers)
      /\ \A t \in Transfers : t.by \in Users /\ t.cyclic \in BOOLEAN
                              /\ t = Transfer(t.by, t.cyclic)
    BY DEF TypeOK, Transfers, Transfer
<1>2. SUFFICES ASSUME Alive'
      PROVE  /\ desc'
             /\ \A v \in Users : pc'[v] = "dma_wait" <=> Transfer(v, FALSE) \in Queued'
             /\ OneRequest'
    BY DEF DmaInv
<1>3. Alive /\ "oops" \notin damage' /\ "freed_request" \notin damage'
    BY <1>2, BlameStep DEF Alive
<1>4. /\ desc
      /\ \A v \in Users : pc[v] = "dma_wait" <=> Transfer(v, FALSE) \in Queued
      /\ OneRequest
    BY <1>3 DEF DmaInv
<1> DEFINE G == /\ desc'
                /\ \A v \in Users : pc'[v] = "dma_wait" <=> Transfer(v, FALSE) \in Queued'
                /\ OneRequest'
<1>5. ASSUME NEW u \in Users, NEW q, Goto(u, q)
      PROVE  \A v \in Users : pc'[v] = IF v = u THEN q ELSE pc[v]
    BY <1>1, <1>5 DEF Goto
<1>6. ASSUME list' = list, desc' = desc \/ desc',
             \A v \in Users : pc'[v] = "dma_wait" <=> pc[v] = "dma_wait"
      PROVE  G
    BY <1>4, <1>6 DEF Queued, OneRequest
<1>7. ASSUME NEW t \in Transfers, Removed(t), desc' = desc, t.cyclic,
             \A v \in Users : pc'[v] = "dma_wait" <=> pc[v] = "dma_wait"
      PROVE  G
    <2>1. \A v \in Users : Transfer(v, FALSE) # t
        BY <1>7 DEF Transfer
    <2> QED
        BY <1>4, <1>7, <2>1 DEF Removed
<1>8. ASSUME NEW t \in Transfers, Removed(t), desc' = desc, ~t.cyclic,
             Goto(t.by, "idle")
      PROVE  G
    <2>1. t = Transfer(t.by, FALSE) /\ t.by \in Users
        BY <1>1, <1>8
    <2>2. \A s \in Queued' : s.cyclic
        BY <1>4, <1>8 DEF Removed
    <2>3. \A v \in Users : Transfer(v, FALSE) \notin Queued'
        BY <2>2 DEF Transfer
    <2>4. ASSUME NEW v \in Users, pc'[v] = "dma_wait" PROVE FALSE
        <3>1. v # t.by /\ pc[v] = "dma_wait"
            BY <1>5, <1>8, <2>1, <2>4
        <3>2. Transfer(v, FALSE) \in Queued /\ Transfer(v, FALSE) # t
            BY <1>4, <2>1, <3>1 DEF Transfer
        <3>3. Transfer(v, FALSE) \in Queued'
            BY <1>8, <3>2 DEF Removed
        <3> QED
            BY <2>3, <3>3
    <2> QED
        BY <1>4, <1>8, <2>3, <2>4 DEF Removed
<1>9. ASSUME Service PROVE G
    <2>1. /\ list # <<>> /\ hw = Head(list) /\ ~hw.cyclic /\ list' = Tail(list)
          /\ Goto(hw.by, "idle") /\ desc' = desc
        BY <1>9 DEF Service, ServiceHead, perfVars
    <2>2. Removed(hw) /\ hw \in Transfers
        BY <1>1, <2>1, TailRemoves
    <2> QED
        BY <1>8, <2>1, <2>2
<1>10. ASSUME ServiceError PROVE G
    <2>1. /\ list # <<>> /\ hw = Head(list) /\ list' = Tail(list)
          /\ IF hw.cyclic THEN pc' = pc ELSE Goto(hw.by, "idle")
          /\ desc' = desc
        BY <1>10 DEF ServiceError, ServiceHead, perfVars
    <2>2. Removed(hw) /\ hw \in Transfers
        BY <1>1, <2>1, TailRemoves
    <2> QED
        BY <1>7, <1>8, <2>1, <2>2
<1>11. ASSUME NEW u \in Users, CyclicUnlink(u) PROVE G
    <2>1. /\ Goto(u, "stop_copy") /\ desc' = desc /\ pc[u] = "stop_unlink"
          /\ picked[u].cyclic => /\ Unlink(picked[u])
                                 /\ Hurt(If(picked[u] \notin Queued, "oops"))
          /\ ~picked[u].cyclic => list' = list
        BY <1>11 DEF CyclicUnlink
    <2>2. \A v \in Users : pc'[v] = "dma_wait" <=> pc[v] = "dma_wait"
        BY <1>5, <2>1
    <2>3. CASE picked[u].cyclic
        <3>1. picked[u] \in Queued
            BY <1>3, <2>1, <2>3 DEF Hurt, If
        <3>2. Removed(picked[u]) /\ picked[u] \in Transfers
            BY <1>1, <2>1, <2>3, <3>1, UnlinkRemoves, QueuedFacts
        <3> QED
            BY <1>7, <2>1, <2>2, <2>3, <3>2
    <2>4. CASE ~picked[u].cyclic
        BY <1>6, <2>1, <2>2, <2>4
    <2> QED
        BY <2>3, <2>4
<1>12. ASSUME NEW u \in Users, DmaTimeout(u) PROVE G
    <2>1. /\ Goto(u, "idle") /\ desc' = desc
          /\ \/ list # <<>> /\ Head(list) = Transfer(u, FALSE) /\ list' = Tail(list)
             \/ Hurt({"freed_request"})
        BY <1>12 DEF DmaTimeout, perfVars
    <2>2. list # <<>> /\ Head(list) = Transfer(u, FALSE) /\ list' = Tail(list)
        BY <1>3, <2>1 DEF Hurt
    <2>3. /\ Removed(Transfer(u, FALSE)) /\ Transfer(u, FALSE) \in Transfers
          /\ Transfer(u, FALSE).by = u /\ ~Transfer(u, FALSE).cyclic
        BY <1>1, <2>2, TailRemoves DEF Transfer, Transfers
    <2> QED
        BY <1>8, <2>1, <2>3
<1>13. ASSUME NEW u \in Users, PerfQueue(u) PROVE G
    <2>1. ~offline
        BY <1>3, <1>13 DEF PerfQueue, Hurt
    <2>2. /\ Goto(u, "idle") /\ desc' = desc /\ pc[u] = "perf_queue"
          /\ list' = Append(list, Transfer(u, TRUE))
        BY <1>13, <2>1 DEF PerfQueue, TransferQueue
    <2>3. Added(Transfer(u, TRUE))
        BY <1>1, <2>2, AppendAdds DEF Transfer, Transfers
    <2>4. \A v \in Users : pc'[v] = "dma_wait" <=> pc[v] = "dma_wait"
        BY <1>5, <2>2
    <2>5. Transfer(u, TRUE).cyclic /\ \A v \in Users : Transfer(v, FALSE) # Transfer(u, TRUE)
        BY DEF Transfer
    <2> QED
        BY <1>4, <2>2, <2>3, <2>4, <2>5 DEF Added
<1>14. ASSUME NEW u \in Users, DmaQueue(u) PROVE G
    <2>1. /\ pc[u] = "dma_queue" /\ desc' = desc
          /\ \A v \in Users : pc[v] # "dma_wait"
        BY <1>14 DEF DmaQueue, perfVars
    <2>2. CASE offline
        <3>1. Goto(u, "idle") /\ list' = list
            BY <1>14, <2>2 DEF DmaQueue, engVars
        <3>2. \A v \in Users : pc'[v] = "dma_wait" <=> pc[v] = "dma_wait"
            BY <1>5, <2>1, <3>1
        <3> QED
            BY <1>6, <2>1, <3>1, <3>2
    <2>3. CASE ~offline
        <3>1. Goto(u, "dma_wait") /\ list' = Append(list, Transfer(u, FALSE))
            BY <1>14, <2>3 DEF DmaQueue, TransferQueue
        <3>2. Added(Transfer(u, FALSE))
            BY <1>1, <3>1, AppendAdds DEF Transfer, Transfers
        <3>3. \A v \in Users : Transfer(v, FALSE) \notin Queued
            BY <1>4, <2>1
        <3>4. \A s \in Queued : s.cyclic
            <4> SUFFICES ASSUME NEW s \in Queued, ~s.cyclic PROVE FALSE
                OBVIOUS
            <4>1. s = Transfer(s.by, FALSE) /\ s.by \in Users
                BY <1>1, QueuedFacts
            <4> QED
                BY <3>3, <4>1
        <3>5. \A v \in Users : Transfer(v, FALSE) = Transfer(u, FALSE) <=> v = u
            BY DEF Transfer
        <3>6. \A v \in Users : pc'[v] = "dma_wait" <=> v = u
            BY <1>5, <2>1, <3>1
        <3>7. Queued' = Queued \cup {Transfer(u, FALSE)} /\ OneRequest'
            BY <1>4, <3>2, <3>4 DEF Added
        <3> QED
            BY <1>4, <2>1, <3>3, <3>5, <3>6, <3>7
    <2> QED
        BY <2>2, <2>3
<1>15. ASSUME NEW u \in Users, OpenCheck(u) PROVE G
    <2>1. list' = list /\ (desc' = desc \/ desc')
        BY <1>15 DEF OpenCheck, engVars, perfVars
    <2>2. \A v \in Users : pc'[v] = "dma_wait" <=> pc[v] = "dma_wait"
        BY <1>1, <1>15 DEF OpenCheck, Call, Goto
    <2> QED
        BY <1>6, <2>1, <2>2
<1>16. ASSUME NEW u \in Users, OpenSet(u) PROVE G
    <2>1. list' = list /\ (desc' = desc \/ desc')
        BY <1>16 DEF OpenSet, engVars, perfVars
    <2>2. \A v \in Users : pc'[v] = "dma_wait" <=> pc[v] = "dma_wait"
        BY <1>1, <1>16 DEF OpenSet, Call, Goto
    <2> QED
        BY <1>6, <2>1, <2>2
<1>17. ASSUME NEW u \in Users, Close(u) PROVE G
    <2>1. list' = list /\ (desc' = desc \/ desc')
        BY <1>17 DEF Close, engVars, perfVars
    <2>2. \A v \in Users : pc'[v] = "dma_wait" <=> pc[v] = "dma_wait"
        BY <1>1, <1>17 DEF Close, Call, Goto
    <2> QED
        BY <1>6, <2>1, <2>2
<1>18. ASSUME NEW u \in Users, PerfStart(u) PROVE G
    <2>1. list' = list /\ (desc' = desc \/ desc')
        BY <1>18 DEF PerfStart, engVars, perfVars
    <2>2. \A v \in Users : pc'[v] = "dma_wait" <=> pc[v] = "dma_wait"
        BY <1>1, <1>18 DEF PerfStart, Call, Goto
    <2> QED
        BY <1>6, <2>1, <2>2
<1>19. ASSUME NEW u \in Users, PerfAlloc(u) PROVE G
    <2>1. list' = list /\ (desc' = desc \/ desc')
        BY <1>19 DEF PerfAlloc, engVars, perfVars
    <2>2. \A v \in Users : pc'[v] = "dma_wait" <=> pc[v] = "dma_wait"
        BY <1>1, <1>19 DEF PerfAlloc, Call, Goto
    <2> QED
        BY <1>6, <2>1, <2>2
<1>20. ASSUME NEW u \in Users, PerfCopy(u) PROVE G
    <2>1. list' = list /\ (desc' = desc \/ desc')
        BY <1>20 DEF PerfCopy, engVars, perfVars
    <2>2. \A v \in Users : pc'[v] = "dma_wait" <=> pc[v] = "dma_wait"
        BY <1>1, <1>20 DEF PerfCopy, Call, Goto
    <2> QED
        BY <1>6, <2>1, <2>2
<1>21. ASSUME NEW u \in Users, PerfSubmit(u) PROVE G
    <2>1. list' = list /\ (desc' = desc \/ desc')
        BY <1>21 DEF PerfSubmit, engVars, perfVars
    <2>2. \A v \in Users : pc'[v] = "dma_wait" <=> pc[v] = "dma_wait"
        BY <1>1, <1>21 DEF PerfSubmit, Call, Goto
    <2> QED
        BY <1>6, <2>1, <2>2
<1>22. ASSUME NEW u \in Users, PerfRing(u) PROVE G
    <2>1. list' = list /\ (desc' = desc \/ desc')
        BY <1>22 DEF PerfRing, engVars, perfVars
    <2>2. \A v \in Users : pc'[v] = "dma_wait" <=> pc[v] = "dma_wait"
        BY <1>1, <1>22 DEF PerfRing, Call, Goto
    <2> QED
        BY <1>6, <2>1, <2>2
<1>23. ASSUME NEW u \in Users, PerfStop(u) PROVE G
    <2>1. list' = list /\ (desc' = desc \/ desc')
        BY <1>23 DEF PerfStop, engVars, perfVars
    <2>2. \A v \in Users : pc'[v] = "dma_wait" <=> pc[v] = "dma_wait"
        BY <1>1, <1>23 DEF PerfStop, Call, Goto
    <2> QED
        BY <1>6, <2>1, <2>2
<1>24. ASSUME NEW u \in Users, CyclicPick(u) PROVE G
    <2>1. list' = list /\ (desc' = desc \/ desc')
        BY <1>24 DEF CyclicPick, engVars, perfVars
    <2>2. \A v \in Users : pc'[v] = "dma_wait" <=> pc[v] = "dma_wait"
        BY <1>1, <1>24 DEF CyclicPick, Call, Goto
    <2> QED
        BY <1>6, <2>1, <2>2
<1>25. ASSUME NEW u \in Users, PerfCopyOut(u) PROVE G
    <2>1. list' = list /\ (desc' = desc \/ desc')
        BY <1>25 DEF PerfCopyOut, engVars, perfVars
    <2>2. \A v \in Users : pc'[v] = "dma_wait" <=> pc[v] = "dma_wait"
        BY <1>1, <1>25 DEF PerfCopyOut, Call, Goto
    <2> QED
        BY <1>6, <2>1, <2>2
<1>26. ASSUME NEW u \in Users, PerfGet(u) PROVE G
    <2>1. list' = list /\ (desc' = desc \/ desc')
        BY <1>26 DEF PerfGet, engVars, perfVars
    <2>2. \A v \in Users : pc'[v] = "dma_wait" <=> pc[v] = "dma_wait"
        BY <1>1, <1>26 DEF PerfGet, Call, Goto
    <2> QED
        BY <1>6, <2>1, <2>2
<1>27. ASSUME NEW u \in Users, PerfGetCopy(u) PROVE G
    <2>1. list' = list /\ (desc' = desc \/ desc')
        BY <1>27 DEF PerfGetCopy, engVars, perfVars
    <2>2. \A v \in Users : pc'[v] = "dma_wait" <=> pc[v] = "dma_wait"
        BY <1>1, <1>27 DEF PerfGetCopy, Call, Goto
    <2> QED
        BY <1>6, <2>1, <2>2
<1>28. ASSUME NEW u \in Users, AddrModeLoad(u) PROVE G
    <2>1. list' = list /\ (desc' = desc \/ desc')
        BY <1>28 DEF AddrModeLoad, engVars, perfVars
    <2>2. \A v \in Users : pc'[v] = "dma_wait" <=> pc[v] = "dma_wait"
        BY <1>1, <1>28 DEF AddrModeLoad, Call, Goto
    <2> QED
        BY <1>6, <2>1, <2>2
<1>29. ASSUME NEW u \in Users, AddrModeWrite(u) PROVE G
    <2>1. list' = list /\ (desc' = desc \/ desc')
        BY <1>29 DEF AddrModeWrite, engVars, perfVars
    <2>2. \A v \in Users : pc'[v] = "dma_wait" <=> pc[v] = "dma_wait"
        BY <1>1, <1>29 DEF AddrModeWrite, Call, Goto
    <2> QED
        BY <1>6, <2>1, <2>2
<1>30. ASSUME NEW u \in Users, DmaCheck(u) PROVE G
    <2>1. list' = list /\ (desc' = desc \/ desc')
        BY <1>30 DEF DmaCheck, engVars, perfVars
    <2>2. \A v \in Users : pc'[v] = "dma_wait" <=> pc[v] = "dma_wait"
        BY <1>1, <1>30 DEF DmaCheck, Call, Goto
    <2> QED
        BY <1>6, <2>1, <2>2
<1>31. ASSUME NEW u \in Users, NEW fixed \in BOOLEAN, AddrModeStore(u, fixed) PROVE G
    <2>1. list' = list /\ (desc' = desc \/ desc')
        BY <1>31 DEF AddrModeStore, engVars, perfVars
    <2>2. \A v \in Users : pc'[v] = "dma_wait" <=> pc[v] = "dma_wait"
        BY <1>1, <1>31 DEF AddrModeStore, Call, Goto
    <2> QED
        BY <1>6, <2>1, <2>2
<1>32. ASSUME Offline \/ Online \/ UNCHANGED vars PROVE G
    <2>1. UNCHANGED <<list, desc, pc>>
        BY <1>32 DEF Offline, Online, vars, userVars, perfVars, engVars
    <2> QED
        BY <1>6, <2>1
<1> HIDE DEF G
<1>33. G
    BY <1>9, <1>10, <1>11, <1>12, <1>13, <1>14, <1>15, <1>16, <1>17, <1>18, <1>19, <1>20, <1>21, <1>22, <1>23, <1>24, <1>25, <1>26, <1>27, <1>28, <1>29, <1>30, <1>31, <1>32 DEF Next
<1> QED
    BY <1>33 DEF G

(* A step outside the performance calls: the run's structure, buffer and   *)
(* transfer stay.                                                          *)
Aside ==
    /\ UNCHANGED <<xdma_perf, perf_buf, picked>>
    /\ \A v \in Users :
        pc'[v] = pc[v] \/ (pc[v] \notin PerfCalls /\ pc'[v] \notin PerfCalls)
    /\ \A t : t.cyclic => (t \in Queued' <=> t \in Queued)
    /\ OneRun => OneRun'

PerfAction(u) ==
    \/ PerfStart(u) \/ PerfAlloc(u) \/ PerfCopy(u) \/ PerfSubmit(u)
    \/ PerfRing(u) \/ PerfQueue(u)
    \/ PerfStop(u) \/ CyclicPick(u) \/ CyclicUnlink(u) \/ PerfCopyOut(u)
    \/ PerfGet(u) \/ PerfGetCopy(u)

\* As long as no freed memory is used, a step is an error, one of a performance
\* call, or aside of them.
LEMMA PerfClasses ==
    ASSUME TypeOK, DmaInv, Alive', [Next]_vars
    PROVE  ServiceError \/ Aside \/ \E u \in Users : PerfAction(u)
<1>1. /\ DOMAIN pc = Users /\ pc = [v \in Users |-> pc[v]]
      /\ list \in Seq(Transfers)
      /\ \A t \in Transfers : t.by \in Users /\ t.cyclic \in BOOLEAN
                              /\ t = Transfer(t.by, t.cyclic)
    BY DEF TypeOK, Transfers, Transfer
<1>2. Alive /\ "oops" \notin damage' /\ "freed_request" \notin damage'
    BY BlameStep DEF Alive
<1>3. \A v \in Users : pc[v] = "dma_wait" <=> Transfer(v, FALSE) \in Queued
    BY <1>2 DEF DmaInv
<1>4. ASSUME NEW u \in Users, NEW q, Goto(u, q), q \notin PerfCalls, pc[u] \notin PerfCalls
      PROVE  \A v \in Users :
                pc'[v] = pc[v] \/ (pc[v] \notin PerfCalls /\ pc'[v] \notin PerfCalls)
    BY <1>1, <1>4 DEF Goto
<1>5. list' = list => Queued' = Queued /\ (OneRun => OneRun')
    BY DEF Queued, OneRun
<1>6. ASSUME NEW t \in Transfers, ~t.cyclic, Removed(t) \/ Added(t)
      PROVE  /\ \A s : s.cyclic => (s \in Queued' <=> s \in Queued)
             /\ OneRun => OneRun'
    BY <1>6 DEF Removed, Added
<1>7. {"idle", "open_set", "mode_store", "mode_write", "dma_queue", "dma_wait"}
        \cap PerfCalls = {}
    BY DEF PerfCalls
<1>8. CASE Service
    <2>1. /\ list # <<>> /\ hw = Head(list) /\ ~hw.cyclic /\ list' = Tail(list)
          /\ Goto(hw.by, "idle") /\ UNCHANGED <<xdma_perf, perf_buf, picked>>
        BY <1>8 DEF Service, ServiceHead, perfVars
    <2>2. Removed(hw) /\ hw \in Transfers
        BY <1>1, <2>1, TailRemoves
    <2>3. hw.by \in Users /\ hw = Transfer(hw.by, FALSE) /\ hw \in Queued
        BY <1>1, <2>1, <2>2 DEF Removed
    <2>4. pc[hw.by] = "dma_wait"
        BY <1>3, <2>3
    <2> QED
        BY <1>4, <1>6, <1>7, <2>1, <2>2, <2>3, <2>4 DEF Aside
<1>9. ASSUME NEW u \in Users, DmaTimeout(u) PROVE Aside
    <2>1. /\ Goto(u, "idle") /\ UNCHANGED <<xdma_perf, perf_buf, picked>>
          /\ pc[u] = "dma_wait"
          /\ \/ list # <<>> /\ Head(list) = Transfer(u, FALSE) /\ list' = Tail(list)
             \/ Hurt({"freed_request"})
        BY <1>9 DEF DmaTimeout, perfVars
    <2>2. list # <<>> /\ Head(list) = Transfer(u, FALSE) /\ list' = Tail(list)
        BY <1>2, <2>1 DEF Hurt
    <2>3. /\ Removed(Transfer(u, FALSE)) /\ Transfer(u, FALSE) \in Transfers
          /\ ~Transfer(u, FALSE).cyclic
        BY <1>1, <2>2, TailRemoves DEF Transfer, Transfers
    <2> QED
        BY <1>4, <1>6, <1>7, <2>1, <2>3 DEF Aside
<1>10. ASSUME NEW u \in Users, DmaQueue(u) PROVE Aside
    <2>1. pc[u] = "dma_queue" /\ UNCHANGED <<xdma_perf, perf_buf, picked>>
        BY <1>10 DEF DmaQueue, perfVars
    <2>2. CASE offline
        <3>1. Goto(u, "idle") /\ list' = list
            BY <1>10, <2>2 DEF DmaQueue, engVars
        <3> QED
            BY <1>4, <1>5, <1>7, <2>1, <3>1 DEF Aside
    <2>3. CASE ~offline
        <3>1. Goto(u, "dma_wait") /\ list' = Append(list, Transfer(u, FALSE))
            BY <1>10, <2>3 DEF DmaQueue, TransferQueue
        <3>2. /\ Added(Transfer(u, FALSE)) /\ Transfer(u, FALSE) \in Transfers
              /\ ~Transfer(u, FALSE).cyclic
            BY <1>1, <3>1, AppendAdds DEF Transfer, Transfers
        <3> QED
            BY <1>4, <1>6, <1>7, <2>1, <3>1, <3>2 DEF Aside
    <2> QED
        BY <2>2, <2>3
<1>11. ASSUME Offline \/ Online \/ UNCHANGED vars PROVE Aside
    <2>1. UNCHANGED <<list, pc, xdma_perf, perf_buf, picked>>
        BY <1>11 DEF Offline, Online, vars, userVars, perfVars, engVars
    <2> QED
        BY <1>5, <2>1 DEF Aside
<1>12. ASSUME NEW u \in Users, OpenCheck(u) PROVE Aside
    <2>1. UNCHANGED <<list, xdma_perf, perf_buf, picked>> /\ pc[u] = "idle"
        BY <1>12 DEF OpenCheck, Call, engVars, perfVars
    <2>2. Goto(u, "open_set") \/ Goto(u, "idle")
        BY <1>12 DEF OpenCheck, Call
    <2> QED
        BY <1>4, <1>5, <1>7, <2>1, <2>2 DEF Aside
<1>13. ASSUME NEW u \in Users, OpenSet(u) PROVE Aside
    <2>1. UNCHANGED <<list, xdma_perf, perf_buf, picked>> /\ pc[u] = "open_set"
        BY <1>13 DEF OpenSet, Call, engVars, perfVars
    <2>2. Goto(u, "idle")
        BY <1>13 DEF OpenSet, Call
    <2> QED
        BY <1>4, <1>5, <1>7, <2>1, <2>2 DEF Aside
<1>14. ASSUME NEW u \in Users, Close(u) PROVE Aside
    <2>1. UNCHANGED <<list, pc, xdma_perf, perf_buf, picked>>
        BY <1>14 DEF Close, perfVars
    <2> QED
        BY <1>5, <2>1 DEF Aside
<1>15. ASSUME NEW u \in Users, AddrModeLoad(u) PROVE Aside
    <2>1. UNCHANGED <<list, xdma_perf, perf_buf, picked>> /\ pc[u] = "idle"
        BY <1>15 DEF AddrModeLoad, Call, engVars, perfVars
    <2>2. Goto(u, "mode_store")
        BY <1>15 DEF AddrModeLoad, Call
    <2> QED
        BY <1>4, <1>5, <1>7, <2>1, <2>2 DEF Aside
<1>16. ASSUME NEW u \in Users, AddrModeWrite(u) PROVE Aside
    <2>1. UNCHANGED <<list, xdma_perf, perf_buf, picked>> /\ pc[u] = "mode_write"
        BY <1>16 DEF AddrModeWrite, Call, engVars, perfVars
    <2>2. Goto(u, "idle")
        BY <1>16 DEF AddrModeWrite, Call
    <2> QED
        BY <1>4, <1>5, <1>7, <2>1, <2>2 DEF Aside
<1>17. ASSUME NEW u \in Users, DmaCheck(u) PROVE Aside
    <2>1. UNCHANGED <<list, xdma_perf, perf_buf, picked>> /\ pc[u] = "idle"
        BY <1>17 DEF DmaCheck, Call, engVars, perfVars
    <2>2. Goto(u, "dma_queue")
        BY <1>17 DEF DmaCheck, Call
    <2> QED
        BY <1>4, <1>5, <1>7, <2>1, <2>2 DEF Aside
<1>18. ASSUME NEW u \in Users, NEW fixed \in BOOLEAN, AddrModeStore(u, fixed) PROVE Aside
    <2>1. UNCHANGED <<list, xdma_perf, perf_buf, picked>> /\ pc[u] = "mode_store"
        BY <1>18 DEF AddrModeStore, Call, engVars, perfVars
    <2>2. Goto(u, "mode_write")
        BY <1>18 DEF AddrModeStore, Call
    <2> QED
        BY <1>4, <1>5, <1>7, <2>1, <2>2 DEF Aside
<1> QED
    BY <1>8, <1>9, <1>10, <1>11, <1>12, <1>13, <1>14, <1>15, <1>16, <1>17, <1>18 DEF Next, PerfAction

(* The structure, the calls and the cyclic transfer of a performance run   *)
(* stay in step while no two performance calls overlap.                    *)
LEMMA PerfStep ==
    ASSUME TypeOK, DmaInv, PerfInv, [Next]_vars
    PROVE  PerfInv'
<1>1. /\ DOMAIN pc = Users /\ pc = [v \in Users |-> pc[v]]
      /\ DOMAIN picked = Users /\ picked = [v \in Users |-> picked[v]]
      /\ list \in Seq(Transfers)
      /\ \A t \in Transfers : t.by \in Users /\ t.cyclic \in BOOLEAN
                              /\ t = Transfer(t.by, t.cyclic)
    BY DEF TypeOK, Transfers, Transfer
<1>2. SUFFICES ASSUME Alive', "race" \notin Trouble'
      PROVE  /\ \A t \in Queued' : t.cyclic => t.by = xdma_perf'
             /\ OneRun'
             /\ \A v \in Users : CallInv(v)'
    BY DEF PerfInv, Clear
<1>3. /\ Alive /\ "oops" \notin damage' /\ "freed_request" \notin damage'
      /\ "race" \notin Trouble
      /\ \A x : x \in Trouble => x \in Trouble'
    BY <1>2, BlameStep DEF Alive
<1>4. /\ \A t \in Queued : t.cyclic => t.by = xdma_perf
      /\ OneRun
      /\ \A v \in Users : CallInv(v)
    BY <1>3 DEF PerfInv, Clear
<1>5. \A v, w \in Users : pc[v] \in PerfCalls /\ pc[w] \in PerfCalls => v = w
    BY <1>3, CallsApart DEF Apart
<1> DEFINE G == /\ \A t \in Queued' : t.cyclic => t.by = xdma_perf'
                /\ OneRun'
                /\ \A v \in Users : CallInv(v)'
           Moves(u, q) == \A v \in Users : pc'[v] = IF v = u THEN q ELSE pc[v]
<1>6. ASSUME NEW u \in Users, NEW q, Goto(u, q) PROVE Moves(u, q)
    BY <1>1, <1>6 DEF Goto
<1>7. list' = list => Queued' = Queued /\ OneRun'
    BY <1>4 DEF Queued, OneRun
<1>8. xdma_perf = Nobody => NoneCyclic
    <2> SUFFICES ASSUME xdma_perf = Nobody, NEW t \in Queued, t.cyclic PROVE FALSE
        BY DEF NoneCyclic
    <2>1. t.by \in Users
        BY <1>1, QueuedFacts
    <2> QED
        BY <1>4, <2>1, NobodyAssumption
(* Nothing but some other call moves: every CallInv goes on.               *)
<1>9. ASSUME NEW v \in Users, pc'[v] = pc[v], xdma_perf' = xdma_perf, picked'[v] = picked[v],
             \A t \in Queued' : t.cyclic => t \in Queued,
             \A t \in Queued : t.cyclic => t \in Queued' \/ "error" \in Trouble'
      PROVE  CallInv(v)'
    <2>1. CallInv(v)
        BY <1>4
    <2>2. NoneCyclic => NoneCyclic'
        BY <1>9 DEF NoneCyclic
    <2>3. /\ ~Clear({"error"}) => ~Clear({"error"})'
          /\ ~Clear({"mix"}) => ~Clear({"mix"})'
          /\ "error" \in Trouble' => ~Clear({"error"})'
        BY <1>3 DEF Clear
    <2> QED
        BY <1>9, <2>1, <2>2, <2>3 DEF CallInv
<1>10. ASSUME NEW v \in Users, pc'[v] \notin PerfCalls PROVE CallInv(v)'
    BY <1>10 DEF CallInv, PerfCalls
<1>11. ASSUME ServiceError PROVE G
    <2>1. /\ list # <<>> /\ hw = Head(list) /\ list' = Tail(list)
          /\ IF hw.cyclic THEN pc' = pc ELSE Goto(hw.by, "idle")
          /\ UNCHANGED <<xdma_perf, picked>> /\ Blame({"error"})
        BY <1>11 DEF ServiceError, ServiceHead, perfVars
    <2>2. Removed(hw) /\ hw \in Transfers
        BY <1>1, <2>1, TailRemoves
    <2>3. "error" \in Trouble'
        BY <2>1 DEF Blame, Trouble
    <2>4. ASSUME NEW v \in Users PROVE pc'[v] = pc[v] \/ pc'[v] \notin PerfCalls
        BY <1>1, <2>1 DEF Goto, PerfCalls
    <2>5. Queued' \subseteq Queued /\ OneRun'
        BY <1>4, <2>2 DEF Removed
    <2>6. \A v \in Users : CallInv(v)'
        BY <1>9, <1>10, <2>1, <2>3, <2>4, <2>5
    <2> QED
        BY <1>4, <2>1, <2>5, <2>6
<1>12. ASSUME Aside PROVE G
    <2>1. /\ UNCHANGED <<xdma_perf, picked>> /\ OneRun'
          /\ \A v \in Users : pc'[v] = pc[v] \/ pc'[v] \notin PerfCalls
          /\ \A t : t.cyclic => (t \in Queued' <=> t \in Queued)
        BY <1>4, <1>12 DEF Aside
    <2>2. \A v \in Users : CallInv(v)'
        BY <1>9, <1>10, <2>1
    <2> QED
        BY <1>4, <2>1, <2>2
(* The steps of a performance call that leave the list and the structure.  *)
<1>13. ASSUME NEW u \in Users, NEW q, Goto(u, q), UNCHANGED <<list, xdma_perf>>,
              \A v \in Users : v # u => picked'[v] = picked[v],
              CallInv(u)'
      PROVE  G
    <2>1. Queued' = Queued /\ OneRun'
        BY <1>7, <1>13
    <2>2. \A v \in Users : v # u => pc'[v] = pc[v]
        BY <1>6, <1>13
    <2>3. \A v \in Users : v # u => CallInv(v)'
        BY <1>9, <1>13, <2>1, <2>2
    <2> QED
        BY <1>4, <1>13, <2>1, <2>3
(* A step of the only performance call that is under way.                  *)
<1>14. ASSUME NEW u \in Users, NEW q, Goto(u, q), pc[u] \in PerfCalls, CallInv(u)',
              \A t \in Queued' : t.cyclic => t.by = xdma_perf', OneRun'
      PROVE  G
    <2>1. \A v \in Users : v # u => pc'[v] \notin PerfCalls
        BY <1>5, <1>6, <1>14
    <2>2. \A v \in Users : v # u => CallInv(v)'
        BY <1>10, <2>1
    <2> QED
        BY <1>14, <2>2
<1>15. ASSUME NEW u \in Users, PerfStart(u) PROVE G
    <2>1. /\ Goto(u, "perf_alloc") /\ xdma_perf = Nobody
          /\ UNCHANGED <<list, xdma_perf, picked>>
        BY <1>15 DEF PerfStart, Call, perfVars, engVars
    <2>2. pc'[u] = "perf_alloc"
        BY <1>6, <2>1
    <2>3. CallInv(u)'
        BY <2>1, <2>2 DEF CallInv
    <2> QED
        BY <1>13, <2>1, <2>3
<1>16. ASSUME NEW u \in Users, PerfStop(u) PROVE G
    <2>1. /\ Goto(u, "stop_pick") /\ xdma_perf # Nobody
          /\ UNCHANGED <<list, xdma_perf, picked>>
        BY <1>16 DEF PerfStop, Call, perfVars, engVars
    <2>2. pc'[u] = "stop_pick"
        BY <1>6, <2>1
    <2>3. CallInv(u)'
        BY <2>1, <2>2 DEF CallInv
    <2> QED
        BY <1>13, <2>1, <2>3
<1>17. ASSUME NEW u \in Users, PerfGet(u) PROVE G
    <2>1. /\ Goto(u, "get_copy") /\ xdma_perf # Nobody
          /\ UNCHANGED <<list, xdma_perf, picked>>
        BY <1>17 DEF PerfGet, Call, perfVars, engVars
    <2>2. pc'[u] = "get_copy"
        BY <1>6, <2>1
    <2>3. CallInv(u)'
        BY <2>1, <2>2 DEF CallInv
    <2> QED
        BY <1>13, <2>1, <2>3
<1>18. ASSUME NEW u \in Users, PerfAlloc(u) PROVE G
    <2>1. /\ pc[u] = "perf_alloc" /\ UNCHANGED list
          /\ \/ xdma_perf' = u /\ Goto(u, "perf_copy")
             \/ xdma_perf' = Nobody /\ Goto(u, "idle")
        BY <1>18 DEF PerfAlloc, engVars
    <2>2. xdma_perf = Nobody
        BY <1>4, <2>1 DEF CallInv
    <2>3. Queued' = Queued /\ OneRun' /\ NoneCyclic /\ NoneCyclic'
        BY <1>7, <1>8, <2>1, <2>2 DEF NoneCyclic
    <2>4. CallInv(u)'
        <3>1. CASE xdma_perf' = u /\ Goto(u, "perf_copy")
            <4>1. pc'[u] = "perf_copy"
                BY <1>6, <3>1
            <4> QED
                BY <2>3, <3>1, <4>1 DEF CallInv
        <3>2. CASE xdma_perf' = Nobody /\ Goto(u, "idle")
            <4>1. pc'[u] \notin PerfCalls
                BY <1>6, <3>2 DEF PerfCalls
            <4> QED
                BY <1>10, <4>1
        <3> QED
            BY <2>1, <3>1, <3>2
    <2>5. \A t \in Queued' : t.cyclic => t.by = xdma_perf'
        BY <2>3 DEF NoneCyclic
    <2>6. pc[u] \in PerfCalls
        BY <2>1 DEF PerfCalls
    <2> QED
        BY <1>14, <2>1, <2>3, <2>4, <2>5, <2>6
<1>19. ASSUME NEW u \in Users, PerfCopy(u) PROVE G
    <2>1. /\ pc[u] = "perf_copy" /\ UNCHANGED <<list, xdma_perf, picked>>
          /\ Goto(u, "perf_submit") \/ Goto(u, "idle")
        BY <1>19 DEF PerfCopy, perfVars, engVars
    <2>2. xdma_perf = u /\ NoneCyclic
        BY <1>4, <2>1 DEF CallInv
    <2>3. xdma_perf' = u /\ NoneCyclic'
        BY <1>7, <2>1, <2>2 DEF NoneCyclic
    <2>4. pc'[u] = "perf_submit" \/ pc'[u] = "idle"
        BY <1>6, <2>1
    <2>5. CallInv(u)'
        BY <2>3, <2>4 DEF CallInv
    <2> QED
        BY <1>13, <2>1, <2>5
<1>20. ASSUME NEW u \in Users, PerfSubmit(u) PROVE G
    <2>1. /\ pc[u] = "perf_submit" /\ UNCHANGED <<list, xdma_perf, picked>>
          /\ Goto(u, "perf_ring") \/ Goto(u, "idle")
        BY <1>20 DEF PerfSubmit, perfVars, engVars
    <2>2. xdma_perf = u /\ NoneCyclic
        BY <1>4, <2>1 DEF CallInv
    <2>3. xdma_perf' = u /\ NoneCyclic'
        BY <1>7, <2>1, <2>2 DEF NoneCyclic
    <2>4. pc'[u] = "perf_ring" \/ pc'[u] = "idle"
        BY <1>6, <2>1
    <2>5. CallInv(u)'
        BY <2>3, <2>4 DEF CallInv
    <2> QED
        BY <1>13, <2>1, <2>5
<1>21. ASSUME NEW u \in Users, PerfRing(u) PROVE G
    <2>1. /\ pc[u] = "perf_ring" /\ UNCHANGED <<list, xdma_perf, picked>>
          /\ Goto(u, "perf_queue") \/ Goto(u, "idle")
        BY <1>21 DEF PerfRing, perfVars, engVars
    <2>2. xdma_perf = u /\ NoneCyclic
        BY <1>4, <2>1 DEF CallInv
    <2>3. xdma_perf' = u /\ NoneCyclic'
        BY <1>7, <2>1, <2>2 DEF NoneCyclic
    <2>4. pc'[u] = "perf_queue" \/ pc'[u] = "idle"
        BY <1>6, <2>1
    <2>5. CallInv(u)'
        BY <2>3, <2>4 DEF CallInv
    <2> QED
        BY <1>13, <2>1, <2>5
<1>22. ASSUME NEW u \in Users, PerfQueue(u) PROVE G
    <2>1. ~offline
        BY <1>3, <1>22 DEF PerfQueue, Hurt
    <2>2. /\ Goto(u, "idle") /\ pc[u] = "perf_queue" /\ xdma_perf' = xdma_perf
          /\ list' = Append(list, Transfer(u, TRUE))
        BY <1>22, <2>1 DEF PerfQueue, TransferQueue
    <2>3. Added(Transfer(u, TRUE)) /\ Transfer(u, TRUE).by = u
        BY <1>1, <2>2, AppendAdds DEF Transfer, Transfers
    <2>4. xdma_perf = u /\ NoneCyclic
        BY <1>4, <2>2 DEF CallInv
    <2>5. OneRun' /\ \A t \in Queued' : t.cyclic => t.by = xdma_perf'
        BY <1>4, <2>2, <2>3, <2>4 DEF Added, NoneCyclic
    <2>6. pc[u] \in PerfCalls /\ pc'[u] \notin PerfCalls
        BY <1>6, <2>2 DEF PerfCalls
    <2> QED
        BY <1>10, <1>14, <2>2, <2>5, <2>6
<1>23. ASSUME NEW u \in Users, CyclicPick(u) PROVE G
    <2>1. /\ pc[u] = "stop_pick" /\ UNCHANGED <<list, xdma_perf>>
          /\ \/ Goto(u, "idle") /\ picked' = picked
             \/ /\ Goto(u, "stop_unlink") /\ list # <<>>
                /\ picked' = [picked EXCEPT ![u] = Head(list)]
        BY <1>23 DEF CyclicPick, engVars
    <2>2. xdma_perf # Nobody /\ Queued' = Queued
        BY <1>4, <1>7, <2>1 DEF CallInv
    <2>3. CASE Goto(u, "idle") /\ picked' = picked
        <3>1. pc'[u] \notin PerfCalls
            BY <1>6, <2>3 DEF PerfCalls
        <3> QED
            BY <1>10, <1>13, <2>1, <2>3, <3>1
    <2>4. CASE /\ Goto(u, "stop_unlink") /\ list # <<>>
               /\ picked' = [picked EXCEPT ![u] = Head(list)]
        <3>1. Head(list) = list[1] /\ 1 \in 1..Len(list)
            BY <1>1, <2>4
        <3>2. /\ pc'[u] = "stop_unlink" /\ picked'[u] \in Queued'
              /\ picked'[u] \in Transfers
              /\ \A v \in Users : v # u => picked'[v] = picked[v]
            BY <1>1, <1>6, <2>2, <2>4, <3>1, QueuedFacts
        <3>3. ~picked'[u].cyclic => "mix" \in Trouble
            <4> SUFFICES ASSUME ~picked'[u].cyclic, "mix" \notin Trouble PROVE FALSE
                OBVIOUS
            <4> DEFINE w == Head(list).by
            <4>1. w \in Users /\ Transfer(w, FALSE) \in Queued
                <5>1. Head(list) = picked'[u] /\ Head(list) \in Queued
                    BY <1>1, <2>2, <2>4, <3>2
                <5>2. Head(list) \in Transfers /\ Head(list).cyclic = FALSE
                    BY <1>1, <3>2, <5>1
                <5>3. Head(list) = Transfer(w, FALSE) /\ w \in Users
                    BY <1>1, <5>2
                <5> QED
                    BY <5>1, <5>3
            <4>2. pc[w] = "dma_wait"
                BY <1>3, <4>1 DEF DmaInv
            <4>3. pc[u] \notin PerfCalls
                BY <4>1, <4>2, CallsApart DEF Apart
            <4> QED
                BY <2>1, <4>3 DEF PerfCalls
        <3>4. ~picked'[u].cyclic => ~Clear({"mix"})'
            BY <1>3, <3>3 DEF Clear
        <3>5. CallInv(u)'
            BY <2>1, <2>2, <3>2, <3>4 DEF CallInv
        <3> QED
            BY <1>13, <2>1, <2>4, <3>2, <3>5
    <2> QED
        BY <2>1, <2>3, <2>4
<1>24. ASSUME NEW u \in Users, CyclicUnlink(u) PROVE G
    <2>1. /\ Goto(u, "stop_copy") /\ UNCHANGED <<xdma_perf, picked>>
          /\ pc[u] = "stop_unlink"
          /\ picked[u].cyclic => /\ Unlink(picked[u])
                                 /\ Hurt(If(picked[u] \notin Queued, "oops"))
          /\ ~picked[u].cyclic => list' = list
        BY <1>24 DEF CyclicUnlink
    <2>2. pc'[u] = "stop_copy" /\ pc[u] \in PerfCalls /\ picked'[u] = picked[u]
        BY <1>6, <2>1 DEF PerfCalls
    <2>3. xdma_perf' # Nobody
        BY <1>4, <2>1 DEF CallInv
    <2>4. CASE picked[u].cyclic
        <3>1. picked[u] \in Queued
            BY <1>3, <2>1, <2>4 DEF Hurt, If
        <3>2. Removed(picked[u])
            BY <1>1, <2>1, <2>4, <3>1, UnlinkRemoves
        <3>3. NoneCyclic' /\ OneRun'
            BY <1>4, <2>4, <3>2 DEF Removed
        <3>4. CallInv(u)'
            BY <2>2, <2>3, <2>4, <3>3 DEF CallInv
        <3>5. \A t \in Queued' : t.cyclic => t.by = xdma_perf'
            BY <3>3 DEF NoneCyclic
        <3> QED
            BY <1>14, <2>1, <2>2, <3>3, <3>4, <3>5
    <2>5. CASE ~picked[u].cyclic
        <3>1. ~Clear({"mix"})'
            BY <1>3, <1>4, <2>1, <2>5 DEF CallInv, Clear
        <3>2. CallInv(u)'
            BY <2>2, <2>3, <2>5, <3>1 DEF CallInv
        <3> QED
            BY <1>13, <2>1, <2>5, <3>2
    <2> QED
        BY <2>4, <2>5
<1>25. ASSUME NEW u \in Users, PerfCopyOut(u) PROVE G
    <2>1. /\ Goto(u, "idle") /\ pc[u] = "stop_copy" /\ list' = list
          /\ picked' = [picked EXCEPT ![u] = None]
          /\ \/ /\ xdma_perf' = Nobody
                /\ Hurt(If(xdma_perf = Nobody, "oops") \cup
                        If(~picked[u].cyclic, "freed_request"))
             \/ xdma_perf' = xdma_perf
        BY <1>25 DEF PerfCopyOut, engVars
    <2>2. /\ pc'[u] \notin PerfCalls /\ pc[u] \in PerfCalls
          /\ \A v \in Users : v # u => picked'[v] = picked[v]
        BY <1>1, <1>6, <2>1 DEF PerfCalls
    <2>3. CallInv(u)'
        BY <1>10, <2>2
    <2>4. CASE xdma_perf' = xdma_perf
        BY <1>13, <2>1, <2>2, <2>3, <2>4
    <2>5. CASE /\ xdma_perf' = Nobody
               /\ Hurt(If(xdma_perf = Nobody, "oops") \cup
                       If(~picked[u].cyclic, "freed_request"))
        <3>1. picked[u].cyclic
            BY <1>3, <2>5 DEF Hurt, If
        <3>2. NoneCyclic
            BY <1>4, <2>1, <3>1 DEF CallInv
        <3>3. OneRun' /\ \A t \in Queued' : t.cyclic => t.by = xdma_perf'
            BY <1>7, <2>1, <3>2 DEF NoneCyclic
        <3> QED
            BY <1>14, <2>1, <2>2, <2>3, <3>3
    <2> QED
        BY <2>1, <2>4, <2>5
<1>26. ASSUME NEW u \in Users, PerfGetCopy(u) PROVE G
    <2>1. Goto(u, "idle") /\ UNCHANGED <<list, xdma_perf, picked>>
        BY <1>26 DEF PerfGetCopy, perfVars, engVars
    <2>2. pc'[u] \notin PerfCalls
        BY <1>6, <2>1 DEF PerfCalls
    <2> QED
        BY <1>10, <1>13, <2>1, <2>2
<1> HIDE DEF G
<1>27. G
    BY <1>2, PerfClasses, <1>11, <1>12, <1>15, <1>16, <1>17, <1>18, <1>19, <1>20, <1>21, <1>22, <1>23, <1>24, <1>25, <1>26 DEF PerfAction
<1> QED
    BY <1>27 DEF G

(* perf_buf_virt is there exactly while a transfer uses it or is about to, *)
(* as long as nothing overlapped, failed or stopped the run.               *)
LEMMA BufStep ==
    ASSUME TypeOK, OfflineInv, DmaInv, PerfInv, BufInv, [Next]_vars
    PROVE  BufInv'
<1>1. /\ DOMAIN pc = Users /\ pc = [v \in Users |-> pc[v]]
      /\ list \in Seq(Transfers)
    BY DEF TypeOK
<1> DEFINE bad == {"race", "fail", "error", "offline"}
           ring == {"perf_ring", "perf_queue"}
           B == /\ perf_buf # Nobody => perf_buf = xdma_perf
                /\ perf_buf # Nobody <=> ~NoneCyclic \/ \E v \in Users : pc[v] \in ring
<1>2. SUFFICES ASSUME Alive', Trouble' \cap bad = {} PROVE B'
    BY DEF BufInv, Clear
<1>3. /\ Alive /\ "oops" \notin damage' /\ "freed_request" \notin damage'
      /\ Trouble \cap bad = {}
    BY <1>2, BlameStep DEF Alive
<1>4. /\ perf_buf # Nobody => perf_buf = xdma_perf
      /\ perf_buf # Nobody <=> ~NoneCyclic \/ \E v \in Users : pc[v] \in ring
    BY <1>3 DEF BufInv, Clear
<1>5. /\ \A t \in Queued : t.cyclic => t.by = xdma_perf
      /\ OneRun
      /\ \A v \in Users : CallInv(v)
    BY <1>3 DEF PerfInv, Clear
<1>6. \A v, w \in Users : pc[v] \in PerfCalls /\ pc[w] \in PerfCalls => v = w
    BY <1>3, CallsApart DEF Apart
<1>7. ASSUME NEW S, Blame(S), NEW x \in S, x \in bad PROVE FALSE
    BY <1>2, <1>7 DEF Blame, Trouble
<1>8. ASSUME NEW u \in Users, NEW q, Goto(u, q)
      PROVE  \A v \in Users : pc'[v] = IF v = u THEN q ELSE pc[v]
    BY <1>1, <1>8 DEF Goto
<1>9. list' = list => (NoneCyclic' <=> NoneCyclic)
    BY DEF NoneCyclic, Queued
<1>10. ASSUME NEW u \in Users, NEW q, Goto(u, q), q \in ring <=> pc[u] \in ring,
              UNCHANGED <<xdma_perf, perf_buf, list>>
      PROVE  B'
    <2>1. \A v \in Users : pc'[v] \in ring <=> pc[v] \in ring
        BY <1>8, <1>10
    <2> QED
        BY <1>4, <1>9, <1>10, <2>1
<1>11. ring \subseteq PerfCalls
    BY DEF PerfCalls
<1>12. ASSUME NEW u \in Users, NEW q, Goto(u, q), q \notin ring, pc[u] \in PerfCalls
      PROVE  \A v \in Users : pc'[v] \notin ring
    BY <1>6, <1>8, <1>11, <1>12
<1>13. ASSUME ServiceError PROVE FALSE
    BY <1>7, <1>13 DEF ServiceError
<1>14. ASSUME Aside PROVE B'
    <2>1. /\ UNCHANGED <<xdma_perf, perf_buf>>
          /\ \A v \in Users : pc'[v] \in ring <=> pc[v] \in ring
          /\ \A t : t.cyclic => (t \in Queued' <=> t \in Queued)
        BY <1>11, <1>14 DEF Aside
    <2>2. NoneCyclic' <=> NoneCyclic
        BY <2>1 DEF NoneCyclic
    <2> QED
        BY <1>4, <2>1, <2>2
<1>15. ASSUME NEW u \in Users, PerfStart(u) PROVE B'
    <2>1. /\ Goto(u, "perf_alloc") /\ pc[u] = "idle"
          /\ UNCHANGED <<list, xdma_perf, perf_buf>>
        BY <1>15 DEF PerfStart, Call, perfVars, engVars
    <2> QED
        BY <1>10, <2>1
<1>16. ASSUME NEW u \in Users, PerfStop(u) PROVE B'
    <2>1. /\ Goto(u, "stop_pick") /\ pc[u] = "idle"
          /\ UNCHANGED <<list, xdma_perf, perf_buf>>
        BY <1>16 DEF PerfStop, Call, perfVars, engVars
    <2> QED
        BY <1>10, <2>1
<1>17. ASSUME NEW u \in Users, PerfGet(u) PROVE B'
    <2>1. /\ Goto(u, "get_copy") /\ pc[u] = "idle"
          /\ UNCHANGED <<list, xdma_perf, perf_buf>>
        BY <1>17 DEF PerfGet, Call, perfVars, engVars
    <2> QED
        BY <1>10, <2>1
<1>18. ASSUME NEW u \in Users, PerfAlloc(u) PROVE B'
    <2>1. /\ pc[u] = "perf_alloc" /\ UNCHANGED <<list, perf_buf>>
          /\ (xdma_perf' = u /\ Goto(u, "perf_copy")) \/ Blame({"fail"})
        BY <1>18 DEF PerfAlloc, engVars
    <2>2. xdma_perf' = u /\ Goto(u, "perf_copy")
        BY <1>7, <2>1
    <2>3. xdma_perf = Nobody
        BY <1>5, <2>1 DEF CallInv
    <2>4. perf_buf = Nobody /\ perf_buf' = Nobody
        BY <1>4, <2>1, <2>3
    <2>5. \A v \in Users : pc'[v] \notin ring
        BY <1>12, <2>1, <2>2 DEF PerfCalls
    <2> QED
        BY <1>4, <1>9, <2>1, <2>4, <2>5
<1>19. ASSUME NEW u \in Users, PerfCopy(u) PROVE B'
    <2>1. /\ pc[u] = "perf_copy" /\ UNCHANGED <<list, xdma_perf, perf_buf>>
          /\ Goto(u, "perf_submit") \/ Goto(u, "idle")
        BY <1>19 DEF PerfCopy, perfVars, engVars
    <2> QED
        BY <1>10, <2>1
<1>20. ASSUME NEW u \in Users, PerfSubmit(u) PROVE B'
    <2>1. /\ pc[u] = "perf_submit" /\ UNCHANGED <<list, xdma_perf>>
          /\ (perf_buf' = u /\ Goto(u, "perf_ring")) \/ Blame({"fail"})
        BY <1>20 DEF PerfSubmit, engVars
    <2>2. perf_buf' = u /\ Goto(u, "perf_ring")
        BY <1>7, <2>1
    <2>3. xdma_perf' = u
        BY <1>5, <2>1 DEF CallInv
    <2>4. pc'[u] \in ring
        BY <1>8, <2>2
    <2> QED
        BY <2>2, <2>3, <2>4, NobodyAssumption
<1>21. ASSUME NEW u \in Users, PerfRing(u) PROVE B'
    <2>1. /\ pc[u] = "perf_ring" /\ UNCHANGED <<list, xdma_perf>>
          /\ (perf_buf' = perf_buf /\ Goto(u, "perf_queue")) \/ Blame({"fail"})
        BY <1>21 DEF PerfRing, engVars
    <2>2. perf_buf' = perf_buf /\ Goto(u, "perf_queue")
        BY <1>7, <2>1
    <2> QED
        BY <1>10, <2>1, <2>2
<1>22. ASSUME NEW u \in Users, PerfQueue(u) PROVE B'
    <2>1. ~offline
        BY <1>3, <1>22 DEF PerfQueue, Hurt
    <2>2. /\ pc[u] = "perf_queue" /\ UNCHANGED <<xdma_perf, perf_buf>>
          /\ list' = Append(list, Transfer(u, TRUE))
        BY <1>22, <2>1 DEF PerfQueue, TransferQueue
    <2>3. Added(Transfer(u, TRUE)) /\ Transfer(u, TRUE).cyclic
        BY <1>1, <2>2, AppendAdds DEF Transfer, Transfers
    <2>4. ~NoneCyclic'
        BY <2>3 DEF Added, NoneCyclic
    <2>5. perf_buf # Nobody
        BY <1>4, <2>2
    <2> QED
        BY <1>4, <2>2, <2>4, <2>5
<1>23. ASSUME NEW u \in Users, CyclicPick(u) PROVE B'
    <2>1. /\ pc[u] = "stop_pick" /\ UNCHANGED <<list, xdma_perf, perf_buf>>
          /\ Goto(u, "stop_unlink") \/ Goto(u, "idle")
        BY <1>23 DEF CyclicPick, engVars
    <2> QED
        BY <1>10, <2>1
<1>24. ASSUME NEW u \in Users, CyclicUnlink(u) PROVE B'
    <2>1. /\ Goto(u, "stop_copy") /\ pc[u] = "stop_unlink" /\ UNCHANGED xdma_perf
          /\ picked[u].cyclic => /\ Unlink(picked[u])
                                 /\ Hurt(If(picked[u] \notin Queued, "oops"))
                                 /\ perf_buf' = Nobody
          /\ ~picked[u].cyclic => UNCHANGED <<list, perf_buf>>
        BY <1>24 DEF CyclicUnlink
    <2>2. CASE picked[u].cyclic
        <3>1. picked[u] \in Queued
            BY <1>3, <2>1, <2>2 DEF Hurt, If
        <3>2. Removed(picked[u])
            BY <1>1, <2>1, <2>2, <3>1, UnlinkRemoves
        <3>3. NoneCyclic'
            BY <1>5, <2>2, <3>2 DEF Removed
        <3>4. \A v \in Users : pc'[v] \notin ring
            BY <1>12, <2>1 DEF PerfCalls
        <3> QED
            BY <2>1, <2>2, <3>3, <3>4
    <2>3. CASE ~picked[u].cyclic
        BY <1>10, <2>1, <2>3
    <2> QED
        BY <2>2, <2>3
<1>25. ASSUME NEW u \in Users, PerfCopyOut(u) PROVE B'
    <2>1. /\ Goto(u, "idle") /\ pc[u] = "stop_copy" /\ UNCHANGED <<list, perf_buf>>
          /\ \/ /\ xdma_perf' = Nobody
                /\ Hurt(If(xdma_perf = Nobody, "oops") \cup
                        If(~picked[u].cyclic, "freed_request"))
             \/ Blame({"fail"})
        BY <1>25 DEF PerfCopyOut, engVars
    <2>2. /\ xdma_perf' = Nobody
          /\ Hurt(If(xdma_perf = Nobody, "oops") \cup
                  If(~picked[u].cyclic, "freed_request"))
        BY <1>7, <2>1
    <2>3. picked[u].cyclic
        BY <1>3, <2>2 DEF Hurt, If
    <2>4. NoneCyclic
        BY <1>5, <2>1, <2>3 DEF CallInv
    <2>5. \A v \in Users : pc'[v] \notin ring
        BY <1>12, <2>1 DEF PerfCalls
    <2>6. \A v \in Users : pc[v] \notin ring
        BY <1>6, <1>11, <2>1 DEF PerfCalls
    <2>7. perf_buf' = Nobody
        BY <1>4, <2>1, <2>4, <2>6
    <2> QED
        BY <1>9, <2>1, <2>4, <2>5, <2>7
<1>26. ASSUME NEW u \in Users, PerfGetCopy(u) PROVE B'
    <2>1. /\ pc[u] = "get_copy" /\ UNCHANGED <<list, xdma_perf, perf_buf>>
          /\ Goto(u, "idle")
        BY <1>26 DEF PerfGetCopy, perfVars, engVars
    <2> QED
        BY <1>10, <2>1
<1> HIDE DEF B
<1> QED
    BY <1>2, PerfClasses, <1>13, <1>14, <1>15, <1>16, <1>17, <1>18, <1>19, <1>20, <1>21, <1>22, <1>23, <1>24, <1>25, <1>26 DEF PerfAction

(* Every step that does damage follows on what DamageExplained names.      *)
LEMMA DamageStep ==
    ASSUME TypeOK, OfflineInv, DmaInv, PerfInv, BufInv, DamageExplained, [Next]_vars
    PROVE  DamageExplained'
<1> DEFINE L == {"race", "fail", "error", "offline"}
           O == {"race", "error", "offline"}
           M == {"mix", "race"}
           G == /\ "leak" \in damage' => "leak" \in damage \/ Trouble' \cap L # {}
                /\ "oops" \in damage' => "oops" \in damage \/ Trouble' \cap O # {}
                /\ "freed_request" \in damage' =>
                    "freed_request" \in damage \/ Trouble' \cap M # {}
                /\ "overwritten" \in damage' =>
                    "overwritten" \in damage \/ Trouble' \cap M # {}
<1>1. \A x : x \in Trouble => x \in Trouble'
    BY BlameStep
<1>2. SUFFICES G
    BY <1>1, <1>2 DEF DamageExplained
<1>3. damage' = damage => G
    OBVIOUS
<1>4. UNCHANGED vars => damage' = damage
    BY DEF vars
<1>5. SUFFICES ASSUME Next PROVE G
    BY <1>3, <1>4, <1>5
<1>6. Alive
    BY <1>5 DEF Next
<1>7. "race" \notin Trouble =>
        /\ \A t \in Queued : t.cyclic => t.by = xdma_perf
        /\ OneRun
        /\ \A v \in Users : CallInv(v)
    BY <1>6 DEF PerfInv, Clear
<1>8. /\ desc
      /\ \A v \in Users : pc[v] = "dma_wait" <=> Transfer(v, FALSE) \in Queued
      /\ OneRequest
    BY <1>6 DEF DmaInv
<1>9. /\ list \in Seq(Transfers)
      /\ \A t \in Transfers : t.by \in Users /\ t.cyclic \in BOOLEAN
                              /\ t = Transfer(t.by, t.cyclic)
    BY DEF TypeOK, Transfers, Transfer
<1>10. ASSUME NEW S, Blame(S), NEW x \in S PROVE x \in Trouble'
    BY <1>10 DEF Blame, Trouble
(* A cyclic transfer and a request, or a performance call and a waiting    *)
(* request, are mixed.                                                     *)
<1>11. ASSUME NEW u \in Users, pc[u] \in {"dma_queue", "dma_wait"},
              NEW t \in Queued, t.cyclic
      PROVE  Trouble \cap M # {}
    <2> SUFFICES ASSUME "race" \notin Trouble, "mix" \notin Trouble PROVE FALSE
        OBVIOUS
    <2>1. t.by = xdma_perf /\ t.by \in Users
        BY <1>7, <1>9, <1>11, QueuedFacts
    <2>2. xdma_perf = Nobody
        BY <1>11, CallsApart DEF Apart
    <2> QED
        BY <2>1, <2>2, NobodyAssumption
<1>12. ASSUME NEW u \in Users, pc[u] \in PerfCalls, NEW t \in Queued, ~t.cyclic
      PROVE  "mix" \in Trouble
    <2>1. t \in Transfers /\ t.by \in Users /\ t = Transfer(t.by, FALSE)
        BY <1>9, <1>12, QueuedFacts
    <2>2. pc[t.by] = "dma_wait"
        BY <1>8, <2>1
    <2> QED
        BY <1>12, <2>1, <2>2, CallsApart DEF Apart
<1>13. ASSUME ServiceError PROVE G
    <2>1. Blame({"error"}) /\ Hurt(If(hw.cyclic, "leak"))
        BY <1>13 DEF ServiceError
    <2>2. "error" \in Trouble'
        BY <1>10, <2>1
    <2>3. damage' \subseteq damage \cup {"leak"}
        BY <2>1 DEF Hurt, If
    <2> QED
        BY <2>2, <2>3
<1>14. ASSUME Service \/ Offline \/ Online PROVE G
    <2>1. Hurt({})
        BY <1>14 DEF Service, Offline, Online
    <2> QED
        BY <1>3, <2>1 DEF Hurt
<1>15. ASSUME NEW u \in Users,
              \/ OpenCheck(u) \/ OpenSet(u) \/ Close(u) \/ PerfStart(u) \/ PerfStop(u)
              \/ PerfGet(u) \/ AddrModeLoad(u) \/ AddrModeWrite(u) \/ DmaCheck(u)
              \/ \E fixed \in BOOLEAN : AddrModeStore(u, fixed)
      PROVE  G
    <2>1. Hurt({})
        BY <1>15 DEF OpenCheck, OpenSet, Close, PerfStart, PerfStop, PerfGet, AddrModeLoad,
                 AddrModeWrite, DmaCheck, AddrModeStore
    <2> QED
        BY <1>3, <2>1 DEF Hurt
<1>16. ASSUME NEW u \in Users, PerfAlloc(u) PROVE G
    <2>1. pc[u] = "perf_alloc" /\ Hurt(If(xdma_perf # Nobody, "leak"))
        BY <1>16 DEF PerfAlloc
    <2>2. "race" \notin Trouble => xdma_perf = Nobody
        BY <1>7, <2>1 DEF CallInv
    <2>3. CASE "race" \in Trouble
        BY <1>1, <2>1, <2>3 DEF Hurt, If
    <2>4. CASE "race" \notin Trouble
        BY <1>3, <2>1, <2>2, <2>4 DEF Hurt, If
    <2> QED
        BY <2>3, <2>4
<1>17. ASSUME NEW u \in Users, PerfCopy(u) PROVE G
    <2>1. pc[u] = "perf_copy" /\ Hurt(If(xdma_perf = Nobody, "oops"))
        BY <1>17 DEF PerfCopy
    <2>2. "race" \notin Trouble => xdma_perf # Nobody
        BY <1>7, <2>1, NobodyAssumption DEF CallInv
    <2>3. CASE "race" \in Trouble
        BY <1>1, <2>1, <2>3 DEF Hurt, If
    <2>4. CASE "race" \notin Trouble
        BY <1>3, <2>1, <2>2, <2>4 DEF Hurt, If
    <2> QED
        BY <2>3, <2>4
<1>18. ASSUME NEW u \in Users, CyclicPick(u) PROVE G
    <2>1. pc[u] = "stop_pick" /\ Hurt(If(xdma_perf = Nobody, "oops"))
        BY <1>18 DEF CyclicPick
    <2>2. "race" \notin Trouble => xdma_perf # Nobody
        BY <1>7, <2>1, NobodyAssumption DEF CallInv
    <2>3. CASE "race" \in Trouble
        BY <1>1, <2>1, <2>3 DEF Hurt, If
    <2>4. CASE "race" \notin Trouble
        BY <1>3, <2>1, <2>2, <2>4 DEF Hurt, If
    <2> QED
        BY <2>3, <2>4
<1>19. ASSUME NEW u \in Users, PerfGetCopy(u) PROVE G
    <2>1. pc[u] = "get_copy" /\ Hurt(If(xdma_perf = Nobody, "oops"))
        BY <1>19 DEF PerfGetCopy
    <2>2. "race" \notin Trouble => xdma_perf # Nobody
        BY <1>7, <2>1, NobodyAssumption DEF CallInv
    <2>3. CASE "race" \in Trouble
        BY <1>1, <2>1, <2>3 DEF Hurt, If
    <2>4. CASE "race" \notin Trouble
        BY <1>3, <2>1, <2>2, <2>4 DEF Hurt, If
    <2> QED
        BY <2>3, <2>4
<1>20. ASSUME NEW u \in Users, PerfSubmit(u) PROVE G
    <2>1. /\ pc[u] = "perf_submit"
          /\ Hurt(If(xdma_perf = Nobody, "oops") \cup If(perf_buf # Nobody, "leak"))
        BY <1>20 DEF PerfSubmit
    <2>2. "race" \notin Trouble => xdma_perf = u /\ NoneCyclic
        BY <1>7, <2>1 DEF CallInv
    <2>3. Trouble \cap L = {} => perf_buf = Nobody
        <3> SUFFICES ASSUME Trouble \cap L = {} PROVE perf_buf = Nobody
            OBVIOUS
        <3>1. perf_buf # Nobody =>
                \E v \in Users : pc[v] \in {"perf_ring", "perf_queue"}
            BY <1>6, <2>2 DEF BufInv, Clear
        <3>2. \A v \in Users : pc[v] \in PerfCalls => v = u
            BY <2>1, CallsApart DEF Apart, PerfCalls
        <3> QED
            BY <2>1, <3>1, <3>2 DEF PerfCalls
    <2>4. "oops" \in damage' => "oops" \in damage \/ "race" \in Trouble
        BY <2>1, <2>2, NobodyAssumption DEF Hurt, If
    <2>5. "leak" \in damage' => "leak" \in damage \/ Trouble \cap L # {}
        BY <2>1, <2>3 DEF Hurt, If
    <2>6. damage' \subseteq damage \cup {"oops", "leak"}
        BY <2>1 DEF Hurt, If
    <2> QED
        BY <1>1, <2>4, <2>5, <2>6
<1>21. ASSUME NEW u \in Users, PerfRing(u) PROVE G
    <2>1. /\ pc[u] = "perf_ring"
          /\ Hurt(If(list # <<>>, "overwritten")) \/ Hurt({})
        BY <1>21 DEF PerfRing
    <2>2. "race" \notin Trouble /\ list # <<>> => "mix" \in Trouble
        <3> SUFFICES ASSUME "race" \notin Trouble, list # <<>> PROVE "mix" \in Trouble
            OBVIOUS
        <3>1. Queued # {}
            BY <1>9, QueuedFacts
        <3>2. NoneCyclic
            BY <1>7, <2>1 DEF CallInv
        <3>3. pc[u] \in PerfCalls
            BY <2>1 DEF PerfCalls
        <3> QED
            BY <1>12, <3>1, <3>2, <3>3 DEF NoneCyclic
    <2>3. CASE "race" \in Trouble \/ "mix" \in Trouble
        BY <1>1, <2>1, <2>3 DEF Hurt, If
    <2>4. CASE "race" \notin Trouble /\ "mix" \notin Trouble
        BY <1>3, <2>1, <2>2, <2>4 DEF Hurt, If
    <2> QED
        BY <2>3, <2>4
<1>22. ASSUME NEW u \in Users, PerfQueue(u) PROVE G
    <2>1. Hurt({}) \/ (offline /\ Hurt({"leak", "oops"}))
        BY <1>22 DEF PerfQueue
    <2>2. offline => "offline" \in Trouble'
        BY <1>1 DEF OfflineInv, Trouble
    <2> QED
        BY <2>1, <2>2 DEF Hurt
<1>23. ASSUME NEW u \in Users, CyclicUnlink(u) PROVE G
    <2>1. /\ pc[u] = "stop_unlink"
          /\ \/ Hurt({})
             \/ picked[u].cyclic /\ Hurt(If(picked[u] \notin Queued, "oops"))
        BY <1>23 DEF CyclicUnlink
    <2>2. picked[u].cyclic /\ picked[u] \notin Queued => Trouble \cap O # {}
        BY <1>7, <2>1 DEF CallInv, Clear
    <2> QED
        BY <1>1, <2>1, <2>2 DEF Hurt, If
<1>24. ASSUME NEW u \in Users, PerfCopyOut(u) PROVE G
    <2>1. /\ pc[u] = "stop_copy"
          /\ \/ Hurt(If(xdma_perf = Nobody, "oops") \cup
                     If(~picked[u].cyclic, "freed_request"))
             \/ Hurt(If(picked[u].cyclic, "leak")) /\ Blame({"fail"})
        BY <1>24 DEF PerfCopyOut
    <2>2. "race" \notin Trouble => xdma_perf # Nobody
        BY <1>7, <2>1 DEF CallInv
    <2>3. "race" \notin Trouble /\ ~picked[u].cyclic => "mix" \in Trouble
        BY <1>7, <2>1 DEF CallInv, Clear
    <2>4. CASE Hurt(If(xdma_perf = Nobody, "oops") \cup
                    If(~picked[u].cyclic, "freed_request"))
        <3>1. "oops" \in damage' => "oops" \in damage \/ "race" \in Trouble
            BY <2>2, <2>4 DEF Hurt, If
        <3>2. "freed_request" \in damage' =>
                "freed_request" \in damage \/ "race" \in Trouble \/ "mix" \in Trouble
            BY <2>3, <2>4 DEF Hurt, If
        <3>3. damage' \subseteq damage \cup {"oops", "freed_request"}
            BY <2>4 DEF Hurt, If
        <3> QED
            BY <1>1, <3>1, <3>2, <3>3
    <2>5. CASE Hurt(If(picked[u].cyclic, "leak")) /\ Blame({"fail"})
        <3>1. "fail" \in Trouble'
            BY <1>10, <2>5
        <3> QED
            BY <2>5, <3>1 DEF Hurt, If
    <2> QED
        BY <2>1, <2>4, <2>5
<1>25. ASSUME NEW u \in Users, DmaQueue(u) PROVE G
    <2>1. /\ pc[u] = "dma_queue"
          /\ Hurt(If(~desc, "oops") \cup If(\E t \in Queued : t.cyclic, "overwritten"))
        BY <1>25 DEF DmaQueue
    <2>2. (\E t \in Queued : t.cyclic) => Trouble \cap M # {}
        BY <1>11, <2>1
    <2>3. If(~desc, "oops") = {}
        BY <1>8 DEF If
    <2> QED
        BY <1>1, <2>1, <2>2, <2>3 DEF Hurt, If
<1>26. ASSUME NEW u \in Users, DmaTimeout(u) PROVE G
    <2> DEFINE t == Transfer(u, FALSE)
    <2>1. /\ pc[u] = "dma_wait"
          /\ Hurt({}) \/ (Hurt({"freed_request"}) /\ ~(list # <<>> /\ Head(list) = t))
        BY <1>26 DEF DmaTimeout
    <2>2. ASSUME ~(list # <<>> /\ Head(list) = t) PROVE Trouble \cap M # {}
        <3>1. t \in Queued /\ ~t.cyclic
            BY <1>8, <2>1 DEF Transfer
        <3> PICK k \in 1..Len(list) : list[k] = t
            BY <1>9, <3>1, QueuedFacts
        <3>2. list # <<>> /\ Head(list) = list[1] /\ 1 \in 1..Len(list)
            BY <1>9
        <3>3. k # 1
            BY <2>2, <3>2
        <3>4. list[1].cyclic
            BY <1>8, <3>1, <3>2, <3>3 DEF OneRequest
        <3>5. list[1] \in Queued
            BY <1>9, <3>2, QueuedFacts
        <3> QED
            BY <1>11, <2>1, <3>4, <3>5
    <2> QED
        BY <1>1, <2>1, <2>2 DEF Hurt
<1> HIDE DEF G
<1> QED
    BY <1>5, <1>13, <1>14, <1>15, <1>16, <1>17, <1>18, <1>19, <1>20, <1>21, <1>22, <1>23, <1>24, <1>25, <1>26 DEF Next

(* What a performance run consists of and what it needs.                   *)
PerfInvariant == ModeInvariant /\ DmaInv /\ PerfInv /\ BufInv /\ DamageExplained

\* PerfInvariant holds in every reachable state.
LEMMA PerfInvariance == Spec => []PerfInvariant
<1>1. Init => DmaInv /\ PerfInv /\ BufInv /\ DamageExplained
    <2> SUFFICES ASSUME Init PROVE DmaInv /\ PerfInv /\ BufInv /\ DamageExplained
        OBVIOUS
    <2>1. /\ \A u \in Users : pc[u] = "idle"
          /\ desc /\ xdma_perf = Nobody /\ perf_buf = Nobody /\ damage = {}
        BY DEF Init
    <2>2. list = <<>> /\ list \in Seq(Transfers)
        BY DEF Init
    <2>3. Queued = {} /\ 1..Len(list) = {}
        BY <2>2, QueuedFacts
    <2>4. OneRequest /\ OneRun /\ NoneCyclic
        BY <2>3 DEF OneRequest, OneRun, NoneCyclic
    <2>5. \A u \in Users : CallInv(u)
        BY <2>1 DEF CallInv
    <2> QED
        BY <2>1, <2>3, <2>4, <2>5 DEF DmaInv, PerfInv, BufInv, DamageExplained
<1>2. PerfInvariant /\ ModeInvariant' /\ [Next]_vars => PerfInvariant'
    BY DmaStep, PerfStep, BufStep, DamageStep DEF PerfInvariant, ModeInvariant
<1>3. ModeInvariant /\ DmaInv /\ PerfInv /\ BufInv /\ DamageExplained => PerfInvariant
    BY DEF PerfInvariant
<1> QED
    BY <1>1, <1>2, <1>3, ModeInvariance, PTL DEF Spec

(* DamageExplained for any number of processes and every fault: the list,  *)
(* the buffer and the structure of a performance run go wrong only if the  *)
(* unlocked ioctls overlapped, one of their steps failed, the hardware     *)
(* reported an error or the device went offline.                           *)
THEOREM DamageIsExplained == Spec => []DamageExplained
<1>1. PerfInvariant => DamageExplained
    BY DEF PerfInvariant
<1> QED
    BY <1>1, PerfInvariance, PTL

(* As long as nothing has happened that damage could follow on, a run that *)
(* is listed is alone on the list and running.                             *)
LEMMA RunStep ==
    ASSUME PerfInvariant, PerfInvariant', RunInv, [Next]_vars
    PROVE  RunInv'
<1> DEFINE store == {"open_set", "mode_store"}
           dma   == {"dma_queue", "dma_wait"}
           under == {"perf_copy", "perf_submit", "perf_ring", "perf_queue", "stop_copy"}
           R1 == \A v \in Users : pc[v] \in store => loaded[v] = flags
           R2 == flags.running => list # <<>>
           R3 == ~NoneCyclic => Len(list) = 1 /\ hw = list[1] /\ flags.running
           R4 == xdma_perf # Nobody => ~NoneCyclic \/ \E v \in Users : pc[v] \in under
<1>1. TypeOK /\ FileInv /\ OfflineInv /\ OpenInv /\ DmaInv /\ PerfInv /\ BufInv
    BY DEF PerfInvariant, ModeInvariant
<1>2. /\ DOMAIN pc = Users /\ pc = [v \in Users |-> pc[v]]
      /\ DOMAIN loaded = Users /\ loaded = [v \in Users |-> loaded[v]]
      /\ list \in Seq(Transfers) /\ flags \in Flags
      /\ \A v \in Users : loaded[v] \in Flags
      /\ \A t \in Transfers : t.by \in Users /\ t.cyclic \in BOOLEAN
                              /\ t = Transfer(t.by, t.cyclic)
    BY <1>1 DEF TypeOK, Transfers, Transfer
<1>3. SUFFICES ASSUME Trouble' = {} PROVE R1' /\ R2' /\ R3' /\ R4'
    BY DEF RunInv
<1>4. Trouble = {} /\ trouble = {}
    BY <1>1, <1>3, BlameStep DEF Trouble
<1>5. damage' = {}
    <2>1. DamageExplained' /\ damage' \subseteq Damages
        BY <1>1, BlameStep DEF PerfInvariant
    <2> QED
        BY <1>3, <2>1 DEF DamageExplained, Damages
<1>6. Alive /\ Alive' /\ ~offline
    <2>1. \A x : x \in damage => x \in damage'
        BY <1>1, BlameStep
    <2> QED
        BY <1>1, <1>4, <1>5, <2>1 DEF Alive, OfflineInv
<1>7. R1 /\ R2 /\ R3 /\ R4
    BY <1>4 DEF RunInv
<1>8. /\ \A t \in Queued : t.cyclic => t.by = xdma_perf
      /\ OneRun
      /\ \A v \in Users : CallInv(v)
    BY <1>1, <1>4, <1>6 DEF PerfInv, Clear
<1>9. \A v \in Users : pc[v] = "dma_wait" <=> Transfer(v, FALSE) \in Queued
    BY <1>1, <1>6 DEF DmaInv
<1>10. /\ \A v, w \in Users : pc[v] \in PerfCalls /\ pc[w] \in PerfCalls => v = w
       /\ \A v \in Users : pc[v] \in dma =>
            xdma_perf = Nobody /\ \A w \in Users : pc[w] \notin PerfCalls
       /\ \A v, w \in Users : pc[v] \in {"mode_store", "mode_write"} =>
            /\ pc[w] \notin PerfCalls /\ pc[w] \notin dma
            /\ pc[w] \in {"mode_store", "mode_write"} => v = w
       /\ \A v, w \in Users : pc[v] = "open_set" /\ pc[w] = "open_set" => v = w
    BY <1>4, CallsApart DEF Apart
<1>11. \A v \in Users : pc[v] = "open_set" =>
            streaming /\ ~flags.device_open /\ \A w \in Users : ~file[w]
    BY <1>1, <1>4 DEF OpenInv, FileInv, Clear
<1>12. \A v \in Users : pc[v] \notin {"idle", "open_set"} => file[v]
    BY <1>1 DEF FileInv
<1>13. ASSUME NEW S, Blame(S) PROVE S = {}
    BY <1>3, <1>13 DEF Blame, Trouble
<1>14. ASSUME NEW u \in Users, NEW q, Goto(u, q)
      PROVE  \A v \in Users : pc'[v] = IF v = u THEN q ELSE pc[v]
    BY <1>2, <1>14 DEF Goto
<1>15. list' = list => Queued' = Queued /\ (NoneCyclic' <=> NoneCyclic)
    BY DEF NoneCyclic, Queued
<1>16. xdma_perf = Nobody => NoneCyclic
    <2> SUFFICES ASSUME xdma_perf = Nobody, NEW t \in Queued, t.cyclic PROVE FALSE
        BY DEF NoneCyclic
    <2>1. t.by \in Users
        BY <1>2, QueuedFacts
    <2> QED
        BY <1>8, <2>1, NobodyAssumption
(* While a request or a performance call is under way nobody stores flags. *)
<1>17. ASSUME NEW u \in Users, pc[u] \in PerfCalls \/ pc[u] \in dma,
              NEW q, Goto(u, q), q \notin store
      PROVE  R1'
    <2>1. pc[u] \notin {"idle", "open_set"}
        BY <1>17 DEF PerfCalls
    <2>2. \A v \in Users : pc[v] \notin store
        BY <1>10, <1>11, <1>12, <1>17, <2>1
    <2>3. \A v \in Users : pc'[v] \notin store
        BY <1>14, <1>17, <2>2
    <2> QED
        BY <2>3
(* Steps that leave the list, the structure and the hardware alone.        *)
<1>18. ASSUME UNCHANGED <<list, hw, xdma_perf>>, flags'.running = flags.running,
              \A v \in Users : pc[v] \in under => pc'[v] \in under
      PROVE  R2' /\ R3' /\ R4'
    BY <1>7, <1>15, <1>18
(* Steps of a request: there is no performance run.                        *)
<1>19. ASSUME NEW u \in Users, pc[u] \in dma, UNCHANGED xdma_perf,
              \A t \in Queued' : t.cyclic => t \in Queued
      PROVE  R3' /\ R4'
    <2>1. xdma_perf = Nobody /\ NoneCyclic
        BY <1>10, <1>16, <1>19
    <2>2. NoneCyclic'
        BY <1>19, <2>1 DEF NoneCyclic
    <2> QED
        BY <1>19, <2>1, <2>2
<1>20. EngineStop => flags'.running = FALSE
    BY <1>2 DEF EngineStop, SetRunning, Flags
<1> DEFINE G == R1' /\ R2' /\ R3' /\ R4'
<1>21. ASSUME Service PROVE G
    <2>1. /\ list # <<>> /\ hw = Head(list) /\ ~hw.cyclic /\ list' = Tail(list)
          /\ Goto(hw.by, "idle") /\ UNCHANGED xdma_perf
          /\ list' = <<>> => EngineStop
        BY <1>21 DEF Service, ServiceHead, perfVars
    <2>2. Removed(hw) /\ hw \in Transfers
        BY <1>2, <2>1, TailRemoves
    <2>3. hw.by \in Users /\ hw = Transfer(hw.by, FALSE) /\ hw \in Queued
        BY <1>2, <2>1, <2>2 DEF Removed
    <2>4. pc[hw.by] \in dma
        BY <1>9, <2>3
    <2>5. R1'
        BY <1>17, <2>1, <2>3, <2>4
    <2>6. R2'
        BY <1>20, <2>1
    <2>7. R3' /\ R4'
        BY <1>19, <2>1, <2>2, <2>3, <2>4 DEF Removed
    <2> QED
        BY <2>5, <2>6, <2>7
<1>22. ASSUME ServiceError \/ Offline PROVE FALSE
    <2>1. Blame({"error"}) \/ Blame({"offline"})
        BY <1>22 DEF ServiceError, Offline
    <2> QED
        BY <1>13, <2>1
<1>23. ASSUME Online PROVE FALSE
    BY <1>6, <1>23 DEF Online
<1>24. ASSUME NEW u \in Users, OpenCheck(u) PROVE G
    <2>1. UNCHANGED <<list, hw, xdma_perf, flags>> /\ pc[u] = "idle"
        BY <1>24 DEF OpenCheck, Call, perfVars, engVars
    <2>2. Goto(u, "idle") \/ Goto(u, "open_set")
        BY <1>24 DEF OpenCheck, Call
    <2>3. \/ loaded' = [loaded EXCEPT ![u] = flags]
          \/ loaded' = loaded /\ Goto(u, "idle")
        BY <1>24 DEF OpenCheck, Call
    <2>4. R1'
        BY <1>2, <1>7, <1>14, <2>1, <2>2, <2>3
    <2>5. \A v \in Users : pc[v] \in under => pc'[v] \in under
        BY <1>14, <2>1, <2>2
    <2> QED
        BY <1>18, <2>1, <2>4, <2>5
<1>25. ASSUME NEW u \in Users, OpenSet(u) PROVE G
    <2>1. /\ UNCHANGED <<list, hw, xdma_perf, loaded>> /\ pc[u] = "open_set"
          /\ Goto(u, "idle") /\ flags' = [loaded[u] EXCEPT !.device_open = TRUE]
        BY <1>25 DEF OpenSet, perfVars
    <2>2. loaded[u] = flags
        BY <1>7, <2>1
    <2>3. flags'.running = flags.running
        BY <1>2, <2>1, <2>2 DEF Flags
    <2>4. \A v \in Users : pc'[v] \notin store
        BY <1>10, <1>11, <1>12, <1>14, <2>1
    <2>5. \A v \in Users : pc[v] \in under => pc'[v] \in under
        BY <1>14, <2>1
    <2> QED
        BY <1>18, <2>1, <2>3, <2>4, <2>5
<1>26. ASSUME NEW u \in Users, Close(u) PROVE G
    <2>1. /\ UNCHANGED <<list, hw, xdma_perf, loaded, pc>> /\ pc[u] = "idle" /\ file[u]
          /\ flags' = [flags EXCEPT !.device_open = flags.device_open /\ ~streaming]
        BY <1>26 DEF Close, perfVars
    <2>2. flags'.running = flags.running
        BY <1>2, <2>1 DEF Flags
    <2>3. R1'
        <3> SUFFICES ASSUME NEW v \in Users, pc'[v] \in store PROVE loaded'[v] = flags'
            OBVIOUS
        <3>1. pc[v] = "mode_store" /\ file[v] /\ v # u
            BY <1>11, <1>12, <2>1
        <3>2. ~streaming
            BY <1>1, <1>4, <2>1, <3>1 DEF OpenInv, Clear
        <3>3. flags' = flags
            BY <1>2, <2>1, <3>2 DEF Flags
        <3> QED
            BY <1>7, <2>1, <3>1, <3>3
    <2> QED
        BY <1>18, <2>1, <2>2, <2>3
<1>27. ASSUME NEW u \in Users, PerfStart(u) PROVE G
    <2>1. /\ Goto(u, "perf_alloc") /\ pc[u] = "idle"
          /\ UNCHANGED <<list, hw, xdma_perf, loaded, flags>>
        BY <1>27 DEF PerfStart, Call, perfVars, engVars
    <2>2. R1'
        BY <1>7, <1>14, <2>1
    <2>3. \A v \in Users : pc[v] \in under => pc'[v] \in under
        BY <1>14, <2>1
    <2> QED
        BY <1>18, <2>1, <2>2, <2>3
<1>28. ASSUME NEW u \in Users, PerfStop(u) PROVE G
    <2>1. /\ Goto(u, "stop_pick") /\ pc[u] = "idle"
          /\ UNCHANGED <<list, hw, xdma_perf, loaded, flags>>
        BY <1>28 DEF PerfStop, Call, perfVars, engVars
    <2>2. R1'
        BY <1>7, <1>14, <2>1
    <2>3. \A v \in Users : pc[v] \in under => pc'[v] \in under
        BY <1>14, <2>1
    <2> QED
        BY <1>18, <2>1, <2>2, <2>3
<1>29. ASSUME NEW u \in Users, PerfGet(u) PROVE G
    <2>1. /\ Goto(u, "get_copy") /\ pc[u] = "idle"
          /\ UNCHANGED <<list, hw, xdma_perf, loaded, flags>>
        BY <1>29 DEF PerfGet, Call, perfVars, engVars
    <2>2. R1'
        BY <1>7, <1>14, <2>1
    <2>3. \A v \in Users : pc[v] \in under => pc'[v] \in under
        BY <1>14, <2>1
    <2> QED
        BY <1>18, <2>1, <2>2, <2>3
<1>30. ASSUME NEW u \in Users, DmaCheck(u) PROVE G
    <2>1. /\ Goto(u, "dma_queue") /\ pc[u] = "idle"
          /\ UNCHANGED <<list, hw, xdma_perf, loaded, flags>>
        BY <1>30 DEF DmaCheck, Call, perfVars, engVars
    <2>2. R1'
        BY <1>7, <1>14, <2>1
    <2>3. \A v \in Users : pc[v] \in under => pc'[v] \in under
        BY <1>14, <2>1
    <2> QED
        BY <1>18, <2>1, <2>2, <2>3
<1>31. ASSUME NEW u \in Users, PerfAlloc(u) PROVE G
    <2>1. /\ pc[u] = "perf_alloc" /\ UNCHANGED <<list, hw, flags>>
          /\ Goto(u, "perf_copy") \/ Blame({"fail"})
        BY <1>31 DEF PerfAlloc, engVars
    <2>2. Goto(u, "perf_copy")
        BY <1>13, <2>1
    <2>3. R1'
        BY <1>17, <2>1, <2>2 DEF PerfCalls
    <2>4. pc'[u] \in under
        BY <1>14, <2>2
    <2> QED
        BY <1>7, <1>15, <2>1, <2>3, <2>4
<1>32. ASSUME NEW u \in Users, PerfCopy(u) PROVE G
    <2>1. /\ pc[u] = "perf_copy" /\ UNCHANGED <<list, hw, xdma_perf, flags>>
          /\ Goto(u, "perf_submit") \/ Blame({"fail"})
        BY <1>32 DEF PerfCopy, perfVars, engVars
    <2>2. Goto(u, "perf_submit")
        BY <1>13, <2>1
    <2>3. R1'
        BY <1>17, <2>1, <2>2 DEF PerfCalls
    <2>4. \A v \in Users : pc[v] \in under => pc'[v] \in under
        BY <1>14, <2>2
    <2> QED
        BY <1>18, <2>1, <2>3, <2>4
<1>33. ASSUME NEW u \in Users, PerfSubmit(u) PROVE G
    <2>1. /\ pc[u] = "perf_submit" /\ UNCHANGED <<list, hw, xdma_perf, flags>>
          /\ Goto(u, "perf_ring") \/ Blame({"fail"})
        BY <1>33 DEF PerfSubmit, perfVars, engVars
    <2>2. Goto(u, "perf_ring")
        BY <1>13, <2>1
    <2>3. R1'
        BY <1>17, <2>1, <2>2 DEF PerfCalls
    <2>4. \A v \in Users : pc[v] \in under => pc'[v] \in under
        BY <1>14, <2>2
    <2> QED
        BY <1>18, <2>1, <2>3, <2>4
<1>34. ASSUME NEW u \in Users, PerfRing(u) PROVE G
    <2>1. /\ pc[u] = "perf_ring" /\ UNCHANGED <<list, hw, xdma_perf, flags>>
          /\ Goto(u, "perf_queue") \/ Blame({"fail"})
        BY <1>34 DEF PerfRing, perfVars, engVars
    <2>2. Goto(u, "perf_queue")
        BY <1>13, <2>1
    <2>3. R1'
        BY <1>17, <2>1, <2>2 DEF PerfCalls
    <2>4. \A v \in Users : pc[v] \in under => pc'[v] \in under
        BY <1>14, <2>2
    <2> QED
        BY <1>18, <2>1, <2>3, <2>4
<1>35. ASSUME NEW u \in Users, PerfQueue(u) PROVE G
    <2> DEFINE t == Transfer(u, TRUE)
    <2>1. /\ pc[u] = "perf_queue" /\ Goto(u, "idle") /\ list' = Append(list, t)
          /\ ~flags.running => EngineStart(list')
        BY <1>6, <1>35 DEF PerfQueue, TransferQueue
    <2>2. NoneCyclic /\ pc[u] \in PerfCalls
        BY <1>8, <2>1 DEF CallInv, PerfCalls
    <2>3. Queued = {}
        <3> SUFFICES ASSUME NEW r \in Queued PROVE FALSE
            OBVIOUS
        <3>1. r \in Transfers /\ ~r.cyclic
            BY <1>2, <2>2, QueuedFacts DEF NoneCyclic
        <3>2. r.by \in Users /\ r = Transfer(r.by, FALSE)
            BY <1>2, <3>1
        <3>3. pc[r.by] \in dma
            BY <1>9, <3>2
        <3> QED
            BY <1>10, <2>2, <3>2, <3>3
    <2>4. list = <<>>
        BY <1>2, <2>3, QueuedFacts
    <2>5. ~flags.running
        BY <1>7, <2>4
    <2>6. list' = <<t>> /\ Len(list') = 1 /\ list'[1] = t /\ Head(list') = t
        BY <2>1, <2>4
    <2>7. hw' = t /\ flags'.running
        BY <1>2, <2>1, <2>5, <2>6 DEF EngineStart, SetRunning, Flags
    <2>8. R1'
        BY <1>17, <2>1, <2>2
    <2>9. ~NoneCyclic'
        <3>1. Added(t) /\ t.cyclic
            BY <1>2, <2>1, AppendAdds DEF Transfer, Transfers
        <3> QED
            BY <3>1 DEF Added, NoneCyclic
    <2> QED
        BY <2>6, <2>7, <2>8, <2>9
<1>36. ASSUME NEW u \in Users, CyclicPick(u) PROVE G
    <2>1. /\ pc[u] = "stop_pick" /\ UNCHANGED <<list, hw, xdma_perf, flags>>
          /\ Goto(u, "stop_unlink") \/ Goto(u, "idle")
        BY <1>36 DEF CyclicPick, engVars
    <2>2. R1'
        BY <1>17, <2>1 DEF PerfCalls
    <2>3. \A v \in Users : pc[v] \in under => pc'[v] \in under
        BY <1>14, <2>1
    <2> QED
        BY <1>18, <2>1, <2>2, <2>3
<1>37. ASSUME NEW u \in Users, CyclicUnlink(u) PROVE G
    <2>1. /\ Goto(u, "stop_copy") /\ pc[u] = "stop_unlink" /\ EngineStop
          /\ picked[u].cyclic => /\ Unlink(picked[u])
                                 /\ Hurt(If(picked[u] \notin Queued, "oops"))
        BY <1>37 DEF CyclicUnlink
    <2>2. picked[u].cyclic
        BY <1>4, <1>8, <2>1 DEF CallInv, Clear
    <2>3. picked[u] \in Queued
        BY <1>5, <2>1, <2>2 DEF Hurt, If
    <2>4. Removed(picked[u])
        BY <1>2, <2>1, <2>2, <2>3, UnlinkRemoves
    <2>5. NoneCyclic'
        BY <1>8, <2>2, <2>4 DEF Removed
    <2>6. R1'
        BY <1>17, <2>1 DEF PerfCalls
    <2>7. pc'[u] \in under
        BY <1>14, <2>1
    <2>8. R2'
        BY <1>20, <2>1
    <2> QED
        BY <2>5, <2>6, <2>7, <2>8
<1>38. ASSUME NEW u \in Users, PerfCopyOut(u) PROVE G
    <2>1. /\ Goto(u, "idle") /\ pc[u] = "stop_copy" /\ UNCHANGED <<list, hw, flags>>
          /\ xdma_perf' = Nobody \/ Blame({"fail"})
        BY <1>38 DEF PerfCopyOut, engVars
    <2>2. xdma_perf' = Nobody
        BY <1>13, <2>1
    <2>3. R1'
        BY <1>17, <2>1 DEF PerfCalls
    <2> QED
        BY <1>7, <1>15, <2>1, <2>2, <2>3
<1>39. ASSUME NEW u \in Users, PerfGetCopy(u) PROVE G
    <2>1. /\ pc[u] = "get_copy" /\ UNCHANGED <<list, hw, xdma_perf, flags>>
          /\ Goto(u, "idle")
        BY <1>39 DEF PerfGetCopy, perfVars, engVars
    <2>2. R1'
        BY <1>17, <2>1 DEF PerfCalls
    <2>3. \A v \in Users : pc[v] \in under => pc'[v] \in under
        BY <1>14, <2>1
    <2> QED
        BY <1>18, <2>1, <2>2, <2>3
<1>40. ASSUME NEW u \in Users, AddrModeLoad(u) PROVE G
    <2>1. /\ UNCHANGED <<list, hw, xdma_perf, flags>> /\ pc[u] = "idle"
          /\ Goto(u, "mode_store") /\ loaded' = [loaded EXCEPT ![u] = flags]
        BY <1>40 DEF AddrModeLoad, Call, perfVars, engVars
    <2>2. R1'
        BY <1>2, <1>7, <1>14, <2>1
    <2>3. \A v \in Users : pc[v] \in under => pc'[v] \in under
        BY <1>14, <2>1
    <2> QED
        BY <1>18, <2>1, <2>2, <2>3
<1>41. ASSUME NEW u \in Users, AddrModeWrite(u) PROVE G
    <2>1. /\ UNCHANGED <<list, hw, xdma_perf, flags, loaded>> /\ pc[u] = "mode_write"
          /\ Goto(u, "idle")
        BY <1>41 DEF AddrModeWrite, perfVars
    <2>2. R1'
        BY <1>7, <1>14, <2>1
    <2>3. \A v \in Users : pc[v] \in under => pc'[v] \in under
        BY <1>14, <2>1
    <2> QED
        BY <1>18, <2>1, <2>2, <2>3
<1>42. ASSUME NEW u \in Users, NEW fixed \in BOOLEAN, AddrModeStore(u, fixed) PROVE G
    <2>1. /\ UNCHANGED <<list, hw, xdma_perf, loaded>> /\ pc[u] = "mode_store"
          /\ Goto(u, "mode_write")
          /\ flags' = [loaded[u] EXCEPT !.non_incr_addr = fixed]
        BY <1>42 DEF AddrModeStore, perfVars
    <2>2. loaded[u] = flags
        BY <1>7, <2>1
    <2>3. flags'.running = flags.running
        BY <1>2, <2>1, <2>2 DEF Flags
    <2>4. \A v \in Users : pc'[v] \notin store
        BY <1>10, <1>11, <1>12, <1>14, <2>1
    <2>5. \A v \in Users : pc[v] \in under => pc'[v] \in under
        BY <1>14, <2>1
    <2> QED
        BY <1>18, <2>1, <2>3, <2>4, <2>5
<1>43. ASSUME NEW u \in Users, DmaQueue(u) PROVE G
    <2>1. /\ pc[u] = "dma_queue" /\ Goto(u, "dma_wait") /\ UNCHANGED xdma_perf
          /\ list' = Append(list, Transfer(u, FALSE))
        BY <1>6, <1>43 DEF DmaQueue, TransferQueue, perfVars
    <2>2. Added(Transfer(u, FALSE)) /\ ~Transfer(u, FALSE).cyclic
        BY <1>2, <2>1, AppendAdds DEF Transfer, Transfers
    <2>3. R1'
        BY <1>17, <2>1
    <2>4. R2'
        <3>1. Transfer(u, FALSE) \in Transfers
            BY DEF Transfer, Transfers
        <3>2. Len(list') = Len(list) + 1 /\ Len(list) \in Nat
            BY <1>2, <2>1, <3>1
        <3>3. list' # <<>>
            BY <3>2
        <3> QED
            BY <3>3
    <2>5. R3' /\ R4'
        BY <1>19, <2>1, <2>2 DEF Added
    <2> QED
        BY <2>3, <2>4, <2>5
<1>44. ASSUME NEW u \in Users, DmaTimeout(u) PROVE G
    <2>1. /\ pc[u] = "dma_wait" /\ Goto(u, "idle") /\ UNCHANGED xdma_perf /\ EngineStop
          /\ (list # <<>> /\ list' = Tail(list)) \/ list' = list
        BY <1>44 DEF DmaTimeout, perfVars
    <2>2. Queued' \subseteq Queued
        BY <1>2, <1>15, <2>1, TailRemoves DEF Removed
    <2>3. R1'
        BY <1>17, <2>1
    <2>4. R2'
        BY <1>20, <2>1
    <2>5. R3' /\ R4'
        BY <1>19, <2>1, <2>2
    <2> QED
        BY <2>3, <2>4, <2>5
<1>45. ASSUME UNCHANGED vars PROVE G
    <2>1. UNCHANGED <<list, hw, xdma_perf, flags, loaded, pc>>
        BY <1>45 DEF vars, userVars, perfVars, engVars
    <2> QED
        BY <1>7, <1>18, <2>1
<1> HIDE DEF G
<1>46. G
    BY <1>21, <1>22, <1>23, <1>24, <1>25, <1>26, <1>27, <1>28, <1>29, <1>30, <1>31, <1>32, <1>33, <1>34, <1>35, <1>36, <1>37, <1>38, <1>39, <1>40, <1>41, <1>42, <1>43, <1>44, <1>45 DEF Next
<1> QED
    BY <1>46 DEF G

\* RunInv holds in every reachable state.
LEMMA RunInvariance == Spec => []RunInv
<1>1. Init => RunInv
    <2> SUFFICES ASSUME Init PROVE RunInv
        OBVIOUS
    <2>1. /\ \A u \in Users : pc[u] = "idle"
          /\ xdma_perf = Nobody /\ ~flags.running
        BY DEF Init
    <2>2. list = <<>> /\ list \in Seq(Transfers)
        BY DEF Init
    <2>3. NoneCyclic
        BY <2>2, QueuedFacts DEF NoneCyclic
    <2> QED
        BY <2>1, <2>3 DEF RunInv
<1>2. PerfInvariant /\ PerfInvariant' /\ RunInv /\ [Next]_vars => RunInv'
    BY RunStep
<1> QED
    BY <1>1, <1>2, PerfInvariance, PTL DEF Spec

(* PerfWhole for any number of processes: after performance calls that came*)
(* one at a time and did not fail, engine->xdma_perf, perf_buf_virt, the   *)
(* cyclic transfer and the running engine are all there or all gone.       *)
THEOREM RunsAreWhole == Spec => []PerfWhole
<1>1. PerfInvariant /\ RunInv => PerfWhole
    <2> SUFFICES ASSUME PerfInvariant, RunInv, PerfIdle, Trouble = {}
                 PROVE  /\ damage = {}
                        /\ \/ /\ xdma_perf = Nobody
                              /\ perf_buf = Nobody
                              /\ \A t \in Queued : ~t.cyclic
                           \/ /\ xdma_perf # Nobody
                              /\ perf_buf = xdma_perf
                              /\ list = <<Transfer(xdma_perf, TRUE)>>
                              /\ hw = list[1]
                              /\ flags.running
        BY DEF PerfWhole
    <2>1. TypeOK /\ PerfInv /\ BufInv /\ DamageExplained
        BY DEF PerfInvariant, ModeInvariant
    <2>2. damage = {} /\ Alive
        BY <2>1 DEF DamageExplained, TypeOK, Damages, Alive
    <2>3. \A t \in Queued : t.cyclic => t.by = xdma_perf
        BY <2>1, <2>2 DEF PerfInv, Clear
    <2>4. \A u \in Users : pc[u] \notin {"perf_copy", "perf_submit", "perf_ring",
                                        "perf_queue", "stop_copy"}
        BY DEF PerfIdle, PerfCalls
    <2>5. /\ perf_buf # Nobody => perf_buf = xdma_perf
          /\ ~NoneCyclic => perf_buf # Nobody
        BY <2>1, <2>2 DEF BufInv, Clear
    <2>6. /\ ~NoneCyclic => Len(list) = 1 /\ hw = list[1] /\ flags.running
          /\ xdma_perf # Nobody => ~NoneCyclic
        BY <2>4 DEF RunInv
    <2>7. list \in Seq(Transfers)
        BY <2>1 DEF TypeOK
    <2>8. CASE xdma_perf = Nobody
        <3>1. \A t \in Queued : t.by # Nobody
            BY <2>7, QueuedFacts, NobodyAssumption DEF Transfers
        <3> QED
            BY <2>2, <2>3, <2>5, <2>8, <3>1
    <2>9. CASE xdma_perf # Nobody
        <3> PICK t \in Queued : t.cyclic
            BY <2>6, <2>9 DEF NoneCyclic
        <3>1. t \in Transfers /\ t.by = xdma_perf /\ \E i \in 1..Len(list) : list[i] = t
            BY <2>3, <2>7, QueuedFacts
        <3>2. t = Transfer(xdma_perf, TRUE)
            BY <3>1 DEF Transfers, Transfer
        <3>3. Len(list) = 1 /\ hw = list[1] /\ flags.running
            BY <2>6, <2>9
        <3>4. list[1] = t
            BY <3>1, <3>3
        <3>5. list = <<t>>
            BY <2>7, <3>3, <3>4
        <3> QED
            BY <2>2, <2>5, <2>6, <2>9, <3>2, <3>3, <3>5
    <2> QED
        BY <2>8, <2>9
<1> QED
    BY <1>1, PerfInvariance, RunInvariance, PTL

=============================================================================
