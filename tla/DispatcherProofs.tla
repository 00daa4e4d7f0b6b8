-------------------------- MODULE DispatcherProofs --------------------------
(***************************************************************************)
(* The invariants of the dispatcher, for any set of slots, any channel     *)
(* capacities and any chunk sizes.  They are proved together: the cursor   *)
(* being in range is what lets readLoop name the slot a chunk belongs to.  *)
(***************************************************************************)
EXTENDS Dispatcher, WellFoundedInduction, TLAPS

IInv ==
  /\ TypeOK
  /\ CursorInRange
  /\ ChunkHasOneSlot
  /\ RateFollowsSessions
  /\ StatusIsTrue

-----------------------------------------------------------------------------
(* A remainder is in range, and an index in range is its own remainder.    *)
LEMMA Remainder ==
  ASSUME NEW a \in Nat, NEW n \in Nat, n > 0
  PROVE  /\ a % n \in 0 .. n - 1
         /\ a < n => a % n = a
  OBVIOUS

(* A counter that grows by the drop of a gauge stays a natural.            *)
LEMMA DropsType ==
  ASSUME NEW total \in Nat, NEW before \in Nat, NEW after \in Nat
  PROVE  (IF after < before THEN total + (before - after) ELSE total) \in Nat
  OBVIOUS

(* A packet queued on a channel that has room leaves the channels in range. *)
LEMMA OneMoreFits ==
  ASSUME NEW cap \in Nat, NEW q \in [Slots -> 0 .. cap], NEW s \in Slots, q[s] < cap
  PROVE  [q EXCEPT ![s] = @ + 1] \in [Slots -> 0 .. cap]
<1>1. q[s] + 1 \in 0 .. cap
  <2>1. q[s] \in 0 .. cap
    OBVIOUS
  <2>2. QED
    BY <2>1
<1>2. QED
  BY <1>1

(* Removing an element of a list leaves a list one shorter.                *)
LEMMA WithoutType ==
  ASSUME NEW S, NEW seq \in Seq(S), NEW i \in 1 .. Len(seq)
  PROVE  /\ Without(seq, i) \in Seq(S)
         /\ Len(Without(seq, i)) = Len(seq) - 1
<1> DEFINE n == Len(seq) - 1
           f(j) == IF j < i THEN seq[j] ELSE seq[j + 1]
<1>1. n \in Nat /\ Len(seq) = n + 1
  OBVIOUS
<1>2. \A j \in 1 .. n : f(j) \in S
  BY <1>1
<1>3. Without(seq, i) = [j \in 1 .. n |-> f(j)]
  BY DEF Without
<1> HIDE DEF f
<1>4. [j \in 1 .. n |-> f(j)] \in Seq(S) /\ Len([j \in 1 .. n |-> f(j)]) = n
  BY <1>1, <1>2
<1>5. QED
  BY <1>3, <1>4

(* The cursor after a pause is in range, and still counts a chunk only if  *)
(* it has not moved.                                                       *)
LEMMA AfterPauseCursor ==
  ASSUME TypeOK, CursorInRange, NumW > 0, NEW d \in Elapsed
  PROVE  /\ AfterPause(d) = Cursor(AfterPause(d).index, AfterPause(d).count, AfterPause(d).age)
         /\ AfterPause(d).index \in 0 .. NumW - 1
         /\ AfterPause(d).count \in Nat
         /\ AfterPause(d).age \in {NoChunk} \cup (0 .. DwellTicks)
         /\ AfterPause(d).count > 0 =>
              AfterPause(d).index = rrIndex /\ AfterPause(d).count = rrCount
<1>1. NumW \in Nat /\ rrIndex \in 0 .. NumW - 1
  BY DEF TypeOK, CursorInRange, NumW
<1>2. Next1(rrIndex) \in 0 .. NumW - 1
  BY <1>1, Remainder DEF Next1
<1>3. CASE started /\ d > PauseTicks
  BY <1>2, <1>3, DispatcherAssumption DEF AfterPause, Cursor, NoChunk
<1>4. CASE ~(started /\ d > PauseTicks)
  BY <1>1, <1>4, DispatcherAssumption DEF AfterPause, Cursor, NoChunk, TypeOK, Elapsed
<1>5. QED
  BY <1>3, <1>4

(* So is the cursor a data packet is sent from.                            *)
LEMMA AfterDwellCursor ==
  ASSUME TypeOK, CursorInRange, NumW > 0, NEW d \in Elapsed
  PROVE  /\ AfterDwell(d) = Cursor(AfterDwell(d).index, AfterDwell(d).count, AfterDwell(d).age)
         /\ AfterDwell(d).index \in 0 .. NumW - 1
         /\ AfterDwell(d).count \in Nat
         /\ AfterDwell(d).age \in 0 .. DwellTicks
<1>1. NumW \in Nat
  BY DEF TypeOK, NumW
<1>2. Next1(AfterPause(d).index) \in 0 .. NumW - 1
  BY <1>1, AfterPauseCursor, Remainder DEF Next1
<1>3. QED
  BY <1>2, AfterPauseCursor, DispatcherAssumption DEF AfterDwell, Cursor, NoChunk

(* The slot a packet is offered to is a registered one.                    *)
LEMMA SlotAtType ==
  ASSUME TypeOK, NumW > 0, NEW idx \in 0 .. NumW - 1, NEW i \in 0 .. NumW - 1
  PROVE  /\ SlotAt(idx, i) \in Slots
         /\ i = 0 => SlotAt(idx, i) = workers[idx + 1]
         /\ SlotAt(idx, i) = workers[((idx + i) % NumW) + 1]
<1>1. NumW \in Nat /\ workers \in Seq(Slots)
  BY DEF TypeOK, NumW
<1>2. (idx + i) % NumW \in 0 .. NumW - 1
  BY <1>1, Remainder
<1>3. i = 0 => (idx + i) % NumW = idx
  BY <1>1, Remainder
<1>4. QED
  BY <1>1, <1>2, <1>3 DEF SlotAt, NumW

-----------------------------------------------------------------------------
LEMMA InitInvariant == Init => IInv
<1> SUFFICES ASSUME Init
             PROVE  IInv
  OBVIOUS
<1>1. NumW = 0
  BY DEF Init, NumW
<1>2. workers \in Seq(Slots) /\ writing \subseteq Slots
  BY DEF Init
<1>3. sendQ \in [Slots -> 0 .. SendCap] /\ prioQ \in [Slots -> 0 .. PrioCap]
  BY DispatcherAssumption DEF Init
<1>4. /\ limit \in Nat \ {0} /\ rrIndex \in Nat /\ rrCount \in Nat
      /\ reported \in Nat /\ reconnects \in Nat
  BY DispatcherAssumption DEF Init
<1>5. started \in BOOLEAN /\ connected \in BOOLEAN
  BY DEF Init
<1>6. last \in [kind : {"none", "idle", "prio", "data", "drop"}, turn : BOOLEAN]
  BY DEF Init
<1>7. TypeOK
  BY <1>2, <1>3, <1>4, <1>5, <1>6 DEF Init, TypeOK
<1>8. QED
  BY <1>1, <1>7 DEF Init, IInv, CursorInRange, ChunkHasOneSlot, RateFollowsSessions, StatusIsTrue

(* Sessions coming and going, and the device being attached.               *)
LEMMA RegisterInvariant ==
  ASSUME IInv, NEW s \in Slots, Register(s)
  PROVE  IInv'
<1> USE DEF IInv
<1>1. /\ Len(workers') = NumW + 1 /\ workers' \in Seq(Slots) /\ NumW \in Nat
      /\ \A j \in 1 .. NumW : workers'[j] = workers[j]
  BY DEF Register, TypeOK, NumW
<1>2. TypeOK'
  BY <1>1, DispatcherAssumption
     DEF Register, TypeOK, SetTunnelSessions, ReportWorkers, routing, history, NumW, NoChunk
<1>3. CursorInRange'
  BY <1>1 DEF Register, CursorInRange, routing, NumW, TypeOK
<1>4. ChunkHasOneSlot'
  BY <1>1 DEF Register, ChunkHasOneSlot, routing, history, NumW, TypeOK
<1>5. RateFollowsSessions'
  BY <1>1 DEF Register, RateFollowsSessions, SetTunnelSessions, NumW
<1>6. StatusIsTrue'
  BY <1>1 DEF Register, StatusIsTrue, ReportWorkers, NumW, TypeOK
<1>7. QED
  BY <1>2, <1>3, <1>4, <1>5, <1>6

LEMMA UnregisterInvariant ==
  ASSUME IInv, NEW s \in Slots, Unregister(s)
  PROVE  IInv'
<1> USE DEF IInv
<1>1. /\ Len(workers') = NumW - 1 /\ workers' \in Seq(Slots)
      /\ NumW \in Nat /\ NumW - 1 \in Nat /\ NumW' = NumW - 1
  <2>1. PICK i \in 1 .. NumW : workers' = Without(workers, i)
    BY DEF Unregister
  <2>2. workers \in Seq(Slots) /\ NumW \in Nat
    BY DEF TypeOK, NumW
  <2>3. QED
    BY <2>1, <2>2, WithoutType DEF NumW
<1>2. /\ rrIndex' \in Nat
      /\ NumW - 1 > 0 => rrIndex' < NumW - 1
      /\ NumW - 1 = 0 => rrIndex' = 0
  <2>1. rrIndex \in Nat /\ rrIndex < NumW
    BY <1>1 DEF TypeOK, CursorInRange
  <2>2. rrIndex' = IF rrIndex >= NumW - 1 /\ NumW - 1 > 0 THEN rrIndex % (NumW - 1) ELSE rrIndex
    BY DEF Unregister, CursorAfterRemoval
  <2>3. NumW - 1 > 0 => rrIndex % (NumW - 1) \in 0 .. (NumW - 1) - 1
    BY <1>1, <2>1, Remainder
  <2>4. QED
    BY <1>1, <2>1, <2>2, <2>3
<1>3. rrCount' = 0
  BY DEF Unregister, CursorAfterRemoval
<1>4. TypeOK'
  <2>1. limit' \in Nat \ {0}
    BY <1>1 DEF Unregister, SetTunnelSessions, TypeOK
  <2>2. reported' \in {0, NumW - 1}
    BY DEF Unregister, ReportWorkers
  <2>3. reconnects' \in Nat
    <3>1. reported \in Nat /\ reconnects \in Nat
      BY DEF TypeOK
    <3>2. reconnects' = IF reported' < reported THEN reconnects + (reported - reported') ELSE reconnects
      BY DEF Unregister, ReportWorkers
    <3>3. reported' \in Nat
      BY <1>1, <2>2
    <3>4. QED
      BY <3>1, <3>2, <3>3, DropsType
  <2>4. connected' \in BOOLEAN
    BY DEF Unregister, ReportWorkers
  <2>5. reported' \in Nat
    BY <1>1, <2>2
  <2>6. UNCHANGED <<started, chunkAge, sendQ, prioQ, writing, attach, last, chunkSlot>>
    BY DEF Unregister, queues, history
  <2>7. QED
    BY <1>1, <1>2, <1>3, <2>1, <2>3, <2>4, <2>5, <2>6 DEF TypeOK
<1>5. CursorInRange' /\ ChunkHasOneSlot'
  BY <1>1, <1>2, <1>3 DEF CursorInRange, ChunkHasOneSlot
<1>6. RateFollowsSessions'
  BY <1>1 DEF Unregister, RateFollowsSessions, SetTunnelSessions
<1>7. StatusIsTrue'
  BY <1>1 DEF Unregister, StatusIsTrue, ReportWorkers, TypeOK
<1>8. QED
  BY <1>4, <1>5, <1>6, <1>7

LEMMA AttachInvariant ==
  ASSUME IInv, CloseReady \/ AttachReport
  PROVE  IInv'
<1> USE DEF IInv
<1>1. CASE CloseReady
  BY <1>1 DEF CloseReady, TypeOK, CursorInRange, ChunkHasOneSlot, RateFollowsSessions,
              StatusIsTrue, routing, queues, status, history, NumW
<1>2. CASE AttachReport
  <2>1. reported' = NumW /\ NumW \in Nat
    BY <1>2 DEF AttachReport, ReportWorkers, TypeOK, NumW
  <2>2. reconnects' \in Nat /\ connected' \in BOOLEAN
    BY <1>2, <2>1 DEF AttachReport, ReportWorkers, TypeOK
  <2>3. TypeOK'
    BY <1>2, <2>1, <2>2 DEF AttachReport, TypeOK, routing, queues, history
  <2>4. CursorInRange' /\ ChunkHasOneSlot' /\ RateFollowsSessions' /\ StatusIsTrue'
    BY <1>2, <2>1 DEF AttachReport, CursorInRange, ChunkHasOneSlot, RateFollowsSessions,
                      StatusIsTrue, routing, history, NumW
  <2>5. QED
    BY <2>3, <2>4
<1>3. QED
  BY <1>1, <1>2

(* The Writers touch the channels only.                                    *)
LEMMA WriterInvariant ==
  ASSUME IInv, NEW s \in Slots, WriterTakes(s) \/ WriterEnds(s)
  PROVE  IInv'
<1> USE DEF IInv
<1>1. sendQ' \in [Slots -> 0 .. SendCap] /\ prioQ' \in [Slots -> 0 .. PrioCap]
  <2>1. sendQ \in [Slots -> 0 .. SendCap] /\ prioQ \in [Slots -> 0 .. PrioCap]
    BY DEF TypeOK
  <2>2. CASE WriterTakes(s)
    BY <2>1, <2>2, DispatcherAssumption DEF WriterTakes
  <2>3. CASE WriterEnds(s)
    BY <2>1, <2>3, DispatcherAssumption DEF WriterEnds
  <2>4. QED
    BY <2>2, <2>3
<1>2. /\ writing' \subseteq Slots
      /\ UNCHANGED <<workers, routing, attach, limit, status, history>>
  BY DEF WriterTakes, WriterEnds, TypeOK
<1>3. TypeOK'
  BY <1>1, <1>2 DEF TypeOK, routing, status, history
<1>4. QED
  BY <1>2, <1>3 DEF CursorInRange, ChunkHasOneSlot, RateFollowsSessions, StatusIsTrue,
                    routing, status, history, NumW

(* One iteration of readLoop.                                              *)
LEMMA RouteInvariant ==
  ASSUME IInv, NEW c \in Classes, NEW d \in Elapsed, Route(c, d)
  PROVE  IInv'
<1> USE DEF IInv
<1>0. Chunk[c] \in Nat \ {0} /\ NumW \in Nat
  BY DispatcherAssumption DEF TypeOK, NumW
<1>1. CASE RouteNowhere
  BY <1>1 DEF RouteNowhere, Disposed, TypeOK, CursorInRange, ChunkHasOneSlot,
              RateFollowsSessions, StatusIsTrue, routing, queues, status, NumW
<1>2. CASE RoutePrio(c, d)
  <2>1. PICK i \in 0 .. NumW - 1 :
          /\ FirstFree(prioQ, PrioCap, AfterPause(d).index, i)
          /\ prioQ' = [prioQ EXCEPT ![SlotAt(AfterPause(d).index, i)] = @ + 1]
    BY <1>2 DEF RoutePrio
  <2>2. SlotAt(AfterPause(d).index, i) \in Slots
    BY <1>2, AfterPauseCursor, SlotAtType DEF RoutePrio
  <2>3. prioQ' \in [Slots -> 0 .. PrioCap]
    <3>1. prioQ \in [Slots -> 0 .. PrioCap] /\ PrioCap \in Nat
      BY DispatcherAssumption DEF TypeOK
    <3>2. prioQ[SlotAt(AfterPause(d).index, i)] < PrioCap
      BY <2>1 DEF FirstFree
    <3>3. QED
      BY <2>1, <2>2, <3>1, <3>2, OneMoreFits
  <2>4. /\ rrIndex' = AfterPause(d).index /\ rrCount' = AfterPause(d).count
        /\ chunkAge' = AfterPause(d).age /\ NumW > 0
        /\ UNCHANGED <<workers, sendQ, writing, attach, limit, reported, reconnects, connected, chunkSlot>>
        /\ started' = TRUE /\ last' = [kind |-> "prio", turn |-> ~last.turn]
    BY <1>2 DEF RoutePrio, MoveTo, Disposed, status
  <2>5. TypeOK'
    BY <2>3, <2>4, AfterPauseCursor DEF TypeOK
  <2>6. CursorInRange' /\ ChunkHasOneSlot'
    BY <1>0, <2>4, AfterPauseCursor DEF CursorInRange, ChunkHasOneSlot, NumW
  <2>7. RateFollowsSessions' /\ StatusIsTrue'
    BY <2>4 DEF RateFollowsSessions, StatusIsTrue, NumW
  <2>8. QED
    BY <2>5, <2>6, <2>7
<1>3. CASE RouteCurrent(c, d)
  <2> DEFINE cur == AfterDwell(d)
             s == SlotAt(cur.index, 0)
  <2>1. /\ NumW > 0 /\ sendQ[s] < SendCap
        /\ sendQ' = [sendQ EXCEPT ![s] = @ + 1]
        /\ \/ rrIndex' = Next1(cur.index) /\ rrCount' = 0 /\ chunkAge' = 0
           \/ rrIndex' = cur.index /\ rrCount' = cur.count + 1 /\ chunkAge' = cur.age
        /\ chunkSlot' = s /\ last' = [kind |-> "data", turn |-> ~last.turn]
        /\ started' = TRUE
        /\ UNCHANGED <<workers, prioQ, writing, attach, limit, reported, reconnects, connected>>
    BY <1>3, AfterDwellCursor DEF RouteCurrent, MoveTo, Disposed, status, Cursor
  <2>2. cur.index \in 0 .. NumW - 1 /\ cur.count \in Nat /\ cur.age \in 0 .. DwellTicks
    BY <2>1, AfterDwellCursor
  <2>3. s \in Slots /\ s = workers[cur.index + 1]
    <3>1. 0 \in 0 .. NumW - 1
      BY <1>0, <2>1
    <3>2. QED
      BY <2>1, <2>2, <3>1, SlotAtType
  <2>4. Next1(cur.index) \in 0 .. NumW - 1
    BY <1>0, <2>1, <2>2, Remainder DEF Next1
  <2> HIDE DEF cur, s
  <2>5. sendQ' \in [Slots -> 0 .. SendCap]
    <3>1. sendQ \in [Slots -> 0 .. SendCap] /\ SendCap \in Nat
      BY DispatcherAssumption DEF TypeOK
    <3>2. QED
      BY <2>1, <2>3, <3>1, OneMoreFits
  <2>6. TypeOK'
    <3>1. rrIndex' \in Nat /\ rrCount' \in Nat /\ chunkAge' \in 0 .. DwellTicks
      BY <1>0, <2>1, <2>2, <2>4, DispatcherAssumption
    <3>2. last' \in [kind : {"none", "idle", "prio", "data", "drop"}, turn : BOOLEAN]
      BY <2>1 DEF TypeOK
    <3>3. QED
      BY <2>1, <2>3, <2>5, <3>1, <3>2 DEF TypeOK
  <2>7. CursorInRange' /\ ChunkHasOneSlot'
    BY <1>0, <2>1, <2>2, <2>3, <2>4 DEF CursorInRange, ChunkHasOneSlot, NumW
  <2>8. RateFollowsSessions' /\ StatusIsTrue'
    BY <2>1 DEF RateFollowsSessions, StatusIsTrue, NumW
  <2>9. QED
    BY <2>6, <2>7, <2>8
<1>4. CASE RouteAlternate(c, d)
  <2> DEFINE cur == AfterDwell(d)
  <2>1. PICK i \in 1 .. NumW - 1 :
          /\ sendQ[SlotAt(cur.index, i)] < SendCap
          /\ sendQ' = [sendQ EXCEPT ![SlotAt(cur.index, i)] = @ + 1]
          /\ rrIndex' = (cur.index + i) % NumW /\ rrCount' = 1 /\ chunkAge' = 0
          /\ chunkSlot' = SlotAt(cur.index, i)
          /\ last' = [kind |-> "data", turn |-> ~last.turn]
    BY <1>4 DEF RouteAlternate, FirstFree, MoveTo, Disposed, Cursor
  <2>2. /\ NumW > 0 /\ started' = TRUE
        /\ UNCHANGED <<workers, prioQ, writing, attach, limit, reported, reconnects, connected>>
    BY <1>4 DEF RouteAlternate, status
  <2>3. cur.index \in 0 .. NumW - 1
    BY <2>2, AfterDwellCursor
  <2> HIDE DEF cur
  <2>4. (cur.index + i) % NumW \in 0 .. NumW - 1
    BY <1>0, <2>2, <2>3, Remainder
  <2>5. i \in 0 .. NumW - 1
    BY <1>0
  <2>6. /\ SlotAt(cur.index, i) \in Slots
        /\ SlotAt(cur.index, i) = workers[((cur.index + i) % NumW) + 1]
    BY <2>2, <2>3, <2>5, SlotAtType
  <2>7. sendQ' \in [Slots -> 0 .. SendCap]
    <3>1. sendQ \in [Slots -> 0 .. SendCap] /\ SendCap \in Nat
      BY DispatcherAssumption DEF TypeOK
    <3>2. QED
      BY <2>1, <2>6, <3>1, OneMoreFits
  <2>8. TypeOK'
    <3>1. rrIndex' \in Nat /\ rrCount' \in Nat /\ chunkAge' \in 0 .. DwellTicks
      BY <1>0, <2>1, <2>2, <2>4, DispatcherAssumption
    <3>2. last' \in [kind : {"none", "idle", "prio", "data", "drop"}, turn : BOOLEAN]
      BY <2>1 DEF TypeOK
    <3>3. chunkSlot' \in Slots
      BY <2>1, <2>6
    <3>4. QED
      BY <2>2, <2>7, <3>1, <3>2, <3>3 DEF TypeOK
  <2>9. CursorInRange' /\ ChunkHasOneSlot'
    BY <1>0, <2>1, <2>2, <2>4, <2>6 DEF CursorInRange, ChunkHasOneSlot, NumW
  <2>10. RateFollowsSessions' /\ StatusIsTrue'
    BY <2>2 DEF RateFollowsSessions, StatusIsTrue, NumW
  <2>11. QED
    BY <2>8, <2>9, <2>10
<1>5. CASE RouteDrop(c, d)
  <2> DEFINE cur == AfterDwell(d)
  <2>1. /\ NumW > 0 /\ started' = TRUE
        /\ rrIndex' = Next1(cur.index) /\ rrCount' = 0 /\ chunkAge' = cur.age
        /\ last' = [kind |-> "drop", turn |-> ~last.turn]
        /\ UNCHANGED <<workers, sendQ, prioQ, writing, attach, limit, reported, reconnects, connected, chunkSlot>>
    BY <1>5 DEF RouteDrop, MoveTo, Disposed, Cursor, status, queues
  <2>2. Next1(cur.index) \in 0 .. NumW - 1 /\ cur.age \in 0 .. DwellTicks
    BY <1>0, <2>1, AfterDwellCursor, Remainder DEF Next1
  <2> HIDE DEF cur
  <2>3. TypeOK'
    BY <2>1, <2>2 DEF TypeOK
  <2>4. CursorInRange' /\ ChunkHasOneSlot'
    BY <1>0, <2>1, <2>2 DEF CursorInRange, ChunkHasOneSlot, NumW
  <2>5. RateFollowsSessions' /\ StatusIsTrue'
    BY <2>1 DEF RateFollowsSessions, StatusIsTrue, NumW
  <2>6. QED
    BY <2>3, <2>4, <2>5
<1>6. QED
  BY <1>1, <1>2, <1>3, <1>4, <1>5 DEF Route

LEMMA NextInvariant == IInv /\ [Next]_vars => IInv'
<1> SUFFICES ASSUME IInv, [Next]_vars
             PROVE  IInv'
  OBVIOUS
<1>1. CASE UNCHANGED vars
  BY <1>1 DEF vars, routing, queues, status, history, IInv, TypeOK, CursorInRange,
              ChunkHasOneSlot, RateFollowsSessions, StatusIsTrue, NumW
<1>2. CASE Next
  BY <1>2, RegisterInvariant, UnregisterInvariant, AttachInvariant, WriterInvariant,
     RouteInvariant DEF Next
<1>3. QED
  BY <1>1, <1>2

(* The cursor, the open chunk, the limiters and the published count are    *)
(* right in every state of every dispatcher.                               *)
THEOREM DispatcherInvariant == Spec => []IInv
<1>1. Init => IInv
  BY InitInvariant
<1>2. IInv /\ [Next]_vars => IInv'
  BY NextInvariant
<1>3. QED
  BY <1>1, <1>2, PTL DEF Spec

(* The queues, the cursor, the device and the counters have their types:   *)
(* no queue takes more than its capacity (dispatcher.go:387-397).           *)
THEOREM DispatcherTypes == Spec => []TypeOK
  BY DispatcherInvariant, PTL DEF IInv

(* The index is always one readLoop may use.                               *)
THEOREM CursorAlwaysInRange == Spec => []CursorInRange
  BY DispatcherInvariant, PTL DEF IInv

(* A chunk goes through one relay.                                         *)
THEOREM ChunkAlwaysHasOneSlot == Spec => []ChunkHasOneSlot
  BY DispatcherInvariant, PTL DEF IInv

(* The limiters are sized for the registered sessions.                     *)
THEOREM RateAlwaysFollowsSessions == Spec => []RateFollowsSessions
  BY DispatcherInvariant, PTL DEF IInv

(* The status page is told the truth.                                      *)
THEOREM StatusIsAlwaysTrue == Spec => []StatusIsTrue
  BY DispatcherInvariant, PTL DEF IInv
-----------------------------------------------------------------------------
(* Drops.  readLoop looks for the first slot with room; that it finds none *)
(* means that there is none, because a slot with room would have a first   *)
(* such slot at or before it.                                              *)

LEMMA LeastOf ==
  ASSUME NEW T \in SUBSET Nat, T # {}
  PROVE  \E x \in T : \A y \in T : x <= y
<1>1. PICK x \in T : \A y \in T : <<y, x>> \notin OpToRel(<, Nat)
  BY NatLessThanWellFounded, WFMin
<1>2. ASSUME NEW y \in T PROVE x <= y
  <2>1. y < x => <<y, x>> \in OpToRel(<, Nat)
    BY DEF OpToRel
  <2>2. ~(y < x)
    BY <1>1, <2>1, Zenon
  <2>3. QED
    BY <2>2
<1>3. QED
  BY <1>2

(* Going round from any index reaches every registered slot.               *)
LEMMA EverySlotIsReached ==
  ASSUME TypeOK, NEW idx \in 0 .. NumW - 1, NEW k \in 1 .. NumW
  PROVE  \E i \in 0 .. NumW - 1 : SlotAt(idx, i) = workers[k]
<1> DEFINE i == IF k - 1 >= idx THEN k - 1 - idx ELSE k - 1 - idx + NumW
<1>1. NumW \in Nat
  BY DEF TypeOK, NumW
<1>2. i \in 0 .. NumW - 1
  BY <1>1
<1>3. (idx + i) % NumW = k - 1
  BY <1>1
<1>4. SlotAt(idx, i) = workers[k]
  BY <1>1, <1>3 DEF SlotAt
<1>5. QED
  BY <1>2, <1>4

LEMMA NoneFreeMeansAllFull ==
  ASSUME TypeOK, NEW idx \in 0 .. NumW - 1, NEW cap \in Nat,
         NEW q \in [Slots -> Nat], NoneFree(q, cap, idx)
  PROVE  \A s \in Registered : q[s] >= cap
<1> DEFINE Free == {i \in 0 .. NumW - 1 : q[SlotAt(idx, i)] < cap}
<1>0. NumW \in Nat /\ NumW > 0
  BY DEF TypeOK, NumW
<1>1. Free = {}
  <2>1. SUFFICES ASSUME Free # {} PROVE FALSE
    OBVIOUS
  <2>2. PICK i \in Free : \A j \in Free : i <= j
    <3>1. Free \in SUBSET Nat
      BY <1>0
    <3> HIDE DEF Free
    <3>2. QED
      BY <2>1, <3>1, LeastOf
  <2>3. ASSUME NEW j \in 0 .. i - 1 PROVE q[SlotAt(idx, j)] >= cap
    <3>1. j \in 0 .. NumW - 1 /\ j \notin Free
      BY <1>0, <2>2
    <3>2. SlotAt(idx, j) \in Slots
      BY <1>0, <3>1, SlotAtType
    <3>3. QED
      BY <3>1, <3>2
  <2>4. FirstFree(q, cap, idx, i)
    BY <2>2, <2>3 DEF FirstFree
  <2>5. QED
    BY <2>2, <2>4 DEF NoneFree
<1>2. ASSUME NEW s \in Registered PROVE q[s] >= cap
  <2>1. PICK k \in 1 .. NumW : s = workers[k]
    BY DEF Registered
  <2>2. PICK i \in 0 .. NumW - 1 : SlotAt(idx, i) = s
    BY <2>1, EverySlotIsReached
  <2>3. s \in Slots
    BY <2>1 DEF TypeOK, NumW
  <2>4. QED
    BY <1>1, <2>2, <2>3
<1>3. QED
  BY <1>2

LEMMA DropStep ==
  ASSUME IInv, [Next]_vars, last'.turn # last.turn, last'.kind = "drop"
  PROVE  \A s \in Registered : sendQ[s] >= SendCap
<1>1. last' # last
  OBVIOUS
<1>2. PICK c \in Classes, d \in Elapsed : Route(c, d)
  BY <1>1 DEF Next, Register, Unregister, CloseReady, AttachReport, WriterTakes, WriterEnds,
              vars, history
<1>3. RouteDrop(c, d)
  BY <1>2 DEF Route, RouteNowhere, RoutePrio, RouteCurrent, RouteAlternate, Disposed
<1>4. NumW > 0 /\ NoneFree(sendQ, SendCap, AfterDwell(d).index)
  BY <1>3 DEF RouteDrop
<1>5. AfterDwell(d).index \in 0 .. NumW - 1
  BY <1>4, AfterDwellCursor DEF IInv
<1>6. sendQ \in [Slots -> Nat] /\ SendCap \in Nat /\ TypeOK
  BY DispatcherAssumption DEF IInv, TypeOK
<1>7. QED
  BY <1>4, <1>5, <1>6, NoneFreeMeansAllFull

(* A packet is dropped only when every registered slot is full, for any    *)
(* number of them and any capacity: dispatcher.go:420-455.                 *)
THEOREM DropsOnlyWhenAllFull == Spec => DropOnlyWhenAllFull
<1>1. IInv /\ [Next]_vars
        => [(last'.turn # last.turn /\ last'.kind = "drop")
              => \A s \in Registered : sendQ[s] >= SendCap]_vars
  BY DropStep
<1>2. QED
  BY <1>1, DispatcherInvariant, PTL DEF Spec, DropOnlyWhenAllFull
=============================================================================
