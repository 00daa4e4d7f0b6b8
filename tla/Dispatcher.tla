----------------------------- MODULE Dispatcher -----------------------------
(***************************************************************************)
(* The packet dispatcher of the client (client/dispatcher.go), together    *)
(* with the two things it publishes under its own lock: the rate of the    *)
(* shared limiters (client/ratelimit.go) and the session count the status  *)
(* page reads (reportNetifdWorkers in client/netifd.go).                   *)
(*                                                                         *)
(* Sessions register and unregister a slot, readLoop spreads packets over  *)
(* the slots in chunks, every session's Writer empties its own slot, and   *)
(* the consumer of the RAW configuration attaches the device once.         *)
(*                                                                         *)
(* Packets are counted, not represented: a slot's channel is its           *)
(* occupancy.  Time is counted in ticks of 5 ms, and only as far as the    *)
(* two thresholds readLoop compares it with.                               *)
(***************************************************************************)
EXTENDS Integers, Sequences

CONSTANTS
  Slots,         \* the sessions that may register (worker ids)
  SendCap,       \* capacity of a slot's SendCh
  PrioCap,       \* capacity of a slot's PrioCh
  Chunk,         \* packet class -> chunkSizeFor of it
  Small,         \* the classes at or under prioThreshold
  PauseTicks,    \* a pause is more than this many ticks
  DwellTicks,    \* maxDwellMS in ticks
  NumWorkers,    \* -n: the sessions the limiters are first sized for
  MaxReconnects  \* bound on the reconnect counter (model only)

Classes == DOMAIN Chunk
Elapsed == 0 .. DwellTicks
NoSlot == "none"
NoChunk == -1    \* chunkStartTs = 0

ASSUME DispatcherAssumption ==
  /\ NoSlot \notin Slots
  /\ SendCap \in Nat \ {0}
  /\ PrioCap \in Nat \ {0}
  /\ Chunk \in [Classes -> Nat \ {0}]
  /\ Small \subseteq Classes
  /\ PauseTicks \in Nat
  /\ DwellTicks \in Nat \ {0}
  /\ PauseTicks < DwellTicks
  /\ NumWorkers \in Nat \ {0}
  /\ MaxReconnects \in Nat

VARIABLES
  workers,      \* d.workers, in registration order
  rrIndex,      \* d.rrIndex, 0-based
  rrCount,      \* d.rrCount
  started,      \* d.lastPktTime > 0
  chunkAge,     \* ticks since d.chunkStartTs, saturated; NoChunk before the first
  sendQ, prioQ, \* occupancy of each slot's channels
  writing,      \* the slots whose session's Writer is still running
  attach,       \* "no", "ready" (d.ready closed, not yet reported), "done"
  limit,        \* the sessions the limiters are sized for
  reported,     \* the count in the run file (netifdPrevActive)
  reconnects,   \* netifdReconnects
  connected,    \* netifdConnectedAt # 0
  last,         \* history: how readLoop disposed of the last packet
  chunkSlot     \* history: the slot the last data packet went to

routing == <<rrIndex, rrCount, started, chunkAge>>
queues == <<sendQ, prioQ, writing>>
status == <<reported, reconnects, connected>>
history == <<last, chunkSlot>>
vars == <<workers, routing, queues, attach, limit, status, history>>

NumW == Len(workers)
Registered == {workers[i] : i \in 1 .. NumW}

-----------------------------------------------------------------------------
(* The count as published: reportWorkers around reportNetifdWorkers.       *)

ReportWorkers(count, isAttached) ==
  LET active == IF isAttached THEN count ELSE 0 IN
  /\ reconnects' = IF active < reported
                   THEN reconnects + (reported - active)
                   ELSE reconnects
  /\ reported' = active
  /\ connected' = (active # 0)

SetTunnelSessionsSkipsOne(n) == limit' = IF n <= 1 THEN limit ELSE n

(* setTunnelSessions: an empty tunnel keeps the rate it last had.          *)
SetTunnelSessions(n) == limit' = IF n <= 0 THEN limit ELSE n

-----------------------------------------------------------------------------
(* Register and Unregister: each runs entirely under d.mu.                 *)

(* The slot a session registers is a new one, with empty channels.         *)
Register(s) ==
  /\ s \notin Registered
  /\ workers' = Append(workers, s)
  /\ sendQ' = [sendQ EXCEPT ![s] = 0]
  /\ prioQ' = [prioQ EXCEPT ![s] = 0]
  /\ writing' = writing \cup {s}
  /\ SetTunnelSessions(NumW + 1)
  /\ ReportWorkers(NumW + 1, attach # "no")
  /\ UNCHANGED <<routing, attach, history>>

Without(seq, i) ==
  [j \in 1 .. Len(seq) - 1 |-> IF j < i THEN seq[j] ELSE seq[j + 1]]

CursorAfterRemovalKeepsChunk(remaining) ==
  [index |-> IF rrIndex >= remaining /\ remaining > 0 THEN rrIndex % remaining ELSE rrIndex,
   count |-> rrCount]

(* An index past the end is brought back, and the chunk is given up.       *)
CursorAfterRemoval(remaining) ==
  [index |-> IF rrIndex >= remaining /\ remaining > 0 THEN rrIndex % remaining ELSE rrIndex,
   count |-> 0]

(* A session unregisters on its way out, after its Writer has ended.       *)
Unregister(s) ==
  /\ s \notin writing
  /\ reconnects < MaxReconnects
  /\ \E i \in 1 .. NumW :
       /\ workers[i] = s
       /\ workers' = Without(workers, i)
  /\ rrIndex' = CursorAfterRemoval(NumW - 1).index
  /\ rrCount' = CursorAfterRemoval(NumW - 1).count
  /\ SetTunnelSessions(NumW - 1)
  /\ ReportWorkers(NumW - 1, attach # "no")
  /\ UNCHANGED <<started, chunkAge, queues, attach, history>>

-----------------------------------------------------------------------------
(* AttachTUN: close(d.ready) first, the report under the lock afterwards.  *)

CloseReadyUnreported ==
  /\ attach = "no"
  /\ attach' = "done"
  /\ UNCHANGED <<workers, routing, queues, limit, status, history>>

CloseReady ==
  /\ attach = "no"
  /\ attach' = "ready"
  /\ UNCHANGED <<workers, routing, queues, limit, status, history>>

AttachReport ==
  /\ attach = "ready"
  /\ attach' = "done"
  /\ ReportWorkers(NumW, TRUE)
  /\ UNCHANGED <<workers, routing, queues, limit, history>>

-----------------------------------------------------------------------------
(* readLoop.  A pause moves the cursor to the next slot and opens a chunk; *)
(* so does a chunk that has dwelt too long, but only for a data packet.    *)

Next1(i) == (i + 1) % NumW

Cursor(i, n, a) == [index |-> i, count |-> n, age |-> a]

AfterPause(d) ==
  IF started /\ d > PauseTicks
  THEN Cursor(Next1(rrIndex), 0, 0)
  ELSE Cursor(rrIndex, rrCount,
              IF chunkAge = NoChunk THEN NoChunk
              ELSE IF chunkAge + d > DwellTicks THEN DwellTicks ELSE chunkAge + d)

AfterDwell(d) ==
  LET c == AfterPause(d) IN
  IF c.age = NoChunk THEN [c EXCEPT !.age = 0]
  ELSE IF c.age >= DwellTicks THEN Cursor(Next1(c.index), 0, 0)
  ELSE c

(* The slot i places after index idx, cyclically.                          *)
SlotAt(idx, i) == workers[((idx + i) % NumW) + 1]

(* The first slot from idx on whose channel has room is i places away.     *)
FirstFreeSkipsLast(q, cap, idx, i) ==
  /\ q[SlotAt(idx, i)] < cap
  /\ i < NumW - 1 \/ i = 0
  /\ \A j \in 0 .. i - 1 : q[SlotAt(idx, j)] >= cap

FirstFree(q, cap, idx, i) ==
  /\ q[SlotAt(idx, i)] < cap
  /\ \A j \in 0 .. i - 1 : q[SlotAt(idx, j)] >= cap

NoneFree(q, cap, idx) == \A i \in 0 .. NumW - 1 : ~FirstFree(q, cap, idx, i)

AllPrioFull(c, d) == c \in Small => NoneFree(prioQ, PrioCap, AfterPause(d).index)

MoveTo(cursor) ==
  /\ rrIndex' = cursor.index
  /\ rrCount' = cursor.count
  /\ chunkAge' = cursor.age

Disposed(kind) == last' = [kind |-> kind, turn |-> ~last.turn]

(* No session: the packet is dropped before any of the state is touched.   *)
RouteNowhere ==
  /\ NumW = 0
  /\ Disposed("idle")
  /\ UNCHANGED <<workers, routing, queues, attach, limit, status, chunkSlot>>

RoutePrio(c, d) ==
  /\ NumW > 0 /\ c \in Small
  /\ \E i \in 0 .. NumW - 1 :
       LET idx == AfterPause(d).index
           s   == SlotAt(idx, i) IN
       /\ FirstFree(prioQ, PrioCap, idx, i)
       /\ prioQ' = [prioQ EXCEPT ![s] = @ + 1]
       /\ MoveTo(AfterPause(d))
       /\ Disposed("prio")
  /\ started' = TRUE
  /\ UNCHANGED <<workers, sendQ, writing, attach, limit, status, chunkSlot>>

(* Chunk affinity: the current slot has room.                              *)
RouteCurrent(c, d) ==
  /\ NumW > 0 /\ AllPrioFull(c, d)
  /\ LET cur == AfterDwell(d)
         s   == SlotAt(cur.index, 0) IN
     /\ sendQ[s] < SendCap
     /\ sendQ' = [sendQ EXCEPT ![s] = @ + 1]
     /\ IF cur.count + 1 >= Chunk[c]
        THEN MoveTo(Cursor(Next1(cur.index), 0, 0))
        ELSE MoveTo([cur EXCEPT !.count = @ + 1])
     /\ chunkSlot' = s
     /\ Disposed("data")
  /\ started' = TRUE
  /\ UNCHANGED <<workers, prioQ, writing, attach, limit, status>>

(* The current slot is full: the next free one takes it, as a new chunk.   *)
RouteAlternate(c, d) ==
  /\ NumW > 0 /\ AllPrioFull(c, d)
  /\ \E i \in 1 .. NumW - 1 :
       LET cur == AfterDwell(d)
           s   == SlotAt(cur.index, i) IN
       /\ FirstFree(sendQ, SendCap, cur.index, i)
       /\ sendQ' = [sendQ EXCEPT ![s] = @ + 1]
       /\ MoveTo(Cursor((cur.index + i) % NumW, 1, 0))
       /\ chunkSlot' = s
       /\ Disposed("data")
  /\ started' = TRUE
  /\ UNCHANGED <<workers, prioQ, writing, attach, limit, status>>

RouteDrop(c, d) ==
  /\ NumW > 0 /\ AllPrioFull(c, d)
  /\ LET cur == AfterDwell(d) IN
     /\ NoneFree(sendQ, SendCap, cur.index)
     /\ MoveTo(Cursor(Next1(cur.index), 0, cur.age))
     /\ Disposed("drop")
  /\ started' = TRUE
  /\ UNCHANGED <<workers, queues, attach, limit, status, chunkSlot>>

(* readLoop waits for d.ready before its first read.                       *)
Route(c, d) ==
  /\ attach # "no"
  /\ \/ RouteNowhere
     \/ RoutePrio(c, d)
     \/ RouteCurrent(c, d)
     \/ RouteAlternate(c, d)
     \/ RouteDrop(c, d)

-----------------------------------------------------------------------------
(* A session's Writer takes a packet, or ends and drains both channels     *)
(* while its slot is still registered.  It looks at the priority channel   *)
(* first, but a packet may arrive between its two selects, and the second  *)
(* picks from either.                                                      *)

WriterTakes(s) ==
  /\ s \in writing
  /\ \/ /\ prioQ[s] > 0
        /\ prioQ' = [prioQ EXCEPT ![s] = @ - 1]
        /\ UNCHANGED sendQ
     \/ /\ sendQ[s] > 0
        /\ sendQ' = [sendQ EXCEPT ![s] = @ - 1]
        /\ UNCHANGED prioQ
  /\ UNCHANGED <<workers, routing, writing, attach, limit, status, history>>

WriterEnds(s) ==
  /\ s \in writing
  /\ writing' = writing \ {s}
  /\ prioQ' = [prioQ EXCEPT ![s] = 0]
  /\ sendQ' = [sendQ EXCEPT ![s] = 0]
  /\ UNCHANGED <<workers, routing, attach, limit, status, history>>

-----------------------------------------------------------------------------
Init ==
  /\ workers = << >>
  /\ rrIndex = 0 /\ rrCount = 0
  /\ started = FALSE /\ chunkAge = NoChunk
  /\ sendQ = [s \in Slots |-> 0]
  /\ prioQ = [s \in Slots |-> 0]
  /\ writing = {}
  /\ attach \in {"no", "done"}    \* NewDispatcherPendingTUN, NewDispatcher
  /\ limit = NumWorkers
  /\ reported = 0 /\ reconnects = 0 /\ connected = FALSE
  /\ last = [kind |-> "none", turn |-> FALSE]
  /\ chunkSlot = NoSlot

Next ==
  \/ \E s \in Slots : Register(s)
  \/ \E s \in Slots : Unregister(s)
  \/ CloseReady
  \/ AttachReport
  \/ \E c \in Classes, d \in Elapsed : Route(c, d)
  \/ \E s \in Slots : WriterTakes(s)
  \/ \E s \in Slots : WriterEnds(s)

Spec == Init /\ [][Next]_vars

-----------------------------------------------------------------------------
(* Properties.                                                             *)

(* Every variable has its type; the reconnect counter is a natural.        *)
TypeOK ==
  /\ workers \in Seq(Slots)
  /\ rrIndex \in Nat
  /\ rrCount \in Nat
  /\ started \in BOOLEAN
  /\ chunkAge \in {NoChunk} \cup (0 .. DwellTicks)
  /\ sendQ \in [Slots -> 0 .. SendCap]
  /\ prioQ \in [Slots -> 0 .. PrioCap]
  /\ writing \subseteq Slots
  /\ attach \in {"no", "ready", "done"}
  /\ limit \in Nat \ {0}
  /\ reported \in Nat
  /\ reconnects \in Nat
  /\ connected \in BOOLEAN
  /\ last \in [kind : {"none", "idle", "prio", "data", "drop"}, turn : BOOLEAN]
  /\ chunkSlot \in Slots \cup {NoSlot}

(* The cursor always names a registered slot, or 0 when there is none:     *)
(* the index survives every order of departures (dispatcher.go:259-262).   *)
CursorInRange == rrIndex < IF NumW = 0 THEN 1 ELSE NumW

(* An open chunk belongs to the slot the cursor points at: packets counted *)
(* towards a chunk all went through that one relay, also when a session    *)
(* before it in the list has left ("Within a chunk packets go through one  *)
(* TURN relay", dispatcher.go:280).                                        *)
ChunkHasOneSlot ==
  rrCount > 0 => rrIndex < NumW /\ workers[rrIndex + 1] = chunkSlot

(* The limiters are sized for the sessions registered, whichever order     *)
(* they came and went in (ratelimit.go:60-63, dispatcher.go:234-239).      *)
RateFollowsSessions == NumW > 0 => limit = NumW

(* What the status page reads: nothing until there is a device, and every  *)
(* registered session once AttachTUN has returned - including those that   *)
(* registered before or between its two steps (dispatcher.go:177-206).     *)
StatusIsTrue ==
  /\ attach = "no" => reported = 0
  /\ attach = "ready" => reported \in {0, NumW}
  /\ attach = "done" => reported = NumW

(* A packet is dropped only when no registered slot has room for it        *)
(* ("Every worker is overloaded", dispatcher.go:451).                      *)
DropOnlyWhenAllFull ==
  [][(last'.turn # last.turn /\ last'.kind = "drop")
       => \A s \in Registered : sendQ[s] >= SendCap]_vars
=============================================================================
