---------------------------- MODULE UplinkProofs ----------------------------
(***************************************************************************)
(* Proofs about Uplink: for any number of workers, addresses, relays and   *)
(* handshake slots.                                                        *)
(***************************************************************************)
EXTENDS Uplink, FiniteSetTheorems, TLAPS

(* Where a worker has no session, and where it has sampled srcBefore for   *)
(* the one it is in, or has just left.                                     *)
Outside == {"loop", "dial", "settle", "still", "moved", "pause", "gone"}
Sampled == {"dial", "allocate", "queue", "handshake", "config", "up", "closing", "settle"}

(* A worker without a session holds no relay.                              *)
NothingHeldOutside == \A w \in Workers : pc[w] \in Outside => relay[w] = NoRelay

(* A worker whose next look would, or did, find another address has a move *)
(* to spend.                                                               *)
MoveToSpend ==
  \A w \in Workers :
    /\ pc[w] = "moved" => quick[w] < moves
    /\ pc[w] \in Sampled /\ route \notin {NoAddress, before[w]} => quick[w] < moves

IInv ==
  /\ TypeOK /\ NothingHeldOutside /\ MoveToSpend
  /\ RelaysAreHeld /\ SlotsAreHeld /\ QuickNeedsAMove

-----------------------------------------------------------------------------
(* Counting workers.                                                       *)

CountAt(f, x) == Cardinality({v \in Workers : f[v] = x})

(* One worker changes: the count of those at x follows.                    *)
CountStep(f, g, w, x) ==
  /\ CountAt(f, x) \in Nat /\ CountAt(g, x) \in Nat
  /\ f[w] = x /\ g[w] # x => CountAt(g, x) = CountAt(f, x) - 1
  /\ f[w] # x /\ g[w] = x => CountAt(g, x) = CountAt(f, x) + 1
  /\ (f[w] = x <=> g[w] = x) => CountAt(g, x) = CountAt(f, x)

LEMMA CountFollows ==
  ASSUME NEW f, NEW g, NEW w \in Workers, NEW x, \A v \in Workers \ {w} : g[v] = f[v]
  PROVE  CountStep(f, g, w, x)
<1> DEFINE F == {v \in Workers : f[v] = x}
           G == {v \in Workers : g[v] = x}
<1>0. CountAt(f, x) = Cardinality(F) /\ CountAt(g, x) = Cardinality(G)
  BY DEF CountAt
<1>1. IsFiniteSet(F) /\ IsFiniteSet(G)
  <2>1. F \subseteq Workers /\ G \subseteq Workers  OBVIOUS
  <2> QED  BY <2>1, FS_Subset, UplinkAssumption
<1>2. Cardinality(F) \in Nat /\ Cardinality(G) \in Nat
  BY <1>1, FS_CardinalityType
<1>3. f[w] = x /\ g[w] # x => Cardinality(G) = Cardinality(F) - 1
  <2> SUFFICES ASSUME f[w] = x, g[w] # x PROVE Cardinality(G) = Cardinality(F) - 1
    OBVIOUS
  <2>1. G = F \ {w} /\ w \in F  OBVIOUS
  <2> HIDE DEF F, G
  <2> QED  BY <2>1, <1>1, <1>2, FS_RemoveElement
<1>4. f[w] # x /\ g[w] = x => Cardinality(G) = Cardinality(F) + 1
  <2> SUFFICES ASSUME f[w] # x, g[w] = x PROVE Cardinality(G) = Cardinality(F) + 1
    OBVIOUS
  <2>1. G = F \cup {w} /\ w \notin F  OBVIOUS
  <2> HIDE DEF F, G
  <2> QED  BY <2>1, <1>1, <1>2, FS_AddElement
<1>5. (f[w] = x <=> g[w] = x) => F = G
  OBVIOUS
<1> HIDE DEF F, G
<1> QED  BY <1>0, <1>2, <1>3, <1>4, <1>5 DEF CountStep

(* The two invariants that count, in these terms.                          *)
LEMMA Counted ==
  /\ RelaysAreHeld <=> \A addr \in Relays : listed[addr] = CountAt(relay, addr)
  /\ RelaysAreHeld' <=> \A addr \in Relays : listed'[addr] = CountAt(relay', addr)
  /\ SlotsAreHeld <=> handshakes = CountAt(pc, "handshake") /\ handshakes <= HandshakeSlots
  /\ SlotsAreHeld' <=> handshakes' = CountAt(pc', "handshake") /\ handshakes' <= HandshakeSlots
BY DEF RelaysAreHeld, SlotsAreHeld, CountAt

(* A pc that moves between places other than the handshake.                *)
LEMMA SlotsStay ==
  ASSUME SlotsAreHeld, NEW w \in Workers, \A v \in Workers \ {w} : pc'[v] = pc[v],
         handshakes' = handshakes, pc[w] = "handshake" <=> pc'[w] = "handshake"
  PROVE  SlotsAreHeld'
<1> CountStep(pc, pc', w, "handshake")  BY CountFollows
<1> QED  BY Counted DEF CountStep

(* A session's relay comes off the list with it.                           *)
LEMMA ReturnKeeps ==
  ASSUME TypeOK, RelaysAreHeld, NEW w \in Workers, NEW kind \in {"none", "other", "stale", "fatal"},
         Return(w, kind)
  PROVE  /\ RelaysAreHeld' /\ relay'[w] = NoRelay
         /\ relay' \in [Workers -> Relays \cup {NoRelay}]
         /\ bound' \in [Workers -> Sources] /\ listed' \in [Relays -> Nat]
         /\ pc' = [pc EXCEPT ![w] = pc'[w]] /\ pc'[w] \in {"settle", "gone", "pause"}
         /\ \A v \in Workers \ {w} : pc'[v] = pc[v] /\ relay'[v] = relay[v]
<1>1. /\ relay' = [relay EXCEPT ![w] = NoRelay]
      /\ bound' = [bound EXCEPT ![w] = NoAddress]
      /\ pc' = [pc EXCEPT ![w] = AfterSession(kind)]
  BY DEF Return, Goto
<1>2. AfterSession(kind) \in {"settle", "gone", "pause"}
  BY DEF AfterSession
<1>3. /\ \A v \in Workers \ {w} : relay'[v] = relay[v]
      /\ relay'[w] = NoRelay
      /\ relay' \in [Workers -> Relays \cup {NoRelay}]
  BY <1>1 DEF TypeOK
<1>4. ASSUME NEW addr \in Relays
      PROVE  listed'[addr] = CountAt(relay', addr) /\ listed'[addr] \in Nat
  <2>1. addr # NoRelay  BY RelaysAssumption
  <2>2. /\ CountAt(relay', addr) \in Nat
        /\ relay[w] = addr => CountAt(relay', addr) = CountAt(relay, addr) - 1
        /\ relay[w] # addr => CountAt(relay', addr) = CountAt(relay, addr)
    <3>1. relay'[w] # addr  BY <2>1, <1>3
    <3>2. \A v \in Workers \ {w} : relay'[v] = relay[v]  BY <1>3
    <3>3. CountStep(relay, relay', w, addr)  BY <3>2, CountFollows
    <3> QED  BY <3>1, <3>3 DEF CountStep
  <2>3. listed'[addr] = IF relay[w] = addr THEN listed[addr] - 1 ELSE listed[addr]
    BY <2>1 DEF Return, TypeOK
  <2> QED  BY <2>2, <2>3, Counted
<1>5. listed' \in [Relays -> Nat]
  <2>1. listed' \in [Relays -> Int]  BY DEF Return, TypeOK
  <2> QED  BY <2>1, <1>4
<1>6. bound' \in [Workers -> Sources]
  BY <1>1 DEF TypeOK, Sources
<1>7. pc' = [pc EXCEPT ![w] = pc'[w]] /\ pc'[w] \in {"settle", "gone", "pause"}
      /\ \A v \in Workers \ {w} : pc'[v] = pc[v]
  BY <1>1, <1>2 DEF TypeOK
<1> QED  BY <1>3, <1>4, <1>5, <1>6, <1>7, Counted

(* A step of one worker that leaves the uplink and the count alone: it is  *)
(* in no place that spends a move it had not when it sampled.              *)
LEMMA MoveKept ==
  ASSUME MoveToSpend, QuickNeedsAMove, NEW w \in Workers, UNCHANGED <<uplink, quick>>,
         \A v \in Workers \ {w} : pc'[v] = pc[v] /\ before'[v] = before[v],
         pc'[w] \in Sampled => \/ pc[w] \in Sampled /\ before'[w] = before[w]
                               \/ before'[w] = route,
         pc'[w] = "moved" => \/ pc[w] = "moved"
                             \/ pc[w] \in Sampled /\ route \notin {NoAddress, before[w]}
  PROVE  MoveToSpend' /\ QuickNeedsAMove'
BY DEF MoveToSpend, QuickNeedsAMove, uplink

(* One that also leaves the sessions and the handshakes alone.             *)
LEMMA WorkerMoves ==
  ASSUME IInv, TypeOK', NEW w \in Workers,
         UNCHANGED <<uplink, session, handshakes, quick>>,
         \A v \in Workers \ {w} : pc'[v] = pc[v] /\ before'[v] = before[v],
         pc[w] = "handshake" <=> pc'[w] = "handshake",
         pc'[w] \in Outside => pc[w] \in Outside,
         pc'[w] \in Sampled => \/ pc[w] \in Sampled /\ before'[w] = before[w]
                               \/ before'[w] = route,
         pc'[w] = "moved" => \/ pc[w] = "moved"
                             \/ pc[w] \in Sampled /\ route \notin {NoAddress, before[w]}
  PROVE  IInv'
<1>1. SlotsAreHeld'  BY SlotsStay DEF IInv
<1>2. RelaysAreHeld'  BY DEF IInv, RelaysAreHeld, session
<1>3. NothingHeldOutside'  BY DEF IInv, NothingHeldOutside, session
<1>4. MoveToSpend' /\ QuickNeedsAMove'  BY MoveKept DEF IInv
<1> QED  BY <1>1, <1>2, <1>3, <1>4 DEF IInv

(* A session returns, from wherever it was.                                *)
LEMMA ReturnStep ==
  ASSUME IInv, NEW w \in Workers, NEW kind \in {"none", "other", "stale", "fatal"},
         Return(w, kind), pc[w] \in Sampled,
         UNCHANGED <<stopped, uplink, before, watch, rotation, quick>>,
         handshakes' = IF pc[w] = "handshake" THEN handshakes - 1 ELSE handshakes
  PROVE  IInv'
<1>1. /\ RelaysAreHeld' /\ relay'[w] = NoRelay
      /\ relay' \in [Workers -> Relays \cup {NoRelay}]
      /\ bound' \in [Workers -> Sources] /\ listed' \in [Relays -> Nat]
      /\ pc' = [pc EXCEPT ![w] = pc'[w]] /\ pc'[w] \in {"settle", "gone", "pause"}
      /\ \A v \in Workers \ {w} : pc'[v] = pc[v] /\ relay'[v] = relay[v]
  BY ReturnKeeps DEF IInv
<1>2. SlotsAreHeld' /\ handshakes' \in Nat
  <2>1. CountStep(pc, pc', w, "handshake")  BY <1>1, CountFollows
  <2>2. handshakes' = CountAt(pc', "handshake") /\ handshakes' <= handshakes
    BY <1>1, <2>1, Counted DEF IInv, TypeOK, CountStep
  <2>3. handshakes <= HandshakeSlots /\ handshakes \in Nat /\ HandshakeSlots \in Nat
    BY UplinkAssumption DEF IInv, SlotsAreHeld, TypeOK
  <2> QED  BY <2>1, <2>2, <2>3, Counted DEF CountStep
<1>3. TypeOK'
  BY <1>1, <1>2 DEF IInv, TypeOK, uplink, watch
<1>4. NothingHeldOutside'
  BY <1>1 DEF IInv, NothingHeldOutside
<1>5. MoveToSpend' /\ QuickNeedsAMove'
  BY <1>1, MoveKept DEF IInv
<1> QED  BY <1>1, <1>2, <1>3, <1>4, <1>5 DEF IInv

-----------------------------------------------------------------------------
(* The invariant.                                                          *)

LEMMA InitIInv == Init => IInv
<1> SUFFICES ASSUME Init PROVE IInv  OBVIOUS
<1>1. TypeOK
  <2>1. moves \in 0 .. MaxMoves  BY UplinkAssumption DEF Init
  <2> QED  BY <2>1 DEF Init, TypeOK, Sources
<1>6. NothingHeldOutside /\ MoveToSpend /\ QuickNeedsAMove
  BY DEF Init, NothingHeldOutside, MoveToSpend, QuickNeedsAMove, Sampled
<1>2. ASSUME NEW addr \in Relays PROVE Cardinality({w \in Workers : relay[w] = addr}) = 0
  <2>1. {w \in Workers : relay[w] = addr} = {}  BY RelaysAssumption DEF Init
  <2> QED  BY <2>1, FS_EmptySet
<1>3. {w \in Workers : pc[w] = "handshake"} = {}  BY DEF Init
<1>4. RelaysAreHeld  BY <1>2 DEF Init, RelaysAreHeld
<1>5. SlotsAreHeld  BY <1>3, FS_EmptySet, UplinkAssumption DEF Init, SlotsAreHeld
<1> QED  BY <1>1, <1>4, <1>5, <1>6 DEF IInv

(* A worker from the top of its loop to the end of its session.            *)
LEMMA DialKeeps == ASSUME IInv, NEW w \in Workers, Dial(w) PROVE IInv'
<1> PICK addr \in Relays : relay' = [relay EXCEPT ![w] = addr] /\ AddSlot(addr)
  BY DEF Dial
<1>0. addr # NoRelay /\ relay[w] = NoRelay /\ pc[w] = "dial" /\ route \in Sources
  BY RelaysAssumption DEF Dial, IInv, NothingHeldOutside, TypeOK, Outside, Sources
<1>1. /\ relay' \in [Workers -> Relays \cup {NoRelay}] /\ relay'[w] = addr
      /\ \A v \in Workers \ {w} : relay'[v] = relay[v] /\ pc'[v] = pc[v]
      /\ pc'[w] = "allocate"
  BY DEF Dial, Goto, IInv, TypeOK
<1>2. TypeOK'
  <2>1. listed' \in [Relays -> Nat]  BY DEF AddSlot, IInv, TypeOK
  <2>2. bound' \in [Workers -> Sources]  BY <1>0 DEF Dial, IInv, TypeOK
  <2>3. pc' = [pc EXCEPT ![w] = "allocate"]  BY DEF Dial, Goto
  <2> QED  BY <1>1, <2>1, <2>2, <2>3 DEF Dial, IInv, TypeOK, uplink, watch
<1>3. ASSUME NEW x \in Relays PROVE listed'[x] = CountAt(relay', x)
  <2>1. CountStep(relay, relay', w, x)  BY <1>1, CountFollows
  <2>2. listed'[x] = IF x = addr THEN listed[x] + 1 ELSE listed[x]
    BY DEF AddSlot, IInv, TypeOK
  <2>3. relay[w] # x /\ (relay'[w] = x <=> x = addr)  BY <1>0, <1>1, RelaysAssumption
  <2> QED  BY <2>1, <2>2, <2>3, Counted DEF IInv, CountStep
<1>4. RelaysAreHeld'  BY <1>3, Counted
<1>5. SlotsAreHeld'  BY <1>0, <1>1, SlotsStay DEF Dial, IInv
<1>6. NothingHeldOutside'  BY <1>1 DEF IInv, NothingHeldOutside, Outside
<1>7. MoveToSpend' /\ QuickNeedsAMove'
  BY <1>0, <1>1, MoveKept DEF Dial, IInv, Sampled
<1> QED  BY <1>2, <1>4, <1>5, <1>6, <1>7 DEF IInv

LEMMA HandshakeKeeps == ASSUME IInv, NEW w \in Workers, Handshake(w) PROVE IInv'
<1>1. /\ pc[w] = "queue" /\ pc'[w] = "handshake" /\ pc' = [pc EXCEPT ![w] = "handshake"]
      /\ \A v \in Workers \ {w} : pc'[v] = pc[v]
  BY DEF Handshake, Goto, IInv, TypeOK
<1>2. TypeOK'
  BY <1>1 DEF Handshake, IInv, TypeOK, uplink, session, watch
<1>3. SlotsAreHeld'
  <2>1. CountStep(pc, pc', w, "handshake")  BY <1>1, CountFollows
  <2>2. handshakes' <= HandshakeSlots
    BY UplinkAssumption DEF Handshake, IInv, TypeOK
  <2> QED  BY <1>1, <2>1, <2>2, Counted DEF Handshake, IInv, CountStep
<1>4. RelaysAreHeld' /\ NothingHeldOutside'
  BY <1>1 DEF Handshake, IInv, RelaysAreHeld, NothingHeldOutside, Outside, session
<1>5. MoveToSpend' /\ QuickNeedsAMove'
  BY <1>1, MoveKept DEF Handshake, IInv, Sampled
<1> QED  BY <1>2, <1>3, <1>4, <1>5 DEF IInv

LEMMA HandshakeEndsKeeps == ASSUME IInv, NEW w \in Workers, HandshakeEnds(w) PROVE IInv'
<1>1. pc[w] = "handshake" /\ UNCHANGED <<stopped, uplink, before, watch, rotation, quick>>
  BY DEF HandshakeEnds
<1>2. CASE FreeSlot(FALSE) /\ Return(w, "other")
  BY <1>1, <1>2, ReturnStep DEF FreeSlot, Sampled
<1>3. CASE FreeSlot(TRUE) /\ Goto(w, "config") /\ UNCHANGED session
  <2>1. /\ pc'[w] = "config" /\ pc' = [pc EXCEPT ![w] = "config"]
        /\ \A v \in Workers \ {w} : pc'[v] = pc[v]
    BY <1>3 DEF Goto, IInv, TypeOK
  <2>2. CountStep(pc, pc', w, "handshake")  BY <2>1, CountFollows
  <2>3. /\ handshakes' = CountAt(pc', "handshake") /\ handshakes' \in Nat
        /\ handshakes' <= handshakes
    BY <1>1, <1>3, <2>1, <2>2, Counted DEF FreeSlot, IInv, TypeOK, CountStep
  <2>4. SlotsAreHeld'
    <3>1. handshakes <= HandshakeSlots /\ handshakes \in Nat /\ HandshakeSlots \in Nat
      BY UplinkAssumption DEF IInv, SlotsAreHeld, TypeOK
    <3> QED  BY <2>3, <3>1, Counted
  <2>5. TypeOK'
    BY <1>1, <1>3, <2>1, <2>3 DEF IInv, TypeOK, uplink, session, watch
  <2>6. RelaysAreHeld' /\ NothingHeldOutside'
    BY <1>3, <2>1 DEF IInv, RelaysAreHeld, NothingHeldOutside, Outside, session
  <2>7. MoveToSpend' /\ QuickNeedsAMove'
    BY <1>1, <2>1, MoveKept DEF IInv, Sampled
  <2> QED  BY <2>4, <2>5, <2>6, <2>7 DEF IInv
<1> QED  BY <1>2, <1>3 DEF HandshakeEnds

LEMMA SetupKeeps == ASSUME IInv, NEW w \in Workers, SetupStep(w) PROVE IInv'
<1>0. TypeOK  BY DEF IInv
<1>1. CASE LoopTop(w)
  <2>1. /\ pc[w] = "loop" /\ pc'[w] \in {"gone", "dial"} /\ pc' = [pc EXCEPT ![w] = pc'[w]]
        /\ \A v \in Workers \ {w} : pc'[v] = pc[v] /\ before'[v] = before[v]
        /\ pc'[w] = "dial" => before'[w] = route
    BY <1>0, <1>1 DEF LoopTop, Goto, SampleSource, TypeOK
  <2>2. before' \in [Workers -> Sources]
    BY <1>0, <1>1 DEF LoopTop, SampleSource, TypeOK, Sources
  <2>3. TypeOK'  BY <1>0, <1>1, <2>1, <2>2 DEF LoopTop, TypeOK, uplink, session, watch
  <2>4. UNCHANGED <<uplink, session, handshakes, quick>>  BY <1>1 DEF LoopTop
  <2> QED  BY <2>1, <2>3, <2>4, WorkerMoves DEF Outside, Sampled
<1>2. CASE Dial(w)  BY <1>2, DialKeeps
<1>3. CASE DialFails(w)
  <2> PICK kind \in {"other", "stale"} : Return(w, kind)  BY <1>3 DEF DialFails
  <2>1. pc[w] = "dial" /\ UNCHANGED <<stopped, uplink, before, watch, handshakes, rotation, quick>>
    BY <1>3 DEF DialFails
  <2> QED  BY <2>1, ReturnStep DEF Sampled
<1>4. CASE Allocated(w)
  <2>1. /\ pc[w] = "allocate" /\ pc'[w] \in {"queue", "config"} /\ pc' = [pc EXCEPT ![w] = pc'[w]]
        /\ \A v \in Workers \ {w} : pc'[v] = pc[v]
        /\ UNCHANGED <<stopped, uplink, before, session, watch, handshakes, rotation, quick>>
    BY <1>0, <1>4 DEF Allocated, Goto, TypeOK
  <2>2. TypeOK'  BY <1>0, <2>1 DEF TypeOK, uplink, session, watch
  <2> QED  BY <2>1, <2>2, WorkerMoves DEF Outside, Sampled
<1>5. CASE SetupFails(w)
  <2>1. /\ pc[w] \in {"queue", "allocate", "config"}
        /\ UNCHANGED <<stopped, uplink, before, watch, handshakes, rotation, quick>>
    BY <1>5 DEF SetupFails
  <2> PICK kind \in {"none", "other", "stale", "fatal"} : Return(w, kind)
    BY <1>5 DEF SetupFails
  <2> QED  BY <2>1, ReturnStep DEF Sampled
<1>6. CASE Handshake(w)  BY <1>6, HandshakeKeeps
<1>7. CASE HandshakeEnds(w)  BY <1>7, HandshakeEndsKeeps
<1>8. CASE Ready(w)
  <2>1. /\ pc[w] = "config" /\ pc'[w] = "up" /\ pc' = [pc EXCEPT ![w] = "up"]
        /\ \A v \in Workers \ {w} : pc'[v] = pc[v]
        /\ watcher' = [watcher EXCEPT ![w] = "start"]
        /\ UNCHANGED <<stopped, uplink, before, session, start, handshakes, rotation, quick>>
    BY <1>0, <1>8 DEF Ready, Goto, TypeOK
  <2>2. TypeOK'  BY <1>0, <2>1 DEF TypeOK, uplink, session
  <2> QED  BY <2>1, <2>2, WorkerMoves DEF Outside, Sampled
<1> QED  BY <1>1, <1>2, <1>3, <1>4, <1>5, <1>6, <1>7, <1>8 DEF SetupStep

LEMMA SessionEndsKeeps == ASSUME IInv, NEW w \in Workers, SessionEnds(w) PROVE IInv'
<1> PICK kind \in {"none", "stale"} : Return(w, kind)  BY DEF SessionEnds
<1>1. /\ pc[w] \in {"up", "closing"}
      /\ UNCHANGED <<stopped, uplink, before, watch, handshakes, rotation, quick>>
  BY DEF SessionEnds
<1> QED  BY <1>1, ReturnStep DEF Sampled

(* The watch of a worker: it touches the worker by cancelling its session. *)
LEMMA CancelKeeps ==
  ASSUME IInv, NEW w \in Workers, StopWatch(w), CancelSession(w), rotation' \in BOOLEAN,
         UNCHANGED <<stopped, uplink, before, session, handshakes, quick>>
  PROVE  IInv'
<1>1. /\ pc'[w] = (IF pc[w] = "up" THEN "closing" ELSE pc[w]) /\ pc' = [pc EXCEPT ![w] = pc'[w]]
      /\ \A v \in Workers \ {w} : pc'[v] = pc[v]
  BY DEF CancelSession, Goto, IInv, TypeOK
<1>2. TypeOK'
  <2>1. watcher' \in [Workers -> {"off", "start", "look", "gate"}] /\ start' \in [Workers -> Sources]
    BY DEF StopWatch, IInv, TypeOK, Sources
  <2>2. pc' = pc \/ pc' = [pc EXCEPT ![w] = "closing"]  BY DEF CancelSession, Goto, IInv, TypeOK
  <2> QED  BY <2>1, <2>2 DEF IInv, TypeOK, uplink, session
<1> QED  BY <1>1, <1>2, WorkerMoves DEF Outside, Sampled

LEMMA WatchKeeps == ASSUME IInv, NEW w \in Workers, WatchStep(w) PROVE IInv'
<1>0. TypeOK  BY DEF IInv
<1>1. CASE WatchLost(w)
  <2>1. /\ StopWatch(w) /\ CancelSession(w) /\ rotation' \in BOOLEAN
        /\ UNCHANGED <<stopped, uplink, before, session, handshakes, quick>>
    BY <1>0, <1>1 DEF WatchLost, TypeOK
  <2> QED  BY <2>1, CancelKeeps
<1>2. CASE WatchRotates(w)
  <2>1. /\ StopWatch(w) /\ CancelSession(w) /\ rotation' \in BOOLEAN
        /\ UNCHANGED <<stopped, uplink, before, session, handshakes, quick>>
    BY <1>2 DEF WatchRotates
  <2> QED  BY <2>1, CancelKeeps
<1>3. CASE WatchStarts(w) \/ WatchChanged(w) \/ WatchEnds(w)
  <2>1. UNCHANGED <<stopped, uplink, pc, before, session, handshakes, rotation, quick>>
    BY <1>3 DEF WatchStarts, WatchChanged, WatchEnds
  <2>2. watcher' \in [Workers -> {"off", "start", "look", "gate"}] /\ start' \in [Workers -> Sources]
    <3>1. route \in Sources  BY <1>0 DEF TypeOK, Sources
    <3> QED  BY <1>0, <1>3, <3>1 DEF WatchStarts, WatchChanged, WatchEnds, StopWatch, TypeOK, Sources
  <2>3. TypeOK'  BY <1>0, <2>1, <2>2 DEF TypeOK, uplink, session
  <2> QED  BY <2>1, <2>3, WorkerMoves DEF Outside, Sampled
<1> QED  BY <1>1, <1>2, <1>3 DEF WatchStep

(* A worker whose address was of no use: it spends the move it saw.        *)
LEMMA StaleKeeps == ASSUME IInv, NEW w \in Workers, StaleStep(w) PROVE IInv'
<1>0. TypeOK  BY DEF IInv
<1>1. CASE Settled(w) \/ PauseEnds(w) \/ GiveUp(w)
  <2>1. /\ pc[w] \in {"settle", "still", "moved", "pause"}
        /\ pc'[w] \in {"still", "moved", "loop", "gone"} /\ pc' = [pc EXCEPT ![w] = pc'[w]]
        /\ \A v \in Workers \ {w} : pc'[v] = pc[v]
        /\ pc'[w] = "moved" => pc[w] = "settle" /\ route \notin {NoAddress, before[w]}
        /\ UNCHANGED <<stopped, uplink, before, session, watch, handshakes, rotation, quick>>
    BY <1>0, <1>1 DEF Settled, PauseEnds, GiveUp, Goto, TypeOK
  <2>2. TypeOK'  BY <1>0, <2>1 DEF TypeOK, uplink, session, watch
  <2> QED  BY <2>1, <2>2, WorkerMoves DEF Outside, Sampled
<1>2. CASE PassGate(w)
  <2>1. /\ pc[w] \in {"still", "moved"} /\ rotation' = TRUE
        /\ pc'[w] = (IF pc[w] = "still" THEN "pause" ELSE "loop") /\ pc' = [pc EXCEPT ![w] = pc'[w]]
        /\ \A v \in Workers \ {w} : pc'[v] = pc[v] /\ quick'[v] = quick[v]
        /\ quick'[w] = quick[w] + (IF pc[w] = "moved" THEN 1 ELSE 0)
        /\ quick' \in [Workers -> Nat]
        /\ UNCHANGED <<stopped, uplink, before, session, watch, handshakes>>
    BY <1>0, <1>2 DEF PassGate, Goto, TypeOK
  <2>2. TypeOK'  BY <1>0, <2>1 DEF TypeOK, uplink, session, watch
  <2>3. SlotsAreHeld'  BY <2>1, SlotsStay DEF IInv
  <2>4. RelaysAreHeld' /\ NothingHeldOutside'
    BY <2>1 DEF IInv, RelaysAreHeld, NothingHeldOutside, Outside, session
  <2>5. MoveToSpend'
    BY <2>1 DEF IInv, MoveToSpend, Sampled, uplink
  <2>6. QuickNeedsAMove'
    <3>1. moves \in Nat /\ quick[w] \in Nat /\ moves' = moves
      BY <1>0, <2>1 DEF TypeOK, uplink
    <3>2. quick'[w] <= moves  BY <2>1, <3>1 DEF IInv, MoveToSpend, QuickNeedsAMove
    <3> QED  BY <2>1, <3>1, <3>2 DEF IInv, QuickNeedsAMove
  <2> QED  BY <2>2, <2>3, <2>4, <2>5, <2>6 DEF IInv
<1> QED  BY <1>1, <1>2 DEF StaleStep

(* The uplink moves: every worker may spend what it brings.                *)
LEMMA MoveKeeps == ASSUME IInv, Move PROVE IInv'
<1>1. /\ moves \in 0 .. MaxMoves /\ moves < MaxMoves /\ moves' = moves + 1
      /\ local' \subseteq Addresses /\ route' \in local' \cup {NoAddress}
      /\ UNCHANGED <<stopped, pc, before, session, watch, handshakes, rotation, quick>>
  BY DEF Move, IInv, TypeOK
<1>2. moves' \in 0 .. MaxMoves  BY <1>1, UplinkAssumption
<1>3. TypeOK'  BY <1>1, <1>2 DEF IInv, TypeOK, session, watch
<1>4. \A w \in Workers : quick'[w] < moves' /\ quick'[w] <= moves'
  BY <1>1 DEF IInv, TypeOK, QuickNeedsAMove
<1>5. MoveToSpend' /\ QuickNeedsAMove'
  BY <1>4 DEF MoveToSpend, QuickNeedsAMove
<1>6. RelaysAreHeld' /\ NothingHeldOutside' /\ SlotsAreHeld'
  BY <1>1 DEF IInv, RelaysAreHeld, NothingHeldOutside, SlotsAreHeld, session
<1> QED  BY <1>3, <1>5, <1>6 DEF IInv

LEMMA NextIInv == IInv /\ [Next]_vars => IInv'
<1> SUFFICES ASSUME IInv, [Next]_vars PROVE IInv'  OBVIOUS
<1>1. CASE \E w \in Workers : SetupStep(w) \/ SessionEnds(w) \/ WatchStep(w) \/ StaleStep(w)
  BY <1>1, SetupKeeps, SessionEndsKeeps, WatchKeeps, StaleKeeps
<1>2. CASE Move  BY <1>2, MoveKeeps
<1>3. CASE FreeGate \/ Stop \/ UNCHANGED vars
  <2>1. /\ UNCHANGED <<uplink, pc, before, session, watch, handshakes, quick>>
        /\ stopped' \in BOOLEAN /\ rotation' \in BOOLEAN
    BY <1>3 DEF FreeGate, Stop, vars, IInv, TypeOK
  <2> QED
    BY <2>1 DEF IInv, TypeOK, NothingHeldOutside, MoveToSpend, RelaysAreHeld, SlotsAreHeld,
                QuickNeedsAMove, uplink, session, watch
<1> QED  BY <1>1, <1>2, <1>3 DEF Next

-----------------------------------------------------------------------------
(* What it gives.                                                          *)

(* The invariant holds in every state.                                     *)
THEOREM Inductive == Spec => []IInv
BY InitIInv, NextIInv, PTL DEF Spec

(* Every variable of the workers and of the uplink has its type.           *)
THEOREM TypeCorrect == Spec => []TypeOK
<1>1. IInv => TypeOK  BY DEF IInv
<1> QED  BY Inductive, <1>1, PTL

(* The relays listed are those sessions hold, each as often as it is held, *)
(* whichever way a session ended (netifd.go:478-506).                      *)
THEOREM RelaysListed == Spec => []RelaysAreHeld
<1>1. IInv => RelaysAreHeld  BY DEF IInv
<1> QED  BY Inductive, <1>1, PTL

(* Every way out of a handshake gives its slot back, and no more are taken *)
(* than handshakeSem has (session.go:455-494).                             *)
THEOREM SlotsReturned == Spec => []SlotsAreHeld
<1>1. IInv => SlotsAreHeld  BY DEF IInv
<1> QED  BY Inductive, <1>1, PTL

(* No worker reconnects without a pause more often than the uplink moved   *)
(* (group.go:243-270).                                                     *)
THEOREM NoStorm == Spec => []QuickNeedsAMove
<1>1. IInv => QuickNeedsAMove  BY DEF IInv
<1> QED  BY Inductive, <1>1, PTL

-----------------------------------------------------------------------------
(* What following the uplink rests on.                                     *)

(* A session is bound to an address from its dial to its end, and from its *)
(* readiness on its watch looks at that address, unless the client stops   *)
(* (session.go:207-248, uplink.go:103-141).                                *)
Bound == {"allocate", "queue", "handshake", "config", "up", "closing"}

SessionsAreWatched ==
  \A w \in Workers :
    /\ pc[w] \in Bound => bound[w] \in Addresses
    /\ pc[w] = "up" => watcher[w] # "off" \/ stopped

LEMMA ReturnUnbinds ==
  ASSUME TypeOK, NEW w \in Workers, NEW kind \in {"none", "stale", "fatal", "other"},
         Return(w, kind)
  PROVE  pc'[w] \notin Bound /\ \A v \in Workers \ {w} : pc'[v] = pc[v] /\ bound'[v] = bound[v]
  BY DEF Return, Goto, AfterSession, TypeOK, Bound

LEMMA WatchedStep ==
  ASSUME TypeOK, SessionsAreWatched, [Next]_vars
  PROVE  SessionsAreWatched'
<1>1. ASSUME NEW w \in Workers,
             \A v \in Workers \ {w} : pc'[v] = pc[v] /\ bound'[v] = bound[v] /\ watcher'[v] = watcher[v],
             stopped' = stopped,
             /\ pc'[w] \in Bound => bound'[w] \in Addresses
             /\ pc'[w] = "up" => watcher'[w] # "off" \/ stopped
      PROVE  SessionsAreWatched'
  <2>1. SUFFICES ASSUME NEW v \in Workers
                 PROVE  /\ pc'[v] \in Bound => bound'[v] \in Addresses
                        /\ pc'[v] = "up" => watcher'[v] # "off" \/ stopped'
    BY DEF SessionsAreWatched
  <2>2. CASE v = w
    BY <1>1, <2>2
  <2>3. CASE v # w
    BY <1>1, <2>3 DEF SessionsAreWatched
  <2>4. QED
    BY <2>2, <2>3
<1>2. ASSUME NEW w \in Workers, NEW kind \in {"none", "stale", "fatal", "other"}, Return(w, kind),
             UNCHANGED <<stopped, watch>>
      PROVE  SessionsAreWatched'
  <2>1. pc'[w] \notin Bound /\ \A v \in Workers \ {w} : pc'[v] = pc[v] /\ bound'[v] = bound[v]
    BY <1>2, ReturnUnbinds
  <2>2. QED
    BY <1>1, <1>2, <2>1 DEF Bound, watch
<1>3. ASSUME NEW w \in Workers, SetupStep(w)
      PROVE  SessionsAreWatched'
  <2>1. CASE Dial(w)
    <3>1. bound'[w] \in Addresses
      BY <2>1 DEF Dial, TypeOK
    <3>2. QED
      BY <1>1, <2>1, <3>1 DEF Dial, Goto, TypeOK, watch
  <2>2. CASE LoopTop(w)
    BY <1>1, <2>2 DEF LoopTop, Goto, TypeOK, session, watch, Bound
  <2>3. CASE Allocated(w) \/ Handshake(w) \/ (HandshakeEnds(w) /\ UNCHANGED session)
    BY <1>1, <2>3 DEF Allocated, Handshake, HandshakeEnds, Return, Goto, TypeOK, session, watch,
       Bound, SessionsAreWatched, AfterSession
  <2>4. CASE Ready(w)
    BY <1>1, <2>4 DEF Ready, Goto, TypeOK, session, Bound, SessionsAreWatched
  <2>5. CASE DialFails(w) \/ SetupFails(w) \/ (HandshakeEnds(w) /\ Return(w, "other"))
    BY <1>2, <2>5 DEF DialFails, SetupFails, HandshakeEnds
  <2>6. QED
    BY <1>3, <2>1, <2>2, <2>3, <2>4, <2>5 DEF SetupStep, HandshakeEnds
<1>4. ASSUME NEW w \in Workers, SessionEnds(w)
      PROVE  SessionsAreWatched'
  BY <1>2, <1>4 DEF SessionEnds
<1>5. ASSUME NEW w \in Workers, WatchStep(w)
      PROVE  SessionsAreWatched'
  <2>1. CASE WatchStarts(w) \/ WatchChanged(w)
    BY <1>1, <2>1 DEF WatchStarts, WatchChanged, TypeOK, session, SessionsAreWatched
  <2>2. CASE WatchLost(w) \/ WatchRotates(w)
    BY <1>1, <2>2 DEF WatchLost, WatchRotates, StopWatch, CancelSession, Goto, TypeOK, session,
       SessionsAreWatched, Bound
  <2>3. CASE WatchEnds(w)
    BY <1>1, <2>3 DEF WatchEnds, StopWatch, TypeOK, session, SessionsAreWatched
  <2>4. QED
    BY <1>5, <2>1, <2>2, <2>3 DEF WatchStep
<1>6. ASSUME NEW w \in Workers, StaleStep(w)
      PROVE  SessionsAreWatched'
  BY <1>1, <1>6 DEF StaleStep, Settled, PassGate, PauseEnds, GiveUp, Goto, TypeOK, session, watch,
     Bound
<1>7. CASE FreeGate \/ Move \/ Stop \/ UNCHANGED vars
  BY <1>7 DEF FreeGate, Move, Stop, vars, session, watch, SessionsAreWatched
<1>8. QED
  BY <1>3, <1>4, <1>5, <1>6, <1>7 DEF Next

(* No session goes on with nobody to notice that its address is gone: the  *)
(* watch leaves only a session it has cancelled, one that is over, or a    *)
(* client that stops (uplink.go:103-141).                                  *)
THEOREM EverySessionIsWatched == Spec => []SessionsAreWatched
<1>1. Init => SessionsAreWatched
  BY DEF Init, SessionsAreWatched, Bound
<1>2. IInv /\ SessionsAreWatched /\ [Next]_vars => SessionsAreWatched'
  BY WatchedStep DEF IInv
<1>3. QED
  BY <1>1, <1>2, Inductive, PTL DEF Spec
=============================================================================
