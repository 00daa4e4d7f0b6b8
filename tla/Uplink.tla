------------------------------- MODULE Uplink -------------------------------
(***************************************************************************)
(* The workers of a group and the router's uplink under them: how a        *)
(* session is set up (client/session.go 207-520) from the address the      *)
(* kernel prefers, how that address is watched and followed                *)
(* (client/uplink.go), how many handshakes and relays are held meanwhile,  *)
(* and what a worker does when its local address is of no use any more     *)
(* (client/group.go 220-271).                                              *)
(*                                                                         *)
(* An address is what net.Dial picks for the peer; the TURN relay is taken *)
(* to be reached the same way.  Delays are states a process leaves when it *)
(* likes.                                                                  *)
(***************************************************************************)
EXTENDS Naturals, FiniteSets

CONSTANTS
  Workers,         \* workers of one group
  Addresses,       \* addresses the router may have
  NoAddress,       \* no route: currentSource returns ""
  Relays,          \* TURN addresses in the credentials
  HandshakeSlots,  \* capacity of handshakeSem
  MaxMoves         \* bound on the changes of the uplink (model only)

ASSUME UplinkAssumption ==
  /\ IsFiniteSet(Workers) /\ NoAddress \notin Addresses
  /\ HandshakeSlots \in Nat \ {0}
  /\ MaxMoves \in Nat

Sources == Addresses \cup {NoAddress}
NoRelay == "none"

ASSUME RelaysAssumption == NoRelay \notin Relays

VARIABLES
  stopped,     \* ctx is cancelled
  route,       \* the source the kernel prefers
  local,       \* addresses assigned to an interface
  moves,       \* changes of the uplink so far
  pc,          \* [Workers -> where the worker is]
  before,      \* [Workers -> srcBefore]
  bound,       \* [Workers -> the address the session's socket is bound to]
  relay,       \* [Workers -> the relay its session has reported, or NoRelay]
  watcher,     \* [Workers -> watchSessionPath: "off", "start", "look", "gate"]
  start,       \* [Workers -> startSrc]
  handshakes,  \* tokens in handshakeSem
  rotation,    \* rotationGate is taken
  listed,      \* netifdRelaySlots: [Relays -> sessions]
  quick        \* [Workers -> reconnects made without a pause] (history)

uplink == <<route, local, moves>>
session == <<bound, relay, listed>>
watch == <<watcher, start>>
vars == <<stopped, uplink, pc, before, session, watch, handshakes, rotation, quick>>

Goto(w, place) == pc' = [pc EXCEPT ![w] = place]

-----------------------------------------------------------------------------
(* The uplink.                                                             *)

(* A failover, a new lease or an interface gone: the preferred source      *)
(* changes, and an address may go or come.                                 *)
Move ==
  /\ moves < MaxMoves
  /\ moves' = moves + 1
  /\ local' \in SUBSET Addresses
  /\ route' \in local' \cup {NoAddress}
  /\ <<route', local'>> # <<route, local>>
  /\ UNCHANGED <<stopped, pc, before, session, watch, handshakes, rotation, quick>>

-----------------------------------------------------------------------------
(* A session set up.                                                       *)

KeepSource(w) == before' = [before EXCEPT ![w] = IF @ = NoAddress THEN route ELSE @]

SampleSource(w) == before' = [before EXCEPT ![w] = route]

(* The watch of the session before has returned long ago: its context was  *)
(* done and the pause is seconds.                                          *)
LoopTop(w) ==
  /\ pc[w] = "loop" /\ watcher[w] = "off"
  /\ \/ stopped /\ Goto(w, "gone") /\ UNCHANGED before
     \/ ~stopped /\ Goto(w, "dial") /\ SampleSource(w)
  /\ UNCHANGED <<stopped, uplink, session, watch, handshakes, rotation, quick>>

AddSlot(addr) == listed' = [listed EXCEPT ![addr] = @ + 1]

Dial(w) ==
  /\ pc[w] = "dial" /\ route # NoAddress
  /\ bound' = [bound EXCEPT ![w] = route]
  /\ \E addr \in Relays : relay' = [relay EXCEPT ![w] = addr] /\ AddSlot(addr)
  /\ Goto(w, "allocate")
  /\ UNCHANGED <<stopped, uplink, before, watch, handshakes, rotation, quick>>

(* What the group does about the error: a stale binding is looked into, a  *)
(* fatal one ends the worker, any other and none are waited out.           *)
AfterSession(kind) ==
  CASE kind = "stale" -> "settle" [] kind = "fatal" -> "gone" [] OTHER -> "pause"

ReturnListed(w, kind) ==
  /\ Goto(w, AfterSession(kind))
  /\ bound' = [bound EXCEPT ![w] = NoAddress]
  /\ relay' = [relay EXCEPT ![w] = NoRelay]
  /\ IF kind = "none" /\ relay[w] # NoRelay THEN listed' = [listed EXCEPT ![relay[w]] = @ - 1]
     ELSE UNCHANGED listed

(* RunSession returns, and what it deferred is run.                        *)
Return(w, kind) ==
  /\ Goto(w, AfterSession(kind))
  /\ bound' = [bound EXCEPT ![w] = NoAddress]
  /\ relay' = [relay EXCEPT ![w] = NoRelay]
  /\ IF relay[w] # NoRelay THEN listed' = [listed EXCEPT ![relay[w]] = @ - 1]
     ELSE UNCHANGED listed

DialFails(w) ==
  /\ pc[w] = "dial"
  /\ \E kind \in {"other", "stale"} : Return(w, kind)
  /\ UNCHANGED <<stopped, uplink, before, watch, handshakes, rotation, quick>>

(* Allocate comes after a tick of allocateGate.  Direct mode has no        *)
(* handshake.                                                              *)
Allocated(w) ==
  /\ pc[w] = "allocate"
  /\ Goto(w, "queue") \/ Goto(w, "config")
  /\ UNCHANGED <<stopped, uplink, before, session, watch, handshakes, rotation, quick>>

(* Also a cancelled wait for a tick, or for a handshake.                   *)
SetupFails(w) ==
  /\ \/ pc[w] = "queue" /\ Return(w, "other")       \* cancelled by ctx or by a relay pump
     \/ pc[w] = "allocate" /\ \E kind \in {"other", "stale"} : Return(w, kind)
     \/ pc[w] = "config" /\ \E kind \in {"other", "stale", "fatal"} : Return(w, kind)
  /\ UNCHANGED <<stopped, uplink, before, watch, handshakes, rotation, quick>>

Handshake(w) ==
  /\ pc[w] = "queue" /\ handshakes < HandshakeSlots
  /\ handshakes' = handshakes + 1
  /\ Goto(w, "handshake")
  /\ UNCHANGED <<stopped, uplink, before, session, watch, rotation, quick>>

KeepSlotOnError(ok) == handshakes' = IF ok THEN handshakes - 1 ELSE handshakes

(* Before the error is looked at.                                          *)
FreeSlot(ok) == handshakes' = handshakes - 1

HandshakeEnds(w) ==
  /\ pc[w] = "handshake"
  /\ \/ FreeSlot(TRUE) /\ Goto(w, "config") /\ UNCHANGED session
     \/ FreeSlot(FALSE) /\ Return(w, "other")
  /\ UNCHANGED <<stopped, uplink, before, watch, rotation, quick>>

Ready(w) ==
  /\ pc[w] = "config"
  /\ Goto(w, "up")
  /\ watcher' = [watcher EXCEPT ![w] = "start"]
  /\ UNCHANGED <<stopped, uplink, before, session, start, handshakes, rotation, quick>>

(* By itself, or because it was cancelled.                                 *)
SessionEnds(w) ==
  /\ pc[w] \in {"up", "closing"}
  /\ \E kind \in {"none", "stale"} : Return(w, kind)
  /\ UNCHANGED <<stopped, uplink, before, watch, handshakes, rotation, quick>>

-----------------------------------------------------------------------------
(* The watch of a session's path.                                          *)

StopWatch(w) ==
  /\ watcher' = [watcher EXCEPT ![w] = "off"]
  /\ start' = [start EXCEPT ![w] = NoAddress]
CancelSession(w) == Goto(w, IF pc[w] = "up" THEN "closing" ELSE pc[w])

(* Selects at random when both a tick or the gate and the end are there:   *)
(* it may look once more, or take the gate, for a session already over.    *)
WatchStarts(w) ==
  /\ watcher[w] = "start"
  /\ start' = [start EXCEPT ![w] = route]
  /\ watcher' = [watcher EXCEPT ![w] = "look"]
  /\ UNCHANGED <<stopped, uplink, pc, before, session, handshakes, rotation, quick>>

AddressGoneByRoute(w) == bound[w] # NoAddress /\ route = NoAddress

AddressGone(w) == bound[w] # NoAddress /\ bound[w] \notin local

(* No gate: there is no working allocation left to protect.                *)
WatchLost(w) ==
  /\ watcher[w] = "look" /\ AddressGone(w)
  /\ StopWatch(w) /\ CancelSession(w)
  /\ UNCHANGED <<stopped, uplink, before, session, handshakes, rotation, quick>>

SourceChanged(w) == route # NoAddress /\ start[w] # NoAddress /\ route # start[w]

WatchChanged(w) ==
  /\ watcher[w] = "look" /\ ~AddressGone(w) /\ SourceChanged(w)
  /\ watcher' = [watcher EXCEPT ![w] = "gate"]
  /\ UNCHANGED <<stopped, uplink, pc, before, session, start, handshakes, rotation, quick>>

WatchRotates(w) ==
  /\ watcher[w] = "gate" /\ ~rotation
  /\ rotation' = TRUE
  /\ StopWatch(w) /\ CancelSession(w)
  /\ UNCHANGED <<stopped, uplink, before, session, handshakes, quick>>

WatchEnds(w) ==
  /\ watcher[w] \in {"look", "gate"}
  /\ pc[w] # "up" \/ stopped
  /\ StopWatch(w)
  /\ UNCHANGED <<stopped, uplink, pc, before, session, handshakes, rotation, quick>>

(* time.AfterFunc, two seconds after the gate was taken, whatever became   *)
(* of the one who took it.                                                 *)
FreeGate ==
  /\ rotation /\ rotation' = FALSE
  /\ UNCHANGED <<stopped, uplink, pc, before, session, watch, handshakes, quick>>

-----------------------------------------------------------------------------
(* A worker whose local address was of no use.                             *)

(* waitUplinkSettled gives up after a minute, settled or not.              *)
Settled(w) ==
  /\ pc[w] = "settle"
  /\ Goto(w, IF route \in {NoAddress, before[w]} THEN "still" ELSE "moved")
  /\ UNCHANGED <<stopped, uplink, before, session, watch, handshakes, rotation, quick>>

(* Every worker waits on the same address, and returns at the same time.   *)
PassGate(w) ==
  /\ pc[w] \in {"still", "moved"} /\ ~rotation
  /\ rotation' = TRUE
  /\ Goto(w, IF pc[w] = "still" THEN "pause" ELSE "loop")
  /\ quick' = [quick EXCEPT ![w] = @ + (IF pc[w] = "moved" THEN 1 ELSE 0)]
  /\ UNCHANGED <<stopped, uplink, before, session, watch, handshakes>>

PauseEnds(w) ==
  /\ pc[w] = "pause"
  /\ Goto(w, "loop")
  /\ UNCHANGED <<stopped, uplink, before, session, watch, handshakes, rotation, quick>>

GiveUp(w) ==
  /\ pc[w] \in {"still", "moved", "pause"} /\ stopped
  /\ Goto(w, "gone")
  /\ UNCHANGED <<stopped, uplink, before, session, watch, handshakes, rotation, quick>>

Stop ==
  /\ ~stopped /\ stopped' = TRUE
  /\ UNCHANGED <<uplink, pc, before, session, watch, handshakes, rotation, quick>>

-----------------------------------------------------------------------------
Init ==
  /\ stopped = FALSE
  /\ local \in SUBSET Addresses /\ route \in local \cup {NoAddress} /\ moves = 0
  /\ pc = [w \in Workers |-> "loop"]
  /\ before = [w \in Workers |-> NoAddress]
  /\ bound = [w \in Workers |-> NoAddress] /\ relay = [w \in Workers |-> NoRelay]
  /\ watcher = [w \in Workers |-> "off"] /\ start = [w \in Workers |-> NoAddress]
  /\ handshakes = 0 /\ rotation = FALSE
  /\ listed = [addr \in Relays |-> 0]
  /\ quick = [w \in Workers |-> 0]

SetupStep(w) ==
  \/ LoopTop(w) \/ Dial(w) \/ DialFails(w) \/ Allocated(w) \/ SetupFails(w)
  \/ Handshake(w) \/ HandshakeEnds(w) \/ Ready(w)

WatchStep(w) ==
  WatchStarts(w) \/ WatchLost(w) \/ WatchChanged(w) \/ WatchRotates(w) \/ WatchEnds(w)

StaleStep(w) == Settled(w) \/ PassGate(w) \/ PauseEnds(w) \/ GiveUp(w)

Next ==
  \/ \E w \in Workers : SetupStep(w) \/ SessionEnds(w) \/ WatchStep(w) \/ StaleStep(w)
  \/ FreeGate \/ Move \/ Stop

Spec == Init /\ [][Next]_vars

(* Goroutines go on until they wait; those that wait at a channel wait in  *)
(* line; a session ends when it is cancelled, and else when it likes.      *)
WorkerStep(w) ==
  SetupStep(w) \/ StaleStep(w) \/ ((stopped \/ pc[w] = "closing") /\ SessionEnds(w))

FairSpec ==
  /\ Spec
  /\ WF_vars(FreeGate)
  /\ \A w \in Workers :
       /\ WF_vars(WorkerStep(w)) /\ WF_vars(WatchStep(w)) /\ SF_vars(WatchRotates(w))

-----------------------------------------------------------------------------
(* Properties.                                                             *)

(* Every variable has its type.                                            *)
TypeOK ==
  /\ stopped \in BOOLEAN /\ rotation \in BOOLEAN
  /\ local \subseteq Addresses /\ route \in local \cup {NoAddress} /\ moves \in 0 .. MaxMoves
  /\ pc \in [Workers -> {"loop", "dial", "allocate", "queue", "handshake", "config", "up",
                         "closing", "settle", "still", "moved", "pause", "gone"}]
  /\ before \in [Workers -> Sources]
  /\ bound \in [Workers -> Sources] /\ start \in [Workers -> Sources]
  /\ relay \in [Workers -> Relays \cup {NoRelay}]
  /\ watcher \in [Workers -> {"off", "start", "look", "gate"}]
  /\ handshakes \in Nat /\ listed \in [Relays -> Nat] /\ quick \in [Workers -> Nat]

(* The relays the status page lists are those a session holds, each for as *)
(* many sessions as hold it (session.go:248-249, netifd.go:478-506): also  *)
(* when a session ends before it was one.                                  *)
RelaysAreHeld ==
  \A addr \in Relays : listed[addr] = Cardinality({w \in Workers : relay[w] = addr})

(* A reconnect without a pause is paid for by a move of the uplink: a      *)
(* firewall that refuses every packet makes no worker allocate again and   *)
(* again (group.go:226-228, 243-270), whatever moved between the two looks *)
(* at the address.                                                         *)
QuickNeedsAMove == \A w \in Workers : quick[w] <= moves

(* handshakeSem is held by those in a handshake and by nobody else: every  *)
(* way out of one gives it back (session.go:455-494).                      *)
SlotsAreHeld ==
  /\ handshakes = Cardinality({w \in Workers : pc[w] = "handshake"})
  /\ handshakes <= HandshakeSlots

(* A session whose address is gone, or is not the preferred one any more,  *)
(* does not stay (uplink.go:103-141): provided the watch's first look at   *)
(* the preferred address found the one the session is bound to.            *)
OffPath(w) == bound[w] \notin local \/ (start[w] = bound[w] /\ bound[w] # route)

PathIsFollowed ==
  \A w \in Workers :
    watcher[w] = "look" /\ pc[w] = "up" /\ route # NoAddress /\ OffPath(w) /\ moves = MaxMoves
      ~> pc[w] # "up"
=============================================================================
