------------------------------ MODULE Session ------------------------------
(***************************************************************************)
(* One established session of RunSession (client/session.go 327-784): the  *)
(* goroutines it starts, the deadlines they set on one another's           *)
(* connection, and how they all come to an end.                            *)
(*                                                                         *)
(* A deadline is far (30 minutes), near (seconds) or past.  Packets are    *)
(* counted in the slot's queue and otherwise not represented.              *)
(***************************************************************************)
EXTENDS Naturals

CONSTANT
  QueueCap   \* capacity of the slot's channels, taken together

ASSUME SessionAssumption == QueueCap \in Nat \ {0}

VARIABLES
  dtls,          \* classic mode: DTLS over two relay pumps; else the relay itself
  rawMode,       \* DISCONNECT_RAW is sent when the client stops
  ctx,           \* the client is being stopped
  sess,          \* sessCtx is done
  reader,        \* "arm" (SetReadDeadline), "read", "push", "gone"
  writer,        \* "pick", "pace" (the limiter), "arm", "write", "drain", "gone"
  keeper,        \* the keepalive goroutine runs
  binder,        \* the TURN binding goroutine runs
  pumps,         \* the relay pumps that run
  watcher,       \* watchSessionPath runs
  goodbye,       \* the DISCONNECT_RAW goroutine: "wait", "write", "sent", "none"
  readDeadline,  \* of activeConn
  writeDeadline, \* of activeConn
  connWoken,     \* the AfterFunc on activeConn has run
  pipesWoken,    \* the AfterFunc on the relay and pipeA has run
  queue,         \* packets in the slot's channels
  stale,         \* stalePathErr is set
  phase          \* RunSession: "proxy", "relay", "turn" (its three waits), "returned"

goroutines == <<reader, writer, keeper, binder, pumps, watcher, goodbye>>
deadlines == <<readDeadline, writeDeadline, connWoken, pipesWoken>>
kind == <<dtls, rawMode>>
vars == <<kind, ctx, sess, goroutines, deadlines, queue, stale, phase>>

Pumps == {"up", "down"}
Running == phase # "returned"

-----------------------------------------------------------------------------
(* The Reader.                                                             *)

(* The deadline is moved half an hour ahead before every read, also when   *)
(* the AfterFunc has just set it to now.                                   *)
ReaderArms ==
  /\ reader = "arm"
  /\ readDeadline' = "far"
  /\ reader' = "read"
  /\ UNCHANGED <<kind, ctx, sess, writer, keeper, binder, pumps, watcher, goodbye, writeDeadline,
                 connWoken, pipesWoken, queue, stale, phase>>

(* Packets come through the upward pump, where there is one.               *)
ReaderReads ==
  /\ reader = "read"
  /\ dtls => "up" \in pumps
  /\ reader' = "push"
  /\ UNCHANGED <<kind, ctx, sess, writer, keeper, binder, pumps, watcher, goodbye, deadlines, queue,
                 stale, phase>>

(* To ReturnCh, or dropped; sessCtx is looked at only on the way.          *)
ReaderPushes ==
  /\ reader = "push"
  /\ \/ reader' = "arm"
     \/ sess /\ reader' = "gone"
  /\ UNCHANGED <<kind, ctx, sess, writer, keeper, binder, pumps, watcher, goodbye, deadlines, queue,
                 stale, phase>>

ReaderAfterTimeoutGoesOn == "arm"

(* A timeout ends a cancelled session, and a quiet one is read again.      *)
ReaderAfterTimeout == IF sess THEN "gone" ELSE "arm"

(* At once if the deadline is past, and else after the half hour.          *)
ReaderTimesOut ==
  /\ reader = "read"
  /\ reader' = ReaderAfterTimeout
  /\ UNCHANGED <<kind, ctx, sess, writer, keeper, binder, pumps, watcher, goodbye, deadlines, queue, stale,
                 phase>>

ReaderFails ==
  /\ reader = "read"
  /\ reader' = "gone"
  /\ sess' = TRUE
  /\ stale' \in {stale, stale \/ ~sess}
  /\ UNCHANGED <<kind, ctx, writer, keeper, binder, pumps, watcher, goodbye, deadlines, queue, phase>>

-----------------------------------------------------------------------------
(* The Writer, and what fills its queue.                                   *)

WriterPicks ==
  /\ writer = "pick"
  /\ \/ queue > 0 /\ queue' = queue - 1 /\ writer' = "pace"
     \/ sess /\ writer' = "drain" /\ UNCHANGED queue
  /\ UNCHANGED <<kind, ctx, sess, reader, keeper, binder, pumps, watcher, goodbye, deadlines, stale,
                 phase>>

(* WaitN fails on a cancelled session; without a limiter nobody looks.     *)
WriterPaces ==
  /\ writer = "pace"
  /\ \/ writer' = "arm"
     \/ sess /\ writer' = "drain"
  /\ UNCHANGED <<kind, ctx, sess, reader, keeper, binder, pumps, watcher, goodbye, deadlines, queue,
                 stale, phase>>

WriterArms ==
  /\ writer = "arm"
  /\ writeDeadline' = "near"
  /\ writer' = "write"
  /\ UNCHANGED <<kind, ctx, sess, reader, keeper, binder, pumps, watcher, goodbye, readDeadline,
                 connWoken, pipesWoken, queue, stale, phase>>

(* A write past its deadline fails; one within it may.                     *)
WriterWrites ==
  /\ writer = "write"
  /\ \/ /\ writeDeadline # "past"
        /\ writer' = "pick"
        /\ UNCHANGED stale
     \/ /\ writer' = "drain"
        /\ stale' \in {stale, TRUE}
  /\ UNCHANGED <<kind, ctx, sess, reader, keeper, binder, pumps, watcher, goodbye, deadlines, queue,
                 phase>>

CancelNothing == UNCHANGED sess

(* What Reader, Writer and pumps defer.                                    *)
SessCancel == sess' = TRUE

WriterEnds ==
  /\ writer = "drain"
  /\ queue' = 0
  /\ SessCancel
  /\ writer' = "gone"
  /\ UNCHANGED <<kind, ctx, reader, keeper, binder, pumps, watcher, goodbye, deadlines, stale, phase>>

HasRoom == queue < QueueCap

(* The dispatcher as long as the slot is registered, and the keepalive.    *)
PacketQueued ==
  /\ Running
  /\ HasRoom
  /\ queue' = queue + 1
  /\ UNCHANGED <<kind, ctx, sess, goroutines, deadlines, stale, phase>>

KeeperEnds ==
  /\ keeper /\ sess
  /\ keeper' = FALSE
  /\ UNCHANGED <<kind, ctx, sess, reader, writer, binder, pumps, watcher, goodbye, deadlines, queue,
                 stale, phase>>

BinderEnds ==
  /\ binder /\ sess
  /\ binder' = FALSE
  /\ UNCHANGED <<kind, ctx, sess, reader, writer, keeper, pumps, watcher, goodbye, deadlines, queue,
                 stale, phase>>

(* A pump ends on any error, the deadline of the AfterFunc included.       *)
PumpEnds(p) ==
  /\ p \in pumps
  /\ pumps' = pumps \ {p}
  /\ SessCancel
  /\ UNCHANGED <<kind, ctx, reader, writer, keeper, binder, watcher, goodbye, deadlines, queue, stale,
                 phase>>

-----------------------------------------------------------------------------
(* What ends a session from outside.                                       *)

(* watchSessionPath: the address is gone, or the gate was acquired; it     *)
(* leaves with the session.                                                *)
WatcherCancels ==
  /\ watcher /\ ~sess
  /\ watcher' = FALSE
  /\ sess' = TRUE
  /\ UNCHANGED <<kind, ctx, reader, writer, keeper, binder, pumps, goodbye, deadlines, queue, stale,
                 phase>>

WatcherEnds ==
  /\ watcher /\ sess
  /\ watcher' = FALSE
  /\ UNCHANGED <<kind, ctx, sess, reader, writer, keeper, binder, pumps, goodbye, deadlines, queue,
                 stale, phase>>

Stop ==
  /\ ~ctx
  /\ ctx' = TRUE
  /\ sess' = TRUE
  /\ UNCHANGED <<kind, goroutines, deadlines, queue, stale, phase>>

(* The AfterFuncs on sessCtx; returning stops those that have not run.     *)
WakeConn ==
  /\ sess /\ ~connWoken /\ Running
  /\ connWoken' = TRUE
  /\ readDeadline' = "past" /\ writeDeadline' = "past"
  /\ UNCHANGED <<kind, ctx, sess, goroutines, pipesWoken, queue, stale, phase>>

WakePipes ==
  /\ dtls /\ sess /\ ~pipesWoken /\ Running
  /\ pipesWoken' = TRUE
  /\ UNCHANGED <<kind, ctx, sess, goroutines, readDeadline, writeDeadline, connWoken, queue, stale, phase>>

(* The DISCONNECT_RAW goroutine, which nobody waits for: both contexts are *)
(* done when the client stops, and either case may be taken.               *)
GoodbyeWakes ==
  /\ goodbye = "wait"
  /\ \/ ctx /\ goodbye' = "write" /\ writeDeadline' = "near"
     \/ sess /\ goodbye' = "none" /\ UNCHANGED writeDeadline
  /\ UNCHANGED <<kind, ctx, sess, reader, writer, keeper, binder, pumps, watcher, readDeadline,
                 connWoken, pipesWoken, queue, stale, phase>>

GoodbyeWrites ==
  /\ goodbye = "write"
  /\ goodbye' = IF Running /\ writeDeadline # "past" THEN "sent" ELSE "none"
  /\ UNCHANGED <<kind, ctx, sess, reader, writer, keeper, binder, pumps, watcher, deadlines, queue,
                 stale, phase>>

-----------------------------------------------------------------------------
(* RunSession's own goroutine: proxyWg, relayWg, sessionWg, and return.    *)

ProxyDoneButKeeper == reader = "gone" /\ writer = "gone"

ProxyDone == reader = "gone" /\ writer = "gone" /\ ~keeper

Wait ==
  /\ \/ phase = "proxy" /\ ProxyDone /\ phase' = "relay" /\ sess' = TRUE
     \/ phase = "relay" /\ pumps = {} /\ phase' = "turn" /\ UNCHANGED sess
     \/ phase = "turn" /\ ~binder /\ phase' = "returned" /\ UNCHANGED sess
  /\ UNCHANGED <<kind, ctx, goroutines, deadlines, queue, stale>>

-----------------------------------------------------------------------------
Init ==
  /\ dtls \in BOOLEAN /\ rawMode \in BOOLEAN
  /\ ctx = FALSE /\ sess = FALSE
  /\ reader = "arm" /\ writer = "pick"
  /\ keeper = TRUE /\ binder = TRUE /\ watcher = TRUE
  /\ pumps = (IF dtls THEN Pumps ELSE {})
  /\ goodbye = (IF rawMode THEN "wait" ELSE "none")
  /\ readDeadline = "far" /\ writeDeadline = "far"
  /\ connWoken = FALSE /\ pipesWoken = FALSE
  /\ queue = 0 /\ stale = FALSE
  /\ phase = "proxy"

ReaderStep == ReaderArms \/ ReaderPushes \/ ReaderTimesOut
WriterStep == WriterPicks \/ WriterPaces \/ WriterArms \/ WriterWrites \/ WriterEnds
EndStep == KeeperEnds \/ BinderEnds \/ WatcherEnds
WakeStep == WakeConn \/ WakePipes
GoodbyeStep == GoodbyeWakes \/ GoodbyeWrites

Next ==
  \/ ReaderStep \/ ReaderReads \/ ReaderFails
  \/ WriterStep \/ PacketQueued
  \/ EndStep \/ \E p \in Pumps : PumpEnds(p)
  \/ WatcherCancels \/ Stop
  \/ WakeStep \/ GoodbyeStep
  \/ Wait

Spec == Init /\ [][Next]_vars

(* Goroutines go on; timeouts come; a pump whose pipe was woken ends; the  *)
(* Writer does not go on picking packets for ever when it may end.         *)
Fairness ==
  /\ WF_vars(ReaderStep) /\ SF_vars(ReaderTimesOut)
  /\ WF_vars(WriterStep) /\ SF_vars(sess /\ WriterPicks /\ writer' = "drain")
  /\ WF_vars(KeeperEnds) /\ WF_vars(BinderEnds) /\ WF_vars(WatcherEnds)
  /\ \A p \in Pumps : WF_vars(pipesWoken /\ PumpEnds(p))
  /\ WF_vars(WakeConn) /\ WF_vars(WakePipes) /\ WF_vars(GoodbyeStep)
  /\ WF_vars(Wait)

FairSpec == Spec /\ Fairness

-----------------------------------------------------------------------------
(* Properties.                                                             *)

(* Every variable has its type.                                            *)
TypeOK ==
  /\ dtls \in BOOLEAN /\ rawMode \in BOOLEAN
  /\ ctx \in BOOLEAN /\ sess \in BOOLEAN
  /\ reader \in {"arm", "read", "push", "gone"}
  /\ writer \in {"pick", "pace", "arm", "write", "drain", "gone"}
  /\ keeper \in BOOLEAN /\ binder \in BOOLEAN /\ watcher \in BOOLEAN
  /\ pumps \subseteq Pumps
  /\ goodbye \in {"wait", "write", "sent", "none"}
  /\ readDeadline \in {"far", "past"}
  /\ writeDeadline \in {"far", "near", "past"}
  /\ connWoken \in BOOLEAN /\ pipesWoken \in BOOLEAN
  /\ queue \in 0 .. QueueCap
  /\ stale \in BOOLEAN
  /\ phase \in {"proxy", "relay", "turn", "returned"}

(* A session that has returned has closed its connection and its slot; no  *)
(* goroutine that uses them is left (session.go:773-776).                  *)
NobodyOutlivesTheSession ==
  phase = "returned" =>
    reader = "gone" /\ writer = "gone" /\ ~keeper /\ ~binder /\ pumps = {}

(* No goroutine dies alone: with one that has gone the session is over     *)
(* (the deferred sessCancel of each, session.go:388, 424, 650, 722), and   *)
(* by CancelledReturns it returns.                                         *)
HalfDead ==
  \/ reader = "gone" \/ writer = "gone" \/ ~keeper \/ ~binder \/ ~watcher
  \/ dtls /\ pumps # Pumps

HalfDeadIsCancelled == ctx \/ HalfDead => sess

(* A cancelled session returns, if only after the read timeout.            *)
CancelledReturns == sess ~> phase = "returned"
=============================================================================
