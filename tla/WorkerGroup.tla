---------------------------- MODULE WorkerGroup ----------------------------
(***************************************************************************)
(* The worker groups of the client (client/group.go), the sessions they    *)
(* run as far as a group can tell them apart (client/session.go), and the  *)
(* part of main that starts the groups, consumes the configuration and     *)
(* waits for them (client/main.go).                                        *)
(*                                                                         *)
(* A group waits for its turn, fetches its TURN credentials, and runs its  *)
(* workers; a worker runs one session after another.  The first group's    *)
(* workers also ask the server for the configuration, one at a time.       *)
(*                                                                         *)
(* Credentials are version numbers: the relay stops accepting a version    *)
(* at some point, and a fetch returns the next.  Delays are states a       *)
(* process leaves when it likes: nothing here depends on their lengths.    *)
(***************************************************************************)
EXTENDS Integers, FiniteSets

CONSTANTS
  NumGroups,   \* the groups main starts
  Workers,     \* worker ids
  ConnModes,   \* of "rawtun", "vpn" and "socks", those the client may be started in
  GroupOf,     \* worker -> the group whose workerIDs hold it
  MaxVersion,  \* bound on the credential versions of a group (model only)
  Nobody       \* refreshMu is free

Groups == 1 .. NumGroups
Versions == 0 .. MaxVersion    \* 0: not fetched yet

ASSUME WorkerGroupAssumption ==
  /\ NumGroups \in Nat \ {0}
  /\ GroupOf \in [Workers -> Groups]
  /\ \A g \in Groups : \E w \in Workers : GroupOf[w] = g
  /\ ConnModes \subseteq {"rawtun", "vpn", "socks"}
  /\ MaxVersion \in Nat \ {0}
  /\ Nobody \notin Workers

VARIABLES
  connMode,   \* activeConnMode
  done,       \* ctx is cancelled
  paused,     \* pauseFlag
  told,       \* notifyNetifdError has reported a fatal error
  group,      \* [Groups -> where WorkerGroup is]
  baton,      \* [Groups -> signalReady is closed]
  creds,      \* [Groups -> the version of creds]
  expired,    \* [Groups -> the relay refuses versions up to this one]
  refreshMu,  \* [Groups -> the worker holding refreshMu]
  fresh,      \* [Groups -> lastCredRefresh is less than 15 s ago]
  inFlight,   \* configRequestInFlight of the first group
  configSent, \* configSent of the first group
  pc,         \* [Workers -> where the worker's goroutine is]
  asks,       \* [Workers -> getConf of the session it runs]
  delivered,  \* [Workers -> configDelivered of that session]
  snap,       \* [Workers -> the version in credsSnapshot]
  rotation,   \* rotationGate is taken
  configCh,   \* "empty" or "full"
  consumer,   \* the goroutine that reads configCh
  main        \* "waiting" (wg.Wait), "closed" (configCh closed), "exited"

groupVars == <<group, baton>>
credVars == <<creds, expired, refreshMu, fresh>>
configVars == <<inFlight, configSent, asks, delivered>>
mainVars == <<configCh, consumer, main>>
envVars == <<connMode, done, paused>>
vars == <<envVars, told, groupVars, credVars, configVars, pc, snap, rotation, mainVars>>

MyCreds(w) == creds[GroupOf[w]]
ShouldGetConfig(w) == GroupOf[w] = 1
Accepted(w) == snap[w] > expired[GroupOf[w]]
InSession == {w \in Workers : pc[w] \in {"connect", "config", "up"}}

-----------------------------------------------------------------------------
(* A group up to its workers.  waitReady is the previous group's baton.    *)

MyTurnUnasked(g) == TRUE

MyTurn(g) == IF g = 1 THEN TRUE ELSE baton[g - 1]

TakeTurnDeaf(g) ==
  /\ group[g] = "turn"
  /\ MyTurn(g)
  /\ group' = [group EXCEPT ![g] = "pause"]
  /\ UNCHANGED <<envVars, told, baton, credVars, configVars, pc, snap, rotation, mainVars>>

TakeTurn(g) ==
  /\ group[g] = "turn"
  /\ \/ MyTurn(g) /\ group' = [group EXCEPT ![g] = "pause"]
     \/ done /\ group' = [group EXCEPT ![g] = "ended"]
  /\ UNCHANGED <<envVars, told, baton, credVars, configVars, pc, snap, rotation, mainVars>>

(* Paused and cancelled: back before handOver is deferred.                 *)
LeavePause(g) ==
  /\ group[g] = "pause"
  /\ \/ ~paused /\ group' = [group EXCEPT ![g] = "fetch"]
     \/ paused /\ done /\ group' = [group EXCEPT ![g] = "ended"]
  /\ UNCHANGED <<envVars, told, baton, credVars, configVars, pc, snap, rotation, mainVars>>

(* The last group has no signalReady.                                      *)
HandOver(g) == baton' = [baton EXCEPT ![g] = @ \/ g < NumGroups]

ReturnKeepsBaton(g) ==
  /\ group' = [group EXCEPT ![g] = "ended"]
  /\ UNCHANGED baton

(* Every return after the pause runs the deferred handOver.                *)
Return(g) ==
  /\ group' = [group EXCEPT ![g] = "ended"]
  /\ HandOver(g)

Fetched(g) ==
  /\ group[g] = "fetch"
  /\ group' = [group EXCEPT ![g] = "run"]
  /\ creds' = [creds EXCEPT ![g] = 1]
  /\ UNCHANGED <<envVars, told, baton, expired, refreshMu, fresh, configVars, pc, snap,
                 rotation, mainVars>>

FetchFails(g) ==
  /\ group[g] = "fetch"
  /\ \/ done /\ Return(g) /\ UNCHANGED told
     \/ ~done /\ Return(g) /\ told' = TRUE      \* a dead call, a dead hash, FATAL_AUTH
     \/ ~done /\ group' = [group EXCEPT ![g] = "backoff"] /\ UNCHANGED <<baton, told>>
  /\ UNCHANGED <<envVars, credVars, configVars, pc, snap, rotation, mainVars>>

LeaveBackoff(g) ==
  /\ group[g] = "backoff"
  /\ \/ group' = [group EXCEPT ![g] = "fetch"] /\ UNCHANGED baton
     \/ done /\ Return(g)
  /\ UNCHANGED <<envVars, told, credVars, configVars, pc, snap, rotation, mainVars>>

(* The goroutine that hands over a second after the credentials arrived.   *)
HandOverLater(g) ==
  /\ group[g] = "run" /\ g < NumGroups /\ ~baton[g]
  /\ HandOver(g)
  /\ UNCHANGED <<envVars, told, group, credVars, configVars, pc, snap, rotation, mainVars>>

OneGone(g) == \E w \in Workers : GroupOf[w] = g /\ pc[w] = "gone"

AllGone(g) == \A w \in Workers : GroupOf[w] = g => pc[w] = "gone"

(* wg.Wait of the group.                                                   *)
GroupEnds(g) ==
  /\ group[g] = "run"
  /\ AllGone(g)
  /\ Return(g)
  /\ UNCHANGED <<envVars, told, credVars, configVars, pc, snap, rotation, mainVars>>

-----------------------------------------------------------------------------
(* A worker between sessions.                                              *)

Goto(w, where) == pc' = [pc EXCEPT ![w] = where]

(* The stagger before the first session.                                   *)
StartWorker(w) ==
  /\ pc[w] = "off" /\ group[GroupOf[w]] = "run"
  /\ \/ Goto(w, "loop")
     \/ done /\ Goto(w, "gone")
  /\ UNCHANGED <<envVars, told, groupVars, credVars, configVars, snap, rotation, mainVars>>

(* The top of the loop: ctx, then configSent; the swap is a step of its    *)
(* own, and the flag may have changed in between.                          *)
Loop(w) ==
  /\ pc[w] = "loop"
  /\ Goto(w, IF done THEN "gone"
             ELSE IF ShouldGetConfig(w) /\ ~configSent THEN "swap" ELSE "snapshot")
  /\ UNCHANGED <<envVars, told, groupVars, credVars, configVars, snap, rotation, mainVars>>

Swap(w) ==
  /\ pc[w] = "swap"
  /\ asks' = [asks EXCEPT ![w] = ~inFlight]
  /\ inFlight' = TRUE
  /\ Goto(w, "snapshot")
  /\ UNCHANGED <<envVars, told, groupVars, credVars, configSent, delivered, snap, rotation,
                 mainVars>>

Snapshot(w) ==
  /\ pc[w] = "snapshot"
  /\ snap' = [snap EXCEPT ![w] = MyCreds(w)]
  /\ Goto(w, "connect")
  /\ UNCHANGED <<envVars, told, groupVars, credVars, configVars, rotation, mainVars>>

-----------------------------------------------------------------------------
(* The end of RunSession, by the kind of error the group reads out of it.  *)

RefreshKinds == {"mismatch"}    \* the texts that set turnCredRefreshNeeded

AfterSession(kind) ==
  IF kind = "stale" THEN "settle"
  ELSE IF done THEN "gone"
  ELSE IF kind = "fatal" THEN "gone"
  ELSE IF kind \in RefreshKinds THEN "refresh"
  ELSE "retry"

RequestOverKeepsFlag(w) ==
  IF asks[w] /\ delivered[w] THEN configSent' = TRUE /\ UNCHANGED inFlight
  ELSE UNCHANGED <<configSent, inFlight>>

RequestOverAlwaysFree(w) ==
  IF ~asks[w] THEN UNCHANGED <<configSent, inFlight>>
  ELSE configSent' = (configSent \/ delivered[w]) /\ inFlight' = FALSE

RequestOver(w) ==
  IF ~asks[w] THEN UNCHANGED <<configSent, inFlight>>
  ELSE IF delivered[w] THEN configSent' = TRUE /\ UNCHANGED inFlight
  ELSE inFlight' = FALSE /\ UNCHANGED configSent

ReportNothing(kind) == UNCHANGED told

(* Only a fatal error is reported, and none once the client is stopping.   *)
Report(kind) == told' = (told \/ (kind = "fatal" /\ ~done))

EndSession(w, kind) ==
  /\ RequestOver(w)
  /\ asks' = [asks EXCEPT ![w] = FALSE]
  /\ delivered' = [delivered EXCEPT ![w] = FALSE]
  /\ Report(kind)
  /\ Goto(w, AfterSession(kind))

(* Dial, Allocate and the DTLS handshake.                                  *)
Connected(w) ==
  /\ pc[w] = "connect" /\ Accepted(w)
  /\ Goto(w, IF asks[w] THEN "config" ELSE "up")
  /\ UNCHANGED <<envVars, told, groupVars, credVars, configVars, snap, rotation, mainVars>>

(* "unauthorized" is the relay's 401 for a user or password it no longer   *)
(* takes; the group tells it from no other error.                          *)
ConnectFails(w, kind) ==
  /\ pc[w] = "connect"
  /\ kind \in {"stale", "quota", "mismatch", "unauthorized", "other"}
  /\ kind = "unauthorized" => ~Accepted(w)
  /\ EndSession(w, kind)
  /\ UNCHANGED <<envVars, groupVars, credVars, snap, rotation, mainVars>>

(* The send does not block: a full channel counts as delivered.            *)
ConfigAnswered(w) ==
  /\ pc[w] = "config"
  /\ configCh' = "full"
  /\ delivered' = [delivered EXCEPT ![w] = TRUE]
  /\ Goto(w, "up")
  /\ UNCHANGED <<envVars, told, groupVars, credVars, inFlight, configSent, asks, snap, rotation,
                 consumer, main>>

(* Silence, an error, or a server that has no configuration yet.  A raw    *)
(* session ends; a WireGuard one logs it and goes on.                      *)
ConfigUnanswered(w) ==
  /\ pc[w] = "config"
  /\ IF connMode = "rawtun" THEN EndSession(w, "other")
     ELSE Goto(w, "up") /\ UNCHANGED <<configVars, told>>
  /\ UNCHANGED <<envVars, groupVars, credVars, snap, rotation, mainVars>>

ConfigDenied(w) ==
  /\ pc[w] = "config"
  /\ EndSession(w, "fatal")
  /\ UNCHANGED <<envVars, groupVars, credVars, snap, rotation, mainVars>>

(* An established session ends cleanly or on a dead local address; a       *)
(* rotation (watchSessionPath) takes the gate before it ends one.          *)
SessionEnds(w, kind) ==
  /\ pc[w] = "up"
  /\ kind \in {"none", "stale"}
  /\ EndSession(w, kind)
  /\ UNCHANGED <<envVars, groupVars, credVars, snap, rotation, mainVars>>

SessionRotates(w) ==
  /\ pc[w] = "up" /\ ~rotation
  /\ rotation' = TRUE
  /\ EndSession(w, "none")
  /\ UNCHANGED <<envVars, groupVars, credVars, snap, mainVars>>

-----------------------------------------------------------------------------
(* What a worker does about a session that failed.                         *)

Settled(w) ==
  /\ pc[w] = "settle"
  /\ Goto(w, "gate")
  /\ UNCHANGED <<envVars, told, groupVars, credVars, configVars, snap, rotation, mainVars>>

(* acquireRotation, then reconnect at once if the source has moved.        *)
PassGate(w) ==
  /\ pc[w] = "gate"
  /\ \/ /\ ~rotation
        /\ rotation' = TRUE
        /\ Goto(w, "loop") \/ Goto(w, "retry")
     \/ done /\ Goto(w, "gone") /\ UNCHANGED rotation
  /\ UNCHANGED <<envVars, told, groupVars, credVars, configVars, snap, mainVars>>

(* The AfterFunc that gives the gate back.                                 *)
FreeGate ==
  /\ rotation
  /\ rotation' = FALSE
  /\ UNCHANGED <<envVars, told, groupVars, credVars, configVars, pc, snap, mainVars>>

LockRefreshUnlocked(w) ==
  /\ pc[w] = "refresh"
  /\ IF fresh[GroupOf[w]] THEN Goto(w, "retry") /\ UNCHANGED refreshMu
     ELSE Goto(w, "refetch") /\ refreshMu' = [refreshMu EXCEPT ![GroupOf[w]] = w]
  /\ UNCHANGED <<envVars, told, groupVars, creds, expired, fresh, configVars, snap, rotation,
                 mainVars>>

(* refreshCreds: nothing to do within 15 s of the last refresh.            *)
LockRefresh(w) ==
  /\ pc[w] = "refresh" /\ refreshMu[GroupOf[w]] = Nobody
  /\ IF fresh[GroupOf[w]] THEN Goto(w, "retry") /\ UNCHANGED refreshMu
     ELSE Goto(w, "refetch") /\ refreshMu' = [refreshMu EXCEPT ![GroupOf[w]] = w]
  /\ UNCHANGED <<envVars, told, groupVars, creds, expired, fresh, configVars, snap, rotation,
                 mainVars>>

(* The fetch under refreshMu, good or failed.                              *)
Refetched(w) ==
  /\ pc[w] = "refetch"
  /\ MyCreds(w) < MaxVersion
  /\ creds' = [creds EXCEPT ![GroupOf[w]] = @ + 1]
  /\ fresh' = [fresh EXCEPT ![GroupOf[w]] = TRUE]
  /\ refreshMu' = [refreshMu EXCEPT ![GroupOf[w]] = Nobody]
  /\ Goto(w, "retry")
  /\ UNCHANGED <<envVars, told, groupVars, expired, configVars, snap, rotation, mainVars>>

RefetchFails(w) ==
  /\ pc[w] = "refetch"
  /\ refreshMu' = [refreshMu EXCEPT ![GroupOf[w]] = Nobody]
  /\ Goto(w, "retry")
  /\ UNCHANGED <<envVars, told, groupVars, creds, expired, fresh, configVars, snap, rotation,
                 mainVars>>

(* 5 to 15 s, or 30 to 60.                                                 *)
Retry(w) ==
  /\ pc[w] = "retry"
  /\ \/ Goto(w, "loop")
     \/ done /\ Goto(w, "gone")
  /\ UNCHANGED <<envVars, told, groupVars, credVars, configVars, snap, rotation, mainVars>>

-----------------------------------------------------------------------------
(* main: the consumer of the configuration, and the end of the process.    *)

(* One configuration is read.  A malformed RAWCONF is logged and dropped;  *)
(* a device that cannot be made cancels; SOCKS serves until ctx is done.   *)
Consume ==
  /\ consumer = "waiting" /\ configCh = "full"
  /\ configCh' = "empty"
  /\ \/ connMode # "socks" /\ consumer' = "attached" /\ UNCHANGED done
     \/ connMode = "socks" /\ consumer' = "serving" /\ UNCHANGED done
     \/ connMode # "vpn" /\ consumer' = "dropped" /\ UNCHANGED done
     \/ connMode = "rawtun" /\ consumer' = "refused" /\ done' = TRUE
  /\ UNCHANGED <<connMode, paused, told, groupVars, credVars, configVars, pc, snap, rotation, main>>

ConsumerEnds ==
  /\ \/ consumer = "waiting" /\ (done \/ (main = "closed" /\ configCh = "empty"))
     \/ consumer = "serving" /\ done
  /\ consumer' = "ended"
  /\ UNCHANGED <<envVars, told, groupVars, credVars, configVars, pc, snap, rotation, configCh, main>>

ConsumerDone == consumer \in {"attached", "dropped", "refused", "ended"}

AnyEnded == \E g \in Groups : group[g] = "ended"

AllEnded == \A g \in Groups : group[g] = "ended"

(* wg.Wait returned: cancel, and close(configCh).                          *)
CloseConfig ==
  /\ main = "waiting" /\ AllEnded
  /\ done' = TRUE
  /\ main' = "closed"
  /\ UNCHANGED <<connMode, paused, told, groupVars, credVars, configVars, pc, snap, rotation, configCh, consumer>>

(* <-configDone, and main returns.                                         *)
Exit ==
  /\ main = "closed" /\ ConsumerDone
  /\ main' = "exited"
  /\ UNCHANGED <<envVars, told, groupVars, credVars, configVars, pc, snap, rotation, configCh, consumer>>

-----------------------------------------------------------------------------
(* A signal, STOP on stdin or the traffic watch cancels; PAUSE and RESUME  *)
(* come in on stdin; the relay drops a version; 15 s go by.                *)

Cancel ==
  /\ ~done
  /\ done' = TRUE
  /\ UNCHANGED <<connMode, paused, told, groupVars, credVars, configVars, pc, snap, rotation, mainVars>>

TogglePause ==
  /\ paused' = ~paused
  /\ UNCHANGED <<connMode, done, told, groupVars, credVars, configVars, pc, snap, rotation, mainVars>>

Expire(g) ==
  /\ expired[g] < creds[g] /\ creds[g] < MaxVersion
  /\ expired' = [expired EXCEPT ![g] = creds[g]]
  /\ UNCHANGED <<envVars, told, groupVars, creds, refreshMu, fresh, configVars, pc, snap, rotation, mainVars>>

Age(g) ==
  /\ fresh[g]
  /\ fresh' = [fresh EXCEPT ![g] = FALSE]
  /\ UNCHANGED <<envVars, told, groupVars, creds, expired, refreshMu, configVars, pc, snap, rotation, mainVars>>

-----------------------------------------------------------------------------
Init ==
  /\ connMode \in ConnModes
  /\ done = FALSE /\ paused = FALSE /\ told = FALSE
  /\ group = [g \in Groups |-> "turn"]
  /\ baton = [g \in Groups |-> FALSE]
  /\ creds = [g \in Groups |-> 0]
  /\ expired = [g \in Groups |-> 0]
  /\ refreshMu = [g \in Groups |-> Nobody]
  /\ fresh = [g \in Groups |-> FALSE]
  /\ inFlight = FALSE /\ configSent = FALSE
  /\ pc = [w \in Workers |-> "off"]
  /\ asks = [w \in Workers |-> FALSE]
  /\ delivered = [w \in Workers |-> FALSE]
  /\ snap = [w \in Workers |-> 0]
  /\ rotation = FALSE
  /\ configCh = "empty" /\ consumer = "waiting" /\ main = "waiting"

GroupStep(g) ==
  \/ TakeTurn(g) \/ LeavePause(g) \/ Fetched(g) \/ FetchFails(g) \/ LeaveBackoff(g)
  \/ HandOverLater(g) \/ GroupEnds(g)

ErrorKinds == {"none", "stale", "quota", "mismatch", "unauthorized", "other"}

ConnectStep(w) == Connected(w) \/ \E kind \in ErrorKinds : ConnectFails(w, kind)
ConfigStep(w) == ConfigAnswered(w) \/ ConfigUnanswered(w) \/ ConfigDenied(w)
EndStep(w) == SessionRotates(w) \/ \E kind \in ErrorKinds : SessionEnds(w, kind)
LocalStep(w) ==
  \/ StartWorker(w) \/ Loop(w) \/ Swap(w) \/ Snapshot(w) \/ Settled(w) \/ PassGate(w)
  \/ LockRefresh(w) \/ Refetched(w) \/ RefetchFails(w) \/ Retry(w)

WorkerStep(w) == LocalStep(w) \/ ConnectStep(w) \/ ConfigStep(w) \/ EndStep(w)

MainStep == Consume \/ ConsumerEnds \/ CloseConfig \/ Exit

EnvStep == Cancel \/ TogglePause \/ \E g \in Groups : Expire(g) \/ Age(g)

Next ==
  /\ main # "exited"
  /\ \/ \E g \in Groups : GroupStep(g)
     \/ \E w \in Workers : WorkerStep(w)
     \/ FreeGate
     \/ MainStep
     \/ EnvStep

Spec == Init /\ [][Next]_vars

-----------------------------------------------------------------------------
(* Fairness.  Every goroutine goes on until it waits; sessions end when    *)
(* ctx does, and not before they like to; senders on a channel wait in     *)
(* line; the user's and the relay's steps are never owed.                  *)

BusyStep(w) == LocalStep(w) \/ ConnectStep(w) \/ ConfigStep(w) \/ (done /\ EndStep(w))

Fairness ==
  /\ \A g \in Groups : WF_vars(GroupStep(g))
  /\ \A w \in Workers : WF_vars(BusyStep(w)) /\ SF_vars(PassGate(w))
  /\ WF_vars(FreeGate)
  /\ WF_vars(MainStep)

FairSpec == Spec /\ Fairness

(* A network on which what is tried again and again works in the end.      *)
Reachable ==
  /\ \A g \in Groups : SF_vars(Fetched(g))
  /\ \A w \in Workers : /\ SF_vars(asks[w] /\ Connected(w))
                        /\ SF_vars(ConfigAnswered(w))

ReachableSpec == FairSpec /\ Reachable

-----------------------------------------------------------------------------
(* Properties.                                                             *)

(* Every variable has its type.                                            *)
TypeOK ==
  /\ connMode \in ConnModes
  /\ done \in BOOLEAN /\ paused \in BOOLEAN /\ told \in BOOLEAN
  /\ group \in [Groups -> {"turn", "pause", "fetch", "backoff", "run", "ended"}]
  /\ baton \in [Groups -> BOOLEAN]
  /\ creds \in [Groups -> Versions]
  /\ expired \in [Groups -> Versions]
  /\ refreshMu \in [Groups -> Workers \cup {Nobody}]
  /\ fresh \in [Groups -> BOOLEAN]
  /\ inFlight \in BOOLEAN /\ configSent \in BOOLEAN
  /\ pc \in [Workers -> {"off", "loop", "swap", "snapshot", "connect", "config", "up",
                         "settle", "gate", "refresh", "refetch", "retry", "gone"}]
  /\ asks \in [Workers -> BOOLEAN]
  /\ delivered \in [Workers -> BOOLEAN]
  /\ snap \in [Workers -> Versions]
  /\ rotation \in BOOLEAN
  /\ configCh \in {"empty", "full"}
  /\ consumer \in {"waiting", "attached", "serving", "dropped", "refused", "ended"}
  /\ main \in {"waiting", "closed", "exited"}

(* At most one worker asks the server for the configuration at a time, and *)
(* none does once a worker has brought one back: also when a worker read   *)
(* configSent before it was set (group.go:211-218, 233-239).               *)
OneRequest ==
  /\ \A v, w \in Workers : asks[v] /\ asks[w] => v = w
  /\ configSent => \A w \in Workers : ~asks[w]

(* Nobody is in a session, and so able to send, once configCh is closed    *)
(* (main.go:697-699): a send on it would bring the process down.           *)
ClosedAfterSessions == main # "waiting" => InSession = {}

(* A group fetches credentials only when the one before it has its own, or *)
(* has given up (group.go:38-49, 71-86).                                   *)
CascadeInOrder ==
  \A g \in Groups \ {1} :
    group[g] \notin {"turn", "ended"} => creds[g - 1] > 0 \/ group[g - 1] = "ended"

(* No group ends silently: unless the client was being stopped, the        *)
(* interface has been told why (group.go:98-113, 306-311).                 *)
ToldBeforeGivingUp == (\E g \in Groups : group[g] = "ended") => done \/ told

(* The groups implement ConfigRequest: the request is a worker's from the  *)
(* swap to the end of its session, or to the answer.                       *)
Asking == {w \in Workers : asks[w] /\ ~delivered[w]}
Request == INSTANCE ConfigRequest WITH
  asker <- IF Asking = {} THEN Nobody ELSE CHOOSE w \in Workers : w \in Asking,
  answered <- configSent \/ \E w \in Workers : delivered[w]
OneRequestAtATime == Request!Spec

(* Credentials replaced less than 15 s ago are not replaced again, however *)
(* many workers met the same refusal (group.go:135-162).                   *)
RefreshesSpaced ==
  [][\A g \in Groups : creds[g] # 0 /\ creds'[g] # creds[g] => ~fresh[g]]_vars

(* The client, to whoever started it, is a ClientLife: with any number of  *)
(* groups it does not close while a session is on, nor give up untold, and *)
(* nothing starts, ends or is reported afterwards (main.go:680-701).       *)
Life == INSTANCE ClientLife WITH
  life <- IF main # "waiting" THEN main ELSE IF done THEN "stopping" ELSE "running",
  sessions <- InSession
LivesAsPromised == Life!Spec

(* A cancelled client exits, and one all of whose groups have ended, so    *)
(* that netifd can restart it (main.go:697-701).                           *)
ClientExits == done \/ AllEnded ~> main = "exited"

(* Every group gets its turn, when the client is not paused for ever and   *)
(* fetches succeed in the end (group.go:71-86).                            *)
EveryGroupGetsItsTurn ==
  <>[]~paused => \A g \in Groups : group[g] = "turn" ~> group[g] # "turn"

(* The first group's workers go on asking until a configuration is read,   *)
(* the client is stopped or the interface has been told; outside rawtun a  *)
(* session that got none goes on without it (session.go:508-536, 555).     *)
ConfigArrives ==
  connMode = "rawtun" /\ group[1] = "run" ~> consumer # "waiting" \/ done \/ told
=============================================================================
