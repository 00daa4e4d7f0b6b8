------------------------- MODULE WorkerGroupProofs -------------------------
(***************************************************************************)
(* Theorems about the worker groups, for any number of groups and workers. *)
(***************************************************************************)
EXTENDS WorkerGroup, TLAPS

(* What makes one request at a time inductive: configRequestInFlight is    *)
(* kept set from the swap to the end of a failed session, and for ever     *)
(* after a successful one; a session asks from its swap to its end.        *)
RequestInv ==
  /\ \A w \in Workers : asks[w] => inFlight /\ pc[w] \in {"snapshot", "connect", "config", "up"}
  /\ \A w \in Workers : delivered[w] => asks[w] /\ pc[w] = "up"
  /\ \A w \in Workers : pc[w] = "config" => asks[w]
  /\ configSent => inFlight
  /\ OneRequest

(* Refreshing is what its holder of the mutex does, and only with          *)
(* credentials that are not fresh.                                         *)
RefreshInv ==
  /\ \A w \in Workers :
       pc[w] = "refetch" => refreshMu[GroupOf[w]] = w /\ ~fresh[GroupOf[w]]
  /\ \A g \in Groups : group[g] \in {"turn", "pause", "fetch", "backoff"} => creds[g] = 0
  /\ \A w \in Workers : pc[w] # "off" => creds[GroupOf[w]] > 0

(* A group runs with credentials, and hands the baton on with credentials  *)
(* or at its end.                                                          *)
CascadeInv ==
  /\ \A g \in Groups : group[g] = "run" => creds[g] > 0
  /\ \A g \in Groups : baton[g] => creds[g] > 0 \/ group[g] = "ended"
  /\ CascadeInOrder

(* A group that has ended has no worker left, and main waits for them all. *)
EndInv ==
  /\ \A w \in Workers : pc[w] # "off" => group[GroupOf[w]] \in {"run", "ended"}
  /\ \A w \in Workers : group[GroupOf[w]] = "ended" => pc[w] \in {"off", "gone"}
  /\ main # "waiting" => AllEnded
  /\ \A w \in Workers : pc[w] = "gone" => done \/ told
  /\ ToldBeforeGivingUp

IInv == TypeOK /\ RequestInv /\ RefreshInv /\ CascadeInv /\ EndInv

-----------------------------------------------------------------------------
(* The end of a session keeps the types, whatever the kind of error.       *)
LEMMA EndSessionType ==
  ASSUME TypeOK, NEW w \in Workers, NEW kind, EndSession(w, kind)
  PROVE  /\ pc' \in [Workers -> {"off", "loop", "swap", "snapshot", "connect", "config", "up",
                         "settle", "gate", "refresh", "refetch", "retry", "gone"}]
         /\ asks' \in [Workers -> BOOLEAN] /\ delivered' \in [Workers -> BOOLEAN]
         /\ inFlight' \in BOOLEAN /\ configSent' \in BOOLEAN /\ told' \in BOOLEAN
<1>1. pc' = [pc EXCEPT ![w] = AfterSession(kind)]
  BY DEF EndSession, Goto
<1>2. AfterSession(kind) \in {"settle", "gone", "refresh", "retry"}
  BY DEF AfterSession
<1>3. pc' \in [Workers -> {"off", "loop", "swap", "snapshot", "connect", "config", "up",
                         "settle", "gate", "refresh", "refetch", "retry", "gone"}]
  BY <1>1, <1>2 DEF TypeOK
<1>4. asks' \in [Workers -> BOOLEAN] /\ delivered' \in [Workers -> BOOLEAN]
  BY DEF EndSession, TypeOK
<1>5. inFlight' \in BOOLEAN /\ configSent' \in BOOLEAN
  BY DEF EndSession, RequestOver, TypeOK
<1>6. told' \in BOOLEAN
  BY DEF EndSession, Report, TypeOK
<1>7. QED
  BY <1>3, <1>4, <1>5, <1>6

LEMMA TypeInit == Init => TypeOK
<1> SUFFICES ASSUME Init
             PROVE  TypeOK
  OBVIOUS
<1>1. creds \in [Groups -> Versions] /\ expired \in [Groups -> Versions]
      /\ snap \in [Workers -> Versions]
  BY WorkerGroupAssumption DEF Init, Versions
<1>2. QED
  BY <1>1 DEF Init, TypeOK

LEMMA TypeGroup ==
  ASSUME TypeOK, NEW g \in Groups, GroupStep(g)
  PROVE  TypeOK'
<1>1. 1 \in Versions
  BY WorkerGroupAssumption DEF Versions
<1>2. UNCHANGED <<connMode, done, paused, expired, refreshMu, fresh, inFlight, configSent, asks, delivered,
                  pc, snap, rotation, configCh, consumer, main>>
  BY DEF GroupStep, TakeTurn, LeavePause, Fetched, FetchFails, LeaveBackoff, HandOverLater,
         GroupEnds, envVars, credVars, configVars, mainVars
<1>3. creds' \in [Groups -> Versions]
  BY <1>1 DEF TypeOK, GroupStep, TakeTurn, LeavePause, Fetched, FetchFails, LeaveBackoff,
         HandOverLater, GroupEnds, credVars
<1>4. told' \in BOOLEAN
  BY DEF TypeOK, GroupStep, TakeTurn, LeavePause, Fetched, FetchFails, LeaveBackoff,
         HandOverLater, GroupEnds
<1>5. baton' \in [Groups -> BOOLEAN]
  BY DEF TypeOK, GroupStep, TakeTurn, LeavePause, Fetched, FetchFails, LeaveBackoff,
         HandOverLater, GroupEnds, Return, HandOver
<1>6. group' \in [Groups -> {"turn", "pause", "fetch", "backoff", "run", "ended"}]
  BY DEF TypeOK, GroupStep, TakeTurn, LeavePause, Fetched, FetchFails, LeaveBackoff,
         HandOverLater, GroupEnds, Return, HandOver
<1>7. QED
  BY <1>2, <1>3, <1>4, <1>5, <1>6 DEF TypeOK

LEMMA TypeWorker ==
  ASSUME TypeOK, NEW w \in Workers, WorkerStep(w)
  PROVE  TypeOK'
<1> DEFINE Places == {"off", "loop", "swap", "snapshot", "connect", "config", "up",
                      "settle", "gate", "refresh", "refetch", "retry", "gone"}
<1>0. GroupOf[w] \in Groups /\ MyCreds(w) \in Versions
  BY WorkerGroupAssumption DEF MyCreds, TypeOK
<1>1. CASE LocalStep(w)
  <2>1. UNCHANGED <<connMode, done, paused, told, group, baton, expired, delivered, configSent, configCh,
                    consumer, main>>
    BY <1>1 DEF LocalStep, StartWorker, Loop, Swap, Snapshot, Settled, PassGate, LockRefresh,
                Refetched, RefetchFails, Retry, envVars, groupVars, credVars, configVars, mainVars
  <2>2. pc' \in [Workers -> Places]
    BY <1>1 DEF LocalStep, StartWorker, Loop, Swap, Snapshot, Settled, PassGate, LockRefresh,
                Refetched, RefetchFails, Retry, Goto, TypeOK
  <2>3. snap' \in [Workers -> Versions]
    BY <1>0, <1>1 DEF LocalStep, StartWorker, Loop, Swap, Snapshot, Settled, PassGate,
                LockRefresh, Refetched, RefetchFails, Retry, TypeOK
  <2>4. asks' \in [Workers -> BOOLEAN] /\ inFlight' \in BOOLEAN
    BY <1>1 DEF LocalStep, StartWorker, Loop, Swap, Snapshot, Settled, PassGate, LockRefresh,
                Refetched, RefetchFails, Retry, TypeOK, configVars
  <2>5. creds' \in [Groups -> Versions]
    <3>1. CASE Refetched(w)
      <4>1. creds[GroupOf[w]] + 1 \in Versions
        BY <1>0, <3>1, WorkerGroupAssumption DEF Refetched, MyCreds, Versions
      <4>2. QED
        BY <1>0, <3>1, <4>1 DEF Refetched, TypeOK
    <3>2. CASE ~Refetched(w)
      BY <1>1, <3>2 DEF LocalStep, StartWorker, Loop, Swap, Snapshot, Settled, PassGate,
                LockRefresh, RefetchFails, Retry, TypeOK, credVars
    <3>3. QED
      BY <3>1, <3>2
  <2>6. refreshMu' \in [Groups -> Workers \cup {Nobody}]
    BY <1>0, <1>1 DEF LocalStep, StartWorker, Loop, Swap, Snapshot, Settled, PassGate,
                LockRefresh, Refetched, RefetchFails, Retry, TypeOK, credVars
  <2>7. fresh' \in [Groups -> BOOLEAN]
    BY <1>0, <1>1 DEF LocalStep, StartWorker, Loop, Swap, Snapshot, Settled, PassGate,
                LockRefresh, Refetched, RefetchFails, Retry, TypeOK, credVars
  <2>8. rotation' \in BOOLEAN
    BY <1>1 DEF LocalStep, StartWorker, Loop, Swap, Snapshot, Settled, PassGate,
                LockRefresh, Refetched, RefetchFails, Retry, TypeOK
  <2>9. QED
    BY <2>1, <2>2, <2>3, <2>4, <2>5, <2>6, <2>7, <2>8 DEF TypeOK
<1>2. CASE \E kind : EndSession(w, kind) /\ rotation' \in BOOLEAN
                     /\ UNCHANGED <<envVars, groupVars, credVars, snap, mainVars>>
  BY <1>2, EndSessionType DEF TypeOK, envVars, groupVars, credVars, mainVars
<1>3. CASE Connected(w)
  <2>1. pc' \in [Workers -> Places]
    BY <1>3 DEF Connected, Goto, TypeOK
  <2>2. QED
    BY <1>3, <2>1 DEF Connected, TypeOK, envVars, groupVars, credVars, configVars, mainVars
<1>4. CASE ConfigAnswered(w)
  <2>1. pc' \in [Workers -> Places] /\ delivered' \in [Workers -> BOOLEAN] /\ configCh' = "full"
    BY <1>4 DEF ConfigAnswered, Goto, TypeOK
  <2>2. QED
    BY <1>4, <2>1 DEF ConfigAnswered, TypeOK, envVars, groupVars, credVars
<1>5. CASE ConfigUnanswered(w) /\ connMode # "rawtun"
  <2>1. pc' \in [Workers -> Places]
    BY <1>5 DEF ConfigUnanswered, Goto, TypeOK
  <2>2. QED
    BY <1>5, <2>1 DEF ConfigUnanswered, TypeOK, envVars, groupVars, credVars, configVars, mainVars
<1>6. ASSUME NEW kind \in ErrorKinds, ConnectFails(w, kind) \/ SessionEnds(w, kind)
      PROVE  TypeOK'
  BY <1>2, <1>6 DEF ConnectFails, SessionEnds, TypeOK
<1>7. CASE ConfigDenied(w) \/ SessionRotates(w) \/ (ConfigUnanswered(w) /\ connMode = "rawtun")
  <2>1. CASE ConfigDenied(w)
    BY <1>2, <2>1 DEF ConfigDenied, TypeOK
  <2>2. CASE SessionRotates(w)
    BY <1>2, <2>2 DEF SessionRotates, TypeOK
  <2>3. CASE ConfigUnanswered(w) /\ connMode = "rawtun"
    BY <1>2, <2>3 DEF ConfigUnanswered, TypeOK
  <2>4. QED
    BY <1>7, <2>1, <2>2, <2>3
<1>8. QED
  BY <1>1, <1>3, <1>4, <1>5, <1>6, <1>7 DEF WorkerStep, ConnectStep, ConfigStep, EndStep

LEMMA TypeMain ==
  ASSUME TypeOK, FreeGate \/ MainStep \/ EnvStep
  PROVE  TypeOK'
<1>1. CASE FreeGate
  <2>1. /\ rotation' \in BOOLEAN
        /\ UNCHANGED <<connMode, done, paused, told, group, baton, creds, expired, refreshMu, fresh,
                       inFlight, configSent, asks, delivered, pc, snap, configCh, consumer, main>>
    BY <1>1 DEF FreeGate, envVars, groupVars, credVars, configVars, mainVars
  <2>2. QED
    BY <2>1 DEF TypeOK
<1>2. CASE MainStep
  <2>1. UNCHANGED <<connMode, paused, told, group, baton, creds, expired, refreshMu, fresh, inFlight,
                    configSent, asks, delivered, pc, snap, rotation>>
    BY <1>2 DEF MainStep, Consume, ConsumerEnds, CloseConfig, Exit, envVars, groupVars, credVars,
                configVars
  <2>2. done' \in BOOLEAN
    BY <1>2 DEF MainStep, Consume, ConsumerEnds, CloseConfig, Exit, envVars, TypeOK
  <2>3. /\ configCh' \in {"empty", "full"}
        /\ consumer' \in {"waiting", "attached", "serving", "dropped", "refused", "ended"}
        /\ main' \in {"waiting", "closed", "exited"}
    BY <1>2 DEF MainStep, Consume, ConsumerEnds, CloseConfig, Exit, TypeOK
  <2>4. QED
    BY <2>1, <2>2, <2>3 DEF TypeOK
<1>3. CASE EnvStep
  <2>1. UNCHANGED <<connMode, told, group, baton, creds, refreshMu, inFlight, configSent, asks, delivered,
                    pc, snap, rotation, configCh, consumer, main>>
    BY <1>3 DEF EnvStep, Cancel, TogglePause, Expire, Age, envVars, groupVars, credVars, configVars,
                mainVars
  <2>2. done' \in BOOLEAN /\ paused' \in BOOLEAN
    BY <1>3 DEF EnvStep, Cancel, TogglePause, Expire, Age, envVars, TypeOK
  <2>3. expired' \in [Groups -> Versions]
    BY <1>3 DEF EnvStep, Cancel, TogglePause, Expire, Age, credVars, TypeOK
  <2>4. fresh' \in [Groups -> BOOLEAN]
    BY <1>3 DEF EnvStep, Cancel, TogglePause, Expire, Age, credVars, TypeOK
  <2>5. QED
    BY <2>1, <2>2, <2>3, <2>4 DEF TypeOK
<1>4. QED
  BY <1>1, <1>2, <1>3

-----------------------------------------------------------------------------
(* One request at a time.                                                  *)

LEMMA RequestSame ==
  ASSUME RequestInv, UNCHANGED <<pc, configVars>>
  PROVE  RequestInv'
  BY DEF RequestInv, OneRequest, configVars

LEMMA RequestEndSession ==
  ASSUME TypeOK, RequestInv, NEW w \in Workers, NEW kind, EndSession(w, kind)
  PROVE  RequestInv'
<1>1. /\ asks' = [asks EXCEPT ![w] = FALSE]
      /\ delivered' = [delivered EXCEPT ![w] = FALSE]
      /\ pc' = [pc EXCEPT ![w] = AfterSession(kind)]
  BY DEF EndSession, Goto
<1>2. AfterSession(kind) \in {"settle", "gone", "refresh", "retry"}
  BY DEF AfterSession
<1>3. \A v \in Workers : v # w => asks'[v] = asks[v] /\ delivered'[v] = delivered[v] /\ pc'[v] = pc[v]
  BY <1>1 DEF TypeOK
<1>4. ~asks'[w] /\ ~delivered'[w] /\ pc'[w] # "config"
  BY <1>1, <1>2 DEF TypeOK
<1>5. CASE asks[w]
  <2>1. \A v \in Workers : ~asks'[v]
    BY <1>3, <1>4, <1>5 DEF RequestInv, OneRequest
  <2>2. \A v \in Workers : ~delivered'[v] /\ pc'[v] # "config"
    BY <1>3, <1>4, <2>1 DEF RequestInv
  <2>3. configSent' => inFlight'
    BY <1>5 DEF EndSession, RequestOver, RequestInv, OneRequest
  <2>4. QED
    BY <2>1, <2>2, <2>3 DEF RequestInv, OneRequest
<1>6. CASE ~asks[w]
  <2>1. UNCHANGED <<inFlight, configSent>>
    BY <1>6 DEF EndSession, RequestOver
  <2>2. QED
    BY <1>3, <1>4, <2>1 DEF RequestInv, OneRequest
<1>7. QED
  BY <1>5, <1>6

LEMMA RequestSwap ==
  ASSUME TypeOK, RequestInv, NEW w \in Workers, Swap(w)
  PROVE  RequestInv'
<1>1. /\ asks' = [asks EXCEPT ![w] = ~inFlight] /\ inFlight' = TRUE
      /\ pc' = [pc EXCEPT ![w] = "snapshot"] /\ pc[w] = "swap"
      /\ UNCHANGED <<configSent, delivered>>
  BY DEF Swap, Goto
<1>2. \A v \in Workers : v # w => asks'[v] = asks[v] /\ pc'[v] = pc[v]
  BY <1>1 DEF TypeOK
<1>3. pc'[w] = "snapshot" /\ asks'[w] = ~inFlight /\ ~delivered[w] /\ ~asks[w]
  BY <1>1 DEF TypeOK, RequestInv
<1>4. OneRequest'
  BY <1>1, <1>2, <1>3 DEF RequestInv, OneRequest
<1>5. QED
  BY <1>1, <1>2, <1>3, <1>4 DEF RequestInv

LEMMA RequestWorker ==
  ASSUME TypeOK, RequestInv, NEW w \in Workers, WorkerStep(w)
  PROVE  RequestInv'
<1>1. ASSUME UNCHANGED configVars,
             NEW there, pc' = [pc EXCEPT ![w] = there],
             asks[w] => there \in {"snapshot", "connect", "config", "up"},
             delivered[w] => there = "up",
             there = "config" => asks[w]
      PROVE  RequestInv'
  <2>1. \A v \in Workers : v # w => pc'[v] = pc[v]
    BY <1>1 DEF TypeOK
  <2>2. pc'[w] = there
    BY <1>1 DEF TypeOK
  <2>3. QED
    BY <1>1, <2>1, <2>2 DEF RequestInv, OneRequest, configVars
<1>2. CASE StartWorker(w) \/ Loop(w) \/ Settled(w) \/ PassGate(w) \/ Retry(w)
  BY <1>1, <1>2 DEF StartWorker, Loop, Settled, PassGate, Retry, Goto, RequestInv
<1>3. CASE LockRefresh(w) \/ Refetched(w) \/ RefetchFails(w)
  BY <1>1, <1>3 DEF LockRefresh, Refetched, RefetchFails, Goto, RequestInv
<1>4. CASE Snapshot(w)
  BY <1>1, <1>4 DEF Snapshot, Goto, RequestInv
<1>5. CASE Connected(w)
  BY <1>1, <1>5 DEF Connected, Goto, RequestInv
<1>6. CASE ConfigUnanswered(w) /\ connMode # "rawtun"
  BY <1>1, <1>6 DEF ConfigUnanswered, Goto, RequestInv
<1>7. CASE ConfigAnswered(w)
  <2>1. /\ pc[w] = "config" /\ asks[w]
        /\ delivered' = [delivered EXCEPT ![w] = TRUE] /\ pc' = [pc EXCEPT ![w] = "up"]
        /\ UNCHANGED <<inFlight, configSent, asks>>
    BY <1>7 DEF ConfigAnswered, Goto, RequestInv
  <2>2. \A v \in Workers : v # w => pc'[v] = pc[v] /\ delivered'[v] = delivered[v]
    BY <2>1 DEF TypeOK
  <2>3. pc'[w] = "up" /\ delivered'[w]
    BY <2>1 DEF TypeOK
  <2>4. QED
    BY <2>1, <2>2, <2>3 DEF RequestInv, OneRequest
<1>8. ASSUME NEW kind \in ErrorKinds, ConnectFails(w, kind) \/ SessionEnds(w, kind)
      PROVE  RequestInv'
  BY <1>8, RequestEndSession DEF ConnectFails, SessionEnds
<1>9. CASE ConfigDenied(w) \/ SessionRotates(w) \/ (ConfigUnanswered(w) /\ connMode = "rawtun")
  BY <1>9, RequestEndSession DEF ConfigDenied, SessionRotates, ConfigUnanswered
<1>10. QED
  BY <1>2, <1>3, <1>4, <1>5, <1>6, <1>7, <1>8, <1>9, RequestSwap
     DEF WorkerStep, LocalStep, ConnectStep, ConfigStep, EndStep

LEMMA RequestOther ==
  ASSUME RequestInv, FreeGate \/ MainStep \/ EnvStep \/ \E g \in Groups : GroupStep(g)
  PROVE  RequestInv'
<1>1. UNCHANGED <<pc, configVars>>
  BY DEF FreeGate, MainStep, EnvStep, GroupStep, Consume, ConsumerEnds, CloseConfig, Exit, Cancel,
         TogglePause, Expire, Age, TakeTurn, LeavePause, Fetched, FetchFails, LeaveBackoff,
         HandOverLater, GroupEnds
<1>2. QED
  BY <1>1, RequestSame

-----------------------------------------------------------------------------
(* Refreshes, the cascade and the end, which depend on where the group is. *)

LEMMA EndSessionPlace ==
  ASSUME TypeOK, NEW w \in Workers, NEW kind, EndSession(w, kind)
  PROVE  \E there \in {"settle", "gone", "refresh", "retry"} :
           /\ pc' = [pc EXCEPT ![w] = there]
           /\ there = "gone" => done \/ told'
  BY DEF EndSession, Goto, AfterSession, Report, TypeOK

(* What a worker's step may do to the state those three look at: nothing,  *)
(* but for its own place, the mutex it takes and the refresh it makes.     *)
WorkerMoves(w) ==
  \E there \in {"loop", "swap", "snapshot", "connect", "config", "up", "settle", "gate",
                "refresh", "refetch", "retry", "gone"} :
    /\ pc' = [pc EXCEPT ![w] = there]
    /\ pc[w] = "off" => group[GroupOf[w]] = "run"
    /\ pc[w] # "gone"
    /\ there = "gone" => done \/ told'
    /\ there = "refetch" => /\ ~fresh[GroupOf[w]]
                            /\ refreshMu[GroupOf[w]] = Nobody
                            /\ refreshMu' = [refreshMu EXCEPT ![GroupOf[w]] = w]
                            /\ UNCHANGED <<creds, fresh>>
    /\ there # "refetch" => UNCHANGED <<creds, fresh, refreshMu>> \/ Refetched(w) \/ RefetchFails(w)
    /\ told => told'
    /\ UNCHANGED <<done, group, baton, main>>

LEMMA WorkerMovesOnly ==
  ASSUME TypeOK, NEW w \in Workers, WorkerStep(w)
  PROVE  WorkerMoves(w)
<1>1. CASE StartWorker(w) \/ Loop(w) \/ Settled(w) \/ PassGate(w) \/ Retry(w)
  BY <1>1 DEF StartWorker, Loop, Settled, PassGate, Retry, Goto, WorkerMoves, envVars, groupVars,
              credVars, mainVars
<1>2. CASE Swap(w) \/ Snapshot(w) \/ Connected(w) \/ ConfigAnswered(w)
  BY <1>2 DEF Swap, Snapshot, Connected, ConfigAnswered, Goto, WorkerMoves, envVars, groupVars,
              credVars, mainVars
<1>3. CASE LockRefresh(w)
  BY <1>3 DEF LockRefresh, Goto, WorkerMoves, envVars, groupVars, mainVars
<1>4. CASE Refetched(w) \/ RefetchFails(w)
  BY <1>4 DEF Refetched, RefetchFails, Goto, WorkerMoves, envVars, groupVars, mainVars
<1>5. CASE ConfigUnanswered(w) /\ connMode # "rawtun"
  BY <1>5 DEF ConfigUnanswered, Goto, WorkerMoves, envVars, groupVars, credVars, mainVars
<1>6. ASSUME NEW kind, EndSession(w, kind), pc[w] \in {"connect", "config", "up"},
             UNCHANGED <<envVars, groupVars, credVars, mainVars>>
      PROVE  WorkerMoves(w)
  <2>1. told => told'
    BY <1>6 DEF EndSession, Report
  <2>2. QED
    BY <1>6, <2>1, EndSessionPlace DEF WorkerMoves, envVars, groupVars, credVars, mainVars
<1>7. ASSUME NEW kind \in ErrorKinds, ConnectFails(w, kind) \/ SessionEnds(w, kind)
      PROVE  WorkerMoves(w)
  BY <1>6, <1>7 DEF ConnectFails, SessionEnds
<1>8. CASE ConfigDenied(w) \/ SessionRotates(w) \/ (ConfigUnanswered(w) /\ connMode = "rawtun")
  BY <1>6, <1>8 DEF ConfigDenied, SessionRotates, ConfigUnanswered
<1>9. QED
  BY <1>1, <1>2, <1>3, <1>4, <1>5, <1>7, <1>8
     DEF WorkerStep, LocalStep, ConnectStep, ConfigStep, EndStep

(* A worker, starting only once its group runs and moving on its own.      *)
LEMMA PlacesWorker ==
  ASSUME TypeOK, RefreshInv, CascadeInv, EndInv, NEW w \in Workers, WorkerStep(w)
  PROVE  RefreshInv' /\ CascadeInv' /\ EndInv'
<1>1. PICK there \in {"loop", "swap", "snapshot", "connect", "config", "up", "settle", "gate",
                "refresh", "refetch", "retry", "gone"} :
    /\ pc' = [pc EXCEPT ![w] = there]
    /\ pc[w] = "off" => group[GroupOf[w]] = "run"
    /\ pc[w] # "gone"
    /\ there = "gone" => done \/ told'
    /\ there = "refetch" => /\ ~fresh[GroupOf[w]]
                            /\ refreshMu[GroupOf[w]] = Nobody
                            /\ refreshMu' = [refreshMu EXCEPT ![GroupOf[w]] = w]
                            /\ UNCHANGED <<creds, fresh>>
    /\ there # "refetch" => UNCHANGED <<creds, fresh, refreshMu>> \/ Refetched(w) \/ RefetchFails(w)
    /\ told => told'
    /\ UNCHANGED <<done, group, baton, main>>
  BY WorkerMovesOnly DEF WorkerMoves
<1>2. \A v \in Workers : pc'[v] = IF v = w THEN there ELSE pc[v]
  BY <1>1 DEF TypeOK
<1>3. GroupOf[w] \in Groups /\ \A v \in Workers : GroupOf[v] \in Groups
  BY WorkerGroupAssumption
<1>4. \A g \in Groups : creds[g] \in Nat /\ creds'[g] \in Nat /\ creds'[g] >= creds[g]
                        /\ (creds'[g] # creds[g] => creds[g] > 0)
  <2>1. creds \in [Groups -> Nat]
    BY WorkerGroupAssumption DEF TypeOK, Versions
  <2>2. CASE UNCHANGED creds
    BY <2>1, <2>2
  <2>3. CASE Refetched(w)
    <3>1. creds[GroupOf[w]] > 0
      BY <2>3 DEF RefreshInv, Refetched
    <3>2. creds' = [creds EXCEPT ![GroupOf[w]] = @ + 1]
      BY <2>3 DEF Refetched
    <3>3. QED
      BY <1>3, <2>1, <3>1, <3>2
  <2>4. QED
    BY <1>1, <2>2, <2>3 DEF RefetchFails
<1>5. RefreshInv'
  <2>1. \A v \in Workers :
           pc'[v] = "refetch" => refreshMu'[GroupOf[v]] = v /\ ~fresh'[GroupOf[v]]
    <3>1. CASE there = "refetch"
      BY <1>1, <1>2, <1>3, <3>1, WorkerGroupAssumption DEF TypeOK, RefreshInv
    <3>2. CASE there # "refetch" /\ UNCHANGED <<creds, fresh, refreshMu>>
      BY <1>1, <1>2, <3>2 DEF RefreshInv
    <3>3. CASE there # "refetch" /\ (Refetched(w) \/ RefetchFails(w))
      <4>1. refreshMu[GroupOf[w]] = w
        BY <3>3 DEF RefreshInv, Refetched, RefetchFails
      <4>2. \A v \in Workers : pc'[v] = "refetch" => GroupOf[v] # GroupOf[w] /\ pc[v] = "refetch"
        BY <1>2, <3>3, <4>1 DEF RefreshInv
      <4>3. \A g \in Groups : g # GroupOf[w] => refreshMu'[g] = refreshMu[g] /\ fresh'[g] = fresh[g]
        BY <3>3 DEF Refetched, RefetchFails, TypeOK
      <4>4. QED
        BY <1>3, <4>2, <4>3 DEF RefreshInv
    <3>4. QED
      BY <1>1, <3>1, <3>2, <3>3
  <2>2. \A g \in Groups : group'[g] \in {"turn", "pause", "fetch", "backoff"} => creds'[g] = 0
    BY <1>1, <1>4 DEF RefreshInv
  <2>3. \A v \in Workers : pc'[v] # "off" => creds'[GroupOf[v]] > 0
    BY <1>1, <1>2, <1>3, <1>4 DEF RefreshInv, CascadeInv
  <2>4. QED
    BY <2>1, <2>2, <2>3 DEF RefreshInv
<1>6. CascadeInv'
  <2>1. \A g \in Groups \ {1} : g - 1 \in Groups
    BY WorkerGroupAssumption DEF Groups
  <2>2. QED
    BY <1>1, <1>4, <2>1 DEF CascadeInv, CascadeInOrder
<1>7. EndInv'
  BY <1>1, <1>2, <1>3 DEF EndInv, AllEnded, ToldBeforeGivingUp
<1>8. QED
  BY <1>5, <1>6, <1>7

(* A group moves forward, and hands over with credentials or at its end.   *)
LEMMA PlacesGroup ==
  ASSUME TypeOK, RefreshInv, CascadeInv, EndInv, main # "exited",
         NEW g \in Groups, GroupStep(g)
  PROVE  RefreshInv' /\ CascadeInv' /\ EndInv'
<1>1. /\ UNCHANGED <<pc, fresh, refreshMu, main, done>>
      /\ told => told'
  BY DEF GroupStep, TakeTurn, LeavePause, Fetched, FetchFails, LeaveBackoff, HandOverLater,
         GroupEnds, envVars, credVars, mainVars
<1>2. /\ creds \in [Groups -> Nat] /\ g \in Groups
      /\ \A h \in Groups \ {1} : h - 1 \in Groups
      /\ \A w \in Workers : GroupOf[w] \in Groups
  BY WorkerGroupAssumption DEF TypeOK, Versions, Groups
<1>3. /\ \A h \in Groups : h # g => group'[h] = group[h] /\ creds'[h] = creds[h] /\ baton'[h] = baton[h]
      /\ creds'[g] \in Nat
  BY <1>2 DEF TypeOK, GroupStep, TakeTurn, LeavePause, Fetched, FetchFails, LeaveBackoff,
         HandOverLater, GroupEnds, Return, HandOver, credVars, groupVars
<1>4. CASE TakeTurn(g) \/ LeavePause(g)
  <2>1. /\ group[g] \in {"turn", "pause"} /\ UNCHANGED <<creds, baton>>
        /\ group'[g] \in {"pause", "fetch", "ended"}
        /\ group'[g] = "ended" => done
        /\ group'[g] # "ended" => group[g] = "pause" \/ MyTurn(g)
    BY <1>4 DEF TakeTurn, LeavePause, TypeOK, credVars
  <2>2. \A w \in Workers : GroupOf[w] = g => pc[w] = "off"
    BY <1>2, <2>1 DEF EndInv
  <2>3. main = "waiting"
    BY <1>2, <2>1 DEF EndInv, AllEnded
  <2>4. RefreshInv'
    BY <1>1, <1>2, <1>3, <2>1 DEF RefreshInv
  <2>5. CascadeInv'
    BY <1>2, <1>3, <2>1 DEF CascadeInv, CascadeInOrder, MyTurn
  <2>6. EndInv'
    BY <1>1, <1>2, <1>3, <2>1, <2>2, <2>3 DEF EndInv, ToldBeforeGivingUp, AllEnded
  <2>7. QED
    BY <2>4, <2>5, <2>6
<1>5. CASE Fetched(g)
  <2>1. /\ group[g] = "fetch" /\ group'[g] = "run" /\ creds'[g] = 1 /\ UNCHANGED <<baton, told>>
    BY <1>2, <1>5 DEF Fetched, TypeOK
  <2>2. \A w \in Workers : GroupOf[w] = g => pc[w] = "off"
    BY <1>2, <2>1 DEF EndInv
  <2>3. main = "waiting"
    BY <1>2, <2>1 DEF EndInv, AllEnded
  <2>4. RefreshInv'
    BY <1>1, <1>2, <1>3, <2>1, <2>2 DEF RefreshInv
  <2>5. CascadeInv'
    BY <1>2, <1>3, <2>1 DEF CascadeInv, CascadeInOrder
  <2>6. EndInv'
    BY <1>1, <1>2, <1>3, <2>1, <2>2, <2>3 DEF EndInv, ToldBeforeGivingUp, AllEnded
  <2>7. QED
    BY <2>4, <2>5, <2>6
<1>6. CASE FetchFails(g) \/ LeaveBackoff(g)
  <2>1. /\ group[g] \in {"fetch", "backoff"} /\ UNCHANGED creds
        /\ group'[g] \in {"fetch", "backoff", "ended"}
        /\ group'[g] = "ended" => done \/ told'
        /\ baton'[g] => baton[g] \/ group'[g] = "ended"
    BY <1>2, <1>6 DEF FetchFails, LeaveBackoff, Return, HandOver, TypeOK, credVars
  <2>2. \A w \in Workers : GroupOf[w] = g => pc[w] = "off"
    BY <1>2, <2>1 DEF EndInv
  <2>3. main = "waiting"
    BY <1>2, <2>1 DEF EndInv, AllEnded
  <2>4. RefreshInv'
    BY <1>1, <1>2, <1>3, <2>1 DEF RefreshInv
  <2>5. CascadeInv'
    BY <1>2, <1>3, <2>1 DEF CascadeInv, CascadeInOrder
  <2>6. EndInv'
    BY <1>1, <1>2, <1>3, <2>1, <2>2, <2>3 DEF EndInv, ToldBeforeGivingUp, AllEnded
  <2>7. QED
    BY <2>4, <2>5, <2>6
<1>7. CASE HandOverLater(g)
  <2>1. group[g] = "run" /\ UNCHANGED <<group, creds, told>>
    BY <1>7 DEF HandOverLater, credVars
  <2>2. RefreshInv' /\ EndInv'
    BY <1>1, <2>1 DEF RefreshInv, EndInv, ToldBeforeGivingUp, AllEnded
  <2>3. CascadeInv'
    BY <1>3, <2>1 DEF CascadeInv, CascadeInOrder
  <2>4. QED
    BY <2>2, <2>3
<1>8. CASE GroupEnds(g)
  <2>1. /\ group[g] = "run" /\ group'[g] = "ended" /\ AllGone(g) /\ UNCHANGED <<creds, told>>
    BY <1>2, <1>8 DEF GroupEnds, Return, TypeOK, credVars
  <2>2. PICK w \in Workers : GroupOf[w] = g
    BY WorkerGroupAssumption
  <2>3. done \/ told
    BY <2>1, <2>2 DEF AllGone, EndInv
  <2>4. RefreshInv'
    BY <1>1, <1>2, <1>3, <2>1 DEF RefreshInv
  <2>5. CascadeInv'
    BY <1>2, <1>3, <2>1 DEF CascadeInv, CascadeInOrder
  <2>6. EndInv'
    BY <1>1, <1>2, <1>3, <2>1, <2>3 DEF EndInv, ToldBeforeGivingUp, AllEnded, AllGone
  <2>7. QED
    BY <2>4, <2>5, <2>6
<1>9. QED
  BY <1>4, <1>5, <1>6, <1>7, <1>8 DEF GroupStep

LEMMA PlacesOther ==
  ASSUME TypeOK, RefreshInv, CascadeInv, EndInv, FreeGate \/ MainStep \/ EnvStep
  PROVE  RefreshInv' /\ CascadeInv' /\ EndInv'
<1>1. /\ UNCHANGED <<pc, creds, refreshMu, group, baton, told>>
      /\ done => done'
      /\ \A g \in Groups : fresh'[g] => fresh[g]
      /\ main' # "waiting" => main # "waiting" \/ AllEnded
  BY DEF FreeGate, MainStep, EnvStep, Consume, ConsumerEnds, CloseConfig, Exit, Cancel,
         TogglePause, Expire, Age, envVars, groupVars, credVars, mainVars, TypeOK
<1>2. \A w \in Workers : GroupOf[w] \in Groups
  BY WorkerGroupAssumption
<1>3. QED
  BY <1>1, <1>2 DEF RefreshInv, CascadeInv, CascadeInOrder, EndInv, ToldBeforeGivingUp, AllEnded

-----------------------------------------------------------------------------
LEMMA InitInvariant == Init => IInv
<1> SUFFICES ASSUME Init
             PROVE  IInv
  OBVIOUS
<1>1. \A w \in Workers : GroupOf[w] \in Groups
  BY WorkerGroupAssumption
<1>2. TypeOK
  BY TypeInit
<1>3. RequestInv
  BY DEF Init, RequestInv, OneRequest
<1>4. RefreshInv /\ CascadeInv
  BY <1>1 DEF Init, RefreshInv, CascadeInv, CascadeInOrder
<1>5. EndInv
  BY <1>1 DEF Init, EndInv, AllEnded, ToldBeforeGivingUp
<1>6. QED
  BY <1>2, <1>3, <1>4, <1>5 DEF IInv

LEMMA NextInvariant == IInv /\ [Next]_vars => IInv'
<1> SUFFICES ASSUME IInv, [Next]_vars
             PROVE  IInv'
  OBVIOUS
<1> USE DEF IInv
<1>1. CASE UNCHANGED vars
  BY <1>1 DEF vars, envVars, groupVars, credVars, configVars, mainVars, TypeOK, RequestInv,
              OneRequest, RefreshInv, CascadeInv, CascadeInOrder, EndInv, AllEnded,
              ToldBeforeGivingUp
<1>2. CASE Next
  <2>1. TypeOK'
    BY <1>2, TypeGroup, TypeWorker, TypeMain DEF Next
  <2>2. RequestInv'
    BY <1>2, RequestWorker, RequestOther DEF Next
  <2>3. RefreshInv' /\ CascadeInv' /\ EndInv'
    BY <1>2, PlacesWorker, PlacesGroup, PlacesOther DEF Next
  <2>4. QED
    BY <2>1, <2>2, <2>3
<1>3. QED
  BY <1>1, <1>2

(* The invariant of the groups, from which the theorems below follow.      *)
THEOREM GroupsInvariant == Spec => []IInv
<1>1. Init => IInv
  BY InitInvariant
<1>2. IInv /\ [Next]_vars => IInv'
  BY NextInvariant
<1>3. QED
  BY <1>1, <1>2, PTL DEF Spec

(* Every variable of the groups, their workers and main has its type.      *)
THEOREM GroupsTypes == Spec => []TypeOK
<1>1. IInv => TypeOK
  BY DEF IInv
<1>2. QED
  BY <1>1, GroupsInvariant, PTL

(* One worker asks at a time, and none after an answer.                    *)
THEOREM OneRequestAlways == Spec => []OneRequest
<1>1. IInv => OneRequest
  BY DEF IInv, RequestInv
<1>2. QED
  BY <1>1, GroupsInvariant, PTL

(* Groups fetch their credentials one after another.                       *)
THEOREM CascadeAlwaysInOrder == Spec => []CascadeInOrder
<1>1. IInv => CascadeInOrder
  BY DEF IInv, CascadeInv
<1>2. QED
  BY <1>1, GroupsInvariant, PTL

(* No group gives up without the interface being told.                     *)
THEOREM AlwaysToldBeforeGivingUp == Spec => []ToldBeforeGivingUp
<1>1. IInv => ToldBeforeGivingUp
  BY DEF IInv, EndInv
<1>2. QED
  BY <1>1, GroupsInvariant, PTL

(* No session is left to send on the closed channel.                       *)
THEOREM AlwaysClosedAfterSessions == Spec => []ClosedAfterSessions
<1>1. IInv => ClosedAfterSessions
  <2>1. \A w \in Workers : GroupOf[w] \in Groups
    BY WorkerGroupAssumption
  <2>2. QED
    BY <2>1 DEF IInv, EndInv, ClosedAfterSessions, InSession, AllEnded
<1>2. QED
  BY <1>1, GroupsInvariant, PTL

-----------------------------------------------------------------------------
(* Only the holder of refreshMu replaces credentials.                      *)
LEMMA CredsChange ==
  ASSUME TypeOK, RefreshInv, [Next]_vars, NEW g \in Groups, creds[g] # 0, creds'[g] # creds[g]
  PROVE  ~fresh[g]
<1>1. ASSUME NEW h \in Groups, GroupStep(h)
      PROVE  FALSE
  <2>1. UNCHANGED creds \/ Fetched(h)
    BY <1>1 DEF GroupStep, TakeTurn, LeavePause, FetchFails, LeaveBackoff, HandOverLater, GroupEnds,
                credVars
  <2>2. Fetched(h) /\ creds' = [creds EXCEPT ![h] = 1] /\ creds[h] = 0
    BY <2>1 DEF Fetched, RefreshInv
  <2>3. QED
    BY <2>2 DEF TypeOK
<1>2. ASSUME NEW w \in Workers, WorkerStep(w)
      PROVE  ~fresh[g]
  <2>1. Refetched(w)
    BY <1>2, WorkerMovesOnly DEF WorkerMoves, RefetchFails
  <2>2. creds' = [creds EXCEPT ![GroupOf[w]] = @ + 1] /\ ~fresh[GroupOf[w]]
    BY <2>1 DEF Refetched, RefreshInv
  <2>3. QED
    BY <2>2 DEF TypeOK
<1>3. CASE FreeGate \/ MainStep \/ EnvStep \/ UNCHANGED vars
  BY <1>3 DEF FreeGate, MainStep, EnvStep, Consume, ConsumerEnds, CloseConfig, Exit, Cancel,
              TogglePause, Expire, Age, credVars, vars
<1>4. QED
  BY <1>1, <1>2, <1>3 DEF Next

(* Credentials are not replaced again within 15 s.                         *)
THEOREM RefreshesAlwaysSpaced == Spec => RefreshesSpaced
<1>1. IInv /\ [Next]_vars =>
        [\A g \in Groups : creds[g] # 0 /\ creds'[g] # creds[g] => ~fresh[g]]_vars
  BY CredsChange DEF IInv
<1>2. QED
  BY <1>1, GroupsInvariant, PTL DEF Spec, RefreshesSpaced

-----------------------------------------------------------------------------
(* The groups implement ConfigRequest.                                     *)

Asker == IF Asking = {} THEN Nobody ELSE CHOOSE w \in Workers : w \in Asking
Answered == configSent \/ \E w \in Workers : delivered[w]

(* With one worker asking, it is the one chosen.                           *)
LEMMA AskerIs ==
  ASSUME NEW w \in Workers, Asking = {w}
  PROVE  Asker = w
  BY DEF Asker

(* The asking workers before and after a step that leaves the flags alone. *)
LEMMA RequestStutter ==
  ASSUME UNCHANGED configVars
  PROVE  UNCHANGED Request!vars
  BY DEF configVars, Request!vars, Asking

LEMMA RequestSwapStep ==
  ASSUME TypeOK, RequestInv, NEW w \in Workers, Swap(w)
  PROVE  [Request!Next]_(Request!vars)
<1>1. /\ asks' = [asks EXCEPT ![w] = ~inFlight] /\ pc[w] = "swap"
      /\ UNCHANGED <<configSent, delivered>>
  BY DEF Swap
<1>2. ~asks[w] /\ ~delivered[w]
  BY <1>1 DEF RequestInv
<1>3. CASE inFlight
  <2>1. Asking' = Asking
    BY <1>1, <1>2, <1>3 DEF TypeOK, Asking
  <2>2. QED
    BY <1>1, <2>1 DEF Request!vars
<1>4. CASE ~inFlight
  <2>1. Asking = {} /\ ~Answered
    BY <1>4 DEF RequestInv, Asking, Answered
  <2>2. \A v \in Workers : asks'[v] <=> v = w
    <3>1. asks'[w] /\ \A v \in Workers \ {w} : asks'[v] = asks[v]
      BY <1>1, <1>4 DEF TypeOK
    <3>2. \A v \in Workers : ~asks[v]
      BY <1>4 DEF RequestInv
    <3>3. QED
      BY <3>1, <3>2
  <2>3. \A v \in Workers : ~delivered'[v]
    BY <1>1, <1>4 DEF RequestInv
  <2>4. Asking' = {w}
    BY <2>2, <2>3 DEF Asking
  <2>5. Answered' = Answered
    BY <1>1, <1>2, <1>4, <2>1 DEF TypeOK, Answered
  <2>6. Asker = Nobody /\ Asker' = w
    BY <2>1, <2>4 DEF Asker
  <2>7. Request!Ask(w)
    BY <2>1, <2>5, <2>6 DEF Request!Ask, Asker, Answered
  <2>8. QED
    BY <2>7 DEF Request!Next
<1>5. QED
  BY <1>3, <1>4

LEMMA RequestAnswerStep ==
  ASSUME TypeOK, RequestInv, NEW w \in Workers, ConfigAnswered(w)
  PROVE  [Request!Next]_(Request!vars)
<1>1. /\ delivered' = [delivered EXCEPT ![w] = TRUE] /\ pc[w] = "config"
      /\ UNCHANGED <<configSent, asks>>
  BY DEF ConfigAnswered
<1>2. asks[w] /\ ~delivered[w]
  BY <1>1 DEF RequestInv
<1>3. Asking = {w}
  BY <1>2 DEF RequestInv, OneRequest, Asking
<1>4. Asking' = {} /\ Answered'
  BY <1>1, <1>2, <1>3 DEF TypeOK, Asking, Answered
<1>5. Asker = w /\ Asker' = Nobody /\ w # Nobody
  BY <1>3, <1>4, AskerIs, WorkerGroupAssumption DEF Asker
<1>6. Request!Answer
  BY <1>4, <1>5 DEF Request!Answer, Asker, Answered
<1>7. QED
  BY <1>6 DEF Request!Next

LEMMA RequestEndStep ==
  ASSUME TypeOK, RequestInv, NEW w \in Workers, NEW kind, EndSession(w, kind)
  PROVE  [Request!Next]_(Request!vars)
<1>1. /\ asks' = [asks EXCEPT ![w] = FALSE] /\ delivered' = [delivered EXCEPT ![w] = FALSE]
      /\ RequestOver(w)
  BY DEF EndSession
<1>2. CASE ~asks[w]
  <2>1. UNCHANGED <<asks, delivered, configSent>>
    BY <1>1, <1>2 DEF TypeOK, RequestInv, RequestOver
  <2>2. QED
    BY <2>1 DEF Request!vars, Asking
<1>3. CASE asks[w] /\ delivered[w]
  <2>1. Asking = {} /\ Asking' = {}
    BY <1>1, <1>3 DEF TypeOK, RequestInv, OneRequest, Asking
  <2>2. Answered /\ Answered'
    BY <1>1, <1>3 DEF RequestOver, Answered
  <2>3. UNCHANGED Request!vars
    BY <2>1, <2>2 DEF Request!vars, Asking, Answered
  <2>4. QED
    BY <2>3
<1>4. CASE asks[w] /\ ~delivered[w]
  <2>1. Asking = {w} /\ Asking' = {}
    BY <1>1, <1>4 DEF TypeOK, RequestInv, OneRequest, Asking
  <2>2. Answered' = Answered
    BY <1>1, <1>4 DEF TypeOK, RequestOver, Answered, RequestInv, OneRequest
  <2>3. Asker = w /\ Asker' = Nobody /\ w # Nobody
    BY <2>1, AskerIs, WorkerGroupAssumption DEF Asker
  <2>4. Request!GiveUp
    BY <2>2, <2>3 DEF Request!GiveUp, Asker, Answered
  <2>5. QED
    BY <2>4 DEF Request!Next
<1>5. QED
  BY <1>2, <1>3, <1>4

LEMMA RequestStep ==
  ASSUME TypeOK, RequestInv, [Next]_vars
  PROVE  [Request!Next]_(Request!vars)
<1>1. CASE UNCHANGED configVars
  BY <1>1, RequestStutter
<1>2. ASSUME NEW w \in Workers, WorkerStep(w)
      PROVE  [Request!Next]_(Request!vars)
  <2>1. CASE Swap(w)
    BY <2>1, RequestSwapStep
  <2>2. CASE ConfigAnswered(w)
    BY <2>2, RequestAnswerStep
  <2>3. CASE \E kind : EndSession(w, kind)
    BY <2>3, RequestEndStep
  <2>4. UNCHANGED configVars \/ Swap(w) \/ ConfigAnswered(w) \/ \E kind : EndSession(w, kind)
    BY <1>2 DEF WorkerStep, LocalStep, ConnectStep, ConfigStep, EndStep, StartWorker, Loop,
                Snapshot, Settled, PassGate, LockRefresh, Refetched, RefetchFails, Retry, Connected,
                ConnectFails, ConfigUnanswered, ConfigDenied, SessionEnds, SessionRotates
  <2>5. QED
    BY <1>1, <2>1, <2>2, <2>3, <2>4
<1>3. CASE UNCHANGED vars
  BY <1>1, <1>3 DEF vars
<1>4. CASE FreeGate \/ MainStep \/ EnvStep \/ \E g \in Groups : GroupStep(g)
  BY <1>1, <1>4 DEF FreeGate, MainStep, EnvStep, GroupStep, Consume, ConsumerEnds, CloseConfig,
         Exit, Cancel, TogglePause, Expire, Age, TakeTurn, LeavePause, Fetched, FetchFails,
         LeaveBackoff, HandOverLater, GroupEnds
<1>5. QED
  BY <1>2, <1>3, <1>4 DEF Next

(* Every behaviour of the groups is one of ConfigRequest.                  *)
THEOREM GroupsImplementConfigRequest == Spec => OneRequestAtATime
<1>1. Init => Request!Init
  BY DEF Init, Request!Init, Asking
<1>2. IInv /\ [Next]_vars => [Request!Next]_(Request!vars)
  BY RequestStep DEF IInv
<1>3. QED
  BY <1>1, <1>2, GroupsInvariant, PTL DEF Spec, OneRequestAtATime, Request!Spec

-----------------------------------------------------------------------------
(* What the liveness of the request and of the cascade rests on.           *)

(* configRequestInFlight is never left set by nobody: a worker asks, or    *)
(* the configuration has been brought back (group.go:211-218, 233-239).    *)
RequestIsSomeones == inFlight => configSent \/ \E w \in Workers : asks[w]

LEMMA RequestStaysSomeones ==
  ASSUME TypeOK, RequestInv, RequestIsSomeones, [Next]_vars
  PROVE  RequestIsSomeones'
<1>1. CASE UNCHANGED configVars
  BY <1>1 DEF RequestIsSomeones, configVars
<1>2. ASSUME NEW w \in Workers, NEW kind, EndSession(w, kind)
      PROVE  RequestIsSomeones'
  <2>1. asks' = [asks EXCEPT ![w] = FALSE] /\ RequestOver(w)
    BY <1>2 DEF EndSession
  <2>2. CASE asks[w]
    BY <2>1, <2>2 DEF RequestOver, RequestIsSomeones
  <2>3. CASE ~asks[w]
    BY <2>1, <2>3 DEF RequestOver, RequestIsSomeones, TypeOK
  <2>4. QED
    BY <2>2, <2>3
<1>3. ASSUME NEW w \in Workers, WorkerStep(w)
      PROVE  RequestIsSomeones'
  <2>1. CASE Swap(w)
    <3>1. asks' = [asks EXCEPT ![w] = ~inFlight] /\ UNCHANGED configSent /\ ~asks[w]
      BY <2>1 DEF Swap, RequestInv
    <3>2. CASE inFlight
      BY <3>1, <3>2 DEF RequestIsSomeones, TypeOK
    <3>3. CASE ~inFlight
      BY <3>1, <3>3 DEF RequestIsSomeones, TypeOK
    <3>4. QED
      BY <3>2, <3>3
  <2>2. CASE ConfigAnswered(w)
    BY <2>2 DEF ConfigAnswered, RequestIsSomeones
  <2>3. UNCHANGED configVars \/ Swap(w) \/ ConfigAnswered(w) \/ \E kind : EndSession(w, kind)
    BY <1>3 DEF WorkerStep, LocalStep, ConnectStep, ConfigStep, EndStep, StartWorker, Loop,
                Snapshot, Settled, PassGate, LockRefresh, Refetched, RefetchFails, Retry, Connected,
                ConnectFails, ConfigUnanswered, ConfigDenied, SessionEnds, SessionRotates
  <2>4. QED
    BY <1>1, <1>2, <2>1, <2>2, <2>3
<1>4. CASE FreeGate \/ MainStep \/ EnvStep \/ \E g \in Groups : GroupStep(g)
  BY <1>1, <1>4 DEF FreeGate, MainStep, EnvStep, GroupStep, Consume, ConsumerEnds, CloseConfig,
         Exit, Cancel, TogglePause, Expire, Age, TakeTurn, LeavePause, Fetched, FetchFails,
         LeaveBackoff, HandOverLater, GroupEnds
<1>5. QED
  BY <1>1, <1>3, <1>4 DEF Next, vars

(* A worker that finds the request in flight may leave it: whoever has it  *)
(* brings the configuration back or gives the request up                   *)
(* (group.go:211-218, 233-239).                                            *)
THEOREM NoRequestIsLost == Spec => []RequestIsSomeones
<1>1. Init => RequestIsSomeones
  BY DEF Init, RequestIsSomeones
<1>2. IInv /\ RequestIsSomeones /\ [Next]_vars => RequestIsSomeones'
  BY RequestStaysSomeones DEF IInv
<1>3. QED
  BY <1>1, <1>2, GroupsInvariant, PTL DEF Spec

(* Whoever locked a group's refreshMu is fetching its credentials: the     *)
(* mutex is unlocked on every way out, so the workers that wait for it     *)
(* wait for a fetch that returns (group.go:135-162).                       *)
RefreshLockIsHeld ==
  \A g \in Groups : refreshMu[g] # Nobody =>
    /\ refreshMu[g] \in Workers
    /\ pc[refreshMu[g]] = "refetch" /\ GroupOf[refreshMu[g]] = g

LEMMA RefreshLockStaysHeld ==
  ASSUME TypeOK, RefreshInv, RefreshLockIsHeld, [Next]_vars
  PROVE  RefreshLockIsHeld'
<1>1. CASE UNCHANGED <<refreshMu, pc>>
  BY <1>1 DEF RefreshLockIsHeld
<1>2. ASSUME NEW w \in Workers, WorkerStep(w)
      PROVE  RefreshLockIsHeld'
  <2>1. PICK there \in {"loop", "swap", "snapshot", "connect", "config", "up", "settle", "gate",
                 "refresh", "refetch", "retry", "gone"} :
      /\ pc' = [pc EXCEPT ![w] = there]
      /\ there = "refetch" => refreshMu' = [refreshMu EXCEPT ![GroupOf[w]] = w]
      /\ there # "refetch" => UNCHANGED refreshMu \/ Refetched(w) \/ RefetchFails(w)
    BY <1>2, WorkerMovesOnly DEF WorkerMoves
  <2>2. GroupOf[w] \in Groups /\ Nobody \notin Workers
    BY WorkerGroupAssumption
  <2>3. \A v \in Workers : pc'[v] = IF v = w THEN there ELSE pc[v]
    BY <2>1 DEF TypeOK
  <2>4. refreshMu \in [Groups -> Workers \cup {Nobody}]
    BY DEF TypeOK
  <2>5. CASE there = "refetch"
    BY <2>1, <2>2, <2>3, <2>4, <2>5 DEF RefreshLockIsHeld
  <2>6. CASE Refetched(w) \/ RefetchFails(w)
    <3>1. refreshMu' = [refreshMu EXCEPT ![GroupOf[w]] = Nobody]
      BY <2>6 DEF Refetched, RefetchFails
    <3>2. QED
      BY <2>2, <2>3, <2>4, <3>1 DEF RefreshLockIsHeld
  <2>7. CASE UNCHANGED refreshMu /\ ~(Refetched(w) \/ RefetchFails(w))
    <3>1. pc[w] # "refetch"
      BY <1>2, <2>7 DEF WorkerStep, LocalStep, ConnectStep, ConfigStep, EndStep, StartWorker, Loop,
                  Swap, Snapshot, Settled, PassGate, LockRefresh, Retry, Connected, ConnectFails,
                  ConfigAnswered, ConfigUnanswered, ConfigDenied, SessionEnds, SessionRotates
    <3>2. QED
      BY <2>3, <2>4, <2>7, <3>1 DEF RefreshLockIsHeld
  <2>8. QED
    BY <2>1, <2>5, <2>6, <2>7
<1>3. CASE FreeGate \/ MainStep \/ EnvStep \/ UNCHANGED vars \/ \E g \in Groups : GroupStep(g)
  <2>1. UNCHANGED <<refreshMu, pc>>
    BY <1>3 DEF FreeGate, MainStep, EnvStep, GroupStep, Consume, ConsumerEnds, CloseConfig, Exit,
                Cancel, TogglePause, Expire, Age, TakeTurn, LeavePause, Fetched, FetchFails,
                LeaveBackoff, HandOverLater, GroupEnds, credVars, vars
  <2>2. QED
    BY <1>1, <2>1
<1>4. QED
  BY <1>2, <1>3 DEF Next

(* No worker waits for a refresh nobody makes (group.go:135-162).          *)
THEOREM NoRefreshIsLost == Spec => []RefreshLockIsHeld
<1>1. Init => RefreshLockIsHeld
  BY DEF Init, RefreshLockIsHeld
<1>2. IInv /\ RefreshLockIsHeld /\ [Next]_vars => RefreshLockIsHeld'
  BY RefreshLockStaysHeld DEF IInv
<1>3. QED
  BY <1>1, <1>2, GroupsInvariant, PTL DEF Spec

(* A group that has ended has handed over, on whichever of its returns, or *)
(* the client is stopping and nobody waits for it (group.go:71-86).        *)
BatonIsPassedOn == \A g \in Groups : group[g] = "ended" /\ g < NumGroups => baton[g] \/ done

LEMMA BatonStaysPassedOn ==
  ASSUME TypeOK, BatonIsPassedOn, [Next]_vars
  PROVE  BatonIsPassedOn'
<1>1. CASE UNCHANGED groupVars /\ (done => done')
  BY <1>1 DEF BatonIsPassedOn, groupVars
<1>2. ASSUME NEW g \in Groups, GroupStep(g)
      PROVE  BatonIsPassedOn'
  <2>1. /\ done' = done
        /\ \A h \in Groups : baton[h] => baton'[h]
        /\ \A h \in Groups : h # g => group'[h] = group[h]
    BY <1>2 DEF GroupStep, TakeTurn, LeavePause, Fetched, FetchFails, LeaveBackoff, HandOverLater,
                GroupEnds, Return, HandOver, envVars, TypeOK
  <2>2. group'[g] = "ended" /\ g < NumGroups => baton'[g] \/ done
    <3>1. CASE Return(g)
      BY <3>1 DEF Return, HandOver, TypeOK
    <3>2. CASE group'[g] # "ended" \/ done \/ UNCHANGED groupVars
      BY <3>2 DEF BatonIsPassedOn, groupVars
    <3>3. Return(g) \/ group'[g] # "ended" \/ done \/ UNCHANGED groupVars
      BY <1>2 DEF GroupStep, TakeTurn, LeavePause, Fetched, FetchFails, LeaveBackoff,
                  HandOverLater, GroupEnds, TypeOK
    <3>4. QED
      BY <3>1, <3>2, <3>3
  <2>3. QED
    BY <2>1, <2>2 DEF BatonIsPassedOn
<1>3. ASSUME NEW w \in Workers, WorkerStep(w)
      PROVE  UNCHANGED <<groupVars, done>>
  BY <1>3 DEF WorkerStep, LocalStep, ConnectStep, ConfigStep, EndStep, StartWorker, Loop, Swap,
              Snapshot, Settled, PassGate, LockRefresh, Refetched, RefetchFails, Retry, Connected,
              ConnectFails, ConfigAnswered, ConfigUnanswered, ConfigDenied, SessionEnds,
              SessionRotates, envVars
<1>4. CASE FreeGate \/ MainStep \/ EnvStep \/ UNCHANGED vars
  <2>1. UNCHANGED groupVars /\ (done => done')
    BY <1>4 DEF FreeGate, MainStep, EnvStep, Consume, ConsumerEnds, CloseConfig, Exit, Cancel,
                TogglePause, Expire, Age, envVars, vars
  <2>2. QED
    BY <1>1, <2>1
<1>5. QED
  BY <1>1, <1>2, <1>3, <1>4 DEF Next

(* No group waits for a turn that cannot come: the one before it has not   *)
(* ended without handing over (group.go:71-86).                            *)
THEOREM NoBatonIsDropped == Spec => []BatonIsPassedOn
<1>1. Init => BatonIsPassedOn
  BY DEF Init, BatonIsPassedOn
<1>2. IInv /\ BatonIsPassedOn /\ [Next]_vars => BatonIsPassedOn'
  BY BatonStaysPassedOn DEF IInv
<1>3. QED
  BY <1>1, <1>2, GroupsInvariant, PTL DEF Spec

-----------------------------------------------------------------------------
(* The groups implement ClientLife.                                        *)

LifeOf == IF main # "waiting" THEN main ELSE IF done THEN "stopping" ELSE "running"

InOne == {"connect", "config", "up"}

(* A worker reports, if at all, at the end of its session.                 *)
LEMMA WorkerTells ==
  ASSUME TypeOK, NEW w \in Workers, WorkerStep(w)
  PROVE  \/ told' = told
         \/ told' = TRUE /\ pc[w] \in InOne /\ pc'[w] \notin InOne
<1>1. ASSUME NEW kind, EndSession(w, kind), pc[w] \in InOne
      PROVE  \/ told' = told
             \/ told' = TRUE /\ pc[w] \in InOne /\ pc'[w] \notin InOne
  <2>1. told' \in {told, TRUE}
    BY <1>1 DEF EndSession, Report, TypeOK
  <2>2. pc'[w] \notin InOne
    BY <1>1, EndSessionPlace DEF TypeOK, InOne
  <2>3. QED
    BY <1>1, <2>1, <2>2
<1>2. CASE \E kind : EndSession(w, kind)
  <2>1. pc[w] \in InOne \/ UNCHANGED told
    BY DEF WorkerStep, LocalStep, ConnectStep, ConfigStep, EndStep, StartWorker, Loop, Swap,
           Snapshot, Settled, PassGate, LockRefresh, Refetched, RefetchFails, Retry, Connected,
           ConnectFails, ConfigAnswered, ConfigUnanswered, ConfigDenied, SessionEnds,
           SessionRotates, InOne
  <2>2. QED
    BY <1>1, <1>2, <2>1
<1>3. UNCHANGED told \/ \E kind : EndSession(w, kind)
  BY DEF WorkerStep, LocalStep, ConnectStep, ConfigStep, EndStep, StartWorker, Loop, Swap,
         Snapshot, Settled, PassGate, LockRefresh, Refetched, RefetchFails, Retry, Connected,
         ConnectFails, ConfigAnswered, ConfigUnanswered, ConfigDenied, SessionEnds, SessionRotates
<1>4. QED
  BY <1>2, <1>3

LEMMA LifeWorkerStep ==
  ASSUME IInv, NEW w \in Workers, WorkerStep(w)
  PROVE  [Life!Next]_(Life!vars)
<1>1. PICK there \in {"loop", "swap", "snapshot", "connect", "config", "up", "settle", "gate",
                      "refresh", "refetch", "retry", "gone"} :
        /\ pc' = [pc EXCEPT ![w] = there]
        /\ pc[w] = "off" => group[GroupOf[w]] = "run"
        /\ pc[w] # "gone"
        /\ UNCHANGED <<done, main>>
  BY WorkerMovesOnly DEF WorkerMoves, IInv
<1>2. main = "waiting"
  BY <1>1, WorkerGroupAssumption DEF IInv, EndInv, AllEnded
<1>3. LifeOf \in {"running", "stopping"} /\ LifeOf' = LifeOf
  BY <1>1, <1>2 DEF LifeOf
<1>4. \A v \in Workers : pc'[v] = IF v = w THEN there ELSE pc[v]
  BY <1>1 DEF IInv, TypeOK
<1>5. told' = told \/ (told' = TRUE /\ pc[w] \in InOne /\ there \notin InOne)
  BY <1>4, WorkerTells DEF IInv
<1>6. CASE pc[w] \notin InOne /\ there \in InOne
  <2>1. w \notin InSession /\ InSession' = InSession \cup {w} /\ told' = told
    BY <1>4, <1>5, <1>6 DEF InSession, InOne
  <2>2. Life!Start(w)
    BY <1>3, <2>1 DEF Life!Start, Life!Working, LifeOf
  <2>3. QED
    BY <2>2 DEF Life!Next
<1>7. CASE pc[w] \in InOne /\ there \notin InOne
  <2>1. w \in InSession /\ InSession' = InSession \ {w} /\ told' \in {told, TRUE}
    BY <1>4, <1>5, <1>7 DEF InSession, InOne
  <2>2. Life!End(w)
    BY <1>3, <2>1 DEF Life!End, Life!Working, LifeOf
  <2>3. QED
    BY <2>2 DEF Life!Next
<1>8. CASE pc[w] \in InOne <=> there \in InOne
  <2>1. InSession' = InSession /\ told' = told
    BY <1>4, <1>5, <1>8 DEF InSession, InOne
  <2>2. QED
    BY <1>3, <2>1 DEF Life!vars, LifeOf
<1>9. QED
  BY <1>6, <1>7, <1>8

LEMMA LifeGroupStep ==
  ASSUME IInv, NEW g \in Groups, GroupStep(g)
  PROVE  [Life!Next]_(Life!vars)
<1>1. group[g] # "ended" /\ UNCHANGED <<pc, main, done>> /\ (told' = told \/ told' = TRUE)
  BY DEF GroupStep, TakeTurn, LeavePause, Fetched, FetchFails, LeaveBackoff, HandOverLater,
         GroupEnds, envVars, mainVars
<1>2. main = "waiting"
  BY <1>1 DEF IInv, EndInv, AllEnded
<1>3. LifeOf \in {"running", "stopping"} /\ LifeOf' = LifeOf /\ InSession' = InSession
  BY <1>1, <1>2 DEF LifeOf, InSession
<1>4. CASE told' = told
  BY <1>3, <1>4 DEF Life!vars, LifeOf
<1>5. CASE told' = TRUE
  <2>1. Life!Tell
    BY <1>3, <1>5 DEF Life!Tell, Life!Working, LifeOf
  <2>2. QED
    BY <2>1 DEF Life!Next
<1>6. QED
  BY <1>1, <1>4, <1>5

LEMMA LifeMainStep ==
  ASSUME IInv, FreeGate \/ MainStep \/ EnvStep
  PROVE  [Life!Next]_(Life!vars)
<1>1. UNCHANGED <<pc, told, InSession>>
  BY DEF FreeGate, MainStep, EnvStep, Consume, ConsumerEnds, CloseConfig, Exit, Cancel,
         TogglePause, Expire, Age, InSession
<1>2. CASE UNCHANGED <<done, main>>
  BY <1>1, <1>2 DEF Life!vars
<1>3. CASE done' = TRUE /\ main' = main
  <2>1. LifeOf' = LifeOf \/ (LifeOf = "running" /\ LifeOf' = "stopping")
    BY <1>3 DEF LifeOf, IInv, TypeOK
  <2>2. Life!Stop \/ UNCHANGED Life!vars
    BY <1>1, <2>1 DEF Life!Stop, Life!vars, LifeOf
  <2>3. QED
    BY <2>2 DEF Life!Next
<1>4. CASE CloseConfig
  <2>1. AllEnded /\ main = "waiting" /\ main' = "closed"
    BY <1>4 DEF CloseConfig
  <2>2. done \/ told
    BY <2>1, WorkerGroupAssumption DEF AllEnded, IInv, EndInv, ToldBeforeGivingUp, Groups
  <2>3. InSession = {}
    BY <2>1, WorkerGroupAssumption DEF AllEnded, IInv, EndInv, InSession
  <2>4. Life!Close
    BY <1>1, <2>1, <2>2, <2>3 DEF Life!Close
  <2>5. QED
    BY <2>4 DEF Life!Next
<1>5. CASE Exit
  <2>1. Life!Exit
    BY <1>1, <1>5 DEF Exit, Life!Exit
  <2>2. QED
    BY <2>1 DEF Life!Next
<1>6. UNCHANGED <<done, main>> \/ (done' = TRUE /\ main' = main) \/ CloseConfig \/ Exit
  BY DEF FreeGate, MainStep, EnvStep, Consume, ConsumerEnds, Cancel, TogglePause, Expire, Age,
         envVars, mainVars
<1>7. QED
  BY <1>2, <1>3, <1>4, <1>5, <1>6

(* Every behaviour of the groups and main is one of ClientLife, for any    *)
(* number of groups and workers (main.go:680-701).                         *)
THEOREM GroupsImplementClientLife == Spec => LivesAsPromised
<1>1. Init => Life!Init
  BY DEF Init, Life!Init, InSession
<1>2. IInv /\ [Next]_vars => [Life!Next]_(Life!vars)
  <2>1. CASE UNCHANGED vars
    BY <2>1 DEF vars, envVars, mainVars, Life!vars, InSession
  <2>2. QED
    BY <2>1, LifeWorkerStep, LifeGroupStep, LifeMainStep DEF Next
<1>3. QED
  BY <1>1, <1>2, GroupsInvariant, PTL DEF Spec, LivesAsPromised, Life!Spec
=============================================================================
