------------------------- MODULE TrafficWatchProofs -------------------------
(***************************************************************************)
(* Proofs about TrafficWatch: for any timeouts that leave the far end time *)
(* to answer.                                                              *)
(***************************************************************************)
EXTENDS TrafficWatch, TLAPS

(* With nothing to blame, everything is as it should be.                   *)
NothingAmiss == blame = {} => alive /\ peer

(* What a tunnel is judged by: a probe is sent, and answered, only where   *)
(* there is a device and a server that echoes.                             *)
ProbesAnswered ==
  /\ watch = "probe" => mode = "rawtun"
  /\ answered \/ probe = "replied" => echoes

(* The ticks an answer to a probe has been awaited, the one about to be    *)
(* sent among them.                                                        *)
Awaited == IF owed > 0 THEN owed ELSE IF watch = "probe" THEN 1 ELSE 0

(* Once the tunnel can be given up, its silence is never longer than it    *)
(* takes to probe and to be answered.                                      *)
SilenceIsProbed ==
  mode = "rawtun" /\ Open /\ blame = {} /\ (answered \/ probe = "replied") /\ ~arrived
    => idleIn < ProbeAfter + Awaited

(* A relay's inbound side is never silent for longer than its outbound     *)
(* side and an answer.                                                     *)
SilenceIsShared ==
  mode = "wireguard" /\ blame = {} =>
    /\ idleOut <= Keepalive
    /\ ~arrived /\ owed = 0 => ~sent /\ idleIn <= idleOut
    /\ ~arrived /\ owed > 0 => idleIn < Keepalive + owed

IInv ==
  /\ TypeOK /\ NothingAmiss /\ ProbesAnswered /\ SilenceIsProbed /\ SilenceIsShared
  /\ NoneGivenUpWithoutCause

-----------------------------------------------------------------------------
(* The timeouts, for arithmetic.                                           *)
LEMMA Numbers ==
  /\ ProbeAfter \in Nat /\ ProbeAfter > 0 /\ Patience \in Nat /\ Patience > 0
  /\ Keepalive \in Nat /\ Keepalive > 0 /\ StallTimeout \in Nat /\ ProbeArmFor \in Nat
  /\ ProbeAfter + Patience + 1 < StallTimeout /\ Keepalive + Patience < StallTimeout
BY WatchAssumption

(* The numbers a state holds, for arithmetic.                              *)
LEMMA Counts ==
  /\ TypeOK => idleIn \in Nat /\ idleOut \in Nat /\ owed \in Nat /\ owed <= Patience + 1
  /\ TypeOK' => idleIn' \in Nat /\ idleOut' \in Nat /\ owed' \in Nat /\ owed' <= Patience + 1
BY Numbers DEF TypeOK

LEMMA InitIInv == Init => IInv
<1> SUFFICES ASSUME Init PROVE IInv  OBVIOUS
<1>1. 0 \in 0 .. StallTimeout /\ 0 \in 0 .. ProbeArmFor /\ 0 \in 0 .. Patience + 1
  BY Numbers
<1>2. TypeOK  BY <1>1 DEF Init, TypeOK
<1>3. SilenceIsProbed /\ SilenceIsShared
  BY Numbers DEF Init, SilenceIsProbed, SilenceIsShared, Awaited
<1>4. NothingAmiss /\ ProbesAnswered /\ NoneGivenUpWithoutCause
  BY DEF Init, NothingAmiss, ProbesAnswered, NoneGivenUpWithoutCause
<1> QED  BY <1>2, <1>3, <1>4 DEF IInv

(* Traffic, and what becomes of the far end.                               *)
LEMMA OutsideKeeps ==
  ASSUME IInv, Deliver \/ Reply \/ Upload \/ FarEndDies \/ FarEndRecovers \/ PeerChanges
  PROVE  IInv'
<1>0. /\ TypeOK /\ NothingAmiss /\ ProbesAnswered /\ SilenceIsProbed /\ SilenceIsShared
      /\ NoneGivenUpWithoutCause
  BY DEF IInv
<1>1. CASE Deliver \/ Reply
  <2>1. /\ arrived' = TRUE /\ owed' = 0 /\ probe' \in {probe, "replied"}
        /\ probe' = "replied" => echoes
        /\ UNCHANGED <<watch, mode, alive, echoes, peer, idleIn, idleOut, age, received,
                       answered, sent, blame>>
    BY <1>0, <1>1 DEF Deliver, Reply, Arrives, outside, sampled, ProbesAnswered
  <2>2. TypeOK'  BY <1>0, <2>1, Numbers DEF TypeOK
  <2>3. NothingAmiss' /\ ProbesAnswered' /\ SilenceIsProbed' /\ SilenceIsShared'
        /\ NoneGivenUpWithoutCause'
    BY <1>0, <2>1 DEF NothingAmiss, ProbesAnswered, SilenceIsProbed, SilenceIsShared,
                      NoneGivenUpWithoutCause
  <2> QED  BY <2>2, <2>3 DEF IInv
<1>2. CASE Upload
  <2>1. /\ sent' = TRUE
        /\ owed' = IF mode = "wireguard" /\ alive /\ owed = 0 THEN 1 ELSE owed
        /\ UNCHANGED <<watch, mode, alive, echoes, peer, idleIn, idleOut, age, received,
                       answered, probe, arrived, blame>>
    BY <1>2 DEF Upload, outside, sampled
  <2>2. owed \in Nat /\ idleIn \in Nat /\ idleOut \in Nat /\ Keepalive \in Nat
    BY <1>0, Numbers DEF TypeOK
  <2>3. TypeOK'
    <3>1. owed' \in 0 .. Patience + 1  BY <1>0, <2>1, Numbers DEF TypeOK
    <3> QED  BY <1>0, <2>1, <3>1 DEF TypeOK
  <2>4. SilenceIsShared'
    BY <1>0, <2>1, <2>2 DEF SilenceIsShared, NothingAmiss
  <2>5. SilenceIsProbed'
    BY <1>0, <2>1 DEF SilenceIsProbed, Awaited, Open
  <2>6. NothingAmiss' /\ ProbesAnswered' /\ NoneGivenUpWithoutCause'
    BY <1>0, <2>1 DEF NothingAmiss, ProbesAnswered, NoneGivenUpWithoutCause
  <2> QED  BY <2>3, <2>4, <2>5, <2>6 DEF IInv
<1>3. CASE FarEndDies \/ FarEndRecovers \/ PeerChanges
  <2>1. /\ owed' \in {owed, 0} /\ alive' \in BOOLEAN /\ peer' \in BOOLEAN
        /\ blame' # {} /\ blame' \subseteq {"outage", "unsent", "unused"}
        /\ UNCHANGED <<watch, mode, echoes, idleIn, idleOut, age, received, answered, probe,
                       arrived, sent>>
    BY <1>0, <1>3
       DEF FarEndDies, FarEndRecovers, PeerChanges, sampled, TypeOK, NothingAmiss
  <2>2. TypeOK'  BY <1>0, <2>1, Numbers DEF TypeOK
  <2>3. NothingAmiss' /\ ProbesAnswered' /\ SilenceIsProbed' /\ SilenceIsShared'
        /\ NoneGivenUpWithoutCause'
    BY <1>0, <2>1 DEF NothingAmiss, ProbesAnswered, SilenceIsProbed, SilenceIsShared,
                      NoneGivenUpWithoutCause
  <2> QED  BY <2>2, <2>3 DEF IInv
<1> QED  BY <1>1, <1>2, <1>3

(* What a sample leaves to judge by.                                       *)
LEMMA SampleGives ==
  ASSUME IInv, Sample
  PROVE  /\ idleIn' \in 0 .. StallTimeout /\ idleOut' \in 0 .. StallTimeout
         /\ age' \in 0 .. ProbeArmFor /\ received' \in BOOLEAN
         /\ arrived' = FALSE /\ sent' = FALSE
         /\ owed' \in 0 .. Patience + 1 /\ (owed > 0 => owed' = owed + 1) /\ (owed = 0 => owed' = 0)
         /\ blame' \subseteq {"outage", "unsent", "unused"}
         /\ blame' = {} => alive /\ peer
         /\ blame' = {} /\ ~arrived => blame = {} /\ idleIn' <= idleIn + 1
         /\ arrived => idleIn' = 0
         /\ ~sent => idleOut' = Upto(StallTimeout, idleOut + 1)
         /\ sent => idleOut' = 0
         /\ ~arrived => idleIn' = Upto(StallTimeout, idleIn + 1)
         /\ UNCHANGED <<mode, alive, echoes, peer>>
<1>0. TypeOK /\ NothingAmiss  BY DEF IInv
<1>1. /\ idleIn \in Nat /\ idleOut \in Nat /\ age \in Nat /\ owed \in Nat
      /\ StallTimeout \in Nat /\ ProbeArmFor \in Nat /\ Patience \in Nat
  BY <1>0, Numbers DEF TypeOK
<1>2. /\ 0 \in 0 .. StallTimeout
      /\ Upto(StallTimeout, idleIn + 1) \in 0 .. StallTimeout
      /\ Upto(StallTimeout, idleIn + 1) <= idleIn + 1
      /\ Upto(StallTimeout, idleOut + 1) \in 0 .. StallTimeout
      /\ Upto(ProbeArmFor, age + 1) \in 0 .. ProbeArmFor
  BY <1>1 DEF Upto
<1>3. /\ idleIn' \in 0 .. StallTimeout /\ idleOut' \in 0 .. StallTimeout
      /\ age' \in 0 .. ProbeArmFor
      /\ ~arrived => idleIn' <= idleIn + 1
  BY <1>2 DEF Sample
<1>4. owed' \in 0 .. Patience + 1 /\ (owed > 0 => owed' = owed + 1) /\ (owed = 0 => owed' = 0)
  BY <1>1 DEF Sample, InTime
<1>5. /\ blame' \subseteq {"outage", "unsent", "unused"}
      /\ blame' = {} => alive /\ peer
      /\ blame' = {} /\ ~arrived => blame = {}
  BY <1>0 DEF Sample, Amiss, TypeOK, NothingAmiss
<1> QED  BY <1>0, <1>3, <1>4, <1>5 DEF Sample, outside, TypeOK

LEMMA TickRelayKeeps == ASSUME IInv, TickRelay PROVE IInv'
<1>0. /\ TypeOK /\ NothingAmiss /\ ProbesAnswered /\ SilenceIsShared  BY DEF IInv
<1>1. Sample /\ watch = "wait" /\ mode = "wireguard" /\ mode' = "wireguard"
      /\ UNCHANGED <<answered, probe, mode, alive, echoes, peer>>
      /\ watch' = IF RelayStalled(idleIn', idleOut', received') THEN "gaveUp" ELSE "wait"
  BY DEF TickRelay, Sample, outside
<1>2. TypeOK'
  BY <1>0, <1>1, SampleGives DEF TypeOK
<1>3. SilenceIsShared'
  <2> SUFFICES ASSUME blame' = {}
               PROVE  /\ idleOut' <= Keepalive
                      /\ owed' = 0 => idleIn' <= idleOut'
                      /\ owed' > 0 => idleIn' < Keepalive + owed'
    BY <1>1, SampleGives DEF SilenceIsShared
  <2>1. /\ idleIn \in Nat /\ idleOut \in Nat /\ owed \in Nat /\ StallTimeout \in Nat
        /\ Keepalive \in Nat /\ Keepalive > 0
    BY <1>0, Numbers, Counts
  <2>2. peer /\ (sent \/ idleOut < Keepalive)
    BY <1>1, SampleGives DEF Sample, InTime
  <2>3. idleOut' <= Keepalive
    BY <1>1, <2>1, <2>2, SampleGives DEF Upto
  <2>4. CASE arrived
    <3>1. idleIn' \in Nat /\ idleIn' <= 0 /\ owed' \in Nat /\ idleOut' \in Nat
      BY <1>1, <1>2, <2>4, SampleGives, Counts
    <3>2. owed' > 0 => idleIn' < Keepalive + owed'
      <4> DEFINE in == idleIn'  ow == owed'
      <4>1. in \in Nat /\ ow \in Nat /\ in <= 0  BY <3>1
      <4> HIDE DEF in, ow
      <4>2. ow > 0 => in < Keepalive + ow  BY <2>1, <4>1
      <4> QED  BY <4>2 DEF in, ow
    <3> QED  BY <2>3, <3>1, <3>2
  <2>5. CASE ~arrived
    <3>1. blame = {} /\ idleIn' <= idleIn + 1 /\ idleIn' = Upto(StallTimeout, idleIn + 1)
      BY <1>1, <2>5, SampleGives
    <3>2. /\ owed = 0 => ~sent /\ idleIn <= idleOut
          /\ owed > 0 => idleIn < Keepalive + owed
      BY <1>0, <1>1, <2>5, <3>1 DEF SilenceIsShared
    <3>3. owed = 0 => owed' = 0 /\ idleIn' <= idleOut'
      BY <1>1, <2>1, <3>1, <3>2, SampleGives DEF Upto
    <3>4. owed > 0 => owed' = owed + 1 /\ idleIn' < Keepalive + owed'
      <4>1. idleIn' \in Nat  BY <1>2, Counts
      <4> QED  BY <1>1, <2>1, <3>1, <3>2, <4>1, SampleGives
    <3> QED  BY <2>1, <2>3, <3>3, <3>4
  <2> QED  BY <2>4, <2>5
<1>4. NoneGivenUpWithoutCause'
  <2> SUFFICES ASSUME blame' = {} PROVE idleIn' < StallTimeout
    BY <1>1, <1>2, Numbers, Counts DEF NoneGivenUpWithoutCause, RelayStalled
  <2>1. /\ idleOut' <= Keepalive
        /\ owed' = 0 => idleIn' <= idleOut'
        /\ owed' > 0 => idleIn' < Keepalive + owed'
    BY <1>1, <1>3, SampleGives DEF SilenceIsShared
  <2> QED  BY <1>2, <2>1, Numbers, Counts
<1>5. NothingAmiss' /\ ProbesAnswered' /\ SilenceIsProbed'
  BY <1>0, <1>1, SampleGives DEF NothingAmiss, ProbesAnswered, SilenceIsProbed
<1> QED  BY <1>2, <1>3, <1>4, <1>5 DEF IInv

LEMMA TickProbedKeeps == ASSUME IInv, TickProbed PROVE IInv'
<1>0. /\ TypeOK /\ NothingAmiss /\ ProbesAnswered /\ SilenceIsProbed  BY DEF IInv
<1> DEFINE action == WatchAction(idleIn', age', answered')
<1>1. Sample /\ watch = "wait" /\ mode = "rawtun" /\ mode' = "rawtun"
      /\ UNCHANGED <<probe, mode, alive, echoes, peer>>
      /\ answered' = (answered \/ probe = "replied")
      /\ watch' = IF action.giveUp THEN "gaveUp" ELSE IF action.probe THEN "probe" ELSE "wait"
  BY DEF TickProbed, Sample, outside, AnsweredByNow
<1>2. TypeOK'
  BY <1>0, <1>1, SampleGives DEF TypeOK
<1> DEFINE in == idleIn'  ow == owed'
<1>3. ASSUME blame' = {}, answered' \/ probe' = "replied"
      PROVE  in < StallTimeout /\ in < ProbeAfter + (IF ow > 0 THEN ow ELSE 1)
  <2>1. /\ idleIn \in Nat /\ in \in Nat /\ owed \in Nat /\ owed <= Patience + 1
        /\ ow \in Nat /\ ow <= Patience + 1 /\ Patience \in Nat
        /\ ProbeAfter \in Nat /\ ProbeAfter > 0
        /\ StallTimeout \in Nat /\ ProbeAfter + Patience + 1 < StallTimeout
    BY <1>0, <1>2, Numbers, Counts
  <2>2. CASE arrived
    <3>1. in <= 0  BY <1>1, <2>2, SampleGives
    <3> HIDE DEF in, ow
    <3> QED  BY <2>1, <3>1
  <2>3. CASE ~arrived
    <3>1. blame = {} /\ in <= idleIn + 1
      BY <1>1, <1>3, <2>3, SampleGives
    <3>2. idleIn < ProbeAfter + (IF owed > 0 THEN owed ELSE 0)
      BY <1>0, <1>1, <1>3, <2>3, <3>1 DEF SilenceIsProbed, Awaited, Open
    <3>3. (owed > 0 => ow = owed + 1) /\ (owed = 0 => ow = 0)
      BY <1>1, SampleGives
    <3> HIDE DEF in, ow
    <3> QED  BY <2>1, <3>1, <3>2, <3>3
  <2> QED  BY <2>2, <2>3
<1>4. action.giveUp => answered' /\ in >= StallTimeout
  BY DEF WatchAction
<1>5. NoneGivenUpWithoutCause'
  <2> SUFFICES ASSUME blame' = {}, action.giveUp PROVE FALSE
    BY <1>1 DEF NoneGivenUpWithoutCause
  <2>1. in \in Nat /\ StallTimeout \in Nat  BY <1>2, Numbers, Counts
  <2>2. in < StallTimeout /\ in >= StallTimeout  BY <1>3, <1>4
  <2> HIDE DEF in
  <2> QED  BY <2>1, <2>2
<1>6. SilenceIsProbed'
  <2> SUFFICES ASSUME blame' = {}, answered' \/ probe' = "replied", watch' \in {"wait", "probe"}
               PROVE  idleIn' < ProbeAfter + Awaited'
    BY DEF SilenceIsProbed, Open
  <2>1. answered'  BY <1>1
  <2>2. watch' = "wait" => in < ProbeAfter
    <3>1. ~action.probe => ~(in >= ProbeAfter)  BY <2>1 DEF WatchAction
    <3>2. in \in Nat /\ ProbeAfter \in Nat  BY <1>2, Numbers, Counts
    <3>3. ~(in >= ProbeAfter) => in < ProbeAfter
      <4> HIDE DEF in
      <4> QED  BY <3>2
    <3>4. watch' = "wait" => ~action.probe
      <4> HIDE DEF action, in
      <4> QED  BY <1>1
    <3> QED  BY <3>1, <3>3, <3>4
  <2>3. in < ProbeAfter + (IF ow > 0 THEN ow ELSE IF watch' = "probe" THEN 1 ELSE 0)
    <3>1. ow \in Nat /\ in \in Nat /\ ProbeAfter \in Nat  BY <1>2, Numbers, Counts
    <3>2. in < ProbeAfter + (IF ow > 0 THEN ow ELSE 1)  BY <1>3
    <3> HIDE DEF in, ow
    <3> QED  BY <2>2, <3>1, <3>2
  <2> QED  BY <2>3 DEF Awaited
<1>7. NothingAmiss' /\ ProbesAnswered' /\ SilenceIsShared'
  BY <1>0, <1>1, SampleGives DEF NothingAmiss, ProbesAnswered, SilenceIsShared
<1> QED  BY <1>2, <1>5, <1>6, <1>7 DEF IInv

LEMMA ProbeKeeps == ASSUME IInv, ProbeSent \/ ProbeFails \/ Stop PROVE IInv'
<1>0. /\ TypeOK /\ NothingAmiss /\ ProbesAnswered /\ SilenceIsProbed /\ SilenceIsShared
      /\ NoneGivenUpWithoutCause
  BY DEF IInv
<1>1. CASE ProbeSent
  <2>1. /\ watch = "probe" /\ watch' = "wait"
        /\ probe' \in {"none", "open", "replied"} /\ (probe' = "replied" <=> probe = "replied")
        /\ owed' = IF alive /\ echoes /\ owed = 0 THEN 1 ELSE owed
        /\ UNCHANGED <<mode, alive, echoes, peer, idleIn, idleOut, age, received, answered,
                       arrived, sent, blame>>
    BY <1>0, <1>1 DEF ProbeSent, outside, sampled, TypeOK
  <2>2. TypeOK'
    <3>1. owed' \in 0 .. Patience + 1  BY <1>0, <2>1, Numbers DEF TypeOK
    <3> QED  BY <1>0, <2>1, <3>1 DEF TypeOK
  <2>3. SilenceIsProbed'
    <3> SUFFICES ASSUME blame = {}, mode = "rawtun", answered \/ probe = "replied", ~arrived
                 PROVE  idleIn < ProbeAfter + Awaited'
      BY <2>1 DEF SilenceIsProbed
    <3>1. idleIn < ProbeAfter + Awaited  BY <1>0, <2>1 DEF SilenceIsProbed, Open
    <3>2. alive /\ echoes  BY <1>0 DEF NothingAmiss, ProbesAnswered
    <3>3. Awaited' = Awaited
      <4>1. owed \in Nat  BY <1>0, Counts
      <4> QED  BY <2>1, <3>2, <4>1 DEF Awaited
    <3> QED  BY <3>1, <3>3
  <2>4. NothingAmiss' /\ ProbesAnswered' /\ SilenceIsShared' /\ NoneGivenUpWithoutCause'
    BY <1>0, <2>1
       DEF NothingAmiss, ProbesAnswered, SilenceIsShared, NoneGivenUpWithoutCause
  <2> QED  BY <2>2, <2>3, <2>4 DEF IInv
<1>2. CASE ProbeFails
  <2>1. /\ watch' = "wait" /\ probe' = "none" /\ owed' = 0
        /\ blame' = blame \cup {"unsent"}
        /\ UNCHANGED <<mode, alive, echoes, peer, idleIn, idleOut, age, received, answered,
                       arrived, sent>>
    BY <1>2 DEF ProbeFails, AfterFailure, outside, sampled
  <2>2. TypeOK'  BY <1>0, <2>1, Numbers DEF TypeOK
  <2>3. NothingAmiss' /\ ProbesAnswered' /\ SilenceIsProbed' /\ SilenceIsShared'
        /\ NoneGivenUpWithoutCause'
    BY <1>0, <2>1
       DEF NothingAmiss, ProbesAnswered, SilenceIsProbed, SilenceIsShared,
           NoneGivenUpWithoutCause
  <2> QED  BY <2>2, <2>3 DEF IInv
<1>3. CASE Stop
  <2>1. /\ watch' = "stopped"
        /\ UNCHANGED <<mode, alive, echoes, peer, idleIn, idleOut, age, received, answered,
                       probe, arrived, sent, owed, blame>>
    BY <1>3 DEF Stop, outside, sampled
  <2>2. TypeOK'  BY <1>0, <2>1 DEF TypeOK
  <2>3. NothingAmiss' /\ ProbesAnswered' /\ SilenceIsProbed' /\ SilenceIsShared'
        /\ NoneGivenUpWithoutCause'
    BY <1>0, <2>1
       DEF NothingAmiss, ProbesAnswered, SilenceIsProbed, SilenceIsShared, Open,
           NoneGivenUpWithoutCause
  <2> QED  BY <2>2, <2>3 DEF IInv
<1> QED  BY <1>1, <1>2, <1>3

LEMMA NextIInv == IInv /\ [Next]_vars => IInv'
<1> SUFFICES ASSUME IInv, [Next]_vars PROVE IInv'  OBVIOUS
<1>1. CASE UNCHANGED vars
  BY <1>1 DEF vars, sampled, outside, IInv, TypeOK, NothingAmiss, ProbesAnswered, Awaited, Open,
              SilenceIsProbed, SilenceIsShared, NoneGivenUpWithoutCause
<1> QED
  BY <1>1, OutsideKeeps, TickRelayKeeps, TickProbedKeeps, ProbeKeeps DEF Next

-----------------------------------------------------------------------------
(* What it gives.                                                          *)

(* The invariant holds in every state.                                     *)
THEOREM WatchInvariant == Spec => []IInv
<1>1. QED  BY InitIInv, NextIInv, PTL DEF Spec

(* Every variable of the watch, its probe and the far end has its type.    *)
THEOREM WatchTypes == Spec => []TypeOK
<1>1. IInv => TypeOK  BY DEF IInv
<1> QED  BY WatchInvariant, <1>1, PTL

(* A tunnel that works is never given up (netifd.go:288-294, 327-330), for *)
(* whatever timeouts leave the far end time to answer.                     *)
THEOREM NeverWithoutCause == Spec => []NoneGivenUpWithoutCause
<1>1. IInv => NoneGivenUpWithoutCause  BY DEF IInv
<1> QED  BY WatchInvariant, <1>1, PTL

-----------------------------------------------------------------------------
(* How long a dead tunnel is believed in.                                  *)

(* A tunnel that has answered a probe is watched with less than the        *)
(* timeout of silence behind it; a relay with as much only if nothing goes *)
(* out either (netifd.go:340-360).                                         *)
SilenceIsBounded ==
  Open =>
    /\ mode = "rawtun" /\ answered => idleIn < StallTimeout
    /\ mode = "wireguard" /\ received /\ idleIn >= StallTimeout => idleOut >= StallTimeout

(* A tick with nothing come in gives an answered tunnel up or counts one   *)
(* more; and a relay, something having gone out.                           *)
EachTickCounts ==
  [][/\ TickProbed /\ answered /\ ~arrived => watch' = "gaveUp" \/ idleIn' = idleIn + 1
     /\ TickRelay /\ received /\ ~arrived /\ sent /\ idleIn < StallTimeout
          => watch' = "gaveUp" \/ idleIn' = idleIn + 1]_vars

LEMMA BoundedStep ==
  ASSUME IInv, SilenceIsBounded, [Next]_vars
  PROVE  SilenceIsBounded'
<1>1. TypeOK' /\ TypeOK
  BY NextIInv DEF IInv
<1>2. ASSUME UNCHANGED <<mode, answered, received, idleIn, idleOut>>, Open' => Open
      PROVE  SilenceIsBounded'
  BY <1>2 DEF SilenceIsBounded
<1>3. CASE TickRelay
  <2>1. mode' = "wireguard" /\ (Open' => ~RelayStalled(idleIn', idleOut', received'))
    BY <1>3 DEF TickRelay, Sample, outside, Open
  <2>2. idleOut' < StallTimeout \/ idleOut' >= StallTimeout
    BY <1>1, Counts, Numbers
  <2>3. QED
    BY <2>1, <2>2 DEF SilenceIsBounded, RelayStalled
<1>4. CASE TickProbed
  <2>1. mode' = "rawtun" /\ (Open' => ~WatchAction(idleIn', age', answered').giveUp)
    BY <1>4 DEF TickProbed, Sample, outside, Open
  <2>2. answered' => (WatchAction(idleIn', age', answered').giveUp <=> idleIn' >= StallTimeout)
    BY DEF WatchAction
  <2>3. idleIn' < StallTimeout \/ idleIn' >= StallTimeout
    BY <1>1, Counts, Numbers
  <2>4. QED
    BY <2>1, <2>2, <2>3 DEF SilenceIsBounded
<1>5. CASE Deliver \/ Reply \/ Upload \/ FarEndDies \/ FarEndRecovers \/ PeerChanges
  BY <1>2, <1>5 DEF Deliver, Reply, Arrives, Upload, FarEndDies, FarEndRecovers, PeerChanges,
                    sampled, outside, Open
<1>6. CASE ProbeSent \/ ProbeFails \/ Stop \/ UNCHANGED vars
  BY <1>2, <1>6 DEF ProbeSent, ProbeFails, Stop, vars, sampled, outside, Open
<1>7. QED
  BY <1>3, <1>4, <1>5, <1>6 DEF Next

(* No tunnel is watched through more silence than the timeout, whatever    *)
(* sequence of probes, answers and failures went before                    *)
(* (netifd.go:340-360).                                                    *)
THEOREM SilenceIsAlwaysBounded == Spec => []SilenceIsBounded
<1>1. Init => SilenceIsBounded
  <2>1. ASSUME Init PROVE idleIn < StallTimeout
    BY <2>1, Numbers DEF Init
  <2>2. QED
    BY <2>1 DEF Init, SilenceIsBounded
<1>2. IInv /\ SilenceIsBounded /\ [Next]_vars => SilenceIsBounded'
  BY BoundedStep
<1>3. QED
  BY <1>1, <1>2, WatchInvariant, PTL DEF Spec

(* So each tick brings a dead tunnel nearer to its end: it is given up     *)
(* after as many ticks as the timeout has (netifd.go:340-360).             *)
THEOREM TicksAreCounted == Spec => EachTickCounts
<1> DEFINE A == /\ TickProbed /\ answered /\ ~arrived => watch' = "gaveUp" \/ idleIn' = idleIn + 1
                /\ TickRelay /\ received /\ ~arrived /\ sent /\ idleIn < StallTimeout
                     => watch' = "gaveUp" \/ idleIn' = idleIn + 1
<1>1. IInv /\ SilenceIsBounded /\ [Next]_vars => [A]_vars
  <2>1. SUFFICES ASSUME IInv, SilenceIsBounded, Next PROVE A
    OBVIOUS
  <2>2. idleIn \in Nat /\ StallTimeout \in Nat
    BY <2>1, Counts, Numbers DEF IInv
  <2>3. ASSUME idleIn < StallTimeout PROVE Upto(StallTimeout, idleIn + 1) = idleIn + 1
    BY <2>2, <2>3 DEF Upto
  <2>4. CASE TickProbed /\ answered /\ ~arrived
    <3>1. idleIn < StallTimeout
      BY <2>1, <2>4 DEF TickProbed, SilenceIsBounded, Open
    <3>2. QED
      BY <2>3, <2>4, <3>1 DEF TickProbed, TickRelay, Sample
  <2>5. CASE TickRelay /\ ~arrived /\ idleIn < StallTimeout
    BY <2>3, <2>5 DEF TickRelay, TickProbed, Sample
  <2>6. QED
    BY <2>4, <2>5
<1>2. QED
  BY <1>1, WatchInvariant, SilenceIsAlwaysBounded, PTL DEF Spec, EachTickCounts
=============================================================================
