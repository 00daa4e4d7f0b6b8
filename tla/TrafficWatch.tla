---------------------------- MODULE TrafficWatch ----------------------------
(***************************************************************************)
(* The traffic watch of a netifd interface (client/netifd.go 340-479) and  *)
(* its probe (client/probe_linux.go 30-134): when the client stops         *)
(* believing in a tunnel that delivers nothing, and gives it up.           *)
(*                                                                         *)
(* Time is counted in ticks of the watch's ticker.  What is at the other   *)
(* end - the server, the WireGuard interface pointed at the relay - is     *)
(* external and taken from how the watch's comments describe it.           *)
(***************************************************************************)
EXTENDS Naturals

CONSTANTS
  ProbeAfter,   \* netifdProbeAfter, netifdStallTimeout and netifdProbeArmFor,
  StallTimeout, \* in ticks
  ProbeArmFor,
  Patience,     \* a far end that is well answers within that many ticks
  Keepalive     \* WireGuard sends at least that often

ASSUME WatchAssumption ==
  /\ ProbeAfter \in Nat \ {0} /\ StallTimeout \in Nat /\ ProbeArmFor \in Nat
  /\ Patience \in Nat \ {0} /\ Keepalive \in Nat \ {0}
  /\ ProbeAfter + Patience + 1 < StallTimeout
  /\ Keepalive + Patience < StallTimeout

VARIABLES
  mode,      \* "rawtun": probed through its device; "wireguard": has none
  watch,     \* "wait" for the tick, "probe" (asking), "gaveUp", "stopped"
  idleIn,    \* ticks since TotalBytesDown was seen to move, up to StallTimeout
  idleOut,   \* the same of TotalBytesUp (relay only)
  age,       \* ticks since the start, up to ProbeArmFor
  received,  \* total > 0 when last sampled
  answered,  \* the watch's flag
  probe,     \* the socket: "none", "open", "replied" (its answered flag is set)
  arrived,   \* TotalBytesDown has moved since it was sampled
  sent,      \* TotalBytesUp has moved since it was sampled
  alive,     \* the far end delivers
  echoes,    \* the server answers echoes
  peer,      \* a WireGuard interface is pointed at the relay
  owed,      \* 0, or one more than the ticks an answer has been awaited
  blame      \* history: what was amiss since something last arrived

sampled == <<idleIn, idleOut, age, received>>
outside == <<mode, alive, echoes, peer>>
vars == <<watch, sampled, answered, probe, arrived, sent, outside, owed, blame>>

Open == watch \in {"wait", "probe"}
Upto(bound, n) == IF n < bound THEN n ELSE bound
Amiss == (IF alive THEN {} ELSE {"outage"}) \cup (IF peer THEN {} ELSE {"unused"})

-----------------------------------------------------------------------------
(* Traffic, and the far end (external).                                    *)

Arrives ==
  /\ arrived' = TRUE
  /\ owed' = 0
  /\ UNCHANGED <<watch, sampled, answered, sent, outside, blame>>

(* Ordinary traffic, asked for or not.                                     *)
Deliver ==
  /\ Open /\ alive
  /\ Arrives
  /\ UNCHANGED probe

(* The reply to a probe, read by drain.                                    *)
Reply ==
  /\ Open /\ alive /\ echoes
  /\ probe # "none" /\ owed > 0
  /\ probe' = "replied"
  /\ Arrives

(* What goes out; only WireGuard's own exchanges must be answered.         *)
Upload ==
  /\ Open /\ peer
  /\ sent' = TRUE
  /\ owed' = IF mode = "wireguard" /\ alive /\ owed = 0 THEN 1 ELSE owed
  /\ UNCHANGED <<watch, sampled, answered, probe, arrived, outside, blame>>

FarEndDies ==
  /\ Open /\ alive
  /\ alive' = FALSE
  /\ owed' = 0
  /\ blame' = blame \cup {"outage"}
  /\ UNCHANGED <<watch, sampled, answered, probe, arrived, sent, mode, echoes, peer>>

FarEndRecovers ==
  /\ Open /\ ~alive
  /\ alive' = TRUE
  /\ UNCHANGED <<watch, sampled, answered, probe, arrived, sent, mode, echoes, peer, owed, blame>>

(* The WireGuard interface is taken down, or brought up.                   *)
PeerChanges ==
  /\ Open /\ mode = "wireguard"
  /\ peer' = ~peer
  /\ owed' = 0
  /\ blame' = blame \cup {"unused"}
  /\ UNCHANGED <<watch, sampled, answered, probe, arrived, sent, mode, alive, echoes>>

-----------------------------------------------------------------------------
(* The watch.                                                              *)

(* What the environment owes by the next tick has come.                    *)
InTime ==
  /\ owed <= Patience
  /\ peer /\ mode = "wireguard" => sent \/ idleOut < Keepalive

(* The counters, sampled at a tick.                                        *)
Sample ==
  /\ InTime
  /\ age' = Upto(ProbeArmFor, age + 1)
  /\ idleIn' = IF arrived THEN 0 ELSE Upto(StallTimeout, idleIn + 1)
  /\ idleOut' = IF sent THEN 0 ELSE Upto(StallTimeout, idleOut + 1)
  /\ received' = (received \/ arrived)
  /\ arrived' = FALSE /\ sent' = FALSE
  /\ owed' = IF owed > 0 THEN owed + 1 ELSE 0
  /\ blame' = IF arrived THEN Amiss ELSE blame
  /\ UNCHANGED outside

WatchActionUnarmed(idle, old, ans) ==
  [probe |-> idle >= ProbeAfter, giveUp |-> idle >= StallTimeout]

(* netifdWatchAction.                                                      *)
WatchAction(idle, old, ans) ==
  IF ~ans
    THEN [probe |-> old < ProbeArmFor, giveUp |-> FALSE]
    ELSE [probe |-> idle >= ProbeAfter, giveUp |-> idle >= StallTimeout]

RelayStalledAtOnce(idle, out, rec) == rec /\ idle >= Keepalive /\ out < StallTimeout

RelayStalledBothWays(idle, out, rec) ==
  rec /\ idle >= StallTimeout /\ out >= StallTimeout

(* netifdRelayStalled.                                                     *)
RelayStalled(idle, out, rec) ==
  rec /\ idle >= StallTimeout /\ out < StallTimeout

TickRelay ==
  /\ watch = "wait" /\ mode = "wireguard"
  /\ Sample
  /\ watch' = IF RelayStalled(idleIn', idleOut', received') THEN "gaveUp" ELSE "wait"
  /\ UNCHANGED <<answered, probe>>

AnsweredByThisProbe == probe = "replied"

(* The flag outlives the probe it was read off.                            *)
AnsweredByNow == answered \/ probe = "replied"

TickProbed ==
  /\ watch = "wait" /\ mode = "rawtun"
  /\ Sample
  /\ answered' = AnsweredByNow
  /\ LET action == WatchAction(idleIn', age', answered')
     IN watch' = IF action.giveUp THEN "gaveUp"
                 ELSE IF action.probe THEN "probe" ELSE "wait"
  /\ UNCHANGED probe

(* The probe is opened if need be, and the echo sent.                      *)
ProbeSent ==
  /\ watch = "probe"
  /\ watch' = "wait"
  /\ probe' = IF probe = "none" THEN "open" ELSE probe
  /\ owed' = IF alive /\ echoes /\ owed = 0 THEN 1 ELSE owed
  /\ UNCHANGED <<sampled, answered, arrived, sent, outside, blame>>

(* A probe that could not be sent is closed and forgotten.                 *)
AfterFailure == "none"

(* The device has no address, or it has moved: a socket that was open is   *)
(* closed, and what it may have been answered with it.                     *)
ProbeFails ==
  /\ watch = "probe"
  /\ watch' = "wait"
  /\ probe' = AfterFailure
  /\ owed' = 0
  /\ blame' = blame \cup {"unsent"}
  /\ UNCHANGED <<sampled, answered, arrived, sent, outside>>

Stop ==
  /\ Open
  /\ watch' = "stopped"
  /\ UNCHANGED <<sampled, answered, probe, arrived, sent, outside, owed, blame>>

-----------------------------------------------------------------------------
Init ==
  /\ mode \in {"rawtun", "wireguard"}
  /\ watch = "wait"
  /\ idleIn = 0 /\ idleOut = 0 /\ age = 0
  /\ received = FALSE /\ answered = FALSE
  /\ probe = "none"
  /\ arrived = FALSE /\ sent = FALSE
  /\ alive = TRUE
  /\ echoes \in BOOLEAN
  /\ peer = TRUE
  /\ owed = 0
  /\ blame = {}

Next ==
  \/ Deliver \/ Reply \/ Upload
  \/ FarEndDies \/ FarEndRecovers \/ PeerChanges
  \/ TickRelay \/ TickProbed \/ ProbeSent \/ ProbeFails
  \/ Stop

Spec == Init /\ [][Next]_vars

(* The ticker ticks, and the send returns; WireGuard keeps its keepalive,  *)
(* and a far end that is well answers.                                     *)
FairSpec ==
  /\ Spec
  /\ WF_vars(TickRelay \/ TickProbed)
  /\ WF_vars(ProbeSent \/ ProbeFails)
  /\ WF_vars(~InTime /\ Upload) /\ WF_vars(~InTime /\ Deliver)

-----------------------------------------------------------------------------
(* Properties.                                                             *)

(* Every variable has its type.                                            *)
TypeOK ==
  /\ mode \in {"rawtun", "wireguard"}
  /\ watch \in {"wait", "probe", "gaveUp", "stopped"}
  /\ idleIn \in 0 .. StallTimeout /\ idleOut \in 0 .. StallTimeout
  /\ age \in 0 .. ProbeArmFor
  /\ received \in BOOLEAN /\ answered \in BOOLEAN
  /\ probe \in {"none", "open", "replied"}
  /\ arrived \in BOOLEAN /\ sent \in BOOLEAN
  /\ alive \in BOOLEAN /\ echoes \in BOOLEAN /\ peer \in BOOLEAN
  /\ owed \in 0 .. Patience + 1
  /\ blame \subseteq {"outage", "unsent", "unused"}

(* A tunnel that works is never given up, however quiet it is and whatever *)
(* its server makes of echoes: since something last came back there was an *)
(* outage, or a probe that could not be sent, or a WireGuard interface     *)
(* that went away (netifd.go:288-294, 327-330).                            *)
NoneGivenUpWithoutCause == watch = "gaveUp" => blame # {}

(* A tunnel whose server has answered a probe and then stops delivering    *)
(* is given up, unless it recovers (netifd.go:332-339).                    *)
DeadTunnelIsGivenUp ==
  (answered /\ ~alive /\ Open) ~> (alive \/ ~Open)

(* The same of a relay that has delivered, as long as WireGuard keeps its  *)
(* outbound side going (netifd.go:350-357).                                *)
StalledRelayIsGivenUp ==
  (mode = "wireguard" /\ received /\ ~alive /\ peer /\ Open) ~> (alive \/ ~peer \/ ~Open)
=============================================================================
