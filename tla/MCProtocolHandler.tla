-------------------------- MODULE MCProtocolHandler -------------------------
(***************************************************************************)
(* Two interfaces and the sections the operator writes for them.           *)
(***************************************************************************)
EXTENDS ProtocolHandler, TLC

CONSTANTS a, b

Raw(id) == [proto |-> "qwdtt", mode |-> "rawtun", parked |-> "no", id |-> id, port |-> 9000]
Relay(id, port) == [Raw(id) EXCEPT !.mode = "wireguard", !.port = port]
Disabled(c) == [c EXCEPT !.parked = "disabled"]
NotAuto(c) == [c EXCEPT !.parked = "auto"]
Other == [Raw(0) EXCEPT !.proto = "other", !.parked = "disabled"]

(* Edits of everything that two tunnels may have in common.                *)
Conflicts ==
  (a :> {Raw(1), Disabled(Raw(1)), Relay(2, 9000), Other}) @@
  (b :> {Relay(1, 9001), Relay(3, 9000)})
ConflictsFirst == (a :> Raw(1)) @@ (b :> Relay(3, 9000))

(* A rawtun tunnel becomes a relay that does not start by itself.          *)
Switched == (a :> {Raw(1), NotAuto(Relay(1, 9000))}) @@ (b :> {Relay(2, 9000)})
SwitchedFirst == (a :> Raw(1)) @@ (b :> Relay(2, 9000))

=============================================================================
