--------------------------- MODULE ProtocolHandler --------------------------
(***************************************************************************)
(* The netifd protocol handler (qwdtt-client/files/qwdtt.sh) of several    *)
(* qWDTT interfaces of one router, with what their clients leave on it: a  *)
(* device, run files and a SNAT rule.  The operator edits the network      *)
(* configuration at any time; netifd runs the handler and the clients.     *)
(*                                                                         *)
(* What a setup checks within its own section (a missing password, ...) is *)
(* left out: it refuses in the same way, before anything is compared.      *)
(***************************************************************************)
EXTENDS Naturals, FiniteSets

CONSTANTS
  Ifaces,   \* the interfaces
  Sections, \* [Ifaces -> the sections the operator may write]
  First,    \* [Ifaces -> the section at first]
  NoSection \* no client

(* A parked section has auto 0 (auto), or disabled 1.                      *)
ASSUME HandlerAssumption ==
  /\ First \in [Ifaces -> UNION {Sections[i] : i \in Ifaces}]
  /\ \A i \in Ifaces : First[i] \in Sections[i]
  /\ \A i \in Ifaces : \A c \in Sections[i] :
       c \in [proto : {"qwdtt", "other"}, mode : {"rawtun", "wireguard"},
              parked : {"no", "auto", "disabled"}, id : {c.id}, port : {c.port}]
  /\ \A i \in Ifaces : NoSection \notin Sections[i]

VARIABLES
  file,    \* [Ifaces -> the section in /etc/config/network]
  loaded,  \* [Ifaces -> the section netifd has loaded]
  wanted,  \* [Ifaces -> netifd's autostart: set up when down]
  state,   \* [Ifaces -> "down", "setup", "up", "teardown" or "killed"]
  error,   \* [Ifaces -> the code held against the interface]
  client,  \* [Ifaces -> the section the running client was started with]
  device,  \* [Ifaces -> a TUN device of its name exists]
  files,   \* [Ifaces -> its run files: "state" for all but "wg"]
  snat,    \* [Ifaces -> the firewall has its SNAT rule]
  had,     \* history: came up as rawtun, and was not edited since
  late     \* history: an edit has not been reloaded at once

config == <<file, loaded>>
history == <<had, late>>
left == <<device, files, snat>>
vars == <<config, wanted, state, error, client, left, history>>

Running == {"setup", "up"}

Set(f, i, value) == [f EXCEPT ![i] = value]

-----------------------------------------------------------------------------
(* What a setup asks about the other interfaces.                           *)

IdClaimMissing(i, j) == FALSE

(* qwdtt_claim.                                                            *)
IdClaim(i, j) ==
  /\ j # i
  /\ file[j].proto = "qwdtt" /\ file[j].parked # "disabled"
  /\ file[j].id = loaded[i].id

(* relay_running.                                                          *)
RelayRunning(j) == files[j] # {}

PortClaimOfRunning(i, j) ==
  /\ j # i
  /\ file[j].proto = "qwdtt" /\ file[j].mode = "wireguard"
  /\ RelayRunning(j)
  /\ file[j].port = loaded[i].port

(* qwdtt_port_claim.                                                       *)
PortClaim(i, j) ==
  /\ j # i
  /\ file[j].proto = "qwdtt" /\ file[j].mode = "wireguard"
  /\ file[j].parked # "no" => RelayRunning(j)
  /\ file[j].port = loaded[i].port

IsRelay(c) == c.mode = "wireguard"

-----------------------------------------------------------------------------
(* proto_qwdtt_setup, run by netifd for an interface that is down.         *)

Refuse(i, code) ==
  /\ error' = Set(error, i, code)
  /\ wanted' = Set(wanted, i, FALSE)
  /\ UNCHANGED <<config, state, client, left, history>>

(* The placeholder device of a relay cannot be made: nothing is blocked.   *)
NoRelayDevice(i) ==
  /\ IsRelay(loaded[i]) /\ ~device[i]
  /\ error' = Set(error, i, "NO_RELAY_DEVICE")
  /\ UNCHANGED <<config, wanted, state, client, left, history>>

StartClient(i) ==
  /\ state' = Set(state, i, "setup")
  /\ client' = Set(client, i, loaded[i])
  /\ device' = Set(device, i, device[i] \/ IsRelay(loaded[i]))
  /\ error' = Set(error, i, "none")
  /\ UNCHANGED <<config, wanted, files, snat, history>>

Setup(i) ==
  /\ state[i] = "down" /\ wanted[i]
  /\ IF \E j \in Ifaces : IdClaim(i, j) THEN Refuse(i, "DUPLICATE_DEVICE_ID")
     ELSE IF IsRelay(loaded[i]) /\ \E j \in Ifaces : PortClaim(i, j)
            THEN Refuse(i, "DUPLICATE_LISTEN_PORT")
     ELSE StartClient(i) \/ NoRelayDevice(i)

-----------------------------------------------------------------------------
(* The client, through its scripts and run files.                          *)

(* The watch's first tick, the first worker or relay.                      *)
WriteState(i) ==
  /\ client[i] # NoSection /\ state[i] \in Running
  /\ files' = Set(files, i, files[i] \cup {"state"})
  /\ UNCHANGED <<config, wanted, state, error, client, device, snat, history>>

(* qwdtt-relay-up.sh, as soon as the relay listens.                        *)
RelayUp(i) ==
  /\ state[i] = "setup" /\ IsRelay(client[i])
  /\ state' = Set(state, i, "up")
  /\ UNCHANGED <<config, wanted, error, client, left, history>>

StoreKey(i) ==
  /\ state[i] \in Running /\ IsRelay(client[i])
  /\ files' = Set(files, i, files[i] \cup {"wg"})
  /\ UNCHANGED <<config, wanted, state, error, client, device, snat, history>>

(* The TUN device, and qwdtt-up.sh.                                        *)
RawUp(i) ==
  /\ state[i] = "setup" /\ ~IsRelay(client[i])
  /\ state' = Set(state, i, "up")
  /\ device' = Set(device, i, TRUE)
  /\ snat' = Set(snat, i, TRUE)
  /\ files' = Set(files, i, files[i] \cup {"state"})
  /\ had' = Set(had, i, file[i] = client[i])
  /\ UNCHANGED <<config, wanted, error, client, late>>

(* A refusal reported through qwdtt-error.sh is blocked unless the client  *)
(* was merely not answered.                                                *)
ClientReports(i) ==
  /\ state[i] \in Running /\ client[i] # NoSection
  /\ \E blocked \in BOOLEAN :
       /\ error' = Set(error, i, IF blocked THEN "QWDTT_REFUSED" ELSE "QWDTT_NO_CONFIG")
       /\ wanted' = Set(wanted, i, wanted[i] /\ ~blocked)
  /\ UNCHANGED <<config, state, client, left, history>>

(* The client gives up, and netifd tears down.                             *)
ClientFails(i) ==
  /\ state[i] \in Running
  /\ client' = Set(client, i, NoSection)
  /\ state' = Set(state, i, "teardown")
  /\ UNCHANGED <<config, wanted, error, left, history>>

-----------------------------------------------------------------------------
(* proto_qwdtt_teardown: proto_kill_command asks netifd to signal the      *)
(* client and does not wait for it.                                        *)

KeepsNothing(i) == FALSE

Keeps(i) == file[i].proto = "qwdtt" /\ ~IsRelay(file[i])

Teardown(i) ==
  /\ state[i] = "teardown"
  /\ state' = Set(state, i, "killed")
  /\ IF Keeps(i) THEN UNCHANGED left
     ELSE /\ device' = Set(device, i, FALSE)
          /\ files' = Set(files, i, {})
          /\ snat' = Set(snat, i, FALSE)
  /\ UNCHANGED <<config, wanted, error, client, history>>

(* Killed, the client counts its workers down to none.                     *)
ClientExits(i) ==
  /\ state[i] \in {"teardown", "killed"} /\ client[i] # NoSection
  /\ client' = Set(client, i, NoSection)
  /\ \/ UNCHANGED files
     \/ files' = Set(files, i, files[i] \cup {"state"})
  /\ UNCHANGED <<config, wanted, state, error, device, snat, history>>

Down(i) ==
  /\ state[i] = "killed" /\ client[i] = NoSection
  /\ state' = Set(state, i, "down")
  /\ UNCHANGED <<config, wanted, error, client, left, history>>

-----------------------------------------------------------------------------
(* The operator and netifd (external).                                     *)

IfUp(i) ==
  /\ state[i] = "down" /\ ~wanted[i]
  /\ loaded[i].proto = "qwdtt" /\ loaded[i].parked # "disabled"
  /\ wanted' = Set(wanted, i, TRUE)
  /\ UNCHANGED <<config, state, error, client, left, history>>

IfDown(i) ==
  /\ state[i] \in Running
  /\ wanted' = Set(wanted, i, FALSE)
  /\ state' = Set(state, i, "teardown")
  /\ UNCHANGED <<config, error, client, left, history>>

(* netifd restarts an interface whose section has changed, in more than    *)
(* whether it starts by itself, and drops a disabled one.                  *)
Restarts(old, new) == [new EXCEPT !.parked = old.parked] # old \/ new.parked = "disabled"

Load(i, new) ==
  /\ loaded' = Set(loaded, i, new)
  /\ wanted' = Set(wanted, i, new.proto = "qwdtt" /\ new.parked = "no")
  /\ state' = Set(state, i, IF state[i] \in Running /\ Restarts(loaded[i], new)
                            THEN "teardown" ELSE state[i])

(* Saved and applied, or saved only.                                       *)
Edit(i, new) ==
  /\ new # file[i]
  /\ file' = Set(file, i, new)
  /\ had' = Set(had, i, FALSE)
  /\ \/ Load(i, new) /\ UNCHANGED late
     \/ late' = TRUE /\ UNCHANGED <<loaded, wanted, state>>
  /\ UNCHANGED <<error, client, left>>

Reload(i) ==
  /\ loaded[i] # file[i]
  /\ Load(i, file[i])
  /\ UNCHANGED <<file, error, client, left, history>>

-----------------------------------------------------------------------------
Init ==
  /\ file = First /\ loaded = First
  /\ wanted = [i \in Ifaces |-> First[i].proto = "qwdtt" /\ First[i].parked = "no"]
  /\ state = [i \in Ifaces |-> "down"]
  /\ error = [i \in Ifaces |-> "none"]
  /\ client = [i \in Ifaces |-> NoSection]
  /\ device = [i \in Ifaces |-> FALSE]
  /\ files = [i \in Ifaces |-> {}]
  /\ snat = [i \in Ifaces |-> FALSE]
  /\ had = [i \in Ifaces |-> FALSE]
  /\ late = FALSE

Next ==
  \E i \in Ifaces :
    \/ Setup(i)
    \/ WriteState(i) \/ RelayUp(i) \/ StoreKey(i) \/ RawUp(i)
    \/ ClientReports(i) \/ ClientFails(i)
    \/ Teardown(i) \/ ClientExits(i) \/ Down(i)
    \/ IfUp(i) \/ IfDown(i) \/ Reload(i)
    \/ \E new \in Sections[i] : Edit(i, new)

Spec == Init /\ [][Next]_vars

-----------------------------------------------------------------------------
(* Properties.                                                             *)

Written == UNION {Sections[i] : i \in Ifaces}

TypeOK ==
  /\ file \in [Ifaces -> Written] /\ loaded \in [Ifaces -> Written]
  /\ client \in [Ifaces -> Written \cup {NoSection}]
  /\ \A i \in Ifaces : file[i] \in Sections[i] /\ loaded[i] \in Sections[i]
  /\ \A i \in Ifaces : client[i] \in Sections[i] \cup {NoSection}
  /\ wanted \in [Ifaces -> BOOLEAN]
  /\ state \in [Ifaces -> Running \cup {"down", "teardown", "killed"}]
  /\ error \in [Ifaces -> {"none", "DUPLICATE_DEVICE_ID", "DUPLICATE_LISTEN_PORT",
                           "NO_RELAY_DEVICE", "QWDTT_REFUSED", "QWDTT_NO_CONFIG"}]
  /\ device \in [Ifaces -> BOOLEAN] /\ snat \in [Ifaces -> BOOLEAN]
  /\ files \in [Ifaces -> SUBSET {"state", "wg"}]
  /\ had \in [Ifaces -> BOOLEAN] /\ late \in BOOLEAN
  /\ \A i \in Ifaces : state[i] \in Running => client[i] # NoSection

Pairs == {p \in Ifaces \X Ifaces : p[1] # p[2] /\ \A k \in {1, 2} : state[p[k]] \in Running}

(* The server never takes two running tunnels of a router for one device,  *)
(* as long as what is edited is applied (qwdtt.sh:23-48, 308-314).         *)
IdsDiffer == ~late => \A p \in Pairs : client[p[1]].id # client[p[2]].id

(* On a router all of whose tunnels start by themselves or not at all, two *)
(* running relays never share a local port, which nothing would notice     *)
(* (qwdtt.sh:59-98).                                                       *)
PortsDiffer ==
  ~late /\ (\A i \in Ifaces : \A c \in Sections[i] : c.parked # "auto") =>
    \A p \in Pairs :
      IsRelay(client[p[1]]) /\ IsRelay(client[p[2]]) => client[p[1]].port # client[p[2]].port

(* A rawtun tunnel that has come up keeps its device, and so its interface *)
(* index, and its SNAT rule through every exit of the client and every     *)
(* ifdown, until it is edited (qwdtt.sh:109-121, 376-384).                 *)
ReconnectKeepsDevice == \A i \in Ifaces : had[i] => device[i] /\ snat[i]

(* A parked tunnel that does not run does not hold its port: a setup is    *)
(* refused for a port of a tunnel that may start, or runs                  *)
(* (qwdtt.sh:65-67).                                                       *)
RefusedForARunningOne ==
  [][\A i \in Ifaces :
       error[i] # error'[i] /\ error'[i] = "DUPLICATE_LISTEN_PORT" =>
         \E j \in Ifaces \ {i} : file[j].parked = "no" \/ state[j] # "down"]_vars

=============================================================================
