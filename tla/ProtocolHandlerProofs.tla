----------------------- MODULE ProtocolHandlerProofs ------------------------
(***************************************************************************)
(* The safety properties of the protocol handler, for any number of        *)
(* interfaces and any sections.  What a claim compares of another          *)
(* interface is its section in the file, so a running client must agree    *)
(* with it in what is compared, as long as edits are applied.              *)
(***************************************************************************)
EXTENDS ProtocolHandler, TLAPS

(* Only qWDTT tunnels are set up.                                          *)
OnlyTunnelsRun ==
  \A i \in Ifaces :
    /\ wanted[i] => loaded[i].proto = "qwdtt" /\ loaded[i].parked # "disabled"
    /\ client[i] # NoSection => client[i].proto = "qwdtt"

(* What a claim compares of the section f is as the client of c has it.    *)
AsFiled(c, f) ==
  /\ c.id = f.id /\ c.mode = f.mode /\ c.port = f.port
  /\ f.proto = "qwdtt" /\ f.parked # "disabled"

FileIsTrue ==
  ~late => \A i \in Ifaces :
             /\ loaded[i] = file[i]
             /\ state[i] \in Running => AsFiled(client[i], file[i])

(* A teardown drops no device that had is about.                           *)
KeptDevice == \A i \in Ifaces : had[i] => Keeps(i) /\ device[i] /\ snat[i]

IInv ==
  /\ TypeOK
  /\ OnlyTunnelsRun
  /\ FileIsTrue
  /\ KeptDevice
  /\ IdsDiffer
  /\ PortsDiffer

-----------------------------------------------------------------------------
(* Types.                                                                  *)

LEMMA SectionIsWritten ==
  ASSUME NEW i \in Ifaces, NEW c \in Sections[i]
  PROVE  c \in Written /\ c # NoSection
  BY HandlerAssumption DEF Written

LEMMA SetupTypes ==
  ASSUME TypeOK, NEW i \in Ifaces, Setup(i)
  PROVE  TypeOK'
<1>1. UNCHANGED <<file, loaded, files, snat, had, late>>
  BY DEF Setup, Refuse, StartClient, NoRelayDevice, config, left, history
<1>2. /\ client' \in [Ifaces -> Written \cup {NoSection}]
      /\ \A j \in Ifaces : client'[j] \in Sections[j] \cup {NoSection}
      /\ \A j \in Ifaces : state'[j] \in Running => client'[j] # NoSection
  <2>1. loaded[i] \in Written /\ loaded[i] \in Sections[i] /\ loaded[i] # NoSection
    BY SectionIsWritten DEF TypeOK
  <2>2. CASE client' = client /\ state' = state
    BY <2>2 DEF TypeOK
  <2>3. CASE client' = Set(client, i, loaded[i]) /\ state' = Set(state, i, "setup")
    BY <2>1, <2>3 DEF TypeOK, Set
  <2>4. QED
    BY <2>2, <2>3 DEF Setup, Refuse, StartClient, NoRelayDevice
<1>3. /\ wanted' \in [Ifaces -> BOOLEAN] /\ device' \in [Ifaces -> BOOLEAN]
      /\ state' \in [Ifaces -> Running \cup {"down", "teardown", "killed"}]
  BY DEF TypeOK, Setup, Refuse, StartClient, NoRelayDevice, Set, Running, IsRelay, left
<1>4. error' \in [Ifaces -> {"none", "DUPLICATE_DEVICE_ID", "DUPLICATE_LISTEN_PORT",
                             "NO_RELAY_DEVICE", "QWDTT_REFUSED", "QWDTT_NO_CONFIG"}]
  BY DEF TypeOK, Setup, Refuse, StartClient, NoRelayDevice, Set
<1>5. QED
  BY <1>1, <1>2, <1>3, <1>4 DEF TypeOK

LEMMA ClientTypes ==
  ASSUME TypeOK, NEW i \in Ifaces,
         \/ WriteState(i) \/ RelayUp(i) \/ StoreKey(i) \/ RawUp(i)
         \/ ClientReports(i) \/ ClientFails(i) \/ ClientExits(i)
  PROVE  TypeOK'
<1>1. UNCHANGED <<file, loaded, late>>
  BY DEF WriteState, RelayUp, StoreKey, RawUp, ClientReports, ClientFails, ClientExits,
         config, history
<1>2. /\ client' \in [Ifaces -> Written \cup {NoSection}]
      /\ \A j \in Ifaces : client'[j] \in Sections[j] \cup {NoSection}
  BY DEF TypeOK, WriteState, RelayUp, StoreKey, RawUp, ClientReports, ClientFails, ClientExits, Set
<1>3. /\ state' \in [Ifaces -> Running \cup {"down", "teardown", "killed"}]
      /\ \A j \in Ifaces : state'[j] \in Running => client'[j] # NoSection
  BY DEF TypeOK, WriteState, RelayUp, StoreKey, RawUp, ClientReports, ClientFails, ClientExits,
         Set, Running
<1>4. files' \in [Ifaces -> SUBSET {"state", "wg"}]
  BY DEF TypeOK, WriteState, RelayUp, StoreKey, RawUp, ClientReports, ClientFails, ClientExits,
         Set, left
<1>5. /\ wanted' \in [Ifaces -> BOOLEAN] /\ device' \in [Ifaces -> BOOLEAN]
      /\ snat' \in [Ifaces -> BOOLEAN] /\ had' \in [Ifaces -> BOOLEAN]
  BY DEF TypeOK, WriteState, RelayUp, StoreKey, RawUp, ClientReports, ClientFails, ClientExits,
         Set, left, history
<1>6. error' \in [Ifaces -> {"none", "DUPLICATE_DEVICE_ID", "DUPLICATE_LISTEN_PORT",
                             "NO_RELAY_DEVICE", "QWDTT_REFUSED", "QWDTT_NO_CONFIG"}]
  BY DEF TypeOK, WriteState, RelayUp, StoreKey, RawUp, ClientReports, ClientFails, ClientExits, Set
<1>7. QED
  BY <1>1, <1>2, <1>3, <1>4, <1>5, <1>6 DEF TypeOK

LEMMA DownTypes ==
  ASSUME TypeOK, NEW i \in Ifaces, Teardown(i) \/ Down(i) \/ IfUp(i) \/ IfDown(i)
  PROVE  TypeOK'
<1>1. UNCHANGED <<file, loaded, error, client, had, late>>
  BY DEF Teardown, Down, IfUp, IfDown, config, history
<1>2. /\ state' \in [Ifaces -> Running \cup {"down", "teardown", "killed"}]
      /\ \A j \in Ifaces : state'[j] \in Running => state[j] \in Running
  BY DEF TypeOK, Teardown, Down, IfUp, IfDown, Set, Running
<1>3. /\ wanted' \in [Ifaces -> BOOLEAN] /\ device' \in [Ifaces -> BOOLEAN]
      /\ snat' \in [Ifaces -> BOOLEAN] /\ files' \in [Ifaces -> SUBSET {"state", "wg"}]
  BY DEF TypeOK, Teardown, Down, IfUp, IfDown, Set, left
<1>4. QED
  BY <1>1, <1>2, <1>3 DEF TypeOK

LEMMA EditTypes ==
  ASSUME TypeOK, NEW i \in Ifaces, Reload(i) \/ \E new \in Sections[i] : Edit(i, new)
  PROVE  TypeOK'
<1>1. UNCHANGED <<error, client, device, files, snat>>
  BY DEF Reload, Edit, left
<1>2. /\ file' \in [Ifaces -> Written] /\ loaded' \in [Ifaces -> Written]
      /\ \A j \in Ifaces : file'[j] \in Sections[j] /\ loaded'[j] \in Sections[j]
  BY SectionIsWritten DEF TypeOK, Reload, Edit, Load, Set
<1>3. /\ state' \in [Ifaces -> Running \cup {"down", "teardown", "killed"}]
      /\ \A j \in Ifaces : state'[j] \in Running => state[j] \in Running
  BY DEF TypeOK, Reload, Edit, Load, Set, Running
<1>4. /\ wanted' \in [Ifaces -> BOOLEAN] /\ had' \in [Ifaces -> BOOLEAN] /\ late' \in BOOLEAN
  BY DEF TypeOK, Reload, Edit, Load, Set, history
<1>5. QED
  BY <1>1, <1>2, <1>3, <1>4 DEF TypeOK

-----------------------------------------------------------------------------
(* What runs, and what it was started with.                                *)

(* Nothing but a setup adds to the running clients.                        *)
LEMMA PairsStay ==
  ASSUME IdsDiffer, PortsDiffer, late => late',
         \A i \in Ifaces : state'[i] \in Running => state[i] \in Running /\ client'[i] = client[i]
  PROVE  IdsDiffer' /\ PortsDiffer'
<1>1. \A p \in Pairs' : p \in Pairs /\ client'[p[1]] = client[p[1]] /\ client'[p[2]] = client[p[2]]
  BY DEF Pairs
<1>2. QED
  BY <1>1 DEF IdsDiffer, PortsDiffer

LEMMA SetupStep ==
  ASSUME IInv, NEW i \in Ifaces, Setup(i)
  PROVE  FileIsTrue' /\ IdsDiffer' /\ PortsDiffer'
<1>1. CASE StartClient(i) /\ ~late
  <2>1. /\ \A j \in Ifaces : ~IdClaim(i, j)
        /\ IsRelay(loaded[i]) => \A j \in Ifaces : ~PortClaim(i, j)
        /\ state[i] = "down" /\ wanted[i]
    BY <1>1 DEF Setup, Refuse, StartClient, IInv, TypeOK, Set
  <2>2. /\ client'[i] = loaded[i] /\ state'[i] = "setup"
        /\ \A j \in Ifaces \ {i} : client'[j] = client[j] /\ state'[j] = state[j]
        /\ UNCHANGED <<file, loaded, late>>
    BY <1>1 DEF StartClient, IInv, TypeOK, Set, config, history
  <2>3. \A j \in Ifaces : loaded[j] = file[j] /\ (state[j] \in Running => AsFiled(client[j], file[j]))
    BY <1>1 DEF IInv, FileIsTrue
  <2>4. \A j \in Ifaces : state'[j] \in Running => AsFiled(client'[j], file[j])
    BY <2>1, <2>2, <2>3 DEF AsFiled, IInv, OnlyTunnelsRun
  <2>5. FileIsTrue'
    BY <2>2, <2>3, <2>4 DEF FileIsTrue
  <2>6. ASSUME NEW j \in Ifaces \ {i}, state'[j] \in Running
        PROVE  client'[j].id # client'[i].id
    BY <2>1, <2>2, <2>4, <2>6 DEF AsFiled, IdClaim
  <2>7. ASSUME NEW j \in Ifaces \ {i}, state'[j] \in Running, file[j].parked = "no",
               IsRelay(client'[j]), IsRelay(client'[i])
        PROVE  client'[j].port # client'[i].port
    BY <2>1, <2>2, <2>4, <2>7 DEF AsFiled, PortClaim, IsRelay
  <2>8. \A p \in Pairs' : /\ p[1] \in Ifaces /\ p[2] \in Ifaces /\ p[1] # p[2]
                          /\ state'[p[1]] \in Running /\ state'[p[2]] \in Running
    BY DEF Pairs
  <2>9. \A p \in Pairs' : p[1] # i /\ p[2] # i =>
           p \in Pairs /\ client'[p[1]] = client[p[1]] /\ client'[p[2]] = client[p[2]]
    BY <2>2 DEF Pairs
  <2>10. IdsDiffer'
    BY <1>1, <2>6, <2>8, <2>9 DEF IInv, IdsDiffer
  <2>11. PortsDiffer'
    <3>1. SUFFICES ASSUME \A j \in Ifaces : \A c \in Sections[j] : c.parked # "auto",
                          NEW p \in Pairs', IsRelay(client'[p[1]]), IsRelay(client'[p[2]])
                   PROVE  client'[p[1]].port # client'[p[2]].port
      BY DEF PortsDiffer
    <3>2. \A j \in Ifaces : state'[j] \in Running => file[j].parked = "no"
      <4>1. \A j \in Ifaces : file[j].parked \in {"no", "auto", "disabled"} /\ file[j] \in Sections[j]
        BY HandlerAssumption DEF IInv, TypeOK
      <4>2. QED
        BY <2>4, <3>1, <4>1 DEF AsFiled
    <3>3. CASE p[1] # i /\ p[2] # i
      BY <1>1, <2>9, <3>1, <3>3 DEF IInv, PortsDiffer
    <3>4. CASE p[1] = i \/ p[2] = i
      BY <2>7, <2>8, <3>1, <3>2, <3>4
    <3>5. QED
      BY <3>3, <3>4
  <2>12. QED
    BY <2>5, <2>10, <2>11
<1>2. CASE late
  BY <1>2 DEF Setup, Refuse, StartClient, NoRelayDevice, history, FileIsTrue, IdsDiffer, PortsDiffer
<1>3. CASE UNCHANGED <<file, loaded, state, client, late>>
  BY <1>3, PairsStay DEF IInv, FileIsTrue
<1>4. StartClient(i) \/ UNCHANGED <<file, loaded, state, client, late>>
  BY DEF Setup, Refuse, NoRelayDevice, config, history
<1>5. QED
  BY <1>1, <1>2, <1>3, <1>4

LEMMA OthersStep ==
  ASSUME IInv, NEW i \in Ifaces,
         \/ WriteState(i) \/ RelayUp(i) \/ StoreKey(i) \/ RawUp(i)
         \/ ClientReports(i) \/ ClientFails(i) \/ ClientExits(i)
         \/ Teardown(i) \/ Down(i) \/ IfUp(i) \/ IfDown(i)
  PROVE  FileIsTrue' /\ IdsDiffer' /\ PortsDiffer'
<1>1. UNCHANGED <<file, loaded, late>>
  BY DEF WriteState, RelayUp, StoreKey, RawUp, ClientReports, ClientFails, ClientExits,
         Teardown, Down, IfUp, IfDown, config, history
<1>2. \A j \in Ifaces : state'[j] \in Running => state[j] \in Running /\ client'[j] = client[j]
  BY DEF IInv, TypeOK, Set, Running, WriteState, RelayUp, StoreKey, RawUp, ClientReports,
         ClientFails, ClientExits, Teardown, Down, IfUp, IfDown
<1>3. QED
  BY <1>1, <1>2, PairsStay DEF IInv, FileIsTrue

(* An edit that does not restart a tunnel changes nothing that is compared. *)
LEMMA EditStep ==
  ASSUME IInv, NEW i \in Ifaces, Reload(i) \/ \E new \in Sections[i] : Edit(i, new)
  PROVE  FileIsTrue' /\ IdsDiffer' /\ PortsDiffer'
<1>1. UNCHANGED client /\ (late => late')
  <2>1. CASE Reload(i)
    BY <2>1 DEF Reload, history
  <2>2. CASE \E new \in Sections[i] : Edit(i, new)
    BY <2>2 DEF Edit
  <2>3. QED
    BY <2>1, <2>2
<1>2. \A j \in Ifaces : state'[j] \in Running => state[j] \in Running
  BY DEF IInv, TypeOK, Reload, Edit, Load, Set, Running
<1>3. IdsDiffer' /\ PortsDiffer'
  BY <1>1, <1>2, PairsStay DEF IInv
<1>4. ASSUME ~late'
      PROVE  \A j \in Ifaces : /\ loaded'[j] = file'[j]
                               /\ state'[j] \in Running => AsFiled(client'[j], file'[j])
  <2>1. \A j \in Ifaces : loaded[j] = file[j] /\ (state[j] \in Running => AsFiled(client[j], file[j]))
    BY <1>1, <1>4 DEF IInv, FileIsTrue
  <2>2. PICK new \in Sections[i] : file' = Set(file, i, new) /\ Load(i, new)
    BY <1>4, <2>1 DEF Reload, Edit
  <2>3. \A j \in Ifaces \ {i} : loaded'[j] = loaded[j] /\ file'[j] = file[j] /\ state'[j] = state[j]
    BY <2>2 DEF IInv, TypeOK, Load, Set
  <2>4. loaded'[i] = new /\ file'[i] = new
    BY <2>2 DEF IInv, TypeOK, Load, Set
  <2>5. ASSUME state'[i] \in Running
        PROVE  AsFiled(client[i], new)
    <3>1. state[i] \in Running /\ ~Restarts(loaded[i], new)
      BY <2>2, <2>5 DEF IInv, TypeOK, Load, Set, Running
    <3>2. AsFiled(client[i], loaded[i])
      BY <2>1, <3>1
    <3>3. new \in [proto : {"qwdtt", "other"}, mode : {"rawtun", "wireguard"},
                   parked : {"no", "auto", "disabled"}, id : {new.id}, port : {new.port}]
      BY HandlerAssumption
    <3>4. [new EXCEPT !.parked = loaded[i].parked] = loaded[i] /\ new.parked # "disabled"
      BY <3>1 DEF Restarts
    <3>5. /\ loaded[i].id = new.id /\ loaded[i].mode = new.mode
          /\ loaded[i].port = new.port /\ loaded[i].proto = new.proto
      BY <3>3, <3>4
    <3>6. QED
      BY <3>2, <3>4, <3>5 DEF AsFiled
  <2>6. QED
    BY <1>1, <1>2, <2>1, <2>3, <2>4, <2>5
<1>5. QED
  BY <1>3, <1>4 DEF FileIsTrue

-----------------------------------------------------------------------------
(* What starts, and what is kept.                                          *)

LEMMA OnlyTunnelsStep ==
  ASSUME IInv, NEW i \in Ifaces,
         \/ Setup(i)
         \/ WriteState(i) \/ RelayUp(i) \/ StoreKey(i) \/ RawUp(i)
         \/ ClientReports(i) \/ ClientFails(i) \/ ClientExits(i)
         \/ Teardown(i) \/ Down(i) \/ IfUp(i) \/ IfDown(i)
         \/ Reload(i) \/ \E new \in Sections[i] : Edit(i, new)
  PROVE  OnlyTunnelsRun'
<1>1. \A j \in Ifaces \ {i} : wanted'[j] = wanted[j] /\ loaded'[j] = loaded[j] /\ client'[j] = client[j]
  BY DEF IInv, TypeOK, Set, Load, Setup, Refuse, StartClient, NoRelayDevice, WriteState, RelayUp,
         StoreKey, RawUp, ClientReports, ClientFails, ClientExits, Teardown, Down, IfUp, IfDown,
         Reload, Edit, config
<1>2. wanted'[i] => loaded'[i].proto = "qwdtt" /\ loaded'[i].parked # "disabled"
  <2>1. CASE Setup(i)
    <3>1. loaded' = loaded /\ wanted' \in {wanted, Set(wanted, i, FALSE)}
      BY <2>1 DEF Setup, Refuse, StartClient, NoRelayDevice, config
    <3>2. QED
      BY <3>1 DEF IInv, OnlyTunnelsRun, TypeOK, Set
  <2>4. CASE Teardown(i) \/ Down(i) \/ IfUp(i) \/ IfDown(i)
    BY <2>4 DEF IInv, OnlyTunnelsRun, TypeOK, Set, Teardown, Down, IfUp, IfDown, config
  <2>2. CASE \/ WriteState(i) \/ RelayUp(i) \/ StoreKey(i) \/ RawUp(i)
             \/ ClientReports(i) \/ ClientFails(i) \/ ClientExits(i)
    BY <2>2 DEF IInv, OnlyTunnelsRun, TypeOK, Set, WriteState, RelayUp, StoreKey, RawUp,
                ClientReports, ClientFails, ClientExits, config
  <2>3. CASE Reload(i) \/ \E new \in Sections[i] : Edit(i, new)
    <3>1. \/ loaded' = loaded /\ wanted' = wanted
          \/ \E new \in Sections[i] : /\ loaded' = Set(loaded, i, new)
                                      /\ wanted' = Set(wanted, i, new.proto = "qwdtt" /\ new.parked = "no")
      BY <2>3 DEF IInv, TypeOK, Load, Reload, Edit
    <3>2. QED
      BY <3>1 DEF IInv, OnlyTunnelsRun, TypeOK, Set
  <2>5. QED
    BY <2>1, <2>2, <2>3, <2>4
<1>3. client'[i] # NoSection => client'[i].proto = "qwdtt"
  BY DEF IInv, OnlyTunnelsRun, TypeOK, Set, Load, Setup, Refuse, StartClient, NoRelayDevice,
         WriteState, RelayUp, StoreKey, RawUp, ClientReports, ClientFails, ClientExits, Teardown,
         Down, IfUp, IfDown, Reload, Edit
<1>4. QED
  BY <1>1, <1>2, <1>3 DEF IInv, OnlyTunnelsRun

LEMMA KeptStep ==
  ASSUME IInv, NEW i \in Ifaces,
         \/ Setup(i)
         \/ WriteState(i) \/ RelayUp(i) \/ StoreKey(i) \/ RawUp(i)
         \/ ClientReports(i) \/ ClientFails(i) \/ ClientExits(i)
         \/ Teardown(i) \/ Down(i) \/ IfUp(i) \/ IfDown(i)
         \/ Reload(i) \/ \E new \in Sections[i] : Edit(i, new)
  PROVE  KeptDevice'
<1>1. \A j \in Ifaces \ {i} : /\ had'[j] = had[j] /\ file'[j] = file[j]
                              /\ device'[j] = device[j] /\ snat'[j] = snat[j]
  BY DEF IInv, TypeOK, Set, Setup, Refuse, StartClient, NoRelayDevice, WriteState, RelayUp,
         StoreKey, RawUp, ClientReports, ClientFails, ClientExits, Teardown, Down, IfUp, IfDown,
         Reload, Edit, config, left, history
<1>2. ASSUME had'[i] PROVE Keeps(i)' /\ device'[i] /\ snat'[i]
  <2>1. CASE RawUp(i)
    <3>1. file[i] = client[i] /\ device'[i] /\ snat'[i] /\ UNCHANGED file
      BY <1>2, <2>1 DEF IInv, TypeOK, RawUp, Set, config
    <3>2. client[i].proto = "qwdtt" /\ ~IsRelay(client[i])
      BY <2>1 DEF IInv, TypeOK, OnlyTunnelsRun, RawUp, Running
    <3>3. QED
      BY <3>1, <3>2 DEF Keeps
  <2>2. CASE Teardown(i)
    <3>1. had[i] /\ UNCHANGED file
      BY <1>2, <2>2 DEF Teardown, config, history
    <3>2. Keeps(i) /\ device[i] /\ snat[i]
      BY <3>1 DEF IInv, KeptDevice
    <3>3. QED
      BY <2>2, <3>1, <3>2 DEF Teardown, Keeps, left
  <2>3. CASE \E new \in Sections[i] : Edit(i, new)
    BY <1>2, <2>3 DEF IInv, TypeOK, Edit, Set
  <2>4. CASE \/ Setup(i) \/ WriteState(i) \/ RelayUp(i) \/ StoreKey(i)
             \/ ClientReports(i) \/ ClientFails(i) \/ ClientExits(i)
             \/ Down(i) \/ IfUp(i) \/ IfDown(i) \/ Reload(i)
    <3>1. UNCHANGED <<had, file, snat>> /\ (device[i] => device'[i])
      BY <2>4 DEF IInv, TypeOK, Set, Setup, Refuse, StartClient, NoRelayDevice, WriteState, RelayUp,
         StoreKey, ClientReports, ClientFails, ClientExits, Down, IfUp, IfDown, Reload,
         config, left, history
    <3>2. QED
      BY <1>2, <3>1 DEF IInv, KeptDevice, Keeps
  <2>5. QED
    BY <2>1, <2>2, <2>3, <2>4
<1>3. QED
  BY <1>1, <1>2 DEF IInv, KeptDevice, Keeps

-----------------------------------------------------------------------------
(* The theorems.                                                           *)

LEMMA InitHolds == Init => IInv
<1> SUFFICES ASSUME Init PROVE IInv
  OBVIOUS
<1>1. \A i \in Ifaces : First[i] \in Sections[i]
  BY HandlerAssumption
<1>2. First \in [Ifaces -> Written]
  BY HandlerAssumption DEF Written
<1>3. TypeOK
  BY <1>1, <1>2 DEF Init, TypeOK, Running
<1>4. OnlyTunnelsRun /\ FileIsTrue /\ KeptDevice
  BY DEF Init, OnlyTunnelsRun, FileIsTrue, KeptDevice, Running
<1>5. IdsDiffer /\ PortsDiffer
  BY DEF Init, IdsDiffer, PortsDiffer, Pairs, Running
<1>6. QED
  BY <1>3, <1>4, <1>5 DEF IInv

LEMMA NextHolds == IInv /\ [Next]_vars => IInv'
<1> SUFFICES ASSUME IInv, [Next]_vars PROVE IInv'
  OBVIOUS
<1>1. TypeOK
  BY DEF IInv
<1>2. ASSUME NEW i \in Ifaces, Setup(i)
      PROVE  IInv'
  BY <1>1, <1>2, SetupTypes, SetupStep, OnlyTunnelsStep, KeptStep DEF IInv
<1>3. ASSUME NEW i \in Ifaces,
             \/ WriteState(i) \/ RelayUp(i) \/ StoreKey(i) \/ RawUp(i)
             \/ ClientReports(i) \/ ClientFails(i) \/ ClientExits(i)
      PROVE  IInv'
  BY <1>1, <1>3, ClientTypes, OthersStep, OnlyTunnelsStep, KeptStep DEF IInv
<1>4. ASSUME NEW i \in Ifaces, Teardown(i) \/ Down(i) \/ IfUp(i) \/ IfDown(i)
      PROVE  IInv'
  BY <1>1, <1>4, DownTypes, OthersStep, OnlyTunnelsStep, KeptStep DEF IInv
<1>5. ASSUME NEW i \in Ifaces, Reload(i) \/ \E new \in Sections[i] : Edit(i, new)
      PROVE  IInv'
  BY <1>1, <1>5, EditTypes, EditStep, OnlyTunnelsStep, KeptStep DEF IInv
<1>6. CASE UNCHANGED vars
  BY <1>6 DEF vars, config, left, history, IInv, TypeOK, OnlyTunnelsRun, FileIsTrue, KeptDevice,
     Keeps, IdsDiffer, PortsDiffer, Pairs
<1>7. QED
  BY <1>2, <1>3, <1>4, <1>5, <1>6 DEF Next

(* The inductive invariant: what runs agrees with the file it is compared  *)
(* with, while every edit is applied (qwdtt.sh:23-98).                     *)
THEOREM HandlerInvariant == Spec => []IInv
<1>1. QED
  BY InitHolds, NextHolds, PTL DEF Spec

(* A running interface has a client, and everything has its type.          *)
THEOREM HandlerTypes == Spec => []TypeOK
<1>1. IInv => TypeOK
  BY DEF IInv
<1>2. QED
  BY <1>1, HandlerInvariant, PTL

(* Two running tunnels never have one device id (qwdtt.sh:23-48).          *)
THEOREM DeviceIdsDiffer == Spec => []IdsDiffer
<1>1. IInv => IdsDiffer
  BY DEF IInv
<1>2. QED
  BY <1>1, HandlerInvariant, PTL

(* Two running relays never have one local port (qwdtt.sh:59-98).          *)
THEOREM ListenPortsDiffer == Spec => []PortsDiffer
<1>1. IInv => PortsDiffer
  BY DEF IInv
<1>2. QED
  BY <1>1, HandlerInvariant, PTL

(* A rawtun tunnel keeps its device and its SNAT rule (qwdtt.sh:109-121).  *)
THEOREM DeviceSurvives == Spec => []ReconnectKeepsDevice
<1>1. IInv => ReconnectKeepsDevice
  BY DEF IInv, KeptDevice, ReconnectKeepsDevice
<1>2. QED
  BY <1>1, HandlerInvariant, PTL

=============================================================================
