--------------------------- MODULE ConnectionProofs ---------------------------
(***************************************************************************)
(* Proofs about Connection, for any number of reload tasks, base topics,   *)
(* clients and losses.                                                     *)
(***************************************************************************)
EXTENDS Connection, TLAPS

(***************************************************************************)
(* The invariant.                                                          *)
(***************************************************************************)

\* Wi-Fi gives up at the last attempt and not later.
RetriesOK == wifi # "asleep" => retries < MaxRetry

\* A client that delivers MQTT_EVENT_CONNECTED is neither stopped nor lost.
EventsOK == \A c \in Client : event[c] # "none" => clients[c].state = "up"

\* No client but that of the handle is left over.
OrphanFree == Alive \subseteq {handle}

\* A reload task will still create a client.
Pending == \E r \in Reloader :
             reload[r].pc \in {"read", "stop", "destroy", "clear", "init"}

\* What a session has been told, step by step.  A base topic that has changed
\* meanwhile is one for which a reload is under way.
Announced ==
  OrphanFree /\ HandleInSession =>
    /\ status = "CONNECTED" \/ doubled
    /\ event[handle] \in Base =>
         /\ retained[event[handle]] = "online"
         /\ event[handle] = base \/ Pending
    /\ event[handle] = "none" =>
         Pending \/ (base \in subscribed /\ retained[base] = "online")

IInv == TypeOK /\ RetriesOK /\ EventsOK /\ HandleIsAlive /\ Announced

(***************************************************************************)
(* Clients.                                                                *)
(***************************************************************************)

ClientsOK ==
  clients \in [Client -> [base : Base,
                 state : {"unused", "idle", "running", "up", "gone"}]]

LEMMA Topics == "none" \notin Base /\ "announce" \notin Base
BY ConnectionAssumption

LEMMA ClientIds == Client \subseteq Nat /\ 0 \notin Client
                   /\ 0 .. MaxClients = Client \cup {0}
BY ConnectionAssumption DEF Client

\* init: the handle is that of a new client, and whatever client was alive
\* besides is left over.
LEMMA ClientCreated ==
  ASSUME TypeOK, NEW b \in Base, InitClient(b)
  PROVE  /\ ClientsOK' /\ handle' \in Client /\ status' = "DISCONNECTED"
         /\ clients[handle'].state = "unused"
         /\ \A d \in Client : clients'[d].state = IF d = handle' THEN "idle"
                                                  ELSE clients[d].state
<1>1. PICK c \in Unused :
        /\ clients' = [clients EXCEPT ![c] = [state |-> "idle", base |-> b]]
        /\ handle' = c /\ status' = "DISCONNECTED"
  BY DEF InitClient
<1>2. c \in Client /\ clients[c].state = "unused"
  BY <1>1 DEF Unused
<1>3. ClientsOK
  BY DEF TypeOK, ClientsOK
<1> QED BY <1>1, <1>2, <1>3 DEF ClientsOK

\* connect: only a client that does nothing yet changes its state; for another
\* one the status is wrong from here on, and the history says so.
LEMMA ClientStarted ==
  ASSUME TypeOK, StartClient
  PROVE  /\ ClientsOK' /\ status' \in {"DISCONNECTED", "CONNECTING", "CONNECTED"}
         /\ doubled' \in BOOLEAN
         /\ \A d \in Client : \/ clients'[d].state = clients[d].state
                              \/ /\ d = handle /\ clients[d].state = "idle"
                                 /\ clients'[d].state = "running"
         /\ handle # 0 /\ clients[handle].state # "idle" => doubled'
         /\ handle = 0 => UNCHANGED <<status, doubled>>
<1>1. ClientsOK /\ handle \in Client \cup {0} /\ doubled \in BOOLEAN
      /\ status \in {"DISCONNECTED", "CONNECTING", "CONNECTED"}
  BY ClientIds DEF TypeOK, ClientsOK
<1>2. CASE handle = 0
  BY <1>1, <1>2 DEF StartClient, ClientsOK
<1>3. CASE handle # 0
  <2>1. /\ status' = "CONNECTING"
        /\ doubled' = (doubled \/ clients[handle].state # "idle")
        /\ clients' = [clients EXCEPT ![handle].state =
                         IF clients[handle].state = "idle" THEN "running"
                         ELSE clients[handle].state]
    BY <1>3 DEF StartClient
  <2>2. (IF clients[handle].state = "idle" THEN "running"
         ELSE clients[handle].state)
           \in {"unused", "idle", "running", "up", "gone"}
    BY <1>1, <1>3 DEF ClientsOK
  <2>3. /\ ClientsOK'
        /\ \A d \in Client : clients'[d].state =
             IF d = handle
             THEN IF clients[handle].state = "idle" THEN "running"
                  ELSE clients[handle].state
             ELSE clients[d].state
    <3> DEFINE to == IF clients[handle].state = "idle" THEN "running"
                     ELSE clients[handle].state
    <3>1. handle \in Client
      BY <1>1, <1>3
    <3>2. clients' = [clients EXCEPT ![handle].state = to]
      BY <2>1
    <3>3. to \in {"unused", "idle", "running", "up", "gone"}
      BY <2>2
    <3> HIDE DEF to
    <3>4. /\ ClientsOK'
          /\ \A d \in Client : clients'[d].state = IF d = handle THEN to
                                                   ELSE clients[d].state
      BY <1>1, <3>1, <3>2, <3>3 DEF ClientsOK
    <3> QED BY <3>4 DEF to
  <2>4. doubled' \in BOOLEAN /\ (clients[handle].state # "idle" => doubled')
    BY <1>1, <2>1
  <2> QED BY <1>3, <2>1, <2>3, <2>4
<1> QED BY <1>2, <1>3

\* stop and destroy: the client of the handle leaves the session and delivers
\* nothing any more.
LEMMA ClientStopped ==
  ASSUME TypeOK, EventsOK, NEW to \in {"idle", "gone"}, StopClient(to)
  PROVE  /\ ClientsOK' /\ EventsOK' /\ ~HandleInSession'
         /\ holder' \in 0 .. MaxClients /\ subscribed' \in SUBSET Base
         /\ \A d \in Client : clients'[d].state =
              IF d = handle /\ clients[d].state # "gone" THEN to
              ELSE clients[d].state
<1>1. ClientsOK /\ handle \in Client \cup {0} /\ holder \in 0 .. MaxClients
      /\ subscribed \in SUBSET Base
  BY ClientIds DEF TypeOK, ClientsOK
<1>2. ClientsOK' /\ \A d \in Client : clients'[d].state =
              IF d = handle /\ clients[d].state # "gone" THEN to
              ELSE clients[d].state
  BY <1>1 DEF StopClient, ClientsOK
<1>3. UNCHANGED <<handle, event>> /\ (handle # 0 => event[handle] = "none")
  BY DEF StopClient
<1>4. EventsOK'
  BY <1>2, <1>3, ClientIds DEF EventsOK
<1>5. ~HandleInSession'
  BY <1>1, <1>2, <1>3 DEF HandleInSession
<1>6. holder' \in 0 .. MaxClients /\ subscribed' \in SUBSET Base
  <2>1. 0 \in 0 .. MaxClients
    BY ConnectionAssumption
  <2> QED BY <1>1, <2>1 DEF StopClient
<1> QED BY <1>2, <1>4, <1>5, <1>6

(***************************************************************************)
(* Sessions.                                                               *)
(***************************************************************************)

\* A client that is left over stays left over.
LEMMA OrphansStay ==
  ASSUME OrphanFree',
         \A d \in Client : clients[d].state \in {"idle", "running", "up"}
           => d = handle \/ (/\ d # handle'
                             /\ clients'[d].state \in {"idle", "running", "up"})
  PROVE  OrphanFree
BY DEF OrphanFree, Alive

\* Nobody delivers an event but the client of the handle, unless some client is
\* left over.
LEMMA EventOfHandle ==
  ASSUME OrphanFree, NEW c \in Client,
         clients[c].state \in {"idle", "running", "up"}
  PROVE  c = handle
BY DEF OrphanFree, Alive

(***************************************************************************)
(* The steps.                                                              *)
(***************************************************************************)

\* Steps that end in no session of the handle's client.
LEMMA NoSession ==
  ASSUME ~HandleInSession'
  PROVE  Announced'
BY DEF Announced

LEMMA StaDisconnectedStep ==
  ASSUME IInv, StaDisconnected
  PROVE  IInv'
<1>1. TypeOK'
  <2>1. retries \in 0 .. MaxRetry /\ retries < MaxRetry
    BY DEF IInv, TypeOK, RetriesOK, StaDisconnected
  <2>2. retries' \in 0 .. MaxRetry
    BY <2>1, ConnectionAssumption DEF StaDisconnected
  <2>3. losses' \in 0 .. MaxLosses
    BY ConnectionAssumption DEF IInv, TypeOK, StaDisconnected
  <2>4. wifi' \in {"connecting", "up", "asleep"}
    BY DEF StaDisconnected
  <2> QED BY <2>2, <2>3, <2>4 DEF IInv, TypeOK, StaDisconnected, clientVars,
          brokerVars
<1>2. RetriesOK'
  BY <1>1, ConnectionAssumption DEF TypeOK, RetriesOK, StaDisconnected
<1>3. EventsOK' /\ HandleIsAlive' /\ Announced'
  BY DEF IInv, StaDisconnected, clientVars, brokerVars, EventsOK, HandleIsAlive,
     Announced, OrphanFree, Alive, HandleInSession, Pending
<1> QED BY <1>1, <1>2, <1>3 DEF IInv

LEMMA GotIpStep ==
  ASSUME IInv, GotIp
  PROVE  IInv'
<1>1. /\ wifi' = "up" /\ retries' = 0 /\ starting' = TRUE /\ InitClient(base)
      /\ UNCHANGED <<event, doubled, base, reload, holder, subscribed, retained,
                     losses>>
  BY DEF GotIp, brokerVars
<1>2. /\ ClientsOK' /\ handle' \in Client /\ status' = "DISCONNECTED"
      /\ clients[handle'].state = "unused"
      /\ \A d \in Client : clients'[d].state = IF d = handle' THEN "idle"
                                               ELSE clients[d].state
  BY <1>1, ClientCreated DEF IInv, TypeOK
<1>3. TypeOK'
  BY <1>1, <1>2, ClientIds, ConnectionAssumption DEF IInv, TypeOK, ClientsOK
<1>4. RetriesOK' /\ EventsOK' /\ HandleIsAlive' /\ ~HandleInSession'
  BY <1>1, <1>2, ConnectionAssumption DEF IInv, RetriesOK, EventsOK,
     HandleIsAlive, HandleInSession
<1> QED BY <1>3, <1>4, NoSession DEF IInv

\* connect, after GOT_IP and in a reload: the client is not in a session before
\* or it is noted as connected twice.
LEMMA StartClientStep ==
  ASSUME IInv, StartClient, UNCHANGED <<handle, event, base, brokerVars>>,
         Pending => Pending',
         \A r \in Reloader : reload[r].pc = "clear" => reload'[r].pc = "clear"
  PROVE  EventsOK' /\ HandleIsAlive' /\ Announced'
<1>1. /\ \A d \in Client : \/ clients'[d].state = clients[d].state
                            \/ /\ d = handle /\ clients[d].state = "idle"
                               /\ clients'[d].state = "running"
      /\ handle # 0 /\ clients[handle].state # "idle" => doubled'
      /\ handle \in Client \cup {0}
  BY ClientStarted, ClientIds DEF IInv, TypeOK
<1>2. EventsOK'
  BY <1>1 DEF IInv, EventsOK
<1>3. HandleIsAlive'
  BY <1>1 DEF IInv, HandleIsAlive
<1>4. Announced'
  <2> SUFFICES ASSUME OrphanFree', HandleInSession' PROVE Announced'
    BY DEF Announced
  <2>1. OrphanFree
    BY <1>1, OrphansStay
  <2>2. HandleInSession /\ doubled'
    BY <1>1 DEF HandleInSession, brokerVars
  <2> QED BY <2>1, <2>2 DEF IInv, Announced, brokerVars
<1> QED BY <1>2, <1>3, <1>4

LEMMA ConnectAfterGotIpStep ==
  ASSUME IInv, ConnectAfterGotIp
  PROVE  IInv'
<1>1. /\ StartClient /\ starting' = FALSE
      /\ UNCHANGED <<wifi, retries, handle, event, base, reload, holder,
                     subscribed, retained, losses>>
  BY DEF ConnectAfterGotIp, brokerVars
<1>2. TypeOK'
  BY <1>1, ClientStarted DEF IInv, TypeOK, ClientsOK
<1>3. RetriesOK'
  BY <1>1 DEF IInv, RetriesOK
<1>4. EventsOK' /\ HandleIsAlive' /\ Announced'
  BY <1>1, StartClientStep DEF Pending, brokerVars
<1> QED BY <1>2, <1>3, <1>4 DEF IInv

LEMMA RestartStep ==
  ASSUME IInv, Restart
  PROVE  IInv'
<1>1. clients' = [c \in Client |-> None] /\ event' = [c \in Client |-> "none"]
      /\ reload' = [r \in Reloader |-> NoReload] /\ handle' = 0
  BY DEF Restart
<1>2. ClientsOK'
  BY <1>1, ConnectionAssumption DEF ClientsOK, None
<1>3. holder' \in 0 .. MaxClients /\ subscribed' \in SUBSET Base
      /\ retained' \in [Base -> {"none", "online", "offline"}]
  <2>1. 0 \in 0 .. MaxClients
    BY ConnectionAssumption
  <2>2. CASE holder = 0
    BY <2>2 DEF IInv, TypeOK, Restart, brokerVars
  <2>3. CASE holder # 0
    BY <2>1, <2>3 DEF IInv, TypeOK, Restart
  <2> QED BY <2>2, <2>3
<1>4. reload' \in [Reloader -> [base : Base,
                   pc : {"none", "read", "stop", "destroy", "clear", "init",
                         "start"}]]
  BY <1>1, ConnectionAssumption DEF NoReload
<1>5. TypeOK'
  <2>1. /\ wifi' = "connecting" /\ retries' = 0 /\ starting' = FALSE
        /\ status' = "DISCONNECTED" /\ doubled' = FALSE
        /\ UNCHANGED <<base, losses>>
    BY DEF Restart
  <2>2. 0 \in 0 .. MaxRetry /\ 0 \in 0 .. MaxClients
    BY ConnectionAssumption
  <2> QED BY <1>1, <1>2, <1>3, <1>4, <2>1, <2>2 DEF IInv, TypeOK, ClientsOK
<1>6. RetriesOK'
  BY ConnectionAssumption DEF Restart, RetriesOK
<1>7. EventsOK' /\ HandleIsAlive' /\ ~HandleInSession'
  BY <1>1 DEF EventsOK, HandleIsAlive, HandleInSession
<1> QED BY <1>5, <1>6, <1>7, NoSession DEF IInv

LEMMA ConnectsStep ==
  ASSUME IInv, NEW c \in Client, ClientConnects(c)
  PROVE  IInv'
<1>1. /\ clients[c].state = "running"
      /\ clients' = [clients EXCEPT ![c].state = "up"]
      /\ event' = [event EXCEPT ![c] = "announce"]
      /\ status' = "CONNECTED" /\ doubled' = FALSE
      /\ holder' = c /\ subscribed' = {} /\ WillIf(holder # 0)
      /\ UNCHANGED <<wifi, retries, starting, handle, base, reload, losses>>
  BY DEF ClientConnects, wifiVars
<1>2. /\ ClientsOK'
      /\ \A d \in Client : clients'[d].state = IF d = c THEN "up"
                                               ELSE clients[d].state
  BY <1>1 DEF IInv, TypeOK, ClientsOK
<1>3. event' \in [Client -> {"none", "announce"} \cup Base] /\ event'[c] = "announce"
  BY <1>1 DEF IInv, TypeOK
<1>4. retained' \in [Base -> {"none", "online", "offline"}]
  BY <1>1 DEF IInv, TypeOK, WillIf
<1>5. TypeOK'
  BY <1>1, <1>2, <1>3, <1>4, ClientIds DEF IInv, TypeOK, ClientsOK
<1>6. RetriesOK' /\ EventsOK' /\ HandleIsAlive'
  BY <1>1, <1>2, ClientIds DEF IInv, TypeOK, RetriesOK, EventsOK, HandleIsAlive
<1>7. Announced'
  <2> SUFFICES ASSUME OrphanFree', HandleInSession' PROVE Announced'
    BY DEF Announced
  <2>1. handle' = c
    BY <1>1 DEF HandleInSession
  <2> QED BY <1>1, <1>3, <2>1, Topics DEF Announced
<1> QED BY <1>5, <1>6, <1>7 DEF IInv

LEMMA LosesStep ==
  ASSUME IInv, NEW c \in Client, ClientLoses(c)
  PROVE  IInv'
<1>1. /\ clients[c].state = "up" /\ event[c] = "none"
      /\ clients' = [clients EXCEPT ![c].state = "running"]
      /\ status' = "DISCONNECTED"
      /\ UNCHANGED <<wifi, retries, starting, handle, event, doubled, base, reload,
                     holder, subscribed, retained>>
  BY DEF ClientLoses, wifiVars, brokerVars
<1>2. /\ ClientsOK'
      /\ \A d \in Client : clients'[d].state = IF d = c THEN "running"
                                               ELSE clients[d].state
  BY <1>1 DEF IInv, TypeOK, ClientsOK
<1>3. losses' \in 0 .. MaxLosses
  BY ConnectionAssumption DEF IInv, TypeOK, ClientLoses
<1>4. TypeOK'
  BY <1>1, <1>2, <1>3 DEF IInv, TypeOK, ClientsOK
<1>5. RetriesOK' /\ EventsOK' /\ HandleIsAlive'
  BY <1>1, <1>2, ClientIds DEF IInv, TypeOK, RetriesOK, EventsOK, HandleIsAlive
<1>6. Announced'
  <2> SUFFICES ASSUME OrphanFree', HandleInSession' PROVE FALSE
    BY DEF Announced
  <2>1. handle' = c
    BY <1>2 DEF OrphanFree, Alive
  <2> QED BY <1>2, <2>1 DEF HandleInSession
<1> QED BY <1>4, <1>5, <1>6 DEF IInv

LEMMA BrokerDropsStep ==
  ASSUME IInv, BrokerDrops
  PROVE  IInv'
<1>1. /\ holder # 0 /\ holder' = 0 /\ subscribed' = {} /\ WillIf(TRUE)
      /\ UNCHANGED <<wifi, retries, starting, handle, status, clients, event,
                     doubled, base, reload, losses>>
  BY DEF BrokerDrops, wifiVars, clientVars
<1>2. TypeOK'
  BY <1>1, ClientIds DEF IInv, TypeOK, WillIf
<1>3. RetriesOK' /\ EventsOK' /\ HandleIsAlive' /\ ~HandleInSession'
  BY <1>1 DEF IInv, RetriesOK, EventsOK, HandleIsAlive, HandleInSession
<1> QED BY <1>2, <1>3, NoSession DEF IInv

LEMMA AnnounceStep ==
  ASSUME IInv, NEW c \in Client, AnnounceOnline(c)
  PROVE  IInv'
<1>1. /\ event[c] = "announce" /\ event' = [event EXCEPT ![c] = base]
      /\ retained' = IF HandleInSession THEN [retained EXCEPT ![base] = "online"]
                     ELSE retained
      /\ UNCHANGED <<wifi, retries, starting, handle, status, clients, doubled,
                     base, reload, holder, subscribed, losses>>
  BY DEF AnnounceOnline, wifiVars
<1>2. base \in Base /\ event \in [Client -> {"none", "announce"} \cup Base]
  BY DEF IInv, TypeOK
<1>3. TypeOK'
  BY <1>1, <1>2 DEF IInv, TypeOK
<1>4. clients[c].state = "up"
  BY <1>1 DEF IInv, EventsOK
<1>5. RetriesOK' /\ EventsOK' /\ HandleIsAlive'
  BY <1>1, <1>2, <1>4 DEF IInv, RetriesOK, EventsOK, HandleIsAlive
<1>6. Announced'
  <2> SUFFICES ASSUME OrphanFree', HandleInSession' PROVE Announced'
    BY DEF Announced
  <2>1. OrphanFree /\ HandleInSession
    BY <1>1 DEF OrphanFree, Alive, HandleInSession
  <2>2. c = handle
    BY <1>4, <2>1, EventOfHandle
  <2>3. event'[handle] = base /\ retained'[base] = "online"
    BY <1>1, <1>2, <2>1, <2>2 DEF IInv, TypeOK
  <2> QED BY <1>1, <1>2, <2>1, <2>3, Topics DEF IInv, Announced
<1> QED BY <1>3, <1>5, <1>6 DEF IInv

LEMMA SubscribeStep ==
  ASSUME IInv, NEW c \in Client, SubscribeAll(c)
  PROVE  IInv'
<1>1. /\ event[c] \in Base /\ event' = [event EXCEPT ![c] = "none"]
      /\ subscribed' = IF HandleInSession THEN subscribed \cup {event[c]}
                       ELSE subscribed
      /\ UNCHANGED <<wifi, retries, starting, handle, status, clients, doubled,
                     base, reload, holder, retained, losses>>
  BY DEF SubscribeAll, wifiVars
<1>2. event \in [Client -> {"none", "announce"} \cup Base]
  BY DEF IInv, TypeOK
<1>3. TypeOK'
  BY <1>1, <1>2 DEF IInv, TypeOK
<1>4. clients[c].state = "up"
  BY <1>1, Topics DEF IInv, EventsOK
<1>5. RetriesOK' /\ EventsOK' /\ HandleIsAlive'
  BY <1>1, <1>2, <1>4 DEF IInv, RetriesOK, EventsOK, HandleIsAlive
<1>6. Announced'
  <2> SUFFICES ASSUME OrphanFree', HandleInSession' PROVE Announced'
    BY DEF Announced
  <2>1. OrphanFree /\ HandleInSession
    BY <1>1 DEF OrphanFree, Alive, HandleInSession
  <2>2. c = handle
    BY <1>4, <2>1, EventOfHandle
  <2>3. /\ status = "CONNECTED" \/ doubled
        /\ retained[event[c]] = "online" /\ (event[c] = base \/ Pending)
    BY <1>1, <2>1, <2>2 DEF IInv, Announced
  <2>4. event'[handle] = "none" /\ event[c] \in subscribed'
    BY <1>1, <1>2, <2>1, <2>2
  <2>5. Pending' = Pending
    BY <1>1 DEF Pending
  <2> QED BY <1>1, <2>3, <2>4, <2>5, Topics DEF Announced
<1> QED BY <1>3, <1>5, <1>6 DEF IInv

(***************************************************************************)
(* The steps of a reload.                                                  *)
(***************************************************************************)

ReloadOK ==
  reload \in [Reloader -> [base : Base,
                pc : {"none", "read", "stop", "destroy", "clear", "init",
                      "start"}]]

\* A reload task goes on to another statement; the others stay.
LEMMA WentOn ==
  ASSUME ReloadOK, NEW r \in Reloader,
         NEW pc \in {"none", "read", "stop", "destroy", "clear", "init", "start"},
         Goto(r, pc)
  PROVE  /\ ReloadOK'
         /\ \A s \in Reloader : /\ reload'[s].base = reload[s].base
                               /\ reload'[s].pc = IF s = r THEN pc
                                                  ELSE reload[s].pc
BY DEF ReloadOK, Goto

LEMMA RequestStep ==
  ASSUME IInv, NEW r \in Reloader, NEW b \in Base, RequestReload(r, b)
  PROVE  IInv'
<1>1. /\ base' = b /\ Goto(r, "read") /\ reload[r].pc = "none"
      /\ UNCHANGED <<wifi, retries, starting, handle, status, clients, event,
                     doubled, holder, subscribed, retained, losses>>
  BY DEF RequestReload, At, wifiVars, clientVars, brokerVars
<1>2. /\ ReloadOK'
      /\ \A s \in Reloader : reload'[s].pc = IF s = r THEN "read"
                                            ELSE reload[s].pc
  BY <1>1, WentOn DEF IInv, TypeOK, ReloadOK
<1>3. TypeOK'
  BY <1>1, <1>2 DEF IInv, TypeOK, ReloadOK
<1>4. RetriesOK' /\ EventsOK' /\ HandleIsAlive'
  BY <1>1, <1>2 DEF IInv, RetriesOK, EventsOK, HandleIsAlive
<1>5. Announced'
  <2>1. Pending'
    BY <1>2 DEF Pending
  <2>2. OrphanFree' = OrphanFree /\ HandleInSession' = HandleInSession
    BY <1>1 DEF OrphanFree, Alive, HandleInSession
  <2> QED BY <1>1, <2>1, <2>2 DEF IInv, Announced
<1> QED BY <1>3, <1>4, <1>5 DEF IInv

LEMMA ReadStep ==
  ASSUME IInv, NEW r \in Reloader, ReadConfig(r)
  PROVE  IInv'
<1>1. /\ reload[r].pc = "read"
      /\ reload' = [reload EXCEPT ![r] = [pc |-> "stop", base |-> base]]
      /\ UNCHANGED <<wifi, retries, starting, handle, status, clients, event,
                     doubled, base, holder, subscribed, retained, losses>>
  BY DEF ReadConfig, At, wifiVars, clientVars, brokerVars
<1>2. /\ ReloadOK'
      /\ \A s \in Reloader : reload'[s].pc = IF s = r THEN "stop"
                                            ELSE reload[s].pc
  BY <1>1 DEF IInv, TypeOK, ReloadOK
<1>3. TypeOK'
  BY <1>1, <1>2 DEF IInv, TypeOK, ReloadOK
<1>4. RetriesOK' /\ EventsOK' /\ HandleIsAlive'
  BY <1>1, <1>2 DEF IInv, RetriesOK, EventsOK, HandleIsAlive
<1>5. Announced'
  <2>1. Pending'
    BY <1>2 DEF Pending
  <2>2. OrphanFree' = OrphanFree /\ HandleInSession' = HandleInSession
    BY <1>1 DEF OrphanFree, Alive, HandleInSession
  <2> QED BY <1>1, <2>1, <2>2 DEF IInv, Announced
<1> QED BY <1>3, <1>4, <1>5 DEF IInv

LEMMA DisconnectStep ==
  ASSUME IInv, NEW r \in Reloader, Disconnect(r)
  PROVE  IInv'
<1>1. /\ reload[r].pc = "stop" /\ Goto(r, "destroy") /\ StopClient("idle")
      /\ status' = IF handle = 0 THEN status ELSE "DISCONNECTED"
      /\ UNCHANGED <<wifi, retries, starting, handle, event, doubled, base,
                     retained, losses>>
  BY DEF Disconnect, At, StopClient, wifiVars
<1>2. /\ ReloadOK'
      /\ \A s \in Reloader : reload'[s].pc = IF s = r THEN "destroy"
                                            ELSE reload[s].pc
  BY <1>1, WentOn DEF IInv, TypeOK, ReloadOK
<1>3. /\ ClientsOK' /\ EventsOK' /\ ~HandleInSession'
      /\ holder' \in 0 .. MaxClients /\ subscribed' \in SUBSET Base
      /\ \A d \in Client : clients'[d].state =
           IF d = handle /\ clients[d].state # "gone" THEN "idle"
           ELSE clients[d].state
  BY <1>1, ClientStopped DEF IInv
<1>4. TypeOK'
  BY <1>1, <1>2, <1>3 DEF IInv, TypeOK, ReloadOK, ClientsOK
<1>5. RetriesOK'
  BY <1>1 DEF IInv, RetriesOK
<1>6. HandleIsAlive'
  BY <1>1, <1>2, <1>3, ClientIds DEF IInv, TypeOK, HandleIsAlive
<1> QED BY <1>3, <1>4, <1>5, <1>6, NoSession DEF IInv

LEMMA DestroyStep ==
  ASSUME IInv, NEW r \in Reloader, DestroyClient(r)
  PROVE  IInv'
<1>1. /\ reload[r].pc = "destroy" /\ StopClient("gone")
      /\ Goto(r, IF handle = 0 THEN "init" ELSE "clear")
      /\ UNCHANGED <<wifi, retries, starting, handle, status, event, doubled,
                     base, retained, losses>>
  BY DEF DestroyClient, At, StopClient, wifiVars
<1>2. /\ ReloadOK'
      /\ \A s \in Reloader : reload'[s].pc =
           IF s = r THEN IF handle = 0 THEN "init" ELSE "clear"
           ELSE reload[s].pc
  BY <1>1, WentOn DEF IInv, TypeOK, ReloadOK
<1>3. /\ ClientsOK' /\ EventsOK' /\ ~HandleInSession'
      /\ holder' \in 0 .. MaxClients /\ subscribed' \in SUBSET Base
  BY <1>1, ClientStopped DEF IInv
<1>4. TypeOK'
  BY <1>1, <1>2, <1>3 DEF IInv, TypeOK, ReloadOK, ClientsOK
<1>5. RetriesOK'
  BY <1>1 DEF IInv, RetriesOK
<1>6. HandleIsAlive'
  BY <1>1, <1>2 DEF HandleIsAlive
<1> QED BY <1>3, <1>4, <1>5, <1>6, NoSession DEF IInv

LEMMA ClearStep ==
  ASSUME IInv, NEW r \in Reloader, ClearHandle(r)
  PROVE  IInv'
<1>1. /\ handle' = 0 /\ Goto(r, "init")
      /\ UNCHANGED <<wifi, retries, starting, status, clients, event, doubled,
                     base, holder, subscribed, retained, losses>>
  BY DEF ClearHandle, wifiVars, brokerVars
<1>2. ReloadOK'
  BY <1>1, WentOn DEF IInv, TypeOK, ReloadOK
<1>3. TypeOK'
  BY <1>1, <1>2, ClientIds DEF IInv, TypeOK, ReloadOK
<1>4. RetriesOK' /\ EventsOK' /\ HandleIsAlive' /\ ~HandleInSession'
  BY <1>1 DEF IInv, RetriesOK, EventsOK, HandleIsAlive, HandleInSession
<1> QED BY <1>3, <1>4, NoSession DEF IInv

LEMMA InitAgainStep ==
  ASSUME IInv, NEW r \in Reloader, InitAgain(r)
  PROVE  IInv'
<1>1. /\ reload[r].pc = "init" /\ InitClient(reload[r].base) /\ Goto(r, "start")
      /\ UNCHANGED <<wifi, retries, starting, event, doubled, base, holder,
                     subscribed, retained, losses>>
  BY DEF InitAgain, At, wifiVars, brokerVars
<1>2. /\ ReloadOK'
      /\ \A s \in Reloader : reload'[s].pc = IF s = r THEN "start"
                                            ELSE reload[s].pc
  BY <1>1, WentOn DEF IInv, TypeOK, ReloadOK
<1>3. reload[r].base \in Base
  BY DEF IInv, TypeOK
<1>4. /\ ClientsOK' /\ handle' \in Client /\ status' = "DISCONNECTED"
      /\ clients[handle'].state = "unused"
      /\ \A d \in Client : clients'[d].state = IF d = handle' THEN "idle"
                                               ELSE clients[d].state
  BY <1>1, <1>3, ClientCreated DEF IInv
<1>5. TypeOK'
  BY <1>1, <1>2, <1>4, ClientIds DEF IInv, TypeOK, ReloadOK, ClientsOK
<1>6. RetriesOK' /\ EventsOK' /\ HandleIsAlive' /\ ~HandleInSession'
  BY <1>1, <1>4 DEF IInv, RetriesOK, EventsOK, HandleIsAlive, HandleInSession
<1> QED BY <1>5, <1>6, NoSession DEF IInv

LEMMA ConnectAgainStep ==
  ASSUME IInv, NEW r \in Reloader, ConnectAgain(r)
  PROVE  IInv'
<1>1. /\ reload[r].pc = "start" /\ StartClient
      /\ reload' = [reload EXCEPT ![r] = NoReload]
      /\ UNCHANGED <<wifi, retries, starting, handle, event, base, holder,
                     subscribed, retained, losses>>
  BY DEF ConnectAgain, At, wifiVars, brokerVars
<1>2. /\ ReloadOK'
      /\ \A s \in Reloader : reload'[s].pc = IF s = r THEN "none"
                                            ELSE reload[s].pc
  BY <1>1, ConnectionAssumption DEF IInv, TypeOK, ReloadOK, NoReload
<1>3. TypeOK'
  BY <1>1, <1>2, ClientStarted DEF IInv, TypeOK, ReloadOK, ClientsOK
<1>4. RetriesOK'
  BY <1>1 DEF IInv, RetriesOK
<1>5. Pending => Pending'
  BY <1>1, <1>2 DEF Pending
<1>6. EventsOK' /\ HandleIsAlive' /\ Announced'
  BY <1>1, <1>2, <1>5, StartClientStep DEF brokerVars
<1> QED BY <1>3, <1>4, <1>6 DEF IInv

(***************************************************************************)
(* The theorems.                                                           *)
(***************************************************************************)

LEMMA IInvInit == Init => IInv
<1> SUFFICES ASSUME Init PROVE IInv
  OBVIOUS
<1>1. TypeOK
  <2>1. 0 \in 0 .. MaxRetry /\ 0 \in 0 .. MaxClients /\ 0 \in 0 .. MaxLosses
    BY ConnectionAssumption
  <2>2. reload \in [Reloader -> [base : Base,
                      pc : {"none", "read", "stop", "destroy", "clear", "init",
                            "start"}]]
    BY ConnectionAssumption DEF Init, Started, NoReload
  <2>3. clients \in [Client -> [base : Base,
                       state : {"unused", "idle", "running", "up", "gone"}]]
    BY ConnectionAssumption DEF Init, Started, None
  <2>4. starting \in BOOLEAN /\ doubled \in BOOLEAN
    BY DEF Init, Started
  <2> QED BY <2>1, <2>2, <2>3, <2>4, ConnectionAssumption
          DEF Init, Started, TypeOK
<1>2. RetriesOK
  BY ConnectionAssumption DEF Init, Started, RetriesOK
<1>3. EventsOK /\ HandleIsAlive /\ Announced
  BY DEF Init, Started, EventsOK, HandleIsAlive, Announced, HandleInSession
<1> QED BY <1>1, <1>2, <1>3 DEF IInv

LEMMA IInvNext == IInv /\ [Next]_vars => IInv'
<1> SUFFICES ASSUME IInv, [Next]_vars PROVE IInv'
  OBVIOUS
<1>1. CASE WifiStep
  BY <1>1, GotIpStep, ConnectAfterGotIpStep, RestartStep DEF WifiStep, WakeUp
<1>2. CASE StaDisconnected \/ Panic \/ BrokerDrops
  BY <1>2, StaDisconnectedStep, RestartStep, BrokerDropsStep DEF Panic
<1>3. CASE \E c \in Client : ClientStep(c) \/ ClientLoses(c)
  BY <1>3, ConnectsStep, AnnounceStep, SubscribeStep, LosesStep DEF ClientStep
<1>4. CASE \E r \in Reloader : ReloadStep(r)
  BY <1>4, ReadStep, DisconnectStep, DestroyStep, ClearStep, InitAgainStep,
     ConnectAgainStep DEF ReloadStep
<1>5. CASE \E r \in Reloader, b \in Base : RequestReload(r, b)
  BY <1>5, RequestStep
<1>6. CASE UNCHANGED vars
  BY <1>6 DEF vars, wifiVars, clientVars, brokerVars, IInv, TypeOK, RetriesOK,
     EventsOK, HandleIsAlive, Announced, OrphanFree, Alive, HandleInSession,
     Pending
<1> QED BY <1>1, <1>2, <1>3, <1>4, <1>5, <1>6 DEF Next

THEOREM Invariant == Spec => []IInv
BY IInvInit, IInvNext, PTL DEF Spec

(***************************************************************************)
(* Whoever has taken the client away brings one back.                      *)
(***************************************************************************)

SomeAt(pcs) == \E r \in Reloader : reload[r].pc \in pcs

\* With a network: an empty handle is filled by a reload that is about to create
\* a client; a client that does nothing is one that is about to be connected,
\* or one that is about to be destroyed.
Driven ==
  wifi = "up" =>
    /\ handle = 0 => SomeAt({"init"})
    /\ handle # 0 => clients[handle].state # "unused"
    /\ handle # 0 /\ clients[handle].state = "idle"
         => starting \/ SomeAt({"destroy", "start"})

LEMMA DrivenWifi ==
  ASSUME IInv, Driven, WifiStep \/ StaDisconnected \/ Panic \/ BrokerDrops
  PROVE  Driven'
<1>1. CASE GotIp
  <2>1. handle' \in Client /\ clients'[handle'].state = "idle" /\ starting'
    BY <1>1, ClientCreated DEF GotIp, IInv, TypeOK
  <2> QED BY <2>1, ClientIds DEF Driven
<1>2. CASE ConnectAfterGotIp
  <2>1. /\ StartClient /\ starting /\ UNCHANGED <<wifi, handle, reload>>
    BY <1>2 DEF ConnectAfterGotIp
  <2>2. handle # 0 => clients'[handle].state \notin {"unused", "idle"}
                      \/ clients[handle].state = "unused"
    BY <2>1, ClientIds DEF StartClient, IInv, TypeOK
  <2> QED BY <2>1, <2>2 DEF Driven, SomeAt
<1>3. CASE WakeUp \/ Panic
  BY <1>3 DEF WakeUp, Panic, Restart, Driven
<1>4. CASE StaDisconnected
  BY <1>4 DEF StaDisconnected, Driven
<1>5. CASE BrokerDrops
  BY <1>5 DEF BrokerDrops, Driven, SomeAt, wifiVars, clientVars
<1> QED BY <1>1, <1>2, <1>3, <1>4, <1>5 DEF WifiStep

LEMMA DrivenClients ==
  ASSUME IInv, Driven, NEW c \in Client, ClientStep(c) \/ ClientLoses(c)
  PROVE  Driven'
<1>1. UNCHANGED <<wifi, starting, handle, reload>>
  BY DEF ClientStep, ClientConnects, AnnounceOnline, SubscribeAll, ClientLoses,
         wifiVars
<1>2. \A d \in Client : clients'[d].state = clients[d].state
                        \/ clients'[d].state \in {"running", "up"}
  BY DEF ClientStep, ClientConnects, AnnounceOnline, SubscribeAll, ClientLoses,
         IInv, TypeOK
<1>3. handle # 0 => handle \in Client
  BY ClientIds DEF IInv, TypeOK
<1> QED BY <1>1, <1>2, <1>3 DEF Driven, SomeAt

LEMMA DrivenReload ==
  ASSUME IInv, Driven, NEW r \in Reloader,
         ReloadStep(r) \/ \E b \in Base : RequestReload(r, b)
  PROVE  Driven'
<1> USE DEF At, Goto
<1>1. handle # 0 => handle \in Client
  BY ClientIds DEF IInv, TypeOK
<1>2. ReloadOK
  BY DEF IInv, TypeOK, ReloadOK
<1>3. CASE ReadConfig(r) \/ \E b \in Base : RequestReload(r, b)
  <2>1. UNCHANGED <<wifi, starting, handle, clients>>
    BY <1>3 DEF ReadConfig, RequestReload, wifiVars, clientVars
  <2>2. \A s \in Reloader : \/ reload'[s].pc = reload[s].pc
                            \/ s = r /\ reload[s].pc \in {"none", "read"}
    BY <1>2, <1>3 DEF ReadConfig, RequestReload, ReloadOK
  <2> QED BY <2>1, <2>2 DEF Driven, SomeAt
<1>4. CASE Disconnect(r)
  <2>1. /\ UNCHANGED <<wifi, starting, handle>>
        /\ reload[r].pc = "stop" /\ Goto(r, "destroy") /\ StopClient("idle")
    BY <1>4 DEF Disconnect, StopClient, wifiVars
  <2>2. \A s \in Reloader : reload'[s].pc = IF s = r THEN "destroy"
                                            ELSE reload[s].pc
    BY <2>1, <1>2 DEF ReloadOK
  <2>3. handle # 0 => clients'[handle].state \in {"idle", "gone"}
    BY <1>1, <2>1, ClientStopped DEF IInv
  <2> QED BY <2>1, <2>2, <2>3 DEF Driven, SomeAt
<1>5. CASE DestroyClient(r)
  <2>1. /\ UNCHANGED <<wifi, starting, handle>>
        /\ reload[r].pc = "destroy" /\ StopClient("gone")
        /\ Goto(r, IF handle = 0 THEN "init" ELSE "clear")
    BY <1>5 DEF DestroyClient, StopClient, wifiVars
  <2>2. handle = 0 => reload'[r].pc = "init"
    BY <2>1, <1>2 DEF ReloadOK
  <2>3. handle # 0 => clients'[handle].state = "gone"
    BY <1>1, <2>1, ClientStopped DEF IInv
  <2> QED BY <2>1, <2>2, <2>3 DEF Driven, SomeAt
<1>6. CASE ClearHandle(r)
  <2>1. handle' = 0 /\ reload'[r].pc = "init"
    BY <1>6, <1>2 DEF ClearHandle, ReloadOK
  <2> QED BY <2>1 DEF Driven, SomeAt
<1>7. CASE InitAgain(r)
  <2>1. reload[r].base \in Base /\ InitClient(reload[r].base)
        /\ reload'[r].pc = "start"
    BY <1>7, <1>2 DEF InitAgain, ReloadOK
  <2>2. handle' \in Client /\ clients'[handle'].state = "idle"
    BY <2>1, ClientCreated DEF IInv
  <2> QED BY <2>1, <2>2, ClientIds DEF Driven, SomeAt
<1>8. CASE ConnectAgain(r)
  <2>1. /\ StartClient /\ reload[r].pc = "start"
        /\ reload' = [reload EXCEPT ![r] = NoReload]
        /\ UNCHANGED <<wifi, starting, handle>>
    BY <1>8 DEF ConnectAgain, wifiVars
  <2>2. \A s \in Reloader : s # r => reload'[s].pc = reload[s].pc
    BY <2>1, <1>2 DEF ReloadOK
  <2>3. handle # 0 => clients'[handle].state \notin {"unused", "idle"}
                      \/ clients[handle].state = "unused"
    BY <1>1, <2>1 DEF StartClient, IInv, TypeOK
  <2> QED BY <2>1, <2>2, <2>3 DEF Driven, SomeAt
<1> QED BY <1>3, <1>4, <1>5, <1>6, <1>7, <1>8 DEF ReloadStep

LEMMA DrivenNext == IInv /\ Driven /\ [Next]_vars => Driven'
<1>1. ASSUME Driven, UNCHANGED vars PROVE Driven'
  BY <1>1 DEF vars, wifiVars, clientVars, Driven, SomeAt
<1> QED BY <1>1, DrivenWifi, DrivenClients, DrivenReload DEF Next

\* Wi-Fi, the clients, the reloads and the broker's session stay well typed.
THEOREM TypeCorrect == Spec => []TypeOK
<1>1. IInv => TypeOK
  BY DEF IInv
<1> QED BY <1>1, Invariant, PTL

\* However many reloads overlap, the handle names a destroyed client only while
\* some reload is between destroying it and clearing the handle.
THEOREM HandleStaysAlive == Spec => []HandleIsAlive
<1>1. IInv => HandleIsAlive
  BY DEF IInv
<1> QED BY <1>1, Invariant, PTL

\* However reloads overlap each other and a second GOT_IP: when none of them is
\* between stopping and connecting, the client of the handle runs.
THEOREM ClientKeepsRunning == Spec => []ClientRuns
<1>1. Init => Driven
  BY DEF Init, Started, Driven
<1>2. IInv /\ Driven => ClientRuns
  <2> SUFFICES ASSUME IInv, Driven, wifi = "up", ~starting,
                      \A r \in Reloader : reload[r].pc \in {"none", "read", "stop"}
               PROVE  handle # 0 /\ clients[handle].state \in {"running", "up"}
    BY DEF ClientRuns
  <2>1. handle # 0
    BY DEF Driven, SomeAt
  <2>2. clients[handle].state \in {"unused", "idle", "running", "up", "gone"}
    BY <2>1, ClientIds DEF IInv, TypeOK
  <2>3. clients[handle].state \notin {"unused", "idle"}
    BY <2>1 DEF Driven, SomeAt
  <2>4. clients[handle].state # "gone"
    BY <2>1 DEF IInv, HandleIsAlive
  <2> QED BY <2>1, <2>2, <2>3, <2>4
<1> QED BY <1>1, <1>2, DrivenNext, Invariant, PTL DEF Spec

\* Through any losses, takeovers and overlapping reloads with new base topics: a
\* bridge that has settled with its session is subscribed under the configured
\* base topic and "online" there.
THEOREM AnnouncedWhenConnected == Spec => []OnlineWhenConnected
<1>1. Settled => OrphanFree /\ ~Pending
  BY DEF Settled, OrphanFree, Pending
<1>2. IInv => OnlineWhenConnected
  BY <1>1 DEF IInv, Announced, OnlineWhenConnected
<1> QED BY <1>2, Invariant, PTL

=============================================================================
