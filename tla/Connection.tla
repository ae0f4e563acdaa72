------------------------------ MODULE Connection ------------------------------
(***************************************************************************)
(* The way to the broker: the Wi-Fi event handler, AppController's         *)
(* callbacks, MQTTClient with its one client_handle, the tasks that reload *)
(* it, and, as its environment, the clients of the esp-mqtt library and    *)
(* the broker.                                                             *)
(*                                                                         *)
(* The event task, the reload tasks and the clients' own tasks share       *)
(* client_handle and status without a lock, so each statement of           *)
(* reloadConfig that uses the handle is a step of its own.  A client keeps *)
(* its lock while it delivers an event: esp_mqtt_client_stop waits for it. *)
(* A call with the handle of a destroyed client is undefined: here it has  *)
(* no effect, or ends in a panic, which restarts the device.               *)
(*                                                                         *)
(* All clients use one client id, for which the broker keeps one session.  *)
(***************************************************************************)
EXTENDS Naturals, FiniteSets

CONSTANTS
  MaxRetry,     \* CONFIG_DALI2MQTT_WIFI_MAX_RETRY
  Base,         \* base topics
  FirstBase,    \* the one configured at first
  Reloader,     \* tasks that may reload the client at a time
  MaxClients,   \* bound: clients between two starts of the device
  MaxLosses     \* bound: losses of the Wi-Fi or of a TCP connection

ASSUME ConnectionAssumption ==
  /\ MaxRetry \in Nat \ {0} /\ FirstBase \in Base
  /\ Base \cap {"none", "announce"} = {}
  /\ MaxClients \in Nat /\ MaxLosses \in Nat

VARIABLES
  wifi,        \* Wifi.status, or "asleep"
  retries,     \* s_retry_count
  starting,    \* the event task has called init and not yet connect
  handle,      \* client_handle: 0 is null
  status,      \* MQTTClient.status
  clients,     \* the clients of the library: what they do, their base topic
  event,       \* a client that delivers MQTT_EVENT_CONNECTED: "announce", then
               \* the base topic it subscribes under
  base,        \* mqtt_base_topic as configured
  reload,      \* reload tasks: where they are, the configuration they read
  holder,      \* the broker: the client that holds the session, or 0
  subscribed,  \* the base topics that the session is subscribed under
  retained,    \* the retained availability under each base topic
  losses,
  doubled      \* history: connect was called for a client that ran already, and
               \* MQTT_EVENT_CONNECTED has not come since

Client == 1 .. MaxClients
None == [state |-> "unused", base |-> FirstBase]
NoReload == [pc |-> "none", base |-> FirstBase]
wifiVars == <<wifi, retries, starting>>
brokerVars == <<holder, subscribed, retained>>
clientVars == <<handle, status, clients, event, doubled>>
vars == <<wifiVars, clientVars, base, reload, brokerVars, losses>>

\* startNormalMode up to the first connection attempt.
Started ==
  /\ wifi = "connecting" /\ retries = 0 /\ starting = FALSE
  /\ handle = 0 /\ status = "DISCONNECTED" /\ doubled = FALSE
  /\ clients = [c \in Client |-> None] /\ event = [c \in Client |-> "none"]
  /\ reload = [r \in Reloader |-> NoReload]

Init ==
  /\ Started /\ base = FirstBase /\ losses = 0
  /\ holder = 0 /\ subscribed = {} /\ retained = [b \in Base |-> "none"]

-------------------------------------------------------------------------------
(* MQTTClient.                                                             *)

Unused == {c \in Client : clients[c].state = "unused"}
Alive == {c \in Client : clients[c].state \in {"idle", "running", "up"}}

\* Bound: every reload under way, and one client more, can be created.
Spare == Cardinality(Unused) >
           Cardinality({r \in Reloader : reload[r].pc # "none"})

\* init: a new client; the old one, if any, is not touched.
InitClient(b) ==
  \E c \in Unused :
    /\ \A d \in Unused : c <= d
    /\ clients' = [clients EXCEPT ![c] = [state |-> "idle", base |-> b]]
    /\ handle' = c /\ status' = "DISCONNECTED"

\* Mutant: connect does nothing for a bridge that counts as connected.
StartClientOnce ==
  IF handle = 0 \/ status # "DISCONNECTED"
  THEN UNCHANGED <<status, clients, doubled>>
  ELSE /\ status' = "CONNECTING"
       /\ doubled' = (doubled \/ clients[handle].state # "idle")
       /\ clients' = [clients EXCEPT ![handle].state =
                        IF @ = "idle" THEN "running" ELSE @]

\* connect.
StartClient ==
  IF handle = 0 THEN UNCHANGED <<status, clients, doubled>>
  ELSE /\ status' = "CONNECTING"
       /\ doubled' = (doubled \/ clients[handle].state # "idle")
       /\ clients' = [clients EXCEPT ![handle].state =
                        IF @ = "idle" THEN "running" ELSE @]

-------------------------------------------------------------------------------
(* Wi-Fi: wifiEventHandler, onNetworkConnected.                            *)

\* An attempt has failed, or the connection is lost.
StaDisconnected ==
  /\ wifi \in {"connecting", "up"} /\ ~starting
  /\ losses' = IF wifi = "up" THEN losses + 1 ELSE losses
  /\ losses' <= MaxLosses
  /\ retries' = retries + 1
  /\ wifi' = IF retries' >= MaxRetry THEN "asleep" ELSE "connecting"
  /\ UNCHANGED <<starting, clientVars, base, reload, brokerVars>>

\* GOT_IP: a client is created, whatever client there was.
GotIp ==
  /\ wifi = "connecting" /\ ~starting /\ Spare
  /\ wifi' = "up" /\ retries' = 0 /\ starting' = TRUE
  /\ InitClient(base)
  /\ UNCHANGED <<event, doubled, base, reload, brokerVars, losses>>

ConnectAfterGotIp ==
  /\ starting
  /\ StartClient
  /\ starting' = FALSE
  /\ UNCHANGED <<wifi, retries, handle, event, base, reload, brokerVars,
                 losses>>

\* The device starts anew; the broker has dropped the session meanwhile.
Restart ==
  /\ wifi' = "connecting" /\ retries' = 0 /\ starting' = FALSE
  /\ handle' = 0 /\ status' = "DISCONNECTED" /\ doubled' = FALSE
  /\ clients' = [c \in Client |-> None]
  /\ event' = [c \in Client |-> "none"]
  /\ reload' = [r \in Reloader |-> NoReload]
  /\ IF holder = 0 THEN UNCHANGED brokerVars
     ELSE /\ holder' = 0 /\ subscribed' = {}
          /\ retained' = [retained EXCEPT ![clients[holder].base] = "offline"]
  /\ UNCHANGED <<base, losses>>

\* The deep sleep is over.
WakeUp == wifi = "asleep" /\ Restart

\* A destroyed client is used.
Panic ==
  /\ wifi # "asleep"
  /\ handle # 0 /\ clients[handle].state = "gone"
  /\ \/ starting
     \/ \E c \in Client : event[c] # "none"
     \/ \E r \in Reloader : reload[r].pc \in {"stop", "destroy", "start"}
  /\ Restart

-------------------------------------------------------------------------------
(* The clients and the broker.                                             *)

Awake == wifi # "asleep"

\* The broker ends a session that lives on elsewhere: the will is published.
WillIf(lost) ==
  retained' = IF lost THEN [retained EXCEPT ![clients[holder].base] = "offline"]
              ELSE retained

\* A client connects, and takes the session over; MQTT_EVENT_CONNECTED.
ClientConnects(c) ==
  /\ wifi = "up" /\ clients[c].state = "running"
  /\ clients' = [clients EXCEPT ![c].state = "up"]
  /\ event' = [event EXCEPT ![c] = "announce"]
  /\ status' = "CONNECTED" /\ doubled' = FALSE
  /\ holder' = c /\ subscribed' = {} /\ WillIf(holder # 0)
  /\ UNCHANGED <<wifiVars, handle, base, reload, losses>>

\* MQTT_EVENT_DISCONNECTED: the network or the session is gone.
ClientLoses(c) ==
  /\ Awake /\ clients[c].state = "up" /\ event[c] = "none"
  /\ \/ wifi # "up" \/ holder # c
     \/ losses < MaxLosses
  /\ losses' = IF wifi # "up" \/ holder # c THEN losses ELSE losses + 1
  /\ clients' = [clients EXCEPT ![c].state = "running"]
  /\ status' = "DISCONNECTED"
  /\ UNCHANGED <<wifiVars, handle, event, doubled, base, reload, brokerVars>>

\* The broker gives a silent client up.
BrokerDrops ==
  /\ holder # 0
  /\ wifi # "up" \/ clients[holder].state # "up"
  /\ holder' = 0 /\ subscribed' = {} /\ WillIf(TRUE)
  /\ UNCHANGED <<wifiVars, clientVars, base, reload, losses>>

\* Publications and subscriptions go to the client of the handle, in the
\* callback of whichever client.
HandleInSession == handle # 0 /\ handle = holder /\ clients[handle].state = "up"

\* Mutant: "online" is published at the first connection only.
AnnounceOnce(c) ==
  /\ Awake /\ event[c] = "announce"
  /\ event' = [event EXCEPT ![c] = base]
  /\ retained' = IF HandleInSession /\ retained[base] = "none"
                 THEN [retained EXCEPT ![base] = "online"] ELSE retained
  /\ UNCHANGED <<wifiVars, handle, status, clients, doubled, base, reload,
                 holder, subscribed, losses>>

\* onMqttConnected reads the configuration and publishes "online",
AnnounceOnline(c) ==
  /\ Awake /\ event[c] = "announce"
  /\ event' = [event EXCEPT ![c] = base]
  /\ retained' = IF HandleInSession THEN [retained EXCEPT ![base] = "online"]
                 ELSE retained
  /\ UNCHANGED <<wifiVars, handle, status, clients, doubled, base, reload,
                 holder, subscribed, losses>>

\* and subscribes.
SubscribeAll(c) ==
  /\ Awake /\ event[c] \in Base
  /\ event' = [event EXCEPT ![c] = "none"]
  /\ subscribed' = IF HandleInSession THEN subscribed \cup {event[c]}
                   ELSE subscribed
  /\ UNCHANGED <<wifiVars, handle, status, clients, doubled, base, reload,
                 holder, retained, losses>>

-------------------------------------------------------------------------------
(* reloadConfig, in a task of its own.                                     *)

At(r, pc) == Awake /\ reload[r].pc = pc
Goto(r, pc) == reload' = [reload EXCEPT ![r].pc = pc]

\* A new base topic has been saved, and a reload task started.
RequestReload(r, b) ==
  /\ At(r, "none") /\ Spare
  /\ base' = b
  /\ Goto(r, "read")
  /\ UNCHANGED <<wifiVars, clientVars, brokerVars, losses>>

ReadConfig(r) ==
  /\ At(r, "read")
  /\ reload' = [reload EXCEPT ![r] = [pc |-> "stop", base |-> base]]
  /\ UNCHANGED <<wifiVars, clientVars, base, brokerVars, losses>>

\* esp_mqtt_client_stop, and the stop that is part of the destruction: once
\* the client delivers no event it says goodbye, and no will is published.
StopClient(to) ==
  /\ handle # 0 => event[handle] = "none"
  /\ clients' = [c \in Client |->
                   IF c = handle /\ clients[c].state # "gone"
                   THEN [clients[c] EXCEPT !.state = to] ELSE clients[c]]
  /\ IF HandleInSession /\ wifi = "up"
     THEN holder' = 0 /\ subscribed' = {}
     ELSE UNCHANGED <<holder, subscribed>>
  /\ UNCHANGED <<wifiVars, handle, event, doubled, base, retained, losses>>

\* disconnect.
Disconnect(r) ==
  /\ At(r, "stop")
  /\ status' = IF handle = 0 THEN status ELSE "DISCONNECTED"
  /\ StopClient("idle")
  /\ Goto(r, "destroy")

DestroyClient(r) ==
  /\ At(r, "destroy")
  /\ StopClient("gone")
  /\ Goto(r, IF handle = 0 THEN "init" ELSE "clear")
  /\ UNCHANGED status

\* Mutant: the handle of the destroyed client is kept.
ClearHandleForgotten(r) ==
  /\ At(r, "clear") /\ Goto(r, "init")
  /\ UNCHANGED <<wifiVars, clientVars, base, brokerVars, losses>>

ClearHandle(r) ==
  /\ At(r, "clear")
  /\ handle' = 0 /\ Goto(r, "init")
  /\ UNCHANGED <<wifiVars, status, clients, event, doubled, base, brokerVars,
                 losses>>

InitAgain(r) ==
  /\ At(r, "init")
  /\ InitClient(reload[r].base) /\ Goto(r, "start")
  /\ UNCHANGED <<wifiVars, event, doubled, base, brokerVars, losses>>

\* Mutant: reloadConfig does not connect.
ConnectAgainNot(r) ==
  /\ At(r, "start")
  /\ reload' = [reload EXCEPT ![r] = NoReload]
  /\ UNCHANGED <<wifiVars, clientVars, base, brokerVars, losses>>

ConnectAgain(r) ==
  /\ At(r, "start")
  /\ StartClient
  /\ reload' = [reload EXCEPT ![r] = NoReload]
  /\ UNCHANGED <<wifiVars, handle, event, base, brokerVars, losses>>

ReloadStep(r) == \/ ReadConfig(r) \/ Disconnect(r) \/ DestroyClient(r)
                 \/ ClearHandle(r) \/ InitAgain(r) \/ ConnectAgain(r)
WifiStep == GotIp \/ ConnectAfterGotIp \/ WakeUp
ClientStep(c) == ClientConnects(c) \/ AnnounceOnline(c) \/ SubscribeAll(c)

Next ==
  \/ WifiStep \/ StaDisconnected \/ Panic \/ BrokerDrops
  \/ \E c \in Client : ClientStep(c) \/ ClientLoses(c)
  \/ \E r \in Reloader : ReloadStep(r)
  \/ \E r \in Reloader, b \in Base : RequestReload(r, b)

\* The default event loop, the reload tasks and the clients' tasks run on; the
\* broker gives up a client that is silent, and a client notices that its
\* connection is gone.
Spec ==
  /\ Init /\ [][Next]_vars
  /\ WF_vars(WifiStep) /\ WF_vars(BrokerDrops)
  /\ \A c \in Client :
       /\ WF_vars(ClientStep(c))
       /\ WF_vars((wifi # "up" \/ holder # c) /\ ClientLoses(c))
  /\ \A r \in Reloader : WF_vars(ReloadStep(r))

-------------------------------------------------------------------------------
(* What has to hold.                                                       *)

TypeOK ==
  /\ wifi \in {"connecting", "up", "asleep"} /\ retries \in 0 .. MaxRetry
  /\ starting \in BOOLEAN /\ doubled \in BOOLEAN /\ handle \in 0 .. MaxClients
  /\ status \in {"DISCONNECTED", "CONNECTING", "CONNECTED"}
  /\ clients \in [Client -> [base : Base,
                    state : {"unused", "idle", "running", "up", "gone"}]]
  /\ event \in [Client -> {"none", "announce"} \cup Base]
  /\ base \in Base /\ losses \in 0 .. MaxLosses
  /\ reload \in [Reloader -> [base : Base,
                   pc : {"none", "read", "stop", "destroy", "clear", "init",
                         "start"}]]
  /\ holder \in 0 .. MaxClients /\ subscribed \in SUBSET Base
  /\ retained \in [Base -> {"none", "online", "offline"}]

\* Nothing is under way in the tasks of the bridge, and no client is left over:
\* the second client of a second GOT_IP, or of two overlapping reloads, keeps
\* taking the session from the first.
Settled ==
  /\ Alive = {handle} /\ ~starting
  /\ \A r \in Reloader : reload[r].pc = "none"

\* A bridge that has a session and has handled MQTT_EVENT_CONNECTED is
\* subscribed under its base topic and "online" there, after every sequence of
\* losses, takeovers and reloads; and its status says so, unless connect ran
\* twice for the client.
OnlineWhenConnected ==
  Settled /\ HandleInSession /\ event[handle] = "none" =>
    /\ status = "CONNECTED" \/ doubled
    /\ base \in subscribed /\ retained[base] = "online"

\* The handle is null or names a client that was not destroyed, except between
\* two statements of reloadConfig.
HandleIsAlive ==
  handle # 0 => clients[handle].state # "gone"
                \/ \E r \in Reloader : reload[r].pc = "clear"

\* While there is a network, the client of the handle connects or is connected,
\* except while a task is between stopping a client and connecting the next:
\* reloads that overlap, or meet a second GOT_IP, take the handle from each other
\* and clear it, but whoever is last leaves a client that runs.
ClientRuns ==
  wifi = "up" /\ ~starting
  /\ (\A r \in Reloader : reload[r].pc \in {"none", "read", "stop"})
    => handle # 0 /\ clients[handle].state \in {"running", "up"}

\* Once the network stays and nobody reloads, the bridge gets its session and
\* keeps it, subscribed.
ComesOnline ==
  <>[](wifi = "up" /\ Settled) => <>[](HandleInSession /\ base \in subscribed)

=============================================================================
