------------------------------- MODULE MqttSetup -------------------------------
(***************************************************************************)
(* From power-on to the auth token: wifi_event_handler in the event task,  *)
(* mqtt_event_handler in the task of the MQTT client. What both say on the *)
(* LED is a part of StatusLed.                                             *)
(*                                                                         *)
(* The WiFi driver, the MQTT library and the server are external.  The     *)
(* driver tries to connect once per esp_wifi_connect and posts its events  *)
(* to a FIFO; the library retries by itself, writes into a connection that *)
(* may be gone, and dispatches its events from its own task.               *)
(*                                                                         *)
(* The event task outranks the MQTT task and the ESP32-C2 has one core: a  *)
(* client that was started does nothing before mqtt_handler_start returns. *)
(* Its calls of the library are interleaved with the driver.               *)
(* udp_task_handle and cmd_callback are never set by this firmware, so     *)
(* what the handlers do with them is dead code.                            *)
(***************************************************************************)
EXTENDS Naturals, Sequences

CONSTANTS
    MaxBreaks,      \* bound: MQTT connections that break while WiFi is up
    MaxFailures     \* bound: calls of mqtt_handler_start that fail

ASSUME SetupAssumption == MaxBreaks \in Nat /\ MaxFailures \in Nat

VARIABLES
    ap,             \* whether the access point can be reached
    driver,         \* what the WiFi driver does
    events,         \* its events, not yet handled
    epc,            \* where the event task is
    wifi_connected,
    client,         \* whether mqtt_ctx.client, the handle, is set
    created,        \* clients that were created and not destroyed
    running,        \* how many of them were started
    failures,       \* how often a start has failed
    conn,           \* the client's connection to the broker
    breaks,         \* how often it broke while WiFi was up
    mpc,            \* where the MQTT task is
    state,          \* mqtt_ctx.state
    subscribed,     \* whether this connection's subscription was sent
    asked,          \* its requests that were sent and are not answered
    inbox,          \* commands under way to the client
    token_received,
    config_received

wifiVars == <<ap, driver, events, epc, wifi_connected>>
clientVars == <<client, created, running, failures>>
sessionVars == <<subscribed, asked, inbox>>
setupVars == <<token_received, config_received>>
vars == <<wifiVars, clientVars, conn, breaks, mpc, state, sessionVars,
          setupVars>>

-----------------------------------------------------------------------------
Commands == {"updatetoken", "updateconfig", "other"}
Requests == {"login", "data_config"}

TypeOK ==
    /\ ap \in BOOLEAN /\ wifi_connected \in BOOLEAN
    /\ driver \in {"idle", "connecting", "associated"}
    /\ events \in Seq({"STA_START", "STA_DISCONNECTED", "GOT_IP"})
    /\ Len(events) <= 2
    /\ epc \in {"loop", "start_client", "register", "start"}
    /\ client \in BOOLEAN /\ created \in 0..1 /\ running \in 0..1
    /\ failures \in 0..MaxFailures /\ breaks \in 0..MaxBreaks
    /\ conn \in {"none", "down", "up", "broken"}
    /\ mpc \in {"loop", "subscribe", "login", "data_config", "callback",
                "closed", "closed_callback"}
    /\ state \in {"DISCONNECTED", "CONNECTING", "CONNECTED", "ERROR"}
    /\ subscribed \in BOOLEAN
    /\ asked \subseteq Requests /\ inbox \subseteq Commands
    /\ token_received \in BOOLEAN /\ config_received \in BOOLEAN

\* app_main up to esp_wifi_start. The MQTT handler and its callback are there
\* before the first WiFi event.
Init ==
    /\ ap \in BOOLEAN
    /\ driver = "idle"
    /\ events = <<"STA_START">>
    /\ epc = "loop"
    /\ wifi_connected = FALSE
    /\ client = FALSE /\ created = 0 /\ running = 0 /\ failures = 0
    /\ conn = "none" /\ breaks = 0
    /\ mpc = "loop"
    /\ state = "DISCONNECTED"
    /\ subscribed = FALSE /\ asked = {} /\ inbox = {}
    /\ token_received = FALSE /\ config_received = FALSE

-----------------------------------------------------------------------------
(* The access point and the WiFi driver *)

ApChanges ==
    /\ ap' = ~ap
    /\ UNCHANGED <<driver, events, epc, wifi_connected, clientVars, conn,
                   breaks, mpc, state, sessionVars, setupVars>>

\* One attempt ends: with an address, or with STA_DISCONNECTED.
Attempt ==
    /\ driver = "connecting"
    /\ IF ap
       THEN driver' = "associated" /\ events' = Append(events, "GOT_IP")
       ELSE driver' = "idle" /\ events' = Append(events, "STA_DISCONNECTED")
    /\ UNCHANGED <<ap, epc, wifi_connected, clientVars, conn, breaks, mpc,
                   state, sessionVars, setupVars>>

SignalLost ==
    /\ driver = "associated" /\ ~ap
    /\ driver' = "idle"
    /\ events' = Append(events, "STA_DISCONNECTED")
    /\ UNCHANGED <<ap, epc, wifi_connected, clientVars, conn, breaks, mpc,
                   state, sessionVars, setupVars>>

-----------------------------------------------------------------------------
(* The event task: wifi_event_handler *)

Handles(e) ==
    /\ epc = "loop"
    /\ events # <<>> /\ Head(events) = e
    /\ events' = Tail(events)

OnStart ==
    /\ Handles("STA_START")
    /\ driver' = "connecting"
    /\ UNCHANGED <<ap, epc, wifi_connected, clientVars, conn, breaks, mpc,
                   state, sessionVars, setupVars>>

\* Mutant of OnDisconnected: esp_wifi_connect is not called again.
MutNoReconnect ==
    /\ Handles("STA_DISCONNECTED")
    /\ wifi_connected' = FALSE
    /\ UNCHANGED <<ap, driver, epc, clientVars, conn, breaks, mpc, state,
                   sessionVars, setupVars>>

OnDisconnected ==
    /\ Handles("STA_DISCONNECTED")
    /\ wifi_connected' = FALSE
    /\ driver' = "connecting"
    /\ UNCHANGED <<ap, epc, clientVars, conn, breaks, mpc, state,
                   sessionVars, setupVars>>

\* Up to the call of mqtt_handler_start: led_set_system_state may have to wait
\* for the LED's mutex, and the MQTT task then runs.
OnGotIp ==
    /\ Handles("GOT_IP")
    /\ wifi_connected' = TRUE
    /\ epc' = "start_client"
    /\ UNCHANGED <<ap, driver, clientVars, conn, breaks, mpc, state,
                   sessionVars, setupVars>>

\* Mutant of InitClient: the test for a client that is already there is
\* missing.
MutStartAgain ==
    /\ epc = "start_client"
    /\ epc' = "register"
    /\ client' = TRUE /\ created' = created + 1
    /\ UNCHANGED <<ap, driver, events, wifi_connected, running, failures, conn,
                   breaks, mpc, state, sessionVars, setupVars>>

\* mqtt_handler_start finds no handle: esp_mqtt_client_init. The handle is set
\* long before the client runs.
InitClient ==
    /\ epc = "start_client" /\ ~client
    /\ epc' = "register"
    /\ client' = TRUE /\ created' = created + 1
    /\ UNCHANGED <<ap, driver, events, wifi_connected, running, failures, conn,
                   breaks, mpc, state, sessionVars, setupVars>>

\* It was created by an earlier GOT_IP: it is trusted to run.
AlreadyStarted ==
    /\ epc = "start_client" /\ client
    /\ epc' = "loop"
    /\ UNCHANGED <<ap, driver, events, wifi_connected, clientVars, conn, breaks,
                   mpc, state, sessionVars, setupVars>>

\* A call of the library fails, and mqtt_handler_start returns. Nobody tries
\* again before the next GOT_IP.
GivesUp ==
    /\ failures < MaxFailures          \* bound of the model
    /\ failures' = failures + 1
    /\ epc' = "loop"
    /\ UNCHANGED <<ap, driver, events, wifi_connected, running, conn, breaks,
                   mpc, state, sessionVars, setupVars>>

\* esp_mqtt_client_init returns NULL, which is stored.
InitFails ==
    /\ epc = "start_client" /\ ~client
    /\ client' = FALSE
    /\ UNCHANGED created
    /\ GivesUp

Register ==
    /\ epc = "register"
    /\ epc' = "start"
    /\ UNCHANGED <<ap, driver, events, wifi_connected, clientVars, conn, breaks,
                   mpc, state, sessionVars, setupVars>>

\* Mutant of RegisterFails: the client is not destroyed.
MutNotDestroyed ==
    /\ epc = "register"
    /\ client' = FALSE
    /\ UNCHANGED created
    /\ GivesUp

\* The client is destroyed and its handle reset: nobody else reads the handle
\* before a client runs.
RegisterFails ==
    /\ epc = "register"
    /\ created' = created - 1
    /\ client' = FALSE
    /\ GivesUp

StartClient ==
    /\ epc = "start"
    /\ epc' = "loop"
    /\ running' = running + 1
    /\ conn' = "down"
    /\ state' = "CONNECTING"
    /\ UNCHANGED <<ap, driver, events, wifi_connected, client, created,
                   failures, breaks, mpc, sessionVars, setupVars>>

\* Mutant of StartFails: the handle is kept.
MutKeepsHandle ==
    /\ epc = "start"
    /\ created' = created - 1
    /\ UNCHANGED client
    /\ GivesUp

StartFails ==
    /\ epc = "start"
    /\ created' = created - 1
    /\ client' = FALSE
    /\ GivesUp

EventTask ==
    \/ OnStart \/ OnDisconnected \/ OnGotIp
    \/ InitClient \/ AlreadyStarted \/ InitFails
    \/ Register \/ RegisterFails \/ StartClient \/ StartFails

-----------------------------------------------------------------------------
(* The MQTT task: mqtt_event_handler *)

\* The connection lives, and data gets through.
Reachable == conn = "up" /\ driver = "associated"

\* The broker accepts the connection: MQTT_EVENT_CONNECTED. A clean session:
\* nothing of an earlier connection is left.
OnConnected ==
    /\ mpc = "loop" /\ conn = "down" /\ driver = "associated"
    /\ conn' = "up"
    /\ subscribed' = FALSE /\ asked' = {} /\ inbox' = {}
    /\ state' = "CONNECTED"
    /\ mpc' = "subscribe"
    /\ UNCHANGED <<wifiVars, clientVars, breaks, setupVars>>

\* Mutant of Subscribe: the subscription of the first connection is thought
\* to last.
MutSubscribeOnce ==
    /\ mpc = "subscribe"
    /\ mpc' = "login"
    /\ subscribed' = (conn = "up" /\ breaks = 0)
    /\ UNCHANGED <<wifiVars, clientVars, conn, breaks, state, asked, inbox,
                   setupVars>>

\* The handler goes on whatever comes of the subscription and of the two
\* requests. What is written into a connection that is gone is lost; while
\* only WiFi is down TCP keeps it.
Subscribe ==
    /\ mpc = "subscribe"
    /\ mpc' = "login"
    /\ subscribed' = (conn = "up")
    /\ UNCHANGED <<wifiVars, clientVars, conn, breaks, state, asked, inbox,
                   setupVars>>

Publish(request) ==
    asked' = IF conn = "up" THEN asked \cup {request} ELSE asked

SendLogin ==
    /\ mpc = "login"
    /\ mpc' = "data_config"
    /\ Publish("login")
    /\ UNCHANGED <<wifiVars, clientVars, conn, breaks, state, subscribed, inbox,
                   setupVars>>

SendDataConfig ==
    /\ mpc = "data_config"
    /\ mpc' = "callback"
    /\ Publish("data_config")
    /\ UNCHANGED <<wifiVars, clientVars, conn, breaks, state, subscribed, inbox,
                   setupVars>>

\* mqtt_connection_callback(true)
ConnectedCallback ==
    /\ mpc = "callback"
    /\ mpc' = "loop"
    /\ UNCHANGED <<wifiVars, clientVars, conn, breaks, state, sessionVars,
                   setupVars>>

\* An attempt to connect fails, or the task notices that the connection is
\* gone: MQTT_EVENT_ERROR where a transport error is reported, and
\* MQTT_EVENT_DISCONNECTED after it.
Failed ==
    /\ mpc = "loop"
    /\ conn = "broken" \/ (conn = "down" /\ driver # "associated")
    /\ conn' = "down"
    /\ state' \in {state, "ERROR"}
    /\ mpc' = "closed"
    /\ UNCHANGED <<wifiVars, clientVars, breaks, sessionVars, setupVars>>

\* Mutant of OnClosed: the state is left as it is.
MutStateKept ==
    /\ mpc = "closed"
    /\ mpc' = "closed_callback"
    /\ UNCHANGED <<wifiVars, clientVars, conn, breaks, state, sessionVars,
                   setupVars>>

OnClosed ==
    /\ mpc = "closed"
    /\ mpc' = "closed_callback"
    /\ state' = "DISCONNECTED"
    /\ UNCHANGED <<wifiVars, clientVars, conn, breaks, sessionVars, setupVars>>

\* mqtt_connection_callback(false)
ClosedCallback ==
    /\ mpc = "closed_callback"
    /\ mpc' = "loop"
    /\ UNCHANGED <<wifiVars, clientVars, conn, breaks, state, sessionVars,
                   setupVars>>

Receives(c) ==
    /\ mpc = "loop" /\ Reachable
    /\ c \in inbox
    /\ inbox' = inbox \ {c}

\* handle_mqtt_message. The acknowledgement is published and forgotten.
UpdateToken ==
    /\ Receives("updatetoken")
    /\ token_received' = TRUE
    /\ UNCHANGED <<wifiVars, clientVars, conn, breaks, mpc, state, subscribed,
                   asked, config_received>>

UpdateConfig ==
    /\ Receives("updateconfig")
    /\ config_received' = TRUE
    /\ UNCHANGED <<wifiVars, clientVars, conn, breaks, mpc, state, subscribed,
                   asked, token_received>>

\* No JSON, no identifier, an unknown one, audioplay, or a token that is not a
\* string.
OtherMessage ==
    /\ Receives("other")
    /\ UNCHANGED <<wifiVars, clientVars, conn, breaks, mpc, state, subscribed,
                   asked, setupVars>>

MqttTask ==
    \/ OnConnected \/ Subscribe \/ SendLogin \/ SendDataConfig
    \/ ConnectedCallback \/ Failed \/ OnClosed \/ ClosedCallback
    \/ UpdateToken \/ UpdateConfig \/ OtherMessage

-----------------------------------------------------------------------------
(* The server and the network *)

\* The server answers a request; the broker passes the answer on to those who
\* have subscribed, and to nobody later.
Answers(request, c) ==
    /\ Reachable /\ request \in asked
    /\ asked' = asked \ {request}
    /\ inbox' = IF subscribed THEN inbox \cup {c} ELSE inbox
    /\ UNCHANGED <<wifiVars, clientVars, conn, breaks, mpc, state, subscribed,
                   setupVars>>

Server == Answers("login", "updatetoken") \/ Answers("data_config", "updateconfig")

OtherCommand ==
    /\ Reachable /\ subscribed
    /\ inbox' = inbox \cup {"other"}
    /\ UNCHANGED <<wifiVars, clientVars, conn, breaks, mpc, state, subscribed,
                   asked, setupVars>>

\* The connection breaks at once, or by keep-alive when WiFi is down.
Break ==
    /\ conn = "up"
    /\ IF driver = "associated"
       THEN breaks < MaxBreaks /\ breaks' = breaks + 1
       ELSE UNCHANGED breaks
    /\ conn' = "broken"
    /\ UNCHANGED <<wifiVars, clientVars, mpc, state, sessionVars, setupVars>>

-----------------------------------------------------------------------------
Next ==
    \/ ApChanges \/ Attempt \/ SignalLost
    \/ EventTask \/ MqttTask
    \/ Server \/ OtherCommand \/ Break

\* The two tasks are scheduled, messages are handled in the order of their
\* arrival, and the driver's attempts end. That the server answers is what the
\* log-in relies on.
Fairness ==
    /\ WF_vars(EventTask) /\ WF_vars(Attempt)
    /\ WF_vars(UpdateToken \/ UpdateConfig)
    /\ WF_vars(MqttTask)
    /\ WF_vars(Server)

Spec == Init /\ [][Next]_vars
FairSpec == Spec /\ Fairness

-----------------------------------------------------------------------------
(* Properties *)

\* Whenever the event task is done with an event, the handle is set exactly
\* when a client exists, and a client that exists runs: whichever call of the
\* library failed, and however often WiFi came back meanwhile. A handle that
\* outlived its client would make every later GOT_IP return without starting
\* one, and a client that outlived its handle could never be destroyed
\* (mqtt_handler_start).
OneClient ==
    epc = "loop" =>
        /\ client <=> created = 1
        /\ created = running

\* Between two events mqtt_get_state says CONNECTED exactly while the client
\* has a connection it has not yet seen fail: neither the late assignment of
\* CONNECTING nor a GOT_IP at any moment spoils it.
StateFollowsClient ==
    mpc = "loop" => (state = "CONNECTED" <=> conn \in {"up", "broken"})

\* Every failed attempt leads to another one: if the access point stays, WiFi
\* comes back for good, and the flag says so although the events it follows
\* come late (wifi_event_handler).
WifiComesBack == <>[]ap => <>[]wifi_connected

\* Once a client has been started and the access point stays, token and
\* configuration arrive, whichever answers and requests were lost with earlier
\* connections: each connection subscribes and asks anew (mqtt_event_handler).
LogInCompletes ==
    <>[]ap /\ <>(running = 1) => <>(token_received /\ config_received)
===============================================================================
