--------------------------- MODULE MqttSetup_proofs ---------------------------
(***************************************************************************)
(* Safety of the way to the token, however often connections break and     *)
(* starts fail.  The event task and the MQTT task share client, conn and   *)
(* state; the invariant says what each may rely on at its program counter. *)
(***************************************************************************)
EXTENDS MqttSetup, SequenceTheorems, TLAPS

\* The driver does nothing more before its last event but one is handled, so
\* the FIFO never holds more than a GOT_IP and what ended that connection.
EventsInv ==
    /\ driver = "connecting" => events = <<>>
    /\ driver = "associated" => events \in {<<>>, <<"GOT_IP">>}
    /\ driver = "idle" =>
          events \in {<<"STA_START">>, <<"STA_DISCONNECTED">>,
                      <<"GOT_IP", "STA_DISCONNECTED">>}

\* While a client is being made there is one that does not run, and before
\* and after it the handle, the client and its connection go together.
ClientInv ==
    /\ epc \in {"register", "start"} =>
          client /\ created = 1 /\ running = 0 /\ conn = "none"
    /\ epc \in {"loop", "start_client"} /\ client =>
          created = 1 /\ running = 1 /\ conn # "none"
    /\ epc \in {"loop", "start_client"} /\ ~client =>
          created = 0 /\ running = 0 /\ conn = "none"

\* A connection that the handler is still setting up, or is done with.
StateInv ==
    /\ conn = "none" => mpc = "loop" /\ state # "CONNECTED"
    /\ mpc \in {"subscribe", "login", "data_config", "callback"} =>
          conn \in {"up", "broken"} /\ state = "CONNECTED"
    /\ mpc \in {"closed", "closed_callback"} => conn = "down"
    /\ mpc = "closed_callback" => state # "CONNECTED"
    /\ mpc = "loop" => (state = "CONNECTED" <=> conn \in {"up", "broken"})

\* The types, in two parts, without what depends on the invariants above.
Flags ==
    /\ ap \in BOOLEAN /\ wifi_connected \in BOOLEAN /\ client \in BOOLEAN
    /\ subscribed \in BOOLEAN
    /\ token_received \in BOOLEAN /\ config_received \in BOOLEAN

Ranges ==
    /\ driver \in {"idle", "connecting", "associated"}
    /\ epc \in {"loop", "start_client", "register", "start"}
    /\ failures \in 0..MaxFailures /\ breaks \in 0..MaxBreaks
    /\ conn \in {"none", "down", "up", "broken"}
    /\ mpc \in {"loop", "subscribe", "login", "data_config", "callback",
                "closed", "closed_callback"}
    /\ state \in {"DISCONNECTED", "CONNECTING", "CONNECTED", "ERROR"}
    /\ asked \subseteq Requests /\ inbox \subseteq Commands

IInv == Flags /\ Ranges /\ EventsInv /\ ClientInv /\ StateInv

-----------------------------------------------------------------------------
LEMMA SetupInit == Init => IInv
<1>. SUFFICES ASSUME Init  PROVE IInv
  OBVIOUS
<1>1. Flags
  BY Zenon DEF Init, Flags
<1>2. Ranges
  BY SetupAssumption DEF Init, Ranges
<1>3. EventsInv
  BY DEF Init, EventsInv
<1>4. ~client /\ created = 0 /\ running = 0 /\ conn = "none" /\ epc = "loop"
  BY Zenon DEF Init
<1>5. ClientInv
  BY <1>4 DEF ClientInv
<1>6. StateInv
  BY DEF Init, StateInv
<1>. QED  BY <1>1, <1>2, <1>3, <1>5, <1>6 DEF IInv

LEMMA FlagsStep == Flags /\ [Next]_vars => Flags'
<1>. SUFFICES ASSUME Flags, [Next]_vars  PROVE Flags'
  OBVIOUS
<1>1. CASE ApChanges
  <2>1. ap' \in BOOLEAN
    BY <1>1, Zenon DEF ApChanges
  <2>2. UNCHANGED <<wifi_connected, client, subscribed, setupVars>>
    BY <1>1 DEF ApChanges, clientVars, sessionVars
  <2>. QED  BY <2>1, <2>2 DEF Flags, setupVars
<1>2. CASE OnDisconnected \/ OnGotIp
  <2>1. wifi_connected' \in BOOLEAN
    BY <1>2, Zenon DEF OnDisconnected, OnGotIp
  <2>2. UNCHANGED <<ap, client, subscribed, setupVars>>
    BY <1>2 DEF OnDisconnected, OnGotIp, clientVars, sessionVars
  <2>. QED  BY <2>1, <2>2 DEF Flags, setupVars
<1>3. CASE InitClient \/ InitFails \/ RegisterFails \/ StartFails
  <2>1. client' \in BOOLEAN
    BY <1>3, Zenon DEF InitClient, InitFails, RegisterFails, StartFails
  <2>2. UNCHANGED <<ap, wifi_connected, subscribed, setupVars>>
    BY <1>3
       DEF InitClient, InitFails, RegisterFails, StartFails, GivesUp,
           sessionVars
  <2>. QED  BY <2>1, <2>2 DEF Flags, setupVars
<1>4. CASE OnConnected \/ Subscribe
  <2>1. subscribed' \in BOOLEAN
    BY <1>4, Zenon DEF OnConnected, Subscribe
  <2>2. UNCHANGED <<ap, wifi_connected, client, setupVars>>
    BY <1>4 DEF OnConnected, Subscribe, wifiVars, clientVars
  <2>. QED  BY <2>1, <2>2 DEF Flags, setupVars
<1>5. CASE UpdateToken \/ UpdateConfig
  <2>1. token_received' \in BOOLEAN /\ config_received' \in BOOLEAN
    BY <1>5, Zenon DEF UpdateToken, UpdateConfig, Flags
  <2>2. UNCHANGED <<ap, wifi_connected, client, subscribed>>
    BY <1>5 DEF UpdateToken, UpdateConfig, wifiVars, clientVars
  <2>. QED  BY <2>1, <2>2 DEF Flags
<1>6. CASE UNCHANGED <<ap, wifi_connected, client, subscribed, setupVars>>
  BY <1>6 DEF Flags, setupVars
<1>. QED
  BY <1>1, <1>2, <1>3, <1>4, <1>5, <1>6
     DEF Next, EventTask, MqttTask, Server, Attempt, SignalLost, OnStart,
         AlreadyStarted, Register, StartClient, SendLogin, SendDataConfig,
         ConnectedCallback, Failed, OnClosed, ClosedCallback, OtherMessage,
         Answers, OtherCommand, Break, vars, wifiVars, clientVars, sessionVars

LEMMA RangesStep == Ranges /\ [Next]_vars => Ranges'
<1>. SUFFICES ASSUME Ranges, [Next]_vars  PROVE Ranges'
  OBVIOUS
<1>. USE SetupAssumption DEF Ranges, Requests, Commands
<1>1. CASE ApChanges \/ Attempt \/ SignalLost
  <2>1. driver' \in {driver, "associated", "idle"}
    BY <1>1 DEF ApChanges, Attempt, SignalLost
  <2>2. UNCHANGED <<epc, failures, breaks, conn, mpc, state, asked, inbox>>
    BY <1>1 DEF ApChanges, Attempt, SignalLost, clientVars, sessionVars
  <2>. QED  BY <2>1, <2>2
<1>2. CASE EventTask
  <2>1. /\ driver' \in {driver, "connecting"}
        /\ epc' \in {epc, "loop", "start_client", "register", "start"}
        /\ conn' \in {conn, "down"} /\ state' \in {state, "CONNECTING"}
        /\ UNCHANGED <<breaks, mpc, sessionVars>>
    BY <1>2
       DEF EventTask, OnStart, OnDisconnected, OnGotIp, InitClient,
           AlreadyStarted, InitFails, Register, RegisterFails, StartClient,
           StartFails, GivesUp, clientVars
  <2>2. failures' \in 0..MaxFailures
    BY <1>2
       DEF EventTask, OnStart, OnDisconnected, OnGotIp, InitClient,
           AlreadyStarted, InitFails, Register, RegisterFails, StartClient,
           StartFails, GivesUp, clientVars
  <2>. QED  BY <2>1, <2>2 DEF sessionVars
<1>3. CASE OnConnected \/ Subscribe \/ SendLogin \/ SendDataConfig
  BY <1>3
     DEF OnConnected, Subscribe, SendLogin, SendDataConfig, Publish, wifiVars,
         clientVars
<1>4. CASE ConnectedCallback \/ Failed \/ OnClosed \/ ClosedCallback
  BY <1>4
     DEF ConnectedCallback, Failed, OnClosed, ClosedCallback, wifiVars,
         clientVars, sessionVars
<1>5. CASE UpdateToken \/ UpdateConfig \/ OtherMessage
  BY <1>5
     DEF UpdateToken, UpdateConfig, OtherMessage, Receives, wifiVars, clientVars
<1>6. CASE Server \/ OtherCommand \/ Break
  <2>1. CASE Server \/ OtherCommand
    <3>1. inbox' \subseteq Commands /\ asked' \subseteq Requests
      BY <2>1 DEF Server, Answers, OtherCommand
    <3>2. UNCHANGED <<driver, epc, failures, breaks, conn, mpc, state>>
      BY <2>1 DEF Server, Answers, OtherCommand, wifiVars, clientVars
    <3>. QED  BY <3>1, <3>2
  <2>2. CASE Break
    BY <2>2 DEF Break, wifiVars, clientVars, sessionVars
  <2>. QED  BY <1>6, <2>1, <2>2
<1>7. CASE UNCHANGED vars
  BY <1>7 DEF vars, wifiVars, clientVars, sessionVars
<1>. QED  BY <1>1, <1>2, <1>3, <1>4, <1>5, <1>6, <1>7 DEF Next, MqttTask

LEMMA AppendToOne == ASSUME NEW a, NEW b  PROVE Append(<<a>>, b) = <<a, b>>
<1>. DEFINE S == {a, b}
            s == Append(<<a>>, b)
            t == <<a, b>>
<1>1. /\ <<a>> \in Seq(S) /\ b \in S
      /\ t \in Seq(S) /\ Len(t) = 2 /\ t[1] = a /\ t[2] = b
  OBVIOUS
<1>2. s \in Seq(S) /\ Len(s) = 2 /\ s[1] = a /\ s[2] = b
  BY <1>1, AppendProperties
<1>3. \A i \in 1..Len(s) : s[i] = t[i]
  <2>. HIDE DEF s, t
  <2>. QED  BY <1>1, <1>2
<1>. HIDE DEF s, t, S
<1>4. s = t
  BY <1>1, <1>2, <1>3, SeqEqual
<1>. QED  BY <1>4 DEF s, t

\* Only the driver and the event task touch the FIFO.
LEMMA EventsStep == Ranges /\ EventsInv /\ [Next]_vars => EventsInv'
<1>. SUFFICES ASSUME Ranges, EventsInv, [Next]_vars  PROVE EventsInv'
  OBVIOUS
<1>1. CASE Attempt
  <2>1. events = <<>>
    BY <1>1 DEF Attempt, EventsInv
  <2>2. \/ driver' = "associated" /\ events' = <<"GOT_IP">>
        \/ driver' = "idle" /\ events' = <<"STA_DISCONNECTED">>
    BY <1>1, <2>1 DEF Attempt
  <2>. QED  BY <2>2 DEF EventsInv
<1>2. CASE SignalLost
  <2>1. events \in {<<>>, <<"GOT_IP">>}
    BY <1>2 DEF SignalLost, EventsInv
  <2>2. /\ driver' = "idle"
        /\ events' \in {<<"STA_DISCONNECTED">>, <<"GOT_IP", "STA_DISCONNECTED">>}
    <3>1. driver' = "idle" /\ events' = Append(events, "STA_DISCONNECTED")
      BY <1>2 DEF SignalLost
    <3>2. CASE events = <<>>
      BY <3>1, <3>2
    <3>3. CASE events = <<"GOT_IP">>
      BY <3>1, <3>3, AppendToOne
    <3>. QED  BY <2>1, <3>2, <3>3
  <2>. QED  BY <2>2 DEF EventsInv
<1>3. CASE OnStart \/ OnDisconnected \/ OnGotIp
  <2>1. PICK e \in {"STA_START", "STA_DISCONNECTED", "GOT_IP"} :
          Handles(e) /\ driver' = (IF e = "GOT_IP" THEN driver ELSE "connecting")
    BY <1>3 DEF OnStart, OnDisconnected, OnGotIp
  <2>2. \/ events = <<e>> /\ driver \in {"idle", "associated"}
        \/ events = <<"GOT_IP", "STA_DISCONNECTED">> /\ e = "GOT_IP" /\ driver = "idle"
    <3>1. events # <<>> /\ Head(events) = e
      BY <2>1 DEF Handles
    <3>2. events \in {<<"STA_START">>, <<"STA_DISCONNECTED">>, <<"GOT_IP">>,
                      <<"GOT_IP", "STA_DISCONNECTED">>}
      BY <3>1 DEF EventsInv, Ranges
    <3>. QED  BY <3>1, <3>2 DEF EventsInv, Ranges
  <2>3. CASE events = <<e>> /\ driver \in {"idle", "associated"}
    <3>1. events' = <<>>
      BY <2>1, <2>3 DEF Handles
    <3>2. driver' \in {"connecting", "associated"}
      BY <2>1, <2>3 DEF EventsInv
    <3>. QED  BY <3>1, <3>2 DEF EventsInv
  <2>4. CASE events = <<"GOT_IP", "STA_DISCONNECTED">> /\ e = "GOT_IP" /\ driver = "idle"
    <3>1. events' = <<"STA_DISCONNECTED">> /\ driver' = "idle"
      BY <2>1, <2>4 DEF Handles
    <3>. QED  BY <3>1 DEF EventsInv
  <2>. QED  BY <2>2, <2>3, <2>4
<1>4. CASE UNCHANGED <<driver, events>>
  BY <1>4 DEF EventsInv
<1>. QED
  BY <1>1, <1>2, <1>3, <1>4
     DEF Next, EventTask, MqttTask, Server, ApChanges, InitClient,
         AlreadyStarted, InitFails, Register, RegisterFails, StartClient,
         StartFails, GivesUp, OnConnected, Subscribe, SendLogin, SendDataConfig,
         ConnectedCallback, Failed, OnClosed, ClosedCallback, UpdateToken,
         UpdateConfig, OtherMessage, Answers, OtherCommand, Break, vars,
         wifiVars

LEMMA ClientStep ==
    Ranges /\ ClientInv /\ [Next]_vars => ClientInv'
<1>. SUFFICES ASSUME Ranges, ClientInv, [Next]_vars  PROVE ClientInv'
  OBVIOUS
<1>1. CASE InitClient \/ AlreadyStarted \/ Register \/ StartClient
  BY <1>1
     DEF InitClient, AlreadyStarted, Register, StartClient, ClientInv,
         clientVars
<1>2. CASE InitFails \/ RegisterFails \/ StartFails
  BY <1>2 DEF InitFails, RegisterFails, StartFails, GivesUp, ClientInv
<1>3. CASE OnConnected \/ Failed \/ Break
  <2>1. UNCHANGED <<epc, clientVars>> /\ conn # "none" /\ conn' # "none"
    BY <1>3 DEF OnConnected, Failed, Break, wifiVars
  <2>. QED  BY <2>1 DEF ClientInv, clientVars
<1>4. CASE OnStart \/ OnDisconnected \/ OnGotIp
  <2>1. /\ UNCHANGED <<clientVars, conn>> /\ epc = "loop"
        /\ epc' \in {"loop", "start_client"}
    BY <1>4 DEF OnStart, OnDisconnected, OnGotIp, Handles
  <2>. QED  BY <2>1 DEF ClientInv, clientVars
<1>5. CASE UNCHANGED <<epc, client, created, running, conn>>
  BY <1>5 DEF ClientInv
<1>. QED
  BY <1>1, <1>2, <1>3, <1>4, <1>5
     DEF Next, EventTask, MqttTask, Server, ApChanges, Attempt, SignalLost,
         Subscribe, SendLogin, SendDataConfig, ConnectedCallback, OnClosed,
         ClosedCallback, UpdateToken, UpdateConfig, OtherMessage, Answers,
         OtherCommand, vars, wifiVars, clientVars

\* The event task writes state only where no client runs, and so there is no
\* event of one.
LEMMA StateStep ==
    Ranges /\ ClientInv /\ StateInv /\ [Next]_vars => StateInv'
<1>. SUFFICES ASSUME Ranges, ClientInv, StateInv, [Next]_vars  PROVE StateInv'
  OBVIOUS
<1>1. CASE StartClient
  <2>1. conn = "none" /\ conn' = "down" /\ state' = "CONNECTING" /\ mpc' = mpc
    BY <1>1 DEF StartClient, ClientInv
  <2>. QED  BY <2>1 DEF StateInv
<1>2. CASE OnConnected \/ Subscribe \/ SendLogin \/ SendDataConfig \/ ConnectedCallback
  BY <1>2
     DEF OnConnected, Subscribe, SendLogin, SendDataConfig, ConnectedCallback,
         StateInv, Ranges
<1>3. CASE Failed \/ OnClosed \/ ClosedCallback
  BY <1>3 DEF Failed, OnClosed, ClosedCallback, StateInv, Ranges
<1>4. CASE Break
  BY <1>4 DEF Break, StateInv, Ranges
<1>5. CASE UNCHANGED <<conn, mpc, state>>
  BY <1>5 DEF StateInv
<1>. QED
  BY <1>1, <1>2, <1>3, <1>4, <1>5
     DEF Next, EventTask, MqttTask, Server, ApChanges, Attempt, SignalLost,
         OnStart, OnDisconnected, OnGotIp, InitClient, AlreadyStarted,
         InitFails, Register, RegisterFails, StartFails, GivesUp, UpdateToken, UpdateConfig, OtherMessage, Receives, Answers,
         OtherCommand, vars

LEMMA SetupInvariant == Spec => []IInv
<1>1. IInv /\ [Next]_vars => IInv'
  BY FlagsStep, RangesStep, EventsStep, ClientStep, StateStep DEF IInv
<1>. QED  BY <1>1, SetupInit, PTL DEF Spec

-----------------------------------------------------------------------------
\* Types of the whole set-up; the event FIFO never holds more than two events.
THEOREM SetupTypeCorrect == Spec => []TypeOK
<1>1. IInv => TypeOK
  <2>. SUFFICES ASSUME IInv  PROVE TypeOK
    OBVIOUS
  <2>. DEFINE E == {"STA_START", "STA_DISCONNECTED", "GOT_IP"}
  <2>1. events \in {<<>>, <<"GOT_IP">>, <<"STA_START">>, <<"STA_DISCONNECTED">>,
                    <<"GOT_IP", "STA_DISCONNECTED">>}
    BY DEF IInv, EventsInv, Ranges
  <2>2. events \in Seq(E) /\ Len(events) <= 2
    <3>1. CASE events = <<>>
      BY <3>1
    <3>2. CASE \E e \in E : events = <<e>>
      BY <3>2
    <3>3. CASE events = <<"GOT_IP", "STA_DISCONNECTED">>
      BY <3>3
    <3>. QED  BY <2>1, <3>1, <3>2, <3>3
  <2>3. created \in 0..1 /\ running \in 0..1
    BY DEF IInv, Flags, Ranges, ClientInv
  <2>. QED  BY <2>2, <2>3, Zenon DEF IInv, Flags, Ranges, TypeOK
<1>. QED  BY <1>1, SetupInvariant, PTL

\* After every event the handle is set exactly when a client exists and runs,
\* for any number of losses of WiFi and whichever of the library's calls fail
\* on the way: mqtt_handler_start undoes what it has done.
THEOREM OneClientCorrect == Spec => []OneClient
<1>1. IInv => OneClient
  BY DEF IInv, Flags, Ranges, ClientInv, OneClient
<1>. QED  BY <1>1, SetupInvariant, PTL

\* Between two events the state is CONNECTED exactly while there is a
\* connection, although two tasks write it.
THEOREM StateCorrect == Spec => []StateFollowsClient
<1>1. IInv => StateFollowsClient
  BY DEF IInv, StateInv, StateFollowsClient
<1>. QED  BY <1>1, SetupInvariant, PTL
=============================================================================
