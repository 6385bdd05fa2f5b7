------------------------------- MODULE StatusLed -------------------------------
(***************************************************************************)
(* Everything that is reported on the LED: every call of                   *)
(* led_set_system_state in the firmware, by the task that makes it.        *)
(*                                                                         *)
(* Six tasks report what each of them knows.  Most change a variable of    *)
(* theirs first and call led_set_system_state after it, so the reports of  *)
(* several tasks can be under way at once and reach the LED in any order:  *)
(* told[t] is the report task t is about to make.  websocket_event_handler *)
(* runs in whichever task dispatches the event: the client task, or a      *)
(* sender whose write fails; but for a failed poll that task holds         *)
(* client->lock.                                                           *)
(*                                                                         *)
(* What the LED then shows is the subject of Led, the WebSocket client     *)
(* that of WsClient and the MQTT client that of MqttSetup.                 *)
(***************************************************************************)
EXTENDS WsLink

VARIABLES
    led,            \* current_system_state
    told,           \* for each task the state it is about to report, or "none"
    button, last_button_state, bpc,    \* BUTTON_GPIO and button_task
    is_recording,
    frame_held,     \* whether audio_read_task is about to send a frame
    lock,           \* client->lock while an event is dispatched or a message
                    \* written, or "free"
    wpc,            \* where a task is in a send or in the handling of a failure
    wifi, epc,      \* wifi_event_handler: wifi_connected, and where it is
    client,         \* mqtt_ctx.client # NULL
    mqtt            \* whether mqtt_ctx.state is CONNECTED

buttonVars == <<last_button_state, bpc, is_recording>>
wsVars == <<linkVars, lock, wpc>>
netVars == <<wifi, epc, client, mqtt>>
vars == <<led, told, button, buttonVars, frame_held, wsVars, netVars>>

Senders == {"button_task", "audio_read_task"}
WsTasks == {"ws_client"} \cup Senders
Tasks == WsTasks \cup {"app_main", "event_task", "mqtt_task"}

States == {"IDLE", "WIFI_CONNECTING", "WIFI_CONNECTED", "WS_CONNECTING",
           "WS_CONNECTED", "AUTH_WAITING", "READY", "BUTTON_PRESSED",
           "RECORDING", "PLAYING", "ERROR"}

TypeOK ==
    /\ LinkTypeOK
    /\ led \in States /\ told \in [Tasks -> States \cup {"none"}]
    /\ button \in BOOLEAN /\ last_button_state \in BOOLEAN
    /\ bpc \in {"poll", "auth_wait", "start", "send_start", "send_stop"}
    /\ is_recording \in BOOLEAN /\ frame_held \in BOOLEAN
    /\ lock \in WsTasks \cup {"free"}
    /\ wpc \in [WsTasks -> {"idle", "lock", "write", "abort", "poll_abort"}]
    /\ \A t \in WsTasks : wpc[t] \in {"write", "abort"} => lock = t
    /\ wifi \in {"starting", "down", "up"} /\ epc \in {"loop", "start_client"}
    /\ client \in BOOLEAN /\ mqtt \in BOOLEAN

\* app_main is about to call websocket_client_start; WiFi has been started.
Init ==
    /\ LinkInit
    /\ led = "IDLE"
    /\ told = [t \in Tasks |-> IF t = "app_main" THEN "WS_CONNECTING" ELSE "none"]
    /\ button = FALSE /\ last_button_state = FALSE /\ bpc = "poll"
    /\ is_recording = FALSE /\ frame_held = FALSE
    /\ lock = "free" /\ wpc = [t \in WsTasks |-> "idle"]
    /\ wifi = "starting" /\ epc = "loop"
    /\ client = FALSE /\ mqtt = FALSE

-----------------------------------------------------------------------------
(* Reports *)

\* The task has done what it had to do about earlier events. Those of WsTasks
\* are created after app_main's last report.
Idle(t) ==
    /\ told[t] = "none"
    /\ t \in WsTasks => /\ told["app_main"] = "none"
                        /\ wpc[t] = "idle" /\ lock # t

Reports(t, s) == told' = [told EXCEPT ![t] = s]

\* led_set_system_state, and the return to the task's own code. A task that
\* dispatched an event with the lock gives it back, unless it has yet to abort
\* the connection.
Tell(t) ==
    /\ told[t] # "none"
    /\ led' = told[t]
    /\ Reports(t, "none")
    /\ lock' = IF lock = t /\ wpc[t] = "idle" THEN "free" ELSE lock
    /\ UNCHANGED <<button, buttonVars, frame_held, linkVars, wpc, netVars>>

-----------------------------------------------------------------------------
(* websocket_event_handler *)

\* Mutant of Locks: an event is dispatched without waiting for the lock.
MutNoLock(t) == lock' = t

Locks(t) == lock = "free" /\ lock' = t

\* Mutant of Disconnected: the mirror is cleared and nothing is shown.
MutErrorUnseen(t) == UNCHANGED told

\* Events ERROR and DISCONNECTED, once ws_connected is false: LED_SYS_ERROR.
Disconnected(t) == Reports(t, "ERROR")

\* abort_connection: DISCONNECTED, also when the client ends meanwhile; refused
\* on one that has ended before.
Abort(t) ==
    /\ wpc' = [wpc EXCEPT ![t] = "idle"]
    /\ \/ Drop /\ lock' = t /\ Disconnected(t)
       \/ link \in {"down", "dead"} /\ ErrorEvent /\ lock' = t /\ Disconnected(t)
       \/ link = "dead" /\ lock' = "free" /\ UNCHANGED <<linkVars, told>>
    /\ UNCHANGED <<led, button, buttonVars, frame_held, netVars>>

\* The task that posted ERROR with the lock held aborts the connection.
Aborts(t) == told[t] = "none" /\ wpc[t] = "abort" /\ Abort(t)

\* ERROR is posted by the holder of the lock, and an abort follows.
PostsError(t) ==
    /\ ErrorEvent /\ Disconnected(t)
    /\ wpc' = [wpc EXCEPT ![t] = "abort"]

\* Event CONNECTED.
Connected ==
    /\ Idle("ws_client")
    /\ Connect
    /\ Locks("ws_client")
    /\ Reports("ws_client", "WS_CONNECTED")
    /\ UNCHANGED <<led, button, buttonVars, frame_held, wpc, netVars>>

\* It does not connect, a read fails, or no PONG has come.
ClientFails ==
    /\ Idle("ws_client")
    /\ link \in {"down", "up"}
    /\ Locks("ws_client") /\ PostsError("ws_client")
    /\ UNCHANGED <<led, button, buttonVars, frame_held, netVars>>

\* Event DATA: audio, or stop_stream.
Data ==
    /\ Idle("ws_client") /\ link = "up"
    /\ Locks("ws_client")
    /\ \E s \in {"PLAYING", "IDLE"} : Reports("ws_client", s)
    /\ UNCHANGED <<led, button, buttonVars, frame_held, linkVars, wpc,
                   netVars>>

\* A poll fails: ERROR without the lock, which the abort then waits for.
PollError ==
    /\ Idle("ws_client") /\ link \in {"down", "up"} /\ epoch > 0
    /\ ErrorEvent /\ Disconnected("ws_client")
    /\ wpc' = [wpc EXCEPT !["ws_client"] = "poll_abort"]
    /\ UNCHANGED <<led, button, buttonVars, frame_held, lock, netVars>>

PollAborts ==
    /\ told["ws_client"] = "none" /\ wpc["ws_client"] = "poll_abort"
    /\ lock = "free"
    /\ Abort("ws_client")

\* The server closes, and the client ends: events the handler ignores.
CloseAndEnd ==
    /\ Idle("ws_client")
    /\ (ServerClose /\ lock = "free") \/ Finish
    /\ UNCHANGED <<led, told, button, buttonVars, frame_held, lock, wpc,
                   netVars>>

WebSocket ==
    \/ Connected \/ ClientFails \/ Data \/ PollError \/ PollAborts \/ CloseAndEnd
    \/ \E t \in WsTasks : Aborts(t)

-----------------------------------------------------------------------------
(* The send path of esp_websocket_client *)

\* The lock, with portMAX_DELAY.
TakesLock(t) ==
    /\ Locks(t)
    /\ wpc' = [wpc EXCEPT ![t] = "write"]
    /\ UNCHANGED <<told, linkVars>>

\* The write has no time-out. It returns when the bytes are taken, or fails.
WriteReturns(t) ==
    /\ wpc[t] = "write"
    /\ \/ /\ lock' = "free"
          /\ wpc' = [wpc EXCEPT ![t] = "idle"]
          /\ UNCHANGED <<told, linkVars>>
       \/ PostsError(t) /\ UNCHANGED lock

-----------------------------------------------------------------------------
(* button_task and audio_read_task *)

UserToggles ==
    /\ button' = ~button
    /\ UNCHANGED <<led, told, buttonVars, frame_held, wsVars, netVars>>

\* Mutant of EndRound: the GPIO is sampled again at the end of the round.
MutResample(sample) == bpc' = "poll" /\ last_button_state' = button

EndRound(sample) == bpc' = "poll" /\ last_button_state' = sample

Polls == Idle("button_task") /\ bpc = "poll"
Starts == button /\ ~last_button_state /\ ~is_recording
Stops == ~button /\ last_button_state /\ is_recording

\* auth_token is empty: no token has come, or an empty one.
PressWithoutToken ==
    /\ Polls /\ Starts
    /\ bpc' = "auth_wait"
    /\ Reports("button_task", "AUTH_WAITING")
    /\ UNCHANGED <<led, button, last_button_state, is_recording, frame_held,
                   wsVars, netVars>>

\* The two seconds are over.
AuthWaitOver ==
    /\ Idle("button_task") /\ bpc = "auth_wait"
    /\ EndRound(TRUE)
    /\ Reports("button_task", "READY")
    /\ UNCHANGED <<led, button, is_recording, frame_held, wsVars, netVars>>

\* There is a token, which only a client that was started can have brought.
Press ==
    /\ Polls /\ Starts /\ client
    /\ bpc' = "start"
    /\ Reports("button_task", "BUTTON_PRESSED")
    /\ UNCHANGED <<led, button, last_button_state, is_recording, frame_held,
                   wsVars, netVars>>

\* audio_session_start_recording.
StartRecording ==
    /\ Idle("button_task") /\ bpc = "start"
    /\ is_recording' = TRUE
    /\ bpc' = "send_start"
    /\ Reports("button_task", "RECORDING")
    /\ UNCHANGED <<led, button, last_button_state, frame_held, wsVars,
                   netVars>>

\* Mutant of StopRecording: the LED is left alone.
MutNoReadyLed ==
    /\ Polls /\ Stops
    /\ is_recording' = FALSE
    /\ bpc' = "send_stop"
    /\ UNCHANGED <<led, told, button, last_button_state, frame_held, wsVars,
                   netVars>>

\* audio_session_stop_recording.
StopRecording ==
    /\ Polls /\ Stops
    /\ is_recording' = FALSE
    /\ bpc' = "send_stop"
    /\ Reports("button_task", "READY")
    /\ UNCHANGED <<led, button, last_button_state, frame_held, wsVars,
                   netVars>>

\* websocket_send_start_message or _stop_message: a check refuses the message, or
\* it is passed, on a connection there was, and the lock waited for.
SendBegins ==
    /\ Idle("button_task") /\ bpc \in {"send_start", "send_stop"}
    /\ \/ EndRound(bpc = "send_start") /\ UNCHANGED wpc
       \/ /\ epoch > 0
          /\ wpc' = [wpc EXCEPT !["button_task"] = "lock"]
          /\ UNCHANGED <<bpc, last_button_state>>
    /\ UNCHANGED <<led, told, button, is_recording, frame_held, linkVars, lock,
                   netVars>>

SendLocks ==
    /\ wpc["button_task"] = "lock"
    /\ TakesLock("button_task")
    /\ UNCHANGED <<led, button, buttonVars, frame_held, netVars>>

SendReturns ==
    /\ bpc \in {"send_start", "send_stop"} /\ WriteReturns("button_task")
    /\ EndRound(bpc = "send_start")
    /\ UNCHANGED <<led, button, is_recording, frame_held, netVars>>

NothingToDo ==
    /\ Polls /\ ~Starts /\ ~Stops
    /\ EndRound(button)
    /\ UNCHANGED <<led, told, button, is_recording, frame_held, wsVars,
                   netVars>>

ButtonTask ==
    \/ PressWithoutToken \/ AuthWaitOver \/ Press \/ StartRecording
    \/ StopRecording \/ SendBegins \/ NothingToDo

\* The reader has a frame, which it will send whether or not the recording is
\* still on.
ReaderReads ==
    /\ Idle("audio_read_task") /\ ~frame_held /\ is_recording
    /\ frame_held' = TRUE
    /\ UNCHANGED <<led, told, button, buttonVars, wsVars, netVars>>

\* websocket_send_audio_frame: refused, or the checks passed and the lock taken.
\* Nothing is claimed of how long the reader waits for it.
SendFrame ==
    /\ Idle("audio_read_task") /\ frame_held
    /\ \/ frame_held' = FALSE /\ UNCHANGED <<told, wsVars>>
       \/ epoch > 0 /\ TakesLock("audio_read_task") /\ UNCHANGED frame_held
    /\ UNCHANGED <<led, button, buttonVars, netVars>>

FrameReturns ==
    /\ WriteReturns("audio_read_task")
    /\ frame_held' = FALSE
    /\ UNCHANGED <<led, button, buttonVars, netVars>>

-----------------------------------------------------------------------------
(* wifi_event_handler and the MQTT task *)

WifiStarts ==
    /\ Idle("event_task") /\ wifi = "starting"
    /\ wifi' = "down"
    /\ Reports("event_task", "WIFI_CONNECTING")
    /\ UNCHANGED <<led, button, buttonVars, frame_held, wsVars, epc, client,
                   mqtt>>

\* The station is disconnected, or an attempt to connect has failed.
WifiDisconnected ==
    /\ Idle("event_task") /\ epc = "loop" /\ wifi # "starting"
    /\ wifi' = "down"
    /\ Reports("event_task", "ERROR")
    /\ UNCHANGED <<led, button, buttonVars, frame_held, wsVars, epc, client,
                   mqtt>>

GotIp ==
    /\ Idle("event_task") /\ epc = "loop" /\ wifi = "down"
    /\ wifi' = "up"
    /\ epc' = "start_client"
    /\ Reports("event_task", "WIFI_CONNECTED")
    /\ UNCHANGED <<led, button, buttonVars, frame_held, wsVars, client, mqtt>>

\* mqtt_handler_start: there is a client, or one is started, or that fails.
StartClient ==
    /\ Idle("event_task") /\ epc = "start_client"
    /\ epc' = "loop"
    /\ \/ client' = TRUE /\ UNCHANGED told
       \/ ~client /\ Reports("event_task", "ERROR") /\ UNCHANGED client
    /\ UNCHANGED <<led, button, buttonVars, frame_held, wsVars, wifi, mqtt>>

\* Mutant of MqttConnected: the callback is told of losses only.
MutCallbackOnLoss ==
    /\ Idle("mqtt_task") /\ client /\ ~mqtt
    /\ mqtt' = TRUE
    /\ UNCHANGED <<led, told, button, buttonVars, frame_held, wsVars, wifi,
                   epc, client>>

\* MQTT_EVENT_CONNECTED, and mqtt_connection_callback(true).
MqttConnected ==
    /\ Idle("mqtt_task") /\ client /\ ~mqtt
    /\ mqtt' = TRUE
    /\ Reports("mqtt_task", "READY")
    /\ UNCHANGED <<led, button, buttonVars, frame_held, wsVars, wifi, epc,
                   client>>

\* MQTT_EVENT_DISCONNECTED: a connection is lost or an attempt has failed.
MqttDisconnected ==
    /\ Idle("mqtt_task") /\ client
    /\ mqtt' = FALSE
    /\ Reports("mqtt_task", "ERROR")
    /\ UNCHANGED <<led, button, buttonVars, frame_held, wsVars, wifi, epc,
                   client>>

Network ==
    \/ WifiStarts \/ WifiDisconnected \/ GotIp \/ StartClient
    \/ MqttConnected \/ MqttDisconnected

-----------------------------------------------------------------------------
Next ==
    \/ \E t \in Tasks : Tell(t)
    \/ WebSocket \/ UserToggles \/ ButtonTask \/ ReaderReads \/ SendFrame
    \/ SendLocks \/ SendReturns \/ FrameReturns
    \/ Network

\* The tasks are scheduled, and the FreeRTOS mutex is given to whoever waits for
\* it while it is given back again and again. Nothing is assumed of the user,
\* of the networks and of the servers; nothing makes a write return.
Fairness ==
    /\ \A t \in Tasks : WF_vars(Tell(t))
    /\ \A t \in WsTasks : WF_vars(Aborts(t))
    /\ SF_vars(PollAborts) /\ SF_vars(SendLocks)
    /\ WF_vars(StartClient) /\ WF_vars(ButtonTask)

Spec == Init /\ [][Next]_vars
FairSpec == Spec /\ Fairness

-----------------------------------------------------------------------------
(* Properties *)

\* Five other tasks set the LED between any two steps of button_task, and a
\* write of its own may fail: still the states of the button are shown only
\* while they hold. Magenta lasts from the press to the end of the recording,
\* or to the READY that is about to be shown; AUTH_WAITING is not left behind.
ButtonStatesHold ==
    /\ led \in {"BUTTON_PRESSED", "RECORDING"}
         => is_recording \/ bpc = "start" \/ told["button_task"] = "READY"
    /\ led = "AUTH_WAITING"
         => bpc = "auth_wait" \/ told["button_task"] = "READY"

\* Audio is shown as playing only on a connection the mirror knows, whichever
\* task was told of its end first: or a task is about to show the ERROR.
PlayingIsConnected ==
    led = "PLAYING" => ws_connected \/ \E t \in WsTasks : told[t] = "ERROR"

\* A sender in a write that does not return keeps client->lock.
WriteBlocked == \E t \in Senders : wpc[t] = "write"

\* Push-to-talk lets go: once the button stays released, the recording ends
\* for good, however the presses before fell between two samples, into the two
\* seconds of AUTH_WAITING and into the waits for the lock: unless a server that
\* reads no more holds a write, and with it the lock, for ever.
RecordingEnds == <>[](~button) => <>[](~is_recording) \/ <>[]WriteBlocked

\* The LED does not stay red. Each part reports its own loss and its own
\* recovery and knows nothing of the others, and reports overtake each other:
\* still, once WiFi, MQTT and the WebSocket are connected for good, ERROR is
\* not shown for ever, unless a write holds the lock for ever that the abort
\* after a failed poll waits for.
ErrorClears ==
    <>[](wifi = "up" /\ mqtt /\ link = "up")
        => <>[](led # "ERROR") \/ <>[]WriteBlocked
===============================================================================
