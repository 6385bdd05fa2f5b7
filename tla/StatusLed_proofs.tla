--------------------------- MODULE StatusLed_proofs ---------------------------
(***************************************************************************)
(* Proofs about StatusLed, for any number of connections: the types, that  *)
(* the button's states are shown only while they hold, and that audio is   *)
(* shown as playing only on a connection.                                  *)
(***************************************************************************)
EXTENDS StatusLed, TLAPS

-----------------------------------------------------------------------------
(* The invariant *)

ButtonStates == {"BUTTON_PRESSED", "RECORDING", "AUTH_WAITING"}

\* The types in the parts the actions change apart from each other.
LinkPart ==
    /\ LinkTypeOK
    /\ lock \in WsTasks \cup {"free"}
    /\ wpc \in [WsTasks -> {"idle", "lock", "write", "abort", "poll_abort"}]
    /\ \A t \in WsTasks : wpc[t] \in {"write", "abort"} => lock = t

LedPart == led \in States /\ told \in [Tasks -> States \cup {"none"}]

Flags ==
    /\ button \in BOOLEAN /\ last_button_state \in BOOLEAN
    /\ bpc \in {"poll", "auth_wait", "start", "send_start", "send_stop"}
    /\ is_recording \in BOOLEAN /\ frame_held \in BOOLEAN
    /\ wifi \in {"starting", "down", "up"} /\ epc \in {"loop", "start_client"}
    /\ client \in BOOLEAN /\ mqtt \in BOOLEAN

\* Only button_task reports a state of the button, and each holds while it is
\* about to be reported.
ButtonTold ==
    /\ \A t \in Tasks : told[t] \in ButtonStates => t = "button_task"
    /\ told["button_task"] = "BUTTON_PRESSED" => bpc = "start"
    /\ told["button_task"] = "RECORDING" => is_recording
    /\ told["button_task"] = "AUTH_WAITING" => bpc = "auth_wait"

\* The client task reports PLAYING with the lock, on a connection the mirror
\* knows.
PlayingTold ==
    \A t \in Tasks : told[t] = "PLAYING" =>
        t = "ws_client" /\ lock = t /\ wpc[t] = "idle" /\ ws_connected

\* A connection the mirror does not know is about to be aborted; the client
\* task may have to wait for the lock first.
MirrorUp ==
    /\ link = "up" /\ ~ws_connected
         => \E t \in WsTasks : wpc[t] \in {"abort", "poll_abort"}
    /\ \A t \in WsTasks : wpc[t] = "poll_abort" => t = "ws_client"

WsInv == LinkPart /\ LedPart /\ PlayingTold /\ MirrorUp /\ PlayingIsConnected
ButtonInv == Flags /\ ButtonTold /\ ButtonStatesHold
IInv == WsInv /\ ButtonInv

\* A task in a send has nothing to report.
QuietSends == \A t \in Senders : wpc[t] \in {"lock", "write"} => told[t] = "none"

LEMMA TypeParts == TypeOK <=> LinkPart /\ LedPart /\ Flags
BY Zenon DEF TypeOK, LinkPart, LedPart, Flags

LEMMA InitInv == Init => IInv
<1> SUFFICES ASSUME Init PROVE IInv
  OBVIOUS
<1> USE DEF Init, LinkInit, Tasks, WsTasks, Senders, States
<1>1. told \in [Tasks -> States \cup {"none"}]
      /\ \A t \in Tasks : told[t] \in {"WS_CONNECTING", "none"}
  OBVIOUS
<1>2. LinkPart
  <2>1. LinkTypeOK
    <3>1. 0 \in 0..MaxEpoch
      BY MaxEpochAssumption
    <3>2. QED
      BY <3>1, Zenon DEF LinkTypeOK
  <2>2. wpc \in [WsTasks -> {"idle", "lock", "write", "abort", "poll_abort"}]
        /\ \A t \in WsTasks : wpc[t] = "idle"
    OBVIOUS
  <2>3. QED
    BY <2>1, <2>2 DEF LinkPart
<1>3. LedPart /\ PlayingTold
  BY <1>1 DEF LedPart, PlayingTold
<1>4. MirrorUp /\ PlayingIsConnected
  BY DEF MirrorUp, PlayingIsConnected
<1>5. Flags
  BY DEF Flags
<1>6. ButtonTold
  BY <1>1 DEF ButtonTold, ButtonStates
<1>7. ButtonStatesHold
  BY DEF ButtonStatesHold
<1>8. QED
  BY <1>2, <1>3, <1>4, <1>5, <1>6, <1>7 DEF IInv, WsInv, ButtonInv

-----------------------------------------------------------------------------
(* What every report preserves *)

\* A task that is not about to report anything is about to report s.
LEMMA ReportsKeeps ==
  ASSUME WsInv, NEW t \in Tasks, NEW s \in States,
         told[t] = "none", Reports(t, s), s # "PLAYING",
         UNCHANGED <<led, linkVars, lock, wpc>>
  PROVE  WsInv'
<1> USE DEF Reports, linkVars
<1>1. LinkPart' /\ MirrorUp'
  BY DEF WsInv, LinkPart, LinkTypeOK, MirrorUp
<1>2. LedPart'
  BY DEF WsInv, LedPart
<1>3. PlayingTold'
  BY DEF WsInv, LedPart, PlayingTold
<1>4. PlayingIsConnected'
  BY DEF WsInv, LedPart, PlayingIsConnected, WsTasks, Tasks
<1>5. QED
  BY <1>1, <1>2, <1>3, <1>4 DEF WsInv

LEMMA UntoldKeeps ==
  ASSUME WsInv, UNCHANGED <<led, told, linkVars, lock, wpc>>
  PROVE  WsInv'
BY DEF linkVars, WsInv, LinkPart, LinkTypeOK, LedPart, PlayingTold, MirrorUp,
       PlayingIsConnected

\* Another task than button_task is about to report something else than a
\* state of the button.
LEMMA ButtonKeeps ==
  ASSUME ButtonInv, LedPart, NEW t \in Tasks, NEW s \in States \cup {"none"},
         told[t] = "none" \/ s = "none", Reports(t, s), s \notin ButtonStates,
         t # "button_task" \/ told[t] = "none",
         UNCHANGED <<led, bpc, is_recording>>
  PROVE  ButtonTold' /\ ButtonStatesHold'
<1> USE DEF Reports
<1>1. told'[t] = s /\ \A u \in Tasks : u # t => told'[u] = told[u]
  BY DEF LedPart
<1>2. "button_task" \in Tasks
  BY DEF Tasks, WsTasks, Senders
<1>3. ButtonTold'
  BY <1>1, <1>2 DEF ButtonInv, ButtonTold, ButtonStates
<1>4. told["button_task"] = "READY" => told'["button_task"] = "READY"
  BY <1>1, <1>2
<1>5. ButtonStatesHold'
  BY <1>4 DEF ButtonInv, ButtonStatesHold
<1>6. QED
  BY <1>3, <1>5

-----------------------------------------------------------------------------
(* led_set_system_state *)

LEMMA TellInv == ASSUME IInv, NEW t \in Tasks, Tell(t) PROVE IInv'
<1> USE DEF Tell, Reports, netVars, buttonVars, linkVars
<1>1. told'[t] = "none" /\ \A u \in Tasks : u # t => told'[u] = told[u]
  BY DEF IInv, WsInv, LedPart
<1>2. LinkPart'
  BY DEF IInv, WsInv, LinkPart, LinkTypeOK
<1>3. LedPart'
  BY DEF IInv, WsInv, LedPart
<1>4. PlayingTold'
  <2> SUFFICES ASSUME NEW u \in Tasks, told'[u] = "PLAYING"
               PROVE  u = "ws_client" /\ lock' = u /\ wpc'[u] = "idle"
                      /\ ws_connected'
    BY DEF PlayingTold
  <2>1. u # t /\ told[u] = "PLAYING"
    BY <1>1
  <2>2. u = "ws_client" /\ lock = u /\ wpc[u] = "idle" /\ ws_connected
    BY <2>1 DEF IInv, WsInv, PlayingTold
  <2>3. QED
    BY <2>1, <2>2
<1>5. MirrorUp'
  BY DEF IInv, WsInv, MirrorUp
<1>6. PlayingIsConnected'
  <2>1. CASE told[t] = "PLAYING"
    BY <2>1 DEF IInv, WsInv, PlayingTold, PlayingIsConnected
  <2>2. CASE told[t] # "PLAYING"
    BY <2>2 DEF PlayingIsConnected
  <2>3. QED
    BY <2>1, <2>2
<1>7. Flags'
  BY DEF IInv, ButtonInv, Flags
<1>8. ButtonTold' /\ ButtonStatesHold'
  <2>1. "button_task" \in Tasks
    BY DEF Tasks, WsTasks, Senders
  <2>2. ButtonTold'
    BY <1>1, <2>1 DEF IInv, ButtonInv, ButtonTold, ButtonStates
  <2>3. CASE told[t] \in ButtonStates
    BY <2>2, <2>3 DEF IInv, ButtonInv, ButtonTold, ButtonStates, ButtonStatesHold
  <2>4. CASE told[t] \notin ButtonStates
    <3>1. led' \notin ButtonStates
      BY <2>4
    <3>2. QED
      BY <2>2, <3>1 DEF ButtonStates, ButtonStatesHold
  <2>5. QED
    BY <2>2, <2>3, <2>4
<1>9. QED
  BY <1>2, <1>3, <1>4, <1>5, <1>6, <1>7, <1>8 DEF IInv, WsInv, ButtonInv

-----------------------------------------------------------------------------
(* websocket_event_handler *)

\* A task whose write, read or attempt fails, with the lock it has taken.
LEMMA PostsErrorWs ==
  ASSUME WsInv, NEW t \in WsTasks, told[t] = "none", PostsError(t),
         lock = "free" \/ (lock = t /\ wpc[t] = "write"), lock' = t,
         UNCHANGED led
  PROVE  WsInv'
<1> USE DEF PostsError, ErrorEvent, Disconnected, Reports
<1>1. t \in Tasks /\ told'[t] = "ERROR" /\ \A u \in Tasks : u # t => told'[u] = told[u]
  BY DEF Tasks, WsInv, LedPart
<1>2. wpc'[t] = "abort" /\ \A u \in WsTasks : u # t => wpc'[u] = wpc[u]
  BY DEF WsInv, LinkPart
<1>3. LinkPart'
  <2>1. LinkTypeOK'
    BY DEF WsInv, LinkPart, LinkTypeOK
  <2>2. \A u \in WsTasks : u # t => wpc[u] \notin {"write", "abort"}
    BY DEF WsInv, LinkPart, WsTasks, Senders
  <2>3. wpc' \in [WsTasks -> {"idle", "lock", "write", "abort", "poll_abort"}]
    BY DEF WsInv, LinkPart
  <2>4. QED
    BY <1>2, <2>1, <2>2, <2>3 DEF LinkPart
<1>4. LedPart'
  BY DEF WsInv, LedPart, States
<1>5. PlayingTold'
  <2>1. \A u \in Tasks : told[u] # "PLAYING"
    BY DEF WsInv, PlayingTold, WsTasks, Senders
  <2>2. QED
    BY <1>1, <2>1 DEF PlayingTold
<1>6. MirrorUp'
  BY <1>2 DEF WsInv, MirrorUp
<1>7. PlayingIsConnected'
  BY <1>1 DEF PlayingIsConnected
<1>8. QED
  BY <1>3, <1>4, <1>5, <1>6, <1>7 DEF WsInv

\* A task that aborts the connection, with the lock.
LEMMA AbortWs ==
  ASSUME WsInv, NEW t \in WsTasks, told[t] = "none",
         wpc[t] = "abort" \/ (t = "ws_client" /\ lock = "free"), Abort(t)
  PROVE  WsInv'
<1> USE DEF Abort, Drop, ErrorEvent, Disconnected, Reports, linkVars
<1>1. t \in Tasks /\ led' = led
  BY DEF Tasks
<1>2. wpc'[t] = "idle" /\ \A u \in WsTasks : u # t => wpc'[u] = wpc[u]
  BY DEF WsInv, LinkPart
<1>3. \A u \in WsTasks : wpc'[u] \notin {"write", "abort"}
  BY <1>2 DEF WsInv, LinkPart, WsTasks, Senders
<1>4. LinkPart'
  BY <1>3 DEF WsInv, LinkPart, LinkTypeOK
<1>5. LedPart'
  BY <1>1 DEF WsInv, LedPart, States
<1>6. \A u \in Tasks : told[u] # "PLAYING"
  BY DEF WsInv, LinkPart, PlayingTold, WsTasks, Senders
<1>7. \A u \in Tasks : told'[u] # "PLAYING"
  BY <1>6 DEF WsInv, LedPart
<1>8. PlayingTold'
  BY <1>7 DEF PlayingTold
<1>9. link' # "up"
  OBVIOUS
<1>10. MirrorUp'
  BY <1>2, <1>9 DEF WsInv, MirrorUp
<1>11. PlayingIsConnected'
  <2>1. CASE told'[t] = "ERROR"
    BY <2>1 DEF PlayingIsConnected
  <2>2. CASE UNCHANGED <<linkVars, told>>
    BY <1>1, <2>2 DEF WsInv, PlayingIsConnected
  <2>3. QED
    BY <1>1, <2>1, <2>2 DEF WsInv, LedPart
<1>12. QED
  BY <1>4, <1>5, <1>8, <1>10, <1>11 DEF WsInv

\* What an event of the connection leaves of the button's part: the state it
\* reports is not the button's.
LEMMA WsButton ==
  ASSUME IInv, NEW t \in WsTasks, told[t] = "none", NEW s \in States,
         s \notin ButtonStates, Reports(t, s),
         UNCHANGED <<led, button, buttonVars, frame_held, netVars>>
  PROVE  ButtonInv'
<1>1. ButtonTold' /\ ButtonStatesHold'
  BY ButtonKeeps DEF IInv, WsInv, Tasks, buttonVars
<1>2. Flags'
  BY DEF IInv, ButtonInv, Flags, buttonVars, netVars
<1>3. QED
  BY <1>1, <1>2 DEF ButtonInv

LEMMA AbortInv ==
  ASSUME IInv, NEW t \in WsTasks, told[t] = "none",
         wpc[t] = "abort" \/ (t = "ws_client" /\ lock = "free"), Abort(t)
  PROVE  IInv'
<1>1. WsInv'
  BY AbortWs DEF IInv
<1>2. CASE Disconnected(t)
  BY <1>1, <1>2, WsButton
     DEF Abort, Disconnected, States, ButtonStates, IInv
<1>3. CASE UNCHANGED told
  <2>1. ButtonInv'
    BY <1>3 DEF Abort, IInv, ButtonInv, Flags, ButtonTold, ButtonStatesHold,
                buttonVars, netVars
  <2>2. QED
    BY <1>1, <2>1 DEF IInv
<1>4. QED
  BY <1>2, <1>3 DEF Abort

LEMMA ErrorButton ==
  ASSUME IInv, NEW t \in WsTasks, told[t] = "none", Disconnected(t),
         UNCHANGED <<led, button, buttonVars, frame_held, netVars>>
  PROVE  ButtonInv'
BY WsButton DEF Disconnected, States, ButtonStates

LEMMA WebSocketInv == ASSUME IInv, WebSocket PROVE IInv'
<1>1. "ws_client" \in WsTasks /\ "ws_client" \in Tasks
  BY DEF WsTasks, Tasks
<1>2. CASE Connected
  <2> USE <1>2 DEF Connected, Connect, Idle, Locks, Reports, linkVars
  <2>1. LinkPart'
    <3>1. epoch' \in 0..MaxEpoch
      BY MaxEpochAssumption DEF IInv, WsInv, LinkPart, LinkTypeOK
    <3>2. \A u \in WsTasks : wpc[u] \notin {"write", "abort"}
      BY DEF IInv, WsInv, LinkPart, WsTasks, Senders
    <3>3. QED
      BY <1>1, <3>1, <3>2 DEF IInv, WsInv, LinkPart, LinkTypeOK
  <2>2. LedPart'
    BY DEF IInv, WsInv, LedPart, States
  <2>3. \A u \in Tasks : told[u] # "PLAYING"
    BY DEF IInv, WsInv, PlayingTold, WsTasks, Senders
  <2>4. PlayingTold'
    BY <2>3 DEF IInv, WsInv, LedPart, PlayingTold
  <2>5. MirrorUp' /\ PlayingIsConnected'
    BY DEF IInv, WsInv, MirrorUp, PlayingIsConnected
  <2>6. ButtonInv'
    BY <1>1, WsButton DEF States, ButtonStates
  <2>7. QED
    BY <2>1, <2>2, <2>4, <2>5, <2>6 DEF IInv, WsInv
<1>3. CASE ClientFails
  <2> USE <1>3 DEF ClientFails, Idle, Locks
  <2>1. WsInv'
    BY <1>1, PostsErrorWs DEF IInv
  <2>2. ButtonInv'
    BY <1>1, ErrorButton DEF PostsError
  <2>3. QED
    BY <2>1, <2>2 DEF IInv
<1>4. CASE Data
  <2> USE <1>4 DEF Data, Idle, Locks, linkVars
  <2>1. PICK s \in {"PLAYING", "IDLE"} : Reports("ws_client", s)
    OBVIOUS
  <2>2. /\ told'["ws_client"] = s
        /\ \A u \in Tasks : u # "ws_client" => told'[u] = told[u]
    BY <1>1, <2>1 DEF IInv, WsInv, LedPart, Reports
  <2>3. \A u \in WsTasks : wpc[u] \notin {"write", "abort"}
    BY DEF IInv, WsInv, LinkPart, WsTasks, Senders
  <2>4. ws_connected
    BY <2>3 DEF IInv, WsInv, MirrorUp, LinkPart
  <2>5. LinkPart'
    BY <1>1, <2>3 DEF IInv, WsInv, LinkPart, LinkTypeOK
  <2>6. LedPart'
    BY <2>1 DEF IInv, WsInv, LedPart, Reports, States
  <2>7. PlayingTold'
    <3>1. \A u \in Tasks : told[u] # "PLAYING"
      BY DEF IInv, WsInv, PlayingTold, WsTasks, Senders
    <3>2. QED
      BY <1>1, <2>2, <2>4, <3>1 DEF PlayingTold
  <2>8. MirrorUp' /\ PlayingIsConnected'
    BY <2>4 DEF IInv, WsInv, MirrorUp, PlayingIsConnected
  <2>9. ButtonInv'
    BY <1>1, <2>1, WsButton DEF States, ButtonStates
  <2>10. QED
    BY <2>5, <2>6, <2>7, <2>8, <2>9 DEF IInv, WsInv
<1>5. CASE PollError
  <2> USE <1>5 DEF PollError, Idle, ErrorEvent, Disconnected, Reports
  <2>1. /\ told'["ws_client"] = "ERROR"
        /\ \A u \in Tasks : u # "ws_client" => told'[u] = told[u]
    BY <1>1 DEF IInv, WsInv, LedPart
  <2>2. /\ wpc'["ws_client"] = "poll_abort"
        /\ \A u \in WsTasks : u # "ws_client" => wpc'[u] = wpc[u]
    BY <1>1 DEF IInv, WsInv, LinkPart
  <2>3. LinkPart'
    BY <2>2 DEF IInv, WsInv, LinkPart, LinkTypeOK
  <2>4. LedPart'
    BY DEF IInv, WsInv, LedPart, States
  <2>5. PlayingTold'
    BY <2>1 DEF IInv, WsInv, PlayingTold
  <2>6. MirrorUp' /\ PlayingIsConnected'
    BY <1>1, <2>1, <2>2 DEF IInv, WsInv, MirrorUp, PlayingIsConnected
  <2>7. ButtonInv'
    BY <1>1, ErrorButton
  <2>8. QED
    BY <2>3, <2>4, <2>5, <2>6, <2>7 DEF IInv, WsInv
<1>6. CASE PollAborts
  BY <1>1, <1>6, AbortInv DEF PollAborts
<1>7. CASE CloseAndEnd
  <2> USE <1>7 DEF CloseAndEnd, ServerClose, Finish, buttonVars, netVars
  <2>1. LinkPart' /\ LedPart' /\ PlayingTold'
    BY DEF IInv, WsInv, LinkPart, LinkTypeOK, LedPart, PlayingTold
  <2>2. MirrorUp' /\ PlayingIsConnected'
    BY DEF IInv, WsInv, MirrorUp, PlayingIsConnected
  <2>3. ButtonInv'
    BY DEF IInv, ButtonInv, Flags, ButtonTold, ButtonStatesHold
  <2>4. QED
    BY <2>1, <2>2, <2>3 DEF IInv, WsInv
<1>8. CASE \E t \in WsTasks : Aborts(t)
  BY <1>8, AbortInv DEF Aborts
<1>9. QED
  BY <1>2, <1>3, <1>4, <1>5, <1>6, <1>7, <1>8 DEF WebSocket

-----------------------------------------------------------------------------
(* The send path *)

\* A sender that passes the checks and waits for the lock, or gets it.
LEMMA SendWs ==
  ASSUME WsInv, NEW t \in Senders, UNCHANGED <<led, told, linkVars>>,
         wpc[t] \in {"idle", "lock"},
         \/ wpc' = [wpc EXCEPT ![t] = "lock"] /\ UNCHANGED lock
         \/ TakesLock(t)
  PROVE  WsInv'
<1> USE DEF TakesLock, Locks, linkVars
<1>1. t \in WsTasks /\ t # "ws_client"
  BY DEF WsTasks, Senders
<1>2. /\ wpc'[t] \in {"lock", "write"} /\ wpc[t] \in {"idle", "lock"}
      /\ \A u \in WsTasks : u # t => wpc'[u] = wpc[u]
  BY <1>1 DEF WsInv, LinkPart
<1>3. LinkPart'
  <2>1. wpc' \in [WsTasks -> {"idle", "lock", "write", "abort", "poll_abort"}]
    BY <1>1 DEF WsInv, LinkPart
  <2>2. lock' \in WsTasks \cup {"free"} /\ LinkTypeOK'
    BY <1>1 DEF WsInv, LinkPart, LinkTypeOK
  <2>3. wpc'[t] = "write" => lock' = t
    BY <1>1 DEF WsInv, LinkPart
  <2>4. lock' = lock \/ lock = "free"
    OBVIOUS
  <2>5. \A u \in WsTasks : wpc'[u] \in {"write", "abort"} => lock' = u
    BY <1>1, <1>2, <2>3, <2>4 DEF WsInv, LinkPart, WsTasks, Senders
  <2>6. QED
    BY <2>1, <2>2, <2>5 DEF LinkPart
<1>4. LedPart'
  BY DEF WsInv, LedPart
<1>5. PlayingTold'
  BY <1>1, <1>2 DEF WsInv, PlayingTold, WsTasks, Senders
<1>6. MirrorUp'
  BY <1>1, <1>2 DEF WsInv, MirrorUp
<1>7. PlayingIsConnected'
  BY DEF WsInv, PlayingIsConnected
<1>8. QED
  BY <1>3, <1>4, <1>5, <1>6, <1>7 DEF WsInv

\* A write that succeeds.
LEMMA WriteOkWs ==
  ASSUME WsInv, NEW t \in Senders, wpc[t] = "write", lock' = "free",
         wpc' = [wpc EXCEPT ![t] = "idle"], UNCHANGED <<led, told, linkVars>>
  PROVE  WsInv'
<1> USE DEF linkVars
<1>1. t \in WsTasks /\ t # "ws_client" /\ lock = t
  BY DEF WsTasks, Senders, WsInv, LinkPart
<1>2. wpc'[t] = "idle" /\ \A u \in WsTasks : u # t => wpc'[u] = wpc[u]
  BY <1>1 DEF WsInv, LinkPart
<1>3. LinkPart'
  <2>1. wpc' \in [WsTasks -> {"idle", "lock", "write", "abort", "poll_abort"}]
    BY <1>1 DEF WsInv, LinkPart
  <2>2. LinkTypeOK'
    BY DEF WsInv, LinkPart, LinkTypeOK
  <2>3. \A u \in WsTasks : wpc'[u] \notin {"write", "abort"}
    BY <1>1, <1>2 DEF WsInv, LinkPart
  <2>4. QED
    BY <2>1, <2>2, <2>3 DEF LinkPart
<1>4. LedPart' /\ PlayingIsConnected'
  BY DEF WsInv, LedPart, PlayingIsConnected
<1>5. PlayingTold'
  BY <1>1 DEF WsInv, PlayingTold
<1>6. MirrorUp'
  BY <1>1, <1>2 DEF WsInv, MirrorUp
<1>7. QED
  BY <1>3, <1>4, <1>5, <1>6 DEF WsInv

LEMMA SendLocksInv == ASSUME IInv, SendLocks PROVE IInv'
<1> USE DEF SendLocks, TakesLock, buttonVars, netVars
<1>1. WsInv'
  BY SendWs DEF IInv, Senders
<1>2. ButtonInv'
  BY DEF IInv, ButtonInv, Flags, ButtonTold, ButtonStatesHold
<1>3. QED
  BY <1>1, <1>2 DEF IInv

-----------------------------------------------------------------------------
(* button_task and audio_read_task *)

\* The steps of button_task that report a state, the ends of its waits too.
LEMMA ButtonTaskInv == ASSUME IInv, ButtonTask PROVE IInv'
<1> DEFINE b == "button_task"
<1>1. b \in WsTasks /\ b \in Tasks /\ b # "ws_client"
      /\ \A s \in {"AUTH_WAITING", "READY", "BUTTON_PRESSED", "RECORDING"} :
            s \in States /\ s # "PLAYING"
  BY DEF WsTasks, Senders, Tasks, States
<1>2. ASSUME told[b] = "none", NEW s \in {"AUTH_WAITING", "READY",
                                          "BUTTON_PRESSED", "RECORDING"},
             Reports(b, s), UNCHANGED <<led, wsVars>>
      PROVE  /\ WsInv'
             /\ told'[b] = s /\ \A u \in Tasks : u # b => told'[u] = told[u]
  <2>1. WsInv'
    BY <1>1, <1>2, ReportsKeeps DEF IInv, wsVars
  <2>2. QED
    BY <1>1, <1>2, <2>1 DEF Reports, IInv, WsInv, LedPart
<1>3. Flags'
  BY DEF ButtonTask, PressWithoutToken, AuthWaitOver, Press, StartRecording,
         StopRecording, SendBegins, NothingToDo, EndRound, netVars,
         IInv, ButtonInv, Flags
<1>4. CASE PressWithoutToken
  <2> USE <1>4 DEF PressWithoutToken, Polls, Starts, Idle
  <2>1. WsInv' /\ told'[b] = "AUTH_WAITING"
        /\ \A u \in Tasks : u # b => told'[u] = told[u]
    BY <1>2
  <2>2. ButtonTold'
    BY <2>1 DEF IInv, ButtonInv, ButtonTold
  <2>3. ButtonStatesHold'
    BY DEF IInv, ButtonInv, ButtonStatesHold
  <2>4. QED
    BY <1>3, <2>1, <2>2, <2>3 DEF IInv, ButtonInv
<1>5. CASE AuthWaitOver
  <2> USE <1>5 DEF AuthWaitOver, Idle, EndRound
  <2>1. WsInv' /\ told'[b] = "READY"
        /\ \A u \in Tasks : u # b => told'[u] = told[u]
    BY <1>2
  <2>2. ButtonTold'
    BY <2>1 DEF IInv, ButtonInv, ButtonTold
  <2>3. ButtonStatesHold'
    BY <2>1 DEF ButtonStatesHold
  <2>4. QED
    BY <1>3, <2>1, <2>2, <2>3 DEF IInv, ButtonInv
<1>6. CASE Press
  <2> USE <1>6 DEF Press, Polls, Starts, Idle
  <2>1. WsInv' /\ told'[b] = "BUTTON_PRESSED"
        /\ \A u \in Tasks : u # b => told'[u] = told[u]
    BY <1>2
  <2>2. ButtonTold'
    BY <2>1 DEF IInv, ButtonInv, ButtonTold
  <2>3. ButtonStatesHold'
    BY DEF IInv, ButtonInv, ButtonStatesHold
  <2>4. QED
    BY <1>3, <2>1, <2>2, <2>3 DEF IInv, ButtonInv
<1>7. CASE StartRecording
  <2> USE <1>7 DEF StartRecording, Idle
  <2>1. WsInv' /\ told'[b] = "RECORDING"
        /\ \A u \in Tasks : u # b => told'[u] = told[u]
    BY <1>2
  <2>2. ButtonTold'
    BY <2>1 DEF IInv, ButtonInv, ButtonTold
  <2>3. ButtonStatesHold'
    BY DEF IInv, ButtonInv, ButtonStatesHold
  <2>4. QED
    BY <1>3, <2>1, <2>2, <2>3 DEF IInv, ButtonInv
<1>8. CASE StopRecording
  <2> USE <1>8 DEF StopRecording, Polls, Stops, Idle
  <2>1. WsInv' /\ told'[b] = "READY"
        /\ \A u \in Tasks : u # b => told'[u] = told[u]
    BY <1>2
  <2>2. ButtonTold'
    BY <2>1 DEF IInv, ButtonInv, ButtonTold
  <2>3. ButtonStatesHold'
    BY <2>1 DEF IInv, ButtonInv, ButtonStatesHold
  <2>4. QED
    BY <1>3, <2>1, <2>2, <2>3 DEF IInv, ButtonInv
<1>9. CASE SendBegins
  <2> USE <1>9 DEF SendBegins, Idle, EndRound
  <2>1. UNCHANGED <<told, led, linkVars>> /\ WsInv'
    <3>1. CASE UNCHANGED wpc
      BY <3>1, UntoldKeeps DEF IInv
    <3>2. CASE wpc' = [wpc EXCEPT ![b] = "lock"]
      BY <1>1, <3>2, SendWs DEF IInv, Senders
    <3>3. QED
      BY <3>1, <3>2
  <2>2. ButtonTold'
    BY <2>1 DEF IInv, ButtonInv, ButtonTold
  <2>3. ButtonStatesHold'
    BY <2>1 DEF IInv, ButtonInv, ButtonStatesHold
  <2>4. QED
    BY <1>3, <2>1, <2>2, <2>3 DEF IInv, ButtonInv
<1>10. CASE NothingToDo
  <2> USE <1>10 DEF NothingToDo, Polls, EndRound
  <2>1. WsInv'
    BY UntoldKeeps DEF IInv, wsVars
  <2>2. ButtonTold'
    BY DEF IInv, ButtonInv, ButtonTold
  <2>3. ButtonStatesHold'
    BY DEF IInv, ButtonInv, ButtonStatesHold
  <2>4. QED
    BY <1>3, <2>1, <2>2, <2>3 DEF IInv, ButtonInv
<1>11. QED
  BY <1>4, <1>5, <1>6, <1>7, <1>8, <1>9, <1>10 DEF ButtonTask

\* A write of button_task returns.
LEMMA SendReturnsInv == ASSUME IInv, QuietSends, SendReturns PROVE IInv'
<1> DEFINE b == "button_task"
<1> USE DEF SendReturns, WriteReturns, EndRound
<1>1. b \in WsTasks /\ b \in Senders /\ b \in Tasks
      /\ told[b] = "none" /\ wpc[b] = "write" /\ lock = b
  BY DEF WsTasks, Senders, Tasks, QuietSends, IInv, WsInv, LinkPart
<1>2. Flags'
  BY DEF netVars, IInv, ButtonInv, Flags
<1>3. CASE UNCHANGED told
  <2>1. \/ lock' = "free" /\ wpc' = [wpc EXCEPT ![b] = "idle"]
                          /\ UNCHANGED <<led, told, linkVars>>
        \/ told'[b] = "ERROR"
    BY <1>1 DEF PostsError, Disconnected, Reports, IInv, WsInv, LedPart
  <2>2. WsInv'
    BY <1>1, <1>3, <2>1, WriteOkWs DEF IInv
  <2>3. ButtonTold' /\ ButtonStatesHold'
    BY <1>1, <1>3 DEF IInv, ButtonInv, ButtonTold, ButtonStatesHold
  <2>4. QED
    BY <1>2, <2>2, <2>3 DEF IInv, ButtonInv
<1>4. CASE PostsError(b) /\ UNCHANGED lock
  <2>1. WsInv'
    BY <1>1, <1>4, PostsErrorWs DEF IInv
  <2>2. told'[b] = "ERROR" /\ \A u \in Tasks : u # b => told'[u] = told[u]
    BY <1>1, <1>4 DEF PostsError, Disconnected, Reports, IInv, WsInv, LedPart
  <2>3. ButtonTold' /\ ButtonStatesHold'
    BY <1>1, <2>2 DEF IInv, ButtonInv, ButtonTold, ButtonStates, ButtonStatesHold
  <2>4. QED
    BY <1>2, <2>1, <2>3 DEF IInv, ButtonInv
<1>5. QED
  BY <1>3, <1>4

LEMMA ReaderInv ==
  ASSUME IInv, QuietSends, ReaderReads \/ SendFrame \/ FrameReturns PROVE IInv'
<1> DEFINE r == "audio_read_task"
<1>1. r \in WsTasks /\ r \in Senders /\ r \in Tasks
  BY DEF WsTasks, Senders, Tasks
<1>2. CASE UNCHANGED told
  <2> USE <1>2 DEF ReaderReads, SendFrame, FrameReturns, buttonVars, netVars
  <2>1. WsInv'
    <3>1. CASE UNCHANGED wsVars
      BY <3>1, UntoldKeeps DEF IInv, wsVars
    <3>2. CASE SendFrame /\ TakesLock(r)
      BY <1>1, <3>2, SendWs DEF IInv, TakesLock, Idle
    <3>3. CASE FrameReturns
      <4>1. told[r] = "none" /\ wpc[r] = "write"
        BY <1>1, <3>3 DEF WriteReturns, QuietSends
      <4>2. lock' = "free" /\ wpc' = [wpc EXCEPT ![r] = "idle"] /\ UNCHANGED linkVars
        BY <1>1, <3>3, <4>1 DEF WriteReturns, PostsError, Disconnected, Reports,
                                IInv, WsInv, LedPart
      <4>3. QED
        BY <1>1, <4>1, <4>2, <3>3, WriteOkWs DEF IInv
    <3>4. QED
      BY <3>1, <3>2, <3>3
  <2>2. ButtonInv'
    BY DEF IInv, ButtonInv, Flags, ButtonTold, ButtonStatesHold
  <2>3. QED
    BY <2>1, <2>2 DEF IInv
<1>3. CASE FrameReturns /\ PostsError(r) /\ UNCHANGED lock
  <2> USE <1>3 DEF FrameReturns, WriteReturns
  <2>1. told[r] = "none" /\ wpc[r] = "write" /\ lock = r
    BY <1>1 DEF QuietSends, IInv, WsInv, LinkPart
  <2>2. WsInv'
    BY <1>1, <2>1, PostsErrorWs DEF IInv
  <2>3. ButtonTold' /\ ButtonStatesHold'
    BY <1>1, <2>1, ButtonKeeps DEF PostsError, Disconnected, States, ButtonStates,
       IInv, WsInv, buttonVars
  <2>4. Flags'
    BY DEF IInv, ButtonInv, Flags, buttonVars, netVars
  <2>5. QED
    BY <2>2, <2>3, <2>4 DEF IInv, ButtonInv
<1>4. QED
  BY <1>2, <1>3 DEF ReaderReads, SendFrame, FrameReturns, WriteReturns, TakesLock

-----------------------------------------------------------------------------
(* wifi_event_handler and the MQTT task *)

LEMMA NetworkInv == ASSUME IInv, Network PROVE IInv'
<1> USE DEF Network, WifiStarts, WifiDisconnected, GotIp, StartClient,
            MqttConnected, MqttDisconnected, Idle, netVars
<1>1. UNCHANGED <<led, button, buttonVars, frame_held, wsVars>>
  OBVIOUS
<1>2. Flags'
  <2>1. /\ wifi' \in {"starting", "down", "up"} /\ epc' \in {"loop", "start_client"}
    BY DEF IInv, ButtonInv, Flags
  <2>2. /\ client' = client \/ client' = TRUE
        /\ mqtt' = mqtt \/ mqtt' = TRUE \/ mqtt' = FALSE
    BY ZenonT(30)
  <2>3. client' \in BOOLEAN /\ mqtt' \in BOOLEAN
    BY <2>2, Zenon DEF IInv, ButtonInv, Flags
  <2>4. QED
    BY <1>1, <2>1, <2>3 DEF IInv, ButtonInv, Flags, buttonVars
<1>3. \/ UNCHANGED told
      \/ \E t \in {"event_task", "mqtt_task"},
            s \in {"WIFI_CONNECTING", "WIFI_CONNECTED", "READY", "ERROR"} :
            told[t] = "none" /\ Reports(t, s)
  OBVIOUS
<1>4. CASE UNCHANGED told
  <2>1. WsInv'
    BY <1>1, <1>4, UntoldKeeps DEF IInv, wsVars
  <2>2. ButtonTold' /\ ButtonStatesHold'
    BY <1>1, <1>4 DEF IInv, ButtonInv, ButtonTold, ButtonStatesHold, buttonVars
  <2>3. QED
    BY <1>2, <2>1, <2>2 DEF IInv, ButtonInv
<1>5. ASSUME NEW t \in {"event_task", "mqtt_task"},
             NEW s \in {"WIFI_CONNECTING", "WIFI_CONNECTED", "READY", "ERROR"},
             told[t] = "none", Reports(t, s)
      PROVE  IInv'
  <2>1. t \in Tasks /\ t # "button_task"
        /\ s \in States /\ s # "PLAYING" /\ s \notin ButtonStates
    BY DEF Tasks, States, ButtonStates
  <2>2. WsInv'
    BY <1>1, <1>5, <2>1, ReportsKeeps DEF IInv, wsVars
  <2>3. ButtonTold' /\ ButtonStatesHold'
    BY <1>1, <1>5, <2>1, ButtonKeeps DEF IInv, WsInv, buttonVars
  <2>4. QED
    BY <1>2, <2>2, <2>3 DEF IInv, ButtonInv
<1>6. QED
  BY <1>3, <1>4, <1>5

-----------------------------------------------------------------------------
LEMMA NextInv == IInv /\ QuietSends /\ [Next]_vars => IInv'
<1> SUFFICES ASSUME IInv, QuietSends, [Next]_vars PROVE IInv'
  OBVIOUS
<1>1. CASE UserToggles \/ UNCHANGED vars
  <2> USE <1>1 DEF UserToggles, vars, buttonVars, wsVars, netVars
  <2>1. WsInv'
    BY UntoldKeeps DEF IInv
  <2>2. Flags'
    <3>1. button' = ~button \/ button' = button
      BY Zenon
    <3>2. button' \in BOOLEAN
      BY <3>1, Zenon DEF IInv, ButtonInv, Flags
    <3>3. UNCHANGED <<last_button_state, bpc, is_recording, frame_held, wifi, epc, client, mqtt>>
      OBVIOUS
    <3>4. QED
      BY <3>2, <3>3, Zenon DEF IInv, ButtonInv, Flags
  <2>3. ButtonTold' /\ ButtonStatesHold'
    BY DEF IInv, ButtonInv, ButtonTold, ButtonStatesHold
  <2>4. QED
    BY <2>1, <2>2, <2>3 DEF IInv, ButtonInv
<1>2. QED
  BY <1>1, TellInv, WebSocketInv, ButtonTaskInv, SendLocksInv, SendReturnsInv,
     ReaderInv, NetworkInv DEF Next

\* A task begins a send only when it has nothing left to report, and reports
\* nothing before it ends.
LEMMA QuietStep == IInv /\ QuietSends /\ [Next]_vars => QuietSends'
<1> SUFFICES ASSUME IInv, QuietSends, [Next]_vars, NEW t \in Senders,
                    wpc'[t] \in {"lock", "write"}
             PROVE  told'[t] = "none"
  BY DEF QuietSends
<1>1. /\ t \in Tasks /\ t \in WsTasks /\ t \notin {"ws_client", "event_task", "mqtt_task"}
      /\ told \in [Tasks -> States \cup {"none"}]
      /\ wpc \in [WsTasks -> {"idle", "lock", "write", "abort", "poll_abort"}]
      /\ wpc[t] \in {"lock", "write"} => told[t] = "none"
      /\ "none" \notin States
  BY DEF Tasks, WsTasks, Senders, IInv, WsInv, LinkPart, LedPart, QuietSends, States
<1>2. CASE \E u \in Tasks : Tell(u)
  BY <1>1, <1>2 DEF Tell, Reports
<1>3. CASE WebSocket
  BY <1>1, <1>3 DEF WebSocket, Connected, ClientFails, Data, PollError, PollAborts,
     CloseAndEnd, Aborts, Abort, PostsError, Disconnected, Reports
<1>4. CASE ButtonTask
  BY <1>1, <1>4 DEF ButtonTask, PressWithoutToken, AuthWaitOver, Press,
     StartRecording, StopRecording, SendBegins, NothingToDo, Polls, Idle, Reports,
     wsVars
<1>5. CASE ReaderReads \/ SendFrame \/ SendLocks
  BY <1>1, <1>5 DEF ReaderReads, SendFrame, SendLocks, Idle, TakesLock, wsVars,
     WsTasks
<1>6. CASE SendReturns \/ FrameReturns
  <2>1. PICK u \in Senders : WriteReturns(u)
    BY <1>6 DEF SendReturns, FrameReturns, Senders
  <2>2. u \in WsTasks
    BY <2>1 DEF WsTasks
  <2>3. wpc'[u] \in {"idle", "abort"}
    BY <1>1, <2>1, <2>2 DEF WriteReturns, PostsError
  <2>4. u # t
    BY <2>3
  <2>5. wpc'[t] = wpc[t] /\ told'[t] = told[t]
    BY <1>1, <2>1, <2>4 DEF WriteReturns, PostsError, Disconnected, Reports
  <2>6. QED
    BY <1>1, <2>5
<1>7. CASE Network
  BY <1>1, <1>7 DEF Network, WifiStarts, WifiDisconnected, GotIp, StartClient,
     MqttConnected, MqttDisconnected, Reports, wsVars
<1>8. CASE UserToggles \/ UNCHANGED vars
  BY <1>1, <1>8 DEF UserToggles, vars, wsVars
<1>9. QED
  BY <1>2, <1>3, <1>4, <1>5, <1>6, <1>7, <1>8 DEF Next

LEMMA InitQuiet == Init => QuietSends
BY DEF Init, QuietSends, Senders, WsTasks

THEOREM IInvCorrect == Spec => []IInv
<1>1. Init => IInv /\ QuietSends
  BY InitInv, InitQuiet
<1>2. IInv /\ QuietSends /\ [Next]_vars => (IInv /\ QuietSends)'
  BY NextInv, QuietStep
<1>3. QED
  BY <1>1, <1>2, PTL DEF Spec

\* The types, and that a task with an abort to make holds client->lock.
THEOREM StatusTypeCorrect == Spec => []TypeOK
<1>1. IInv => TypeOK
  BY TypeParts DEF IInv, WsInv, ButtonInv
<1>2. QED
  BY <1>1, IInvCorrect, PTL

\* The button's states are shown only while they hold, whatever five other
\* tasks report in between.
THEOREM ButtonStatesCorrect == Spec => []ButtonStatesHold
<1>1. IInv => ButtonStatesHold
  BY DEF IInv, ButtonInv
<1>2. QED
  BY <1>1, IInvCorrect, PTL

\* Audio is shown as playing only on a connection the mirror knows, for any
\* number of connections.
THEOREM PlayingCorrect == Spec => []PlayingIsConnected
<1>1. IInv => PlayingIsConnected
  BY DEF IInv, WsInv
<1>2. QED
  BY <1>1, IInvCorrect, PTL
=============================================================================
