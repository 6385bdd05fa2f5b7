---------------------------- MODULE VoiceSession ----------------------------
(***************************************************************************)
(* Push-to-talk: button_task, audio_read_task, the MQTT task that stores   *)
(* the auth token, and the WebSocket link they share.                      *)
(*                                                                         *)
(* The three tasks run concurrently and communicate through plain globals: *)
(* is_recording (button -> reader), auth_token (MQTT -> button) and        *)
(* ws_connected (WebSocket task -> both).  Each action is the code between *)
(* two points where another task can be seen: a read of a shared global, a *)
(* write of one, or a blocking call.                                       *)
(*                                                                         *)
(* The text of a token decides nothing here but whether it is empty, which *)
(* is how its first byte stands.  What strncpy makes of a text that is read *)
(* while it is written is left out, and so is the text in a start message. *)
(* wire is a history variable: every message the transport accepted.       *)
(***************************************************************************)
EXTENDS WsLink, Sequences, FiniteSets

CONSTANTS
    MaxFrames,      \* bound: Opus frames the VB6824 delivers
    MaxRecordings,  \* bound: recordings started
    RingCap         \* frames g_rx_ringbuffer holds

ASSUME VoiceAssumption ==
    /\ MaxFrames \in Nat
    /\ MaxRecordings \in Nat
    /\ RingCap \in Nat \ {0}

VARIABLES
    button,             \* the level of BUTTON_GPIO
    last_button_state,  \* button_task's previous sample
    bpc,                \* where button_task is
    is_recording,
    recordings,         \* history: how many recordings were started
    auth_token,         \* whether mqtt_ctx.auth_token is not empty
    rx,                 \* g_rx_ringbuffer, oldest frame first
    captured,           \* history: how many frames the VB6824 delivered
    rpc,                \* where audio_read_task is
    frame,              \* the frame audio_read_task holds
    wire                \* history: messages accepted by the transport

buttonVars == <<last_button_state, bpc, is_recording, recordings>>
readerVars == <<rpc, frame>>
vars == <<linkVars, button, buttonVars, auth_token, rx, captured,
          readerVars, wire>>

-----------------------------------------------------------------------------
(* Data *)

\* A captured frame: its number, and the recording in progress when it
\* arrived (0 when there was none).
Frame == [num : 1..MaxFrames, during : 0..MaxRecordings]
NoFrame == [num |-> 0, during |-> 0]

\* A message on the wire. rec is the latest recording and live is
\* is_recording, both when the transport accepted the message.
Message == [kind : {"start", "stop", "audio"}, epoch : 1..MaxEpoch,
            rec : 0..MaxRecordings, live : BOOLEAN,
            frame : Frame \cup {NoFrame}]

ButtonPcs == {"poll", "auth_wait", "start_check", "start_client",
              "start_send", "stop_check", "stop_client", "stop_send"}
ReaderPcs == {"loop", "read", "check", "client", "send"}

TypeOK ==
    /\ LinkTypeOK
    /\ button \in BOOLEAN
    /\ last_button_state \in BOOLEAN
    /\ bpc \in ButtonPcs
    /\ is_recording \in BOOLEAN
    /\ recordings \in 0..MaxRecordings
    /\ auth_token \in BOOLEAN
    /\ rx \in Seq(Frame) /\ Len(rx) <= RingCap
    /\ captured \in 0..MaxFrames
    /\ rpc \in ReaderPcs
    /\ frame \in Frame \cup {NoFrame}
    /\ wire \in Seq(Message)

Init ==
    /\ LinkInit
    /\ button = FALSE
    /\ last_button_state = FALSE
    /\ bpc = "poll"
    /\ is_recording = FALSE
    /\ recordings = 0
    /\ auth_token = FALSE
    /\ rx = <<>>
    /\ captured = 0
    /\ rpc = "loop"
    /\ frame = NoFrame
    /\ wire = <<>>
-----------------------------------------------------------------------------
(* Sending: the part of the send path behind the client's lock *)

Put(kind, f) ==
    wire' = Append(wire, [kind |-> kind, epoch |-> epoch, rec |-> recordings,
                          live |-> is_recording, frame |-> f])

\* The transport takes the message.
SendAccepted(kind, f) ==
    /\ link = "up"
    /\ Put(kind, f)
    /\ UNCHANGED linkVars

\* The write succeeds locally, but the server has already said it closes.
SendIgnored ==
    /\ link \in {"closing", "dead"}
    /\ UNCHANGED <<linkVars, wire>>

\* The write fails: ERROR event, then abort_connection from the sender's task.
\* On a down or dead client the abort changes at most the mirror.
SendFailed ==
    /\ \/ Drop
       \/ link \in {"down", "dead"} /\ ErrorEvent
    /\ UNCHANGED wire

Send(kind, f) ==
    SendAccepted(kind, f) \/ SendIgnored \/ SendFailed

-----------------------------------------------------------------------------
(* button_task *)

\* The user presses or releases between two samples.
UserToggles ==
    /\ button' = ~button
    /\ UNCHANGED <<linkVars, buttonVars, auth_token, rx, captured,
                   readerVars, wire>>

PressEdge == button /\ ~last_button_state
ReleaseEdge == ~button /\ last_button_state

\* The end of a round: last_button_state = current_button_state; vTaskDelay.
EndRound(sample) ==
    /\ bpc' = "poll"
    /\ last_button_state' = sample

\* Press while no token has arrived: AUTH_WAITING, and a two-second delay in
\* which the button is not sampled.
PressWithoutToken ==
    /\ bpc = "poll" /\ PressEdge
    /\ ~is_recording /\ ~auth_token
    /\ bpc' = "auth_wait"
    /\ UNCHANGED <<linkVars, button, last_button_state, is_recording,
                   recordings, auth_token, rx, captured, readerVars, wire>>

AuthWaitOver ==
    /\ bpc = "auth_wait"
    /\ EndRound(TRUE)
    /\ UNCHANGED <<linkVars, button, is_recording, recordings,
                   auth_token, rx, captured, readerVars, wire>>

\* Press with a token: audio_session_start_recording. The reader may run from
\* here on, before the start message is even formatted.
PressStarts ==
    /\ bpc = "poll" /\ PressEdge
    /\ ~is_recording /\ auth_token
    /\ recordings < MaxRecordings      \* bound of the model
    /\ is_recording' = TRUE
    /\ recordings' = recordings + 1
    /\ bpc' = "start_check"
    /\ UNCHANGED <<linkVars, button, last_button_state, auth_token,
                   rx, captured, readerVars, wire>>

\* websocket_send_start_message: the mirror, and the token again. It may be empty
\* by now, or become so before snprintf copies it.
StartCheck ==
    /\ bpc = "start_check"
    /\ IF ws_connected /\ auth_token
       THEN bpc' = "start_client" /\ UNCHANGED last_button_state
       ELSE EndRound(TRUE)
    /\ UNCHANGED <<linkVars, button, is_recording, recordings, auth_token,
                   rx, captured, readerVars, wire>>

\* esp_websocket_client_is_connected, before the client's lock is taken.
StartClient ==
    /\ bpc = "start_client"
    /\ IF link = "up"
       THEN bpc' = "start_send" /\ UNCHANGED last_button_state
       ELSE EndRound(TRUE)
    /\ UNCHANGED <<linkVars, button, is_recording, recordings,
                   auth_token, rx, captured, readerVars, wire>>

StartSend ==
    /\ bpc = "start_send"
    /\ Send("start", NoFrame)
    /\ EndRound(TRUE)
    /\ UNCHANGED <<button, is_recording, recordings, auth_token,
                   rx, captured, readerVars>>

\* Release while recording: the recording stops before the stop message.
ReleaseStops ==
    /\ bpc = "poll" /\ ReleaseEdge
    /\ is_recording
    /\ is_recording' = FALSE
    /\ bpc' = "stop_check"
    /\ UNCHANGED <<linkVars, button, last_button_state, recordings,
                   auth_token, rx, captured, readerVars, wire>>

\* Mutant of StopCheck: the stop message is sent only while recording, which
\* ReleaseStops has just ended.
MutStopWhileRecording ==
    /\ bpc = "stop_check"
    /\ IF ws_connected /\ is_recording
       THEN bpc' = "stop_client" /\ UNCHANGED last_button_state
       ELSE EndRound(FALSE)
    /\ UNCHANGED <<linkVars, button, is_recording, recordings,
                   auth_token, rx, captured, readerVars, wire>>

StopCheck ==
    /\ bpc = "stop_check"
    /\ IF ws_connected
       THEN bpc' = "stop_client" /\ UNCHANGED last_button_state
       ELSE EndRound(FALSE)
    /\ UNCHANGED <<linkVars, button, is_recording, recordings,
                   auth_token, rx, captured, readerVars, wire>>

StopClient ==
    /\ bpc = "stop_client"
    /\ IF link = "up"
       THEN bpc' = "stop_send" /\ UNCHANGED last_button_state
       ELSE EndRound(FALSE)
    /\ UNCHANGED <<linkVars, button, is_recording, recordings,
                   auth_token, rx, captured, readerVars, wire>>

StopSend ==
    /\ bpc = "stop_send"
    /\ Send("stop", NoFrame)
    /\ EndRound(FALSE)
    /\ UNCHANGED <<button, is_recording, recordings, auth_token,
                   rx, captured, readerVars>>

\* A sample that starts and stops nothing: no edge, a press while a recording
\* is on, or a release while none is.
NothingToDo ==
    /\ bpc = "poll"
    /\ ~(PressEdge /\ ~is_recording)
    /\ ~(ReleaseEdge /\ is_recording)
    /\ EndRound(button)
    /\ UNCHANGED <<linkVars, button, is_recording, recordings,
                   auth_token, rx, captured, readerVars, wire>>

ButtonTask ==
    \/ PressWithoutToken \/ AuthWaitOver \/ PressStarts
    \/ StartCheck \/ StartClient \/ StartSend
    \/ ReleaseStops \/ StopCheck \/ StopClient \/ StopSend \/ NothingToDo

-----------------------------------------------------------------------------
(* audio_read_task and the ring that feeds it *)

\* Mutant of FrameArrives: a full ring takes the frame all the same.
MutNoDropOldest ==
    /\ captured < MaxFrames
    /\ captured' = captured + 1
    /\ rx' = Append(rx, [num |-> captured + 1,
                         during |-> IF is_recording THEN recordings ELSE 0])
    /\ UNCHANGED <<linkVars, button, buttonVars, auth_token, readerVars, wire>>

\* __vb6824_frame_cb: input is always enabled, and a full ring loses its
\* oldest frame; one makes room, since all captured frames have one length.
FrameArrives ==
    /\ captured < MaxFrames
    /\ captured' = captured + 1
    /\ LET f == [num |-> captured + 1,
                 during |-> IF is_recording THEN recordings ELSE 0]
       IN  rx' = IF Len(rx) < RingCap
                 THEN Append(rx, f)
                 ELSE Append(Tail(rx), f)
    /\ UNCHANGED <<linkVars, button, buttonVars, auth_token, readerVars, wire>>

\* if (is_recording): commit to a read that blocks until a frame is there.
ReaderCommits ==
    /\ rpc = "loop"
    /\ is_recording
    /\ rpc' = "read"
    /\ UNCHANGED <<linkVars, button, buttonVars, auth_token, rx, captured,
                   frame, wire>>

\* Mutant of AudioRead: the item is copied but never returned to the ring.
MutItemKept ==
    /\ rpc = "read"
    /\ rx # <<>>
    /\ frame' = Head(rx)
    /\ rpc' = "check"
    /\ UNCHANGED <<linkVars, button, buttonVars, auth_token, rx, captured,
                   wire>>

\* vb6824_audio_read takes the oldest frame and returns it to the ring.
AudioRead ==
    /\ rpc = "read"
    /\ rx # <<>>
    /\ frame' = Head(rx)
    /\ rx' = Tail(rx)
    /\ rpc' = "check"
    /\ UNCHANGED <<linkVars, button, buttonVars, auth_token, captured,
                   wire>>

\* websocket_is_connected, and the same test in websocket_send_audio_frame.
FrameCheck ==
    /\ rpc = "check"
    /\ IF ws_connected
       THEN rpc' = "client" /\ UNCHANGED frame
       ELSE rpc' = "loop" /\ frame' = NoFrame
    /\ UNCHANGED <<linkVars, button, buttonVars, auth_token, rx, captured, wire>>

FrameClient ==
    /\ rpc = "client"
    /\ IF link = "up"
       THEN rpc' = "send" /\ UNCHANGED frame
       ELSE rpc' = "loop" /\ frame' = NoFrame
    /\ UNCHANGED <<linkVars, button, buttonVars, auth_token, rx, captured, wire>>

\* Mutant of FrameSend: the task reads on without testing is_recording.
MutReadOn ==
    /\ rpc = "send"
    /\ Send("audio", frame)
    /\ rpc' = "read"
    /\ frame' = NoFrame
    /\ UNCHANGED <<button, buttonVars, auth_token, rx, captured>>

FrameSend ==
    /\ rpc = "send"
    /\ Send("audio", frame)
    /\ rpc' = "loop"
    /\ frame' = NoFrame
    /\ UNCHANGED <<button, buttonVars, auth_token, rx, captured>>

ReaderTask ==
    ReaderCommits \/ AudioRead \/ FrameCheck \/ FrameClient \/ FrameSend

-----------------------------------------------------------------------------
(* The MQTT task and the WebSocket task *)

\* updatetoken stores any string, an empty one too. One that is as empty as the
\* one before makes no difference here.
TokenStored ==
    /\ auth_token' = ~auth_token
    /\ UNCHANGED <<linkVars, button, buttonVars, rx, captured, readerVars, wire>>

\* What the WebSocket task does to the link.
LinkEvent ==
    /\ TaskNext
    /\ UNCHANGED <<button, buttonVars, auth_token, rx, captured, readerVars,
                   wire>>

-----------------------------------------------------------------------------
Next ==
    \/ UserToggles \/ ButtonTask
    \/ FrameArrives \/ ReaderTask
    \/ TokenStored \/ LinkEvent

Spec == Init /\ [][Next]_vars

-----------------------------------------------------------------------------
(* Properties *)

Audio(i) == wire[i].kind = "audio"

\* The ring, the reader's buffer and the reconnecting link neither duplicate
\* nor reorder audio: the frames on the wire are in the order in which the
\* VB6824 delivered them (vb6824_audio_read, websocket_send_audio_frame).
FramesInOrder ==
    \A i, j \in DOMAIN wire :
        i < j /\ Audio(i) /\ Audio(j) => wire[i].frame.num < wire[j].frame.num

\* audio_read_task tests is_recording once per frame, so a release leaves at
\* most the one frame it has already committed to: between the end of one
\* recording and the start of the next, at most one frame is sent.
OneTrailingFrame ==
    \A i, j \in DOMAIN wire :
        i < j /\ Audio(i) /\ Audio(j) /\ ~wire[i].live /\ ~wire[j].live
            => wire[i].rec # wire[j].rec

\* What recording r sent that was captured before it began.
StaleFrames(r) ==
    {i \in DOMAIN wire : Audio(i) /\ wire[i].live /\ wire[i].rec = r
                         /\ wire[i].frame.during # r}

\* Frames are captured all the time and nothing empties the ring at a press,
\* so a recording begins with old audio, but never with more than what the
\* ring and the reader's buffer hold (__vb6824_frame_cb, audio_read_task).
StaleAudioBounded ==
    \A r \in 1..recordings : Cardinality(StaleFrames(r)) <= RingCap + 1

\* On a connection that is still healthy the server sees every recording it
\* was told of end: its stop message is there as soon as button_task is done
\* with the release, and before any later start message.
NoOrphanStart ==
    \A i \in DOMAIN wire :
        /\ wire[i].kind = "start"
        /\ wire[i].epoch = epoch /\ link = "up" /\ ws_connected
        /\ wire[i].rec < recordings \/ (~is_recording /\ bpc = "poll")
        => \E j \in DOMAIN wire : i < j /\ wire[j].kind = "stop"
                                       /\ wire[j].rec = wire[i].rec
=============================================================================
