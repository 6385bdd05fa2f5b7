------------------------------- MODULE WsLink -------------------------------
(***************************************************************************)
(* The WebSocket link as the application sees it: what                     *)
(* esp_websocket_client promises its users, together with the mirror flag  *)
(* ws_connected that websocket_event_handler keeps of it.                  *)
(*                                                                         *)
(* This is the abstract specification.  WsClient models the client's task, *)
(* its lock and the senders' path in detail and is checked to implement    *)
(* this module; VoiceSession composes this module with the button, audio   *)
(* and MQTT tasks.                                                         *)
(*                                                                         *)
(*   link = "down"     no usable connection, the client task will retry    *)
(*          "up"       state CONNECTED: senders may use the transport      *)
(*          "closing"  the server sent a Close frame                       *)
(*          "dead"     the client task has ended; nobody restarts it       *)
(***************************************************************************)
EXTENDS Naturals

CONSTANT MaxEpoch    \* bound: connections established in one behaviour

ASSUME MaxEpochAssumption == MaxEpoch \in Nat

VARIABLES
    link,           \* what esp_websocket_client's state means to a sender
    epoch,          \* how many connections have been established so far
    ws_connected    \* the application's mirror of the link

linkVars == <<link, epoch, ws_connected>>

LinkTypeOK ==
    /\ link \in {"down", "up", "closing", "dead"}
    /\ epoch \in 0..MaxEpoch
    /\ ws_connected \in BOOLEAN

LinkInit ==
    /\ link = "down"
    /\ epoch = 0
    /\ ws_connected = FALSE

\* The transport connects: state CONNECTED, then event CONNECTED.
Connect ==
    /\ link = "down"
    /\ epoch < MaxEpoch
    /\ link' = "up"
    /\ epoch' = epoch + 1
    /\ ws_connected' = TRUE

\* Event ERROR: every failure path posts it before it aborts the connection.
ErrorEvent ==
    /\ ws_connected' = FALSE
    /\ UNCHANGED <<link, epoch>>

\* abort_connection on a client that reconnects: event DISCONNECTED.
Drop ==
    /\ link \in {"up", "closing"}
    /\ link' = "down"
    /\ ws_connected' = FALSE
    /\ UNCHANGED epoch

\* A Close frame from the server. No event the application handles tells it.
ServerClose ==
    /\ link = "up"
    /\ link' = "closing"
    /\ UNCHANGED <<epoch, ws_connected>>

\* The client task ends: events CLOSED and FINISH, which the application's
\* handler ignores, so the mirror keeps its value. A sender may have aborted
\* the connection since the task decided to end.
Finish ==
    /\ link = "closing" \/ (link = "down" /\ epoch > 0)
    /\ link' = "dead"
    /\ UNCHANGED <<epoch, ws_connected>>

\* What the client task does to the link: it posts ERROR only where it connects,
\* reads or polls.
TaskNext ==
    \/ Connect \/ Drop \/ ServerClose \/ Finish
    \/ link \in {"down", "up"} /\ ErrorEvent

\* What a sender whose write fails does, at any time.
SenderNext == Drop \/ ErrorEvent

LinkNext == TaskNext \/ SenderNext

LinkSpec == LinkInit /\ [][LinkNext]_linkVars
=============================================================================
