----------------------------- MODULE MCWsClient -----------------------------
(* WsClient on the firmware's two sending tasks. *)
EXTENDS WsClient

CONSTANTS button_task, audio_read_task
=============================================================================
