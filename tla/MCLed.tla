------------------------------- MODULE MCLed -------------------------------
(* Led with callers named after the tasks that set states. *)
EXTENDS Led

CONSTANTS wifi_task, button_task, led_animation_task
=============================================================================
