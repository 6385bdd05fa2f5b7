----------------------------- MODULE MCPlayback -----------------------------
(* A chunk of two units, so that a part can decode to less than a chunk; a  *)
(* ring of three frames of two chunks, as the firmware's has three of six.   *)
EXTENDS Playback
=============================================================================
