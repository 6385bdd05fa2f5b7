--------------------------- MODULE MCFrameParser ---------------------------
(* FrameParser with payloads that exercise the search: none at all, the two *)
(* bytes a frame begins with, and a header whose length wraps.  They differ,*)
(* so that a frame is known by its bytes.                                   *)
EXTENDS FrameParser

MCStreams ==
    {<< <<7>>, <<85, 170>>, <<>> >>, << <<85, 170>>, <<>>, <<7>> >>,
     << <<85, 170, 255, 255>>, <<>> >>}

\* What a length byte, a header byte and a sum are altered to: a length that is
\* too short, one that is possible, one that is not.
MCNoise == {0, 3, 85}
=============================================================================
