--------------------------- MODULE MCVoiceSession ---------------------------
EXTENDS VoiceSession

\* Bound: a third frame only until the second recording starts. It is what
\* StaleAudioBounded needs to fail, in one recording. From the second recording
\* on no empty token is stored.
MCBound ==
    /\ captured < 3 \/ recordings < 2
    /\ auth_token \/ recordings < 2
=============================================================================
