------------------------------- MODULE Playback -------------------------------
(***************************************************************************)
(* Received audio on its way to the loudspeaker, and who waits for it.     *)
(*                                                                         *)
(* The WebSocket client task reads a message part by part and hands each   *)
(* part to websocket_event_handler, which shows PLAYING, decodes it and    *)
(* writes the PCM samples to g_tx_ringbuffer with portMAX_DELAY, all with  *)
(* client->lock held.  __send_task takes chunks of the ring, sends them to the VB6824   *)
(* and waits ten milliseconds after each.  Meanwhile audio_read_task and   *)
(* button_task want the same lock to send.                                 *)
(*                                                                         *)
(* Lengths are in units of the shortest block Opus decodes to, 2.5 ms.     *)
(* The ESP32-C2 has one core and the reader (priority 10) outranks the     *)
(* client task and button_task (both 5): when the lock is given back and   *)
(* the reader waits for it, the reader has it next.  That a connection     *)
(* fails, comes back and ends is the subject of WsClient.                  *)
(***************************************************************************)
EXTENDS Integers

CONSTANTS
    ChunkLen,       \* AUDIO_SEND_CHENK_LEN
    RingChunks,     \* SEND_BUF_LENGTH, in chunks
    FrameChunks,    \* what the server's Opus frames decode to, in chunks
    PartLens,       \* what a part of a frame, taken for one, may decode to
    MaxEvents       \* bound: DATA events

RingLen == RingChunks * ChunkLen
FrameLens == {k * ChunkLen : k \in FrameChunks}

\* The ring holds a whole number of chunks. The server's frames are no shorter
\* than a chunk (FRAME_DURATION is 60 ms, six chunks), and nothing that Opus
\* decodes to is longer than the ring.
ASSUME PlaybackAssumption ==
    /\ ChunkLen \in Nat \ {0} /\ RingChunks \in Nat \ {0}
    /\ FrameChunks # {} /\ FrameChunks \subseteq 1..RingChunks
    /\ PartLens \subseteq 1..RingLen
    /\ MaxEvents \in Nat

VARIABLES
    lock,           \* client->lock: "free", "client", "reader" or "button"
    cpc,            \* where the client task is
    more,           \* whether its message has parts it has not read
    pcm,            \* the samples websocket_event_handler is writing
    events,         \* how many DATA events there were
    cut,            \* history: samples were decoded from a part of a message
    sender,         \* where each sending task is
    stalls,         \* history: chunks played while the reader waited for the
                    \* lock and its holder waited for room in the ring
    g_output_enabled,
    out,            \* where __send_task is
    rd, used, held  \* g_tx_ringbuffer: where reading goes on, how much may be
                    \* read, and how much __send_task has and not yet returned

clientVars == <<cpc, more, pcm, events, cut>>
ringVars == <<rd, used, held>>
vars == <<lock, clientVars, sender, stalls, g_output_enabled, out, ringVars>>

SenderTasks == {"reader", "button"}

TypeOK ==
    /\ lock \in {"free", "client"} \cup SenderTasks
    /\ cpc \in {"top", "locked", "reading", "message", "part", "write"}
    /\ more \in BOOLEAN /\ cut \in BOOLEAN /\ g_output_enabled \in BOOLEAN
    /\ pcm \in 0..RingLen /\ events \in 0..MaxEvents
    /\ sender \in [SenderTasks -> {"idle", "wait", "write"}]
    /\ stalls \in Nat
    /\ out \in {"loop", "taken", "pace"}
    /\ rd \in 0..(RingLen - 1) /\ used \in 0..RingLen /\ held \in 0..RingLen
    /\ used + held <= RingLen
    /\ lock = "client" <=> cpc # "top"
    /\ \A s \in SenderTasks : lock = s <=> sender[s] = "write"

\* vb6824_init is over: the ring and __send_task are there, the output is not
\* enabled yet. The network takes longer than that.
Init ==
    /\ lock = "free"
    /\ cpc = "top" /\ more = FALSE /\ pcm = 0 /\ events = 0 /\ cut = FALSE
    /\ sender = [s \in SenderTasks |-> "idle"] /\ stalls = 0
    /\ g_output_enabled = FALSE /\ out = "loop"
    /\ rd = 0 /\ used = 0 /\ held = 0

\* A task that wants the lock may have it: it is free, and nobody of a higher
\* priority is waiting for it.
MayLock(task) == lock = "free" /\ (task = "reader" \/ sender["reader"] # "wait")

-----------------------------------------------------------------------------
(* The client task *)

ClientLocks ==
    /\ cpc = "top" /\ MayLock("client")
    /\ lock' = "client"
    /\ cpc' = "locked"
    /\ UNCHANGED <<more, pcm, events, cut, sender, stalls, g_output_enabled,
                   out, ringVars>>

\* A round without a message: nothing to read, a ping, or no connection.
NothingToRead ==
    /\ cpc = "locked"
    /\ cpc' = "top" /\ lock' = "free"
    /\ UNCHANGED <<more, pcm, events, cut, sender, stalls, g_output_enabled,
                   out, ringVars>>

\* Mutant of PartDone: the next message is read without giving the lock back.
MutReadOn(rest) ==
    cpc' = (IF rest THEN "reading" ELSE "locked") /\ UNCHANGED lock

\* The event is dispatched: esp_websocket_client_recv reads the rest of the
\* message, or returns and the task gives the lock back.
PartDone(rest) ==
    IF rest THEN cpc' = "reading" /\ UNCHANGED lock
            ELSE cpc' = "top" /\ lock' = "free"

OneEvent == events < MaxEvents /\ events' = events + 1

\* One read returns a whole message: event DATA.
ReadMessage ==
    /\ cpc = "locked"
    /\ OneEvent                        \* bound of the model
    /\ more' = FALSE
    /\ cpc' = "message"
    /\ UNCHANGED <<lock, pcm, cut, sender, stalls, g_output_enabled, out,
                   ringVars>>

\* One read returns a part of a message, which is longer than the buffer, or
\* of which TCP has delivered no more: event DATA too.
ReadPart ==
    /\ cpc \in {"locked", "reading"}
    /\ OneEvent
    /\ more' \in IF cpc = "locked" THEN {TRUE} ELSE BOOLEAN
    /\ cpc' = "part"
    /\ UNCHANGED <<lock, pcm, cut, sender, stalls, g_output_enabled, out,
                   ringVars>>

\* Mutant of Decode: the number of samples is taken for the number of bytes.
MutSamplesAsBytes(lens) ==
    \/ pcm' = 0 /\ PartDone(more)
    \/ /\ pcm' \in {n \div 2 : n \in lens}
       /\ cpc' = "write" /\ UNCHANGED lock

\* Nothing to play: a text, too short, a length above the limit, or the decoder
\* refuses it. Otherwise the samples are written next.
Decode(lens) ==
    \/ pcm' = 0 /\ PartDone(more)
    \/ /\ pcm' \in lens
       /\ cpc' = "write" /\ UNCHANGED lock

\* The handler, once led_set_system_state has returned: it may have waited for
\* led_mutex, a tenth of a second each time.
HandleMessage ==
    /\ cpc = "message"
    /\ Decode(FrameLens)
    /\ UNCHANGED <<more, events, cut, sender, stalls, g_output_enabled, out,
                   ringVars>>

\* It takes each part for a message.
HandlePart ==
    /\ cpc = "part"
    /\ Decode(PartLens)
    /\ cut' = (cut \/ pcm' # 0)
    /\ UNCHANGED <<more, events, sender, stalls, g_output_enabled, out, ringVars>>

\* The rest of a message does not come: the read fails, and the task aborts the
\* connection, or it times out without a frame, and the loop ends.
ReadEnds ==
    /\ cpc = "reading"
    /\ more' = FALSE
    /\ PartDone(FALSE)
    /\ UNCHANGED <<pcm, events, cut, sender, stalls, g_output_enabled, out,
                   ringVars>>

\* Mutant of Fits: what __send_task has taken counts as free at once.
MutTakenIsFree == used + pcm <= RingLen

\* A byte ring takes the samples together or not at all.
Fits == used + held + pcm <= RingLen

\* vb6824_audio_write, once there is room.
AudioWrite ==
    /\ cpc = "write" /\ Fits
    /\ used' = used + pcm
    /\ pcm' = 0
    /\ PartDone(more)
    /\ UNCHANGED <<more, events, cut, sender, stalls, g_output_enabled, out,
                   rd, held>>

ClientTask ==
    \/ ClientLocks \/ NothingToRead \/ ReadMessage \/ ReadPart \/ ReadEnds
    \/ HandleMessage \/ HandlePart \/ AudioWrite

-----------------------------------------------------------------------------
(* __send_task *)

\* Mutant of EnableOutput: the output is left off.
MutOutputStaysOff ==
    /\ ~g_output_enabled
    /\ UNCHANGED vars

\* audio_session_init: vb6824_audio_enable_output(1).
EnableOutput ==
    /\ ~g_output_enabled
    /\ g_output_enabled' = TRUE
    /\ UNCHANGED <<lock, clientVars, sender, stalls, out, ringVars>>

\* xRingbufferReceiveUpTo: at most a chunk, and never across the ring's end.
ItemLen ==
    CHOOSE n \in {ChunkLen, used, RingLen - rd} :
        n <= ChunkLen /\ n <= used /\ n <= RingLen - rd

TakeChunk ==
    /\ out = "loop" /\ g_output_enabled
    /\ used > 0
    /\ held' = ItemLen
    /\ used' = used - ItemLen
    /\ out' = "taken"
    /\ UNCHANGED <<lock, clientVars, sender, stalls, g_output_enabled, rd>>

ReaderStalled == sender["reader"] = "wait" /\ cpc = "write" /\ ~Fits

\* Mutant of SendChunk: the item stays in the ring and is sent again.
MutSentAgain ==
    /\ out = "taken"
    /\ used' = used + held
    /\ held' = 0
    /\ out' = "pace"
    /\ UNCHANGED <<lock, clientVars, sender, stalls, g_output_enabled, rd>>

\* __frame_send to the VB6824, then vRingbufferReturnItem.
SendChunk ==
    /\ out = "taken"
    /\ rd' = IF rd + held = RingLen THEN 0 ELSE rd + held
    /\ held' = 0
    /\ stalls' = IF ReaderStalled THEN stalls + 1 ELSE stalls
    /\ out' = "pace"
    /\ UNCHANGED <<lock, clientVars, sender, g_output_enabled, used>>

\* vTaskDelayUntil: the chunk's ten milliseconds are over.
Paced ==
    /\ out = "pace"
    /\ out' = "loop"
    /\ UNCHANGED <<lock, clientVars, sender, stalls, g_output_enabled, ringVars>>

SendTask == TakeChunk \/ SendChunk \/ Paced

-----------------------------------------------------------------------------
(* audio_read_task and button_task: esp_websocket_client_send_* *)

WantsToSend(s) ==
    /\ sender[s] = "idle"
    /\ sender' = [sender EXCEPT ![s] = "wait"]
    /\ UNCHANGED <<lock, clientVars, stalls, g_output_enabled, out, ringVars>>

SenderLocks(s) ==
    /\ sender[s] = "wait" /\ MayLock(s)
    /\ lock' = s
    /\ sender' = [sender EXCEPT ![s] = "write"]
    /\ stalls' = IF s = "reader" THEN 0 ELSE stalls
    /\ UNCHANGED <<clientVars, g_output_enabled, out, ringVars>>

\* The message is written, or the write fails.
SenderDone(s) ==
    /\ sender[s] = "write"
    /\ lock' = "free"
    /\ sender' = [sender EXCEPT ![s] = "idle"]
    /\ UNCHANGED <<clientVars, stalls, g_output_enabled, out, ringVars>>

-----------------------------------------------------------------------------
Next ==
    \/ ClientTask \/ EnableOutput \/ SendTask
    \/ \E s \in SenderTasks : WantsToSend(s) \/ SenderLocks(s) \/ SenderDone(s)

\* The tasks are scheduled and the boot goes on. A message that has begun is
\* completed, or no more of it comes and the read ends: a server that sends ever
\* more of one message is left out, and so is a write that never returns.
Fairness ==
    /\ WF_vars(ClientTask) /\ WF_vars(EnableOutput) /\ WF_vars(SendTask)
    /\ SF_vars(ReadEnds \/ (ReadPart /\ ~more'))
    /\ \A s \in SenderTasks : WF_vars(SenderLocks(s)) /\ WF_vars(SenderDone(s))

Spec == Init /\ [][Next]_vars
FairSpec == Spec /\ Fairness

-----------------------------------------------------------------------------
(* Properties *)

\* Every packet __send_task makes is a full AUDIO_SEND_CHENK_LEN, across the
\* end of the ring too, so that one delay per packet is the speed of the
\* sound, as long as nothing was decoded from a part of a message.
FullChunks == ~cut => held \in {0, ChunkLen}

\* The event handler blocks on the ring with client->lock held. For room in
\* the ring the reader, which wants the lock to send a captured frame, waits
\* no longer than one frame plays, however full the ring and however much has
\* been received. What else the holder of the lock may wait for, led_mutex and
\* the network, comes on top.
StallBounded ==
    ~cut => \E n \in FrameChunks : stalls <= n

\* The client task is not stuck in the event handler, whatever the ring held.
WriteEnds == cpc = "write" ~> cpc # "write"

\* And the reader gets the lock.
ReaderServed == sender["reader"] = "wait" ~> sender["reader"] = "write"

\* README: "Binary data with 4-byte length header (big-endian), Opus-encoded
\* audio data": what is played was decoded from such messages.
WholeMessagesPlayed == ~cut
===============================================================================
