# A TLA+ model of the VB6824 push-to-talk firmware

The program is ESP32-C2 firmware for a push-to-talk voice device. A button
starts and stops a recording, a VB6824 voice chip on a serial line delivers Opus
frames, a WebSocket carries them to a server, MQTT brings the token that a
recording needs, and an RGB LED tells the user what goes on. There are no tests
in the repository; `src/README.md` and the headers' comments are its
documentation.

Everything interesting happens between FreeRTOS tasks that share plain globals.
The modules here model those tasks step by step. TLC checks them on small
instances, TLAPS proves the main safety properties for every value of the
constants, and five runs show where the code does not do what its documentation
or its own sizes say.

## The system

| Component | State | Operations | Talks to |
|---|---|---|---|
| `main/button_handler.c` | `last_button_state` | `button_task` samples the GPIO every 10 ms, starts and stops recordings | audio_session, websocket_client, mqtt_handler (token), led |
| `main/audio_session.c` | `is_recording` | `audio_read_task`, start, stop | vb6824 (ring), websocket_client, led |
| `main/websocket_client.c` | `ws_connected` | event handler, send start, stop, audio, play received audio | esp_websocket_client, vb6824, led |
| `esp_websocket_client` (vendored) | `state`, `lock`, status bits, ping times | client task: connect, read, ping, abort, reconnect, close; send path run by the callers' tasks | events to websocket_client |
| `main/mqtt_handler.c` | token, configuration, flags, `state` | MQTT events, `updatetoken`, `updateconfig`, `audioplay`, log-in | button_handler reads the token; main's callback |
| `main/wifi_manager.c` | `wifi_connected` | WiFi events: connect, reconnect, start MQTT | mqtt_handler, led |
| `main/led.c` | mutex, system state, animation, pins | set system state, start and stop an animation, animation task | called from six tasks |
| `components/vb6824/vb6824.c` | parser's bytes, rx and tx ring, enable flags | UART task, frame parser, frame handler, send task, audio read and write | UART driver, audio_session, websocket_client |
| `main/main.c` | none | boot order, MQTT callback | all |
| `main/session_manager.c` | session id | drawn once at boot | a constant of every message |
| `main/opus_wapper.c`, `components/opus` | codec | encode, decode | numeric code |

Tasks: `button_task`, `audio_read_task`, the WebSocket client task, the MQTT
client task, the WiFi event task, `led_animation_task`, `__uart_task`,
`__send_task`. What they share: `is_recording` (button to reader), `auth_token`
(MQTT to button), `ws_connected` and the client under its lock (WebSocket task
and both senders), the receive ring (UART task to reader), the playback ring
(WebSocket task to `__send_task`), the LED (everyone).

### What is hard, and what each part must get right

* Recording. Three tasks and a link that can fail between any two steps. Audio
  must stay in order and must not go on after a release; a recording the server
  was told of must be ended; the recording must end when the button is let go.
  (`VoiceSession`, `StatusLed`)
* Link. The client task and the senders abort and read the same state, partly
  without the lock. The task must go on reconnecting, must notice a silent peer,
  and what the application is told (`ws_connected`) must follow. (`WsClient`,
  `WsLink`)
* LED driver. Calls from several tasks, an animation task, one mutex, waits that
  time out. Colours must not mix, the LED must show the state that was set, no
  call may hang. (`Led`)
* LED states. Six tasks report what each of them knows, after the fact. A state
  must not stay when what it stands for is over, and an error must clear.
  (`StatusLed`)
* Serial stream. Reads cut frames anywhere, bytes get lost or altered. The
  parser must keep in step, and after a fault must not throw good frames away.
  (`FrameParser`)
* Log-in. WiFi, the MQTT client and the server fail independently, and two tasks
  write what the others read. There must be one client, what was lost with a
  connection must be asked for again, and WiFi must come back. (`MqttSetup`)
* Playback. The WebSocket task waits for room in the playback ring with the lock
  in its hands that every sender needs. It must not wait for ever, the room it
  waits for must not cost the reader more than a frame's time, and sound must come
  out whole and at its speed. (`Playback`)

## The modules

    WsLink              what the application may assume of the link   (abstract)
      ^ implemented by    ^ extended by           ^ extended by
    WsClient            VoiceSession            StatusLed
      task, senders,      button, reader,         every task that reports
      lock, server        MQTT token, ring        to the LED

    Playback        the client task as a writer of the playback ring,
                    __send_task, the senders that want the lock
    Led             callers, animation task, mutex
    FrameParser     serial line, UART task, parser
    MqttSetup       WiFi events, MQTT client, log-in; delivers the token that
                    VoiceSession's TokenStored stores

    *_proofs        the TLAPS proofs of a module
    MC*             names and values for TLC

`VoiceSession` composes the three application tasks with the abstract link, and
`WsClient` is shown to implement that link, so that the state space of one is
not multiplied by that of the other. `StatusLed` composes all reporting tasks
with the same link. `Playback` looks into two things that `WsClient` takes for
one step, the handler of a DATA event and the wait for the lock.

**WsLink.** The link is `down`, `up`, `closing` or `dead`; `epoch` counts the
connections; `ws_connected` is the application's mirror. Six actions: connect,
error, drop, close by the server, end of the client.

**WsClient.** One action per critical section of `esp_websocket_client_task`
and of `esp_websocket_client_send_with_exact_opcode`, or per step outside of the
lock. Dispatching an event runs the application's handler in the dispatching
task, so its effect on `ws_connected` is part of the step. The server
(`PeerChanges`) may fall silent, close or reset at any time. Time is a choice: a
ping interval, pong timeout or reconnection delay is over or it is not.
Allocation failures, and the parts of the API that the firmware never calls, are
left out. A message longer than the client's buffer goes out in pieces under one
lock: a write is one step. A message from the server is received in one step
(`RecvData`) or in parts: `RecvBegins`, then `reading` until the rest has come or
no more of it comes (`RecvEnds`), or the read fails (`RecvBreaksOff`).
`esp_websocket_client_abort_connection` is called with the lock by its senders and
looks at `state`, closes the transport, which may block, and then writes
WAIT_TIMEOUT; the task ends without the lock. So a sender's abort is two steps
(`AbortCloses`, `AbortEnds`) and the end of the task is two (`TaskStops`,
`TaskEnds`), which interleave. The task's own aborts under the lock are one step,
since whoever else writes `state` needs the lock. `closed` is a
history: on which connection a Close frame was read last.

**VoiceSession.** One action per stretch of code between two points where
another task can be seen. `button_task`: sample, (two-second wait without a
token), start, check the mirror and the token, format the message, check the
client, send; the same for stop. `audio_read_task`: test `is_recording`, read the
ring (may block), check the mirror, check the client, send. The MQTT task stores
any token, an empty one too; only whether it is empty is kept, which is how its
first byte stands and what `strlen` looks at, not the text in the message. A full ring loses one frame for
a new one, because all captured frames have the same 40 bytes. `wire` is a
history of what the transport accepted, each message with the recording and the
value of `is_recording` at that time. The LED calls on these paths are not part
of this module: they do not change what is sent (each returns, `CallsReturn`);
they are `StatusLed`'s.

**Led.** `led_mutex` is not recursive and every wait for it is limited to
100 ms. Only the animation task keeps it that long, because it calls
`led_set_color` with the mutex in its hands; a caller's wait may run out once
that wait, which is as long, has ended since the caller's began (`overdue`).
`led_animation_task`'s own wait is left out: it tries again. BLINK and PULSE are
modelled, the only patterns `led_set_system_state` asks for.

**FrameParser.** The line's bytes, the driver's buffer and event queue,
`__uart_task` and the bytes the parser keeps. A byte may be altered and a FIFO
overflow may lose bytes. The overflow is handled in two steps, flush and queue
reset, between which bytes can arrive. Bytes are numbers and the sum is
computed; the parser is one action per way out of the search loop. Two facts
that shape it: `parse_len` is 0 where the shortcut of line 140 tests it, so the
shortcut is never taken; and when no header is found the loop moves one suffix
over the other, so that only the last byte remains. The copies inside `tmp_data`
overlap; they are modelled as the moves the target's `memcpy` makes.
The largest payload and what one read returns at most are constants (512 and
1024 in the code) so that small frames reach both limits. Lengths are 16 bits
wide: a header that announces so much that the frame's length wraps counts as
complete at once, and its sum is looked for far behind the bytes kept. What
stands there is not modelled, so whether it agrees is a choice
(`DeliverWrapped`); if it does, the frame handed over is shorter than
`FRAME_MIN_LIN`, and the handler, which swaps the bytes of length and command in
place and ends the payload with a zero, has changed what follows. `tmp_data` has
the size it has in the code, two of the longest frames. A read for which there is
no room behind what is kept (`Overrun`) ends the model: what the program does
then is undefined. The properties of the parser are about reads that fit, and
`ShortReadFits` and the run `frame_buffer` about those that do not.

**MqttSetup.** From power-on to the token. The event task runs
`wifi_event_handler` for the events of a FIFO that the WiFi driver fills; a
GOT_IP is handled in two steps, since `led_set_system_state` may block before
`mqtt_handler_start`. Of that function each call of the library is a step, with
the error path behind it: a client that exists already, `esp_mqtt_client_init`,
`esp_mqtt_client_register_event` and `esp_mqtt_client_start` may fail, the last
two after the handle was set; `created` counts the clients the library holds. From
the start of the client on there is no step in between: the event task outranks
the MQTT task and the ESP32-C2 has one core, so that the assignment of CONNECTING
at the end comes before the first event of the client it starts. The MQTT task's
handler of CONNECTED is one action per publish, because each may block and may find the
connection gone. Driver, library, broker and server are external: the driver
makes one attempt per `esp_wifi_connect`, the library retries for ever and starts
clean sessions, the server answers `login` with a token and `data_config` with a
configuration, and a broken connection loses what is under way. A write that
fails on a connection that goes on living (no memory) is left out. `udp_task_handle`
and `cmd_callback` are never set by this firmware; what depends on them is dead
code and not modelled. What these tasks show on the LED is `StatusLed`'s.

**Playback.** The client task locks, finds nothing to read, or reads a message
whole or part by part. For each DATA event the handler first shows PLAYING,
which may wait for `led_mutex`, so that chunks are played meanwhile; then the
message decodes to nothing or to samples, which `vb6824_audio_write` puts into
`g_tx_ringbuffer`, waiting for room (`portMAX_DELAY`) with `client->lock` held.
`__send_task` takes up to a chunk, never across the ring's end, sends it,
returns it (only then is the room free) and waits 10 ms. The reader and the
button want the lock in between. The codec is a choice: what a whole message
decodes to is a number of chunks (a 60 ms frame is six of 10 ms), what a part
decodes to, taken for a message, is anything that fits the ring. The ESP32-C2
has one core and the reader has priority 10, the client task and `button_task`
5: `MayLock` gives a free lock to the reader first. The model begins after
`vb6824_init`: `app_main` starts the client before it calls that, and the
network takes longer (a TCP connection and a WebSocket upgrade against a few
function calls). `cut` and `stalls` are histories.

**StatusLed.** Every call of `led_set_system_state` in the firmware except in a
boot that fails. A task changes what it knows and then reports it, in two steps:
`told[t]` is the report under way, and `Tell` the call.
`websocket_event_handler` runs in the task that dispatches the event, the
client's or a sender's, with `client->lock` held but for the ERROR of a failed
poll. A sender waits for the lock with `portMAX_DELAY` and writes with no time
limit: it takes the lock, and the write returns or never does, while
`button_task` samples nothing. Of the tasks' own work the module keeps what
decides on a report: `button_task`'s steps, `wifi_connected`, the MQTT state,
the link and the mirror.

## The runs

| Run | Question | Instance |
|---|---|---|
| `voice_session` | Order on the wire, how much old audio a recording begins with, one trailing frame, no announced recording left open | 2 connections, 2 recordings with 2 frames or 1 with 3, a token that is empty or not, ring of 1 |
| `ws_client` | Lock ownership, on which connection the client may end, refinement of `WsLink`, task and senders each in their part of it; a silent peer is noticed, every sender gets the lock, an aborted client tries again | 2 senders, 3 connections, fair |
| `playback` | Packets are full chunks, the reader waits for room in the ring no longer than a frame plays, writes and waits end | 6 DATA events, ring of 6 chunks of 2 units, frames of 1 and 2 chunks, parts of 1 and 4 units, fair |
| `status_led` | Button states and PLAYING do not outlast what they stand for; a lasting release ends the recording and ERROR clears, unless a write never returns | 2 connections, any number of presses and of losses of WiFi and MQTT, fair |
| `led` | Colours whole, an undisturbed call shows its state, every call returns | 2 callers, 3 states (blink, solid, pulse), fair |
| `mqtt_setup` | One client, its state, WiFi comes back, token and configuration arrive | 2 breaks, 2 failed starts, any number of losses of WiFi, fair |
| `frame_parser` | In step without faults, no whole frame lost after one, which reads have room in `tmp_data` | 3 frames in 2 orders, or one whose payload is a header with a wrapping length and one more; payloads of up to 4 bytes, 1 fault, queue of 2, reads of up to 20 bytes into a `tmp_data` of 22 |

The remaining runs each show one property violated, which the documentation or
the code's own sizes state and the code does not keep:

| Run | Documentation | What TLC shows |
|---|---|---|
| `ws_client_end` | websocket_client.h 61: true if connected, false otherwise | the client has ended after the server's close; `ws_connected` stays true |
| `frame_buffer` | vb6824.c 138 and 225: the sizes of `tmp_data` and of `temp_buf` | with part of a frame kept, a full read is copied past the end of `tmp_data` |
| `playback_split` | README 148-149: a length header and Opus audio per message; esp_websocket_client.h 36: "possibly multiple portions of the packet" | a portion is decoded and played as a message of its own |
| `led_threads` | README 172: thread-safe using mutex protection | two calls interleave; the LED is set up for another state than the one reported |
| `led_animation` | README 102: yellow, blink | the colour of a running animation is never lit: the task waits for its own mutex |

Further disagreements were met while modelling and need no run to be seen:

* README 120-121 says press to start recording, release to stop. The VB6824's
  input is enabled all the time, so `g_rx_ringbuffer` is full before the press and
  nothing empties it: a recording begins with audio from before.
  `StaleAudioBounded` says how much.
* README 107 calls READY "Ready to record", and 118-119 puts the authentication
  before it. main.c 17 shows READY as soon as MQTT is connected and
  button_handler.c 29 after the two seconds of AUTH_WAITING, with or without a
  token.
* CLOSE_FRAME_SENT_BIT is cleared only when the client task starts. A sender whose
  write fails between the echo of a Close frame and the task's next look at the
  state aborts the connection; the task reconnects with the bit still set. There no
  ping is sent (line 1046 of the client; esp_websocket_client.h 122 promises an
  abort when no PONGs are received), and the next Close frame is not echoed (line
  1091; the comment in 1090 says that it is). `SilenceNoticed` therefore speaks of
  clients that have sent no Close frame; that the client still ends on no
  connection but the one that is closed is `EndsOnlyOnClose`.
* A sender's abort that began before the task ended writes WAIT_TIMEOUT after it
  (line 240 against 1130-1144), and nobody is left to reconnect
  (esp_websocket_client.h 132). `Reconnects` therefore allows a task that has ended.
* websocket_client.c 176-177 refuses a start message without a token, but the
  argument is `mqtt_ctx.auth_token` itself, which `snprintf` reads again in line
  182, and mqtt_handler.c 281-282 stores any string: a start message can go out with
  an empty token.

### Bounds, and why they are enough

* Two recordings are needed for anything that leaks from one into the next, two
  connections for what leaks over a reconnection, and in `WsClient` a third for
  a bit that survives a reconnection and one more abort.
* A ring of one frame is full at once. With two frames the order can go wrong
  and a recording can begin with as much old audio as the bound allows, the ring
  and the reader's frame; a third makes that bound one that could be broken. The
  constraint `MCBound` leaves out the states with both a third frame and a
  second recording, and those with an empty token in a second recording.
* `Playback`: the ring has three frames of two chunks, as the firmware's has
  three of six; a chunk is two units, so that a part can be shorter than one.
  Six events fill the ring, go round its end and leave a write waiting.
* `StatusLed`: two connections; everything else is unbounded.
* `MqttSetup`: two breaks and two failed starts, so that each can be followed by
  another of its kind; losses of WiFi are not bounded, since the driver waits
  for the handler and its FIFO stays short (proved).
* Two senders are what the firmware has. Two callers of the LED already produce
  every overlap of a pair; the three requested states are one of each kind
  (blink, solid, pulse).
* In `FrameParser` the first frame can be spoilt, the second stands in the same
  read as its remains, and a third follows. The payloads are none at all (the
  frame of exactly `FRAME_MIN_LIN` bytes), one byte, the bytes a frame begins
  with, and a header whose length wraps. A read may return nearly as much as
  `tmp_data` holds (1024 of 1038 bytes in the code), so that what is kept
  decides whether it has room. Altered bytes become 0, 3 and 85, which are a
  length that is too short, one that is possible and one that is not.
* Deadlock is checked except in `ws_client` and its violation run, where
  the client really ends, and in `frame_parser` and `frame_buffer`, where the
  line runs dry.

The proofs do away with these bounds for the properties they cover, which are all
the invariants of the runs. For the properties listed under "only model-checked"
the instance is all there is.

### Fairness

* `WsClient`: the task runs, a write and a sender's abort return; the lock is a
  FreeRTOS mutex whose waiters are served, hence strong fairness of taking it; time
  passes, hence strong fairness of a ping that stays due, of the pong deadline, and
  of the end of the reconnection delay. Nobody has to send. That a write returns is
  an assumption: it is made with no time limit.
* `Playback`: client task, `__send_task`, boot and waiting senders are scheduled,
  and a message that has begun is completed or no more of it comes and the read
  ends. The last, and that a write returns, are assumptions about network and
  server. The reader needs no strong fairness: its priority gives it the lock.
* `StatusLed`: a report under way is made, an abort that follows an error is made,
  `button_task` and the event task are scheduled, and whoever waits for the lock
  gets it when it is given back again and again. Nothing is assumed of the user, the
  networks and the servers: that the three connections last is a premise of
  `ErrorClears`, that the button stays released one of `RecordingEnds`, and both
  allow that a write never returns (`WriteBlocked`).
* `Led`: a call that has begun goes on, by the mutex or by its timeout, and the
  animation task is scheduled. Nobody has to call.
* `MqttSetup`: the two tasks are scheduled, the driver's attempts end, messages
  are handled in the order of their arrival, and the server answers. The last is
  what a log-in rests on and nothing in the repository can give; that the access
  point stays, and that a client has once been started, are premises of the
  properties themselves.

## The proofs

All theorems hold for every value of the constants that satisfies the named
assumptions: bounds are naturals, ring capacity positive, names distinct. An
unbounded model is the one where the bounds are arbitrary.

**VoiceSession_proofs.** `TypeCorrect`. The strengthening says that a connection
that exists has a number. `AudioOrderCorrect`: frames move from
ring to reader to wire, each stage holding only frames younger than the stages
after it (`OrderInv`); this is where a reconnection in the middle of a send, and
a ring that drops its oldest, cannot hurt. `TrailingFrameCorrect`: once a frame
went out after the latest recording, the reader is back at its test and cannot
pass it before the next one (`TrailInv`, with `PastInv`: what messages remember
is not newer than the present). `NoOrphanCorrect`: while the connection that
took a start message is healthy, its recording is on, its stop is on the way, or
its stop is there (`OrphanInv`).

**StaleAudio_proofs.** `StaleAudioCorrect` counts without following the count
through the steps: what a recording has sent of older audio, together with what
ring and reader still hold of it, is a pool that is as large as ring and reader
at the press and only shrinks afterwards (`PoolAtPress`, `PoolShrinks`). With
`FramesInOrder` no frame is sent twice, so the messages are as many as the
frames.

**MqttSetup_proofs.** `SetupTypeCorrect`, `OneClientCorrect` and `StateCorrect`,
for any number of breaks and failed starts. `EventsInv`: what the FIFO holds
follows from the driver's state. `ClientInv`: what the library holds, the handle
and the connection at each step of `mqtt_handler_start`, each way out of it
included. `StateInv`: at each point of the MQTT task's handler, what
connection and state are; the event task writes the state only where there is no
client.

**WsClient_proofs.** The invariant `IInv` relates the task's program counter,
which knows what the task has decided, to the state others change under it; for
instance, at the end of the close handshake the state is CLOSING or, after a
sender's abort, WAIT_TIMEOUT, and after the end of the task UNKNOW or, again by
a late abort, WAIT_TIMEOUT. From it follow `ClientTypeCorrect` (who holds the
lock), `EndsCorrect` (the client ends only on the connection whose Close frame
it read last, whatever an earlier one left in the bits), and `LinkImplemented`:
initial states map to initial states and every step of the task, of any number
of senders and of the server maps to a step of `WsLink` or a stutter. The
mapping counts a connection as up once its CONNECTED event has been handled, and
the client as dead once its task has left the loop, so that a late abort is no
step of the link. `RolesCorrect` says more: the steps of the task are those of
`TaskNext`, the steps of a sender those of `SenderNext`, which is how
`VoiceSession` and `StatusLed` divide the link between their tasks. It needs to
know that the state is CONNECTED while a message is read, and CONNECTED or,
after a sender's abort, WAIT_TIMEOUT while the task polls.

**Playback_proofs.** `PlaybackTypeCorrect`, `FullChunksCorrect` and
`StallCorrect`, for every length of ring, chunk and frame; what the reader waits
for besides room in the ring, `led_mutex` and the network, is not counted. As
long as nothing was cut, everything in the ring is a multiple of a chunk, the
place where reading goes on too, so that a chunk never crosses the end. For the
stall: while the reader waits and the client task waits for room, the chunks
played since are as many as the room that has come free, which is less than the
frame that waits for it; the lock goes to the reader next, which begins anew.

**StatusLed_proofs.** `StatusTypeCorrect`, `ButtonStatesCorrect` and
`PlayingCorrect`, for any number of connections. The invariant says of each task
what it can be about to report at each of its steps, and that the client task
reports PLAYING only with `client->lock` held, so that no sender can be told in
between that the connection is gone; the one event dispatched without the lock,
that of a failed poll, comes from the client task itself (`PlayingTold`).

**Led_proofs.** `LedTypeCorrect` (who holds the mutex) and `PinsCorrect`: in the
middle of a call the pins already written have its colour, otherwise they have
the colour last completed. The animation task never gets to write.
`QuietCorrect`: as long as no call met another or timed out, only one caller is
under way, it sets the state that is reported, and what it has done so far is what
that state asks for (`UndisturbedInv`); its last pin completes the colour by
`PinsInv`.

**FrameParser_proofs.** `ParserTypeCorrect`, `InStepCorrect`, `NoneWaitsCorrect`,
`WholeFrameCorrect` and `ShortReadCorrect`, for any streams, any number of faults
and any bytes they put on the line, provided that no payload is longer than
`MaxPayload` and that `tmp_data` is no longer than 65536 bytes (1038 in the code).
They hold up to the first read that overruns `tmp_data`, and `ShortReadCorrect`
says which can: less than the longest frame is ever kept, so that a read of at most
that and one byte has room.
A stream is a fold over its frames, which needs induction. The library's induction
theorems take an operator and cannot be used, so the module states induction with a
set (`SetInduction`, from the least number outside it) and shows once that a
recursive function over 0..n has the values it is defined by (`Recursion`). From
these come the type of a sum (`SumIsByte`) and what `FlattenSeq` does with
one more sequence and with a stretch cut off (`FlattenAppend`, `FlattenSplit`).

`StepInv`, on a line without faults: the frames delivered are the first that were
sent, and bytes kept, in the driver and on the line together are the bytes of the
rest. So the parser always looks at the beginning of a frame that is due
(`DueHit`), its search stops at the first byte, with that frame or a part of it,
and no header in a payload is ever tried. `WaitInv`: a part kept while the task
waits is shorter than the frame due, a frame without payload excepted.

`WholeFrameSurvives` is inductive with the types alone, but each way out of the
search loop has to be looked at. What a call drops lies in front of a hit; a
genuine frame standing there would itself be the first hit (`FrameIsHit`), and one
that overlaps a genuine frame delivered contradicts `FramesApart` (`NoOverlap`).
A wrapped header delivers fewer than `FRAME_MIN_LIN` bytes, which is no genuine
frame, so that the premise of the property fails.

**Only model-checked.** Liveness (`RecordingEnds`, `ErrorClears`,
`SilenceNoticed`, `SendersServed`, `Reconnects`, `WriteEnds`, `ReaderServed`,
`CallsReturn`, `WifiComesBack`, `LogInCompletes`), which is out of
this prover's reach. Every invariant and every action property of a run, and the
refinement of `WsLink`, are proved.

## Not modelled

Most of the repository's lines are two third-party libraries: `components/opus`,
the codec's numeric code, which computes data and has no control between tasks,
and `managed_components/espressif__mdns`, a service that this firmware never
starts. Modelling them would say nothing about this program, so the share of lines
that the definitions stand for stays small; of the firmware's own files under
`main/` and of `vb6824.c` most is covered.

Of these the following is left out: the voice chip's firmware update (switched
off in the configuration, and partly a prebuilt library) and its wake-up word and
control commands; disabling the output, the volume and the timer in place of
`__send_task` (not used); the session id (a constant); memory exhaustion and task
creation failures, except where a start of the MQTT client fails; a boot that
fails; the UDP notification and the MQTT command callback (nobody registers);
`websocket_client_stop` and the LED patterns nobody asks for.

Five hazards stay without a property, listed with the reason in `PROJECT.json`:
what the server expects (audio before its start message, audio of a recording
that was never announced, audio on a new connection without a start message) is
not stated anywhere in the repository, what READY promises is what `main.c`
makes of it, and that an empty token stored between the test and the copy ends up
in a start message is told under the disagreements.

## Plan

Done, in the order of importance: `WsLink`, `VoiceSession`, `WsClient`, `Led`,
`FrameParser`, `MqttSetup`, `Playback`, `StatusLed`, and the proofs above. Next:

1. The receive ring as a module of its own between `FrameParser` and
   `VoiceSession`, with the abstract promise "a window of the frames delivered,
   in order" that both use.
