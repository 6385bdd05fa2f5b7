------------------------------ MODULE WsClient ------------------------------
(***************************************************************************)
(* esp_websocket_client as this firmware configures and uses it: automatic *)
(* reconnection, pings, no call of stop or close.  One client task runs    *)
(* the connection; application tasks (Senders) write on it.  They share    *)
(* client->state, the transport and the status bits under client->lock,    *)
(* but state, the bits and ws_connected are also read, and by the task's   *)
(* last steps written, without the lock.                                   *)
(*                                                                         *)
(* Each action is one critical section, or one step outside of it.         *)
(* Dispatching an event runs websocket_event_handler in the dispatching    *)
(* task; its effect here is the mirror ws_connected.                       *)
(***************************************************************************)
EXTENDS Naturals

CONSTANTS
    Senders,     \* application tasks that send
    MaxEpoch     \* bound: connections established in one behaviour

ASSUME ClientAssumption ==
    /\ MaxEpoch \in Nat
    /\ "free" \notin Senders /\ "task" \notin Senders

VARIABLES
    state,          \* client->state
    lock,           \* client->lock: "free", "task" or a sender
    tpc,            \* where the client task is
    read_select,    \* what the last poll found: "none", "data" or "error"
    close_sent,     \* CLOSE_FRAME_SENT_BIT
    wait_for_pong,  \* wait_for_pong_resp
    spc,            \* where each sender is
    ws_connected,   \* the application's mirror
    peer,           \* what the server does with the connection
    epoch,          \* history: connections established
    closed          \* history: the connection whose Close frame was read last

taskVars == <<tpc, read_select>>
vars == <<state, lock, taskVars, close_sent, wait_for_pong, spc,
          ws_connected, peer, epoch, closed>>

States == {"INIT", "CONNECTED", "WAIT_TIMEOUT", "CLOSING", "UNKNOW"}
TaskPcs == {"top", "locked", "connected", "reading", "abort", "unlocked",
            "poll", "poll_error", "poll_abort", "tcp_close", "ending", "exited"}
SenderPcs == {"idle", "checked", "lock", "write", "abort", "closed"}

\* "live" answers pings; "silent" sends nothing, not even a TCP reset;
\* "close" has sent a Close frame the client has not read; "gone" has reset
\* the TCP connection; "none" when there is no connection.
Peers == {"none", "live", "silent", "close", "gone"}

\* The types, and who holds the lock: exactly the task that is in a critical
\* section of its own.
TypeOK ==
    /\ state \in States
    /\ lock \in {"free", "task"} \cup Senders
    /\ tpc \in TaskPcs
    /\ read_select \in {"none", "data", "error"}
    /\ close_sent \in BOOLEAN
    /\ wait_for_pong \in BOOLEAN
    /\ spc \in [Senders -> SenderPcs]
    /\ ws_connected \in BOOLEAN
    /\ peer \in Peers
    /\ {epoch, closed} \subseteq 0..MaxEpoch
    /\ (lock = "task") <=> (tpc \in {"locked", "connected", "reading", "abort"})
    /\ \A s \in Senders : (lock = s) <=> (spc[s] \in {"write", "abort", "closed"})

\* esp_websocket_client_start has created the task, which has set INIT.
Init ==
    /\ state = "INIT"
    /\ lock = "free"
    /\ tpc = "top"
    /\ read_select = "none"
    /\ close_sent = FALSE
    /\ wait_for_pong = FALSE
    /\ spc = [s \in Senders |-> "idle"]
    /\ ws_connected = FALSE
    /\ peer = "none"
    /\ epoch = 0 /\ closed = 0

-----------------------------------------------------------------------------
(* Shared pieces *)

\* esp_websocket_client_error: event ERROR.
ErrorEvent == ws_connected' = FALSE

\* esp_websocket_client_abort_connection in the client task, which holds the
\* lock: refused on a client that has ended; otherwise the transport is closed
\* and DISCONNECTED dispatched. Only the task itself and the holder of the lock
\* write state, so nothing comes between the test and the write. It is not so
\* for a sender: see AbortCloses.
AbortConnection ==
    IF state = "UNKNOW"
    THEN UNCHANGED <<state, peer, ws_connected>>
    ELSE /\ state' = "WAIT_TIMEOUT"
         /\ peer' = "none"
         /\ ws_connected' = FALSE

-----------------------------------------------------------------------------
(* The client task *)

TaskLocks ==
    /\ tpc = "top" /\ lock = "free"
    /\ lock' = "task"
    /\ tpc' = "locked"
    /\ UNCHANGED <<state, read_select, close_sent, wait_for_pong, spc,
                   ws_connected, peer, epoch, closed>>

Unlock == lock' = "free" /\ tpc' = "unlocked"

\* Mutant of ConnectOk: the event is dispatched before the state is set.
MutEventFirst ==
    /\ tpc = "locked" /\ state = "INIT"
    /\ epoch < MaxEpoch
    /\ state' = "CONNECTED"
    /\ wait_for_pong' = FALSE
    /\ peer' = "live"
    /\ epoch' = epoch + 1
    /\ ws_connected' = TRUE
    /\ tpc' = "connected"
    /\ UNCHANGED <<lock, read_select, close_sent, spc, closed>>

\* case INIT: the transport connects, and CONNECTED is dispatched next.
ConnectOk ==
    /\ tpc = "locked" /\ state = "INIT"
    /\ epoch < MaxEpoch                \* bound of the model
    /\ state' = "CONNECTED"
    /\ wait_for_pong' = FALSE
    /\ peer' = "live"
    /\ epoch' = epoch + 1
    /\ tpc' = "connected"
    /\ UNCHANGED <<lock, read_select, close_sent, spc, ws_connected, closed>>

ConnectedEvent ==
    /\ tpc = "connected"
    /\ ws_connected' = TRUE
    /\ Unlock
    /\ UNCHANGED <<state, read_select, close_sent, wait_for_pong, spc, peer,
                   epoch, closed>>

\* case INIT: it does not connect.
ConnectFails ==
    /\ tpc = "locked" /\ state = "INIT"
    /\ ErrorEvent
    /\ tpc' = "abort"
    /\ UNCHANGED <<state, lock, read_select, close_sent, wait_for_pong, spc,
                   peer, epoch, closed>>

\* Every abort the task makes under the lock it already holds.
TaskAborts ==
    /\ tpc = "abort"
    /\ AbortConnection
    /\ Unlock
    /\ UNCHANGED <<read_select, close_sent, wait_for_pong, spc, epoch, closed>>

\* case CONNECTED, before reading: no Close frame sent, so pings are due.
PongTimeout ==
    /\ tpc = "locked" /\ state = "CONNECTED"
    /\ ~close_sent /\ wait_for_pong
    /\ ErrorEvent
    /\ tpc' = "abort"
    /\ UNCHANGED <<state, lock, read_select, close_sent, wait_for_pong, spc,
                   peer, epoch, closed>>

\* Mutant of PingIfDue: the ping goes out, but no answer is waited for.
MutPingForgotten == {wait_for_pong}

\* wait_for_pong once a ping that is due has been sent: pings are sent only
\* while no Close frame has been.
PingIfDue == IF close_sent THEN {wait_for_pong} ELSE {wait_for_pong, TRUE}

\* The last poll found nothing: perhaps a ping, no read.
NothingToRead ==
    /\ tpc = "locked" /\ state = "CONNECTED"
    /\ read_select = "none"
    /\ wait_for_pong' \in PingIfDue
    /\ Unlock
    /\ UNCHANGED <<state, read_select, close_sent, spc, ws_connected, peer,
                   epoch, closed>>

\* esp_websocket_client_recv: data, or the PONG that was waited for. A read
\* that times out or a stale poll result returns without data.
RecvData ==
    /\ tpc = "locked" /\ state = "CONNECTED"
    /\ read_select # "none"
    /\ peer \in {"live", "silent", "close"}
    /\ wait_for_pong' \in IF peer = "live" THEN PingIfDue \cup {FALSE}
                                           ELSE PingIfDue
    /\ Unlock
    /\ UNCHANGED <<state, read_select, close_sent, spc, ws_connected, peer,
                   epoch, closed>>

\* The first part of a message is read and dispatched. Until the message is
\* complete the task reads on, with the lock.
RecvBegins ==
    /\ tpc = "locked" /\ state = "CONNECTED"
    /\ read_select # "none" /\ peer # "none"
    /\ wait_for_pong' \in PingIfDue
    /\ tpc' = "reading"
    /\ UNCHANGED <<state, lock, read_select, close_sent, spc, ws_connected,
                   peer, epoch, closed>>

\* The message is complete, or no more of it comes: a part that does not come is
\* dispatched as an empty one, and the read after it, which finds no frame
\* either, ends the loop without an error.
RecvEnds ==
    /\ tpc = "reading"
    /\ Unlock
    /\ UNCHANGED <<state, read_select, close_sent, wait_for_pong, spc,
                   ws_connected, peer, epoch, closed>>

RecvBreaksOff ==
    /\ tpc = "reading"
    /\ ErrorEvent
    /\ tpc' = "abort"
    /\ UNCHANGED <<state, lock, read_select, close_sent, wait_for_pong, spc,
                   peer, epoch, closed>>

RecvClose ==
    /\ tpc = "locked" /\ state = "CONNECTED"
    /\ read_select # "none" /\ peer = "close"
    /\ state' = "CLOSING"
    /\ closed' = epoch
    /\ wait_for_pong' \in PingIfDue
    /\ Unlock
    /\ UNCHANGED <<read_select, close_sent, spc, ws_connected, peer, epoch>>

RecvFails ==
    /\ tpc = "locked" /\ state = "CONNECTED"
    /\ read_select # "none"
    /\ wait_for_pong' \in PingIfDue
    /\ ErrorEvent
    /\ tpc' = "abort"
    /\ UNCHANGED <<state, lock, read_select, close_sent, spc, peer, epoch, closed>>

\* Mutant of WaitTimeout: the deadline moves on with every look at it.
MutWaitRestarts ==
    /\ tpc = "locked" /\ state = "WAIT_TIMEOUT"
    /\ state' = "WAIT_TIMEOUT"
    /\ Unlock
    /\ UNCHANGED <<read_select, close_sent, wait_for_pong, spc, ws_connected,
                   peer, epoch, closed>>

\* case WAIT_TIMEOUT: the wait is over, or it goes on.
WaitTimeout ==
    /\ tpc = "locked" /\ state = "WAIT_TIMEOUT"
    /\ state' \in {"INIT", "WAIT_TIMEOUT"}
    /\ Unlock
    /\ UNCHANGED <<read_select, close_sent, wait_for_pong, spc, ws_connected,
                   peer, epoch, closed>>

\* case CLOSING: the Close frame is echoed, unless the bit says that one was
\* sent. Nothing clears the bit when another connection is made.
EchoClose ==
    /\ tpc = "locked" /\ state = "CLOSING"
    /\ close_sent' = TRUE
    /\ Unlock
    /\ UNCHANGED <<state, read_select, wait_for_pong, spc, ws_connected, peer,
                   epoch, closed>>

\* Mutant of AfterUnlock: a connection that is closing is polled once more.
MutPollClosing ==
    /\ tpc = "unlocked"
    /\ tpc' = CASE state = "CONNECTED" \/ (state = "CLOSING" /\ ~close_sent) -> "poll"
                [] state = "CLOSING" /\ close_sent -> "tcp_close"
                [] OTHER                            -> "top"
    /\ UNCHANGED <<state, lock, read_select, close_sent, wait_for_pong, spc,
                   ws_connected, peer, epoch, closed>>

\* Mutant of AfterUnlock: a connection on which a Close frame was sent is not
\* polled but waited for to close, whatever state says.
MutEndsByBit ==
    /\ tpc = "unlocked"
    /\ tpc' = CASE close_sent /\ state \in {"CONNECTED", "CLOSING"} -> "tcp_close"
                [] state = "CONNECTED" /\ ~close_sent               -> "poll"
                [] OTHER                                            -> "top"
    /\ UNCHANGED <<state, lock, read_select, close_sent, wait_for_pong, spc,
                   ws_connected, peer, epoch, closed>>

\* After the lock is given back the task reads state again.
AfterUnlock ==
    /\ tpc = "unlocked"
    /\ tpc' = CASE state = "CONNECTED"                -> "poll"
                [] state = "CLOSING" /\ close_sent    -> "tcp_close"
                [] OTHER                              -> "top"
    /\ UNCHANGED <<state, lock, read_select, close_sent, wait_for_pong, spc,
                   ws_connected, peer, epoch, closed>>

\* esp_transport_poll_read, without the lock.
Poll ==
    /\ tpc = "poll"
    /\ \/ peer = "live" /\ read_select' \in {"none", "data"} /\ tpc' = "top"
       \/ peer = "silent" /\ read_select' = "none" /\ tpc' = "top"
       \/ peer = "close" /\ read_select' = "data" /\ tpc' = "top"
       \/ peer = "gone" /\ read_select' = "data" /\ tpc' = "top"
       \/ /\ peer \in {"gone", "none"}
          /\ read_select' = "error" /\ tpc' = "poll_error"
    /\ UNCHANGED <<state, lock, close_sent, wait_for_pong, spc, ws_connected,
                   peer, epoch, closed>>

\* The poll failed: ERROR without the lock, then the lock, then the abort.
PollError ==
    /\ tpc = "poll_error"
    /\ ErrorEvent
    /\ tpc' = "poll_abort"
    /\ UNCHANGED <<state, lock, read_select, close_sent, wait_for_pong, spc,
                   peer, epoch, closed>>

PollAborts ==
    /\ tpc = "poll_abort" /\ lock = "free"
    /\ AbortConnection
    /\ tpc' = "top"
    /\ UNCHANGED <<lock, read_select, close_sent, wait_for_pong, spc, epoch, closed>>

\* The connection was closed by the server, or not within a second: run is
\* cleared and state set to UNKNOW, without the lock, which a sender may hold.
\* CLOSED is dispatched, which websocket_event_handler ignores.
TaskStops ==
    /\ tpc = "tcp_close"
    /\ state' = "UNKNOW"
    /\ tpc' = "ending"
    /\ UNCHANGED <<lock, read_select, close_sent, wait_for_pong, spc,
                   ws_connected, peer, epoch, closed>>

\* FINISH is dispatched, ignored too, the transport closed and state set to
\* UNKNOW once more, still without the lock; the task deletes itself.
TaskEnds ==
    /\ tpc = "ending"
    /\ state' = "UNKNOW"
    /\ peer' = "none"
    /\ tpc' = "exited"
    /\ UNCHANGED <<lock, read_select, close_sent, wait_for_pong, spc,
                   ws_connected, epoch, closed>>

Task ==
    \/ TaskLocks \/ ConnectOk \/ ConnectedEvent \/ ConnectFails \/ TaskAborts
    \/ PongTimeout \/ NothingToRead
    \/ RecvData \/ RecvClose \/ RecvFails
    \/ RecvBegins \/ RecvEnds \/ RecvBreaksOff
    \/ WaitTimeout \/ EchoClose \/ AfterUnlock
    \/ Poll \/ PollError \/ PollAborts \/ TaskStops \/ TaskEnds

-----------------------------------------------------------------------------
(* An application task that sends *)

\* websocket_send_*: the mirror.
MirrorCheck(s) ==
    /\ spc[s] = "idle" /\ ws_connected
    /\ spc' = [spc EXCEPT ![s] = "checked"]
    /\ UNCHANGED <<state, lock, taskVars, close_sent, wait_for_pong,
                   ws_connected, peer, epoch, closed>>

\* esp_websocket_client_is_connected, still without the lock.
ClientCheck(s) ==
    /\ spc[s] = "checked"
    /\ spc' = [spc EXCEPT ![s] = IF state = "CONNECTED" THEN "lock" ELSE "idle"]
    /\ UNCHANGED <<state, lock, taskVars, close_sent, wait_for_pong,
                   ws_connected, peer, epoch, closed>>

\* Mutant of SenderLocks: the write does not wait for the lock.
MutNoLock(s) ==
    /\ spc[s] = "lock"
    /\ lock' = s
    /\ spc' = [spc EXCEPT ![s] = "write"]
    /\ UNCHANGED <<state, taskVars, close_sent, wait_for_pong, ws_connected,
                   peer, epoch, closed>>

SenderLocks(s) ==
    /\ spc[s] = "lock" /\ lock = "free"
    /\ lock' = s
    /\ spc' = [spc EXCEPT ![s] = "write"]
    /\ UNCHANGED <<state, taskVars, close_sent, wait_for_pong, ws_connected,
                   peer, epoch, closed>>

\* The write succeeds. To a silent peer it may: the bytes stay in the buffers.
WriteOk(s) ==
    /\ spc[s] = "write"
    /\ peer # "none"
    /\ lock' = "free"
    /\ spc' = [spc EXCEPT ![s] = "idle"]
    /\ UNCHANGED <<state, taskVars, close_sent, wait_for_pong, ws_connected,
                   peer, epoch, closed>>

\* The write fails: at once, or when TCP gives up on the peer.
WriteFails(s) ==
    /\ spc[s] = "write"
    /\ ErrorEvent
    /\ spc' = [spc EXCEPT ![s] = "abort"]
    /\ UNCHANGED <<state, lock, taskVars, close_sent, wait_for_pong, peer,
                   epoch, closed>>

\* abort_connection in a sender, first half: refused on a client that has
\* ended; otherwise the transport is closed, which may take its time.
AbortCloses(s) ==
    /\ spc[s] = "abort"
    /\ \/ /\ state = "UNKNOW"
          /\ lock' = "free"
          /\ spc' = [spc EXCEPT ![s] = "idle"]
          /\ UNCHANGED peer
       \/ /\ state # "UNKNOW"
          /\ peer' = "none"
          /\ spc' = [spc EXCEPT ![s] = "closed"]
          /\ UNCHANGED lock
    /\ UNCHANGED <<state, taskVars, close_sent, wait_for_pong, ws_connected,
                   epoch, closed>>

\* Mutant of AbortEnds: the error path forgets the lock.
MutAbortKeepsLock(s) ==
    /\ spc[s] = "closed"
    /\ state' = "WAIT_TIMEOUT"
    /\ ws_connected' = FALSE
    /\ spc' = [spc EXCEPT ![s] = "idle"]
    /\ UNCHANGED <<lock, taskVars, close_sent, wait_for_pong, peer, epoch,
                   closed>>

\* Second half: state is set, whatever the client task has made of it since the
\* first half, and DISCONNECTED dispatched.
AbortEnds(s) ==
    /\ spc[s] = "closed"
    /\ state' = "WAIT_TIMEOUT"
    /\ ws_connected' = FALSE
    /\ lock' = "free"
    /\ spc' = [spc EXCEPT ![s] = "idle"]
    /\ UNCHANGED <<taskVars, close_sent, wait_for_pong, peer, epoch, closed>>

Sender(s) ==
    \/ MirrorCheck(s) \/ ClientCheck(s) \/ SenderLocks(s)
    \/ WriteOk(s) \/ WriteFails(s)
    \/ AbortCloses(s) \/ AbortEnds(s)

-----------------------------------------------------------------------------
(* The server and the network *)

PeerChanges ==
    /\ \/ peer = "live" /\ peer' \in {"silent", "close", "gone"}
       \/ peer = "close" /\ peer' = "gone"
    /\ UNCHANGED <<state, lock, taskVars, close_sent, wait_for_pong, spc,
                   ws_connected, epoch, closed>>

Next ==
    \/ Task
    \/ \E s \in Senders : Sender(s)
    \/ PeerChanges

\* The tasks run, a write returns, and time passes: a read or a close times out,
\* and a task that keeps going round reaches its ping interval, and its pong
\* timeout when the peer is silent. The lock is a FreeRTOS mutex, so whoever
\* waits for it while it is given back again and again gets it. A task that has
\* passed its check goes on; nothing makes a task start to send.
Fairness ==
    /\ WF_vars(Task) /\ SF_vars(TaskLocks) /\ SF_vars(PollAborts)
    /\ SF_vars(NothingToRead /\ peer = "silent" /\ (close_sent \/ wait_for_pong'))
    /\ SF_vars(PongTimeout /\ peer = "silent")
    /\ SF_vars(WaitTimeout /\ state' = "INIT")
    /\ \A s \in Senders :
        /\ WF_vars(ClientCheck(s) \/ WriteOk(s) \/ WriteFails(s)
                      \/ AbortCloses(s) \/ AbortEnds(s))
        /\ SF_vars(SenderLocks(s))

Spec == Init /\ [][Next]_vars
FairSpec == Spec /\ Fairness

-----------------------------------------------------------------------------
(* Properties *)

\* The client as WsLink describes it. A connection counts as up once the
\* CONNECTED event has been handled, and the client as dead once its task has
\* left its loop, whatever a sender that is late writes to state then.
LinkState ==
    IF tpc \in {"ending", "exited"} THEN "dead"
    ELSE CASE state = "CONNECTED" /\ tpc # "connected" -> "up"
           [] state = "CLOSING"                        -> "closing"
           [] OTHER                                    -> "down"

LinkEpoch == IF tpc = "connected" THEN epoch - 1 ELSE epoch

Link == INSTANCE WsLink WITH link <- LinkState, epoch <- LinkEpoch

\* The task, the senders' aborts and the unlocked steps together behave as one
\* link that comes up, drops, closes and ends, with the mirror as WsLink
\* promises it: never true while the link is down.
ImplementsLink == Link!LinkSpec

\* Each side of client->lock keeps to its part of WsLink: only the client task
\* brings the link up, takes a Close frame or ends, and it posts ERROR only on a
\* link that is down or up, whatever a sender did since the task looked at the
\* state; a sender only reports its failure and drops the link.
LinkRoles ==
    [][ /\ Task => Link!TaskNext \/ UNCHANGED Link!linkVars
        /\ (\E s \in Senders : Sender(s))
               => Link!SenderNext \/ UNCHANGED Link!linkVars ]_vars

\* The client ends only on the connection the server closes: neither the bit a
\* Close frame of an earlier connection left behind, nor a sender's abort in
\* the middle of the handshake or of the task's last steps, ends it on another.
EndsOnlyOnClose ==
    tpc \in {"tcp_close", "ending", "exited"} => closed = epoch /\ epoch # 0

\* Pings at work: a peer that falls silent is noticed, between two messages or
\* in the middle of one, as long as no Close frame was ever sent.
SilenceNoticed ==
    (state = "CONNECTED" /\ peer = "silent" /\ ~close_sent) ~> peer # "silent"

\* A task that waits for client->lock (with portMAX_DELAY) gets it, however the
\* connection fails in between and whoever aborts it.
SendersServed == \A s \in Senders : spc[s] = "lock" ~> spc[s] = "write"

\* After an abort the client tries again, unless its task has ended.
Reconnects == state = "WAIT_TIMEOUT" ~> (state = "INIT" \/ tpc = "exited")

\* websocket_client.h: websocket_is_connected returns "true if connected,
\* false otherwise". Once the client has ended, it comes to say so.
EndIsReported == tpc = "exited" ~> ~ws_connected
=============================================================================
