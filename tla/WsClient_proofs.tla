--------------------------- MODULE WsClient_proofs ---------------------------
(***************************************************************************)
(* Proofs about WsClient, for every set of senders and every bound: the    *)
(* types with the ownership of the lock, that the client ends only on the  *)
(* connection the server closes, and that the detailed client implements   *)
(* WsLink, the link VoiceSession is built on.                              *)
(***************************************************************************)
EXTENDS WsClient, TLAPS

(***************************************************************************)
(* The inductive invariant relates the task's program counter, which knows *)
(* what the task has decided, to the state other tasks can change under    *)
(* it.                                                                     *)
(***************************************************************************)
IInv ==
    /\ TypeOK
    /\ tpc = "connected" => state = "CONNECTED"
    /\ state \in {"CONNECTED", "CLOSING"} => epoch # 0
    /\ state = "CLOSING" => closed = epoch
    /\ tpc = "tcp_close" => state \in {"CLOSING", "WAIT_TIMEOUT"}
    /\ EndsOnlyOnClose
    /\ state = "UNKNOW" => tpc \in {"ending", "exited"}
    /\ tpc \in {"ending", "exited"} => state \in {"UNKNOW", "WAIT_TIMEOUT"}
    /\ tpc = "reading" => state = "CONNECTED"
    /\ tpc \in {"poll", "poll_error"} => state \in {"CONNECTED", "WAIT_TIMEOUT"}

LEMMA InitInv == Init => IInv
<1> SUFFICES ASSUME Init PROVE IInv
  OBVIOUS
<1>1. \A s \in Senders : s # "free" /\ spc[s] = "idle"
  BY ClientAssumption DEF Init
<1>2. spc \in [Senders -> SenderPcs] /\ {epoch, closed} \subseteq 0..MaxEpoch
  BY ClientAssumption DEF Init, SenderPcs
<1>3. close_sent = FALSE /\ wait_for_pong = FALSE /\ ws_connected = FALSE
  BY DEF Init
<1>4. TypeOK
  BY <1>1, <1>2, <1>3 DEF Init, TypeOK, States, TaskPcs, Peers
<1>5. QED
  BY <1>4, <1>3 DEF Init, IInv, EndsOnlyOnClose

\* The steps of the client task keep the invariant.
LEMMA TaskInv == IInv /\ Task => IInv'
<1> SUFFICES ASSUME IInv, Task PROVE IInv'
  OBVIOUS
<1> USE ClientAssumption DEF IInv, TypeOK, EndsOnlyOnClose, States, TaskPcs, SenderPcs,
                             Peers
<1>1. CASE TaskLocks
  BY <1>1 DEF TaskLocks
<1>2. CASE ConnectOk
  <2>1. epoch' \in 0..MaxEpoch /\ epoch' # 0
    BY <1>2 DEF ConnectOk
  <2>2. wait_for_pong' = FALSE /\ UNCHANGED <<close_sent, ws_connected>>
    BY <1>2 DEF ConnectOk
  <2>3. TypeOK'
    BY <1>2, <2>1, <2>2 DEF ConnectOk
  <2>4. QED
    BY <1>2, <2>1, <2>2, <2>3 DEF ConnectOk
<1>3. CASE ConnectedEvent
  BY <1>3 DEF ConnectedEvent, Unlock
<1>4. CASE ConnectFails
  BY <1>4 DEF ConnectFails, ErrorEvent
<1>5. CASE TaskAborts
  BY <1>5 DEF TaskAborts, AbortConnection, Unlock
<1>6. CASE PongTimeout
  BY <1>6 DEF PongTimeout, ErrorEvent
<1>7. CASE NothingToRead
  BY <1>7 DEF NothingToRead, PingIfDue, Unlock
<1>8. CASE RecvData
  BY <1>8 DEF RecvData, PingIfDue, Unlock
<1>9. CASE RecvClose
  BY <1>9 DEF RecvClose, PingIfDue, Unlock
<1>10. CASE RecvFails
  BY <1>10 DEF RecvFails, PingIfDue, ErrorEvent
<1>11. CASE WaitTimeout
  BY <1>11 DEF WaitTimeout, Unlock
<1>12. CASE EchoClose
  BY <1>12 DEF EchoClose, Unlock
<1>13. CASE AfterUnlock
  BY <1>13 DEF AfterUnlock, taskVars
<1>14. CASE Poll
  BY <1>14 DEF Poll
<1>15. CASE PollError
  BY <1>15 DEF PollError, ErrorEvent
<1>16. CASE PollAborts
  BY <1>16 DEF PollAborts, AbortConnection
<1>17. CASE TaskEnds
  BY <1>17 DEF TaskEnds
<1>22. CASE TaskStops
  BY <1>22 DEF TaskStops
<1>18. CASE RecvBegins
  BY <1>18 DEF RecvBegins, PingIfDue
<1>19. CASE RecvEnds
  BY <1>19 DEF RecvEnds, Unlock
<1>20. CASE RecvBreaksOff
  BY <1>20 DEF RecvBreaksOff, ErrorEvent
<1>21. QED
  BY <1>1, <1>2, <1>3, <1>4, <1>5, <1>6, <1>7, <1>8, <1>9, <1>10, <1>11,
     <1>12, <1>13, <1>14, <1>15, <1>16, <1>17, <1>18, <1>19, <1>20, <1>22 DEF Task

\* The steps of a sender keep the invariant.
LEMMA SenderInv ==
  ASSUME IInv, NEW s \in Senders, Sender(s)
  PROVE  IInv'
<1> USE ClientAssumption DEF IInv, TypeOK, EndsOnlyOnClose, States, TaskPcs, SenderPcs,
                             Peers, taskVars
<1>1. CASE MirrorCheck(s)
  BY <1>1 DEF MirrorCheck
<1>2. CASE ClientCheck(s)
  BY <1>2 DEF ClientCheck
<1>3. CASE SenderLocks(s)
  BY <1>3 DEF SenderLocks
<1>4. CASE WriteOk(s)
  BY <1>4 DEF WriteOk
<1>5. CASE WriteFails(s)
  <2>1. ws_connected' = FALSE /\ UNCHANGED <<close_sent, wait_for_pong>>
    BY <1>5 DEF WriteFails, ErrorEvent
  <2>2. /\ UNCHANGED <<state, lock, tpc, read_select, peer, epoch, closed>>
        /\ spc' = [spc EXCEPT ![s] = "abort"] /\ spc[s] = "write"
    BY <1>5 DEF WriteFails
  <2>3. /\ spc' \in [Senders -> SenderPcs]
        /\ \A r \in Senders : (lock' = r) <=> (spc'[r] \in {"write", "abort", "closed"})
    BY <2>2
  <2>4. /\ (lock' = "task") <=> (tpc' \in {"locked", "connected", "reading", "abort"})
        /\ lock' \in {"free", "task"} \cup Senders
    BY <2>2
  <2>5. close_sent' \in BOOLEAN /\ wait_for_pong' \in BOOLEAN /\ ws_connected' \in BOOLEAN
    BY <2>1, Zenon
  <2>6. TypeOK'
    BY <2>2, <2>3, <2>4, <2>5, Zenon
  <2>7. QED
    BY <2>1, <2>2, <2>6, Zenon
<1>6. CASE AbortCloses(s)
  BY <1>6 DEF AbortCloses
<1>7. CASE AbortEnds(s)
  BY <1>7 DEF AbortEnds
<1>8. QED
  BY <1>1, <1>2, <1>3, <1>4, <1>5, <1>6, <1>7, Zenon DEF Sender

LEMMA StepInv == IInv /\ [Next]_vars => IInv'
<1> SUFFICES ASSUME IInv, [Next]_vars PROVE IInv'
  OBVIOUS
<1>1. CASE Task
  BY <1>1, TaskInv
<1>2. CASE \E s \in Senders : Sender(s)
  BY <1>2, SenderInv
<1>3. CASE PeerChanges
  BY <1>3 DEF PeerChanges, taskVars, IInv, TypeOK, EndsOnlyOnClose, Peers
<1>4. CASE UNCHANGED vars
  BY <1>4 DEF vars, taskVars, IInv, TypeOK, EndsOnlyOnClose
<1>5. QED
  BY <1>1, <1>2, <1>3, <1>4 DEF Next

LEMMA InvCorrect == Spec => []IInv
  BY InitInv, StepInv, PTL DEF Spec

(***************************************************************************)
(* Types, and mutual exclusion on client->lock: the holder is the one task *)
(* inside a critical section.                                              *)
(***************************************************************************)
THEOREM ClientTypeCorrect == Spec => []TypeOK
<1>1. IInv => TypeOK
  BY DEF IInv
<1>2. QED
  BY <1>1, InvCorrect, PTL

(***************************************************************************)
(* Whatever fails, and whoever aborts the connection, the client ends only *)
(* on the connection whose Close frame it has read last.                   *)
(***************************************************************************)
THEOREM EndsCorrect == Spec => []EndsOnlyOnClose
<1>1. IInv => EndsOnlyOnClose
  BY DEF IInv
<1>2. QED
  BY <1>1, InvCorrect, PTL

-----------------------------------------------------------------------------
(* The refinement *)

\* The abstract variables after a step that keeps state and epoch and does
\* not enter or leave "connected", nor leave the loop.
LEMMA LinkKept ==
  ASSUME UNCHANGED <<state, epoch>>, tpc # "connected", tpc' # "connected",
         tpc \notin {"ending", "exited"}, tpc' \notin {"ending", "exited"}
  PROVE  UNCHANGED <<LinkState, LinkEpoch>>
  BY DEF LinkState, LinkEpoch

\* An abort in the task is a Drop of a link that was up or closing; on one that
\* is down it changes at most the mirror.
LEMMA AbortRefines ==
  ASSUME IInv, AbortConnection, UNCHANGED epoch,
         tpc \in {"abort", "poll_abort"}, tpc' \in {"unlocked", "top"}
  PROVE  Link!Drop \/ (LinkState = "down" /\ Link!ErrorEvent)
<1>1. state' = "WAIT_TIMEOUT" /\ ws_connected' = FALSE
  BY DEF AbortConnection, IInv
<1>2. LinkState' = "down" /\ LinkEpoch' = LinkEpoch
  BY <1>1 DEF LinkState, LinkEpoch
<1>3. LinkState \in {"up", "closing", "down"}
  BY DEF LinkState
<1>4. QED
  BY <1>1, <1>2, <1>3, Zenon DEF Link!Drop, Link!ErrorEvent

\* A sender's abort: the same, and if the task has left its loop meanwhile, the
\* link stays dead and only the mirror is cleared.
LEMMA LateAbortRefines ==
  ASSUME NEW s \in Senders, IInv, AbortEnds(s)
  PROVE  Link!Drop \/ Link!ErrorEvent
<1>1. /\ state' = "WAIT_TIMEOUT" /\ ws_connected' = FALSE
      /\ UNCHANGED <<tpc, epoch>> /\ tpc # "connected"
  BY ClientAssumption DEF AbortEnds, taskVars, IInv, TypeOK
<1>2. LinkEpoch' = LinkEpoch
  BY <1>1 DEF LinkEpoch
<1>3. CASE tpc \in {"ending", "exited"}
  <2>1. LinkState' = LinkState
    BY <1>1, <1>3 DEF LinkState
  <2>2. QED
    BY <1>1, <1>2, <2>1, Zenon DEF Link!ErrorEvent
<1>4. CASE tpc \notin {"ending", "exited"}
  <2>1. LinkState' = "down" /\ LinkState \in {"up", "closing", "down"}
    BY <1>1, <1>4 DEF LinkState
  <2>2. QED
    BY <1>1, <1>2, <2>1, Zenon DEF Link!Drop, Link!ErrorEvent
<1>5. QED
  BY <1>3, <1>4

\* Every step of the task is one that WsLink allows the task, or a stutter.
LEMMA TaskRefines == IInv /\ Task => Link!TaskNext \/ UNCHANGED Link!linkVars
<1> SUFFICES ASSUME IInv, Task PROVE Link!TaskNext \/ UNCHANGED Link!linkVars
  OBVIOUS
<1>a. /\ tpc = "connected" => state = "CONNECTED"
      /\ epoch \in 0..MaxEpoch /\ MaxEpoch \in Nat
      /\ tpc = "tcp_close" => epoch # 0 /\ state \in {"CLOSING", "WAIT_TIMEOUT"}
      /\ tpc = "reading" => state = "CONNECTED"
      /\ tpc = "poll_error" => state \in {"CONNECTED", "WAIT_TIMEOUT"}
  BY ClientAssumption DEF IInv, TypeOK, EndsOnlyOnClose
\* Steps that touch neither the link nor the mirror.
<1>1. CASE TaskLocks \/ NothingToRead \/ RecvData \/ EchoClose \/ AfterUnlock
           \/ Poll \/ RecvBegins \/ RecvEnds
  <2>1. /\ UNCHANGED <<state, epoch, ws_connected>>
        /\ tpc # "connected" /\ tpc' # "connected"
        /\ tpc \notin {"ending", "exited"} /\ tpc' \notin {"ending", "exited"}
    BY <1>1 DEF TaskLocks, NothingToRead, RecvData, EchoClose, AfterUnlock,
                Poll, RecvBegins, RecvEnds, Unlock
  <2>2. QED
    BY <2>1, LinkKept DEF Link!linkVars
\* Steps that post ERROR.
<1>2. CASE ConnectFails \/ PongTimeout \/ RecvFails \/ RecvBreaksOff
           \/ PollError
  <2>1. /\ UNCHANGED <<state, epoch>>
        /\ tpc # "connected" /\ tpc' # "connected"
        /\ tpc \notin {"ending", "exited"} /\ tpc' \notin {"ending", "exited"}
    BY <1>2 DEF ConnectFails, PongTimeout, RecvFails, RecvBreaksOff, PollError
  <2>2. ws_connected' = FALSE
    BY <1>2 DEF ConnectFails, PongTimeout, RecvFails, RecvBreaksOff, PollError, ErrorEvent
  <2>3. state \in {"INIT", "CONNECTED", "WAIT_TIMEOUT"}
    BY <1>2, <1>a DEF ConnectFails, PongTimeout, RecvFails, RecvBreaksOff, PollError
  <2>4. LinkState \in {"down", "up"}
    BY <2>1, <2>3 DEF LinkState
  <2>. QED
    BY <2>1, <2>2, <2>4, LinkKept DEF Link!TaskNext, Link!ErrorEvent
<1>3. CASE ConnectOk
  <2>1. LinkState = "down" /\ LinkState' = "down"
    BY <1>3 DEF ConnectOk, LinkState
  <2>2. LinkEpoch' = LinkEpoch
    BY <1>3, <1>a DEF ConnectOk, LinkEpoch
  <2>3. QED
    BY <1>3, <2>1, <2>2 DEF ConnectOk, Link!linkVars
<1>4. CASE ConnectedEvent
  <2>1. LinkState = "down" /\ LinkState' = "up"
    BY <1>4, <1>a DEF ConnectedEvent, Unlock, LinkState
  <2>2. LinkEpoch < MaxEpoch /\ LinkEpoch' = LinkEpoch + 1
    BY <1>4, <1>a DEF ConnectedEvent, Unlock, LinkEpoch
  <2>3. ws_connected' = TRUE
    BY <1>4 DEF ConnectedEvent
  <2>4. QED
    BY <2>1, <2>2, <2>3 DEF Link!TaskNext, Link!Connect
<1>5. CASE TaskAborts \/ PollAborts
  <2>1. /\ AbortConnection /\ UNCHANGED epoch
        /\ tpc \in {"abort", "poll_abort"} /\ tpc' \in {"unlocked", "top"}
    BY <1>5 DEF TaskAborts, PollAborts, Unlock
  <2>2. QED
    BY <2>1, AbortRefines DEF Link!TaskNext
<1>6. CASE RecvClose
  <2>1. LinkState = "up" /\ LinkState' = "closing"
    BY <1>6 DEF RecvClose, LinkState, Unlock
  <2>2. LinkEpoch' = LinkEpoch
    BY <1>6 DEF RecvClose, LinkEpoch, Unlock
  <2>3. QED
    BY <1>6, <2>1, <2>2 DEF RecvClose, Link!TaskNext, Link!ServerClose
<1>7. CASE WaitTimeout
  <2>1. LinkState = "down" /\ LinkState' = "down"
    BY <1>7 DEF WaitTimeout, LinkState, Unlock
  <2>2. LinkEpoch' = LinkEpoch
    BY <1>7 DEF WaitTimeout, LinkEpoch, Unlock
  <2>3. QED
    BY <1>7, <2>1, <2>2 DEF WaitTimeout, Link!linkVars
<1>8. CASE TaskStops
  <2>1. LinkState \in {"closing", "down"} /\ LinkState' = "dead"
    BY <1>8, <1>a DEF TaskStops, LinkState
  <2>2. LinkEpoch' = LinkEpoch /\ LinkEpoch > 0
    BY <1>8, <1>a DEF TaskStops, LinkEpoch
  <2>3. QED
    BY <1>8, <2>1, <2>2 DEF TaskStops, Link!TaskNext, Link!Finish
<1>9. CASE TaskEnds
  <2>1. LinkState = "dead" /\ LinkState' = "dead"
    BY <1>9 DEF TaskEnds, LinkState
  <2>2. LinkEpoch' = LinkEpoch
    BY <1>9 DEF TaskEnds, LinkEpoch
  <2>3. QED
    BY <1>9, <2>1, <2>2 DEF TaskEnds, Link!linkVars
<1>10. QED
  BY <1>1, <1>2, <1>3, <1>4, <1>5, <1>6, <1>7, <1>8, <1>9, Zenon DEF Task

\* Every step of a sender is one that WsLink allows a sender, or a stutter.
LEMMA SenderRefines ==
  ASSUME IInv, NEW s \in Senders, Sender(s)
  PROVE  Link!SenderNext \/ UNCHANGED Link!linkVars
<1>1. CASE \/ MirrorCheck(s) \/ ClientCheck(s) \/ SenderLocks(s) \/ WriteOk(s)
           \/ AbortCloses(s)
  <2>1. UNCHANGED <<state, epoch, tpc, ws_connected>>
    BY <1>1 DEF MirrorCheck, ClientCheck, SenderLocks, WriteOk, AbortCloses, taskVars
  <2>2. UNCHANGED <<LinkState, LinkEpoch>>
    BY <2>1 DEF LinkState, LinkEpoch
  <2>3. QED
    BY <2>1, <2>2 DEF Link!linkVars
<1>2. CASE WriteFails(s)
  <2>1. UNCHANGED <<state, epoch, tpc>>
    BY <1>2 DEF WriteFails, taskVars
  <2>2. UNCHANGED <<LinkState, LinkEpoch>>
    BY <2>1 DEF LinkState, LinkEpoch
  <2>3. ws_connected' = FALSE
    BY <1>2 DEF WriteFails, ErrorEvent
  <2>4. QED
    BY <2>2, <2>3 DEF Link!SenderNext, Link!ErrorEvent
<1>3. CASE AbortEnds(s)
  BY <1>3, LateAbortRefines DEF Link!SenderNext
<1>4. QED
  BY <1>1, <1>2, <1>3, Zenon DEF Sender

(***************************************************************************)
(* Every behaviour of the client, its task and its senders is a behaviour  *)
(* of the abstract link.                                                   *)
(***************************************************************************)
THEOREM LinkImplemented == Spec => ImplementsLink
<1>1. Init => Link!LinkInit
  BY DEF Init, Link!LinkInit, LinkState, LinkEpoch
<1>2. IInv /\ [Next]_vars => [Link!LinkNext]_(Link!linkVars)
  <2> SUFFICES ASSUME IInv, [Next]_vars
               PROVE  Link!LinkNext \/ UNCHANGED Link!linkVars
    OBVIOUS
  <2>1. CASE Task
    BY <2>1, TaskRefines DEF Link!LinkNext
  <2>2. CASE \E s \in Senders : Sender(s)
    BY <2>2, SenderRefines DEF Link!LinkNext
  <2>3. CASE PeerChanges \/ UNCHANGED vars
    <3>1. UNCHANGED <<state, epoch, tpc, ws_connected>>
      BY <2>3 DEF PeerChanges, vars, taskVars
    <3>2. UNCHANGED <<LinkState, LinkEpoch>>
      BY <3>1 DEF LinkState, LinkEpoch
    <3>3. QED
      BY <3>1, <3>2 DEF Link!linkVars
  <2>4. QED
    BY <2>1, <2>2, <2>3 DEF Next
<1>3. QED
  BY <1>1, <1>2, InvCorrect, PTL DEF Spec, ImplementsLink, Link!LinkSpec

(***************************************************************************)
(* The task and the senders each keep to their own part of the link, which *)
(* is how VoiceSession and StatusLed divide its steps: no failure makes a  *)
(* sender end the client, and none is reported by the task once the server *)
(* closes the connection.                                                  *)
(***************************************************************************)
THEOREM RolesCorrect == Spec => LinkRoles
<1>1. IInv /\ [Next]_vars =>
        [ /\ Task => Link!TaskNext \/ UNCHANGED Link!linkVars
          /\ (\E s \in Senders : Sender(s))
                 => Link!SenderNext \/ UNCHANGED Link!linkVars ]_vars
  BY TaskRefines, SenderRefines
<1>. QED
  BY <1>1, InvCorrect, PTL DEF Spec, LinkRoles
=============================================================================
