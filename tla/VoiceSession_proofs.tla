------------------------ MODULE VoiceSession_proofs ------------------------
(***************************************************************************)
(* Theorems about VoiceSession, for every value of its bounds.             *)
(*                                                                         *)
(* Each safety property is a conjunct of an invariant that is inductive    *)
(* together with TypeInv; the invariants are independent of each other and *)
(* the lemmas treat them one by one.                                       *)
(***************************************************************************)
EXTENDS VoiceSession, TLAPS

-----------------------------------------------------------------------------
(* Type correctness *)

\* A connection that exists has a number that a message can carry.
TypeInv ==
    /\ TypeOK
    /\ link # "down" => epoch >= 1

\* What a call of Send can do: put one message on an established link, or
\* leave the wire alone and perhaps take the link away.
LEMMA SendCases ==
    ASSUME NEW kind, NEW f, Send(kind, f)
    PROVE  \/ /\ link = "up" /\ UNCHANGED linkVars
              /\ Put(kind, f)
           \/ /\ UNCHANGED wire /\ UNCHANGED epoch
              /\ \/ link # "up" /\ UNCHANGED <<link, ws_connected>>
                 \/ link # "down" /\ link' = "down" /\ ws_connected' = FALSE
                 \/ UNCHANGED link /\ ws_connected' = FALSE
BY DEF Send, SendAccepted, SendIgnored, SendFailed, Drop, ErrorEvent, linkVars

\* A sender leaves the link variables and the wire well typed.
LEMMA SendType ==
    ASSUME TypeInv, NEW kind \in {"start", "stop", "audio"},
           NEW f \in Frame \cup {NoFrame},
           Send(kind, f)
    PROVE  LinkTypeOK' /\ (link # "down" => epoch >= 1)' /\ wire' \in Seq(Message)
<1>. USE DEF TypeInv, TypeOK, LinkTypeOK
<1>1. CASE link = "up" /\ UNCHANGED linkVars /\ Put(kind, f)
  <2>. DEFINE m == [kind |-> kind, epoch |-> epoch, rec |-> recordings,
                    live |-> is_recording, frame |-> f]
  <2>1. epoch \in 1..MaxEpoch
    BY <1>1, MaxEpochAssumption
  <2>2. m \in Message
    BY <2>1 DEF Message
  <2>3. wire' = Append(wire, m)
    BY <1>1 DEF Put
  <2>. QED  BY <1>1, <2>2, <2>3 DEF linkVars
<1>2. CASE UNCHANGED wire /\ UNCHANGED epoch /\ link' \in {link, "down"}
           /\ ws_connected' \in BOOLEAN
  BY <1>2
<1>. QED  BY <1>1, <1>2, SendCases DEF linkVars

LEMMA TypeInit == Init => TypeInv
<1>. SUFFICES ASSUME Init  PROVE TypeInv
  OBVIOUS
<1>. USE MaxEpochAssumption, VoiceAssumption
<1>2. rx \in Seq(Frame) /\ Len(rx) <= RingCap /\ wire \in Seq(Message)
  BY DEF Init
<1>3. LinkTypeOK /\ (link # "down" => epoch >= 1)
  <2>1. epoch \in 0..MaxEpoch
    BY DEF Init, LinkInit
  <2>. QED  BY <2>1, Zenon DEF Init, LinkInit, LinkTypeOK
<1>4. recordings \in 0..MaxRecordings /\ captured \in 0..MaxFrames
  BY DEF Init
<1>. QED
  BY <1>2, <1>3, <1>4 DEF Init, TypeInv, TypeOK, ButtonPcs, ReaderPcs

LEMMA TypeStep == TypeInv /\ [Next]_vars => TypeInv'
<1>. SUFFICES ASSUME TypeInv, [Next]_vars  PROVE TypeInv'
  OBVIOUS
<1>. USE DEF TypeInv, TypeOK, LinkTypeOK, ButtonPcs, ReaderPcs
<1>1. CASE UNCHANGED vars
  BY <1>1 DEF vars, linkVars, buttonVars, readerVars
<1>2. CASE UserToggles
  BY <1>2 DEF UserToggles, linkVars, buttonVars, readerVars
<1>3. CASE PressWithoutToken \/ AuthWaitOver \/ NothingToDo
  <2>1. CASE PressWithoutToken
    BY <2>1 DEF PressWithoutToken, linkVars, readerVars
  <2>2. CASE AuthWaitOver
    BY <2>2 DEF AuthWaitOver, EndRound, linkVars, readerVars
  <2>3. CASE NothingToDo
    BY <2>3 DEF NothingToDo, EndRound, linkVars, readerVars
  <2>. QED  BY <1>3, <2>1, <2>2, <2>3
<1>4. CASE PressStarts
  BY <1>4, VoiceAssumption DEF PressStarts, linkVars, readerVars
<1>5. CASE StartCheck \/ StartClient \/ StopCheck \/ StopClient
  <2>1. CASE StartCheck
    BY <2>1 DEF StartCheck, EndRound, linkVars, readerVars
  <2>2. CASE StartClient
    BY <2>2 DEF StartClient, EndRound, linkVars, readerVars
  <2>3. CASE StopCheck
    BY <2>3 DEF StopCheck, EndRound, linkVars, readerVars
  <2>4. CASE StopClient
    BY <2>4 DEF StopClient, EndRound, linkVars, readerVars
  <2>. QED  BY <1>5, <2>1, <2>2, <2>3, <2>4
<1>6. CASE StartSend
  <2>1. Send("start", NoFrame)
    BY <1>6 DEF StartSend
  <2>2. LinkTypeOK' /\ (link # "down" => epoch >= 1)' /\ wire' \in Seq(Message)
    BY <2>1, SendType
  <2>. QED  BY <1>6, <2>2 DEF StartSend, EndRound, readerVars
<1>7. CASE ReleaseStops
  BY <1>7 DEF ReleaseStops, linkVars, readerVars
<1>8. CASE StopSend
  <2>1. Send("stop", NoFrame)
    BY <1>8 DEF StopSend
  <2>2. LinkTypeOK' /\ (link # "down" => epoch >= 1)' /\ wire' \in Seq(Message)
    BY <2>1, SendType
  <2>. QED  BY <1>8, <2>2 DEF StopSend, EndRound, readerVars
<1>9. CASE FrameArrives
  <2>. DEFINE f == [num |-> captured + 1,
                    during |-> IF is_recording THEN recordings ELSE 0]
  <2>1. f \in Frame /\ captured' \in 0..MaxFrames
    BY <1>9, VoiceAssumption DEF FrameArrives, Frame
  <2>2. CASE Len(rx) < RingCap
    <3>1. rx' = Append(rx, f)
      BY <1>9, <2>2 DEF FrameArrives
    <3>2. rx' \in Seq(Frame) /\ Len(rx') <= RingCap
      BY <2>1, <2>2, <3>1, VoiceAssumption
    <3>. QED  BY <1>9, <2>1, <3>2 DEF FrameArrives, linkVars, buttonVars, readerVars
  <2>3. CASE ~(Len(rx) < RingCap)
    <3>1. rx' = Append(Tail(rx), f)
      BY <1>9, <2>3 DEF FrameArrives
    <3>2. rx # <<>>
      BY <2>3, VoiceAssumption
    <3>3. rx' \in Seq(Frame) /\ Len(rx') <= RingCap
      BY <2>1, <3>1, <3>2, VoiceAssumption
    <3>. QED  BY <1>9, <2>1, <3>3 DEF FrameArrives, linkVars, buttonVars, readerVars
  <2>. QED  BY <2>2, <2>3
<1>10. CASE ReaderCommits \/ FrameCheck \/ FrameClient
  <2>1. CASE ReaderCommits
    BY <2>1 DEF ReaderCommits, linkVars, buttonVars
  <2>2. CASE FrameCheck
    BY <2>2 DEF FrameCheck, linkVars, buttonVars
  <2>3. CASE FrameClient
    BY <2>3 DEF FrameClient, linkVars, buttonVars
  <2>. QED  BY <1>10, <2>1, <2>2, <2>3
<1>11. CASE AudioRead
  <2>1. rx # <<>> /\ frame' = Head(rx) /\ rx' = Tail(rx)
    BY <1>11 DEF AudioRead
  <2>2. frame' \in Frame /\ rx' \in Seq(Frame) /\ Len(rx') <= RingCap
    BY <2>1, VoiceAssumption
  <2>. QED  BY <1>11, <2>2 DEF AudioRead, linkVars, buttonVars
<1>12. CASE FrameSend
  <2>1. Send("audio", frame)
    BY <1>12 DEF FrameSend
  <2>2. LinkTypeOK' /\ (link # "down" => epoch >= 1)' /\ wire' \in Seq(Message)
    BY <2>1, SendType
  <2>. QED  BY <1>12, <2>2 DEF FrameSend, buttonVars
<1>13. CASE TokenStored
  BY <1>13 DEF TokenStored, linkVars, buttonVars, readerVars
<1>14. CASE LinkEvent
  <2>1. LinkTypeOK' /\ (link # "down" => epoch >= 1)'
    <3>. USE <1>14, MaxEpochAssumption DEF LinkEvent, TaskNext
    <3>1. CASE Connect
      <4>1. epoch' \in 0..MaxEpoch /\ epoch' >= 1
        BY <3>1 DEF Connect
      <4>. QED  BY <3>1, <4>1, Zenon DEF Connect
    <3>2. CASE Drop \/ ServerClose \/ ErrorEvent
      BY <3>2, Zenon DEF Drop, ServerClose, ErrorEvent
    <3>3. CASE Finish
      <4>1. epoch' >= 1 /\ UNCHANGED epoch
        BY <3>3 DEF Finish
      <4>. QED  BY <3>3, <4>1, Zenon DEF Finish
    <3>. QED  BY <3>1, <3>2, <3>3
  <2>. QED  BY <1>14, <2>1 DEF LinkEvent, buttonVars, readerVars
<1>. QED
  BY <1>1, <1>2, <1>3, <1>4, <1>5, <1>6, <1>7, <1>8, <1>9, <1>10, <1>11,
     <1>12, <1>13, <1>14 DEF Next, ButtonTask, ReaderTask

\* Every variable keeps its type, and the ring of captured audio its capacity.
THEOREM TypeCorrect == Spec => []TypeOK
<1>1. Spec => []TypeInv
  BY TypeInit, TypeStep, PTL DEF Spec
<1>2. TypeInv => TypeOK
  BY DEF TypeInv
<1>. QED  BY <1>1, <1>2, PTL

-----------------------------------------------------------------------------
(* What an accepted message does to the history *)

\* Appending a message keeps the others where they are.
LEMMA PutWire ==
    ASSUME TypeInv, NEW kind, NEW f, Put(kind, f)
    PROVE  /\ Len(wire) \in Nat
           /\ DOMAIN wire = 1..Len(wire) /\ DOMAIN wire' = 1..(Len(wire) + 1)
           /\ \A i \in DOMAIN wire : wire'[i] = wire[i] /\ i < Len(wire) + 1
           /\ \A i \in DOMAIN wire' : i \in DOMAIN wire \/ i = Len(wire) + 1
           /\ LET m == wire'[Len(wire) + 1]
              IN  /\ m.kind = kind /\ m.epoch = epoch /\ m.rec = recordings
                  /\ m.frame = f /\ m.live = is_recording
<1>. DEFINE m == [kind |-> kind, epoch |-> epoch, rec |-> recordings,
                  live |-> is_recording, frame |-> f]
<1>1. wire \in Seq(Message) /\ wire' = Append(wire, m)
  BY DEF TypeInv, TypeOK, Put
<1>2. Len(wire) \in Nat /\ DOMAIN wire = 1..Len(wire)
  BY <1>1
<1>. QED  BY <1>1, <1>2

-----------------------------------------------------------------------------
(* Order of the audio *)

Holding == rpc \in {"check", "client", "send"}

\* Frames move from the VB6824 through the ring and the reader's buffer to the
\* wire; each stage only holds frames younger than the stages after it.
OrderInv ==
    /\ \A k, l \in DOMAIN rx : k < l => rx[k].num < rx[l].num
    /\ \A k \in DOMAIN rx : rx[k].num <= captured
    /\ Holding => /\ frame \in Frame /\ frame.num <= captured
                  /\ \A k \in DOMAIN rx : frame.num < rx[k].num
    /\ \A i \in DOMAIN wire : Audio(i) =>
          /\ wire[i].frame.num <= captured
          /\ Holding => wire[i].frame.num < frame.num
          /\ \A k \in DOMAIN rx : wire[i].frame.num < rx[k].num
    /\ FramesInOrder

LEMMA FrameNum == \A f \in Frame \cup {NoFrame} : f.num \in Nat
BY VoiceAssumption DEF Frame, NoFrame

LEMMA RxFrame == ASSUME TypeInv  PROVE \A k \in DOMAIN rx : rx[k] \in Frame
BY DEF TypeInv, TypeOK

LEMMA WireFrame ==
    ASSUME TypeInv
    PROVE  \A i \in DOMAIN wire : wire[i].frame \in Frame \cup {NoFrame}
<1>1. \A i \in DOMAIN wire : wire[i] \in Message
  BY DEF TypeInv, TypeOK
<1>. QED  BY <1>1 DEF Message

LEMMA OrderStep == TypeInv /\ OrderInv /\ [Next]_vars => OrderInv'
<1>. SUFFICES ASSUME TypeInv, OrderInv, [Next]_vars  PROVE OrderInv'
  OBVIOUS
<1>. USE DEF OrderInv, FramesInOrder, Audio, Holding
<1>t. /\ rx \in Seq(Frame) /\ wire \in Seq(Message) /\ captured \in Nat
      /\ rpc \in ReaderPcs
  BY VoiceAssumption DEF TypeInv, TypeOK
<1>1. CASE UNCHANGED <<rx, captured, rpc, frame, wire>>
  BY <1>1
<1>2. CASE StartSend \/ StopSend
  <2>1. PICK kind \in {"start", "stop"} :
          Send(kind, NoFrame)
    BY <1>2 DEF StartSend, StopSend
  <2>2. UNCHANGED <<rx, captured, rpc, frame>>
    BY <1>2 DEF StartSend, StopSend, readerVars
  <2>3. CASE Put(kind, NoFrame)
    BY <2>2, <2>3, PutWire
  <2>4. CASE UNCHANGED wire
    BY <2>2, <2>4
  <2>. QED  BY <2>1, <2>3, <2>4, SendCases
<1>3. CASE FrameArrives
  <2>. DEFINE f == [num |-> captured + 1,
                    during |-> IF is_recording THEN recordings ELSE 0]
  <2>1. captured' = captured + 1 /\ UNCHANGED <<rpc, frame, wire>>
    BY <1>3 DEF FrameArrives, readerVars
  <2>2. PICK q \in {rx, Tail(rx)} : rx' = Append(q, f) /\ (q # rx => rx # <<>>)
    BY <1>3, <1>t, VoiceAssumption DEF FrameArrives
  <2>3. /\ q \in Seq(Frame)
        /\ \A k \in DOMAIN q : \E l \in DOMAIN rx : q[k] = rx[l]
        /\ \A k, l \in DOMAIN q : k < l => q[k].num < q[l].num
    <3>1. CASE q = rx
      BY <3>1, <1>t
    <3>2. CASE q = Tail(rx) /\ rx # <<>>
      <4>1. /\ q \in Seq(Frame) /\ DOMAIN q = 1..(Len(rx) - 1) /\ Len(rx) \in Nat
            /\ \A k \in DOMAIN q : q[k] = rx[k + 1]
        BY <3>2, <1>t
      <4>2. \A k \in DOMAIN q : k \in Nat /\ k + 1 \in DOMAIN rx
        BY <4>1, <1>t
      <4>. QED  BY <4>1, <4>2
    <3>. QED  BY <2>2, <3>1, <3>2
  <2>4. /\ DOMAIN rx' = 1..(Len(q) + 1) /\ DOMAIN q = 1..Len(q)
        /\ rx'[Len(q) + 1] = f /\ f.num = captured + 1
        /\ \A k \in DOMAIN q : rx'[k] = q[k]
    BY <2>2, <2>3
  <2>5. \A k \in DOMAIN rx' : \/ \E l \in DOMAIN rx : rx'[k] = rx[l]
                              \/ rx'[k].num = captured + 1
    BY <2>3, <2>4
  <2>6. \A k \in DOMAIN q : q[k].num <= captured
    BY <2>3
  <2>7. \A k, l \in DOMAIN rx' : k < l => rx'[k].num < rx'[l].num
    <3>. SUFFICES ASSUME NEW k \in DOMAIN rx', NEW l \in DOMAIN rx', k < l
                  PROVE  rx'[k].num < rx'[l].num
      OBVIOUS
    <3>0. Len(q) \in Nat /\ k \in DOMAIN q /\ q[k] \in Frame
      BY <2>3, <2>4
    <3>1. CASE l \in DOMAIN q
      BY <2>3, <2>4, <3>0, <3>1
    <3>2. CASE l = Len(q) + 1
      BY <2>4, <2>6, <3>0, <3>2, <1>t DEF Frame
    <3>. QED  BY <3>0, <3>1, <3>2, <2>4
  <2>8. \A l \in DOMAIN rx : rx[l].num \in Nat
    BY <1>t, RxFrame, FrameNum
  <2>9. \A i \in DOMAIN wire : wire[i].frame.num \in Nat
    BY <1>t, WireFrame, FrameNum
  <2>10. /\ \A k \in DOMAIN rx' : rx'[k].num <= captured'
         /\ \A i \in DOMAIN wire : Audio(i) =>
               \A k \in DOMAIN rx' : wire[i].frame.num < rx'[k].num
         /\ Holding => \A k \in DOMAIN rx' : frame.num < rx'[k].num
    BY <2>1, <2>5, <2>8, <2>9, <1>t, FrameNum
  <2>11. \A i \in DOMAIN wire : Audio(i) => wire[i].frame.num <= captured'
    BY <2>1, <2>9, <1>t
  <2>. QED  BY <2>1, <2>7, <2>10, <2>11, <1>t DEF Frame
<1>4. CASE ReaderCommits
  BY <1>4 DEF ReaderCommits
<1>5. CASE AudioRead
  <2>1. /\ rx # <<>> /\ frame' = rx[1] /\ rx' = Tail(rx)
        /\ UNCHANGED <<captured, wire>>
    BY <1>5, <1>t DEF AudioRead
  <2>2. /\ rx[1] \in Frame /\ 1 \in DOMAIN rx
        /\ DOMAIN rx' = 1..(Len(rx) - 1)
        /\ \A k \in DOMAIN rx' : rx'[k] = rx[k + 1] /\ k + 1 \in DOMAIN rx /\ k \in Nat
    BY <2>1, <1>t
  <2>3. \A k \in DOMAIN rx' : frame'.num < rx'[k].num /\ rx'[k].num <= captured
    <3>. SUFFICES ASSUME NEW k \in DOMAIN rx'
                  PROVE  frame'.num < rx'[k].num /\ rx'[k].num <= captured
      OBVIOUS
    <3>1. k + 1 \in DOMAIN rx /\ 1 < k + 1 /\ rx'[k] = rx[k + 1]
      BY <2>2
    <3>. QED  BY <2>1, <2>2, <3>1
  <2>4. \A k, l \in DOMAIN rx' : k < l => rx'[k].num < rx'[l].num
    BY <2>2
  <2>. QED  BY <2>1, <2>2, <2>3, <2>4
<1>6. CASE FrameCheck \/ FrameClient
  BY <1>6 DEF FrameCheck, FrameClient
<1>7. CASE FrameSend
  <2>1. /\ Send("audio", frame) /\ rpc = "send" /\ rpc' = "loop"
        /\ UNCHANGED <<rx, captured>>
    BY <1>7 DEF FrameSend
  <2>2. CASE Put("audio", frame)
    <3>1. \A i \in DOMAIN wire' : i \in DOMAIN wire \/ i = Len(wire) + 1
      BY <2>2, PutWire, <1>t
    <3>2. wire'[Len(wire) + 1].frame = frame
      BY <2>2, PutWire
    <3>3. \A i \in DOMAIN wire : wire'[i] = wire[i] /\ i < Len(wire) + 1
      BY <2>2, PutWire, <1>t
    <3>. QED  BY <2>1, <3>1, <3>2, <3>3, <1>t
  <2>3. CASE UNCHANGED wire
    BY <2>1, <2>3
  <2>. QED  BY <2>1, <2>2, <2>3, SendCases
<1>. QED
  BY <1>1, <1>2, <1>3, <1>4, <1>5, <1>6, <1>7
     DEF Next, ButtonTask, ReaderTask, UserToggles, PressWithoutToken,
         AuthWaitOver, NothingToDo, PressStarts, StartCheck, StartClient,
         ReleaseStops, StopCheck, StopClient, TokenStored, LinkEvent, vars, readerVars

\* The audio on the wire is in the order of capture, without a duplicate,
\* for every ring capacity and any number of reconnections.
THEOREM AudioOrderCorrect == Spec => []FramesInOrder
<1>1. Init => OrderInv
  BY DEF Init, OrderInv, FramesInOrder, Holding
<1>2. Spec => [](TypeInv /\ OrderInv)
  BY <1>1, TypeInit, TypeStep, OrderStep, PTL DEF Spec
<1>3. OrderInv => FramesInOrder
  BY DEF OrderInv
<1>. QED  BY <1>2, <1>3, PTL

-----------------------------------------------------------------------------
(* What the messages remember is past *)

PastInv ==
    \A i \in DOMAIN wire : wire[i].rec <= recordings /\ wire[i].epoch <= epoch

LEMMA PastStep == TypeInv /\ PastInv /\ [Next]_vars => PastInv'
<1>. SUFFICES ASSUME TypeInv, PastInv, [Next]_vars  PROVE PastInv'
  OBVIOUS
<1>. USE DEF PastInv
<1>t. recordings \in Nat /\ epoch \in Nat
      /\ \A i \in DOMAIN wire : wire[i].rec \in Nat /\ wire[i].epoch \in Nat
  <2>1. \A i \in DOMAIN wire : wire[i] \in Message
    BY DEF TypeInv, TypeOK
  <2>. QED  BY <2>1, VoiceAssumption, MaxEpochAssumption
            DEF TypeInv, TypeOK, LinkTypeOK, Message
<1>1. CASE UNCHANGED wire /\ recordings' \in {recordings, recordings + 1}
           /\ epoch' \in {epoch, epoch + 1}
  BY <1>1, <1>t
<1>2. CASE StartSend \/ StopSend \/ FrameSend
  <2>1. PICK kind \in {"start", "stop", "audio"},
             f \in {frame, NoFrame} :
          Send(kind, f)
    BY <1>2 DEF StartSend, StopSend, FrameSend
  <2>2. UNCHANGED recordings
    BY <1>2 DEF StartSend, StopSend, FrameSend, buttonVars
  <2>3. CASE Put(kind, f) /\ UNCHANGED epoch
    BY <2>2, <2>3, <1>t, PutWire
  <2>4. CASE UNCHANGED <<wire, epoch>>
    BY <2>2, <2>4
  <2>. QED  BY <2>1, <2>3, <2>4, SendCases DEF linkVars
<1>3. CASE LinkEvent
  BY <1>3, <1>1 DEF LinkEvent, TaskNext, Connect, Drop, ServerClose, Finish, ErrorEvent,
                   buttonVars
<1>. QED
  BY <1>1, <1>2, <1>3
     DEF Next, ButtonTask, ReaderTask, UserToggles, PressWithoutToken,
         AuthWaitOver, NothingToDo, PressStarts, StartCheck, StartClient,
         ReleaseStops, StopCheck, StopClient, FrameArrives, ReaderCommits,
         AudioRead, FrameCheck, FrameClient, TokenStored, vars, linkVars, buttonVars

-----------------------------------------------------------------------------
(* The frame that trails a recording *)

\* Once a frame went out after the end of the latest recording, the reader is
\* back at its test of is_recording and cannot pass it before the next one.
TrailInv ==
    /\ \A i \in DOMAIN wire :
          Audio(i) /\ ~wire[i].live /\ wire[i].rec = recordings
              => rpc = "loop" /\ ~is_recording
    /\ OneTrailingFrame

LEMMA TrailStep == TypeInv /\ PastInv /\ TrailInv /\ [Next]_vars => TrailInv'
<1>. SUFFICES ASSUME TypeInv, PastInv, TrailInv, [Next]_vars  PROVE TrailInv'
  OBVIOUS
<1>. USE DEF TrailInv, OneTrailingFrame, Audio
<1>1. CASE UNCHANGED <<recordings, rpc, is_recording, wire>>
  BY <1>1
<1>2. CASE PressStarts
  <2>1. recordings' = recordings + 1 /\ UNCHANGED wire
    BY <1>2 DEF PressStarts
  <2>2. \A i \in DOMAIN wire : wire[i] \in Message
    BY DEF TypeInv, TypeOK
  <2>3. recordings \in Nat /\ \A i \in DOMAIN wire : wire[i].rec \in Nat
    BY <2>2, VoiceAssumption DEF TypeInv, TypeOK, Message
  <2>4. \A i \in DOMAIN wire : wire[i].rec # recordings'
    BY <2>1, <2>3 DEF PastInv
  <2>. QED  BY <2>1, <2>4
<1>3. CASE ReleaseStops
  BY <1>3 DEF ReleaseStops, readerVars
<1>4. CASE StartSend \/ StopSend
  <2>1. PICK kind \in {"start", "stop"} :
          Send(kind, NoFrame)
    BY <1>4 DEF StartSend, StopSend
  <2>2. UNCHANGED <<recordings, rpc, is_recording>>
    BY <1>4 DEF StartSend, StopSend, readerVars
  <2>3. CASE Put(kind, NoFrame)
    BY <2>2, <2>3, PutWire
  <2>4. CASE UNCHANGED wire
    BY <2>2, <2>4
  <2>. QED  BY <2>1, <2>3, <2>4, SendCases
<1>5. CASE ReaderCommits
  BY <1>5 DEF ReaderCommits, buttonVars
<1>6. CASE AudioRead \/ FrameCheck \/ FrameClient
  BY <1>6 DEF AudioRead, FrameCheck, FrameClient, buttonVars
<1>7. CASE FrameSend
  <2>1. /\ Send("audio", frame) /\ rpc = "send" /\ rpc' = "loop"
        /\ UNCHANGED <<recordings, is_recording>>
    BY <1>7 DEF FrameSend, buttonVars
  <2>2. CASE Put("audio", frame)
    <3>. DEFINE n == Len(wire) + 1
    <3>1. \A i \in DOMAIN wire :
            ~(Audio(i) /\ ~wire[i].live /\ wire[i].rec = recordings)
      BY <2>1
    <3>2. wire'[n].rec = recordings /\ wire'[n].live = is_recording
      BY <2>2, PutWire
    <3>3. /\ \A i \in DOMAIN wire' : i \in DOMAIN wire \/ i = n
          /\ \A i \in DOMAIN wire : wire'[i] = wire[i] /\ i < n
          /\ DOMAIN wire' \subseteq Nat /\ n \in Nat
      BY <2>2, PutWire
    <3>4. \A i \in DOMAIN wire' :
            (Audio(i) /\ ~wire[i].live /\ wire[i].rec = recordings)'
                => i = n /\ ~is_recording
      BY <2>1, <3>1, <3>2, <3>3
    <3>5. OneTrailingFrame'
      <4>. SUFFICES ASSUME NEW i \in DOMAIN wire', NEW j \in DOMAIN wire', i < j,
                           (Audio(i) /\ Audio(j) /\ ~wire[i].live /\ ~wire[j].live)'
                    PROVE  wire'[i].rec # wire'[j].rec
        OBVIOUS
      <4>1. i \in DOMAIN wire
        BY <3>3
      <4>2. CASE j \in DOMAIN wire
        BY <3>3, <4>1, <4>2
      <4>3. CASE j = n
        BY <3>1, <3>2, <3>3, <4>1, <4>3
      <4>. QED  BY <3>3, <4>2, <4>3
    <3>. QED  BY <2>1, <3>4, <3>5
  <2>3. CASE UNCHANGED wire
    BY <2>1, <2>3
  <2>. QED  BY <2>1, <2>2, <2>3, SendCases
<1>. QED
  BY <1>1, <1>2, <1>3, <1>4, <1>5, <1>6, <1>7
     DEF Next, ButtonTask, ReaderTask, UserToggles, PressWithoutToken,
         AuthWaitOver, NothingToDo, StartCheck, StartClient,
         StopCheck, StopClient, FrameArrives, TokenStored, LinkEvent, vars, buttonVars, readerVars

\* A release lets at most one more frame out before the next recording.
THEOREM TrailingFrameCorrect == Spec => []OneTrailingFrame
<1>1. Init => PastInv /\ TrailInv
  BY DEF Init, PastInv, TrailInv, OneTrailingFrame
<1>2. Spec => [](TypeInv /\ PastInv /\ TrailInv)
  BY <1>1, TypeInit, TypeStep, PastStep, TrailStep, PTL DEF Spec
<1>3. TrailInv => OneTrailingFrame
  BY DEF TrailInv
<1>. QED  BY <1>2, <1>3, PTL

-----------------------------------------------------------------------------
(* A stop for every start *)

Starting ==
    bpc \in {"start_check", "start_client", "start_send"}
Stopping == bpc \in {"stop_check", "stop_client", "stop_send"}

HasStop(i) ==
    \E j \in DOMAIN wire : i < j /\ wire[j].kind = "stop"
                             /\ wire[j].rec = wire[i].rec

\* While the connection that took a start message is healthy, its recording
\* is on, or its stop message is on the way, or it is there.
OrphanInv ==
    /\ Starting => is_recording
    /\ Stopping => ~is_recording
    /\ \A i \in DOMAIN wire :
          /\ wire[i].kind = "start"
          /\ wire[i].epoch = epoch /\ link = "up" /\ ws_connected
          => HasStop(i) \/ (wire[i].rec = recordings /\ (is_recording \/ Stopping))

LEMMA OrphanImplies == TypeInv /\ OrphanInv => NoOrphanStart
<1>. SUFFICES ASSUME TypeInv, OrphanInv, NEW i \in DOMAIN wire,
                     wire[i].kind = "start",
                     wire[i].epoch = epoch /\ link = "up" /\ ws_connected,
                     wire[i].rec < recordings \/ (~is_recording /\ bpc = "poll")
              PROVE  HasStop(i)
  BY DEF NoOrphanStart, HasStop
<1>1. wire[i].rec \in Nat /\ recordings \in Nat
  <2>1. wire[i] \in Message
    BY DEF TypeInv, TypeOK
  <2>. QED  BY <2>1, VoiceAssumption DEF TypeInv, TypeOK, Message
<1>2. CASE wire[i].rec < recordings
  BY <1>1, <1>2 DEF OrphanInv
<1>3. CASE ~is_recording /\ bpc = "poll"
  BY <1>3 DEF OrphanInv, Stopping
<1>. QED  BY <1>2, <1>3

LEMMA OrphanStep == TypeInv /\ PastInv /\ OrphanInv /\ [Next]_vars => OrphanInv'
<1>. SUFFICES ASSUME TypeInv, PastInv, OrphanInv, [Next]_vars  PROVE OrphanInv'
  OBVIOUS
<1>. USE DEF OrphanInv, HasStop, Starting, Stopping
<1>t. recordings \in Nat /\ epoch \in Nat /\ bpc \in ButtonPcs
      /\ \A i \in DOMAIN wire : wire[i].epoch \in Nat
  <2>1. \A i \in DOMAIN wire : wire[i] \in Message
    BY DEF TypeInv, TypeOK
  <2>. QED  BY <2>1, VoiceAssumption, MaxEpochAssumption
            DEF TypeInv, TypeOK, LinkTypeOK, Message
<1>1. CASE UNCHANGED <<wire, linkVars, recordings, is_recording, bpc>>
  BY <1>1 DEF linkVars
<1>2. CASE PressWithoutToken \/ AuthWaitOver \/ NothingToDo
  BY <1>2 DEF PressWithoutToken, AuthWaitOver, NothingToDo, EndRound, linkVars
<1>3. CASE PressStarts
  <2>1. /\ ~is_recording /\ bpc = "poll" /\ is_recording' /\ bpc' = "start_check"
        /\ UNCHANGED <<wire, linkVars>>
    BY <1>3, Zenon DEF PressStarts
  <2>. QED  BY <2>1 DEF linkVars
<1>4. CASE StartCheck \/ StartClient
  <2>1. /\ bpc' \in {"start_client", "start_send", "poll"}
        /\ Starting
        /\ UNCHANGED <<wire, linkVars, recordings, is_recording>>
    BY <1>4 DEF StartCheck, StartClient, EndRound
  <2>. QED  BY <2>1 DEF linkVars
<1>5. CASE ReleaseStops
  <2>1. /\ bpc = "poll" /\ ~is_recording' /\ bpc' = "stop_check"
        /\ UNCHANGED <<wire, linkVars, recordings>>
    BY <1>5 DEF ReleaseStops
  <2>. QED  BY <2>1 DEF linkVars
<1>6. CASE StopCheck \/ StopClient
  <2>1. /\ Stopping /\ UNCHANGED <<wire, linkVars, recordings, is_recording>>
        /\ \/ bpc' \in {"stop_client", "stop_send"}
           \/ bpc' = "poll" /\ (link # "up" \/ ~ws_connected)
    BY <1>6 DEF StopCheck, StopClient, EndRound
  <2>. QED  BY <2>1 DEF linkVars
<1>7. CASE StartSend
  <2>1. /\ Send("start", NoFrame) /\ Starting /\ bpc' = "poll"
        /\ UNCHANGED <<recordings, is_recording>>
    BY <1>7 DEF StartSend, EndRound
  <2>2. CASE Put("start", NoFrame) /\ UNCHANGED linkVars
    <3>1. wire'[Len(wire) + 1].rec = recordings
      BY <2>2, PutWire
    <3>2. /\ \A i \in DOMAIN wire' : i \in DOMAIN wire \/ i = Len(wire) + 1
          /\ \A i \in DOMAIN wire : wire'[i] = wire[i] /\ i \in DOMAIN wire'
      BY <2>2, PutWire
    <3>. QED  BY <2>1, <2>2, <3>1, <3>2 DEF linkVars
  <2>3. CASE UNCHANGED <<wire, epoch>> /\ (link' # "up" \/ ws_connected' = FALSE)
    BY <2>1, <2>3
  <2>4. link # "up" /\ UNCHANGED <<link, ws_connected>> => link' # "up"
    OBVIOUS
  <2>. QED  BY <2>1, <2>2, <2>3, <2>4, SendCases
<1>8. CASE StopSend
  <2>1. /\ Send("stop", NoFrame) /\ Stopping /\ bpc' = "poll"
        /\ UNCHANGED <<recordings, is_recording>>
    BY <1>8 DEF StopSend, EndRound
  <2>2. CASE Put("stop", NoFrame) /\ UNCHANGED linkVars
    <3>1. /\ wire'[Len(wire) + 1].rec = recordings
          /\ wire'[Len(wire) + 1].kind = "stop"
      BY <2>2, PutWire
    <3>2. /\ \A i \in DOMAIN wire' : i \in DOMAIN wire \/ i = Len(wire) + 1
          /\ \A i \in DOMAIN wire :
                wire'[i] = wire[i] /\ i \in DOMAIN wire' /\ i < Len(wire) + 1
          /\ Len(wire) + 1 \in DOMAIN wire'
      BY <2>2, PutWire
    <3>. QED  BY <2>1, <2>2, <3>1, <3>2 DEF linkVars
  <2>3. CASE UNCHANGED <<wire, epoch>> /\ (link' # "up" \/ ws_connected' = FALSE)
    BY <2>1, <2>3
  <2>4. link # "up" /\ UNCHANGED <<link, ws_connected>> => link' # "up"
    OBVIOUS
  <2>. QED  BY <2>1, <2>2, <2>3, <2>4, SendCases
<1>9. CASE FrameSend
  <2>1. /\ Send("audio", frame)
        /\ UNCHANGED <<recordings, is_recording, bpc>>
    BY <1>9 DEF FrameSend, buttonVars
  <2>2. CASE Put("audio", frame) /\ UNCHANGED linkVars
    <3>1. wire'[Len(wire) + 1].kind = "audio"
      BY <2>2, PutWire
    <3>2. /\ \A i \in DOMAIN wire' : i \in DOMAIN wire \/ i = Len(wire) + 1
          /\ \A i \in DOMAIN wire : wire'[i] = wire[i] /\ i \in DOMAIN wire'
      BY <2>2, PutWire
    <3>. QED  BY <2>1, <2>2, <3>1, <3>2 DEF linkVars
  <2>3. CASE UNCHANGED <<wire, epoch>> /\ (link' # "up" \/ ws_connected' = FALSE)
    BY <2>1, <2>3
  <2>4. link # "up" /\ UNCHANGED <<link, ws_connected>> => link' # "up"
    OBVIOUS
  <2>. QED  BY <2>1, <2>2, <2>3, <2>4, SendCases
<1>10. CASE LinkEvent
  <2>1. UNCHANGED <<wire, recordings, is_recording, bpc>>
    BY <1>10 DEF LinkEvent, buttonVars
  <2>2. CASE Connect
    <3>1. \A i \in DOMAIN wire : wire[i].epoch # epoch'
      BY <2>2, <1>t DEF Connect, PastInv
    <3>. QED  BY <2>1, <3>1
  <2>3. CASE Drop \/ ErrorEvent \/ ServerClose
    BY <2>1, <2>3 DEF Drop, ErrorEvent, ServerClose
  <2>4. CASE Finish
    BY <2>1, <2>4 DEF Finish
  <2>. QED  BY <1>10, <2>2, <2>3, <2>4 DEF LinkEvent, TaskNext
<1>. QED
  BY <1>1, <1>2, <1>3, <1>4, <1>5, <1>6, <1>7, <1>8, <1>9, <1>10
     DEF Next, ButtonTask, ReaderTask, UserToggles, FrameArrives,
         ReaderCommits, AudioRead, FrameCheck, FrameClient, TokenStored, vars, buttonVars

\* On a healthy connection every start message is followed by its stop.
THEOREM NoOrphanCorrect == Spec => []NoOrphanStart
<1>1. Init => PastInv /\ OrphanInv
  BY DEF Init, PastInv, OrphanInv, Starting, Stopping
<1>2. Spec => [](TypeInv /\ PastInv /\ OrphanInv)
  BY <1>1, TypeInit, TypeStep, PastStep, OrphanStep, PTL DEF Spec
<1>. QED  BY <1>2, OrphanImplies, PTL
=============================================================================
