-------------------------- MODULE StaleAudio_proofs --------------------------
(***************************************************************************)
(* StaleAudioBounded, for every ring capacity and every number of frames.  *)
(*                                                                         *)
(* Nothing is counted step by step. The frames a recording can begin with  *)
(* that were captured before it form a pool: those sent already and those  *)
(* that still wait in the ring or in the reader's hands. At the press the  *)
(* pool is what waits; afterwards it never grows.                          *)
(***************************************************************************)
EXTENDS VoiceSession_proofs, FiniteSetTheorems

\* The frames between the VB6824 and the wire.
Waiting ==
    {rx[k] : k \in DOMAIN rx} \cup (IF Holding THEN {frame} ELSE {})

SentStale(r) == {wire[i].frame : i \in StaleFrames(r)}

\* What recording r has sent of older audio, and what it may still send.
Pool(r) ==
    SentStale(r) \cup (IF is_recording /\ r = recordings
                       THEN {f \in Waiting : f.during # r} ELSE {})

StaleInv ==
    \A r \in 1..recordings :
        IsFiniteSet(Pool(r)) /\ Cardinality(Pool(r)) <= RingCap + 1

-----------------------------------------------------------------------------
\* Ring and reader hold at most one frame more than the ring's capacity.
LEMMA WaitingBound ==
    ASSUME TypeInv
    PROVE  IsFiniteSet(Waiting) /\ Cardinality(Waiting) <= RingCap + 1
<1>. DEFINE R == {rx[k] : k \in DOMAIN rx}
<1>1. /\ rx \in Seq(Frame) /\ Len(rx) \in Nat /\ Len(rx) <= RingCap
      /\ DOMAIN rx = 1..Len(rx) /\ RingCap \in Nat
  BY VoiceAssumption DEF TypeInv, TypeOK
<1>2. IsFiniteSet(1..Len(rx)) /\ Cardinality(1..Len(rx)) = Len(rx)
  <2>1. 1 \in Int /\ Len(rx) \in Int
    BY <1>1
  <2>2. /\ IsFiniteSet(1..Len(rx))
        /\ Cardinality(1..Len(rx)) = IF 1 > Len(rx) THEN 0 ELSE Len(rx) - 1 + 1
    BY <2>1, FS_Interval, Zenon
  <2>. QED  BY <1>1, <2>2
<1>3. rx \in Surjection(1..Len(rx), R)
  BY <1>1 DEF Surjection
<1>4. IsFiniteSet(R) /\ Cardinality(R) <= Len(rx)
  BY <1>2, <1>3, FS_Surjection
<1>5. Cardinality(R) \in Nat
  BY <1>4, FS_CardinalityType
<1>6. /\ IsFiniteSet(R \cup {frame})
      /\ Cardinality(R \cup {frame}) <= Cardinality(R) + 1
  <2>1. /\ IsFiniteSet(R \cup {frame})
        /\ Cardinality(R \cup {frame}) =
              IF frame \in R THEN Cardinality(R) ELSE Cardinality(R) + 1
    BY <1>4, FS_AddElement
  <2>. QED  BY <1>5, <2>1
<1>7. Waiting = R \/ Waiting = R \cup {frame}
  BY DEF Waiting
<1>8. CASE Waiting = R
  BY <1>1, <1>4, <1>5, <1>8
<1>9. CASE Waiting = R \cup {frame}
  <2>1. Cardinality(R \cup {frame}) \in Nat
    BY <1>6, FS_CardinalityType
  <2>. QED  BY <1>1, <1>4, <1>5, <1>6, <1>9, <2>1
<1>. QED  BY <1>7, <1>8, <1>9

\* Within a recording no older frame joins those that wait.
LEMMA WaitingShrinks ==
    ASSUME TypeInv, [Next]_vars, is_recording, UNCHANGED wire,
           NEW f \in Waiting', f.during # recordings
    PROVE  f \in Waiting
<1>. USE DEF Waiting, Holding
<1>t. rx \in Seq(Frame)
  BY DEF TypeInv, TypeOK
<1>1. CASE UNCHANGED <<rx, rpc, frame>>
  BY <1>1
<1>2. CASE FrameArrives
  <2>. DEFINE g == [num |-> captured + 1,
                    during |-> IF is_recording THEN recordings ELSE 0]
  <2>1. UNCHANGED <<rpc, frame>> /\ f # g
    BY <1>2 DEF FrameArrives, readerVars
  <2>2. PICK q \in {rx, Tail(rx)} : rx' = Append(q, g) /\ (q # rx => rx # <<>>)
    BY <1>2, <1>t, VoiceAssumption DEF FrameArrives
  <2>3. q \in Seq(Frame) /\ \A k \in DOMAIN q : \E l \in DOMAIN rx : q[k] = rx[l]
    <3>1. CASE q = rx
      BY <3>1, <1>t
    <3>2. CASE q = Tail(rx) /\ rx # <<>>
      <4>1. /\ q \in Seq(Frame) /\ DOMAIN q = 1..(Len(rx) - 1) /\ Len(rx) \in Nat
            /\ \A k \in DOMAIN q : q[k] = rx[k + 1]
        BY <3>2, <1>t
      <4>2. \A k \in DOMAIN q : k + 1 \in DOMAIN rx
        BY <4>1, <1>t
      <4>. QED  BY <4>1, <4>2
    <3>. QED  BY <2>2, <3>1, <3>2
  <2>4. \A k \in DOMAIN rx' : (k \in DOMAIN q /\ rx'[k] = q[k]) \/ rx'[k] = g
    BY <2>2, <2>3
  <2>. QED  BY <2>1, <2>3, <2>4
<1>3. CASE ReaderCommits
  BY <1>3 DEF ReaderCommits
<1>4. CASE AudioRead
  <2>1. rx # <<>> /\ frame' = rx[1] /\ rx' = Tail(rx) /\ 1 \in DOMAIN rx
    BY <1>4, <1>t DEF AudioRead
  <2>2. \A k \in DOMAIN rx' : rx'[k] = rx[k + 1] /\ k + 1 \in DOMAIN rx
    BY <2>1, <1>t
  <2>. QED  BY <2>1, <2>2
<1>5. CASE FrameCheck \/ FrameClient \/ FrameSend
  <2>1. UNCHANGED rx /\ Holding /\ (UNCHANGED frame \/ rpc' = "loop")
    BY <1>5 DEF FrameCheck, FrameClient, FrameSend
  <2>. QED  BY <2>1
<1>. QED
  BY <1>1, <1>2, <1>3, <1>4, <1>5
     DEF Next, ButtonTask, ReaderTask, UserToggles, PressWithoutToken,
         AuthWaitOver, NothingToDo, PressStarts, StartCheck, StartClient,
         StartSend, StopSend, ReleaseStops, StopCheck, StopClient,
         TokenStored, LinkEvent, vars, readerVars

\* What one step does to the wire, to the start of a recording, and to what
\* waits.
LEMMA WireCases ==
    ASSUME TypeInv, [Next]_vars
    PROVE  \/ UNCHANGED wire
           \/ /\ UNCHANGED <<is_recording, recordings, rx>>
              /\ \/ \E kind \in {"start", "stop"} :
                       Put(kind, NoFrame) /\ UNCHANGED readerVars
                 \/ /\ Put("audio", frame)
                    /\ Holding /\ rpc' = "loop"
<1>1. CASE StartSend \/ StopSend
  <2>1. /\ UNCHANGED <<is_recording, recordings, rx>> /\ UNCHANGED readerVars
        /\ \E kind \in {"start", "stop"} :
              Send(kind, NoFrame)
    BY <1>1 DEF StartSend, StopSend
  <2>. QED  BY <2>1, SendCases
<1>2. CASE FrameSend
  <2>1. /\ Send("audio", frame) /\ Holding /\ rpc' = "loop"
        /\ UNCHANGED <<is_recording, recordings, rx>>
    BY <1>2 DEF FrameSend, buttonVars, Holding
  <2>. QED  BY <2>1, SendCases
<1>. QED
  BY <1>1, <1>2
     DEF Next, ButtonTask, ReaderTask, UserToggles, PressWithoutToken,
         AuthWaitOver, NothingToDo, PressStarts, StartCheck, StartClient,
         ReleaseStops, StopCheck, StopClient, FrameArrives, ReaderCommits,
         AudioRead, FrameCheck, FrameClient, TokenStored,
         LinkEvent, vars

\* A recording that goes on, or is over, never gets more old audio.
LEMMA PoolShrinks ==
    ASSUME TypeInv, [Next]_vars, UNCHANGED recordings,
           is_recording' => is_recording, NEW r \in 1..recordings
    PROVE  Pool(r)' \subseteq Pool(r)
<1>. USE DEF Pool, SentStale, StaleFrames, Audio
<1>1. CASE UNCHANGED wire
  <2>1. SentStale(r)' = SentStale(r)
    BY <1>1
  <2>2. ASSUME is_recording', r = recordings, NEW f \in Waiting', f.during # r
        PROVE  is_recording /\ f \in Waiting
    BY <1>1, <2>2, WaitingShrinks
  <2>. QED  BY <2>1, <2>2
<1>2. CASE /\ UNCHANGED <<is_recording, recordings, rx>>
           /\ \E kind \in {"start", "stop"} :
                 Put(kind, NoFrame) /\ UNCHANGED readerVars
  <2>1. PICK kind \in {"start", "stop"} :
          Put(kind, NoFrame)
    BY <1>2
  <2>2. /\ \A i \in DOMAIN wire' : i \in DOMAIN wire \/ i = Len(wire) + 1
        /\ \A i \in DOMAIN wire : wire'[i] = wire[i]
        /\ wire'[Len(wire) + 1].kind # "audio"
    BY <2>1, PutWire
  <2>3. Waiting' = Waiting
    BY <1>2 DEF Waiting, Holding, readerVars
  <2>4. SentStale(r)' \subseteq SentStale(r)
    BY <2>2
  <2>. QED  BY <1>2, <2>3, <2>4
<1>3. CASE /\ UNCHANGED <<is_recording, recordings, rx>>
           /\ Put("audio", frame) /\ Holding /\ rpc' = "loop"
  <2>1. /\ \A i \in DOMAIN wire' : i \in DOMAIN wire \/ i = Len(wire) + 1
        /\ \A i \in DOMAIN wire : wire'[i] = wire[i]
        /\ wire'[Len(wire) + 1].rec = recordings
        /\ wire'[Len(wire) + 1].frame = frame
        /\ wire'[Len(wire) + 1].live = is_recording
    BY <1>3, PutWire
  <2>2. Waiting' \subseteq Waiting /\ frame \in Waiting
    BY <1>3 DEF Waiting, Holding
  <2>3. ASSUME NEW i \in StaleFrames(r)'
        PROVE  wire'[i].frame \in Pool(r)
    <3>1. CASE i \in DOMAIN wire
      BY <2>1, <2>3, <3>1
    <3>2. CASE i = Len(wire) + 1
      BY <2>1, <2>2, <2>3, <3>2
    <3>. QED  BY <2>1, <2>3, <3>1, <3>2
  <2>4. SentStale(r)' \subseteq Pool(r)
    BY <2>3
  <2>. QED  BY <1>3, <2>2, <2>4
<1>. QED  BY <1>1, <1>2, <1>3, WireCases

\* A new recording begins with nothing but what waits.
LEMMA PoolAtPress ==
    ASSUME TypeInv, PastInv, PressStarts, NEW n, n = recordings + 1
    PROVE  /\ Pool(n)' \subseteq Waiting
           /\ \A r \in 1..recordings : Pool(r)' \subseteq Pool(r)
<1>1. /\ recordings' = recordings + 1 /\ recordings \in Nat
      /\ UNCHANGED <<wire, rx, rpc, frame>>
  BY VoiceAssumption DEF PressStarts, readerVars, TypeInv, TypeOK
<1>2. \A i \in DOMAIN wire : wire[i].rec # n
  <2>1. \A i \in DOMAIN wire : wire[i] \in Message
    BY DEF TypeInv, TypeOK
  <2>2. \A i \in DOMAIN wire : wire[i].rec \in Nat
    BY <2>1, VoiceAssumption DEF Message
  <2>. QED  BY <1>1, <2>2 DEF PastInv
<1>3. Waiting' = Waiting
  BY <1>1 DEF Waiting, Holding
<1>4. \A r \in Nat : SentStale(r)' = SentStale(r)
  BY <1>1 DEF SentStale, StaleFrames, Audio
<1>5. SentStale(n) = {}
  BY <1>2 DEF SentStale, StaleFrames
<1>6. Pool(n)' \subseteq Waiting
  <2>1. SentStale(n)' = {}
    BY <1>1, <1>4, <1>5
  <2>. QED  BY <1>3, <2>1 DEF Pool
<1>7. ASSUME NEW r \in 1..recordings  PROVE Pool(r)' \subseteq Pool(r)
  <2>1. r \in Nat /\ r # recordings'
    BY <1>1
  <2>. QED  BY <1>4, <2>1 DEF Pool
<1>. QED  BY <1>6, <1>7

\* Only a press starts a recording.
LEMMA RecordingCases ==
    ASSUME [Next]_vars
    PROVE  \/ PressStarts
           \/ UNCHANGED recordings /\ (is_recording' => is_recording)
<1>1. CASE ReleaseStops
  BY <1>1, Zenon DEF ReleaseStops
<1>2. CASE ButtonTask /\ ~ReleaseStops /\ ~PressStarts
  <2>1. UNCHANGED <<is_recording, recordings>>
    BY <1>2
       DEF ButtonTask, PressWithoutToken, AuthWaitOver, NothingToDo,
           StartCheck, StartClient, StartSend, StopSend, StopCheck, StopClient
  <2>. QED  BY <2>1
<1>3. CASE \/ UserToggles \/ FrameArrives \/ ReaderTask
           \/ TokenStored \/ LinkEvent
           \/ UNCHANGED vars
  <2>1. UNCHANGED buttonVars
    BY <1>3
       DEF UserToggles, FrameArrives, ReaderTask, ReaderCommits, AudioRead,
           FrameCheck, FrameClient, FrameSend, TokenStored,
           LinkEvent, vars
  <2>. QED  BY <2>1, Zenon DEF buttonVars
<1>. QED  BY <1>1, <1>2, <1>3, Zenon DEF Next

LEMMA StaleStep == TypeInv /\ PastInv /\ StaleInv /\ [Next]_vars => StaleInv'
<1>. SUFFICES ASSUME TypeInv, PastInv, StaleInv, [Next]_vars,
                     NEW r \in 1..recordings'
              PROVE  (IsFiniteSet(Pool(r)) /\ Cardinality(Pool(r)) <= RingCap + 1)'
  BY DEF StaleInv
<1>t. recordings \in Nat /\ RingCap \in Nat
  BY VoiceAssumption DEF TypeInv, TypeOK
\* A set within a small one is small.
<1>s. ASSUME NEW S, NEW T, S \subseteq T, IsFiniteSet(T),
             Cardinality(T) <= RingCap + 1
      PROVE  IsFiniteSet(S) /\ Cardinality(S) <= RingCap + 1
  <2>1. IsFiniteSet(S) /\ Cardinality(S) <= Cardinality(T)
    BY <1>s, FS_Subset
  <2>2. Cardinality(S) \in Nat /\ Cardinality(T) \in Nat
    BY <1>s, <2>1, FS_CardinalityType
  <2>. QED  BY <1>s, <1>t, <2>1, <2>2
<1>1. CASE PressStarts
  <2>1. recordings' = recordings + 1
    BY <1>1 DEF PressStarts
  <2>2. CASE r = recordings + 1
    <3>1. Pool(r)' \subseteq Waiting
      BY <1>1, <2>2, PoolAtPress
    <3>. QED  BY <3>1, <1>s, WaitingBound
  <2>3. CASE r \in 1..recordings
    BY <1>1, <2>3, <1>s, PoolAtPress DEF StaleInv
  <2>. QED  BY <2>1, <2>2, <2>3, <1>t
<1>2. CASE UNCHANGED recordings /\ (is_recording' => is_recording)
  BY <1>2, <1>s, PoolShrinks DEF StaleInv
<1>. QED  BY <1>1, <1>2, RecordingCases

\* No frame is sent twice, so the messages are as many as their frames.
LEMMA StaleImplies == TypeInv /\ OrderInv /\ StaleInv => StaleAudioBounded
<1>. SUFFICES ASSUME TypeInv, OrderInv, StaleInv, NEW r \in 1..recordings
              PROVE  Cardinality(StaleFrames(r)) <= RingCap + 1
  BY DEF StaleAudioBounded
<1>. DEFINE g == [i \in StaleFrames(r) |-> wire[i].frame]
<1>1. /\ IsFiniteSet(SentStale(r))
      /\ Cardinality(SentStale(r)) <= Cardinality(Pool(r))
      /\ Cardinality(Pool(r)) <= RingCap + 1 /\ Cardinality(Pool(r)) \in Nat
  <2>1. IsFiniteSet(Pool(r)) /\ Cardinality(Pool(r)) <= RingCap + 1
    BY DEF StaleInv
  <2>2. SentStale(r) \subseteq Pool(r)
    BY DEF Pool
  <2>. QED  BY <2>1, <2>2, FS_Subset, FS_CardinalityType
<1>2. ASSUME NEW i \in StaleFrames(r), NEW j \in StaleFrames(r),
             wire[i].frame = wire[j].frame
      PROVE  i = j
  <2>1. /\ i \in DOMAIN wire /\ j \in DOMAIN wire /\ Audio(i) /\ Audio(j)
    BY DEF StaleFrames
  <2>2. i \in Nat /\ j \in Nat
    BY <2>1 DEF TypeInv, TypeOK
  <2>3. wire[i].frame.num \in Nat
    BY <2>1, WireFrame, FrameNum
  <2>. QED  BY <1>2, <2>1, <2>2, <2>3 DEF OrderInv, FramesInOrder
<1>3. g \in Injection(StaleFrames(r), SentStale(r))
  BY <1>2 DEF Injection, IsInjective, SentStale
<1>4. /\ IsFiniteSet(StaleFrames(r))
      /\ Cardinality(StaleFrames(r)) <= Cardinality(SentStale(r))
  BY <1>1, <1>3, FS_Injection
<1>5. Cardinality(StaleFrames(r)) \in Nat /\ Cardinality(SentStale(r)) \in Nat
  BY <1>1, <1>4, FS_CardinalityType
<1>. QED  BY <1>1, <1>4, <1>5, VoiceAssumption

\* However full the ring, and whatever the reader still held: a recording
\* sends at most RingCap + 1 frames that were captured before it began.
THEOREM StaleAudioCorrect == Spec => []StaleAudioBounded
<1>1. Init => PastInv /\ OrderInv /\ StaleInv
  BY DEF Init, PastInv, OrderInv, FramesInOrder, Holding, StaleInv
<1>2. Spec => [](TypeInv /\ PastInv /\ OrderInv /\ StaleInv)
  BY <1>1, TypeInit, TypeStep, PastStep, OrderStep, StaleStep, PTL DEF Spec
<1>. QED  BY <1>2, StaleImplies, PTL
=============================================================================
