---------------------------- MODULE Playback_proofs ----------------------------
(***************************************************************************)
(* Proofs about Playback, for every length of the ring, of a chunk and of  *)
(* the frames: the types with the ownership of the lock and the accounting *)
(* of the ring, that only full chunks are sent, and that the reader waits  *)
(* for room in the ring no longer than one frame plays.                    *)
(***************************************************************************)
EXTENDS Playback, TLAPS

-----------------------------------------------------------------------------
(* Whole numbers of chunks *)

LEMMA MultLess ==
  ASSUME NEW a \in Nat, NEW b \in Nat, NEW c \in Nat \ {0}
  PROVE  /\ a <= b => a * c <= b * c
         /\ a * c < b * c => a < b
         /\ a * c <= b * c => a <= b
<1>1. a <= b => a * c <= b * c
  <2> SUFFICES ASSUME a <= b PROVE a * c <= b * c
    OBVIOUS
  <2>1. PICK d \in Nat : b = a + d
    <3>1. b - a \in Nat /\ b = a + (b - a)
      OBVIOUS
    <3>2. QED
      BY <3>1
  <2>2. b * c = a * c + d * c /\ d * c >= 0
    BY <2>1
  <2>3. QED
    BY <2>2
<1>2. b < a => b * c + c <= a * c
  <2> SUFFICES ASSUME b < a PROVE b * c + c <= a * c
    OBVIOUS
  <2>1. PICK d \in Nat : a = b + 1 + d
    <3>1. a - b - 1 \in Nat /\ a = b + 1 + (a - b - 1)
      OBVIOUS
    <3>2. QED
      BY <3>1
  <2>2. a * c = b * c + c + d * c /\ d * c >= 0
    BY <2>1
  <2>3. QED
    BY <2>2
<1>3. a * c \in Nat /\ b * c \in Nat
  OBVIOUS
<1>4. QED
  BY <1>1, <1>2, <1>3

Chunks(n) == \E k \in Nat : n = k * ChunkLen

LEMMA ChunkFacts ==
  ASSUME NEW x, NEW y, Chunks(x), Chunks(y)
  PROVE  /\ x \in Nat /\ y \in Nat
         /\ Chunks(x + y)
         /\ x < y => x + ChunkLen <= y
         /\ x <= y => Chunks(y - x)
<1> USE PlaybackAssumption
<1>1. PICK a \in Nat : x = a * ChunkLen
  BY DEF Chunks
<1>2. PICK b \in Nat : y = b * ChunkLen
  BY DEF Chunks
<1>3. x \in Nat /\ y \in Nat
  BY <1>1, <1>2
<1>4. x + y = (a + b) * ChunkLen /\ a + b \in Nat
  BY <1>1, <1>2
<1>5. x < y => x + ChunkLen <= y
  <2>1. x < y => a < b
    BY <1>1, <1>2, MultLess
  <2>2. a < b => (a + 1) * ChunkLen <= b * ChunkLen
    BY MultLess
  <2>3. (a + 1) * ChunkLen = a * ChunkLen + ChunkLen
    OBVIOUS
  <2>4. QED
    BY <1>1, <1>2, <2>1, <2>2, <2>3
<1>6. x <= y => y - x = (b - a) * ChunkLen /\ b - a \in Nat
  <2>1. x <= y => a <= b
    BY <1>1, <1>2, MultLess
  <2>2. y - x = (b - a) * ChunkLen
    BY <1>1, <1>2
  <2>3. QED
    BY <2>1, <2>2
<1>7. QED
  BY <1>3, <1>4, <1>5, <1>6 DEF Chunks

LEMMA Lengths ==
  /\ RingLen \in Nat \ {0} /\ ChunkLen \in Nat \ {0} /\ ChunkLen <= RingLen
  /\ Chunks(0) /\ Chunks(ChunkLen) /\ Chunks(RingLen)
  /\ FrameLens \subseteq 1..RingLen
  /\ \A n \in FrameLens : Chunks(n)
<1> USE PlaybackAssumption
<1>1. RingLen \in Nat /\ Chunks(RingLen)
  BY DEF RingLen, Chunks
<1>2. Chunks(0) /\ Chunks(ChunkLen)
  <2>1. 0 = 0 * ChunkLen /\ ChunkLen = 1 * ChunkLen
    OBVIOUS
  <2>2. QED
    BY <2>1 DEF Chunks
<1>3. ChunkLen <= RingLen
  <2>1. 1 * ChunkLen <= RingChunks * ChunkLen
    BY MultLess
  <2>2. QED
    BY <2>1 DEF RingLen
<1>4. ASSUME NEW n \in FrameLens PROVE n \in 1..RingLen /\ Chunks(n)
  <2>1. PICK k \in FrameChunks : n = k * ChunkLen
    BY DEF FrameLens
  <2>2. k \in Nat /\ 1 <= k /\ k <= RingChunks
    OBVIOUS
  <2>3. 1 * ChunkLen <= k * ChunkLen /\ k * ChunkLen <= RingChunks * ChunkLen
    BY <2>2, MultLess
  <2>4. QED
    BY <2>1, <2>2, <2>3 DEF RingLen, Chunks
<1>5. QED
  BY <1>1, <1>2, <1>3, <1>4

\* What xRingbufferReceiveUpTo hands out.
LEMMA ItemLenIsLeast ==
  ASSUME used \in Nat, rd \in 0..RingLen
  PROVE  /\ ItemLen \in {ChunkLen, used, RingLen - rd}
         /\ ItemLen <= ChunkLen /\ ItemLen <= used /\ ItemLen <= RingLen - rd
<1>1. ChunkLen \in Nat /\ RingLen \in Nat
  BY Lengths
<1>2. \E n \in {ChunkLen, used, RingLen - rd} :
        n <= ChunkLen /\ n <= used /\ n <= RingLen - rd
  BY <1>1
<1>3. QED
  BY <1>2 DEF ItemLen

-----------------------------------------------------------------------------
(* The invariant *)

(***************************************************************************)
(* As long as nothing was decoded from a part, everything in the ring is a *)
(* whole number of chunks; and each chunk the reader has waited for made   *)
(* room for the one write that keeps it waiting.                           *)
(***************************************************************************)
Aligned ==
    /\ held \in {0, ChunkLen}
    /\ Chunks(rd) /\ Chunks(used)
    /\ cpc \in {"message", "write"} => ~more
    /\ cpc = "write" => pcm \in FrameLens

Stalled ==
    /\ cpc \in {"locked", "reading", "message", "part"} => stalls = 0
    /\ cpc = "write" => /\ stalls * ChunkLen <= RingLen - used - held
                        /\ stalls * ChunkLen <= pcm
    /\ \E k \in FrameChunks : stalls <= k

IInv ==
    /\ TypeOK
    /\ out = "taken" <=> held # 0
    /\ rd + held <= RingLen
    /\ sender["reader"] # "wait" => stalls = 0
    /\ ~cut => Aligned /\ Stalled

LEMMA SomeFrame == \E k \in FrameChunks : k \in Nat /\ 0 <= k
<1>1. PICK k \in FrameChunks : TRUE
  BY PlaybackAssumption
<1>2. k \in Nat /\ 0 <= k
  BY PlaybackAssumption
<1>3. QED
  BY <1>2

LEMMA InitInv == Init => IInv
<1> SUFFICES ASSUME Init PROVE IInv
  OBVIOUS
<1> USE Lengths, PlaybackAssumption
<1>1. TypeOK
  <2>1. sender \in [SenderTasks -> {"idle", "wait", "write"}]
        /\ \A s \in SenderTasks : sender[s] = "idle"
    BY DEF Init
  <2>2. pcm \in 0..RingLen /\ events \in 0..MaxEvents /\ stalls \in Nat
        /\ rd \in 0..(RingLen - 1) /\ used \in 0..RingLen /\ held \in 0..RingLen
        /\ used + held <= RingLen
    BY DEF Init
  <2>3. /\ lock = "client" <=> cpc # "top"
        /\ \A s \in SenderTasks : lock = s <=> sender[s] = "write"
        /\ lock \in {"free", "client"} \cup SenderTasks
    BY <2>1 DEF Init, SenderTasks
  <2>4. more \in BOOLEAN /\ cut \in BOOLEAN /\ g_output_enabled \in BOOLEAN
        /\ cpc \in {"top", "locked", "reading", "write"}
        /\ out \in {"loop", "taken", "pace"}
    BY DEF Init
  <2>5. QED
    BY <2>1, <2>2, <2>3, <2>4, Zenon DEF TypeOK
<1>2. (out = "taken" <=> held # 0) /\ rd + held <= RingLen
  BY DEF Init
<1>3. Aligned /\ Stalled
  BY SomeFrame DEF Init, Aligned, Stalled
<1>4. QED
  BY <1>1, <1>2, <1>3 DEF IInv, Init

-----------------------------------------------------------------------------
(* The steps of the client task *)

LEMMA ClientLocksInv == IInv /\ ClientLocks => IInv'
<1> SUFFICES ASSUME IInv, ClientLocks PROVE IInv'
  OBVIOUS
<1> USE DEF ClientLocks, MayLock, ringVars
<1>1. TypeOK'
  BY DEF IInv, TypeOK, SenderTasks
<1>2. UNCHANGED <<out, rd, used, held, stalls, sender, cut>>
  OBVIOUS
<1>3. stalls = 0
  BY DEF IInv, TypeOK, SenderTasks
<1>4. ~cut => Aligned'
  BY DEF IInv, Aligned, Chunks
<1>5. ~cut => Stalled'
  BY <1>3, SomeFrame DEF IInv, Stalled
<1>6. QED
  BY <1>1, <1>2, <1>4, <1>5 DEF IInv

LEMMA NothingToReadInv == IInv /\ NothingToRead => IInv'
<1> SUFFICES ASSUME IInv, NothingToRead PROVE IInv'
  OBVIOUS
<1> USE DEF NothingToRead, ringVars
<1>1. TypeOK'
  BY DEF IInv, TypeOK, SenderTasks
<1>2. ~cut => Aligned'
  BY DEF IInv, Aligned, Chunks
<1>3. ~cut => Stalled'
  BY DEF IInv, Stalled
<1>4. QED
  BY <1>1, <1>2, <1>3 DEF IInv

LEMMA HoldsLock == ASSUME TypeOK, cpc # "top" PROVE lock = "client"
BY Zenon DEF TypeOK

LEMMA Numbers ==
  ASSUME TypeOK
  PROVE  /\ pcm \in 0..RingLen /\ events \in 0..MaxEvents /\ stalls \in Nat
         /\ rd \in 0..(RingLen - 1) /\ used \in 0..RingLen /\ held \in 0..RingLen
         /\ used + held <= RingLen
BY Zenon DEF TypeOK

LEMMA LensFit ==
  ASSUME NEW n, n = 0 \/ n \in FrameLens \/ n \in PartLens
  PROVE  n \in 0..RingLen
<1>1. RingLen \in Nat /\ FrameLens \subseteq 1..RingLen /\ PartLens \subseteq 1..RingLen
  BY Lengths, PlaybackAssumption
<1>2. 1..RingLen \subseteq 0..RingLen /\ 0 \in 0..RingLen
  BY <1>1
<1>3. QED
  BY <1>1, <1>2, Zenon

LEMMA OneEventInv ==
  ASSUME TypeOK, OneEvent PROVE events' \in 0..MaxEvents
BY Numbers, PlaybackAssumption DEF OneEvent

LEMMA ReadMessageInv == IInv /\ ReadMessage => IInv'
<1> SUFFICES ASSUME IInv, ReadMessage PROVE IInv'
  OBVIOUS
<1> USE DEF ReadMessage, ringVars
<1>1. TypeOK'
  <2>1. events' \in 0..MaxEvents
    BY OneEventInv DEF IInv
  <2>2. QED
    BY <2>1 DEF IInv, TypeOK, SenderTasks
<1>2. ~cut => Aligned' /\ Stalled'
  BY DEF IInv, Aligned, Stalled, Chunks
<1>3. QED
  BY <1>1, <1>2 DEF IInv

LEMMA ReadPartInv == IInv /\ ReadPart => IInv'
<1> SUFFICES ASSUME IInv, ReadPart PROVE IInv'
  OBVIOUS
<1> USE DEF ReadPart, ringVars
<1>1. TypeOK'
  <2>1. events' \in 0..MaxEvents /\ more' \in BOOLEAN
    BY OneEventInv DEF IInv
  <2>2. QED
    BY <2>1 DEF IInv, TypeOK, SenderTasks
<1>2. ~cut => Aligned' /\ Stalled'
  BY DEF IInv, Aligned, Stalled, Chunks
<1>3. QED
  BY <1>1, <1>2 DEF IInv

\* What the handler decodes leaves the types, and the lock with its holder.
LEMMA DecodeType ==
  ASSUME TypeOK, cpc # "top", NEW lens, lens \in {FrameLens, PartLens},
         Decode(lens), cut' \in BOOLEAN,
         UNCHANGED <<more, events, sender, stalls, g_output_enabled, out, ringVars>>
  PROVE  TypeOK'
<1>1. pcm' \in 0..RingLen
  <2>1. pcm' = 0 \/ pcm' \in FrameLens \/ pcm' \in PartLens
    BY DEF Decode
  <2>2. QED
    BY <2>1, LensFit
<1>2. /\ cpc' \in {"top", "reading", "write"}
      /\ lock' = (IF cpc' = "top" THEN "free" ELSE lock)
  BY DEF Decode, PartDone
<1>3. lock = "client"
  BY HoldsLock
<1>4. QED
  BY <1>1, <1>2, <1>3 DEF TypeOK, SenderTasks, ringVars

LEMMA HandleMessageInv == IInv /\ HandleMessage => IInv'
<1> SUFFICES ASSUME IInv, HandleMessage PROVE IInv'
  OBVIOUS
<1> USE DEF HandleMessage
<1>1. TypeOK'
  <2>1. cpc # "top" /\ cut' \in BOOLEAN /\ TypeOK
    BY DEF IInv, TypeOK
  <2>2. QED
    BY <2>1, DecodeType
<1>2. ~cut => Aligned' /\ Stalled'
  <2> SUFFICES ASSUME ~cut PROVE Aligned' /\ Stalled'
    OBVIOUS
  <2>1. stalls = 0 /\ Aligned /\ ~more
    BY DEF IInv, Stalled, Aligned
  <2>2. cpc' # "message" /\ (cpc' = "write" => pcm' \in FrameLens)
    BY <2>1 DEF Decode, PartDone
  <2>3. Aligned'
    BY <2>1, <2>2 DEF Aligned, Chunks, ringVars
  <2>4. Stalled'
    <3>1. stalls' = 0 /\ used' = used /\ held' = held
      BY <2>1 DEF ringVars
    <3>2. 0 * ChunkLen = 0 /\ 0 <= RingLen - used - held
      BY Numbers, Lengths DEF IInv
    <3>3. 0 <= pcm'
      BY <1>1 DEF TypeOK
    <3>4. QED
      BY <3>1, <3>2, <3>3, SomeFrame DEF Stalled
  <2>5. QED
    BY <2>3, <2>4
<1>3. QED
  BY <1>1, <1>2 DEF IInv, ringVars

LEMMA HandlePartInv == IInv /\ HandlePart => IInv'
<1> SUFFICES ASSUME IInv, HandlePart PROVE IInv'
  OBVIOUS
<1> USE DEF HandlePart
<1>1. TypeOK'
  <2>1. cpc # "top" /\ cut' \in BOOLEAN /\ TypeOK
    BY DEF IInv
  <2>2. QED
    BY <2>1, DecodeType
<1>2. ~cut' => Aligned' /\ Stalled'
  <2> SUFFICES ASSUME ~cut' PROVE Aligned' /\ Stalled'
    OBVIOUS
  <2>1. ~cut /\ pcm' = 0
    OBVIOUS
  <2>2. cpc' \in {"reading", "top"}
    <3>1. ASSUME pcm' \in PartLens PROVE FALSE
      BY <2>1, <3>1, PlaybackAssumption, Lengths
    <3>2. QED
      BY <3>1 DEF Decode, PartDone
  <2>3. stalls = 0 /\ Aligned
    BY <2>1 DEF IInv, Stalled
  <2>4. Aligned' /\ Stalled'
    BY <2>2, <2>3, SomeFrame DEF Aligned, Stalled, Chunks, ringVars
  <2>5. QED
    BY <2>4
<1>3. QED
  BY <1>1, <1>2 DEF IInv, ringVars

LEMMA ReadEndsInv == IInv /\ ReadEnds => IInv'
<1> SUFFICES ASSUME IInv, ReadEnds PROVE IInv'
  OBVIOUS
<1> USE DEF ReadEnds, PartDone, ringVars
<1>1. TypeOK'
  BY DEF IInv, TypeOK, SenderTasks
<1>2. ~cut => Aligned'
  BY DEF IInv, Aligned, Chunks
<1>3. ~cut => Stalled'
  BY DEF IInv, Stalled
<1>4. QED
  BY <1>1, <1>2, <1>3 DEF IInv

LEMMA AudioWriteInv == IInv /\ AudioWrite => IInv'
<1> SUFFICES ASSUME IInv, AudioWrite PROVE IInv'
  OBVIOUS
<1> USE Lengths DEF AudioWrite, Fits, PartDone
<1>1. TypeOK'
  <2>1. pcm' \in 0..RingLen /\ used' \in 0..RingLen /\ used' + held' <= RingLen
    BY DEF IInv, TypeOK
  <2>2. /\ cpc' \in {"top", "reading"}
        /\ lock' = (IF cpc' = "top" THEN "free" ELSE lock)
    OBVIOUS
  <2>3. lock = "client"
    BY HoldsLock DEF IInv
  <2>4. QED
    BY <2>1, <2>2, <2>3 DEF IInv, TypeOK, SenderTasks
<1>2. ~cut => Aligned' /\ Stalled'
  <2> SUFFICES ASSUME ~cut PROVE Aligned' /\ Stalled'
    OBVIOUS
  <2>1. Aligned /\ Stalled /\ ~more
    BY DEF IInv, Aligned
  <2>2. cpc' = "top"
    BY <2>1
  <2>3. Chunks(used')
    BY <2>1, ChunkFacts DEF Aligned
  <2>4. Aligned'
    BY <2>1, <2>2, <2>3 DEF Aligned, Chunks
  <2>5. Stalled'
    BY <2>1, <2>2 DEF Stalled
  <2>6. QED
    BY <2>4, <2>5
<1>3. QED
  BY <1>1, <1>2 DEF IInv

-----------------------------------------------------------------------------
(* The steps of __send_task *)

LEMMA EnableOutputInv == IInv /\ EnableOutput => IInv'
<1> SUFFICES ASSUME IInv, EnableOutput PROVE IInv'
  OBVIOUS
<1> USE DEF EnableOutput, clientVars, ringVars
<1>1. TypeOK'
  BY DEF IInv, TypeOK
<1>2. ~cut => Aligned'
  BY DEF IInv, Aligned, Chunks
<1>3. ~cut => Stalled'
  BY DEF IInv, Stalled
<1>4. QED
  BY <1>1, <1>2, <1>3 DEF IInv

LEMMA PacedInv == IInv /\ Paced => IInv'
<1> SUFFICES ASSUME IInv, Paced PROVE IInv'
  OBVIOUS
<1> USE DEF Paced, clientVars, ringVars
<1>1. TypeOK'
  BY DEF IInv, TypeOK
<1>2. ~cut => Aligned'
  BY DEF IInv, Aligned, Chunks
<1>3. ~cut => Stalled'
  BY DEF IInv, Stalled
<1>4. QED
  BY <1>1, <1>2, <1>3 DEF IInv

LEMMA TakeChunkInv == IInv /\ TakeChunk => IInv'
<1> SUFFICES ASSUME IInv, TakeChunk PROVE IInv'
  OBVIOUS
<1> USE Lengths DEF TakeChunk, clientVars
<1>1. /\ rd \in 0..(RingLen - 1) /\ used \in 1..RingLen /\ held = 0
      /\ UNCHANGED <<rd, pcm, cpc, more, stalls, sender, cut>>
  BY Numbers DEF IInv
<1>2. /\ ItemLen \in {ChunkLen, used, RingLen - rd}
      /\ ItemLen <= ChunkLen /\ ItemLen <= used /\ ItemLen <= RingLen - rd
  BY <1>1, ItemLenIsLeast
<1>3. /\ held' = ItemLen /\ used' = used - ItemLen /\ out' = "taken"
      /\ ItemLen \in 1..RingLen
  BY <1>1, <1>2
<1>4. /\ used' \in 0..RingLen /\ held' \in 0..RingLen /\ held' # 0
      /\ used' + held' = used + held /\ rd' + held' <= RingLen
  BY <1>1, <1>2, <1>3
<1>5. TypeOK'
  BY <1>1, <1>4 DEF IInv, TypeOK
<1>6. ~cut => Aligned'
  <2> SUFFICES ASSUME ~cut PROVE Aligned'
    OBVIOUS
  <2>1. Aligned
    BY DEF IInv
  <2>2. ChunkLen <= used /\ rd + ChunkLen <= RingLen
    <3>1. 0 < used => 0 + ChunkLen <= used
      BY <2>1, ChunkFacts DEF Aligned
    <3>2. rd < RingLen => rd + ChunkLen <= RingLen
      BY <2>1, ChunkFacts DEF Aligned
    <3>3. QED
      BY <1>1, <3>1, <3>2
  <2>3. ItemLen = ChunkLen
    BY <1>1, <1>2, <2>2
  <2>4. Chunks(used')
    <3>1. Chunks(used - ChunkLen)
      BY <2>1, <2>2, ChunkFacts DEF Aligned
    <3>2. QED
      BY <1>3, <2>3, <3>1
  <2>5. Chunks(rd')
    BY <1>1, <2>1 DEF Aligned
  <2>6. QED
    BY <1>1, <1>3, <2>1, <2>3, <2>4, <2>5 DEF Aligned
<1>7. ~cut => Stalled'
  <2>1. RingLen - used' - held' = RingLen - used - held
    BY <1>1, <1>4
  <2>2. QED
    BY <1>1, <2>1 DEF IInv, Stalled
<1>8. QED
  BY <1>1, <1>3, <1>4, <1>5, <1>6, <1>7 DEF IInv

LEMMA SendChunkInv == IInv /\ SendChunk => IInv'
<1> SUFFICES ASSUME IInv, SendChunk PROVE IInv'
  OBVIOUS
<1> USE Lengths DEF SendChunk, clientVars
<1>1. /\ rd \in 0..(RingLen - 1) /\ used \in 0..RingLen /\ held \in 0..RingLen
      /\ used + held <= RingLen /\ rd + held <= RingLen
      /\ stalls \in Nat /\ pcm \in 0..RingLen
  BY Numbers DEF IInv
<1>2. /\ rd' \in 0..(RingLen - 1) /\ held' = 0 /\ used' = used
      /\ rd' = 0 \/ rd' = rd + held
      /\ stalls' \in Nat /\ out' = "pace"
      /\ UNCHANGED <<pcm, cpc, more, sender, cut>>
  BY <1>1
<1>3. TypeOK'
  BY <1>1, <1>2 DEF IInv, TypeOK
<1>4. sender'["reader"] # "wait" => stalls' = 0
  BY DEF IInv, ReaderStalled
<1>5. ~cut => Aligned'
  <2> SUFFICES ASSUME ~cut PROVE Aligned'
    OBVIOUS
  <2>1. Aligned
    BY DEF IInv
  <2>2. Chunks(rd + held)
    BY <2>1, ChunkFacts DEF Aligned
  <2>3. Chunks(rd') /\ Chunks(used')
    BY <1>2, <2>1, <2>2 DEF Aligned
  <2>4. QED
    BY <1>2, <2>1, <2>3 DEF Aligned
<1>6. ~cut => Stalled'
  <2> SUFFICES ASSUME ~cut PROVE Stalled'
    OBVIOUS
  <2>1. Aligned /\ Stalled
    BY DEF IInv
  <2>2. CASE ~ReaderStalled
    <3>1. stalls' = stalls /\ RingLen - used' - held' >= RingLen - used - held
      BY <1>1, <1>2, <2>2
    <3>2. stalls * ChunkLen \in Nat
      BY <1>1
    <3>3. stalls' * ChunkLen = stalls * ChunkLen
      BY <3>1
    <3>4. cpc = "write" => stalls' * ChunkLen <= RingLen - used' - held'
      BY <1>1, <1>2, <2>1, <3>1, <3>2, <3>3 DEF Stalled
    <3>5. QED
      BY <1>2, <2>1, <3>1, <3>4 DEF Stalled
  <2>3. CASE ReaderStalled
    <3>1. stalls' = stalls + 1 /\ cpc = "write" /\ held = ChunkLen
          /\ used + held + pcm > RingLen
      BY <1>1, <2>1, <2>3 DEF ReaderStalled, Fits, IInv, Aligned
    <3>2. stalls' * ChunkLen = stalls * ChunkLen + ChunkLen
          /\ stalls * ChunkLen \in Nat
      BY <1>1, <3>1
    <3>3. stalls * ChunkLen <= RingLen - used - held /\ pcm \in FrameLens
      BY <2>1, <3>1 DEF Aligned, Stalled
    <3>4. stalls' * ChunkLen <= RingLen - used' - held'
      BY <1>1, <1>2, <3>1, <3>2, <3>3
    <3>5. stalls * ChunkLen < pcm
      BY <1>1, <3>1, <3>2, <3>3
    <3>6. stalls' * ChunkLen <= pcm
      <4>1. Chunks(stalls * ChunkLen) /\ Chunks(pcm)
        BY <1>1, <3>3 DEF Chunks
      <4>2. stalls * ChunkLen + ChunkLen <= pcm
        BY <4>1, <3>5, ChunkFacts
      <4>3. QED
        BY <3>2, <4>2
    <3>7. \E k \in FrameChunks : stalls' <= k
      <4>1. PICK k \in FrameChunks : pcm = k * ChunkLen
        BY <3>3 DEF FrameLens
      <4>2. k \in Nat
        BY PlaybackAssumption
      <4>3. stalls' * ChunkLen <= k * ChunkLen => stalls' <= k
        BY <1>2, <4>2, MultLess
      <4>4. QED
        BY <3>6, <4>1, <4>3
    <3>8. QED
      BY <1>2, <3>1, <3>4, <3>6, <3>7 DEF Stalled
  <2>4. QED
    BY <2>2, <2>3
<1>7. QED
  BY <1>1, <1>2, <1>3, <1>4, <1>5, <1>6 DEF IInv

-----------------------------------------------------------------------------
(* The steps of the senders *)

LEMMA SendersInv ==
  ASSUME IInv, NEW s \in SenderTasks,
         WantsToSend(s) \/ SenderLocks(s) \/ SenderDone(s)
  PROVE  IInv'
<1> USE DEF clientVars, ringVars
<1>1. UNCHANGED <<rd, used, held, out, pcm, events, more, cut, cpc,
                  g_output_enabled>>
  BY DEF WantsToSend, SenderLocks, SenderDone
<1>2. ~cut => Aligned'
  BY <1>1 DEF IInv, Aligned, Chunks
<1>3. stalls' = stalls \/ stalls' = 0
  BY DEF WantsToSend, SenderLocks, SenderDone
<1>4. sender'["reader"] # "wait" => stalls' = 0
  BY DEF IInv, TypeOK, SenderTasks, WantsToSend, SenderLocks, SenderDone
<1>5. ~cut => Stalled'
  <2>1. CASE stalls' = stalls
    BY <1>1, <2>1 DEF IInv, Stalled
  <2>2. CASE stalls' = 0
    <3>1. 0 <= pcm /\ 0 <= RingLen - used - held /\ stalls' * ChunkLen = 0
      BY <2>2, Numbers, Lengths DEF IInv
    <3>2. QED
      BY <1>1, <2>2, <3>1, SomeFrame DEF Stalled
  <2>3. QED
    BY <1>3, <2>1, <2>2
<1>6. TypeOK'
  <2>1. sender' \in [SenderTasks -> {"idle", "wait", "write"}] /\ stalls' \in Nat
    BY <1>3 DEF IInv, TypeOK, WantsToSend, SenderLocks, SenderDone
  <2>2. /\ lock' \in {"free", "client"} \cup SenderTasks
        /\ lock' = "client" <=> cpc # "top"
        /\ \A q \in SenderTasks : lock' = q <=> sender'[q] = "write"
    BY DEF IInv, TypeOK, SenderTasks, MayLock, WantsToSend, SenderLocks,
           SenderDone
  <2>3. QED
    BY <1>1, <2>1, <2>2 DEF IInv, TypeOK
<1>7. QED
  BY <1>1, <1>2, <1>4, <1>5, <1>6 DEF IInv

-----------------------------------------------------------------------------
LEMMA NextInv == IInv /\ [Next]_vars => IInv'
<1> SUFFICES ASSUME IInv, [Next]_vars PROVE IInv'
  OBVIOUS
<1>1. CASE ClientTask
  BY <1>1, ClientLocksInv, NothingToReadInv, ReadMessageInv, ReadPartInv,
     ReadEndsInv, HandleMessageInv, HandlePartInv, AudioWriteInv DEF ClientTask
<1>2. CASE EnableOutput
  BY <1>2, EnableOutputInv
<1>3. CASE SendTask
  BY <1>3, TakeChunkInv, SendChunkInv, PacedInv DEF SendTask
<1>4. CASE \E s \in SenderTasks :
              WantsToSend(s) \/ SenderLocks(s) \/ SenderDone(s)
  BY <1>4, SendersInv
<1>5. CASE UNCHANGED vars
  <2> USE <1>5 DEF vars, clientVars, ringVars
  <2>1. TypeOK'
    BY DEF IInv, TypeOK
  <2>2. ~cut => Aligned' /\ Stalled'
    BY DEF IInv, Aligned, Chunks, Stalled
  <2>3. QED
    BY <2>1, <2>2 DEF IInv
<1>6. QED
  BY <1>1, <1>2, <1>3, <1>4, <1>5 DEF Next

THEOREM IInvCorrect == Spec => []IInv
<1>1. QED
  BY InitInv, NextInv, PTL DEF Spec

\* The types, who holds client->lock, and that the ring is never overfilled,
\* for every ring, chunk and frame.
THEOREM PlaybackTypeCorrect == Spec => []TypeOK
<1>1. IInv => TypeOK
  BY DEF IInv
<1>2. QED
  BY <1>1, IInvCorrect, PTL

\* Whole messages are played in full chunks, across the end of the ring too.
THEOREM FullChunksCorrect == Spec => []FullChunks
<1>1. IInv => FullChunks
  BY DEF IInv, Aligned, FullChunks
<1>2. QED
  BY <1>1, IInvCorrect, PTL

\* For room in the ring the reader waits no longer than one frame plays,
\* whatever the length of the ring and of the frames.
THEOREM StallCorrect == Spec => []StallBounded
<1>1. IInv => StallBounded
  BY DEF IInv, Stalled, StallBounded
<1>2. QED
  BY <1>1, IInvCorrect, PTL
=============================================================================
