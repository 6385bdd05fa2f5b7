----------------------------- MODULE FrameParser -----------------------------
(***************************************************************************)
(* How the VB6824 voice chip's byte stream becomes frames: the serial line *)
(* and the UART driver with its event queue, __uart_task, and              *)
(* __frame_parse_data with the bytes it keeps from one call to the next.   *)
(*                                                                         *)
(* A frame on the line is 55 AA, length (2), command (2), payload, and the *)
(* sum of all the bytes before it.  Bytes may be lost (FIFO overflow) or   *)
(* altered on the way, MaxFaults times.                                    *)
(*                                                                         *)
(* tmp_data is 2 * FRAME_MAX_LIN bytes, and a read is put behind what is   *)
(* kept without a look at its end.  A read for which there is no room ends *)
(* the model (Overrun): what the program does from there on is undefined.  *)
(* The copies within tmp_data are moves.                                   *)
(***************************************************************************)
EXTENDS Integers, Sequences, SequencesExt

CONSTANTS
    MaxPayload,      \* FRAME_MAX_LIN without the envelope: 512 in the code
    TempBuf,         \* bytes one read returns at most: 1024 in the code
    UART_QUEUE_SIZE,
    Streams,         \* bound: the sequences of payloads the chip may send
    Noise,           \* bound: the values a byte is altered to
    MaxFaults        \* bound: how many times the line loses or alters bytes

FRAME_MIN_LEN == 7
FRAME_MAX_LEN == MaxPayload + 7

\* sizeof(tmp_data)
TmpSize == 2 * FRAME_MAX_LEN

\* Lengths are uint16_t.
Wrap == 65536

Byte == 0..255

ASSUME ParserAssumption ==
    /\ MaxPayload \in Nat \ {0}
    /\ TempBuf \in Nat \ {0}
    /\ TmpSize <= Wrap
    /\ UART_QUEUE_SIZE \in Nat \ {0}
    /\ MaxFaults \in Nat
    /\ Noise \subseteq Byte
    /\ \A ps \in Streams :
        /\ ps \in Seq(Seq(Byte))
        /\ \A k \in 1..Len(ps) : Len(ps[k]) <= MaxPayload

VARIABLES
    sent,        \* history: the payloads, in the order the chip sends them
    line,        \* bytes still to arrive
    uart,        \* bytes in the driver's receive buffer
    g_uart_queue,\* the driver's events: "DATA" and "OVF"
    tmp_data,    \* bytes kept by the parser, with tmp_len its length
    delivered,   \* history: the frames given to __vb6824_frame_cb
    pc,          \* __uart_task: waiting, parsing, about to reset the queue, or
                 \* past the end of tmp_data
    whole,       \* history: frames of which one read returned every byte
    faults       \* bound: faults so far

vars == <<sent, line, uart, g_uart_queue, tmp_data, delivered, pc, whole, faults>>

-----------------------------------------------------------------------------
(* Frames *)

\* The sum of the bytes of s, modulo 256.
Sum8(s) ==
    LET sum[n \in 0..Len(s)] ==
            IF n = 0 THEN 0 ELSE (sum[n - 1] + s[n]) % 256
    IN  sum[Len(s)]

Framed(p) ==
    LET body == <<85, 170, Len(p) \div 256, Len(p) % 256, 32, 128>> \o p
    IN  Append(body, Sum8(body))

\* The frames the chip sends.
Genuine == {Framed(p) : p \in ToSet(sent)}

\* No frame begins inside another one: no payload looks like a frame.
FramesApart ==
    \A f, g \in Genuine : \A k \in 1..(Len(g) - 1) :
        \E j \in 1..Len(f) : k + j <= Len(g) /\ g[k + j] # f[j]

Stream(ps) == FlattenSeq([k \in DOMAIN ps |-> Framed(ps[k])])

\* The bytes of f stand somewhere in s, one after the other.
Within(f, s) ==
    \E m \in 1..(Len(s) + 1 - Len(f)) : SubSeq(s, m, m + Len(f) - 1) = f

\* The search looks for a header wherever FRAME_MIN_LEN bytes are left.
HeadAt(s, i) == s[i] = 85 /\ s[i + 1] = 170
FrameLen(s, i) == 256 * s[i + 2] + s[i + 3] + 7
Left(s, i) == Len(s) + 1 - i

\* A frame that has arrived completely and adds up.
Whole(s, i) ==
    /\ Left(s, i) >= FrameLen(s, i)
    /\ Sum8(SubSeq(s, i, i + FrameLen(s, i) - 2)) = s[i + FrameLen(s, i) - 1]

\* Mutant of Partial: no limit on the length a header may announce.
MutAnyLength(s, i) == Left(s, i) < FrameLen(s, i)

\* A frame of possible length that has not arrived completely.
Partial(s, i) ==
    /\ Left(s, i) < FrameLen(s, i)
    /\ FrameLen(s, i) <= FRAME_MAX_LEN

\* Mutant of Hits: the search ends at a header whose frame does not add up.
MutFirstHead(s) ==
    {i \in 1..(Left(s, 1) - 6) :
        /\ HeadAt(s, i) /\ (Whole(s, i) \/ Partial(s, i))
        /\ \A j \in 1..(i - 1) : ~HeadAt(s, j)}

\* Where the search for a frame can stop; it stops at the first of them.
Hits(s) ==
    {i \in 1..(Left(s, 1) - 6) :
        HeadAt(s, i) /\ (Whole(s, i) \/ Partial(s, i))}

FirstHit(s, i) == i \in Hits(s) /\ \A j \in Hits(s) : i <= j

\* Headers that announce so long a frame that its length wraps, and is found
\* complete with no more than a head, before the first hit.
WrappedHits(s) ==
    {i \in 1..(Left(s, 1) - 6) :
        /\ HeadAt(s, i) /\ FrameLen(s, i) >= Wrap
        /\ \A j \in Hits(s) : i < j}

-----------------------------------------------------------------------------
\* Types, that tmp_data never holds more than it has room for, and how much a
\* call of the parser leaves for the next one: less than the longest frame.
TypeOK ==
    /\ line \in Seq(Byte) /\ uart \in Seq(Byte)
    /\ g_uart_queue \in Seq({"DATA", "OVF"})
    /\ Len(g_uart_queue) <= UART_QUEUE_SIZE
    /\ tmp_data \in Seq(Byte)
    /\ delivered \in Seq(Seq(Byte))
    /\ pc \in {"wait", "parse", "reset", "overrun"}
    /\ whole \subseteq Genuine
    /\ faults \in 0..MaxFaults
    /\ Len(tmp_data) <= IF pc = "parse" THEN TmpSize ELSE FRAME_MAX_LEN - 1

Init ==
    /\ sent \in Streams
    /\ line = Stream(sent)
    /\ uart = <<>> /\ tmp_data = <<>>
    /\ g_uart_queue = <<>>
    /\ delivered = <<>>
    /\ pc = "wait"
    /\ whole = {}
    /\ faults = 0

-----------------------------------------------------------------------------
(* The line and the driver *)

\* The driver drops an event for which the queue has no room.
Post(e) ==
    g_uart_queue' = IF Len(g_uart_queue) < UART_QUEUE_SIZE
                    THEN Append(g_uart_queue, e) ELSE g_uart_queue

Arrive ==
    /\ \E k \in 1..Len(line) :
        /\ uart' = uart \o SubSeq(line, 1, k)
        /\ line' = SubSeq(line, k + 1, Len(line))
    /\ Post("DATA")
    /\ UNCHANGED <<sent, tmp_data, delivered, pc, whole, faults>>

\* The hardware FIFO overflows.
Overflow ==
    /\ faults < MaxFaults
    /\ \E k \in 1..Len(line) : line' = SubSeq(line, k + 1, Len(line))
    /\ Post("OVF")
    /\ faults' = faults + 1
    /\ UNCHANGED <<sent, uart, tmp_data, delivered, pc, whole>>

\* The next byte to arrive is altered.
Alter ==
    /\ faults < MaxFaults
    /\ line # <<>>
    /\ \E b \in Noise \ {Head(line)} : line' = <<b>> \o Tail(line)
    /\ faults' = faults + 1
    /\ UNCHANGED <<sent, uart, g_uart_queue, tmp_data, delivered, pc, whole>>

-----------------------------------------------------------------------------
(* __uart_task *)

\* What one read returns: what the driver has, as far as temp_buf takes it.
ReadLen == IF Len(uart) < TempBuf THEN Len(uart) ELSE TempBuf

HasData == pc = "wait" /\ g_uart_queue # <<>> /\ Head(g_uart_queue) = "DATA"

\* What was read is put behind what the parser kept: parse_len is still 0 where
\* the shorter way tests it, which is never taken. One read is made for an
\* event, and events left over from an earlier one find nothing.
ReadData ==
    /\ HasData
    /\ Len(tmp_data) + ReadLen <= TmpSize
    /\ g_uart_queue' = Tail(g_uart_queue)
    /\ LET temp_buf == SubSeq(uart, 1, ReadLen)
       IN  /\ tmp_data' = tmp_data \o temp_buf
           /\ whole' = whole \cup {f \in Genuine : Within(f, temp_buf)}
    /\ uart' = SubSeq(uart, ReadLen + 1, Len(uart))
    /\ pc' = IF uart = <<>> THEN "wait" ELSE "parse"
    /\ UNCHANGED <<sent, line, delivered, faults>>

\* The same copy when there is no room for it.
Overrun ==
    /\ HasData
    /\ Len(tmp_data) + ReadLen > TmpSize
    /\ pc' = "overrun"
    /\ UNCHANGED <<sent, line, uart, g_uart_queue, tmp_data, delivered, whole,
                   faults>>

\* uart_flush_input; what arrives before the next step is not flushed.
Flush ==
    /\ pc = "wait" /\ g_uart_queue # <<>> /\ Head(g_uart_queue) = "OVF"
    /\ g_uart_queue' = Tail(g_uart_queue)
    /\ uart' = <<>>
    /\ pc' = "reset"
    /\ UNCHANGED <<sent, line, tmp_data, delivered, whole, faults>>

ResetQueue ==
    /\ pc = "reset"
    /\ g_uart_queue' = <<>>
    /\ pc' = "wait"
    /\ UNCHANGED <<sent, line, uart, tmp_data, delivered, whole, faults>>

-----------------------------------------------------------------------------
(* __frame_parse_data, from re_parse on *)

TooShort ==
    /\ pc = "parse" /\ Len(tmp_data) < FRAME_MIN_LEN
    /\ pc' = "wait"
    /\ UNCHANGED <<sent, line, uart, g_uart_queue, tmp_data, delivered, whole,
                   faults>>

\* Mutant of HandOver: the rest is never parsed again.
MutOnce(s, i, end) ==
    /\ delivered' = Append(delivered, SubSeq(tmp_data, i, end))
    /\ tmp_data' = SubSeq(s, end + 1, Len(s))
    /\ pc' = "wait"

\* Mutant of HandOver: the sum is not skipped with its frame.
MutSumLeft(s, i, end) ==
    /\ delivered' = Append(delivered, SubSeq(tmp_data, i, end))
    /\ tmp_data' = SubSeq(s, end, Len(s))
    /\ pc' = IF Len(tmp_data') > FRAME_MIN_LEN THEN "parse" ELSE "wait"

\* Bytes i..end go to __vb6824_frame_cb, which leaves the buffer as s; what is
\* in front of them is dropped. A rest of exactly FRAME_MIN_LEN bytes, which may
\* be a frame, is left for the next call.
HandOver(s, i, end) ==
    /\ delivered' = Append(delivered, SubSeq(tmp_data, i, end))
    /\ tmp_data' = SubSeq(s, end + 1, Len(s))
    /\ pc' = IF Len(tmp_data') > FRAME_MIN_LEN THEN "parse" ELSE "wait"

\* The callback swaps the bytes of the length and of the command in place and
\* puts a zero where the sum is: here all of that is dropped with the frame.
Deliver ==
    /\ pc = "parse"
    /\ \E i \in Hits(tmp_data) :
        /\ FirstHit(tmp_data, i) /\ Whole(tmp_data, i)
        /\ HandOver(tmp_data, i, i + FrameLen(tmp_data, i) - 1)
    /\ UNCHANGED <<sent, line, uart, g_uart_queue, whole, faults>>

\* The length and the command of the header at i, as the callback leaves them.
Swapped(s, i) ==
    [s EXCEPT ![i + 2] = s[i + 3], ![i + 3] = s[i + 2],
              ![i + 4] = s[i + 5], ![i + 5] = s[i + 4]]

\* The sum of such a frame is looked for far behind the bytes kept. Whatever is
\* there may agree; otherwise the search goes on, as at any header. So short a
\* frame can end in front of the bytes that the callback swaps, and they are
\* searched again. The zero it writes falls far behind tmp_data.
DeliverWrapped ==
    /\ pc = "parse"
    /\ \E i \in WrappedHits(tmp_data) :
        HandOver(Swapped(tmp_data, i), i, i + FrameLen(tmp_data, i) - Wrap - 1)
    /\ UNCHANGED <<sent, line, uart, g_uart_queue, whole, faults>>

KeepPartial ==
    /\ pc = "parse"
    /\ \E i \in Hits(tmp_data) :
        /\ FirstHit(tmp_data, i) /\ ~Whole(tmp_data, i)
        /\ tmp_data' = SubSeq(tmp_data, i, Len(tmp_data))
    /\ pc' = "wait"
    /\ UNCHANGED <<sent, line, uart, g_uart_queue, delivered, whole, faults>>

\* No header: the last six bytes are moved to the front one suffix after the
\* other, each over the one before, and only the last byte remains.
NoFrame ==
    /\ pc = "parse" /\ Len(tmp_data) >= FRAME_MIN_LEN
    /\ Hits(tmp_data) = {}
    /\ tmp_data' = <<Last(tmp_data)>>
    /\ pc' = "wait"
    /\ UNCHANGED <<sent, line, uart, g_uart_queue, delivered, whole, faults>>

Parse == TooShort \/ Deliver \/ DeliverWrapped \/ KeepPartial \/ NoFrame

Next ==
    \/ Arrive \/ Overflow \/ Alter
    \/ ReadData \/ Overrun \/ Flush \/ ResetQueue
    \/ Parse

Spec == Init /\ [][Next]_vars

-----------------------------------------------------------------------------
(* Properties *)

\* __frame_parse_data on a line without faults: into whatever reads for which
\* tmp_data has room the bytes are cut, none is lost, repeated or moved, and
\* every frame ends where the chip ended it.
InStep ==
    faults = 0 /\ pc # "overrun" =>
        /\ FlattenSeq(delivered) \o tmp_data \o uart \o line = Stream(sent)
        /\ delivered = [k \in DOMAIN delivered |-> Framed(sent[k])]

\* __frame_parse_data after faults: a frame that one read returned whole is
\* delivered or still among the bytes kept, whatever stands around it, unless
\* other bytes happened to add up to a frame or a payload holds one, or a read
\* found no room.
WholeFrameSurvives ==
    pc # "overrun" /\ ToSet(delivered) \subseteq Genuine =>
        \A f \in whole :
            \/ f \in ToSet(delivered)
            \/ Within(f, tmp_data)
            \/ ~FramesApart

\* The copy in __frame_parse_data, after any faults: a read of no more than the
\* longest frame and one byte always has room behind what was kept, so it takes
\* that many bytes waiting in the driver for tmp_data to overrun.
ShortReadFits == pc = "overrun" => Len(uart) > FRAME_MAX_LEN + 1

\* What the size of tmp_data, two of the longest frames, and that of temp_buf
\* promise together: every read fits (__frame_parse_data, __uart_task).
BytesFit == pc # "overrun"

\* The re_parse loop: on a line without faults no frame waits for the bytes of
\* the next one, a frame of FRAME_MIN_LEN bytes excepted.
NoneWaits ==
    faults = 0 /\ pc = "wait" =>
        ~ \E p \in ToSet(sent) : p # <<>> /\ IsPrefix(Framed(p), tmp_data)
=============================================================================
