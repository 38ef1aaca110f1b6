------------------------------- MODULE Codec -------------------------------
(***************************************************************************)
(* Codec (libqt/net/codec.cpp) with MessageV1 (net/proto/message_v1.h): a   *)
(* peer encodes messages into a byte stream, TCP delivers the stream in     *)
(* chunks of any size, and consumeBytes turns chunks into messages.         *)
(*                                                                          *)
(* A message is the size of its payload; bytes are counted, not stored.     *)
(* That is enough, because m_buf is always a prefix of the stream: its      *)
(* single position stays at the end, so every write appends and m_buf.read  *)
(* at the end removes nothing, and a chunk that is not stored is followed   *)
(* by no chunk that is.  decode therefore always reads the first frame.     *)
(*                                                                          *)
(* consumeMsg and consumeBytes each run under the write lock from start to  *)
(* end, hence one step each.                                                *)
(***************************************************************************)
EXTENDS Integers, Sequences

CONSTANTS
    Payloads,    \* payload sizes peers send
    MaxChunk,    \* largest chunk readyRead delivers
    LenLimit,    \* m_len holds -LenLimit .. LenLimit - 1 (2^15 for qint16)
    Cap,         \* MTU * m_bufSz
    MaxSent,     \* bound: messages the peer sends
    MaxChunks    \* bound: chunks delivered

ASSUME CodecPayloads == Payloads \subseteq Nat
ASSUME CodecChunk    == MaxChunk \in Nat \ {0}
ASSUME CodecLimit    == LenLimit \in Nat \ {0}
ASSUME CodecCap      == Cap \in Nat
ASSUME CodecBounds   == MaxSent \in Nat /\ MaxChunks \in Nat

VARIABLES
    sent,        \* payload sizes the peer has encoded, in order
    total,       \* bytes it has put on the wire
    arrived,     \* bytes delivered to consumeBytes
    size,        \* m_buf.size()
    got,         \* messages emitted with produceMsg: length field and payload size
    chunks,      \* number of chunks delivered
    skipped      \* the factory returned no message for the last chunk

vars == <<sent, total, arrived, size, got, chunks, skipped>>

-----------------------------------------------------------------------------
(* MessageV1                                                                *)

\* headLen() and size().
HeadLen    == 2
Size(p)    == HeadLen + p

\* Assignment to m_len wraps around.
Narrow(n)  == ((n + LenLimit) % (2 * LenLimit)) - LenLimit

\* QDataStream writes m_len, then the payload as QByteArray: with a 32-bit
\* length of its own in front.
WireSize(p) == HeadLen + 4 + p

\* Mutant of Decode: the bytes that are there are taken for the payload.
DecodeTorn(n, p) ==
    [len     |-> IF n < HeadLen THEN 0 ELSE Narrow(Size(p)),
     payload |-> IF n < HeadLen + 4 THEN 0
                 ELSE IF n < WireSize(p) THEN n - (HeadLen + 4) ELSE p]

\* decode of the first n bytes of a stream whose first frame has payload p.
\* Reading past the end leaves 0 in an integer and clears a byte array.
Decode(n, p) ==
    [len     |-> IF n < HeadLen THEN 0 ELSE Narrow(Size(p)),
     payload |-> IF n < WireSize(p) THEN 0 ELSE p]

-----------------------------------------------------------------------------
Init ==
    /\ sent = <<>>
    /\ total = 0 /\ arrived = 0 /\ size = 0
    /\ got = <<>>
    /\ chunks = 0
    /\ skipped = FALSE

\* Codec::consumeMsg on the sending side: encode and hand to the socket.
ConsumeMsg(p) ==
    /\ Len(sent) < MaxSent
    /\ sent' = Append(sent, p)
    /\ total' = total + WireSize(p)
    /\ UNCHANGED <<arrived, size, got, chunks, skipped>>

\* A chunk is stored only while the buffer is below its cap, and then whole.
Stored(n) == IF size < Cap THEN size + n ELSE size

\* Mutant of ConsumeBytes: decode comes before the chunk is stored.
ConsumeBytesLate(n) ==
    /\ chunks < MaxChunks
    /\ arrived + n =< total
    /\ arrived' = arrived + n
    /\ chunks' = chunks + 1
    /\ size' = Stored(n)
    /\ LET msg == Decode(size, sent[1])
       IN  got' = IF msg.len < 1 THEN got ELSE Append(got, msg)
    /\ skipped' = FALSE
    /\ UNCHANGED <<sent, total>>

\* Codec::consumeBytes for a chunk of n bytes.
ConsumeBytes(n) ==
    /\ chunks < MaxChunks
    /\ arrived + n =< total
    /\ arrived' = arrived + n
    /\ chunks' = chunks + 1
    /\ size' = Stored(n)
    /\ \/ /\ skipped' = TRUE
          /\ UNCHANGED got
       \/ LET msg == Decode(size', sent[1])
          IN  /\ skipped' = FALSE
              /\ got' = IF msg.len < 1 THEN got ELSE Append(got, msg)
    /\ UNCHANGED <<sent, total>>

Next ==
    \/ \E p \in Payloads : ConsumeMsg(p)
    \/ \E n \in 1 .. MaxChunk : ConsumeBytes(n)

Spec == Init /\ [][Next]_vars

-----------------------------------------------------------------------------
(* Properties                                                               *)

\* Is the length of a message with payload p representable in m_len.
Fits(p) == Size(p) < LenLimit

TypeOK ==
    /\ sent \in Seq(Nat)
    /\ total \in Nat /\ arrived \in 0 .. total /\ size \in 0 .. arrived
    /\ got \in Seq([len : Int, payload : Nat])
    /\ chunks \in 0 .. MaxChunks
    /\ skipped \in BOOLEAN
    /\ total > 0 => sent # <<>>

\* The buffer is bounded although nothing is ever removed from it: the cap is
\* tested before a chunk is stored, so it overshoots by less than one chunk.
BufferBounded == Cap > 0 => size < Cap + MaxChunk

\* However the stream is cut, a message is delivered with the whole payload of
\* a message that was sent, or with none; never with part of one.
NoTornPayload ==
    \A i \in DOMAIN got :
        got[i].payload = 0 \/ \E j \in DOMAIN sent : got[i].payload = sent[j]

\* The receiver keeps its memory and its messages whole, however the stream is
\* cut.
WholeMessages == BufferBounded /\ NoTornPayload

\* Once the first frame is complete in the buffer it is delivered with the
\* chunk that completed it, if its length fits the field.
FirstFrameDelivered ==
    sent # <<>> /\ size >= WireSize(sent[1]) /\ Fits(sent[1]) /\ ~ skipped =>
        /\ got # <<>>
        /\ got[Len(got)] = [len |-> Size(sent[1]), payload |-> sent[1]]

\* message_v1.h frames the stream as a sequence of |len|payload|: the payloads
\* that arrive are the payloads that were sent, each once and in order.
FramesInOrder ==
    \A i \in DOMAIN got : i \in DOMAIN sent /\ got[i].payload = sent[i]
=============================================================================
