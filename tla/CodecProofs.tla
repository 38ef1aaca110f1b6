---------------------------- MODULE CodecProofs ----------------------------
(***************************************************************************)
(* What Codec and MessageV1 guarantee for every chunking of every stream,   *)
(* every cap and every width of the length field.                           *)
(***************************************************************************)
EXTENDS Codec, TLAPS

CodecInv == TypeOK /\ BufferBounded /\ NoTornPayload /\ FirstFrameDelivered

\* Storing a length in m_len.
LEMMA NarrowFacts ==
    ASSUME NEW n \in Nat
    PROVE  /\ Narrow(n) \in Int
           /\ n < LenLimit => Narrow(n) = n
<1> DEFINE d == 2 * LenLimit
           x == n + LenLimit
<1>1. d \in Nat /\ d > 0 /\ x \in Nat BY CodecLimit
<1>2. Narrow(n) = (x % d) - LenLimit BY DEF Narrow
<1> HIDE DEF d, x
<1>3. x % d \in 0 .. d - 1 BY <1>1
<1>4. x < d => x % d = x BY <1>1
<1>5. n < LenLimit => x < d BY CodecLimit DEF d, x
<1>6. QED BY <1>2, <1>3, <1>4, <1>5, <1>1, CodecLimit DEF x

\* decode returns a message with the payload of the first frame, or none.
LEMMA DecodeFacts ==
    ASSUME NEW n \in Nat, NEW p \in Nat
    PROVE  /\ Decode(n, p) \in [len : Int, payload : Nat]
           /\ Decode(n, p).payload \in {0, p}
           /\ n >= WireSize(p) /\ Fits(p) => Decode(n, p) = [len |-> Size(p), payload |-> p]
<1>1. Size(p) \in Nat /\ Size(p) >= 2 BY DEF Size, HeadLen
<1>2. Narrow(Size(p)) \in Int /\ (Fits(p) => Narrow(Size(p)) = Size(p))
  BY <1>1, NarrowFacts DEF Fits
<1>3. n >= WireSize(p) => ~ (n < HeadLen) /\ ~ (n < WireSize(p))
  BY DEF WireSize, HeadLen
<1>4. Decode(n, p) \in [len : Int, payload : Nat] /\ Decode(n, p).payload \in {0, p}
  BY <1>2 DEF Decode
<1>5. n >= WireSize(p) /\ Fits(p) => Decode(n, p) = [len |-> Size(p), payload |-> p]
  BY <1>2, <1>3 DEF Decode
<1>6. QED BY <1>4, <1>5

\* A message whose length fits the field survives encode and decode.
THEOREM RoundTrip ==
    ASSUME NEW p \in Nat, Fits(p)
    PROVE  Decode(WireSize(p), p) = [len |-> Size(p), payload |-> p]
<1>1. WireSize(p) \in Nat /\ WireSize(p) >= WireSize(p) BY DEF WireSize, HeadLen
<1> DEFINE n == WireSize(p)
<1>2. n \in Nat /\ n >= WireSize(p) BY <1>1
<1> HIDE DEF n
<1>3. Decode(n, p) = [len |-> Size(p), payload |-> p] BY <1>2, DecodeFacts
<1>4. QED BY <1>3 DEF n

\* Adding a message to the ones already delivered.
LEMMA AppendFacts ==
    ASSUME NEW S, NEW s \in Seq(S), NEW x \in S
    PROVE  /\ Append(s, x) \in Seq(S)
           /\ Append(s, x) # <<>>
           /\ Len(Append(s, x)) = Len(s) + 1
           /\ Append(s, x)[Len(s) + 1] = x
           /\ DOMAIN Append(s, x) = 1 .. Len(s) + 1
           /\ \A i \in DOMAIN Append(s, x) :
                 i # Len(s) + 1 => i \in DOMAIN s /\ Append(s, x)[i] = s[i]
  OBVIOUS

LEMMA CodecInit == Init => CodecInv
<1> SUFFICES ASSUME Init PROVE CodecInv
  OBVIOUS
<1>1. TypeOK
  <2>1. skipped \in BOOLEAN BY DEF Init
  <2>2. sent \in Seq(Nat) /\ got \in Seq([len : Int, payload : Nat]) BY DEF Init
  <2>3. total \in Nat /\ arrived \in 0 .. total /\ size \in 0 .. arrived /\ chunks \in 0 .. MaxChunks
    BY CodecBounds DEF Init
  <2>4. ~ (total > 0) BY DEF Init
  <2>5. QED BY <2>1, <2>2, <2>3, <2>4 DEF TypeOK
<1>2. BufferBounded BY CodecCap, CodecChunk DEF Init, BufferBounded
<1>3. NoTornPayload BY DEF Init, NoTornPayload
<1>4. FirstFrameDelivered BY DEF Init, FirstFrameDelivered
<1>5. QED BY <1>1, <1>2, <1>3, <1>4 DEF CodecInv

LEMMA SendStep ==
    ASSUME CodecInv, NEW p \in Payloads, ConsumeMsg(p) PROVE CodecInv'
<1>0. p \in Nat /\ WireSize(p) \in Nat BY CodecPayloads DEF WireSize, HeadLen
<1>t. /\ sent \in Seq(Nat) /\ total \in Nat /\ arrived \in 0 .. total /\ size \in 0 .. arrived
      /\ got \in Seq([len : Int, payload : Nat])
  BY DEF CodecInv, TypeOK
<1>1. /\ sent' = Append(sent, p) /\ total' = total + WireSize(p)
      /\ arrived' = arrived /\ size' = size /\ got' = got /\ chunks' = chunks /\ skipped' = skipped
  BY DEF ConsumeMsg
<1>2. /\ sent' \in Seq(Nat) /\ sent' # <<>> /\ Len(sent') = Len(sent) + 1
      /\ \A j \in DOMAIN sent : j \in DOMAIN sent' /\ sent'[j] = sent[j]
  BY <1>0, <1>1, <1>t
<1>3. TypeOK'
  <2>1. total' \in Nat /\ arrived' \in 0 .. total' BY <1>0, <1>1, <1>t
  <2>2. QED BY <1>1, <1>2, <2>1 DEF CodecInv, TypeOK
<1>4. BufferBounded' BY <1>1 DEF CodecInv, BufferBounded
<1>5. NoTornPayload' BY <1>1, <1>2 DEF CodecInv, NoTornPayload
<1>6. FirstFrameDelivered'
  <2>1. CASE sent = <<>>
    <3>1. size = 0
      <4>1. ~ (total > 0) BY <2>1 DEF CodecInv, TypeOK
      <4>2. QED BY <4>1, <1>t
    <3>2. sent'[1] \in Nat BY <1>2
    <3>3. ~ (size' >= WireSize(sent'[1])) BY <1>1, <3>1, <3>2 DEF WireSize, HeadLen
    <3>4. QED BY <3>3 DEF FirstFrameDelivered
  <2>2. CASE sent # <<>>
    <3>1. sent'[1] = sent[1] BY <2>2, <1>2, <1>t
    <3>2. QED BY <2>2, <3>1, <1>1 DEF CodecInv, FirstFrameDelivered
  <2>3. QED BY <2>1, <2>2
<1>7. QED BY <1>3, <1>4, <1>5, <1>6 DEF CodecInv

LEMMA ReceiveStep ==
    ASSUME CodecInv, NEW n \in 1 .. MaxChunk, ConsumeBytes(n) PROVE CodecInv'
<1> DEFINE msg == Decode(size', sent[1])
<1>t. /\ sent \in Seq(Nat) /\ total \in Nat /\ arrived \in 0 .. total /\ size \in 0 .. arrived
      /\ got \in Seq([len : Int, payload : Nat]) /\ chunks \in 0 .. MaxChunks
  BY DEF CodecInv, TypeOK
<1>1. /\ arrived' = arrived + n /\ arrived + n =< total /\ chunks' = chunks + 1
      /\ chunks < MaxChunks /\ size' = Stored(n) /\ sent' = sent /\ total' = total
  BY DEF ConsumeBytes
<1>2. size' \in 0 .. arrived' /\ arrived' \in 0 .. total' /\ size' \in Nat /\ arrived' > 0
  BY <1>1, <1>t, CodecChunk DEF Stored
<1>3. sent # <<>>
  <2>1. total > 0 BY <1>1, <1>t, CodecChunk
  <2>2. QED BY <2>1 DEF CodecInv, TypeOK
<1>4. sent[1] \in Nat /\ 1 \in DOMAIN sent BY <1>3, <1>t
<1>5. /\ msg \in [len : Int, payload : Nat] /\ msg.payload \in {0, sent[1]}
      /\ size' >= WireSize(sent[1]) /\ Fits(sent[1])
            => msg = [len |-> Size(sent[1]), payload |-> sent[1]]
  BY <1>2, <1>4, DecodeFacts
<1> HIDE DEF msg
<1>6. \/ skipped' = TRUE /\ got' = got
      \/ skipped' = FALSE /\ msg.len < 1 /\ got' = got
      \/ skipped' = FALSE /\ ~ (msg.len < 1) /\ got' = Append(got, msg)
  BY DEF ConsumeBytes, msg
<1>7. TypeOK'
  <2>1. got' \in Seq([len : Int, payload : Nat])
    <3>1. CASE got' = got BY <3>1, <1>t
    <3>2. CASE got' = Append(got, msg) BY <3>2, <1>t, <1>5, AppendFacts
    <3>3. QED BY <1>6, <3>1, <3>2
  <2>2. skipped' \in BOOLEAN BY <1>6
  <2>3. chunks' \in 0 .. MaxChunks BY <1>1, <1>t, CodecBounds
  <2>4. QED BY <1>1, <1>2, <1>3, <1>t, <2>1, <2>2, <2>3 DEF TypeOK
<1>8. BufferBounded'
  BY <1>1, <1>t, CodecCap, CodecChunk DEF CodecInv, BufferBounded, Stored
<1>9. NoTornPayload'
  <2>1. CASE got' = got BY <2>1, <1>1 DEF CodecInv, NoTornPayload
  <2>2. CASE got' = Append(got, msg)
    <3> SUFFICES ASSUME NEW i \in DOMAIN got'
                 PROVE  got'[i].payload = 0 \/ \E j \in DOMAIN sent : got'[i].payload = sent[j]
      BY <1>1 DEF NoTornPayload
    <3>1. CASE i = Len(got) + 1
      <4>1. got'[i] = msg BY <2>2, <3>1, <1>t, <1>5, AppendFacts
      <4>2. QED BY <4>1, <1>4, <1>5
    <3>2. CASE i # Len(got) + 1
      <4>1. i \in DOMAIN got /\ got'[i] = got[i] BY <2>2, <3>2, <1>t, <1>5, AppendFacts
      <4>2. QED BY <4>1 DEF CodecInv, NoTornPayload
    <3>3. QED BY <3>1, <3>2
  <2>3. QED BY <1>6, <2>1, <2>2
<1>10. FirstFrameDelivered'
  <2> SUFFICES ASSUME size' >= WireSize(sent[1]), Fits(sent[1]), skipped' = FALSE
               PROVE  got' # <<>> /\ got'[Len(got')] = [len |-> Size(sent[1]), payload |-> sent[1]]
    BY <1>1, <1>6 DEF FirstFrameDelivered
  <2>1. msg = [len |-> Size(sent[1]), payload |-> sent[1]] BY <1>5
  <2>2. msg.len = Size(sent[1]) BY <2>1
  <2>3. ~ (msg.len < 1) BY <2>2, <1>4 DEF Size, HeadLen
  <2>4. got' = Append(got, msg) BY <1>6, <2>3
  <2>5. Len(got') = Len(got) + 1 /\ got'[Len(got) + 1] = msg /\ got' # <<>>
    <3> DEFINE Msgs == [len : Int, payload : Nat]
    <3>1. got \in Seq(Msgs) /\ msg \in Msgs BY <1>t, <1>5
    <3> HIDE DEF Msgs
    <3>2. /\ Len(Append(got, msg)) = Len(got) + 1
          /\ Append(got, msg)[Len(got) + 1] = msg
          /\ Append(got, msg) # <<>>
      BY <3>1, AppendFacts
    <3>3. QED BY <2>4, <3>2
  <2>6. QED BY <2>1, <2>5
<1>11. QED BY <1>7, <1>8, <1>9, <1>10 DEF CodecInv

\* The buffer stays bounded, no torn payload is delivered, and the first frame
\* is delivered when it is complete, whatever the chunks.
THEOREM CodecSafe == Spec => [](TypeOK /\ WholeMessages /\ FirstFrameDelivered)
<1>1. Init => CodecInv BY CodecInit
<1>2. CodecInv /\ [Next]_vars => CodecInv'
  <2> SUFFICES ASSUME CodecInv, [Next]_vars PROVE CodecInv'
    OBVIOUS
  <2>1. ASSUME NEW p \in Payloads, ConsumeMsg(p) PROVE CodecInv' BY <2>1, SendStep
  <2>2. ASSUME NEW n \in 1 .. MaxChunk, ConsumeBytes(n) PROVE CodecInv' BY <2>2, ReceiveStep
  <2>3. CASE UNCHANGED vars
    BY <2>3 DEF vars, CodecInv, TypeOK, BufferBounded, NoTornPayload, FirstFrameDelivered
  <2>4. QED BY <2>1, <2>2, <2>3 DEF Next
<1>3. CodecInv => TypeOK /\ WholeMessages /\ FirstFrameDelivered
  BY DEF CodecInv, WholeMessages
<1>4. QED BY <1>1, <1>2, <1>3, PTL DEF Spec

\* A first frame whose length fits the field is delivered, whole, with the chunk
\* that completes it in NetHandler's buffer, for every payload and chunking.
THEOREM FirstFrameSafe == Spec => []FirstFrameDelivered
<1>1. TypeOK /\ WholeMessages /\ FirstFrameDelivered => FirstFrameDelivered OBVIOUS
<1>2. QED BY <1>1, CodecSafe, PTL
=============================================================================
