------------------------ MODULE StreamNumbersProofs ------------------------
(* Theorems about the identifiers and the frames of StreamNumbers.         *)
EXTENDS StreamNumbers, TLAPS

Byte == 0..(Bits8 - 1)
Word == 0..(Bits16 - 1)
DoubleWord == 0..(Bits32 - 1)

LEMMA Sizes == Bits16 = 65536 /\ Bits32 = 4294967296
BY DEF Bits8, Bits16, Bits32

\* Fields that do not overlap tell their contents.
LEMMA FieldsAreSeparate ==
    ASSUME NEW b \in Nat \ {0}, NEW x \in Nat, NEW y \in Nat,
           NEW r \in 0..(b - 1), NEW q \in 0..(b - 1),
           x * b + r = y * b + q
    PROVE  x = y /\ r = q
<1>1. ASSUME NEW m \in Nat, NEW n \in Nat, m < n
      PROVE  m * b + b <= n * b
  <2>1. n * b = m * b + (n - m) * b
    BY <1>1
  <2>2. PICK d \in Nat : n - m = d + 1
    BY <1>1
  <2>3. (d + 1) * b = d * b + b /\ d * b \in Nat
    OBVIOUS
  <2>4. QED
    BY <2>1, <2>2, <2>3
<1>2. ~(x < y)
  BY <1>1
<1>3. ~(y < x)
  BY <1>1
<1>4. QED
  BY <1>2, <1>3

\* Two services, instances or destinations never share a stream identifier:
\* buildStreamIDForService packs them into fields that do not overlap.
THEOREM StreamIDsDiffer ==
    ASSUME NEW s1 \in Word, NEW i1 \in Word, NEW d1 \in DoubleWord,
           NEW s2 \in Word, NEW i2 \in Word, NEW d2 \in DoubleWord,
           BuildStreamIDForService(s1, i1, d1) = BuildStreamIDForService(s2, i2, d2)
    PROVE  s1 = s2 /\ i1 = i2 /\ d1 = d2
<1> DEFINE x1 == s1 * Bits16 + i1
           x2 == s2 * Bits16 + i2
<1>1. Bits32 \in Nat \ {0} /\ Bits16 \in Nat \ {0}
  BY Sizes
<1>2. s1 \in Nat /\ s2 \in Nat /\ i1 \in Nat /\ i2 \in Nat
  BY <1>1 DEF Word
<1>3. d1 \in Nat /\ d2 \in Nat
  BY <1>1 DEF DoubleWord
<1>4. /\ Bits32 \in Nat \ {0} /\ Bits16 \in Nat \ {0}
      /\ s1 \in Nat /\ s2 \in Nat /\ i1 \in Nat /\ i2 \in Nat
      /\ d1 \in Nat /\ d2 \in Nat
  BY <1>1, <1>2, <1>3
<1>5. x1 \in Nat /\ x2 \in Nat
  BY <1>4, Sizes
<1>6. x1 * Bits32 + d1 = x2 * Bits32 + d2
  <2>1. x1 * Bits32 + d1 = BuildStreamIDForService(s1, i1, d1)
    BY <1>4, Sizes DEF BuildStreamIDForService
  <2>2. x2 * Bits32 + d2 = BuildStreamIDForService(s2, i2, d2)
    BY <1>4, Sizes DEF BuildStreamIDForService
  <2>3. QED
    BY <2>1, <2>2
<1>7. x1 = x2 /\ d1 = d2
  <2> HIDE DEF x1, x2
  <2>1. QED
    BY <1>4, <1>5, <1>6, FieldsAreSeparate DEF DoubleWord
<1>8. s1 = s2 /\ i1 = i2
  BY <1>4, <1>7, FieldsAreSeparate DEF Word
<1>9. QED
  BY <1>7, <1>8

\* Methods of different services differ in their message identifier.
THEOREM MessageIDsDiffer ==
    ASSUME NEW s1 \in Word, NEW m1 \in Word, NEW s2 \in Word, NEW m2 \in Word,
           MessageID(s1, m1) = MessageID(s2, m2)
    PROVE  s1 = s2 /\ m1 = m2
<1>1. Bits16 \in Nat \ {0}
  BY DEF Bits8, Bits16
<1>2. QED
  BY <1>1, FieldsAreSeparate DEF MessageID, Word

\* The client identifier does not show in the request identifier, which the
\* comment above the code says it does: two clients of one prefix and session
\* have the same.
THEOREM ClientIsLost ==
    ASSUME NEW prefix \in Byte, NEW c1 \in Byte, NEW c2 \in Byte, NEW session \in Word
    PROVE  RequestID(prefix, c1, session) = RequestID(prefix, c2, session)
BY DEF RequestID, Byte, Word, Bits8, Bits16

\* Ceil is the ceiling of a quotient.
LEMMA CeilBounds ==
    ASSUME NEW a \in Int, NEW b \in Nat \ {0}
    PROVE  /\ Ceil(a, b) \in Int
           /\ a <= Ceil(a, b) * b
           /\ (Ceil(a, b) - 1) * b < a
BY DEF Ceil

\* A talker that sends a frame per interval and reserves the normalised frame
\* per interval of its class reserves at least what the wire carries, for any
\* two intervals, and a byte less would be too little.
THEOREM NormalizedFrameCovers ==
    ASSUME NEW size \in Nat, NEW interval \in Nat \ {0}, NEW class \in Nat \ {0}
    PROVE  LET n == NormalizeFramesizeForCMI(size, interval, class)
           IN  /\ n \in Int
               /\ (size + WireBytes) * class <= (n + WireBytes) * interval
               /\ (n - 1 + WireBytes) * interval < (size + WireBytes) * class
<1> DEFINE a == size * class - (interval - class) * WireBytes
           n == Ceil(a, interval)
<1>1. a \in Int
  BY DEF WireBytes
<1>2. n \in Int /\ a <= n * interval /\ (n - 1) * interval < a
  BY <1>1, CeilBounds
<1>3. QED
  BY <1>2 DEF NormalizeFramesizeForCMI, WireBytes

\* What integer division leaves.
LEMMA Quotient ==
    ASSUME NEW a \in Nat, NEW b \in Nat \ {0}
    PROVE  /\ a \div b \in Nat
           /\ b * (a \div b) <= a
           /\ a < b * (a \div b) + b
           /\ a >= b => a \div b >= 1
OBVIOUS

LEMMA FrameNumbers ==
    ASSUME NEW qos, NEW payload \in Nat
    PROVE  /\ MaxPayload(qos) \in Nat \ {0} /\ CalculateL2Framesize(qos, 0) \in Nat
           /\ CalculateL2Framesize(qos, payload) = CalculateL2Framesize(qos, 0) + payload
BY DEF MaxPayload, CalculateL2Framesize, MaxFrameBytes, HeaderBytes, MacFrameBytes,
       QTagBytes, IPHeaderBytes, TCPHeaderBytes, UDPHeaderBytes, SOMEIPHeaderBytes

\* The payload of the frames: the average drops less than a byte of each.
LEMMA AveragesCover ==
    ASSUME NEW payload \in Nat, NEW max \in Nat \ {0}, payload > max
    PROVE  LET n == NumFrames(payload, max)
               average == AvgPayload(payload, max)
           IN  /\ n \in Nat \ {0} /\ average \in Nat
               /\ payload <= n * average + (n - 1)
               /\ Ceil(payload, max) \in Int /\ Ceil(payload, max) <= n + 1
<1>1. PICK n \in Nat \ {0} : n = payload \div max /\ payload < max * n + max
  <2>1. payload \div max \in Nat \ {0} /\ payload < max * (payload \div max) + max
    BY Quotient
  <2>2. QED
    BY <2>1
<1>2. PICK average \in Nat : average = payload \div n /\ payload < n * average + n
  BY Quotient
<1>3. NumFrames(payload, max) = n /\ AvgPayload(payload, max) = average
  BY <1>1, <1>2 DEF NumFrames, AvgPayload
<1>4. payload <= n * average + (n - 1)
  <2>1. n * average \in Nat
    OBVIOUS
  <2>2. QED
    BY <1>2, <2>1
<1>5. PICK k \in Int : k = Ceil(payload, max) /\ (k - 1) * max < payload
  BY CeilBounds
<1>6. k <= n + 1
  <2>1. CASE k > n + 1
    <3>1. PICK x \in Nat : k - 1 = n + 1 + x
      BY <2>1, k - n - 2 \in Nat
    <3>2. (n + 1 + x) * max = max * n + max + x * max /\ x * max \in Nat /\ max * n \in Nat
      OBVIOUS
    <3>3. QED
      BY <1>1, <1>5, <3>1, <3>2
  <2>2. QED
    BY <2>1
<1>7. QED
  BY <1>3, <1>4, <1>5, <1>6

\* The frames that registerTalker counts, each of the average size, hold a
\* message of any payload, but for the headers of one frame and less than a
\* byte for each frame when it does not fit into one: the division of integers
\* does not count a started last frame.
THEOREM ReservedFramesCover ==
    ASSUME NEW qos, NEW payload \in Nat
    PROVE  LET n == NumFrames(payload, MaxPayload(qos))
               size == CalculateL2Framesize(qos, AvgPayload(payload, MaxPayload(qos)))
           IN  /\ n \in Nat \ {0} /\ size \in Nat
               /\ MessageBytes(qos, payload) - Unreserved(qos, payload) \in Int
               /\ MessageBytes(qos, payload) - Unreserved(qos, payload)
                    <= n * (size + WireBytes)
<1>1. PICK max \in Nat \ {0} : max = MaxPayload(qos)
  BY FrameNumbers
<1>2. PICK h \in Nat : h = CalculateL2Framesize(qos, 0)
  BY FrameNumbers
<1>3. WireBytes = 21
  BY DEF WireBytes
<1>4. CASE payload <= max
  <2>1. NumFrames(payload, max) = 1 /\ AvgPayload(payload, max) = payload
    BY <1>4 DEF NumFrames, AvgPayload
  <2>2. CalculateL2Framesize(qos, payload) = h + payload
    BY <1>2, FrameNumbers
  <2>3. MessageBytes(qos, payload) = payload + (h + 21) /\ Unreserved(qos, payload) = 0
    BY <1>1, <1>2, <1>3, <1>4 DEF MessageBytes, Unreserved
  <2>4. QED
    BY <1>1, <1>3, <2>1, <2>2, <2>3
<1>5. CASE payload > max
  <2>1. PICK n \in Nat \ {0} : n = NumFrames(payload, max)
    BY <1>5, AveragesCover
  <2>2. PICK average \in Nat : average = AvgPayload(payload, max)
    BY <1>5, AveragesCover
  <2>3. PICK k \in Int : k = Ceil(payload, max)
    BY <1>5, AveragesCover
  <2>4. payload <= n * average + (n - 1) /\ k <= n + 1
    BY <1>5, <2>1, <2>2, <2>3, AveragesCover
  <2>5. CalculateL2Framesize(qos, average) = h + average
    BY <1>2, FrameNumbers
  <2>6. MessageBytes(qos, payload) = payload + k * (h + 21)
    BY <1>1, <1>2, <1>3, <1>5, <2>3 DEF MessageBytes
  <2>7. Unreserved(qos, payload) = h + 21 + n - 1
    BY <1>1, <1>2, <1>3, <1>5, <2>1 DEF Unreserved
  <2>8. PICK w \in Nat : w = h + 21
    OBVIOUS
  <2>9. k * w <= n * w + w
    <3>1. PICK x \in Nat : n + 1 = k + x
      BY <2>4, n + 1 - k \in Nat
    <3>2. n * w + w = k * w + x * w /\ x * w \in Nat /\ k * w \in Int /\ n * w \in Nat
      <4>1. (n + 1) * w = (k + x) * w
        BY <3>1
      <4>2. (n + 1) * w = n * w + w /\ (k + x) * w = k * w + x * w
        OBVIOUS
      <4>3. QED
        BY <4>1, <4>2
    <3>3. QED
      BY <3>2
  <2>10. /\ n * (average + w) = n * average + n * w
         /\ n * average \in Nat /\ n * w \in Nat /\ k * w \in Int
    OBVIOUS
  <2>11. MessageBytes(qos, payload) - Unreserved(qos, payload) = payload + k * w - w - n + 1
    BY <2>6, <2>7, <2>8, <2>10
  <2>12. payload + k * w - w - n + 1 <= n * (average + w)
    BY <2>4, <2>9, <2>10
  <2>13. CalculateL2Framesize(qos, average) + WireBytes = average + w
    BY <1>3, <2>5, <2>8
  <2>14. CalculateL2Framesize(qos, average) \in Nat
    BY <2>5
  <2>15. MessageBytes(qos, payload) - Unreserved(qos, payload) \in Int
    BY <2>10, <2>11
  <2>16. QED
    BY <1>1, <2>1, <2>2, <2>11, <2>12, <2>13, <2>14, <2>15
<1>6. QED
  BY <1>1, <1>4, <1>5

\* The frames of one payload: no frame of an AVB stream is larger than the
\* payload's limit says, nor smaller than the least Ethernet carries.
THEOREM AVBFrameFits ==
    ASSUME NEW payload \in Nat, payload + MacFrameBytes + QTagBytes <= MaxFrameBytes
    PROVE  AVBFrameSize(payload) \in MinFrameBytes..MaxFrameBytes
BY DEF AVBFrameSize, MinFrameBytes, MaxFrameBytes, MacFrameBytes, QTagBytes
=============================================================================
