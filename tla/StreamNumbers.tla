---------------------------- MODULE StreamNumbers ----------------------------
(***************************************************************************)
(* The numbers in headers and reservations: stream identifiers, SOME/IP    *)
(* message and request identifiers, and the size and number of the frames  *)
(* a talker reserves.  Sizes are in bytes, intervals in one unit of time.  *)
(***************************************************************************)
EXTENDS Integers

\* Ceiling of a quotient, for b > 0.
Ceil(a, b) == -((-a) \div b)

-----------------------------------------------------------------------------
(* Identifiers.  Fields of 16 and 32 bits, the service first.              *)

Bits8 == 256
Bits16 == Bits8 * Bits8
Bits32 == Bits16 * Bits16

BuildStreamIDForService(serviceId, instanceId, destAddress) ==
    destAddress + instanceId * Bits32 + serviceId * (Bits16 * Bits32)

\* The message and the request identifier of a SOME/IP packet.  The client
\* identifier is shifted by 16 in a variable of 16 bits.
MessageID(serviceID, method) == serviceID * Bits16 + method

RequestID(clientIDPrefix, clientID, sessionID) ==
    clientIDPrefix * (Bits8 * Bits16) + ((clientID * Bits16) % Bits16) + sessionID

-----------------------------------------------------------------------------
(* Frames.                                                                 *)

MacFrameBytes == 18
QTagBytes == 4
IPHeaderBytes == 20
UDPHeaderBytes == 8
TCPHeaderBytes == 20
SOMEIPHeaderBytes == 16
MinFrameBytes == 64
MaxFrameBytes == 1522

\* Frame of an AVB stream: a short payload is padded.
AVBFrameSize(payload) ==
    IF payload <= MinFrameBytes - MacFrameBytes - QTagBytes THEN MinFrameBytes
    ELSE payload + MacFrameBytes + QTagBytes

\* The headers of a tagged packet of each kind of IP endpoint.  A multicast
\* SOME/IP endpoint counts its own header with the frame only.
HeaderBytes(qos) ==
    MacFrameBytes + QTagBytes + IPHeaderBytes
      + (IF qos \in {"IP_TCP", "SOMEIP_TCP"} THEN TCPHeaderBytes ELSE UDPHeaderBytes)
      + (IF qos \in {"SOMEIP_TCP", "SOMEIP_UDP"} THEN SOMEIPHeaderBytes ELSE 0)

CalculateL2Framesize(qos, payload) ==
    HeaderBytes(qos) + payload + (IF qos = "SOMEIP_UDP_MCAST" THEN SOMEIPHeaderBytes ELSE 0)

MaxPayload(qos) == MaxFrameBytes - HeaderBytes(qos)

\* The number of frames of a payload: an integer division, so a started last
\* frame does not count, and the size of the payload in each of them.
NumFrames(payload, max) == IF payload > max THEN payload \div max ELSE 1
AvgPayload(payload, max) ==
    IF payload > max THEN payload \div NumFrames(payload, max) ELSE payload

\* What the wire adds to a frame: preamble, delimiter, gap and safety byte.
WireBytes == 7 + 1 + 12 + 1

\* Mutant: what the wire adds is not spread over the interval.
NormalizeFramesizeForCMI_Plain(l2Framesize, interval, classInterval) ==
    Ceil(l2Framesize * classInterval, interval) - WireBytes

\* The frame to reserve in each interval of the class, for one of l2Framesize
\* bytes in each interval of the stream.
NormalizeFramesizeForCMI(l2Framesize, interval, classInterval) ==
    Ceil(l2Framesize * classInterval - (interval - classInterval) * WireBytes, interval)

\* What a message takes on the wire: its payload in as few frames as hold it,
\* each with the headers of the endpoint.
MessageBytes(qos, payload) ==
    LET max == MaxPayload(qos)
        frames == IF payload <= max THEN 1 ELSE Ceil(payload, max)
    IN  payload + frames * (CalculateL2Framesize(qos, 0) + WireBytes)

\* How much of that is not reserved: the headers of a started last frame, and
\* what the integer average of the payload drops in each of the others.
Unreserved(qos, payload) ==
    IF payload <= MaxPayload(qos) THEN 0
    ELSE CalculateL2Framesize(qos, 0) + WireBytes + NumFrames(payload, MaxPayload(qos)) - 1

\* The class of a talker whose priority has an interval of its own: B if too
\* little is sent for A.
IntervalForClass(class) == IF class = "A" THEN 1 ELSE 2

ClassFor(l2Framesize, interval) ==
    IF NormalizeFramesizeForCMI(l2Framesize, interval, IntervalForClass("A")) < 0
    THEN "B" ELSE "A"
=============================================================================
