---------------------------- MODULE PeerWireProofs ----------------------------
(***************************************************************************)
(* Proofs about PeerWire, for any number of relayed messages: types, the   *)
(* discipline of the send queue, and that what one end sends is what the   *)
(* other receives, whole, once, in order and of the type that is due.      *)
(***************************************************************************)
EXTENDS PeerWire, SequenceTheorems, TLAPS

-------------------------------------------------------------------------------
(* The header of a packed message is read back as it was written.          *)

\* What an unsigned and the type field of the header can hold.
Sizes == {n \in Nat : n < 256 * 256 * 256 * 256}

Types == {n \in Nat : n < 256 * 256}

\* A number is its high part and its low byte.
LEMMA ShrSplits ==
    ASSUME NEW n \in Nat
    PROVE  /\ Shr8(n) \in Nat
           /\ n % 256 \in Byte
           /\ Shr8(n) * 256 + (n % 256) = n
  <1>1. n \div 256 \in Nat /\ n % 256 \in 0..255
    OBVIOUS
  <1>2. n = 256 * (n \div 256) + (n % 256)
    OBVIOUS
  <1> QED
    BY <1>1, <1>2 DEF Shr8, Byte

\* Every byte of the header is a byte.
LEMMA HeaderBytes ==
    ASSUME NEW size \in Nat, NEW type \in Nat
    PROVE  /\ encodeHeader(size, type) \in Seq(Byte)
           /\ Len(encodeHeader(size, type)) = HEADER_SIZE
  <1>1. \A n \in Nat : Shr8(n) \in Nat /\ n % 256 \in Byte
    BY ShrSplits
  <1>2. /\ Shr8(size) \in Nat
        /\ Shr8(Shr8(size)) \in Nat
        /\ Shr8(Shr8(Shr8(size))) \in Nat
        /\ Shr8(type) \in Nat
    BY <1>1
  <1> QED
    BY <1>1, <1>2 DEF encodeHeader, HEADER_SIZE

\* getLength and getType undo encodeHeader (PackedMessage::encodeHeader,
\* getLength, getType).
THEOREM HeaderRoundTrip ==
    ASSUME NEW size \in Sizes, NEW type \in Types
    PROVE  /\ getLength(encodeHeader(size, type)) = size
           /\ getType(encodeHeader(size, type)) = type
  <1> DEFINE h == encodeHeader(size, type)
             q1 == Shr8(size)
             q2 == Shr8(q1)
             q3 == Shr8(q2)
  <1>1. size \in Nat /\ type \in Nat
    BY DEF Sizes, Types
  <1>2. Len(h) = HEADER_SIZE
    BY <1>1, HeaderBytes
  <1>3. /\ h[1] = q3 % 256 /\ h[2] = q2 % 256 /\ h[3] = q1 % 256 /\ h[4] = size % 256
        /\ h[5] = Shr8(type) % 256 /\ h[6] = type % 256
    BY DEF encodeHeader
  <1>4. /\ q1 \in Nat /\ q1 * 256 + (size % 256) = size
        /\ size % 256 \in Byte
    BY <1>1, ShrSplits
  <1>5. /\ q2 \in Nat /\ q2 * 256 + (q1 % 256) = q1
        /\ q1 % 256 \in Byte
    BY ZenonT(40), <1>4, ShrSplits
  <1>6. /\ q3 \in Nat /\ q3 * 256 + (q2 % 256) = q2
        /\ q2 % 256 \in Byte
    BY ZenonT(40), <1>5, ShrSplits
  <1>7. Shr8(type) \in Nat /\ Shr8(type) * 256 + (type % 256) = type
        /\ type % 256 \in Byte
    BY <1>1, ShrSplits
  <1> HIDE DEF h, q1, q2, q3
  <1>8. q3 < 256
    BY <1>4, <1>5, <1>6 DEF Sizes, Byte
  <1>9. Shr8(type) < 256
    BY <1>7 DEF Types, Byte
  <1>10. \A n \in Nat : n < 256 => n % 256 = n
    OBVIOUS
  <1>11. h[1] = q3 /\ h[5] = Shr8(type)
    BY <1>3, <1>6, <1>7, <1>8, <1>9, <1>10
  <1>12. getLength(h) = ((q3 * 256 + (q2 % 256)) * 256 + (q1 % 256)) * 256 + (size % 256)
    BY <1>2, <1>3, <1>11 DEF getLength, HEADER_SIZE
  <1>13. getType(h) = Shr8(type) * 256 + (type % 256)
    BY <1>2, <1>3, <1>11 DEF getType, HEADER_SIZE
  <1>14. getLength(h) = size /\ getType(h) = type
    BY <1>4, <1>5, <1>6, <1>7, <1>12, <1>13
  <1> QED
    BY <1>14 DEF h

-------------------------------------------------------------------------------
(* The invariant of one Peer object: its types, and the send discipline.   *)

WritesOne(p) ==
    /\ Len(p.writes) <= 1
    /\ p.mSendingPacket # NULL <=> p.writes # <<>>

QueueWaits(p) == p.mSendQ # <<>> /\ ~p.mDetaching => p.mSendingPacket # NULL

HeaderRead(p) == p.reading = "body" => Len(p.mReadbuf) = HEADER_SIZE

PeerInv(p) == p \in PeerRec /\ WritesOne(p) /\ QueueWaits(p) /\ HeaderRead(p)

WireInv ==
    /\ \A e \in Ends : PeerInv(peer[e])
    /\ peer \in [Ends -> PeerRec]
    /\ wire \in [Ends -> Seq(Byte)]
    /\ cut \in BOOLEAN
    /\ relays \in [Ends -> 0..MaxRelays]

-------------------------------------------------------------------------------
(* Lemmas about the code of one end.                                       *)

\* The packets of the model are sequences of bytes.
LEMMA PackBytes ==
    ASSUME NEW type \in Nat, NEW body \in Seq(Byte)
    PROVE  Pack(type, body) \in Packet
  <1>1. Len(body) \in Nat
    OBVIOUS
  <1>2. encodeHeader(Len(body), type) \in Seq(Byte)
    BY <1>1, HeaderBytes
  <1> QED
    BY <1>2 DEF Pack, Packet

\* A write is only started when none is under way.
LEMMA ForceOK ==
    ASSUME NEW p, p \in PeerRec, HeaderRead(p), NEW packet \in Packet,
           p.writes = <<>>, p.mSendingPacket = NULL, NULL \notin Packet,
           ~p.mDetaching
    PROVE  /\ PeerInv(sendPacketForce(p, packet))
           /\ sendPacketForce(p, packet) =
                [p EXCEPT !.mSendingPacket = packet, !.writes = <<packet>>]
  <1> DEFINE q == [p EXCEPT !.mSendingPacket = packet, !.writes = <<packet>>]
  <1>1. sendPacketForce(p, packet) = q
    BY DEF sendPacketForce
  <1>. <<packet>> \in Seq(Packet) /\ packet \in Packet \cup {NULL}
    OBVIOUS
  <1>2. q \in PeerRec
    BY DEF PeerRec
  <1>3. /\ q.writes = <<packet>> /\ q.mSendingPacket = packet
        /\ q.reading = p.reading /\ q.mReadbuf = p.mReadbuf
    BY DEF PeerRec
  <1>4. WritesOne(q) /\ QueueWaits(q) /\ HeaderRead(q)
    BY <1>3 DEF WritesOne, QueueWaits, HeaderRead
  <1> QED
    BY <1>1, <1>2, <1>4 DEF PeerInv

\* sendPacket keeps the invariant.
LEMMA SendOK ==
    ASSUME NEW p, PeerInv(p), NEW packet \in Packet, NULL \notin Packet
    PROVE  PeerInv(sendPacket(p, packet))
  <1>1. p \in PeerRec
    BY DEF PeerInv
  <1>2. p.sent \in Seq(Packet) /\ p.mSendQ \in Seq(Packet)
    BY <1>1 DEF PeerRec
  <1>3. PICK s : s = IF p.mDetaching THEN p.sent ELSE Append(p.sent, packet)
    OBVIOUS
  <1>4. s \in Seq(Packet)
    BY <1>2, <1>3
  <1>5. ASSUME NEW q, PeerInv(q)
        PROVE  PeerInv([q EXCEPT !.sent = s])
    <2>1. q \in PeerRec
      BY <1>5 DEF PeerInv
    <2>2. [q EXCEPT !.sent = s] \in PeerRec
      BY <1>4, <2>1 DEF PeerRec
    <2> QED
      BY <1>5, <2>1, <2>2 DEF PeerInv, PeerRec, WritesOne, QueueWaits, HeaderRead
  <1>6. CASE p.mSendingPacket # NULL
    <2> DEFINE q == [p EXCEPT !.mSendQ = Append(p.mSendQ, packet)]
    <2>0. Append(p.mSendQ, packet) \in Seq(Packet)
      BY <1>2
    <2>1. q \in PeerRec
      BY <1>1, <2>0 DEF PeerRec
    <2>2. PeerInv(q)
      BY <1>1, <1>6, <2>1 DEF PeerInv, PeerRec, WritesOne, QueueWaits, HeaderRead
    <2>3. sendPacket(p, packet) = [q EXCEPT !.sent = s]
      BY <1>1, <1>3, <1>6 DEF sendPacket, PeerRec
    <2> QED
      BY <1>5, <2>2, <2>3
  <1>7. CASE p.mSendingPacket = NULL /\ ~p.mDetaching
    <2>1. p.writes = <<>>
      BY <1>7 DEF PeerInv, WritesOne
    <2>2. /\ PeerInv(sendPacketForce(p, packet))
          /\ sendPacketForce(p, packet) =
                [p EXCEPT !.mSendingPacket = packet, !.writes = <<packet>>]
      BY <1>1, <1>7, <2>1, ForceOK DEF PeerInv
    <2>3. sendPacketForce(p, packet).sent = p.sent
      BY <1>1, <2>2 DEF PeerRec
    <2>4. sendPacket(p, packet) = [sendPacketForce(p, packet) EXCEPT !.sent = s]
      BY <1>3, <1>7, <2>3 DEF sendPacket
    <2> QED
      BY <1>5, <2>2, <2>4
  <1>8. CASE p.mSendingPacket = NULL /\ p.mDetaching
    <2>1. sendPacketForce(p, packet) = p
      BY <1>8 DEF sendPacketForce
    <2>2. sendPacket(p, packet) = [p EXCEPT !.sent = s]
      BY <1>3, <1>8, <2>1 DEF sendPacket
    <2> QED
      BY <1>5, <2>2
  <1> QED
    BY <1>6, <1>7, <1>8

Reasons == {"none", "hw", "recvh", "prb1", "hrh", "hrh2", "other"}

\* detach keeps the invariant: the queue is emptied.
LEMMA DetachOK ==
    ASSUME NEW p, p \in PeerRec, WritesOne(p), HeaderRead(p), NEW why \in Reasons
    PROVE  /\ detach(p, why) \in PeerRec
           /\ detach(p, why).mDetaching
           /\ WritesOne(detach(p, why))
           /\ QueueWaits(detach(p, why))
           /\ HeaderRead(detach(p, why))
  <1>1. CASE p.mDetaching
    BY <1>1 DEF detach, QueueWaits
  <1>2. CASE ~p.mDetaching
    <2> DEFINE q == [p EXCEPT !.mDetaching = TRUE, !.mSendQ = <<>>, !.reason = why]
    <2>1. detach(p, why) = q
      BY <1>2 DEF detach
    <2>. <<>> \in Seq(Packet) /\ TRUE \in BOOLEAN
      OBVIOUS
    <2>2. q \in PeerRec
      BY DEF PeerRec, Reasons
    <2>3. /\ q.mDetaching = TRUE /\ q.writes = p.writes
          /\ q.mSendingPacket = p.mSendingPacket
          /\ q.reading = p.reading /\ q.mReadbuf = p.mReadbuf
      BY DEF PeerRec
    <2> QED
      BY <2>1, <2>2, <2>3 DEF WritesOne, QueueWaits, HeaderRead
  <1> QED
    BY <1>1, <1>2 DEF PeerRec

\* A write that ends leaves the next packet of the queue being written.
LEMMA WriteOverOK ==
    ASSUME NEW p, PeerInv(p), NEW i \in DOMAIN p.writes, NEW error \in BOOLEAN,
           NULL \notin Packet
    PROVE  PeerInv(WriteOver(p, i, error))
  <1>1. p \in PeerRec
    BY DEF PeerInv
  <1>a. p.writes \in Seq(Packet)
    BY <1>1 DEF PeerRec
  <1>b. Len(p.writes) <= 1
    BY DEF PeerInv, WritesOne
  <1>d. DOMAIN p.writes = 1..Len(p.writes) /\ Len(p.writes) \in Nat
    BY <1>a
  <1>e. PICK n \in Nat : n = Len(p.writes)
    BY <1>d
  <1>f. PICK k \in 1..n : k = i
    BY <1>d, <1>e
  <1>h. n <= 1
    BY <1>b, <1>e
  <1>j. n = 1 /\ k = 1
    BY <1>h
  <1>g. n = 1 /\ i = 1
    BY <1>f, <1>j
  <1>2. Len(p.writes) = 1 /\ i = 1
    BY <1>e, <1>g
  <1>3. RemoveAt(p.writes, i) = <<>>
    BY <1>a, <1>2 DEF RemoveAt
  <1> DEFINE q == [p EXCEPT !.writes = <<>>, !.mSendingPacket = NULL]
  <1>c. <<>> \in Seq(Packet) /\ NULL \in Packet \cup {NULL}
    OBVIOUS
  <1>4. q \in PeerRec
    BY <1>1, <1>c DEF PeerRec
  <1>5. /\ q.writes = <<>> /\ q.mSendingPacket = NULL /\ q.mSendQ = p.mSendQ
        /\ q.reading = p.reading /\ q.mReadbuf = p.mReadbuf
        /\ q.mDetaching = p.mDetaching
    BY <1>1 DEF PeerRec
  <1>6. WritesOne(q) /\ HeaderRead(q)
    BY <1>5 DEF WritesOne, HeaderRead, PeerInv
  <1>7. WriteOver(p, i, error) =
            IF q.mDetaching THEN q
            ELSE IF error THEN detach(q, "hw")
            ELSE WriteNext(q)
    BY <1>1, <1>3 DEF WriteOver, PeerRec
  <1>8. q.mSendQ \in Seq(Packet) /\ q.mDetaching \in BOOLEAN
    BY <1>4 DEF PeerRec
  <1> HIDE DEF q
  <1>9. CASE q.mDetaching
    BY <1>4, <1>6, <1>7, <1>9 DEF PeerInv, QueueWaits
  <1>10. CASE ~q.mDetaching /\ error
    <2>1. "hw" \in Reasons
      BY DEF Reasons
    <2> QED
      BY <1>4, <1>6, <1>7, <1>10, <2>1, DetachOK DEF PeerInv
  <1>11. CASE ~q.mDetaching /\ ~error /\ q.mSendQ = <<>>
    BY <1>4, <1>6, <1>7, <1>11 DEF PeerInv, QueueWaits, WriteNext
  <1>12. CASE ~q.mDetaching /\ ~error /\ q.mSendQ # <<>>
    <2>1. Head(q.mSendQ) \in Packet /\ Tail(q.mSendQ) \in Seq(Packet)
      BY <1>8, <1>12
    <2>2. PICK packet \in Packet : packet = Head(q.mSendQ)
      BY <2>1
    <2>3. PICK r : r = sendPacketForce(q, packet)
      OBVIOUS
    <2>4. /\ PeerInv(r)
          /\ r = [q EXCEPT !.mSendingPacket = packet, !.writes = <<packet>>]
      BY <1>4, <1>5, <1>6, <1>12, <2>3, ForceOK
    <2>5. r \in PeerRec /\ r.mSendQ = q.mSendQ
      BY <1>4, <2>4 DEF PeerInv, PeerRec
    <2>6. WriteOver(p, i, error) = [r EXCEPT !.mSendQ = Tail(q.mSendQ)]
      BY <1>7, <1>12, <2>2, <2>3, <2>5 DEF WriteNext
    <2>7. [r EXCEPT !.mSendQ = Tail(q.mSendQ)] \in PeerRec
      BY <2>1, <2>5 DEF PeerRec
    <2>8. r.mSendingPacket # NULL
      BY <1>4, <2>4 DEF PeerRec
    <2> QED
      BY <2>4, <2>5, <2>6, <2>7, <2>8
         DEF PeerInv, PeerRec, WritesOne, QueueWaits, HeaderRead
  <1> QED
    BY <1>8, <1>9, <1>10, <1>11, <1>12

\* What a read leaves behind.
LEMMA ReadOK ==
    ASSUME NEW p, PeerInv(p), NEW r \in {"no", "header", "body"},
           NEW b \in Seq(Byte), r = "body" => Len(b) = HEADER_SIZE
    PROVE  PeerInv([p EXCEPT !.mReadbuf = b, !.reading = r])
  <1> DEFINE q == [p EXCEPT !.mReadbuf = b, !.reading = r]
  <1>1. p \in PeerRec
    BY DEF PeerInv
  <1>2. q \in PeerRec
    BY <1>1 DEF PeerRec
  <1>3. /\ q.writes = p.writes /\ q.mSendingPacket = p.mSendingPacket
        /\ q.mSendQ = p.mSendQ /\ q.mDetaching = p.mDetaching
        /\ q.reading = r /\ q.mReadbuf = b
    BY <1>1 DEF PeerRec
  <1> QED
    BY <1>2, <1>3 DEF PeerInv, WritesOne, QueueWaits, HeaderRead

\* A read that ends for good.
LEMMA StopReadOK ==
    ASSUME NEW p, PeerInv(p)
    PROVE  PeerInv([p EXCEPT !.reading = "no"])
  <1>1. p \in PeerRec
    BY DEF PeerInv
  <1>2. p.mReadbuf \in Seq(Byte)
    BY <1>1 DEF PeerRec
  <1>3. [p EXCEPT !.reading = "no"] = [p EXCEPT !.mReadbuf = p.mReadbuf, !.reading = "no"]
    BY <1>1 DEF PeerRec
  <1> QED
    BY <1>2, <1>3, ReadOK

\* start_read_header keeps the invariant.
LEMMA StartReadOK ==
    ASSUME NEW p, PeerInv(p)
    PROVE  PeerInv(start_read_header(p))
  <1>1. p \in PeerRec
    BY DEF PeerInv
  <1>2. CASE p.mDetaching
    BY <1>2, StopReadOK DEF start_read_header
  <1>3. CASE ~p.mDetaching
    <2>1. start_read_header(p) = [p EXCEPT !.mReadbuf = <<>>, !.reading = "header"]
      BY <1>1, <1>3 DEF start_read_header, PeerRec
    <2>2. <<>> \in Seq(Byte)
      OBVIOUS
    <2>3. "header" \in {"no", "header", "body"} /\ "header" # "body"
      OBVIOUS
    <2>4. PICK b \in Seq(Byte), r \in {"no", "header", "body"} :
            b = <<>> /\ r = "header" /\ r # "body"
      BY <2>2, <2>3
    <2>5. PeerInv([p EXCEPT !.mReadbuf = b, !.reading = r])
      BY <2>4, ReadOK
    <2> QED
      BY <2>1, <2>4, <2>5
  <1> QED
    BY <1>2, <1>3

\* The fields the discipline does not look at.
LEMMA OthersOK ==
    ASSUME NEW p, PeerInv(p), NEW s \in BOOLEAN, NEW h \in BOOLEAN,
           NEW r \in Seq(Packet)
    PROVE  PeerInv([p EXCEPT !.started = s, !.mHelloed = h, !.received = r])
  <1> DEFINE q == [p EXCEPT !.started = s, !.mHelloed = h, !.received = r]
  <1>1. p \in PeerRec
    BY DEF PeerInv
  <1>2. q \in PeerRec
    BY <1>1 DEF PeerRec
  <1>3. /\ q.writes = p.writes /\ q.mSendingPacket = p.mSendingPacket
        /\ q.mSendQ = p.mSendQ /\ q.mDetaching = p.mDetaching
        /\ q.reading = p.reading /\ q.mReadbuf = p.mReadbuf
    BY <1>1 DEF PeerRec
  <1> QED
    BY <1>2, <1>3 DEF PeerInv, WritesOne, QueueWaits, HeaderRead

\* The fixed packets of the model.
LEMMA PacketsOK ==
    /\ Hello \in Packet /\ GetPeers \in Packet /\ PeerList \in Packet
    /\ \A n \in Nat : Relayed(n) \in Packet
  <1>1. <<7>> \in Seq(Byte) /\ <<1>> \in Seq(Byte) /\ <<2>> \in Seq(Byte)
    BY DEF Byte
  <1>2. \A n \in Nat : <<9, n % 256>> \in Seq(Byte)
    BY ShrSplits DEF Byte
  <1>3. mtHELLO \in Nat /\ mtGET_PEERS \in Nat /\ mtPEERS \in Nat /\ mtTRANSACTION \in Nat
    BY DEF mtHELLO, mtGET_PEERS, mtPEERS, mtTRANSACTION
  <1> QED
    BY ZenonT(40), <1>1, <1>2, <1>3, PackBytes DEF Hello, GetPeers, PeerList, Relayed

\* The message is processed, whatever it is.
LEMMA ProcessOK ==
    ASSUME NEW p, PeerInv(p), NEW buf \in Packet, NEW accepted \in BOOLEAN,
           NULL \notin Packet
    PROVE  PeerInv(processReadBuffer(p, buf, accepted))
  <1> DEFINE q == [p EXCEPT !.received = Append(p.received, buf)]
  <1>1. p \in PeerRec
    BY DEF PeerInv
  <1>2. p.received \in Seq(Packet) /\ p.started \in BOOLEAN /\ p.mHelloed \in BOOLEAN
    BY <1>1 DEF PeerRec
  <1>3. Append(p.received, buf) \in Seq(Packet)
    BY <1>2
  <1>4. q = [p EXCEPT !.started = p.started, !.mHelloed = p.mHelloed,
                      !.received = Append(p.received, buf)]
    BY <1>1 DEF PeerRec
  <1>5. PeerInv(q)
    BY <1>2, <1>3, <1>4, OthersOK
  <1>6. processReadBuffer(p, buf, accepted) =
            IF WrongType(p, getType(buf)) THEN detach(q, "prb1")
            ELSE IF getType(buf) = mtHELLO THEN recvHello(q, accepted)
            ELSE IF getType(buf) = mtGET_PEERS THEN sendPacket(q, PeerList)
            ELSE q
    BY DEF processReadBuffer
  <1> HIDE DEF q
  <1>7. \A why \in Reasons : PeerInv(detach(q, why))
    BY <1>5, DetachOK DEF PeerInv
  <1>8. PeerInv(sendPacket(q, PeerList))
    BY <1>5, PacketsOK, SendOK
  <1>9. PeerInv(recvHello(q, accepted))
    <2>1. q \in PeerRec
      BY <1>5 DEF PeerInv
    <2>2. q.started \in BOOLEAN /\ q.received \in Seq(Packet) /\ TRUE \in BOOLEAN
      BY <2>1 DEF PeerRec
    <2>3. [q EXCEPT !.mHelloed = TRUE] =
            [q EXCEPT !.started = q.started, !.mHelloed = TRUE, !.received = q.received]
      BY <2>1 DEF PeerRec
    <2>4. PeerInv([q EXCEPT !.mHelloed = TRUE])
      BY <1>5, <2>2, <2>3, OthersOK
    <2>5. PeerInv(sendPacket([q EXCEPT !.mHelloed = TRUE], GetPeers))
      BY <2>4, PacketsOK, SendOK
    <2>6. "recvh" \in Reasons
      BY DEF Reasons
    <2> QED
      BY <1>7, <2>5, <2>6 DEF recvHello
  <1>10. "prb1" \in Reasons
    BY DEF Reasons
  <1> QED
    BY <1>5, <1>6, <1>7, <1>8, <1>9, <1>10

\* A sequence is empty when its length is zero.
LEMMA EmptyLength ==
    ASSUME NEW S, NEW s \in Seq(S)
    PROVE  Len(s) \in Nat /\ (Len(s) = 0 <=> s = <<>>)
  OBVIOUS

\* The length a header announces is a number.
LEMMA LengthNat ==
    ASSUME NEW h \in Seq(Byte), Len(h) = HEADER_SIZE
    PROVE  getLength(h) \in Nat
  <1>1. Len(h) = 6
    BY DEF HEADER_SIZE
  <1>2. h[1] \in Byte /\ h[2] \in Byte /\ h[3] \in Byte /\ h[4] \in Byte
    BY <1>1
  <1>3. PICK a \in Byte, b \in Byte, c \in Byte, d \in Byte :
            a = h[1] /\ b = h[2] /\ c = h[3] /\ d = h[4]
    BY <1>2
  <1>4. ((a * 256 + b) * 256 + c) * 256 + d \in Nat
    BY DEF Byte
  <1>5. getLength(h) = ((h[1] * 256 + h[2]) * 256 + h[3]) * 256 + h[4]
    BY <1>1 DEF getLength, HEADER_SIZE
  <1> QED
    BY <1>3, <1>4, <1>5

\* What is read from the wire, and what is left on it.
LEMMA ReadBytes ==
    ASSUME NEW w \in Seq(Byte), NEW n \in Nat, n <= Len(w)
    PROVE  /\ SubSeq(w, 1, n) \in Seq(Byte) /\ Len(SubSeq(w, 1, n)) = n
           /\ SubSeq(w, n + 1, Len(w)) \in Seq(Byte)
  OBVIOUS

-------------------------------------------------------------------------------
(* The steps.                                                              *)

\* A null pointer is not a packet.
LEMMA NullOK == NULL \notin Packet
  BY ConstantsAssumption DEF Packet

\* The other end is an end.
LEMMA OtherOK == \A e \in Ends : Other(e) \in Ends
  <1>1. \A e \in Ends : \E o \in Ends : o # e
    BY ConstantsAssumption
  <1> QED
    BY <1>1 DEF Other

\* A handler that leaves its Peer object right leaves all of them right.
LEMMA LeaveOK ==
    ASSUME WireInv, NEW e \in Ends, NEW p, PeerInv(p), Leave(e, p)
    PROVE  /\ peer' \in [Ends -> PeerRec]
           /\ \A d \in Ends : PeerInv(peer'[d])
  <1>1. p \in PeerRec /\ peer \in [Ends -> PeerRec]
    BY DEF PeerInv, WireInv
  <1>2. peer' \in [Ends -> PeerRec]
    BY <1>1 DEF Leave
  <1>3. \A d \in Ends : peer'[d] = IF d = e THEN p ELSE peer[d]
    BY <1>1 DEF Leave
  <1> QED
    BY <1>2, <1>3 DEF WireInv

\* Steps that only touch the Peer object of one end.
LEMMA LocalOK ==
    ASSUME WireInv, NEW e \in Ends, NEW p, PeerInv(p), Leave(e, p),
           UNCHANGED <<wire, cut, relays>>
    PROVE  WireInv'
  BY LeaveOK DEF WireInv

\* handleStart keeps the invariant.
LEMMA StartStep ==
    ASSUME WireInv, NEW e \in Ends, handleStart(e)
    PROVE  WireInv'
  <1>1. PeerInv(peer[e])
    BY DEF WireInv
  <1>2. PICK p : p = peer[e]
    OBVIOUS
  <1>3. p \in PeerRec /\ PeerInv(p)
    BY <1>1, <1>2 DEF PeerInv
  <1>4. p.mHelloed \in BOOLEAN /\ p.received \in Seq(Packet) /\ TRUE \in BOOLEAN
    BY <1>3 DEF PeerRec
  <1>5. [p EXCEPT !.started = TRUE] =
            [p EXCEPT !.started = TRUE, !.mHelloed = p.mHelloed, !.received = p.received]
    BY <1>3 DEF PeerRec
  <1>6. PeerInv([p EXCEPT !.started = TRUE])
    BY <1>3, <1>4, <1>5, OthersOK
  <1>7. PeerInv(sendPacket([p EXCEPT !.started = TRUE], Hello))
    BY <1>6, PacketsOK, NullOK, SendOK
  <1>8. PeerInv(start_read_header(sendPacket([p EXCEPT !.started = TRUE], Hello)))
    BY <1>7, StartReadOK
  <1> QED
    BY <1>2, <1>8, LocalOK DEF handleStart

\* relayMessage keeps it.
LEMMA RelayStep ==
    ASSUME WireInv, NEW e \in Ends, relayMessage(e)
    PROVE  WireInv'
  <1>1. PeerInv(peer[e]) /\ relays[e] \in 0..MaxRelays
    BY DEF WireInv
  <1>2. Relayed(relays[e]) \in Packet
    BY <1>1, PacketsOK, ConstantsAssumption
  <1>3. PeerInv(sendPacket(peer[e], Relayed(relays[e])))
    BY <1>1, <1>2, NullOK, SendOK
  <1>4. peer' \in [Ends -> PeerRec] /\ \A d \in Ends : PeerInv(peer'[d])
    BY <1>3, LeaveOK DEF relayMessage
  <1>5. relays' \in [Ends -> 0..MaxRelays]
    BY <1>1, ConstantsAssumption DEF relayMessage, WireInv
  <1> QED
    BY <1>4, <1>5 DEF relayMessage, WireInv

\* A byte that leaves shortens the one write under way.
LEMMA TransferStep ==
    ASSUME WireInv, NEW e \in Ends, Transfer(e)
    PROVE  WireInv'
  <1>1. PICK p : p = peer[e]
    OBVIOUS
  <1>2. PeerInv(p) /\ p \in PeerRec
    BY <1>1 DEF WireInv, PeerInv
  <1>3. PICK i \in DOMAIN p.writes :
            /\ p.writes[i] # <<>>
            /\ wire' = [wire EXCEPT ![e] = Append(@, Head(p.writes[i]))]
            /\ Leave(e, [p EXCEPT !.writes[i] = Tail(@)])
            /\ UNCHANGED <<cut, relays>>
    BY <1>1 DEF Transfer
  <1>4. p.writes \in Seq(Packet)
    BY <1>2 DEF PeerRec
  <1>5. PICK b : b = p.writes[i]
    OBVIOUS
  <1>6. b \in Seq(Byte) /\ b # <<>>
    BY <1>3, <1>4, <1>5 DEF Packet
  <1>7. Head(b) \in Byte /\ Tail(b) \in Packet
    BY <1>6 DEF Packet
  <1>8. wire' \in [Ends -> Seq(Byte)]
    <2>1. wire[e] \in Seq(Byte)
      BY DEF WireInv
    <2>2. Append(wire[e], Head(b)) \in Seq(Byte)
      BY <1>7, <2>1
    <2> QED
      BY <1>3, <1>5, <2>2 DEF WireInv
  <1>9. PICK ws : ws = [p.writes EXCEPT ![i] = Tail(b)]
    OBVIOUS
  <1>10. ws \in Seq(Packet) /\ Len(ws) = Len(p.writes)
    BY <1>4, <1>7, <1>9
  <1>11. [p EXCEPT !.writes[i] = Tail(@)] = [p EXCEPT !.writes = ws]
    BY <1>2, <1>5, <1>9 DEF PeerRec
  <1>12. PeerInv([p EXCEPT !.writes = ws])
    <2> DEFINE q == [p EXCEPT !.writes = ws]
    <2>1. q \in PeerRec
      BY <1>2, <1>10 DEF PeerRec
    <2>2. /\ q.writes = ws /\ q.mSendingPacket = p.mSendingPacket
          /\ q.mSendQ = p.mSendQ /\ q.mDetaching = p.mDetaching
          /\ q.reading = p.reading /\ q.mReadbuf = p.mReadbuf
      BY <1>2 DEF PeerRec
    <2>3. ws # <<>> <=> p.writes # <<>>
      BY <1>4, <1>10
    <2> HIDE DEF q
    <2>4. WritesOne(q) /\ QueueWaits(q) /\ HeaderRead(q)
      BY <1>2, <1>10, <2>2, <2>3 DEF PeerInv, WritesOne, QueueWaits, HeaderRead
    <2>5. PeerInv(q)
      BY <2>1, <2>4 DEF PeerInv
    <2> QED
      BY <2>5 DEF q
  <1>13. peer' \in [Ends -> PeerRec] /\ \A d \in Ends : PeerInv(peer'[d])
    BY <1>3, <1>11, <1>12, LeaveOK
  <1> QED
    BY <1>3, <1>8, <1>13 DEF WireInv

\* The end of a write starts the next one of the queue.
LEMMA WriteStep ==
    ASSUME WireInv, NEW e \in Ends, handle_write(e) \/ handle_write_error(e)
    PROVE  WireInv'
  <1>1. PICK p : p = peer[e]
    OBVIOUS
  <1>2. PeerInv(p)
    BY <1>1 DEF WireInv
  <1>3. /\ UNCHANGED <<wire, cut, relays>>
        /\ \E i \in DOMAIN p.writes : \E error \in BOOLEAN :
                Leave(e, WriteOver(p, i, error))
    BY <1>1 DEF handle_write, handle_write_error
  <1>4. PICK i \in DOMAIN p.writes : \E error \in BOOLEAN :
                Leave(e, WriteOver(p, i, error))
    BY <1>3
  <1>5. PICK error \in BOOLEAN : Leave(e, WriteOver(p, i, error))
    BY <1>4
  <1>6. PeerInv(WriteOver(p, i, error))
    BY <1>2, NullOK, WriteOverOK
  <1> QED
    BY <1>3, <1>5, <1>6, LocalOK

\* An end that detaches keeps the invariant, its queue being emptied.
LEMMA DetachStep ==
    ASSUME WireInv, NEW e \in Ends, Detach(e) \/ handle_read_error(e)
    PROVE  WireInv'
  <1>1. PICK p : p = peer[e]
    OBVIOUS
  <1>2. PeerInv(p)
    BY <1>1 DEF WireInv
  <1>3. \A why \in Reasons : PeerInv(detach(p, why))
    BY <1>2, DetachOK DEF PeerInv
  <1>4. PeerInv(detach(p, "other")) /\ PeerInv(detach(p, "hrh2"))
    BY <1>3 DEF Reasons
  <1>5. PeerInv([detach(p, "hrh2") EXCEPT !.reading = "no"])
    BY <1>4, StopReadOK
  <1> QED
    BY <1>1, <1>4, <1>5, LocalOK DEF Detach, handle_read_error

\* Taking n bytes off the wire.
LEMMA TakeOK ==
    ASSUME WireInv, NEW o \in Ends, NEW n \in Nat, n <= Len(wire[o]),
           wire' = [wire EXCEPT ![o] = SubSeq(@, n + 1, Len(@))]
    PROVE  /\ SubSeq(wire[o], 1, n) \in Seq(Byte)
           /\ Len(SubSeq(wire[o], 1, n)) = n
           /\ wire' \in [Ends -> Seq(Byte)]
  <1>1. PICK w \in Seq(Byte) : w = wire[o]
    BY DEF WireInv
  <1>2. /\ SubSeq(w, 1, n) \in Seq(Byte) /\ Len(SubSeq(w, 1, n)) = n
        /\ SubSeq(w, n + 1, Len(w)) \in Seq(Byte)
    BY <1>1, ReadBytes
  <1>3. wire' \in [Ends -> Seq(Byte)]
    BY <1>1, <1>2 DEF WireInv
  <1> QED
    BY <1>1, <1>2, <1>3

\* A header that is kept for the body is whole.
LEMMA HeaderStep ==
    ASSUME WireInv, NEW e \in Ends, handle_read_header(e)
    PROVE  WireInv'
  <1>1. PICK p : p = peer[e]
    OBVIOUS
  <1>2. PeerInv(p) /\ p \in PeerRec
    BY <1>1 DEF WireInv, PeerInv
  <1>3. PICK o \in Ends : o = Other(e)
    BY OtherOK
  <1>4. HEADER_SIZE \in Nat
    BY DEF HEADER_SIZE
  <1>5. PICK h : h = SubSeq(wire[o], 1, HEADER_SIZE)
    OBVIOUS
  <1>6. h \in Seq(Byte) /\ Len(h) = HEADER_SIZE /\ wire' \in [Ends -> Seq(Byte)]
    <2>1. wire[o] \in Seq(Byte)
      BY DEF WireInv
    <2>2. Len(wire[o]) \in Nat
      BY <2>1
    <2>3. /\ HEADER_SIZE <= Len(wire[o])
          /\ wire' = [wire EXCEPT ![o] = SubSeq(@, HEADER_SIZE + 1, Len(@))]
      BY <1>3, <1>4, <2>2 DEF handle_read_header
    <2> QED
      BY <1>4, <1>5, <2>3, TakeOK
  <1>7. \A r \in {"no", "header", "body"} : PeerInv([p EXCEPT !.mReadbuf = h, !.reading = r])
    BY <1>2, <1>6, ReadOK
  <1>8. PICK q : q = [p EXCEPT !.mReadbuf = h]
    OBVIOUS
  <1>9. /\ [q EXCEPT !.reading = "no"] = [p EXCEPT !.mReadbuf = h, !.reading = "no"]
        /\ [q EXCEPT !.reading = "body"] = [p EXCEPT !.mReadbuf = h, !.reading = "body"]
    BY <1>2, <1>8 DEF PeerRec
  <1>10. PeerInv([q EXCEPT !.reading = "no"]) /\ PeerInv([q EXCEPT !.reading = "body"])
    BY <1>7, <1>9
  <1>11. PeerInv([detach(q, "hrh") EXCEPT !.reading = "no"])
    <2>1. q \in PeerRec /\ q.writes = p.writes /\ q.mSendingPacket = p.mSendingPacket
          /\ q.mReadbuf = h
      BY <1>2, <1>6, <1>8 DEF PeerRec
    <2>2. WritesOne(q) /\ HeaderRead(q)
      BY <1>2, <1>6, <2>1 DEF PeerInv, WritesOne, HeaderRead
    <2>3. "hrh" \in Reasons
      BY DEF Reasons
    <2>4. PeerInv(detach(q, "hrh"))
      BY <2>1, <2>2, <2>3, DetachOK DEF PeerInv
    <2> QED
      BY <2>4, StopReadOK
  <1>12. PICK r : /\ Leave(e, r)
                  /\ \/ r = [q EXCEPT !.reading = "no"]
                     \/ r = [detach(q, "hrh") EXCEPT !.reading = "no"]
                     \/ r = [q EXCEPT !.reading = "body"]
    BY <1>1, <1>3, <1>5, <1>8 DEF handle_read_header
  <1>13. PeerInv(r)
    BY <1>10, <1>11, <1>12
  <1>14. peer' \in [Ends -> PeerRec] /\ \A d \in Ends : PeerInv(peer'[d])
    BY <1>12, <1>13, LeaveOK
  <1> QED
    BY <1>6, <1>14 DEF handle_read_header, WireInv

\* A message is processed and the next header read.
LEMMA BodyStep ==
    ASSUME WireInv, NEW e \in Ends, handle_read_body(e)
    PROVE  WireInv'
  <1>1. PICK p : p = peer[e]
    OBVIOUS
  <1>2. PeerInv(p) /\ p \in PeerRec
    BY <1>1 DEF WireInv, PeerInv
  <1>3. PICK o \in Ends : o = Other(e)
    BY OtherOK
  <1>4. p.reading = "body"
    BY <1>1 DEF handle_read_body
  <1>5. p.mReadbuf \in Seq(Byte) /\ Len(p.mReadbuf) = HEADER_SIZE
    BY <1>2, <1>4 DEF PeerInv, PeerRec, HeaderRead
  <1>6. PICK n \in Nat : n = getLength(p.mReadbuf)
    BY <1>5, LengthNat
  <1>7. PICK b : b = SubSeq(wire[o], 1, n)
    OBVIOUS
  <1>8. b \in Seq(Byte) /\ wire' \in [Ends -> Seq(Byte)]
    <2>1. wire[o] \in Seq(Byte)
      BY DEF WireInv
    <2>2. Len(wire[o]) \in Nat
      BY <2>1
    <2>3. n <= Len(wire[o]) /\ wire' = [wire EXCEPT ![o] = SubSeq(@, n + 1, Len(@))]
      BY <1>1, <1>3, <1>6, <2>2 DEF handle_read_body
    <2> QED
      BY <1>7, <2>3, TakeOK
  <1>9. p.mReadbuf \o b \in Packet
    BY <1>5, <1>8 DEF Packet
  <1>10. PICK accepted \in BOOLEAN :
            Leave(e, IF p.mDetaching THEN [p EXCEPT !.reading = "no"]
                     ELSE start_read_header(
                            processReadBuffer(p, p.mReadbuf \o b, accepted)))
    BY <1>1, <1>3, <1>6, <1>7 DEF handle_read_body
  <1>11. PeerInv([p EXCEPT !.reading = "no"])
    BY <1>2, StopReadOK
  <1>12. PeerInv(processReadBuffer(p, p.mReadbuf \o b, accepted))
    BY <1>2, <1>9, NullOK, ProcessOK
  <1>13. PeerInv(start_read_header(processReadBuffer(p, p.mReadbuf \o b, accepted)))
    BY <1>12, StartReadOK
  <1>14. peer' \in [Ends -> PeerRec] /\ \A d \in Ends : PeerInv(peer'[d])
    <2>1. CASE p.mDetaching
      BY <1>10, <1>11, <2>1, LeaveOK
    <2>2. CASE ~p.mDetaching
      BY <1>10, <1>13, <2>2, LeaveOK
    <2> QED
      BY <2>1, <2>2
  <1> QED
    BY <1>8, <1>14 DEF handle_read_body, WireInv

-------------------------------------------------------------------------------
(* The theorems.                                                           *)

\* The invariant holds at first.
LEMMA WireInit ==
    ASSUME Init
    PROVE  WireInv
  <1>1. <<>> \in Seq(Packet) /\ <<>> \in Seq(Byte) /\ NULL \in Packet \cup {NULL}
    OBVIOUS
  <1>2. NewPeer \in PeerRec
    BY <1>1 DEF NewPeer, PeerRec
  <1>3. WritesOne(NewPeer) /\ QueueWaits(NewPeer) /\ HeaderRead(NewPeer)
    BY DEF NewPeer, WritesOne, QueueWaits, HeaderRead
  <1>4. PeerInv(NewPeer)
    BY <1>2, <1>3 DEF PeerInv
  <1>5. \A e \in Ends : peer[e] = NewPeer
    BY DEF Init
  <1>6. 0 \in 0..MaxRelays
    BY ConstantsAssumption
  <1> QED
    BY <1>1, <1>2, <1>4, <1>5, <1>6 DEF Init, WireInv

\* Every step keeps it.
LEMMA WireStep ==
    ASSUME WireInv, [Next]_vars
    PROVE  WireInv'
  <1>1. CASE UNCHANGED vars
    BY <1>1 DEF vars, WireInv
  <1>2. CASE Cut
    BY <1>2 DEF Cut, WireInv
  <1>3. ASSUME NEW e \in Ends, handleStart(e)
        PROVE  WireInv'
    BY <1>3, StartStep
  <1>4. ASSUME NEW e \in Ends, relayMessage(e)
        PROVE  WireInv'
    BY <1>4, RelayStep
  <1>5. ASSUME NEW e \in Ends, Transfer(e)
        PROVE  WireInv'
    BY <1>5, TransferStep
  <1>6. ASSUME NEW e \in Ends, handle_write(e) \/ handle_write_error(e)
        PROVE  WireInv'
    BY <1>6, WriteStep
  <1>7. ASSUME NEW e \in Ends, Read(e)
        PROVE  WireInv'
    BY <1>7, HeaderStep, BodyStep DEF Read
  <1>8. ASSUME NEW e \in Ends, Detach(e) \/ handle_read_error(e)
        PROVE  WireInv'
    BY <1>8, DetachStep
  <1> QED
    BY <1>1, <1>2, <1>3, <1>4, <1>5, <1>6, <1>7, <1>8 DEF Next

\* The invariant of every Peer object holds throughout.
THEOREM WireInvariance == Safety => []WireInv
  <1>1. Init => WireInv
    BY WireInit
  <1>2. WireInv /\ [Next]_vars => WireInv'
    BY WireStep
  <1> QED
    BY <1>1, <1>2, PTL DEF Safety

\* The types hold, and a body is only read after a whole header

\* (handle_read_header, start_read_body).
THEOREM WireTypeCorrect == Safety => []TypeOK
  <1>1. WireInv => TypeOK
    BY DEF WireInv, PeerInv, HeaderRead, TypeOK
  <1> QED
    BY <1>1, WireInvariance, PTL

\* At most one write is under way, and mSendingPacket says so, whatever the

\* packets, however many, and however the handlers interleave (sendPacket,
\* handle_write).
THEOREM OneWriteCorrect == Safety => []OneWrite
  <1>1. WireInv => OneWrite
    BY DEF WireInv, PeerInv, WritesOne, OneWrite
  <1> QED
    BY <1>1, WireInvariance, PTL

\* Packets never wait in the queue of a live connection while nothing is

\* being written (sendPacket, handle_write, detach).
THEOREM QueueMovesCorrect == Safety => []QueueMoves
  <1>1. WireInv => QueueMoves
    BY DEF WireInv, PeerInv, QueueWaits, QueueMoves
  <1> QED
    BY <1>1, WireInvariance, PTL
-------------------------------------------------------------------------------
(* The order of the frames.                                                *)
(*                                                                         *)
(* The bytes of one direction form a stream that nobody keeps: the frames  *)
(* whose write has begun lie in it one after the other, the writer is at   *)
(* some byte of the last one and the reader at some byte further back.     *)
(* The invariant says that such a stream exists: k frames have begun,      *)
(* frame j lies behind byte at[j], and the reader has taken c bytes.       *)

Laid(sent, k, at) ==
    /\ k <= Len(sent)
    /\ \A j \in 1..k : at[j] + Len(sent[j]) = at[j + 1] /\ at[j + 1] <= at[k + 1]

\* These bytes are the ones of the stream behind byte c.
Holds(bytes, c, sent, k, at) ==
    \A i \in 1..Len(bytes), j \in 1..k : \A x \in 1..Len(sent[j]) :
        c + i = at[j] + x => bytes[i] = sent[j][x]

\* The writer has put m bytes on the wire.  What it writes is the rest of the

\* last frame, what it queues the frames that follow.  A writer that detaches
\* may leave a frame incomplete, but begins no other.
Writer(p, m, k, at) ==
    /\ Laid(p.sent, k, at)
    /\ m <= at[k + 1]
    /\ p.writes # <<>> => /\ m + Len(p.writes[1]) = at[k + 1]
                          /\ Holds(p.writes[1], m, p.sent, k, at)
    /\ ~p.mDetaching => /\ p.writes = <<>> => m = at[k + 1]
                        /\ Len(p.sent) = k + Len(p.mSendQ)
                        /\ \A i \in 1..Len(p.mSendQ) : p.mSendQ[i] = p.sent[k + i]

\* The reader is at the beginning of a frame, or behind its header.
Reader(p, c, sent, k, at) ==
    /\ Len(p.received) <= k
    /\ \A i \in 1..Len(p.received) : p.received[i] = sent[i]
    /\ p.reading = "header" \/ ~p.started => c = at[Len(p.received) + 1]
    /\ p.reading = "body" =>
        /\ Len(p.received) < k
        /\ c = at[Len(p.received) + 1] + HEADER_SIZE
        /\ \A i \in 1..HEADER_SIZE : p.mReadbuf[i] = sent[Len(p.received) + 1][i]

Linked(p, w, q, k, c, at) ==
    /\ Writer(p, c + Len(w), k, at)
    /\ Holds(w, c, p.sent, k, at)
    /\ Reader(q, c, p.sent, k, at)

\* From the writer p over the wire w to the reader q.
Link(p, w, q) ==
    \E k \in Nat, c \in Nat : \E at \in [1..(k + 1) -> Nat] : Linked(p, w, q, k, c, at)

\* A frame is as long as its header says, and no longer than accepted.
Framed(f) ==
    /\ f \in Packet
    /\ Len(f) = HEADER_SIZE + getLength(f)
    /\ getLength(f) \in 0..MaxLength

\* An end says hello first and once.
Said(p) ==
    \A i \in 1..Len(p.sent) : /\ Framed(p.sent[i])
                              /\ getType(p.sent[i]) = mtHELLO <=> i = 1

\* It is helloed by the first message, and objects to none.
Speaks(p) ==
    /\ Said(p)
    /\ ~p.started => /\ p.sent = <<>> /\ p.received = <<>>
                     /\ ~p.mHelloed /\ p.reading = "no"
    /\ p.started /\ ~p.mDetaching => /\ p.sent # <<>>
                                     /\ p.mHelloed <=> p.received # <<>>
    /\ p.reason \notin {"prb1", "hrh"}

OrderInv ==
    /\ WireInv
    /\ \A e \in Ends : Speaks(peer[e])
    /\ \A e \in Ends : Link(peer[e], wire[e], peer[Other(e)])

\* What the reader does not look at may change, and a reader that stops is

\* nowhere.
LEMMA OtherReader ==
    ASSUME NEW p, NEW w, NEW q, NEW r, Link(p, w, q),
           r.received = q.received,
           \/ r.reading = "no" /\ r.started
           \/ r.reading = q.reading /\ r.started = q.started /\ r.mReadbuf = q.mReadbuf
    PROVE  Link(p, w, r)
  <1>1. PICK k \in Nat, c \in Nat : \E at \in [1..(k + 1) -> Nat] : Linked(p, w, q, k, c, at)
    BY DEF Link
  <1>2. PICK at \in [1..(k + 1) -> Nat] : Linked(p, w, q, k, c, at)
    BY <1>1
  <1>3. Reader(r, c, p.sent, k, at)
    BY <1>2 DEF Linked, Reader
  <1> QED
    BY <1>2, <1>3 DEF Linked, Link

\* What the writer does not look at may change, and a writer that detaches

\* begins nothing.
LEMMA OtherWriter ==
    ASSUME NEW p, NEW w, NEW q, NEW r, Link(p, w, q),
           r.sent = p.sent, r.writes = p.writes,
           r.mDetaching \/ (~p.mDetaching /\ r.mSendQ = p.mSendQ)
    PROVE  Link(r, w, q)
  <1>1. PICK k \in Nat, c \in Nat : \E at \in [1..(k + 1) -> Nat] : Linked(p, w, q, k, c, at)
    BY DEF Link
  <1>2. PICK at \in [1..(k + 1) -> Nat] : Linked(p, w, q, k, c, at)
    BY <1>1
  <1>3. Writer(r, c + Len(w), k, at)
    BY <1>2 DEF Linked, Writer
  <1> QED
    BY <1>2, <1>3 DEF Linked, Link

\* Frames that begin later change nothing about those that have begun.
LEMMA SentGrows ==
    ASSUME NEW k \in Nat, NEW at, NEW S \in Seq(Packet), NEW T \in Seq(Packet),
           k <= Len(S), k <= Len(T), \A i \in 1..k : T[i] = S[i]
    PROVE  /\ Laid(S, k, at) => Laid(T, k, at)
           /\ \A b, c : Holds(b, c, S, k, at) => Holds(b, c, T, k, at)
           /\ \A q, c : Reader(q, c, S, k, at) /\ Len(q.received) \in Nat => Reader(q, c, T, k, at)
  <1>1. Laid(S, k, at) => Laid(T, k, at)
    BY DEF Laid
  <1>2. ASSUME NEW b, NEW c, Holds(b, c, S, k, at)
        PROVE  Holds(b, c, T, k, at)
    <2>1. \A i \in 1..Len(b), j \in 1..k : \A x \in 1..Len(S[j]) :
            c + i = at[j] + x => b[i] = S[j][x]
      BY <1>2 DEF Holds
    <2>2. SUFFICES ASSUME NEW i \in 1..Len(b), NEW j \in 1..k, NEW x \in 1..Len(T[j]),
                          c + i = at[j] + x
                   PROVE  b[i] = T[j][x]
      BY DEF Holds
    <2>3. T[j] = S[j]
      OBVIOUS
    <2>4. x \in 1..Len(S[j])
      BY <2>3
    <2> QED
      BY <2>1, <2>2, <2>3, <2>4
  <1>3. ASSUME NEW q, NEW c, Reader(q, c, S, k, at), Len(q.received) \in Nat
        PROVE  Reader(q, c, T, k, at)
    <2>1. \A i \in 1..Len(q.received) : i \in 1..k
      BY <1>3 DEF Reader
    <2>2. Len(q.received) < k => Len(q.received) + 1 \in 1..k
      BY <1>3
    <2>3. \A i \in 1..Len(q.received) : q.received[i] = T[i]
      BY <1>3, <2>1 DEF Reader
    <2> QED
      BY <1>3, <2>2, <2>3 DEF Reader
  <1> QED
    BY <1>1, <1>2, <1>3

\* A packet is queued.
LEMMA QueueLink ==
    ASSUME NEW p \in PeerRec, NEW w, NEW q \in PeerRec, NEW r,
           Link(p, w, q), ~p.mDetaching, ~r.mDetaching,
           NEW f \in Packet, r.sent = Append(p.sent, f), r.mSendQ = Append(p.mSendQ, f),
           r.writes = p.writes
    PROVE  Link(r, w, q)
  <1>0. PICK k \in Nat, c \in Nat : \E at \in [1..(k + 1) -> Nat] : Linked(p, w, q, k, c, at)
    BY DEF Link
  <1>1. PICK at \in [1..(k + 1) -> Nat] : Linked(p, w, q, k, c, at)
    BY <1>0
  <1>2. PICK S \in Seq(Packet), Q \in Seq(Packet) : S = p.sent /\ Q = p.mSendQ
    BY DEF PeerRec
  <1>3. PICK n \in Nat, m \in Nat : n = Len(S) /\ m = Len(Q)
    BY <1>2
  <1>4. /\ Append(S, f) \in Seq(Packet) /\ Len(Append(S, f)) = n + 1
        /\ \A i \in 1..n : Append(S, f)[i] = S[i]
        /\ Append(S, f)[n + 1] = f
    BY <1>3
  <1>5. /\ Append(Q, f) \in Seq(Packet) /\ Len(Append(Q, f)) = m + 1
        /\ \A i \in 1..m : Append(Q, f)[i] = Q[i]
        /\ Append(Q, f)[m + 1] = f
    BY <1>3
  <1>6. PICK T \in Seq(Packet), R \in Seq(Packet) :
            T = r.sent /\ R = r.mSendQ /\ T = Append(S, f) /\ R = Append(Q, f)
    BY <1>2, <1>4, <1>5
  <1>7. k <= n /\ n = k + m /\ \A i \in 1..m : Q[i] = S[k + i]
    BY <1>1, <1>2, <1>3 DEF Linked, Writer, Laid
  <1>8. \A i \in 1..k : T[i] = S[i]
    BY <1>4, <1>6, <1>7
  <1>9. /\ Laid(S, k, at) => Laid(T, k, at)
        /\ \A b, d : Holds(b, d, S, k, at) => Holds(b, d, T, k, at)
        /\ \A d : Reader(q, d, S, k, at) => Reader(q, d, T, k, at)
    <2>1. k <= Len(S) /\ k <= Len(T)
      BY <1>3, <1>4, <1>6, <1>7
    <2>2. Len(q.received) \in Nat
      BY DEF PeerRec
    <2> QED
      BY <1>8, <2>1, <2>2, SentGrows
  <1>10. Len(T) = k + Len(R) /\ \A i \in 1..Len(R) : R[i] = T[k + i]
    <2>1. Len(T) = n + 1 /\ Len(R) = m + 1
      BY <1>4, <1>5, <1>6
    <2>2. \A i \in 1..m : R[i] = S[k + i] /\ k + i \in 1..n
      BY <1>5, <1>6, <1>7
    <2>3. \A i \in 1..m : R[i] = T[k + i]
      BY <1>4, <1>6, <2>2
    <2>4. R[m + 1] = T[k + (m + 1)] /\ k + (m + 1) = n + 1
      BY <1>4, <1>5, <1>6, <1>7
    <2>5. \A i \in 1..(m + 1) : i \in 1..m \/ i = m + 1
      OBVIOUS
    <2> QED
      BY <1>7, <2>1, <2>3, <2>4, <2>5
  <1>11. Writer(r, c + Len(w), k, at)
    BY <1>1, <1>2, <1>6, <1>9, <1>10 DEF Linked, Writer
  <1> QED
    BY <1>1, <1>2, <1>6, <1>9, <1>11 DEF Linked, Link

\* The front of the queue is given to async_write: one more frame has begun.
LEMMA BeginLink ==
    ASSUME NEW p \in PeerRec, NEW w \in Seq(Byte), NEW q \in PeerRec, NEW r, Link(p, w, q),
           ~p.mDetaching, p.writes = <<>>, p.mSendQ # <<>>,
           ~r.mDetaching, r.sent = p.sent, r.mSendQ = Tail(p.mSendQ),
           r.writes = <<Head(p.mSendQ)>>
    PROVE  Link(r, w, q)
  <1>0. PICK k \in Nat, c \in Nat : \E at \in [1..(k + 1) -> Nat] : Linked(p, w, q, k, c, at)
    BY DEF Link
  <1>1. PICK at \in [1..(k + 1) -> Nat] : Linked(p, w, q, k, c, at)
    BY <1>0
  <1>2. PICK S \in Seq(Packet), Q \in Seq(Packet) : S = p.sent /\ Q = p.mSendQ
    BY DEF PeerRec
  <1>3. PICK n \in Nat, l \in Nat, y \in Nat :
            n = Len(S) /\ l = Len(Q) /\ y = Len(q.received)
    BY SMTT(40), <1>2 DEF PeerRec
  <1>4. /\ n = k + l /\ l >= 1
        /\ \A i \in 1..l : Q[i] = S[k + i]
        /\ Laid(S, k, at)
        /\ c + Len(w) = at[k + 1]
        /\ Holds(w, c, S, k, at)
        /\ Reader(q, c, S, k, at) /\ y <= k
    BY <1>1, <1>2, <1>3 DEF Linked, Writer, Reader
  <1>5. PICK f \in Packet : f = S[k + 1] /\ f = Head(Q) /\ Len(f) \in Nat
    <2>1. 1 \in 1..l /\ k + 1 \in 1..n
      BY <1>4
    <2>2. Q[1] = S[k + 1] /\ S[k + 1] \in Packet
      BY <1>3, <1>4, <2>1
    <2>3. Head(Q) = Q[1]
      BY <1>3, <1>4
    <2>4. \A f \in Packet : Len(f) \in Nat
      BY DEF Packet
    <2> QED
      BY <2>2, <2>3, <2>4
  <1>6. /\ Len(Tail(Q)) = l - 1
        /\ \A i \in 1..(l - 1) : Tail(Q)[i] = S[(k + 1) + i]
    <2>1. Len(Tail(Q)) = l - 1 /\ \A i \in 1..(l - 1) : Tail(Q)[i] = Q[i + 1]
      BY SMTT(40), <1>2, <1>3, <1>4
    <2>2. \A i \in 1..(l - 1) : i + 1 \in 1..l /\ k + (i + 1) = (k + 1) + i
      BY <1>4
    <2> QED
      BY <1>4, <2>1, <2>2
  <1> DEFINE bt == [i \in 1..((k + 1) + 1) |-> IF i = k + 2 THEN at[k + 1] + Len(f) ELSE at[i]]
  <1>7. /\ bt \in [1..((k + 1) + 1) -> Nat]
        /\ \A i \in 1..(k + 1) : bt[i] = at[i] /\ at[i] \in Nat
        /\ bt[(k + 1) + 1] = at[k + 1] + Len(f)
    BY SMTT(40), <1>5
  <1> HIDE DEF bt
  <1>8. Laid(S, k + 1, bt)
    <2>1. k + 1 <= Len(S)
      BY <1>3, <1>4
    <2>2. \A j \in 1..k : /\ bt[j] + Len(S[j]) = bt[j + 1]
                          /\ bt[j + 1] <= bt[(k + 1) + 1]
      <3>1. SUFFICES ASSUME NEW j \in 1..k
                     PROVE  /\ bt[j] + Len(S[j]) = bt[j + 1]
                            /\ bt[j + 1] <= bt[(k + 1) + 1]
        OBVIOUS
      <3>2. j \in 1..(k + 1) /\ j + 1 \in 1..(k + 1) /\ k + 1 \in 1..(k + 1)
        OBVIOUS
      <3>3. at[j] + Len(S[j]) = at[j + 1] /\ at[j + 1] <= at[k + 1]
        BY <1>4 DEF Laid
      <3>4. bt[j] = at[j] /\ bt[j + 1] = at[j + 1] /\ at[j + 1] \in Nat /\ at[k + 1] \in Nat
        BY <1>7, <3>2
      <3> QED
        BY <1>5, <1>7, <3>3, <3>4, SMTT(40)
    <2>3. bt[k + 1] + Len(S[k + 1]) = bt[(k + 1) + 1] /\ bt[(k + 1) + 1] <= bt[(k + 1) + 1]
      BY <1>5, <1>7
    <2>4. \A j \in 1..(k + 1) : j \in 1..k \/ j = k + 1
      OBVIOUS
    <2> QED
      BY <2>1, <2>2, <2>3, <2>4 DEF Laid
  <1>9. Holds(w, c, S, k + 1, bt)
    <2> SUFFICES ASSUME NEW i \in 1..Len(w), NEW j \in 1..(k + 1), NEW x \in 1..Len(S[j]),
                        c + i = bt[j] + x
                 PROVE  w[i] = S[j][x]
      BY DEF Holds
    <2>1. CASE j = k + 1
      BY <1>4, <1>5, <1>7, <2>1, SMTT(40)
    <2>2. CASE j \in 1..k
      <3>1. c + i = at[j] + x
        BY <1>7, <2>2
      <3> QED
        BY <1>4, <2>2, <3>1 DEF Holds
    <2> QED
      BY <2>1, <2>2
  <1>10. Holds(f, at[k + 1], S, k + 1, bt)
    <2> SUFFICES ASSUME NEW i \in 1..Len(f), NEW j \in 1..(k + 1), NEW x \in 1..Len(S[j]),
                        at[k + 1] + i = bt[j] + x
                 PROVE  f[i] = S[j][x]
      BY DEF Holds
    <2>1. CASE j = k + 1
      <3>1. i = x
        BY <1>5, <1>7, <2>1
      <3> QED
        BY <1>5, <2>1, <3>1
    <2>2. CASE j \in 1..k
      <3>0. j \in 1..n
        BY <1>4, <2>2
      <3>1. S[j] \in Packet /\ Len(S[j]) \in Nat
        BY <1>3, <3>0 DEF Packet
      <3>2. bt[j] = at[j] /\ at[j] \in Nat /\ at[j + 1] \in Nat /\ at[k + 1] \in Nat
        BY <1>7, <2>2, SMTT(40)
      <3>3. at[j] + Len(S[j]) <= at[k + 1]
        BY <1>4, <2>2 DEF Laid
      <3> QED
        BY SMTT(40), <1>5, <3>1, <3>2, <3>3
    <2> QED
      BY <2>1, <2>2
  <1>11. Writer(r, c + Len(w), k + 1, bt)
    <2>1. r.writes = <<f>> /\ r.writes # <<>> /\ r.writes[1] = f
      BY <1>2, <1>5
    <2>2. r.sent = S /\ r.mSendQ = Tail(Q)
      BY <1>2
    <2>3. at[k + 1] + Len(f) = bt[(k + 1) + 1] /\ at[k + 1] <= bt[(k + 1) + 1]
      BY <1>5, <1>7
    <2>4. Len(S) = (k + 1) + Len(Tail(Q)) /\ Len(Tail(Q)) = l - 1
      <3>1. n = (k + 1) + (l - 1)
        BY <1>4
      <3> QED
        BY <1>3, <1>6, <3>1
    <2> QED
      BY <1>4, <1>6, <1>8, <1>10, <2>1, <2>2, <2>3, <2>4 DEF Writer
  <1>12. Reader(q, c, S, k + 1, bt)
    <2>0. y + 1 \in 1..(k + 1)
      BY SMTT(40), <1>4
    <2>1. bt[Len(q.received) + 1] = at[Len(q.received) + 1]
      BY <1>3, <1>7, <2>0
    <2>2. y <= k + 1 /\ (y < k => y < k + 1)
      BY <1>4
    <2> QED
      BY <1>3, <1>4, <2>1, <2>2 DEF Reader
  <1>13. Linked(r, w, q, k + 1, c, bt)
    BY <1>2, <1>9, <1>11, <1>12 DEF Linked
  <1>14. k + 1 \in Nat
    OBVIOUS
  <1> QED
    BY <1>7, <1>13, <1>14 DEF Link

\* A byte of the write goes to the end of the wire.
LEMMA TransferLink ==
    ASSUME NEW p, NEW w \in Seq(Byte), NEW q, NEW r, Link(p, w, q),
           NEW b \in Seq(Byte), b # <<>>, p.writes = <<b>>,
           r.sent = p.sent, r.writes = <<Tail(b)>>,
           r.mDetaching = p.mDetaching, r.mSendQ = p.mSendQ
    PROVE  Link(r, Append(w, Head(b)), q)
  <1>0. PICK k \in Nat, c \in Nat : \E at \in [1..(k + 1) -> Nat] : Linked(p, w, q, k, c, at)
    BY DEF Link
  <1>1. PICK at \in [1..(k + 1) -> Nat] : Linked(p, w, q, k, c, at)
    BY <1>0
  <1> DEFINE v == Append(w, Head(b))
             t == Tail(b)
  <1>2. PICK n \in Nat, l \in Nat : n = Len(w) /\ l = Len(b) /\ l >= 1
    OBVIOUS
  <1>3. /\ Len(v) = n + 1 /\ v[n + 1] = b[1]
        /\ \A i \in 1..n : v[i] = w[i]
    BY <1>2
  <1>4. Len(t) = l - 1 /\ \A i \in 1..(l - 1) : t[i] = b[i + 1]
    BY <1>2
  <1> HIDE DEF v, t
  <1>5. p.writes # <<>> /\ p.writes[1] = b /\ r.writes = <<t>> /\ r.writes # <<>> /\ r.writes[1] = t
    BY DEF t
  <1>6. /\ (c + n) + l = at[k + 1] /\ Holds(b, c + n, p.sent, k, at)
        /\ Holds(w, c, p.sent, k, at)
    BY <1>1, <1>2, <1>5 DEF Linked, Writer
  <1>7. Holds(v, c, p.sent, k, at)
    <2> SUFFICES ASSUME NEW i \in 1..Len(v), NEW j \in 1..k, NEW x \in 1..Len(p.sent[j]),
                        c + i = at[j] + x
                 PROVE  v[i] = p.sent[j][x]
      BY DEF Holds
    <2>1. i \in 1..n \/ i = n + 1
      BY <1>3
    <2>2. CASE i \in 1..n
      BY <1>2, <1>3, <1>6, <2>2 DEF Holds
    <2>3. CASE i = n + 1
      <3>1. (c + n) + 1 = at[j] + x /\ 1 \in 1..Len(b)
        BY <1>2, <2>3
      <3>2. b[1] = p.sent[j][x]
        BY <1>6, <3>1 DEF Holds
      <3> QED
        BY <1>3, <2>3, <3>2
    <2> QED
      BY <2>1, <2>2, <2>3
  <1>8. Holds(t, c + (n + 1), p.sent, k, at)
    <2> SUFFICES ASSUME NEW i \in 1..Len(t), NEW j \in 1..k, NEW x \in 1..Len(p.sent[j]),
                        (c + (n + 1)) + i = at[j] + x
                 PROVE  t[i] = p.sent[j][x]
      BY DEF Holds
    <2>1. i \in 1..(l - 1) /\ i + 1 \in 1..Len(b) /\ (c + n) + (i + 1) = at[j] + x
      BY <1>2, <1>4
    <2>2. b[i + 1] = p.sent[j][x]
      BY <1>6, <2>1 DEF Holds
    <2> QED
      BY <1>4, <2>1, <2>2
  <1>9. Writer(r, c + Len(v), k, at)
    <2>1. /\ c + Len(v) = c + (n + 1)
          /\ (c + (n + 1)) + Len(t) = at[k + 1]
          /\ c + (n + 1) <= at[k + 1]
      BY <1>2, <1>3, <1>4, <1>6
    <2> QED
      BY <1>1, <1>5, <1>8, <2>1 DEF Linked, Writer
  <1>10. Linked(r, v, q, k, c, at)
    BY <1>1, <1>7, <1>9 DEF Linked
  <1> QED
    BY <1>10 DEF Link, v

\* A write ends: complete, or with an error that detaches the writer.
LEMMA WrittenLink ==
    ASSUME NEW p, NEW w, NEW q, NEW r, Link(p, w, q),
           p.writes # <<>>, r.sent = p.sent, r.writes = <<>>,
           \/ r.mDetaching
           \/ ~p.mDetaching /\ r.mSendQ = p.mSendQ /\ p.writes[1] = <<>> /\ Len(w) \in Nat
    PROVE  Link(r, w, q)
  <1>0. PICK k \in Nat, c \in Nat : \E at \in [1..(k + 1) -> Nat] : Linked(p, w, q, k, c, at)
    BY DEF Link
  <1>1. PICK at \in [1..(k + 1) -> Nat] : Linked(p, w, q, k, c, at)
    BY <1>0
  <1>2. CASE r.mDetaching
    BY ZenonT(40), <1>1, <1>2 DEF Linked, Writer, Link
  <1>3. CASE ~r.mDetaching
    <2>0. Len(p.writes[1]) = 0 /\ Len(w) \in Nat
      BY <1>3
    <2>1. c + Len(w) = at[k + 1]
      BY <1>1, <2>0 DEF Linked, Writer
    <2> QED
      BY <1>1, <1>3, <2>1, ZenonT(40) DEF Linked, Writer, Link
  <1> QED
    BY <1>2, <1>3

\* v is what is left of w when n bytes have been taken.
Left(v, w, n) ==
    /\ Len(w) = n + Len(v)
    /\ \A i \in 1..Len(v) : v[i] = w[n + i]

LEMMA LeftOK ==
    ASSUME NEW w \in Seq(Byte), NEW n \in Nat, n <= Len(w), NEW v, v = SubSeq(w, n + 1, Len(w))
    PROVE  v \in Seq(Byte) /\ Left(v, w, n)
  <1>1. v \in Seq(Byte)
    OBVIOUS
  <1>2. Len(v) = Len(w) - n /\ \A i \in 1..(Len(w) - n) : v[i] = w[n + i]
    OBVIOUS
  <1>3. PICK l \in Nat, m \in Nat : l = Len(w) /\ m = Len(v)
    BY <1>1
  <1>4. m = l - n
    BY <1>2, <1>3
  <1>5. l = n + m
    BY <1>4
  <1> QED
    BY <1>1, <1>2, <1>3, <1>5 DEF Left

\* The writer is where it was, and the rest of the wire lies where it lay.
LEMMA LeftLink ==
    ASSUME NEW w \in Seq(Byte), NEW n \in Nat, NEW c \in Nat,
           NEW v \in Seq(Byte), Left(v, w, n), NEW d \in Nat, d = c + n,
           NEW p, NEW k \in Nat, NEW at, Writer(p, c + Len(w), k, at), Holds(w, c, p.sent, k, at)
    PROVE  Writer(p, d + Len(v), k, at) /\ Holds(v, d, p.sent, k, at)
  <1>1. PICK l \in Nat, m \in Nat : l = Len(w) /\ m = Len(v)
    OBVIOUS
  <1>2. l = n + m
    BY <1>1 DEF Left
  <1>3. d + m = c + l
    BY <1>2
  <1>4. Writer(p, d + Len(v), k, at)
    BY <1>1, <1>3, Zenon
  <1>5. Holds(v, d, p.sent, k, at)
    <2> SUFFICES ASSUME NEW i \in 1..m, NEW j \in 1..k, NEW x \in 1..Len(p.sent[j]),
                        d + i = at[j] + x
                 PROVE  v[i] = p.sent[j][x]
      BY <1>1 DEF Holds
    <2>1. n + i \in 1..l /\ c + (n + i) = d + i
      BY <1>2
    <2>2. n + i \in 1..Len(w) /\ c + (n + i) = at[j] + x
      BY <1>1, <2>1, Zenon
    <2>3. w[n + i] = p.sent[j][x]
      BY <2>2 DEF Holds
    <2> QED
      BY <1>1, <2>3 DEF Left
  <1> QED
    BY <1>4, <1>5

\* A reader that takes bytes and stops.
LEMMA StopLink ==
    ASSUME NEW p, NEW w \in Seq(Byte), NEW q, NEW r, Link(p, w, q),
           NEW n \in Nat, NEW v \in Seq(Byte), Left(v, w, n),
           r.received = q.received, r.reading = "no", r.started
    PROVE  Link(p, v, r)
  <1>1. PICK k \in Nat, c \in Nat : \E at \in [1..(k + 1) -> Nat] : Linked(p, w, q, k, c, at)
    BY DEF Link
  <1>2. PICK at \in [1..(k + 1) -> Nat] : Linked(p, w, q, k, c, at)
    BY <1>1
  <1>3. PICK d \in Nat : d = c + n
    OBVIOUS
  <1>4. Writer(p, d + Len(v), k, at) /\ Holds(v, d, p.sent, k, at)
    <2>1. Writer(p, c + Len(w), k, at) /\ Holds(w, c, p.sent, k, at)
      BY <1>2 DEF Linked
    <2> QED
      BY <1>3, <2>1, LeftLink
  <1>5. Reader(r, d, p.sent, k, at)
    BY <1>2 DEF Linked, Reader
  <1> QED
    BY <1>4, <1>5 DEF Linked, Link

FramesOK(p) == \A i \in 1..Len(p.sent) : Framed(p.sent[i])

\* The announced length depends on the header alone.
LEMMA SameLength ==
    ASSUME NEW f, Framed(f), NEW h \in Seq(Byte), Len(h) = HEADER_SIZE,
           \A i \in 1..HEADER_SIZE : h[i] = f[i]
    PROVE  getLength(h) = getLength(f)
  <1>1. HEADER_SIZE = 6
    BY DEF HEADER_SIZE
  <1>2. Len(f) \in Nat /\ ~(Len(f) < 6) /\ ~(Len(h) < 6)
    BY <1>1 DEF Framed, Packet
  <1>3. h[1] = f[1] /\ h[2] = f[2] /\ h[3] = f[3] /\ h[4] = f[4]
    BY <1>1
  <1> QED
    BY <1>1, <1>2, <1>3 DEF getLength

\* The bytes at the beginning of a frame are its header.
LEMMA HeaderLink ==
    ASSUME NEW p \in PeerRec, FramesOK(p), NEW w \in Seq(Byte), NEW q \in PeerRec, Link(p, w, q),
           q.reading = "header", HEADER_SIZE <= Len(w),
           NEW h \in Seq(Byte), h = SubSeq(w, 1, HEADER_SIZE),
           NEW v \in Seq(Byte), Left(v, w, HEADER_SIZE)
    PROVE  /\ getLength(h) <= MaxLength
           /\ \A r : /\ r.received = q.received /\ r.reading = "body"
                     /\ r.started /\ r.mReadbuf = h
                     => Link(p, v, r)
  <1>0. PICK k \in Nat, c \in Nat : \E at \in [1..(k + 1) -> Nat] : Linked(p, w, q, k, c, at)
    BY DEF Link
  <1>1. PICK at \in [1..(k + 1) -> Nat] : Linked(p, w, q, k, c, at)
    BY <1>0
  <1>2. HEADER_SIZE = 6
    BY DEF HEADER_SIZE
  <1>3. PICK y \in Nat, l \in Nat, n \in Nat :
            y = Len(q.received) /\ l = Len(w) /\ n = Len(p.sent)
    BY SMTT(40) DEF PeerRec
  <1>4. /\ c = at[y + 1] /\ y <= k /\ k <= n /\ c + l <= at[k + 1]
        /\ Holds(w, c, p.sent, k, at)
    BY <1>1, <1>3 DEF Linked, Writer, Laid, Reader
  <1>5. y < k
    <2>1. y = k => c = at[k + 1]
      BY <1>4
    <2> QED
      BY <1>2, <1>3, <1>4, <2>1, SMTT(40)
  <1>6. y + 1 \in 1..k /\ y + 1 \in 1..n
    BY <1>4, <1>5
  <1>7. PICK f : f = p.sent[y + 1]
    OBVIOUS
  <1>8. Framed(f)
    BY <1>3, <1>6, <1>7 DEF FramesOK
  <1>9. Len(h) = 6 /\ \A i \in 1..6 : h[i] = w[i]
    BY <1>2, <1>3
  <1>10. \A i \in 1..6 : i \in 1..Len(f) /\ i \in 1..Len(w)
    BY <1>2, <1>3, <1>8, SMTT(40) DEF Framed
  <1>11. \A i \in 1..6 : w[i] = f[i]
    <2> SUFFICES ASSUME NEW i \in 1..6 PROVE w[i] = f[i]
      OBVIOUS
    <2>1. c + i = at[y + 1] + i /\ i \in 1..Len(w) /\ i \in 1..Len(p.sent[y + 1])
      BY <1>4, <1>7, <1>10
    <2> QED
      BY <1>4, <1>6, <1>7, <2>1 DEF Holds
  <1>12. \A i \in 1..HEADER_SIZE : h[i] = f[i]
    BY <1>2, <1>9, <1>11
  <1>13. getLength(h) = getLength(f) /\ getLength(h) <= MaxLength
    <2>1. getLength(h) = getLength(f)
      BY <1>2, <1>8, <1>9, <1>12, SameLength
    <2> QED
      BY <1>8, <2>1, ConstantsAssumption DEF Framed
  <1>14. PICK d \in Nat, n6 \in Nat : n6 = HEADER_SIZE /\ d = c + n6
    BY <1>2
  <1>15. Writer(p, d + Len(v), k, at) /\ Holds(v, d, p.sent, k, at)
    <2>1. Left(v, w, n6)
      BY <1>14
    <2>2. Writer(p, c + Len(w), k, at) /\ Holds(w, c, p.sent, k, at)
      BY <1>1 DEF Linked
    <2> QED
      BY <1>14, <2>1, <2>2, LeftLink
  <1>16. ASSUME NEW r, r.received = q.received, r.reading = "body", r.started, r.mReadbuf = h
         PROVE  Link(p, v, r)
    <2>1. Reader(r, d, p.sent, k, at)
      BY <1>1, <1>3, <1>4, <1>5, <1>7, <1>12, <1>14, <1>16 DEF Linked, Reader
    <2>2. Linked(p, v, r, k, d, at)
      BY <1>15, <2>1 DEF Linked
    <2> QED
      BY <2>2 DEF Link
  <1> QED
    BY <1>13, <1>16

\* f is a header and a body, h and the next n bytes of w.
Joined(f, h, w, n) ==
    /\ Len(h) = 6 /\ n <= Len(w) /\ Len(f) = 6 + n
    /\ \A i \in 1..6 : h[i] = f[i]
    /\ \A i \in 1..n : w[i] = f[6 + i]

LEMMA Rejoin ==
    ASSUME NEW h \in Seq(Byte), NEW w \in Seq(Byte), NEW n \in Nat,
           NEW f \in Seq(Byte), Joined(f, h, w, n)
    PROVE  h \o SubSeq(w, 1, n) = f
  <1>0. PICK z \in Nat :
            /\ z = 6 + n /\ Len(f) = z /\ Len(h) = 6 /\ n <= Len(w)
            /\ \A i \in 1..6 : h[i] = f[i]
            /\ \A i \in 1..n : w[i] = f[6 + i]
    BY DEF Joined
  <1> USE <1>0
  <1>1. PICK b : b = SubSeq(w, 1, n)
    OBVIOUS
  <1>2. b \in Seq(Byte) /\ Len(b) = n /\ \A i \in 1..n : b[i] = w[i]
    BY <1>1
  <1>3. /\ h \o b \in Seq(Byte) /\ Len(h \o b) = 6 + n
        /\ \A i \in 1..(6 + n) : (h \o b)[i] = IF i <= 6 THEN h[i] ELSE b[i - 6]
    <2>1. /\ h \o b \in Seq(Byte) /\ Len(h \o b) = Len(h) + Len(b)
          /\ \A i \in 1..(Len(h) + Len(b)) :
                (h \o b)[i] = IF i <= Len(h) THEN h[i] ELSE b[i - Len(h)]
      BY ZenonT(40), <1>2, ConcatProperties
    <2> QED
      BY <1>2, <2>1
  <1>4. ASSUME NEW i \in 1..(6 + n) PROVE (h \o b)[i] = f[i]
    <2>1. CASE i <= 6
      <3>1. i \in 1..6
        BY <2>1
      <3> QED
        BY <1>3, <2>1, <3>1, SMTT(40)
    <2>2. CASE ~(i <= 6)
      <3>1. i - 6 \in 1..n /\ 6 + (i - 6) = i
        BY <2>2
      <3>2. b[i - 6] = f[6 + (i - 6)]
        BY <1>2, <3>1
      <3> QED
        BY <1>3, <2>2, <3>1, <3>2
    <2> QED
      BY <2>1, <2>2
  <1> QED
    BY <1>1, <1>3, <1>4, SMTT(40)

\* The reader q has its header and n bytes more, and that is the frame f which

\* is due; a reader r that keeps it is at the end of it.
Taken(p, w, q, n, v, f) ==
    /\ Len(q.received) + 1 \in 1..Len(p.sent)
    /\ q.mReadbuf \o SubSeq(w, 1, n) = f
    /\ \A r : /\ r.received = Append(q.received, f)
              /\ r.started /\ r.reading \in {"no", "header"}
              => Link(p, v, r)

\* The bytes behind the header complete the frame that is due.
LEMMA BodyLink ==
    ASSUME NEW p \in PeerRec, FramesOK(p), NEW w \in Seq(Byte), NEW q \in PeerRec, Link(p, w, q),
           q.reading = "body", Len(q.mReadbuf) = HEADER_SIZE,
           NEW n \in Nat, n = getLength(q.mReadbuf), n <= Len(w),
           NEW v \in Seq(Byte), Left(v, w, n),
           NEW f, f = p.sent[Len(q.received) + 1]
    PROVE  Taken(p, w, q, n, v, f)
  <1>0. PICK k \in Nat, c \in Nat : \E at \in [1..(k + 1) -> Nat] : Linked(p, w, q, k, c, at)
    BY DEF Link
  <1>1. PICK at \in [1..(k + 1) -> Nat] : Linked(p, w, q, k, c, at)
    BY <1>0
  <1>2. HEADER_SIZE = 6
    BY DEF HEADER_SIZE
  <1>3. PICK y \in Nat, l \in Nat, z \in Nat :
            y = Len(q.received) /\ l = Len(w) /\ z = Len(p.sent)
    BY SMTT(40) DEF PeerRec
  <1>4. /\ c = at[y + 1] + 6 /\ y < k /\ k <= z
        /\ Laid(p.sent, k, at) /\ Holds(w, c, p.sent, k, at)
        /\ \A i \in 1..6 : q.mReadbuf[i] = f[i]
    BY <1>1, <1>2, <1>3 DEF Linked, Writer, Laid, Reader
  <1>5. y + 1 \in 1..k /\ y + 1 \in 1..z /\ y + 1 \in 1..(k + 1) /\ (y + 1) + 1 \in 1..(k + 1)
    <2>1. y < k /\ k <= z
      BY <1>4
    <2> QED
      BY SMTT(40), <2>1
  <1>6. Framed(f)
    BY <1>3, <1>5 DEF FramesOK
  <1>7. PICK h \in Seq(Byte) : h = q.mReadbuf /\ Len(h) = 6
    BY <1>2 DEF PeerRec
  <1>8. getLength(f) = n /\ Len(f) = 6 + n
    <2>0. Len(h) = HEADER_SIZE /\ \A i \in 1..HEADER_SIZE : h[i] = f[i]
      BY <1>2, <1>4, <1>7
    <2>1. getLength(h) = getLength(f)
      BY <1>6, <2>0, SameLength
    <2> QED
      BY <1>2, <1>6, <1>7, <2>1 DEF Framed
  <1>9. PICK a \in Nat : a = at[y + 1] /\ c = a + 6 /\ a + Len(f) = at[(y + 1) + 1]
    BY <1>3, <1>4, <1>5 DEF Laid
  <1>10. \A i \in 1..n : w[i] = f[6 + i]
    <2> SUFFICES ASSUME NEW i \in 1..n PROVE w[i] = f[6 + i]
      OBVIOUS
    <2>1. c + i = a + (6 + i) /\ i \in 1..l /\ 6 + i \in 1..(6 + n)
      <3>1. n <= l
        BY <1>3
      <3>2. c = a + 6
        BY <1>9
      <3> QED
        BY <3>1, <3>2
    <2> QED
      BY ZenonT(40), <1>3, <1>4, <1>5, <1>8, <1>9, <2>1 DEF Holds
  <1>11. h \o SubSeq(w, 1, n) = f
    <2>1. f \in Seq(Byte) /\ \A i \in 1..6 : h[i] = f[i]
      BY <1>4, <1>6, <1>7 DEF Framed, Packet
    <2>2. PICK m \in Nat : m = 6 + n
      OBVIOUS
    <2>3. Len(f) = m
      BY <1>8, <2>2
    <2>4. Joined(f, h, w, n)
      BY <1>7, <1>10, <2>1, <2>2, <2>3 DEF Joined
    <2> QED
      BY <1>7, <2>1, <2>4, Rejoin
  <1>12. PICK d \in Nat : d = c + n
    OBVIOUS
  <1>13. Writer(p, d + Len(v), k, at) /\ Holds(v, d, p.sent, k, at)
    <2>1. Writer(p, c + Len(w), k, at) /\ Holds(w, c, p.sent, k, at)
      BY <1>1 DEF Linked
    <2> QED
      BY SMTT(40), <1>12, <2>1, LeftLink
  <1>14. d = at[(y + 1) + 1]
    <2>1. (a + 6) + n = a + (6 + n)
      OBVIOUS
    <2> QED
      BY <1>8, <1>9, <1>12, <2>1
  <1>15. ASSUME NEW r, r.received = Append(q.received, f), r.started,
                r.reading \in {"no", "header"}
         PROVE  Link(p, v, r)
    <2>1. PICK R \in Seq(Packet) : R = q.received /\ Len(R) = y
      BY <1>3 DEF PeerRec
    <2>2. f \in Packet
      BY <1>6 DEF Framed
    <2>3. /\ Len(r.received) = y + 1 /\ r.received[y + 1] = f
          /\ \A i \in 1..y : r.received[i] = R[i]
      <3>1. /\ Len(Append(R, f)) = y + 1 /\ Append(R, f)[y + 1] = f
            /\ \A i \in 1..y : Append(R, f)[i] = R[i]
        BY <2>1, <2>2, AppendProperties
      <3> QED
        BY <1>15, <2>1, <3>1
    <2>4. \A i \in 1..y : R[i] = p.sent[i]
      BY <1>1, <1>3, <2>1 DEF Linked, Reader
    <2>5. \A i \in 1..(y + 1) : i \in 1..y \/ i = y + 1
      OBVIOUS
    <2>6. \A i \in 1..Len(r.received) : r.received[i] = p.sent[i]
      BY <1>3, <2>3, <2>4, <2>5
    <2>7. y + 1 <= k
      BY <1>4
    <2>8. Reader(r, d, p.sent, k, at)
      BY <1>14, <1>15, <2>3, <2>6, <2>7 DEF Reader
    <2>9. Linked(p, v, r, k, d, at)
      BY <1>13, <2>8 DEF Linked
    <2> QED
      BY <2>9 DEF Link
  <1> QED
    BY <1>3, <1>5, <1>7, <1>11, <1>15 DEF Taken

-------------------------------------------------------------------------------
(* The code of one end and the two streams it works on.                    *)

\* What sendPacket leaves, by case.
SendLeaves(p, f, r) ==
    /\ r.received = p.received /\ r.reading = p.reading /\ r.mReadbuf = p.mReadbuf
    /\ r.started = p.started /\ r.mHelloed = p.mHelloed
    /\ r.mDetaching = p.mDetaching /\ r.reason = p.reason
    /\ r.sent = IF p.mDetaching THEN p.sent ELSE Append(p.sent, f)
    /\ p.mSendingPacket # NULL =>
         r.mSendQ = Append(p.mSendQ, f) /\ r.writes = p.writes
    /\ p.mSendingPacket = NULL =>
         /\ r.mSendQ = p.mSendQ
         /\ r.writes = IF p.mDetaching THEN p.writes ELSE <<f>>

LEMMA SendFields ==
    ASSUME NEW p, PeerInv(p), NEW f \in Packet, NEW r, r = sendPacket(p, f)
    PROVE  SendLeaves(p, f, r)
  <1>1. p \in PeerRec
    BY DEF PeerInv
  <1>2. PICK s : s = IF p.mDetaching THEN p.sent ELSE Append(p.sent, f)
    OBVIOUS
  <1>3. CASE p.mSendingPacket # NULL
    <2>1. r = [[p EXCEPT !.mSendQ = Append(p.mSendQ, f)] EXCEPT !.sent = s]
      BY <1>1, <1>2, <1>3 DEF sendPacket, PeerRec
    <2> QED
      BY <1>1, <1>2, <1>3, <2>1 DEF PeerRec, SendLeaves
  <1>4. CASE p.mSendingPacket = NULL /\ ~p.mDetaching
    <2>1. p.writes = <<>>
      BY <1>4 DEF PeerInv, WritesOne
    <2>2. sendPacketForce(p, f) = [p EXCEPT !.mSendingPacket = f, !.writes = <<f>>]
      BY <1>1, <1>4, <2>1, NullOK, ForceOK DEF PeerInv
    <2>3. sendPacketForce(p, f).sent = p.sent
      BY <1>1, <2>2 DEF PeerRec
    <2>4. r = [sendPacketForce(p, f) EXCEPT !.sent = s]
      BY <1>2, <1>4, <2>3 DEF sendPacket
    <2> QED
      BY <1>1, <1>2, <1>4, <2>2, <2>4 DEF PeerRec, SendLeaves
  <1>5. CASE p.mSendingPacket = NULL /\ p.mDetaching
    <2>1. r = [p EXCEPT !.sent = s]
      BY <1>2, <1>5 DEF sendPacket, sendPacketForce
    <2> QED
      BY <1>1, <1>2, <1>5, <2>1 DEF PeerRec, SendLeaves
  <1> QED
    BY <1>3, <1>4, <1>5

\* sendPacket continues the stream of its end.
LEMMA SendLink ==
    ASSUME NEW p, PeerInv(p), NEW f \in Packet, NEW w \in Seq(Byte), NEW q \in PeerRec,
           Link(p, w, q)
    PROVE  Link(sendPacket(p, f), w, q)
  <1>1. p \in PeerRec
    BY DEF PeerInv
  <1>2. PICK r : r = sendPacket(p, f)
    OBVIOUS
  <1>3. /\ r.mDetaching = p.mDetaching
        /\ r.sent = IF p.mDetaching THEN p.sent ELSE Append(p.sent, f)
        /\ p.mSendingPacket # NULL =>
                r.mSendQ = Append(p.mSendQ, f) /\ r.writes = p.writes
        /\ p.mSendingPacket = NULL =>
                /\ r.mSendQ = p.mSendQ
                /\ r.writes = IF p.mDetaching THEN p.writes ELSE <<f>>
    <2>1. SendLeaves(p, f, r)
      BY <1>2, SendFields
    <2> QED
      BY <2>1 DEF SendLeaves
  <1>4. CASE p.mDetaching
    <2>1. r.sent = p.sent /\ r.writes = p.writes /\ r.mDetaching
      BY <1>3, <1>4
    <2> QED
      BY <1>2, <2>1, OtherWriter
  <1>5. CASE ~p.mDetaching /\ p.mSendingPacket # NULL
    <2>1. /\ r.sent = Append(p.sent, f) /\ r.mSendQ = Append(p.mSendQ, f)
          /\ r.writes = p.writes /\ ~r.mDetaching
      BY <1>3, <1>5
    <2> QED
      BY <1>1, <1>2, <1>5, <2>1, QueueLink
  <1>6. CASE ~p.mDetaching /\ p.mSendingPacket = NULL
    <2>1. p.writes = <<>> /\ p.mSendQ = <<>>
      BY <1>6 DEF PeerInv, WritesOne, QueueWaits
    <2>2. p.sent \in Seq(Packet)
      BY <1>1 DEF PeerRec
    <2>3. <<f>> \in Seq(Packet) /\ Append(p.sent, f) \in Seq(Packet) /\ <<f>> = Append(<<>>, f)
          /\ <<f>> # <<>> /\ Head(<<f>>) = f /\ Tail(<<f>>) = <<>>
      BY <2>2
    <2> DEFINE m == [p EXCEPT !.mSendQ = <<f>>, !.sent = Append(p.sent, f)]
    <2>4. /\ m \in PeerRec /\ m.mSendQ = <<f>> /\ m.sent = Append(p.sent, f)
          /\ m.writes = p.writes /\ m.mDetaching = p.mDetaching
      BY <1>1, <2>3 DEF PeerRec
    <2> HIDE DEF m
    <2>5. m.mSendQ = Append(p.mSendQ, f) /\ ~m.mDetaching
      BY <1>6, <2>1, <2>3, <2>4
    <2>6. Link(m, w, q)
      BY <1>1, <1>6, <2>4, <2>5, QueueLink
    <2>7. /\ r.sent = m.sent /\ r.mSendQ = Tail(m.mSendQ) /\ r.writes = <<Head(m.mSendQ)>>
          /\ ~r.mDetaching /\ m.writes = <<>> /\ m.mSendQ # <<>>
      BY <1>3, <1>6, <2>1, <2>3, <2>4
    <2> QED
      BY <1>2, <2>4, <2>5, <2>6, <2>7, BeginLink
  <1> QED
    BY <1>4, <1>5, <1>6

\* What detach leaves.
DetachLeaves(p, why, r) ==
    /\ r.received = p.received /\ r.reading = p.reading /\ r.mReadbuf = p.mReadbuf
    /\ r.started = p.started /\ r.mHelloed = p.mHelloed
    /\ r.mDetaching /\ r.reason \in {p.reason, why}
    /\ r.sent = p.sent /\ r.writes = p.writes

LEMMA DetachFields ==
    ASSUME NEW p \in PeerRec, NEW why \in Reasons, NEW r, r = detach(p, why)
    PROVE  DetachLeaves(p, why, r)
  <1>1. CASE p.mDetaching
    BY <1>1 DEF detach, DetachLeaves
  <1>2. CASE ~p.mDetaching
    <2>1. r = [p EXCEPT !.mDetaching = TRUE, !.mSendQ = <<>>, !.reason = why]
      BY <1>2 DEF detach
    <2> QED
      BY <2>1 DEF PeerRec, DetachLeaves
  <1> QED
    BY <1>1, <1>2

\* start_read_header only touches the reads.
LEMMA ReadFields ==
    ASSUME NEW p \in PeerRec, NEW r, r = start_read_header(p)
    PROVE  /\ r.received = p.received /\ r.started = p.started /\ r.mHelloed = p.mHelloed
           /\ r.mDetaching = p.mDetaching /\ r.reason = p.reason
           /\ r.sent = p.sent /\ r.writes = p.writes /\ r.mSendQ = p.mSendQ
           /\ r.reading = IF p.mDetaching THEN "no" ELSE "header"
  BY DEF start_read_header, PeerRec

\* The end of a write continues the stream with the next frame, if any.
LEMMA WriteOverLink ==
    ASSUME NEW p, PeerInv(p), NEW i \in DOMAIN p.writes, NEW error \in BOOLEAN,
           error \/ p.writes[i] = <<>>,
           NEW w \in Seq(Byte), NEW q \in PeerRec, Link(p, w, q),
           NEW r, r = WriteOver(p, i, error)
    PROVE  /\ Link(r, w, q)
           /\ r.received = p.received /\ r.reading = p.reading /\ r.mReadbuf = p.mReadbuf
           /\ r.started = p.started /\ r.mHelloed = p.mHelloed /\ r.sent = p.sent
           /\ p.mDetaching => r.mDetaching
           /\ r.reason \in {p.reason, "hw"}
  <1>1. p \in PeerRec
    BY DEF PeerInv
  <1>2. p.writes \in Seq(Packet) /\ p.mSendQ \in Seq(Packet) /\ p.mDetaching \in BOOLEAN
    BY <1>1 DEF PeerRec
  <1>3. Len(p.writes) = 1 /\ i = 1
    <2>1. PICK n \in Nat : n = Len(p.writes) /\ n <= 1
      BY <1>2 DEF PeerInv, WritesOne
    <2>2. DOMAIN p.writes = 1..n
      BY <1>2, <2>1
    <2>3. PICK k \in 1..n : k = i
      BY <2>2
    <2>4. n <= 1
      BY <2>1
    <2>5. n = 1 /\ k = 1
      BY <2>4
    <2> QED
      BY <2>1, <2>3, <2>5
  <1>4. RemoveAt(p.writes, i) = <<>> /\ p.writes # <<>>
    BY <1>2, <1>3 DEF RemoveAt
  <1> DEFINE m == [p EXCEPT !.writes = <<>>, !.mSendingPacket = NULL]
  <1>5. /\ m.writes = <<>> /\ m.mSendingPacket = NULL /\ m.mSendQ = p.mSendQ
        /\ m.reading = p.reading /\ m.mReadbuf = p.mReadbuf /\ m.sent = p.sent
        /\ m.mDetaching = p.mDetaching /\ m.received = p.received
        /\ m.started = p.started /\ m.mHelloed = p.mHelloed /\ m.reason = p.reason
        /\ m \in PeerRec
    <2>1. <<>> \in Seq(Packet) /\ NULL \in Packet \cup {NULL}
      OBVIOUS
    <2> QED
      BY <1>1, <2>1 DEF PeerRec
  <1>6. r = IF m.mDetaching THEN m
            ELSE IF error THEN detach(m, "hw")
            ELSE WriteNext(m)
    BY <1>1, <1>4 DEF WriteOver, PeerRec
  <1> HIDE DEF m
  <1>7. CASE m.mDetaching
    <2>1. r = m
      BY <1>6, <1>7
    <2> QED
      BY <1>4, <1>5, <1>7, <2>1, WrittenLink
  <1>8. CASE ~m.mDetaching /\ error
    <2>1. "hw" \in Reasons /\ r = detach(m, "hw")
      BY <1>6, <1>8 DEF Reasons
    <2>2. /\ r.received = m.received /\ r.reading = m.reading /\ r.mReadbuf = m.mReadbuf
          /\ r.started = m.started /\ r.mHelloed = m.mHelloed
          /\ r.mDetaching /\ r.reason \in {m.reason, "hw"}
          /\ r.sent = m.sent /\ r.writes = m.writes
      <3>1. DetachLeaves(m, "hw", r)
        BY <1>5, <2>1, DetachFields
      <3> QED
        BY <3>1 DEF DetachLeaves
    <2>3. Link(r, w, q)
      BY <1>4, <1>5, <2>2, WrittenLink
    <2> QED
      BY <1>5, <2>2, <2>3
  <1>9. CASE ~m.mDetaching /\ ~error
    <2>1. p.writes[1] = <<>> /\ r = WriteNext(m) /\ Len(w) \in Nat
      BY <1>3, <1>6, <1>9
    <2>2. Link(m, w, q)
      BY <1>4, <1>5, <1>9, <2>1, WrittenLink
    <2>3. CASE m.mSendQ = <<>>
      BY <1>5, <2>1, <2>2, <2>3 DEF WriteNext
    <2>4. CASE m.mSendQ # <<>>
      <3>1. PICK f \in Packet : f = Head(m.mSendQ)
        BY <1>2, <1>5, <2>4
      <3>2. sendPacketForce(m, f) = [m EXCEPT !.mSendingPacket = f, !.writes = <<f>>]
        BY <1>5, <1>9 DEF sendPacketForce
      <3>3. r = [[m EXCEPT !.mSendingPacket = f, !.writes = <<f>>]
                    EXCEPT !.mSendQ = Tail(m.mSendQ)]
        BY <1>5, <2>1, <2>4, <3>1, <3>2 DEF WriteNext, PeerRec
      <3>4. /\ r.writes = <<f>> /\ r.mSendQ = Tail(m.mSendQ) /\ r.mDetaching = m.mDetaching
            /\ r.received = m.received /\ r.reading = m.reading /\ r.mReadbuf = m.mReadbuf
            /\ r.started = m.started /\ r.mHelloed = m.mHelloed /\ r.sent = m.sent
            /\ r.reason = m.reason
        BY <1>5, <3>3 DEF PeerRec
      <3>5. Link(r, w, q)
        BY <1>5, <1>9, <2>2, <2>4, <3>1, <3>4, BeginLink
      <3> QED
        BY <1>5, <1>9, <3>4, <3>5
    <2> QED
      BY <2>3, <2>4
  <1> QED
    BY <1>2, <1>5, <1>7, <1>8, <1>9

\* The packets of the model are frames of the type they were packed with.
LEMMA PackFramed ==
    ASSUME NEW type \in Types, NEW body \in Seq(Byte), Len(body) \in Sizes,
           Len(body) <= MaxLength
    PROVE  Framed(Pack(type, body)) /\ getType(Pack(type, body)) = type
  <1>1. PICK n \in Sizes : n = Len(body)
    OBVIOUS
  <1>2. n \in Nat /\ type \in Nat
    BY <1>1 DEF Sizes, Types
  <1>3. PICK h : h = encodeHeader(n, type)
    OBVIOUS
  <1>4. h \in Seq(Byte) /\ Len(h) = HEADER_SIZE /\ HEADER_SIZE = 6
    BY <1>2, <1>3, HeaderBytes DEF HEADER_SIZE
  <1>5. getLength(h) = n /\ getType(h) = type
    BY <1>1, <1>3, HeaderRoundTrip
  <1>6. PICK f : f = h \o body
    OBVIOUS
  <1>7. /\ f \in Seq(Byte) /\ Len(f) = 6 + n
        /\ f[1] = h[1] /\ f[2] = h[2] /\ f[3] = h[3] /\ f[4] = h[4] /\ f[5] = h[5] /\ f[6] = h[6]
    <2>1. /\ f \in Seq(Byte) /\ Len(f) = Len(h) + Len(body)
          /\ \A i \in 1..(Len(h) + Len(body)) :
                f[i] = IF i <= Len(h) THEN h[i] ELSE body[i - Len(h)]
      BY <1>4, <1>6, ConcatProperties
    <2>2. /\ Len(f) = 6 + n
          /\ \A i \in 1..(6 + n) : i <= 6 => f[i] = h[i]
      BY <1>1, <1>4, <2>1
    <2>3. \A i \in 1..6 : i \in 1..(6 + n) /\ i <= 6
      BY <1>2
    <2>4. \A i \in 1..6 : f[i] = h[i]
      BY <2>2, <2>3
    <2> QED
      BY <2>1, <2>2, <2>4, SMTT(40)
  <1>8. Len(f) \in Nat /\ ~(Len(f) < 6) /\ ~(Len(h) < 6)
    BY <1>2, <1>4, <1>7
  <1>9. getLength(f) = getLength(h) /\ getType(f) = getType(h)
    BY <1>4, <1>7, <1>8 DEF getLength, getType
  <1>10. Framed(f)
    <2>1. n \in 0..MaxLength
      BY <1>1, <1>2, ConstantsAssumption
    <2> QED
      BY <1>4, <1>5, <1>7, <1>9, <2>1 DEF Framed, Packet
  <1> QED
    BY <1>1, <1>3, <1>5, <1>6, <1>9, <1>10 DEF Pack

LEMMA PacketsFramed ==
    /\ Framed(Hello) /\ getType(Hello) = mtHELLO
    /\ Framed(GetPeers) /\ getType(GetPeers) # mtHELLO
    /\ Framed(PeerList) /\ getType(PeerList) # mtHELLO
    /\ \A n \in Nat : Framed(Relayed(n)) /\ getType(Relayed(n)) # mtHELLO
  <1>1. \A b \in Byte : <<b>> \in Seq(Byte) /\ Len(<<b>>) \in Sizes /\ Len(<<b>>) <= MaxLength
    BY ConstantsAssumption DEF Sizes
  <1>2. 7 \in Byte /\ 1 \in Byte /\ 2 \in Byte /\ 9 \in Byte
    BY DEF Byte
  <1>3. /\ mtHELLO \in Types /\ mtGET_PEERS \in Types /\ mtPEERS \in Types
        /\ mtTRANSACTION \in Types
        /\ mtGET_PEERS # mtHELLO /\ mtPEERS # mtHELLO /\ mtTRANSACTION # mtHELLO
    BY DEF mtHELLO, mtGET_PEERS, mtPEERS, mtTRANSACTION, Types
  <1>4. Framed(Hello) /\ getType(Hello) = mtHELLO
    BY <1>1, <1>2, <1>3, PackFramed DEF Hello
  <1>5. Framed(GetPeers) /\ getType(GetPeers) = mtGET_PEERS
    BY <1>1, <1>2, <1>3, PackFramed DEF GetPeers
  <1>6. Framed(PeerList) /\ getType(PeerList) = mtPEERS
    BY <1>1, <1>2, <1>3, PackFramed DEF PeerList
  <1>7. ASSUME NEW n \in Nat
        PROVE  Framed(Relayed(n)) /\ getType(Relayed(n)) = mtTRANSACTION
    <2>1. PICK b \in Byte : b = n % 256
      BY ShrSplits
    <2>2. <<9, b>> \in Seq(Byte) /\ Len(<<9, b>>) \in Sizes /\ Len(<<9, b>>) <= MaxLength
      BY <1>2, ConstantsAssumption DEF Sizes
    <2>3. Framed(Pack(mtTRANSACTION, <<9, b>>)) /\ getType(Pack(mtTRANSACTION, <<9, b>>)) = mtTRANSACTION
      BY <1>3, <2>2, PackFramed
    <2> QED
      BY <2>1, <2>3 DEF Relayed
  <1> QED
    BY <1>3, <1>4, <1>5, <1>6, <1>7

\* The first packet given to sendPacket is hello, the others are not.
LEMMA SendSaid ==
    ASSUME NEW p, PeerInv(p), Said(p), NEW f, Framed(f),
           p.mDetaching \/ (getType(f) = mtHELLO <=> p.sent = <<>>)
    PROVE  /\ Said(sendPacket(p, f))
           /\ ~p.mDetaching => sendPacket(p, f).sent # <<>>
  <1>1. PICK r : r = sendPacket(p, f)
    OBVIOUS
  <1>2. f \in Packet
    BY DEF Framed
  <1>3. r.sent = IF p.mDetaching THEN p.sent ELSE Append(p.sent, f)
    <2>1. SendLeaves(p, f, r)
      BY <1>1, <1>2, SendFields
    <2> QED
      BY <2>1 DEF SendLeaves
  <1>4. PICK S \in Seq(Packet) : S = p.sent
    BY DEF PeerInv, PeerRec
  <1>5. PICK n \in Nat : n = Len(S)
    OBVIOUS
  <1>6. /\ Len(Append(S, f)) = n + 1 /\ Append(S, f)[n + 1] = f /\ Append(S, f) # <<>>
        /\ \A i \in 1..n : Append(S, f)[i] = S[i]
    BY <1>2, <1>5, AppendProperties
  <1>7. CASE p.mDetaching
    BY <1>1, <1>3, <1>7 DEF Said
  <1>8. CASE ~p.mDetaching
    <2>1. r.sent = Append(S, f)
      BY <1>3, <1>4, <1>8
    <2>2. \A i \in 1..(n + 1) : i \in 1..n \/ i = n + 1
      OBVIOUS
    <2>3. n + 1 = 1 <=> S = <<>>
      BY <1>5
    <2>4. \A i \in 1..n : Framed(S[i]) /\ (getType(S[i]) = mtHELLO <=> i = 1)
      BY <1>4, <1>5 DEF Said
    <2>5. ASSUME NEW i \in 1..(n + 1)
          PROVE  Framed(r.sent[i]) /\ (getType(r.sent[i]) = mtHELLO <=> i = 1)
      <3>1. CASE i \in 1..n
        BY <1>6, <2>1, <2>4, <3>1
      <3>2. CASE i = n + 1
        BY <1>4, <1>6, <1>8, <2>1, <2>3, <3>2
      <3> QED
        BY <2>2, <3>1, <3>2
    <2>6. Said(r)
      BY <1>6, <2>1, <2>5 DEF Said
    <2> QED
      BY <1>1, <1>6, <2>1, <2>6
  <1> QED
    BY <1>7, <1>8

\* A message of the type that is due is never objected to, and its answer, if

\* any, continues the stream of the end.
LEMMA ProcessLink ==
    ASSUME NEW p, PeerInv(p), Speaks(p), p.started, ~p.mDetaching,
           NEW f \in Packet, getType(f) = mtHELLO <=> p.received = <<>>,
           NEW accepted \in BOOLEAN, NEW w \in Seq(Byte), NEW q \in PeerRec, Link(p, w, q),
           NEW r, r = processReadBuffer(p, f, accepted)
    PROVE  /\ PeerInv(r) /\ Link(r, w, q) /\ Said(r)
           /\ r.started /\ r.received = Append(p.received, f) /\ r.sent # <<>>
           /\ r.mDetaching \/ r.mHelloed
           /\ r.reason \notin {"prb1", "hrh"}
  <1> DEFINE m == [p EXCEPT !.received = Append(p.received, f)]
  <1>0. PeerInv(r)
    BY NullOK, ProcessOK
  <1>1. p \in PeerRec
    BY DEF PeerInv
  <1>2. p.received \in Seq(Packet) /\ p.started \in BOOLEAN /\ p.mHelloed \in BOOLEAN
    BY <1>1 DEF PeerRec
  <1>3. Append(p.received, f) \in Seq(Packet)
    BY <1>2
  <1>4. m = [p EXCEPT !.started = p.started, !.mHelloed = p.mHelloed,
                      !.received = Append(p.received, f)]
    BY <1>1 DEF PeerRec
  <1>5. PeerInv(m)
    BY <1>2, <1>3, <1>4, OthersOK
  <1>6. /\ m.received = Append(p.received, f) /\ m.started /\ m.sent = p.sent
        /\ m.writes = p.writes /\ m.mSendQ = p.mSendQ /\ m.mDetaching = p.mDetaching
        /\ m.mHelloed = p.mHelloed /\ m.reason = p.reason /\ m \in PeerRec
    BY <1>1, <1>3 DEF PeerRec
  <1>7. r = IF WrongType(p, getType(f)) THEN detach(m, "prb1")
            ELSE IF getType(f) = mtHELLO THEN recvHello(m, accepted)
            ELSE IF getType(f) = mtGET_PEERS THEN sendPacket(m, PeerList)
            ELSE m
    BY DEF processReadBuffer
  <1>m. m \in PeerRec
    BY <1>6
  <1> HIDE DEF m
  <1>8. p.mHelloed <=> p.received # <<>>
    BY DEF Speaks
  <1>9. ~WrongType(p, getType(f))
    BY <1>2, <1>8 DEF WrongType
  <1>10. Link(m, w, q) /\ Said(m) /\ m.sent # <<>> /\ m.reason \notin {"prb1", "hrh"}
    <2>1. Link(m, w, q)
      BY <1>6, OtherWriter
    <2> QED
      BY <1>6, <2>1 DEF Speaks, Said
  <1>11. CASE getType(f) = mtHELLO /\ accepted
    <2> DEFINE h == [m EXCEPT !.mHelloed = TRUE]
    <2>1. /\ h = [m EXCEPT !.started = m.started, !.mHelloed = TRUE, !.received = m.received]
          /\ m.started \in BOOLEAN /\ m.received \in Seq(Packet) /\ TRUE \in BOOLEAN
      BY <1>6 DEF PeerRec
    <2>2. PeerInv(h)
      BY <1>5, <2>1, OthersOK, ZenonT(40)
    <2>3. /\ h.received = m.received /\ h.started = m.started /\ h.sent = m.sent
          /\ h.writes = m.writes /\ h.mSendQ = m.mSendQ /\ h.mDetaching = m.mDetaching
          /\ h.mHelloed /\ h.reason = m.reason
      BY <1>6 DEF PeerRec
    <2>4. r = sendPacket(h, GetPeers)
      BY <1>7, <1>9, <1>11 DEF recvHello
    <2> HIDE DEF h
    <2>5. Link(h, w, q) /\ Said(h)
      <3>1. Link(h, w, q)
        BY <1>6, <1>10, <2>3, OtherWriter
      <3> QED
        BY <1>10, <2>3, <3>1 DEF Said
    <2>6. Link(r, w, q)
      BY <2>2, <2>4, <2>5, PacketsOK, SendLink
    <2>7. Said(r) /\ r.sent # <<>>
      BY <1>6, <1>10, <2>2, <2>3, <2>4, <2>5, PacketsFramed, SendSaid
    <2>8. /\ r.received = h.received /\ r.reading = h.reading /\ r.mReadbuf = h.mReadbuf
          /\ r.started = h.started /\ r.mHelloed = h.mHelloed
          /\ r.mDetaching = h.mDetaching /\ r.reason = h.reason
      <3>1. GetPeers \in Packet
        BY PacketsOK
      <3>2. SendLeaves(h, GetPeers, r)
        BY <2>2, <2>4, <3>1, SendFields
      <3> QED
        BY <3>2 DEF SendLeaves
    <2> QED
      BY <1>0, <1>6, <1>10, <2>3, <2>6, <2>7, <2>8
  <1>12. CASE getType(f) = mtHELLO /\ ~accepted
    <2>1. r = detach(m, "recvh") /\ "recvh" \in Reasons
      BY <1>7, <1>9, <1>12 DEF recvHello, Reasons
    <2>2. /\ r.received = m.received /\ r.reading = m.reading /\ r.mReadbuf = m.mReadbuf
          /\ r.started = m.started /\ r.mHelloed = m.mHelloed
          /\ r.mDetaching /\ r.reason \in {m.reason, "recvh"}
          /\ r.sent = m.sent /\ r.writes = m.writes
      <3>1. DetachLeaves(m, "recvh", r)
        BY <1>m, <2>1, DetachFields
      <3> QED
        BY <3>1 DEF DetachLeaves
    <2>3. Link(r, w, q)
      BY <1>10, <2>2, OtherWriter
    <2> QED
      BY <1>0, <1>6, <1>10, <2>2, <2>3 DEF Said
  <1>13. CASE getType(f) # mtHELLO /\ getType(f) = mtGET_PEERS
    <2>1. r = sendPacket(m, PeerList)
      BY <1>7, <1>9, <1>13
    <2>2. Link(r, w, q)
      BY <1>5, <1>10, <2>1, PacketsOK, SendLink
    <2>3. Said(r) /\ r.sent # <<>>
      BY <1>5, <1>6, <1>10, <2>1, PacketsFramed, SendSaid
    <2>4. /\ r.received = m.received /\ r.reading = m.reading /\ r.mReadbuf = m.mReadbuf
          /\ r.started = m.started /\ r.mHelloed = m.mHelloed
          /\ r.mDetaching = m.mDetaching /\ r.reason = m.reason
      <3>1. PeerList \in Packet
        BY PacketsOK
      <3>2. SendLeaves(m, PeerList, r)
        BY <1>5, <2>1, <3>1, SendFields
      <3> QED
        BY <3>2 DEF SendLeaves
    <2> QED
      BY <1>0, <1>6, <1>8, <1>10, <1>13, <2>2, <2>3, <2>4
  <1>14. CASE getType(f) # mtHELLO /\ getType(f) # mtGET_PEERS
    <2>1. r = m
      BY <1>7, <1>9, <1>14
    <2> QED
      BY <1>0, <1>6, <1>8, <1>10, <1>14, <2>1
  <1> QED
    BY <1>11, <1>12, <1>13, <1>14

-------------------------------------------------------------------------------
(* The steps and the two streams.                                          *)

\* There are two ends, each the other of the other.
LEMMA Others ==
    ASSUME NEW e \in Ends
    PROVE  /\ Other(e) \in Ends /\ Other(e) # e /\ Other(Other(e)) = e
           /\ \A d \in Ends : d = e \/ d = Other(e)
  <1>1. PICK a \in Ends, b \in Ends : a # b /\ Ends = {a, b}
    BY ConstantsAssumption
  <1>2. \A d \in Ends : Other(d) \in Ends /\ Other(d) # d
    <2>1. \A d \in Ends : \E o \in Ends : o # d
      BY <1>1
    <2> QED
      BY <2>1 DEF Other
  <1> QED
    BY <1>1, <1>2

\* A handler of one end works on the writer of one stream and on the reader of

\* the other.
LEMMA OrderLeave ==
    ASSUME OrderInv, WireInv', NEW e \in Ends, NEW r, Leave(e, r), Speaks(r),
           Link(r, wire'[e], peer[Other(e)]), Link(peer[Other(e)], wire'[Other(e)], r)
    PROVE  OrderInv'
  <1>1. PICK o \in Ends : o = Other(e) /\ o # e /\ Other(o) = e /\ \A d \in Ends : d = e \/ d = o
    BY Others
  <1>2. peer \in [Ends -> PeerRec]
    BY DEF OrderInv, WireInv
  <1>3. peer'[e] = r /\ peer'[o] = peer[o]
    BY <1>1, <1>2 DEF Leave
  <1>4. Speaks(peer[o])
    BY DEF OrderInv
  <1>5. \A d \in Ends : Speaks(peer'[d])
    BY <1>1, <1>3, <1>4
  <1>6. \A d \in Ends : Link(peer'[d], wire'[d], peer'[Other(d)])
    BY <1>1, <1>3
  <1> QED
    BY <1>5, <1>6 DEF OrderInv

\* What the invariant says of an end, its stream and the other's.
LEMMA OrderParts ==
    ASSUME OrderInv, NEW e \in Ends
    PROVE  /\ PeerInv(peer[e]) /\ Speaks(peer[e]) /\ peer[e] \in PeerRec
           /\ peer[Other(e)] \in PeerRec /\ Said(peer[Other(e)])
           /\ wire[e] \in Seq(Byte) /\ wire[Other(e)] \in Seq(Byte)
           /\ Link(peer[e], wire[e], peer[Other(e)])
           /\ Link(peer[Other(e)], wire[Other(e)], peer[e])
  <1>1. Other(e) \in Ends /\ Other(Other(e)) = e
    BY Others
  <1> QED
    BY <1>1 DEF OrderInv, WireInv, PeerInv, Speaks

\* A reader that starts is at the beginning of the stream.
LEMMA FirstLink ==
    ASSUME NEW p, NEW w, NEW q, NEW r, Link(p, w, q), ~q.started,
           r.received = q.received, r.reading # "body"
    PROVE  Link(p, w, r)
  <1>1. PICK k \in Nat, c \in Nat : \E at \in [1..(k + 1) -> Nat] : Linked(p, w, q, k, c, at)
    BY DEF Link
  <1>2. PICK at \in [1..(k + 1) -> Nat] : Linked(p, w, q, k, c, at)
    BY <1>1
  <1>3. Reader(r, c, p.sent, k, at)
    BY <1>2 DEF Linked, Reader
  <1> QED
    BY <1>2, <1>3 DEF Linked, Link

\* handleStart begins a stream with hello.
LEMMA StartOrder ==
    ASSUME OrderInv, WireInv', NEW e \in Ends, handleStart(e)
    PROVE  OrderInv'
  <1>1. PICK p, w, q, u : p = peer[e] /\ w = wire[e] /\ q = peer[Other(e)] /\ u = wire[Other(e)]
    OBVIOUS
  <1>2. /\ PeerInv(p) /\ Speaks(p) /\ p \in PeerRec /\ q \in PeerRec
        /\ w \in Seq(Byte) /\ Link(p, w, q) /\ Link(q, u, p)
    BY <1>1, OrderParts
  <1>3. ~p.started /\ p.sent = <<>> /\ p.received = <<>> /\ ~p.mHelloed
    BY <1>1, <1>2 DEF handleStart, Speaks
  <1> DEFINE m == [p EXCEPT !.started = TRUE]
             s == sendPacket(m, Hello)
             r == start_read_header(s)
  <1>4. /\ m.received = p.received /\ m.started /\ m.sent = p.sent /\ m.writes = p.writes
        /\ m.mSendQ = p.mSendQ /\ m.mDetaching = p.mDetaching
        /\ m.mHelloed = p.mHelloed /\ m.reason = p.reason
    BY <1>2 DEF PeerRec
  <1>5. PeerInv(m)
    <2>1. p.mHelloed \in BOOLEAN /\ p.received \in Seq(Packet) /\ TRUE \in BOOLEAN
      BY <1>2 DEF PeerRec
    <2>2. m = [p EXCEPT !.started = TRUE, !.mHelloed = p.mHelloed, !.received = p.received]
      BY <1>2 DEF PeerRec
    <2> QED
      BY <1>2, <2>1, <2>2, OthersOK
  <1>6. Leave(e, r) /\ wire' = wire
    BY <1>1 DEF handleStart
  <1> HIDE DEF m
  <1>7. Link(m, w, q)
    BY <1>2, <1>4, OtherWriter
  <1>8. Said(m)
    BY <1>2, <1>4 DEF Speaks, Said
  <1>9. Hello \in Packet /\ Framed(Hello) /\ getType(Hello) = mtHELLO
    BY PacketsOK, PacketsFramed
  <1>10. Link(s, w, q)
    BY <1>2, <1>5, <1>7, <1>9, SendLink
  <1>11. Said(s) /\ (~m.mDetaching => s.sent # <<>>)
    BY <1>3, <1>4, <1>5, <1>8, <1>9, SendSaid
  <1>12. PeerInv(s) /\ SendLeaves(m, Hello, s)
    BY <1>5, <1>9, NullOK, SendOK, SendFields
  <1>13. s \in PeerRec
    BY <1>12 DEF PeerInv
  <1> HIDE DEF s
  <1>14. /\ s.received = p.received /\ s.started /\ s.mDetaching = p.mDetaching
         /\ s.mHelloed = p.mHelloed /\ s.reason = p.reason
    BY <1>4, <1>12 DEF SendLeaves
  <1>15. /\ r.received = s.received /\ r.started = s.started /\ r.mHelloed = s.mHelloed
         /\ r.mDetaching = s.mDetaching /\ r.reason = s.reason
         /\ r.sent = s.sent /\ r.writes = s.writes /\ r.mSendQ = s.mSendQ
         /\ r.reading = IF s.mDetaching THEN "no" ELSE "header"
    BY <1>13, ReadFields
  <1> HIDE DEF r
  <1>16. Link(r, w, q)
    BY <1>10, <1>15, OtherWriter
  <1>17. Link(q, u, r)
    <2>1. r.received = p.received /\ r.reading # "body"
      BY <1>14, <1>15
    <2> QED
      BY <1>2, <1>3, <2>1, FirstLink
  <1>18. Speaks(r)
    BY <1>2, <1>3, <1>4, <1>11, <1>14, <1>15 DEF Speaks, Said
  <1> QED
    BY <1>1, <1>6, <1>16, <1>17, <1>18, OrderLeave

\* relayMessage continues it with something that is no hello.
LEMMA RelayOrder ==
    ASSUME OrderInv, WireInv', NEW e \in Ends, relayMessage(e)
    PROVE  OrderInv'
  <1>1. PICK p, w, q, u : p = peer[e] /\ w = wire[e] /\ q = peer[Other(e)] /\ u = wire[Other(e)]
    OBVIOUS
  <1>2. /\ PeerInv(p) /\ Speaks(p) /\ p \in PeerRec /\ q \in PeerRec
        /\ w \in Seq(Byte) /\ Link(p, w, q) /\ Link(q, u, p)
    BY <1>1, OrderParts
  <1>3. PICK n \in Nat : n = relays[e]
    BY ConstantsAssumption DEF OrderInv, WireInv
  <1>4. Relayed(n) \in Packet /\ Framed(Relayed(n)) /\ getType(Relayed(n)) # mtHELLO
    BY PacketsOK, PacketsFramed
  <1>5. PICK r : r = sendPacket(p, Relayed(n))
    OBVIOUS
  <1>6. p.mHelloed /\ ~p.mDetaching /\ Leave(e, r) /\ wire' = wire
    BY <1>1, <1>3, <1>5 DEF relayMessage
  <1>7. p.started /\ p.sent # <<>>
    BY <1>2, <1>6 DEF Speaks
  <1>8. Link(r, w, q)
    BY <1>2, <1>4, <1>5, SendLink
  <1>9. Said(r) /\ r.sent # <<>>
    BY <1>2, <1>4, <1>5, <1>6, <1>7, SendSaid DEF Speaks
  <1>10. SendLeaves(p, Relayed(n), r)
    BY <1>2, <1>4, <1>5, SendFields
  <1>11. /\ r.received = p.received /\ r.reading = p.reading /\ r.mReadbuf = p.mReadbuf
         /\ r.started = p.started /\ r.mHelloed = p.mHelloed
         /\ r.mDetaching = p.mDetaching /\ r.reason = p.reason
    BY <1>10 DEF SendLeaves
  <1>12. Link(q, u, r)
    BY <1>2, <1>11, OtherReader
  <1>13. Speaks(r)
    BY <1>2, <1>7, <1>9, <1>11 DEF Speaks
  <1> QED
    BY <1>1, <1>6, <1>8, <1>12, <1>13, OrderLeave

\* A step that leaves what an end says and hears alone.
LEMMA SameSpeaks ==
    ASSUME NEW p, NEW r, Speaks(p), r.sent = p.sent, r.received = p.received,
           r.started = p.started, r.mHelloed = p.mHelloed, p.mDetaching => r.mDetaching,
           p.started \/ r.reading = p.reading,
           r.reason \in {p.reason, "hw", "hrh2", "other"}
    PROVE  Speaks(r)
  BY DEF Speaks, Said

\* A byte goes from the write to the wire.
LEMMA TransferOrder ==
    ASSUME OrderInv, WireInv', NEW e \in Ends, Transfer(e)
    PROVE  OrderInv'
  <1>1. PICK p, w, q, u : p = peer[e] /\ w = wire[e] /\ q = peer[Other(e)] /\ u = wire[Other(e)]
    OBVIOUS
  <1>2. /\ PeerInv(p) /\ Speaks(p) /\ p \in PeerRec /\ q \in PeerRec
        /\ w \in Seq(Byte) /\ Link(p, w, q) /\ Link(q, u, p)
    BY <1>1, OrderParts
  <1>3. PICK i \in DOMAIN p.writes :
            /\ p.writes[i] # <<>>
            /\ wire' = [wire EXCEPT ![e] = Append(@, Head(p.writes[i]))]
            /\ Leave(e, [p EXCEPT !.writes[i] = Tail(@)])
    BY <1>1 DEF Transfer
  <1>4. p.writes \in Seq(Packet)
    BY <1>2 DEF PeerRec
  <1>5. Len(p.writes) = 1 /\ i = 1
    <2>1. PICK n \in Nat : n = Len(p.writes) /\ n <= 1
      BY <1>2, <1>4 DEF PeerInv, WritesOne
    <2>2. DOMAIN p.writes = 1..n
      BY <1>4, <2>1
    <2>3. PICK k \in 1..n : k = i
      BY <2>2
    <2>4. n <= 1
      BY <2>1
    <2>5. n = 1 /\ k = 1
      BY <2>4
    <2> QED
      BY <2>1, <2>3, <2>5
  <1>6. PICK b \in Seq(Byte) : b = p.writes[1] /\ b # <<>> /\ p.writes = <<b>>
    BY <1>3, <1>4, <1>5 DEF Packet
  <1>7. [p.writes EXCEPT ![1] = Tail(b)] = <<Tail(b)>>
    BY <1>6
  <1> DEFINE r == [p EXCEPT !.writes = <<Tail(b)>>]
  <1>8. [p EXCEPT !.writes[i] = Tail(@)] = r
    BY <1>2, <1>5, <1>6, <1>7 DEF PeerRec
  <1>9. /\ r.received = p.received /\ r.reading = p.reading /\ r.mReadbuf = p.mReadbuf
        /\ r.started = p.started /\ r.mHelloed = p.mHelloed /\ r.sent = p.sent
        /\ r.mDetaching = p.mDetaching /\ r.reason = p.reason
        /\ r.writes = <<Tail(b)>> /\ r.mSendQ = p.mSendQ
    BY <1>2 DEF PeerRec
  <1>10. Leave(e, r)
    BY <1>3, <1>8
  <1> HIDE DEF r
  <1>11. Link(r, Append(w, Head(b)), q)
    BY <1>2, <1>6, <1>9, TransferLink
  <1>12. Link(q, u, r)
    BY <1>2, <1>9, OtherReader
  <1>13. Speaks(r)
    BY <1>2, <1>9, SameSpeaks
  <1>14. wire'[e] = Append(w, Head(b)) /\ wire'[Other(e)] = u
    BY <1>1, <1>3, <1>5, <1>6, Others DEF OrderInv, WireInv
  <1> QED
    BY <1>1, <1>10, <1>11, <1>12, <1>13, <1>14, OrderLeave

\* A write ends, and the next frame begins.
LEMMA WriteOrder ==
    ASSUME OrderInv, WireInv', NEW e \in Ends, handle_write(e) \/ handle_write_error(e)
    PROVE  OrderInv'
  <1>1. PICK p, w, q, u : p = peer[e] /\ w = wire[e] /\ q = peer[Other(e)] /\ u = wire[Other(e)]
    OBVIOUS
  <1>2. /\ PeerInv(p) /\ Speaks(p) /\ p \in PeerRec /\ q \in PeerRec
        /\ w \in Seq(Byte) /\ Link(p, w, q) /\ Link(q, u, p)
    BY <1>1, OrderParts
  <1>3. /\ wire' = wire
        /\ \E i \in DOMAIN p.writes : \E error \in BOOLEAN :
                (error \/ p.writes[i] = <<>>) /\ Leave(e, WriteOver(p, i, error))
    BY <1>1 DEF handle_write, handle_write_error
  <1>4. PICK i \in DOMAIN p.writes : \E error \in BOOLEAN :
                (error \/ p.writes[i] = <<>>) /\ Leave(e, WriteOver(p, i, error))
    BY <1>3
  <1>5. PICK error \in BOOLEAN :
                (error \/ p.writes[i] = <<>>) /\ Leave(e, WriteOver(p, i, error))
    BY <1>4
  <1>6. PICK r : r = WriteOver(p, i, error)
    OBVIOUS
  <1>7. /\ Link(r, w, q)
        /\ r.received = p.received /\ r.reading = p.reading /\ r.mReadbuf = p.mReadbuf
        /\ r.started = p.started /\ r.mHelloed = p.mHelloed /\ r.sent = p.sent
        /\ p.mDetaching => r.mDetaching
        /\ r.reason \in {p.reason, "hw"}
    BY <1>2, <1>5, <1>6, WriteOverLink
  <1>8. Link(q, u, r)
    BY <1>2, <1>7, OtherReader
  <1>9. Speaks(r)
    BY <1>2, <1>7, SameSpeaks
  <1> QED
    BY <1>1, <1>3, <1>5, <1>6, <1>7, <1>8, <1>9, OrderLeave

\* An end detaches: the stream it writes ends, and the one it reads is read

\* no further or as before.
LEMMA DetachOrder ==
    ASSUME OrderInv, WireInv', NEW e \in Ends, Detach(e) \/ handle_read_error(e)
    PROVE  OrderInv'
  <1>1. PICK p, w, q, u : p = peer[e] /\ w = wire[e] /\ q = peer[Other(e)] /\ u = wire[Other(e)]
    OBVIOUS
  <1>2. /\ PeerInv(p) /\ Speaks(p) /\ p \in PeerRec /\ q \in PeerRec
        /\ w \in Seq(Byte) /\ Link(p, w, q) /\ Link(q, u, p)
    BY <1>1, OrderParts
  <1>3. wire' = wire
    BY DEF Detach, handle_read_error
  <1>4. CASE Detach(e)
    <2>1. PICK r : r = detach(p, "other") /\ Leave(e, r)
      BY <1>1, <1>4 DEF Detach
    <2>2. "other" \in Reasons
      BY DEF Reasons
    <2>3. DetachLeaves(p, "other", r)
      BY <1>2, <2>1, <2>2, DetachFields
    <2>4. Link(r, w, q) /\ Link(q, u, r)
      <3>1. Link(r, w, q)
        BY <1>2, <2>3, OtherWriter DEF DetachLeaves
      <3>2. Link(q, u, r)
        BY <1>2, <2>3, OtherReader DEF DetachLeaves
      <3> QED
        BY <3>1, <3>2
    <2>5. Speaks(r)
      BY <1>2, <2>3, SameSpeaks DEF DetachLeaves
    <2> QED
      BY <1>1, <1>3, <2>1, <2>4, <2>5, OrderLeave
  <1>5. CASE handle_read_error(e)
    <2>1. PICK m : m = detach(p, "hrh2")
      OBVIOUS
    <2>2. "hrh2" \in Reasons
      BY DEF Reasons
    <2>3. DetachLeaves(p, "hrh2", m) /\ m \in PeerRec
      BY <1>2, <2>1, <2>2, DetachFields, DetachOK DEF PeerInv
    <2>4. PICK r : r = [m EXCEPT !.reading = "no"] /\ Leave(e, r)
      BY <1>1, <1>5, <2>1 DEF handle_read_error
    <2>5. /\ r.received = m.received /\ r.reading = "no" /\ r.started = m.started
          /\ r.mHelloed = m.mHelloed /\ r.mDetaching = m.mDetaching /\ r.reason = m.reason
          /\ r.sent = m.sent /\ r.writes = m.writes
      BY <2>3, <2>4 DEF PeerRec
    <2>6. /\ r.received = p.received /\ r.started = p.started /\ r.mHelloed = p.mHelloed
          /\ r.mDetaching /\ r.reason \in {p.reason, "hrh2"}
          /\ r.sent = p.sent /\ r.writes = p.writes
      BY <2>3, <2>5 DEF DetachLeaves
    <2>7. p.started
      BY <1>1, <1>2, <1>5 DEF handle_read_error, Speaks
    <2>8. Link(r, w, q)
      BY <1>2, <2>6, OtherWriter
    <2>9. Link(q, u, r)
      BY <1>2, <2>5, <2>6, <2>7, OtherReader
    <2>10. Speaks(r)
      BY <1>2, <2>6, <2>7, SameSpeaks
    <2> QED
      BY <1>1, <1>3, <2>4, <2>8, <2>9, <2>10, OrderLeave
  <1> QED
    BY <1>4, <1>5

\* The next bytes are the header of the frame that is due, and its length is

\* accepted.
LEMMA HeaderOrder ==
    ASSUME OrderInv, WireInv', NEW e \in Ends, handle_read_header(e)
    PROVE  OrderInv'
  <1>1. PICK p, w, q, u : p = peer[e] /\ w = wire[e] /\ q = peer[Other(e)] /\ u = wire[Other(e)]
    OBVIOUS
  <1>2. /\ PeerInv(p) /\ Speaks(p) /\ p \in PeerRec /\ q \in PeerRec /\ Said(q)
        /\ w \in Seq(Byte) /\ u \in Seq(Byte) /\ Link(p, w, q) /\ Link(q, u, p)
    BY <1>1, OrderParts
  <1>3. p.reading = "header" /\ p.started
    BY <1>1, <1>2 DEF handle_read_header, Speaks
  <1>4. HEADER_SIZE \in Nat /\ HEADER_SIZE <= Len(u)
    <2>1. HEADER_SIZE \in Nat /\ Len(u) \in Nat
      BY <1>2 DEF HEADER_SIZE
    <2> QED
      BY <1>1, <2>1 DEF handle_read_header
  <1>5. PICK h : h = SubSeq(u, 1, HEADER_SIZE)
    OBVIOUS
  <1>6. h \in Seq(Byte) /\ Len(h) = HEADER_SIZE
    BY <1>2, <1>4, <1>5, ReadBytes
  <1>7. PICK v : v = SubSeq(u, HEADER_SIZE + 1, Len(u))
    OBVIOUS
  <1>8. v \in Seq(Byte) /\ Left(v, u, HEADER_SIZE)
    BY <1>2, <1>4, <1>7, LeftOK
  <1>9. wire'[e] = w /\ wire'[Other(e)] = v
    BY <1>1, <1>7, Others DEF handle_read_header, OrderInv, WireInv
  <1>10. FramesOK(q)
    BY <1>2 DEF Said, FramesOK
  <1>11. /\ getLength(h) <= MaxLength
         /\ \A r : /\ r.received = p.received /\ r.reading = "body"
                   /\ r.started /\ r.mReadbuf = h
                   => Link(q, v, r)
    BY <1>2, <1>3, <1>4, <1>5, <1>6, <1>8, <1>10, HeaderLink
  <1>12. ~(getLength(h) > MaxLength)
    <2>1. getLength(h) \in Nat /\ MaxLength \in Nat
      BY <1>6, LengthNat, ConstantsAssumption
    <2> QED
      BY <1>11, <2>1
  <1> DEFINE m == [p EXCEPT !.mReadbuf = h]
  <1>13. m \in PeerRec /\ m.mDetaching = p.mDetaching
    BY <1>2, <1>6 DEF PeerRec
  <1>14. PICK r : /\ Leave(e, r)
                  /\ r = IF m.mDetaching THEN [m EXCEPT !.reading = "no"]
                         ELSE IF getLength(h) > MaxLength
                         THEN [detach(m, "hrh") EXCEPT !.reading = "no"]
                         ELSE [m EXCEPT !.reading = "body"]
    BY <1>1, <1>5 DEF handle_read_header
  <1>15. r = [m EXCEPT !.reading = IF p.mDetaching THEN "no" ELSE "body"]
    BY <1>12, <1>13, <1>14
  <1>16. /\ r.received = p.received /\ r.started = p.started /\ r.mHelloed = p.mHelloed
         /\ r.mDetaching = p.mDetaching /\ r.reason = p.reason /\ r.mReadbuf = h
         /\ r.sent = p.sent /\ r.writes = p.writes /\ r.mSendQ = p.mSendQ
         /\ r.reading = IF p.mDetaching THEN "no" ELSE "body"
    BY <1>2, <1>6, <1>15 DEF PeerRec
  <1> HIDE DEF m
  <1>17. Link(r, w, q)
    BY <1>2, <1>16, OtherWriter
  <1>18. Link(q, v, r)
    <2>1. CASE p.mDetaching
      <3>1. r.reading = "no" /\ r.started /\ r.received = p.received
        BY <1>3, <1>16, <2>1
      <3> QED
        BY <1>2, <1>4, <1>8, <3>1, StopLink
    <2>2. CASE ~p.mDetaching
      <3>1. r.reading = "body" /\ r.started /\ r.received = p.received /\ r.mReadbuf = h
        BY <1>3, <1>16, <2>2
      <3> QED
        BY <1>11, <3>1
    <2> QED
      BY <2>1, <2>2
  <1>19. Speaks(r)
    BY <1>2, <1>3, <1>16, SameSpeaks
  <1> QED
    BY <1>1, <1>9, <1>14, <1>17, <1>18, <1>19, OrderLeave

\* The bytes behind it complete the frame, and the frame is of the type that

\* is due.
LEMMA BodyOrder ==
    ASSUME OrderInv, WireInv', NEW e \in Ends, handle_read_body(e)
    PROVE  OrderInv'
  <1>1. PICK p, w, q, u : p = peer[e] /\ w = wire[e] /\ q = peer[Other(e)] /\ u = wire[Other(e)]
    OBVIOUS
  <1>2. /\ PeerInv(p) /\ Speaks(p) /\ p \in PeerRec /\ q \in PeerRec /\ Said(q)
        /\ w \in Seq(Byte) /\ u \in Seq(Byte) /\ Link(p, w, q) /\ Link(q, u, p)
    BY <1>1, OrderParts
  <1>3. p.reading = "body" /\ p.started
    BY <1>1, <1>2 DEF handle_read_body, Speaks
  <1>4. p.mReadbuf \in Seq(Byte) /\ Len(p.mReadbuf) = HEADER_SIZE
    BY <1>2, <1>3 DEF PeerInv, PeerRec, HeaderRead
  <1>5. PICK n \in Nat : n = getLength(p.mReadbuf)
    BY <1>4, LengthNat
  <1>6. n <= Len(u)
    <2>1. Len(u) \in Nat
      BY <1>2
    <2> QED
      BY <1>1, <1>5, <2>1 DEF handle_read_body
  <1>7. PICK v : v = SubSeq(u, n + 1, Len(u))
    OBVIOUS
  <1>8. v \in Seq(Byte) /\ Left(v, u, n)
    BY <1>2, <1>6, <1>7, LeftOK
  <1>9. wire'[e] = w /\ wire'[Other(e)] = v
    BY <1>1, <1>5, <1>7, Others DEF handle_read_body, OrderInv, WireInv
  <1>10. FramesOK(q)
    BY <1>2 DEF Said, FramesOK
  <1>11. PICK f : f = q.sent[Len(p.received) + 1]
    OBVIOUS
  <1>12. /\ Len(p.received) + 1 \in 1..Len(q.sent)
         /\ p.mReadbuf \o SubSeq(u, 1, n) = f
         /\ \A r : /\ r.received = Append(p.received, f)
                   /\ r.started /\ r.reading \in {"no", "header"}
                   => Link(q, v, r)
    <2>1. Taken(q, u, p, n, v, f)
      BY <1>2, <1>3, <1>4, <1>5, <1>6, <1>8, <1>10, <1>11, BodyLink
    <2> QED
      BY <2>1 DEF Taken
  <1>13. f \in Packet /\ (getType(f) = mtHELLO <=> p.received = <<>>)
    <2>1. PICK y \in Nat : y = Len(p.received) /\ (y = 0 <=> p.received = <<>>)
      <3>1. p.received \in Seq(Packet)
        BY <1>2 DEF PeerRec
      <3> QED
        BY <3>1, EmptyLength
    <2>2. y + 1 = 1 <=> y = 0
      OBVIOUS
    <2>3. y + 1 \in 1..Len(q.sent) /\ f = q.sent[y + 1]
      BY <1>11, <1>12, <2>1
    <2> QED
      BY <1>2, <2>1, <2>2, <2>3 DEF Said, Framed
  <1>14. PICK accepted \in BOOLEAN :
            Leave(e, IF p.mDetaching THEN [p EXCEPT !.reading = "no"]
                     ELSE start_read_header(processReadBuffer(p, f, accepted)))
    <2>1. \E accepted \in BOOLEAN :
            Leave(e, IF p.mDetaching THEN [p EXCEPT !.reading = "no"]
                     ELSE start_read_header(processReadBuffer(p,
                             p.mReadbuf \o SubSeq(u, 1, n), accepted)))
      BY <1>1, <1>5 DEF handle_read_body
    <2> QED
      BY <1>12, <2>1
  <1>15. CASE p.mDetaching
    <2>1. PICK r : r = [p EXCEPT !.reading = "no"] /\ Leave(e, r)
      BY <1>14, <1>15
    <2>2. /\ r.received = p.received /\ r.started = p.started /\ r.mHelloed = p.mHelloed
          /\ r.mDetaching = p.mDetaching /\ r.reason = p.reason /\ r.reading = "no"
          /\ r.sent = p.sent /\ r.writes = p.writes /\ r.mSendQ = p.mSendQ
      BY <1>2, <2>1 DEF PeerRec
    <2>3. Link(r, w, q)
      BY <1>2, <2>2, OtherWriter
    <2>4. Link(q, v, r)
      BY <1>2, <1>3, <1>8, <2>2, StopLink
    <2>5. Speaks(r)
      BY <1>2, <1>3, <2>2, SameSpeaks
    <2> QED
      BY <1>1, <1>9, <2>1, <2>3, <2>4, <2>5, OrderLeave
  <1>16. CASE ~p.mDetaching
    <2>1. PICK m : m = processReadBuffer(p, f, accepted)
      OBVIOUS
    <2>2. /\ PeerInv(m) /\ Link(m, w, q) /\ Said(m)
          /\ m.started /\ m.received = Append(p.received, f) /\ m.sent # <<>>
          /\ m.mDetaching \/ m.mHelloed
          /\ m.reason \notin {"prb1", "hrh"}
      BY <1>2, <1>3, <1>13, <1>16, <2>1, ProcessLink
    <2>3. m \in PeerRec
      BY <2>2 DEF PeerInv
    <2>4. PICK r : r = start_read_header(m) /\ Leave(e, r)
      BY <1>14, <1>16, <2>1
    <2>5. /\ r.received = m.received /\ r.started = m.started /\ r.mHelloed = m.mHelloed
          /\ r.mDetaching = m.mDetaching /\ r.reason = m.reason
          /\ r.sent = m.sent /\ r.writes = m.writes /\ r.mSendQ = m.mSendQ
          /\ r.reading = IF m.mDetaching THEN "no" ELSE "header"
      BY <2>3, <2>4, ReadFields
    <2>6. Link(r, w, q)
      BY <2>2, <2>5, OtherWriter
    <2>7. Link(q, v, r)
      BY <1>12, <2>2, <2>5
    <2>8. r.received # <<>>
      <3>1. p.received \in Seq(Packet)
        BY <1>2 DEF PeerRec
      <3>2. Append(p.received, f) # <<>>
        BY <1>13, <3>1, AppendProperties
      <3> QED
        BY <2>2, <2>5, <3>2
    <2>9. Speaks(r)
      BY <2>2, <2>5, <2>8 DEF Speaks, Said
    <2> QED
      BY <1>1, <1>9, <2>4, <2>6, <2>7, <2>9, OrderLeave
  <1> QED
    BY <1>15, <1>16

\* At first nothing has been sent.
LEMMA OrderInit ==
    ASSUME Init
    PROVE  OrderInv
  <1>1. \A e \in Ends : peer[e] = NewPeer /\ wire[e] = <<>>
    BY DEF Init
  <1>2. Speaks(NewPeer)
    BY DEF NewPeer, Speaks, Said
  <1>3. Link(NewPeer, <<>>, NewPeer)
    <2> DEFINE at == [i \in 1..(0 + 1) |-> 0]
    <2>1. at \in [1..(0 + 1) -> Nat] /\ at[1] = 0 /\ 0 + 1 = 1
      OBVIOUS
    <2> HIDE DEF at
    <2>2. Linked(NewPeer, <<>>, NewPeer, 0, 0, at)
      <3>1. Len(<<>>) = 0 /\ 0 + 0 = 0
        OBVIOUS
      <3>2. /\ NewPeer.sent = <<>> /\ NewPeer.received = <<>> /\ NewPeer.writes = <<>>
            /\ NewPeer.mSendQ = <<>> /\ NewPeer.reading = "no"
        BY DEF NewPeer
      <3>3. Laid(<<>>, 0, at)
        BY <3>1 DEF Laid
      <3>4. Writer(NewPeer, 0, 0, at)
        BY <2>1, <3>1, <3>2, <3>3 DEF Writer
      <3>5. Holds(<<>>, 0, <<>>, 0, at)
        BY <3>1 DEF Holds
      <3>6. Reader(NewPeer, 0, <<>>, 0, at)
        BY <2>1, <3>1, <3>2 DEF Reader
      <3> QED
        BY <3>1, <3>2, <3>4, <3>5, <3>6 DEF Linked
    <2>3. 0 \in Nat
      OBVIOUS
    <2> QED
      BY <2>1, <2>2, <2>3 DEF Link
  <1>4. WireInv
    BY WireInit
  <1> QED
    BY <1>1, <1>2, <1>3, <1>4, OtherOK DEF OrderInv

\* Every step continues the two streams.
LEMMA OrderStep ==
    ASSUME OrderInv, [Next]_vars
    PROVE  OrderInv'
  <1>1. WireInv'
    BY WireStep DEF OrderInv
  <1>2. CASE UNCHANGED <<peer, wire>>
    BY <1>1, <1>2 DEF OrderInv
  <1>3. CASE Cut
    BY <1>2, <1>3 DEF Cut
  <1>4. CASE UNCHANGED vars
    BY <1>2, <1>4 DEF vars
  <1>5. ASSUME NEW e \in Ends, handleStart(e)
        PROVE  OrderInv'
    BY <1>1, <1>5, StartOrder
  <1>6. ASSUME NEW e \in Ends, relayMessage(e)
        PROVE  OrderInv'
    BY <1>1, <1>6, RelayOrder
  <1>7. ASSUME NEW e \in Ends, Transfer(e)
        PROVE  OrderInv'
    BY <1>1, <1>7, TransferOrder
  <1>8. ASSUME NEW e \in Ends, handle_write(e) \/ handle_write_error(e)
        PROVE  OrderInv'
    BY <1>1, <1>8, WriteOrder
  <1>9. ASSUME NEW e \in Ends, Read(e)
        PROVE  OrderInv'
    BY <1>1, <1>9, HeaderOrder, BodyOrder DEF Read
  <1>10. ASSUME NEW e \in Ends, Detach(e) \/ handle_read_error(e)
         PROVE  OrderInv'
    BY <1>1, <1>10, DetachOrder
  <1> QED
    BY <1>3, <1>4, <1>5, <1>6, <1>7, <1>8, <1>9, <1>10 DEF Next

\* The two streams exist throughout.
THEOREM OrderInvariance == Safety => []OrderInv
  <1>1. Init => OrderInv
    BY OrderInit
  <1>2. OrderInv /\ [Next]_vars => OrderInv'
    BY OrderStep
  <1> QED
    BY <1>1, <1>2, PTL DEF Safety

\* Every end receives what the other sent, whole, once and in order, however

\* the writes are split into bytes, for any number of relayed messages
\* (sendPacket, handle_write, handle_read_header, handle_read_body).
THEOREM FramesInOrderCorrect == Safety => []FramesInOrder
  <1>1. OrderInv => FramesInOrder
    <2> SUFFICES ASSUME OrderInv, NEW e \in Ends
                 PROVE  IsPrefix(peer[Other(e)].received, peer[e].sent)
      BY DEF FramesInOrder
    <2>1. PICK R \in Seq(Packet), S \in Seq(Packet) :
                R = peer[Other(e)].received /\ S = peer[e].sent
      BY OrderParts DEF PeerRec
    <2>2. Link(peer[e], wire[e], peer[Other(e)])
      BY OrderParts
    <2>3. PICK k \in Nat, c \in Nat : \E at \in [1..(k + 1) -> Nat] :
                Linked(peer[e], wire[e], peer[Other(e)], k, c, at)
      BY <2>2 DEF Link
    <2>4. k <= Len(S) /\ Len(R) <= k /\ \A i \in 1..Len(R) : R[i] = S[i]
      BY <2>1, <2>3 DEF Linked, Writer, Laid, Reader
    <2>5. Len(R) <= Len(S) /\ \A i \in 1..Len(R) : R[i] = S[i]
      BY <2>4
    <2>6. IsPrefix(R, S)
      BY <2>5 DEF IsPrefix
    <2> QED
      BY <2>1, <2>6
  <1> QED
    BY <1>1, OrderInvariance, PTL

\* Two ends that run this code never detach from each other because a message

\* is of the wrong type or too long (handleStart, relayMessage, recvHello,
\* processReadBuffer, handle_read_header).
THEOREM NoWrongTypeCorrect == Safety => []NoWrongType
  <1>1. OrderInv => NoWrongType
    BY DEF OrderInv, Speaks, NoWrongType
  <1> QED
    BY <1>1, OrderInvariance, PTL
===============================================================================
