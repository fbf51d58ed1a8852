------------------------------- MODULE PeerWire -------------------------------
(***************************************************************************)
(* The two ends of one peer connection (src/Peer): the send queue, the     *)
(* asynchronous writes, the reads of header and body, and the rule that    *)
(* hello comes first and only once.  The ends run the same code in two     *)
(* processes; bytes travel between them one at a time, and either end may  *)
(* be detached, or the connection lost, at any moment.                     *)
(***************************************************************************)
EXTENDS PackedMessage, SequencesExt

CONSTANTS
    Ends,             \* the two ends of the connection
    NULL,             \* a null packet pointer
    MaxLength,        \* longest message accepted: 32 * 1024 * 1024
    Relayers,         \* bound: the ends that relay messages
    MaxRelays         \* bound: messages relayed by each of them

ASSUME ConstantsAssumption ==
    /\ \E a, b \in Ends : a # b /\ Ends = {a, b}
    /\ NULL \notin Seq(Byte)
    /\ MaxLength \in Nat /\ MaxLength >= 2
    /\ Relayers \subseteq Ends
    /\ MaxRelays \in Nat

VARIABLES
    peer,             \* the Peer object of each end
    wire,             \* wire[e]: bytes e has written and the other not read
    cut,              \* is the connection lost?
    relays            \* relays[e]: messages relayed by e so far

vars == <<peer, wire, cut, relays>>

Other(e) == CHOOSE o \in Ends : o # e

mtHELLO == 1
mtGET_PEERS == 12
mtPEERS == 13
mtTRANSACTION == 30

\* The packets of this model; a relayed message is longer than the others.
Hello == Pack(mtHELLO, <<7>>)
GetPeers == Pack(mtGET_PEERS, <<1>>)
PeerList == Pack(mtPEERS, <<2>>)
Relayed(n) == Pack(mtTRANSACTION, <<9, n % 256>>)

\* A Peer object.  writes holds the bytes left of every async_write under
\* way, reading what async_read waits for.  sent, received and reason are
\* history: packets given to sendPacket, buffers processed, why it detached.
NewPeer ==
    [started |-> FALSE, mHelloed |-> FALSE, mDetaching |-> FALSE,
     mSendQ |-> <<>>, mSendingPacket |-> NULL, writes |-> <<>>,
     reading |-> "no", mReadbuf |-> <<>>,
     sent |-> <<>>, received |-> <<>>, reason |-> "none"]

Packet == Seq(Byte)

PeerRec ==
    [started : BOOLEAN, mHelloed : BOOLEAN, mDetaching : BOOLEAN,
     mSendQ : Seq(Packet), mSendingPacket : Packet \cup {NULL},
     writes : Seq(Packet),
     reading : {"no", "header", "body"}, mReadbuf : Seq(Byte),
     sent : Seq(Packet), received : Seq(Packet),
     reason : {"none", "hw", "recvh", "prb1", "hrh", "hrh2", "other"}]

\* Types; a body is only read when a whole header has been.
TypeOK ==
    /\ peer \in [Ends -> PeerRec]
    /\ wire \in [Ends -> Seq(Byte)]
    /\ cut \in BOOLEAN
    /\ relays \in [Ends -> 0..MaxRelays]
    /\ \A e \in Ends :
        peer[e].reading = "body" => Len(peer[e].mReadbuf) = HEADER_SIZE

Init ==
    /\ peer = [e \in Ends |-> NewPeer]
    /\ wire = [e \in Ends |-> <<>>]
    /\ cut = FALSE
    /\ relays = [e \in Ends |-> 0]

-------------------------------------------------------------------------------
(* The code of one end, from its Peer object p to the one it leaves.       *)

sendPacketForce(p, packet) ==
    IF p.mDetaching THEN p
    ELSE [p EXCEPT !.mSendingPacket = packet, !.writes = Append(@, packet)]

\* Fault: every packet is written at once.
sendPacketAtOnce(p, packet) ==
    [sendPacketForce(p, packet) EXCEPT !.sent = Append(@, packet)]

\* One packet is written at a time, the others wait.
sendPacket(p, packet) ==
    [IF p.mSendingPacket # NULL THEN [p EXCEPT !.mSendQ = Append(@, packet)]
     ELSE sendPacketForce(p, packet)
        EXCEPT !.sent = IF p.mDetaching THEN @ ELSE Append(@, packet)]

detach(p, why) ==
    IF p.mDetaching THEN p
    ELSE [p EXCEPT !.mDetaching = TRUE, !.mSendQ = <<>>, !.reason = why]

start_read_header(p) ==
    IF p.mDetaching THEN [p EXCEPT !.reading = "no"]
    ELSE [p EXCEPT !.reading = "header", !.mReadbuf = <<>>]

\* Fault: the packet that is sent stays at the front of the queue.
WriteNextKept(p) == IF p.mSendQ = <<>> THEN p ELSE sendPacketForce(p, Head(p.mSendQ))

\* Fault: the queue waits for the next sendPacket.
WriteNextNone(p) == p

\* The front of the queue is written.
WriteNext(p) ==
    IF p.mSendQ = <<>> THEN p
    ELSE [sendPacketForce(p, Head(p.mSendQ)) EXCEPT !.mSendQ = Tail(@)]

\* Write i of p is over.
WriteOver(p, i, error) ==
    LET q == [p EXCEPT !.writes = RemoveAt(@, i), !.mSendingPacket = NULL]
    IN IF q.mDetaching THEN q
       ELSE IF error THEN detach(q, "hw")
       ELSE WriteNext(q)

\* A hello is accepted, or the node cannot be verified or is not wanted
\* (ConnectionPool); an end that accepts it asks for addresses.
recvHello(p, accepted) ==
    IF accepted THEN sendPacket([p EXCEPT !.mHelloed = TRUE], GetPeers)
    ELSE detach(p, "recvh")

\* "If connected and get a mtHELLO or if not connected and get a non-mtHELLO,
\* wrong message was sent."
WrongType(p, type) == p.mHelloed = (type = mtHELLO)

\* The message in buf; of the others only those that answer matter here.
processReadBuffer(p, buf, accepted) ==
    LET type == getType(buf)
        q == [p EXCEPT !.received = Append(@, buf)]
    IN IF WrongType(p, type) THEN detach(q, "prb1")
       ELSE IF type = mtHELLO THEN recvHello(q, accepted)
       ELSE IF type = mtGET_PEERS THEN sendPacket(q, PeerList)
       ELSE q

-------------------------------------------------------------------------------
(* The handlers.                                                           *)

Leave(e, p) == peer' = [peer EXCEPT ![e] = p]

\* The ssl handshake is over: say hello, then read.
handleStart(e) ==
    /\ ~peer[e].started
    /\ Leave(e, start_read_header(sendPacket([peer[e] EXCEPT !.started = TRUE], Hello)))
    /\ UNCHANGED <<wire, cut, relays>>

\* Fault: a message is relayed to peers that are not verified yet.
relayMessageEarly(e) ==
    /\ ~peer[e].mDetaching
    /\ e \in Relayers /\ relays[e] < MaxRelays
    /\ relays' = [relays EXCEPT ![e] = @ + 1]
    /\ Leave(e, sendPacket(peer[e], Relayed(relays[e])))
    /\ UNCHANGED <<wire, cut>>

\* ConnectionPool::relayMessage, for this peer: only when it is connected.
relayMessage(e) ==
    /\ peer[e].mHelloed /\ ~peer[e].mDetaching
    /\ e \in Relayers /\ relays[e] < MaxRelays
    /\ relays' = [relays EXCEPT ![e] = @ + 1]
    /\ Leave(e, sendPacket(peer[e], Relayed(relays[e])))
    /\ UNCHANGED <<wire, cut>>

\* Some write of e puts its next byte on the wire.
Transfer(e) ==
    \E i \in DOMAIN peer[e].writes :
        /\ peer[e].writes[i] # <<>>
        /\ wire' = [wire EXCEPT ![e] = Append(@, Head(peer[e].writes[i]))]
        /\ Leave(e, [peer[e] EXCEPT !.writes[i] = Tail(@)])
        /\ UNCHANGED <<cut, relays>>

\* A write is complete.
handle_write(e) ==
    \E i \in DOMAIN peer[e].writes :
        /\ peer[e].writes[i] = <<>>
        /\ Leave(e, WriteOver(peer[e], i, FALSE))
        /\ UNCHANGED <<wire, cut, relays>>

\* Has the other end, or the network, closed the connection?
Closed(e) == cut \/ peer[e].mDetaching \/ peer[Other(e)].mDetaching

handle_write_error(e) ==
    /\ Closed(e)
    /\ \E i \in DOMAIN peer[e].writes : Leave(e, WriteOver(peer[e], i, TRUE))
    /\ UNCHANGED <<wire, cut, relays>>

\* HEADER_SIZE bytes have arrived.
handle_read_header(e) ==
    /\ peer[e].reading = "header"
    /\ Len(wire[Other(e)]) >= HEADER_SIZE
    /\ LET header == SubSeq(wire[Other(e)], 1, HEADER_SIZE)
           p == [peer[e] EXCEPT !.mReadbuf = header]
       IN Leave(e, IF p.mDetaching THEN [p EXCEPT !.reading = "no"]
                   ELSE IF getLength(header) > MaxLength
                   THEN [detach(p, "hrh") EXCEPT !.reading = "no"]
                   ELSE [p EXCEPT !.reading = "body"])
    /\ wire' = [wire EXCEPT ![Other(e)] = SubSeq(@, HEADER_SIZE + 1, Len(@))]
    /\ UNCHANGED <<cut, relays>>

\* The body has arrived: process the message and read on.
handle_read_body(e) ==
    LET n == getLength(peer[e].mReadbuf)
        o == Other(e)
    IN /\ peer[e].reading = "body"
       /\ Len(wire[o]) >= n
       /\ \E accepted \in BOOLEAN :
            LET p == peer[e]
            IN Leave(e, IF p.mDetaching THEN [p EXCEPT !.reading = "no"]
                        ELSE start_read_header(
                                processReadBuffer(p, p.mReadbuf \o SubSeq(wire[o], 1, n),
                                                  accepted)))
       /\ wire' = [wire EXCEPT ![o] = SubSeq(@, n + 1, Len(@))]
       /\ UNCHANGED <<cut, relays>>

\* A read ends with an error.
handle_read_error(e) ==
    /\ Closed(e)
    /\ peer[e].reading # "no"
    /\ Leave(e, [detach(peer[e], "hrh2") EXCEPT !.reading = "no"])
    /\ UNCHANGED <<wire, cut, relays>>

\* Some other reason to detach: the handshake fails, the verification timer
\* expires, or the pool closes the connection.
Detach(e) ==
    /\ ~peer[e].mDetaching
    /\ Leave(e, detach(peer[e], "other"))
    /\ UNCHANGED <<wire, cut, relays>>

\* The network loses the connection.
Cut ==
    /\ ~cut
    /\ cut' = TRUE
    /\ UNCHANGED <<peer, wire, relays>>

Read(e) == handle_read_header(e) \/ handle_read_body(e)

Next ==
    \/ \E e \in Ends :
        \/ handleStart(e)
        \/ relayMessage(e)
        \/ Transfer(e)
        \/ handle_write(e)
        \/ handle_write_error(e)
        \/ Read(e)
        \/ handle_read_error(e)
        \/ Detach(e)
    \/ Cut

Safety == Init /\ [][Next]_vars

\* The operating systems move bytes, and completed operations are handled.
Fairness ==
    \A e \in Ends :
        /\ WF_vars(handleStart(e))
        /\ WF_vars(Transfer(e))
        /\ WF_vars(handle_write(e))
        /\ WF_vars(Read(e))

Spec == Safety /\ Fairness

-------------------------------------------------------------------------------
(* Properties.                                                             *)

\* At most one write is under way, and mSendingPacket says so: async_write
\* may take several steps and must not be started twice on a stream
\* (sendPacket, handle_write).
OneWrite ==
    \A e \in Ends :
        /\ Len(peer[e].writes) <= 1
        /\ peer[e].mSendingPacket # NULL <=> peer[e].writes # <<>>

\* The queue never waits for nothing: while packets are queued one is being
\* written, whose completion takes the next (handle_write).
QueueMoves ==
    \A e \in Ends : peer[e].mSendQ # <<>> /\ ~peer[e].mDetaching =>
        peer[e].mSendingPacket # NULL

\* Every end receives what the other sent, whole, once and in order
\* (handle_write, handle_read_header, handle_read_body).
FramesInOrder ==
    \A e \in Ends : IsPrefix(peer[Other(e)].received, peer[e].sent)

\* Two ends that run this code never send each other a wrong message: hello
\* is first and only once, although an end may be connected long before the
\* other (handleStart, relayMessage, recvHello, processReadBuffer).
NoWrongType == \A e \in Ends : peer[e].reason \notin {"prb1", "hrh"}

\* What is sent arrives: in the end the other end has received everything, or
\* the connection has ended (sendPacket, handle_write, the reads).
Delivered ==
    \A e \in Ends : <>[](Closed(e) \/ peer[Other(e)].received = peer[e].sent)
===============================================================================
