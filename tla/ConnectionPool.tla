---------------------------- MODULE ConnectionPool ----------------------------
(***************************************************************************)
(* The connection pool (src/ConnectionPool) composed with the life cycle   *)
(* of the Peer objects it creates (src/Peer).  The pool keeps two maps,    *)
(* mIpMap (address -> peer) and mConnectedMap (node key -> peer), one      *)
(* outbound scan at a time (mScanning), a scan timer, and the PeerIps      *)
(* table, the only part that survives a restart.                           *)
(*                                                                         *)
(* The program is one io_service loop: a handler runs to completion, and   *)
(* completions, timers and requests interleave in any order between        *)
(* handlers.  Handlers call each other (a peer's detach calls peerClosed,  *)
(* which calls scanRefresh, which creates another peer), so the code of a  *)
(* handler is written as operators from a pool state s to the set of pool  *)
(* states it may leave, and an action takes one of them.                   *)
(***************************************************************************)
EXTENDS Naturals, FiniteSets

CONSTANTS
    Addrs,            \* ip/port pairs, the keys of mIpMap and of PeerIps
    Nodes,            \* node public keys, ours included
    Self,             \* mWallet->getNodePublic()
    Peers,            \* Peer objects; one is reused once detached
    NULL,             \* a null pointer, an absent map entry or row, SQL NULL
    ScanIntervalMin,  \* theConfig.PEER_SCAN_INTERVAL_MIN
    LowWater,         \* theConfig.PEER_CONNECT_LOW_WATER
    PoolPassed,       \* does peerConnect give the peer its pool?
    MaxInbound,       \* bound: connections whose address is not known
    MaxTime,          \* bound: the horizon of the clock
    MaxOps            \* bound: requests from outside the pool, and crashes

ASSUME ConstantsAssumption ==
    /\ Self \in Nodes
    /\ NULL \notin Addrs \cup Nodes \cup Peers \cup Nat
    /\ ScanIntervalMin \in Nat \ {0}
    /\ LowWater \in Nat
    /\ PoolPassed \in BOOLEAN
    /\ MaxInbound \in Nat
    /\ MaxTime \in Nat
    /\ MaxOps \in Nat

ASSUME NullIsNoRow ==
    NULL \notin [ScanNext : Nat \cup {NULL}, ScanInterval : Nat]

VARIABLES
    peer,           \* the members of each Peer object
    mIpMap,         \* [Addrs -> Peers or NULL]
    mConnectedMap,  \* [Nodes -> Peers or NULL]
    mScanning,      \* the peer of the scan in progress, or NULL
    mScanTimer,     \* expiry of the armed scan timer, or NULL
    PeerIps,        \* the table: [Addrs -> row, or NULL if there is none]
    fault,          \* the loop is lost: a null pool was dereferenced, or
                    \* mPeerLock was locked again by its holder
    scoreDue,       \* the UNL's score timer is armed
    running,        \* the process is up
    now,            \* the clock, in units of the scan interval's resolution
    ops             \* requests and crashes so far

vars == <<peer, mIpMap, mConnectedMap, mScanning, mScanTimer, PeerIps, fault,
          scoreDue, running, now, ops>>

Stages == {"idle", "connect", "handshake", "read"}

(* What the pool depends on in a Peer.  "queued" is a verify timer whose   *)
(* completion was already in the loop's queue when it was cancelled.       *)
PeerRec == [stage : Stages, mClientConnect : BOOLEAN, mHelloed : BOOLEAN,
            mNodePublic : Nodes \cup {NULL}, mIpPort : Addrs \cup {NULL},
            mVerifyTimer : {"off", "armed", "queued"}, mConnectionPool : BOOLEAN]

Row == [ScanNext : Nat \cup {NULL}, ScanInterval : Nat]

(* An object that is not in use: not created yet, or detached.  Every      *)
(* handler of a detached peer returns at its mDetaching test.              *)
IdlePeer == [stage |-> "idle", mClientConnect |-> FALSE, mHelloed |-> FALSE,
             mNodePublic |-> NULL, mIpPort |-> NULL, mVerifyTimer |-> "off",
             mConnectionPool |-> FALSE]

(* Fault: Peer::connect that does not arm the verify timer. *)
ConnectPeerUntimed(a) ==
    [stage |-> "connect", mClientConnect |-> TRUE, mHelloed |-> FALSE,
     mNodePublic |-> NULL, mIpPort |-> a, mVerifyTimer |-> "off",
     mConnectionPool |-> PoolPassed]

(* Peer::create and Peer::connect from peerConnect: the address is known,  *)
(* the verify timer is armed before async_connect is started.  The two     *)
(* error exits of connect, before the timer is armed, are ScanLost and the *)
(* partial outcomes of policyLowWater.                                     *)
ConnectPeer(a) ==
    [stage |-> "connect", mClientConnect |-> TRUE, mHelloed |-> FALSE,
     mNodePublic |-> NULL, mIpPort |-> a, mVerifyTimer |-> "armed",
     mConnectionPool |-> PoolPassed]

(* Peer::connected, the inbound side: the address is left empty and no     *)
(* verify timer is armed.                                                  *)
ConnectedPeer ==
    [stage |-> "handshake", mClientConnect |-> FALSE, mHelloed |-> FALSE,
     mNodePublic |-> NULL, mIpPort |-> NULL, mVerifyTimer |-> "off",
     mConnectionPool |-> TRUE]

-----------------------------------------------------------------------------
(* The pool state a handler works on. *)
pool == [peer |-> peer, mIpMap |-> mIpMap, mConnectedMap |-> mConnectedMap,
         mScanning |-> mScanning, mScanTimer |-> mScanTimer,
         PeerIps |-> PeerIps, fault |-> fault]

Become(s) ==
    /\ peer' = s.peer
    /\ mIpMap' = s.mIpMap
    /\ mConnectedMap' = s.mConnectedMap
    /\ mScanning' = s.mScanning
    /\ mScanTimer' = s.mScanTimer
    /\ PeerIps' = s.PeerIps
    /\ fault' = s.fault

Live(s, p) == s.peer[p].stage # "idle"

(* Objects a new connection may use. *)
Free(s) == {p \in Peers : /\ ~Live(s, p)
                          /\ s.mScanning # p
                          /\ \A a \in Addrs : s.mIpMap[a] # p
                          /\ \A n \in Nodes : s.mConnectedMap[n] # p}

HasRow(s, a) == s.PeerIps[a] # NULL

(* Rows WHERE ScanNext NOT NULL, those of them that are due, and rows      *)
(* WHERE ScanNext IS NULL.                                                 *)
Scheduled(s) == {a \in Addrs : HasRow(s, a) /\ s.PeerIps[a].ScanNext # NULL}
Due(s) == {a \in Scheduled(s) : s.PeerIps[a].ScanNext <= now}
Unscheduled(s) == {a \in Addrs : HasRow(s, a) /\ s.PeerIps[a].ScanNext = NULL}

(* Addresses connected or connecting. *)
Busy(s) == {a \in Addrs : s.mIpMap[a] # NULL}

(* INSERT or REPLACE naming only IpPort, Score and Source: the schema's    *)
(* defaults make the row due since the epoch.                              *)
NewRow == [ScanNext |-> 0, ScanInterval |-> 0]

-----------------------------------------------------------------------------
(* Scanning. *)

(* scanRefresh on a due row: the next attempt is put off by the interval,  *)
(* which doubles.                                                          *)
Postpone(row) ==
    LET iInterval == IF row.ScanInterval > ScanIntervalMin
                     THEN row.ScanInterval ELSE ScanIntervalMin
    IN [ScanNext |-> now + iInterval, ScanInterval |-> 2 * iInterval]

PostponeAll(s, B) ==
    [s EXCEPT !.PeerIps = [a \in Addrs |-> IF a \in B THEN Postpone(@[a])
                                           ELSE @[a]]]

(* Fault: the query lacks WHERE ScanNext NOT NULL, and NULL sorts first. *)
EarliestScanAnyRow(s) ==
    IF Scheduled(s) = {} \/ Unscheduled(s) # {} THEN NULL
    ELSE CHOOSE t \in {s.PeerIps[a].ScanNext : a \in Scheduled(s)} :
            \A a \in Scheduled(s) : t <= s.PeerIps[a].ScanNext

(* ORDER BY ScanNext LIMIT 1: when the earliest scheduled row is due. *)
EarliestScan(s) ==
    IF Scheduled(s) = {} THEN NULL
    ELSE CHOOSE t \in {s.PeerIps[a].ScanNext : a \in Scheduled(s)} :
            \A a \in Scheduled(s) : t <= s.PeerIps[a].ScanNext

(* peerConnect for an address that is not in mIpMap, with the new object p. *)
PeerConnect(s, a, p) ==
    [s EXCEPT !.peer[p] = ConnectPeer(a), !.mIpMap[a] = p]

(* The due rows scanRefresh may come to first among those it can connect. *)
ScanTargets(s) ==
    {a \in Due(s) \ Busy(s) : \A b \in Due(s) \ Busy(s) :
        s.PeerIps[a].ScanNext <= s.PeerIps[b].ScanNext}

(* The busy due rows it meets and postpones before it comes to a: all that *)
(* are earlier and any that tie with it.                                   *)
PassedOver(s, a) ==
    {B \in SUBSET (Due(s) \cap Busy(s)) : \A b \in Due(s) \cap Busy(s) :
        /\ s.PeerIps[b].ScanNext < s.PeerIps[a].ScanNext => b \in B
        /\ b \in B => s.PeerIps[b].ScanNext <= s.PeerIps[a].ScanNext}

ScanNow(s, a, B, p) ==
    [PeerConnect(PostponeAll(s, B \cup {a}), a, p)
        EXCEPT !.mScanning = p, !.mScanTimer = NULL]

(* The attempt on a fails inside Peer::connect: the address does not       *)
(* resolve, or the timer cannot be set.  connect detaches the peer while   *)
(* peerConnect holds mPeerLock, and detach calls peerClosed, which locks   *)
(* it again: the loop does not return.  The row was postponed and the scan *)
(* timer cancelled before, mIpMap and mScanning are not assigned any more. *)
ScanLost(s, a, B) ==
    [PostponeAll(s, B \cup {a}) EXCEPT !.mScanTimer = NULL, !.fault = TRUE]

(* No due row can be connected: all are postponed, and the timer is armed  *)
(* for the earliest row left, or cancelled if there is none.               *)
ScanLater(s) ==
    LET t == PostponeAll(s, Due(s))
    IN [t EXCEPT !.mScanTimer = EarliestScan(t)]

scanRefresh(s) ==
    IF s.mScanning # NULL THEN {s}
    ELSE IF Due(s) \ Busy(s) = {} THEN {ScanLater(s)}
    ELSE UNION {{ScanNow(s, a, B, p) : B \in PassedOver(s, a), p \in Free(s)}
                    \cup {ScanLost(s, a, B) : B \in PassedOver(s, a)} :
                    a \in ScanTargets(s)}

-----------------------------------------------------------------------------
(* Notifications from a peer. *)

savePeer(s, a) ==
    IF HasRow(s, a) THEN {s}
    ELSE scanRefresh([s EXCEPT !.PeerIps[a] = NewRow])

(* peerScanSet applies to a row that is not scheduled. *)
peerScanSet(s, a) ==
    [s EXCEPT !.PeerIps[a] = [ScanNext |-> now + ScanIntervalMin,
                              ScanInterval |-> ScanIntervalMin]]

(* Fault: a closed scan is not taken out of mScanning. *)
peerClosedStillScanning(s, p, a) ==
    LET identified == s.mIpMap[a] = p
        bScanSet == identified /\ a \in Unscheduled(s)
        closed == [s EXCEPT !.mIpMap[a] = IF identified THEN NULL ELSE @]
        after == IF bScanSet THEN peerScanSet(closed, a) ELSE closed
    IN IF s.mScanning = p \/ bScanSet THEN scanRefresh(after) ELSE {after}

(* Fault: the address of a closed connection is not rescheduled. *)
peerClosedForgets(s, p, a) ==
    LET closed == [s EXCEPT !.mScanning = IF @ = p THEN NULL ELSE @,
                            !.mIpMap[a] = IF @ = p THEN NULL ELSE @]
    IN IF s.mScanning = p THEN scanRefresh(closed) ELSE {closed}

peerClosed(s, p, a) ==
    LET identified == s.mIpMap[a] = p
        bScanSet == identified /\ a \in Unscheduled(s)
        closed == [s EXCEPT !.mScanning = IF @ = p THEN NULL ELSE @,
                            !.mIpMap[a] = IF identified THEN NULL ELSE @]
        after == IF bScanSet THEN peerScanSet(closed, a) ELSE closed
    IN IF s.mScanning = p \/ bScanSet THEN scanRefresh(after) ELSE {after}

peerDisconnected(s, p, n) ==
    [s EXCEPT !.mConnectedMap[n] = IF @ = p THEN NULL ELSE @]

(* A scan that reached another node is complete; one that reached          *)
(* ourselves stays scheduled.                                              *)
peerVerified(s, p, n) ==
    IF s.mScanning # p THEN {s}
    ELSE LET a == s.peer[p].mIpPort
             row == IF n = Self \/ ~HasRow(s, a) THEN s.PeerIps[a]
                    ELSE [ScanNext |-> NULL, ScanInterval |-> 0]
         IN scanRefresh([s EXCEPT !.mScanning = NULL, !.PeerIps[a] = row])

(* Faults: connecting to ourselves is not noticed; a known node is taken   *)
(* for a new one.                                                          *)
IsNewNodeOrSelf(s, n) == s.mConnectedMap[n] = NULL

IsNewNodeAlways(s, n) == n # Self

(* peerConnected returns true. *)
IsNewNode(s, n) == n # Self /\ s.mConnectedMap[n] = NULL

(* Fault: the older connection learns its address, mIpMap does not. *)
PeerRedundantUnlisted(s, p, n) ==
    LET old == s.mConnectedMap[n]
        a == s.peer[p].mIpPort
    IN IF n # Self /\ a # NULL /\ s.peer[old].mIpPort = NULL
       THEN [s EXCEPT !.peer[old].mIpPort = a]
       ELSE s

(* peerConnected for a node we are connected to: if that connection does   *)
(* not know its address and p does, it takes it over from p.               *)
PeerRedundant(s, p, n) ==
    LET old == s.mConnectedMap[n]
        a == s.peer[p].mIpPort
    IN IF n # Self /\ a # NULL /\ s.peer[old].mIpPort = NULL
       THEN [s EXCEPT !.peer[old].mIpPort = a, !.mIpMap[a] = old]
       ELSE s

(* Peer::detach of a live peer, the calls it makes into the pool included. *)
detach(s, p) ==
    LET n == s.peer[p].mNodePublic
        a == s.peer[p].mIpPort
        s1 == IF n # NULL THEN peerDisconnected(s, p, n) ELSE s
        s2 == IF a # NULL THEN peerClosed(s1, p, a) ELSE {s1}
    IN IF (n # NULL \/ a # NULL) /\ ~s.peer[p].mConnectionPool
       THEN {[s EXCEPT !.fault = TRUE]}
       ELSE {[x EXCEPT !.peer[p] = IdlePeer] : x \in s2}

(* recvHello with a key that verifies.  guess is the address an inbound    *)
(* peer is saved under; late says that the verify timer had expired        *)
(* already, so that cancelling it does not stop its handler.  (mHelloed is *)
(* set after savePeer, which nothing can tell: no handler runs in between, *)
(* nor ever if savePeer loses the loop.)                                   *)
HelloAccepted(s, p, n, guess, late) ==
    LET client == s.peer[p].mClientConnect
        t == IF late /\ s.peer[p].mVerifyTimer = "armed" THEN "queued" ELSE "off"
        s1 == [s EXCEPT !.mConnectedMap[n] = p,
                        !.peer[p].mNodePublic = n,
                        !.peer[p].mClientConnect = FALSE,
                        !.peer[p].mHelloed = TRUE,
                        !.peer[p].mVerifyTimer = t]
    IN IF client THEN {s1} ELSE savePeer(s1, guess)

recvHello(s, p, n, guess, late) ==
    IF ~s.peer[p].mConnectionPool THEN {[s EXCEPT !.fault = TRUE]}
    ELSE UNION {IF x.fault THEN {x}
                ELSE IF IsNewNode(x, n) THEN HelloAccepted(x, p, n, guess, late)
                ELSE detach(PeerRedundant(x, p, n), p) :
                    x \in IF s.peer[p].mClientConnect
                          THEN peerVerified(s, p, n) ELSE {s}}

(* recvPeers: savePeer for each address of the message.  first is the      *)
(* first of them without a row; once it is scanned the rest wait for the   *)
(* scan to end (and are not saved if the loop is lost).                    *)
recvPeers(s, told, first) ==
    {[x EXCEPT !.PeerIps = [a \in Addrs |-> IF a \in told /\ @[a] = NULL /\ ~x.fault
                                            THEN NewRow ELSE @[a]]] :
        x \in savePeer(s, first)}

(* policyLowWater: a connection to every available address, one object     *)
(* each, unless there are connections enough.  If the attempt on one fails *)
(* inside Peer::connect the loop is lost, as in ScanLost, and only the     *)
(* addresses K it came to before are connecting.                           *)
Available(s) == Unscheduled(s) \ Busy(s)

ConnectAll(s, K, f) ==
    [s EXCEPT !.peer = [p \in Peers |->
                    IF \E a \in K : f[a] = p
                    THEN ConnectPeer(CHOOSE a \in K : f[a] = p)
                    ELSE @[p]],
              !.mIpMap = [a \in Addrs |-> IF a \in K THEN f[a] ELSE @[a]],
              !.fault = @ \/ K # Available(s)]

policyLowWater(s) ==
    IF Cardinality({n \in Nodes : s.mConnectedMap[n] # NULL}) > LowWater
    THEN {s}
    ELSE UNION {{ConnectAll(s, K, f) :
                    f \in {g \in [K -> Free(s)] :
                              \A a, b \in K : g[a] = g[b] => a = b}} :
                    K \in SUBSET Available(s)}

(* REPLACE INTO PeerIps by the UniqueNodeList. *)
ReplaceRows(s, A) ==
    [s EXCEPT !.PeerIps = [a \in Addrs |-> IF a \in A THEN NewRow ELSE @[a]]]

-----------------------------------------------------------------------------
(* Actions.  Every handler needs a process that is up and has not faulted. *)
Up == running /\ ~fault

Handle(S) ==
    /\ Up
    /\ \E s \in S : Become(s)
    /\ UNCHANGED <<scoreDue, running, now, ops>>

(* A request from outside the pool, or a crash: MaxOps bounds them. *)
Request == ops < MaxOps /\ ops' = ops + 1

Init ==
    /\ peer = [p \in Peers |-> IdlePeer]
    /\ mIpMap = [a \in Addrs |-> NULL]
    /\ mConnectedMap = [n \in Nodes |-> NULL]
    /\ mScanning = NULL
    /\ mScanTimer = NULL
    /\ PeerIps = [a \in Addrs |-> NULL]
    /\ fault = FALSE
    /\ scoreDue = FALSE
    /\ running = FALSE
    /\ now = 1
    /\ ops = 0

(* ConnectionPool::start: enforce the policy, then start scanning. *)
Start ==
    /\ ~running
    /\ running' = TRUE
    /\ \E x \in policyLowWater(pool) :
            \E s \in IF x.fault THEN {x} ELSE scanRefresh(x) : Become(s)
    /\ UNCHANGED <<scoreDue, now, ops>>

(* The process ends at any point; PeerIps is what is left.  One whose loop *)
(* is lost can always be ended.                                            *)
Crash ==
    /\ running
    /\ IF fault THEN UNCHANGED ops ELSE Request
    /\ peer' = [p \in Peers |-> IdlePeer]
    /\ mIpMap' = [a \in Addrs |-> NULL]
    /\ mConnectedMap' = [n \in Nodes |-> NULL]
    /\ mScanning' = NULL
    /\ mScanTimer' = NULL
    /\ fault' = FALSE
    /\ scoreDue' = FALSE
    /\ running' = FALSE
    /\ UNCHANGED <<PeerIps, now>>

Tick ==
    /\ now < MaxTime
    /\ now' = now + 1
    /\ UNCHANGED <<peer, mIpMap, mConnectedMap, mScanning, mScanTimer, PeerIps,
                   fault, scoreDue, running, ops>>

scanHandler ==
    /\ mScanTimer # NULL
    /\ mScanTimer <= now
    /\ Handle(scanRefresh([pool EXCEPT !.mScanTimer = NULL]))

policyHandler == Handle(policyLowWater(pool))

connectTo(a) ==
    /\ Up
    /\ Request
    /\ \E s \in scanRefresh([pool EXCEPT !.PeerIps[a] = NewRow]) : Become(s)
    /\ UNCHANGED <<scoreDue, running, now>>

(* Fault: nodeBootstrap without its call of fetchDirty. *)
nodeBootstrapClean(A) ==
    /\ Up
    /\ Request
    /\ Become(ReplaceRows(pool, A))
    /\ UNCHANGED <<scoreDue, running, now>>

(* UniqueNodeList::nodeBootstrap puts the configured addresses A in the    *)
(* table; it does not call scanRefresh but fetchDirty, which arms the      *)
(* score timer.                                                            *)
nodeBootstrap(A) ==
    /\ Up
    /\ Request
    /\ Become(ReplaceRows(pool, A))
    /\ scoreDue' = TRUE
    /\ UNCHANGED <<running, now>>

(* UniqueNodeList::scoreTimerHandler: scoreCompute replaces the rows of    *)
(* the addresses A that validators refer to, then the pool is refreshed.   *)
scoreTimerHandler(A) ==
    /\ Up
    /\ scoreDue
    /\ scoreDue' = FALSE
    /\ \E s \in scanRefresh(ReplaceRows(pool, A)) : Become(s)
    /\ UNCHANGED <<running, now, ops>>

(* UniqueNodeList::fetchDirty from its other callers: validators or        *)
(* referrals changed.                                                      *)
fetchDirty ==
    /\ Up
    /\ Request
    /\ scoreDue' = TRUE
    /\ UNCHANGED <<peer, mIpMap, mConnectedMap, mScanning, mScanTimer, PeerIps,
                   fault, running, now>>

(* Peer events. *)
connected(p) ==
    /\ p \in Free(pool)
    /\ Cardinality({q \in Peers : Live(pool, q) /\ peer[q].mIpPort = NULL})
            < MaxInbound
    /\ Handle({[pool EXCEPT !.peer[p] = ConnectedPeer]})

handleConnect(p) ==
    /\ peer[p].stage = "connect"
    /\ Handle({[pool EXCEPT !.peer[p].stage = "handshake"]})

handleStart(p) ==
    /\ peer[p].stage = "handshake"
    /\ Handle({[pool EXCEPT !.peer[p].stage = "read"]})

handleVerifyTimer(p) ==
    /\ peer[p].mVerifyTimer # "off"
    /\ Handle(detach(pool, p))

(* A failed connect, handshake, read or write, an oversized or unexpected  *)
(* message, or a hello that does not verify.                               *)
PeerFails(p) ==
    /\ Live(pool, p)
    /\ Handle(detach(pool, p))

RecvHello(p) ==
    /\ peer[p].stage = "read"
    /\ ~peer[p].mHelloed
    /\ \E n \in Nodes, guess \in Addrs, late \in BOOLEAN :
            Handle(recvHello(pool, p, n, guess, late))

RecvPeers(p) ==
    /\ peer[p].mHelloed
    /\ \E told \in SUBSET Addrs : \E first \in told :
        /\ PeerIps[first] = NULL
        /\ Handle(recvPeers(pool, told, first))

PeerEvent(p) ==
    \/ connected(p)
    \/ handleConnect(p)
    \/ handleStart(p)
    \/ handleVerifyTimer(p)
    \/ PeerFails(p)
    \/ RecvHello(p)
    \/ RecvPeers(p)

Next ==
    \/ Start
    \/ Crash
    \/ Tick
    \/ scanHandler
    \/ policyHandler
    \/ \E a \in Addrs : connectTo(a)
    \/ \E A \in (SUBSET Addrs) \ {{}} : nodeBootstrap(A)
    \/ fetchDirty
    \/ \E A \in SUBSET Addrs : scoreTimerHandler(A)
    \/ \E p \in Peers : PeerEvent(p)

Spec == Init /\ [][Next]_vars

(* Timers that are armed fire: the loop runs whatever is ready. *)
Fairness ==
    /\ WF_vars(scanHandler)
    /\ WF_vars(\E A \in SUBSET Addrs : scoreTimerHandler(A))
    /\ \A p \in Peers : WF_vars(handleVerifyTimer(p))

FairSpec == Spec /\ Fairness

-----------------------------------------------------------------------------
(* Properties. *)

(* Types.                                                                  *)
TypeOK ==
    /\ peer \in [Peers -> PeerRec]
    /\ mIpMap \in [Addrs -> Peers \cup {NULL}]
    /\ mConnectedMap \in [Nodes -> Peers \cup {NULL}]
    /\ mScanning \in Peers \cup {NULL}
    /\ mScanTimer \in Nat \cup {NULL}
    /\ PeerIps \in [Addrs -> Row \cup {NULL}]
    /\ fault \in BOOLEAN
    /\ scoreDue \in BOOLEAN
    /\ running \in BOOLEAN
    /\ now \in Nat
    /\ ops \in Nat

(* mIpMap lists exactly the live peers whose address is known, each under  *)
(* its own address (ConnectionPool.h: "Only peers we know the connection   *)
(* ip for are listed"), so the branch of peerClosed marked "UNEXPECTED" is *)
(* never taken and two connections never share an address.                 *)
IpMapExact(s) ==
    \A a \in Addrs, p \in Peers :
        s.mIpMap[a] = p <=> Live(s, p) /\ s.peer[p].mIpPort = a

(* mConnectedMap lists exactly the peers that said hello, each under the   *)
(* key it proved, and never ourselves: recvHello, peerConnected and detach *)
(* keep one connection per node, however two connections to it race.       *)
ConnectedMapExact(s) ==
    /\ \A n \in Nodes, p \in Peers :
        s.mConnectedMap[n] = p <=> s.peer[p].mHelloed /\ s.peer[p].mNodePublic = n
    /\ \A p \in Peers : s.peer[p].mHelloed =>
        Live(s, p) /\ s.peer[p].mNodePublic \in Nodes \ {Self}

(* An outbound attempt that has not been accepted has its address, and a   *)
(* verify deadline that will end it (Peer::connect arms the timer, and     *)
(* only recvHello, which accepts or detaches, cancels it).  An attempt     *)
(* that fails before its timer is armed leaves no such peer behind, but it *)
(* loses the loop (ScanLost), and with it the deadlines of all others.     *)
AttemptsHaveDeadline(s) ==
    \A p \in Peers : s.peer[p].mClientConnect =>
        /\ Live(s, p)
        /\ ~s.peer[p].mHelloed
        /\ s.peer[p].mIpPort # NULL
        /\ s.peer[p].mVerifyTimer = "armed"

(* mScanning is an outbound attempt still under way: peerVerified and      *)
(* peerClosed clear it before the attempt ends, or scanRefresh would wait  *)
(* for a peer that is gone.                                                *)
ScanUnderWay(s) ==
    s.mScanning # NULL => s.peer[s.mScanning].mClientConnect

(* Every address in mIpMap has a row in PeerIps, so peerScanSet finds it. *)
BusyHasRow(s) == \A a \in Busy(s) : HasRow(s, a)

(* While the process is up an address of PeerIps is scheduled for scanning *)
(* or connected (or connecting): none is ever forgotten, not by a scan     *)
(* that found a node already connected, nor by a restart.                  *)
NoneForgotten(s) == \A a \in Addrs : a \in Unscheduled(s) => s.mIpMap[a] # NULL

(* With no scan in progress the scan timer is armed no later than the      *)
(* first scheduled row, unless the score timer, whose handler calls        *)
(* scanRefresh, is armed: every path that schedules a row refreshes.       *)
TimerCovers(s) ==
    s.mScanning = NULL => \A a \in Scheduled(s) :
        s.mScanTimer # NULL /\ s.mScanTimer <= s.PeerIps[a].ScanNext

(* Between handlers mIpMap is exact (peerConnect, peerClosed).              *)
IpMapConsistent == IpMapExact(pool)

(* Between handlers mConnectedMap is exact (peerConnected, peerClosed).     *)
ConnectedMapConsistent == ConnectedMapExact(pool)

(* Every outbound attempt will end, if the loop is not lost                *)
(* (Peer::connect, handleVerifyTimer).                                     *)
AttemptsEnd == AttemptsHaveDeadline(pool)

(* The scan in progress is one (scanRefresh, peerVerified, peerClosed).     *)
ScanConsistent == ScanUnderWay(pool)

(* No address is forgotten (peerScanSet, peerClosed, start).                *)
AddressesTracked == BusyHasRow(pool) /\ (Up => NoneForgotten(pool))

(* No wakeup is lost (scanRefresh, scoreTimerHandler).                      *)
ScanTimerCovers == Up /\ ~scoreDue => TimerCovers(pool)

(* A connection that was accepted is never displaced by a later one to the *)
(* same node: peerConnected rejects the newcomer.                          *)
FirstConnectionStays ==
    [][\A n \in Nodes : mConnectedMap[n] # NULL =>
            mConnectedMap'[n] \in {mConnectedMap[n], NULL}]_vars

(* A scan ends, whatever the remote side does: the verify timer sees to    *)
(* it, and then scanRefresh may start the next one.  The one exception is  *)
(* a loop that is lost meanwhile, in an attempt of policyLowWater that     *)
(* fails under mPeerLock.                                                  *)
ScanEnds == \A p \in Peers : mScanning = p ~> (mScanning # p \/ fault)

(* An address that is due is eventually tried, or found connected, unless  *)
(* the process ends first or its loop is lost (Up).                        *)
DueIsTried ==
    \A a \in Addrs : (Up /\ a \in Due(pool)) ~> (~Up \/ a \notin Due(pool))

-----------------------------------------------------------------------------
(* What comments say of the code. *)

(* Peer.cpp, detach: "Connection might be part of scanning.  Inform        *)
(* connect failed."  The pool can be informed only if the peer has one: a  *)
(* peer without must not be what the loop stopped at.                      *)
PoolInformed ==
    fault => \A p \in Peers : Live(pool, p) => peer[p].mConnectionPool
=============================================================================
