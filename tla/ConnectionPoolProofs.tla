------------------------- MODULE ConnectionPoolProofs -------------------------
(***************************************************************************)
(* The safety properties of ConnectionPool hold for every set of           *)
(* addresses, nodes and peer objects and every value of the parameters.    *)
(*                                                                         *)
(* Inside a handler the maps are briefly out of step: detach takes a peer  *)
(* out of both maps, and may start another scan, before the object itself  *)
(* is let go.  The invariant is therefore stated relative to a set X of    *)
(* departing peers, live objects that nothing refers to any more; between  *)
(* handlers X is empty.                                                    *)
(***************************************************************************)
EXTENDS ConnectionPool, FiniteSetTheorems, WellFoundedInduction, TLAPS

PoolType == [peer : [Peers -> PeerRec],
             mIpMap : [Addrs -> Peers \cup {NULL}],
             mConnectedMap : [Nodes -> Peers \cup {NULL}],
             mScanning : Peers \cup {NULL},
             mScanTimer : Nat \cup {NULL},
             PeerIps : [Addrs -> Row \cup {NULL}],
             fault : BOOLEAN]

IpMapInv(s, X) ==
    /\ \A a \in Addrs : s.mIpMap[a] # NULL =>
        /\ Live(s, s.mIpMap[a])
        /\ s.peer[s.mIpMap[a]].mIpPort = a
        /\ s.mIpMap[a] \notin X
        /\ s.PeerIps[a] # NULL
    /\ \A p \in Peers \ X : Live(s, p) /\ s.peer[p].mIpPort # NULL =>
        s.mIpMap[s.peer[p].mIpPort] = p

ConnectedMapInv(s, X) ==
    /\ \A n \in Nodes : s.mConnectedMap[n] # NULL =>
        /\ s.peer[s.mConnectedMap[n]].mHelloed
        /\ s.peer[s.mConnectedMap[n]].mNodePublic = n
        /\ s.mConnectedMap[n] \notin X
        /\ n # Self
    /\ \A p \in Peers \ X : s.peer[p].mHelloed =>
        /\ s.peer[p].mNodePublic \in Nodes
        /\ s.mConnectedMap[s.peer[p].mNodePublic] = p

PeersInv(s, X) ==
    /\ AttemptsHaveDeadline(s)
    /\ \A p \in Peers : s.peer[p].mHelloed => Live(s, p)
    /\ \A p \in Peers : s.peer[p].mVerifyTimer # "off" => Live(s, p)
    /\ \A p \in Peers : s.peer[p].mNodePublic # NULL => s.peer[p].mHelloed
    /\ \A p \in X : Live(s, p)
    /\ s.mScanning # NULL => s.peer[s.mScanning].mClientConnect /\ s.mScanning \notin X

PoolInv(s, X) ==
    /\ s \in PoolType
    /\ IpMapInv(s, X)
    /\ ConnectedMapInv(s, X)
    /\ PeersInv(s, X)

(* What holds of the scan timer, if the loop is not lost. *)
Covered(s) == s.fault \/ TimerCovers(s)

-----------------------------------------------------------------------------
(* Postponing a row keeps it a row and puts it in the future. *)
LEMMA PostponeRow ==
    ASSUME NEW row \in Row, now \in Nat
    PROVE  /\ Postpone(row) \in Row
           /\ Postpone(row).ScanNext \in Nat
           /\ Postpone(row).ScanNext > now
BY ConstantsAssumption DEF Postpone, Row

(* Postponing rows of the table changes nothing else, and no row appears   *)
(* or disappears.                                                          *)
LEMMA PostponeAllFacts ==
    ASSUME NEW s \in PoolType, NEW B, B \subseteq Scheduled(s), now \in Nat
    PROVE  LET t == PostponeAll(s, B)
           IN /\ t \in PoolType
              /\ t.peer = s.peer
              /\ t.mIpMap = s.mIpMap
              /\ t.mConnectedMap = s.mConnectedMap
              /\ t.mScanning = s.mScanning
              /\ t.fault = s.fault
              /\ \A a \in Addrs : HasRow(t, a) <=> HasRow(s, a)
              /\ \A a \in B : t.PeerIps[a] = Postpone(s.PeerIps[a])
              /\ \A a \in Addrs \ B : t.PeerIps[a] = s.PeerIps[a]
<1>1. \A a \in B : a \in Addrs /\ s.PeerIps[a] \in Row
    BY DEF Scheduled, HasRow, PoolType
<1>2. \A a \in B : Postpone(s.PeerIps[a]) \in Row /\ Postpone(s.PeerIps[a]) # NULL
    BY <1>1, PostponeRow, NullIsNoRow DEF Row
<1>3. [a \in Addrs |-> IF a \in B THEN Postpone(s.PeerIps[a]) ELSE s.PeerIps[a]]
        \in [Addrs -> Row \cup {NULL}]
    BY <1>2 DEF PoolType
<1> QED
    BY <1>1, <1>2, <1>3 DEF PostponeAll, PoolType, HasRow, Scheduled

(* A non-empty set of naturals has a least element. *)
LEMMA LeastNatural ==
    ASSUME NEW T, T \subseteq Nat, T # {}
    PROVE  \E t \in T : \A u \in T : t <= u
<1> DEFINE R == {ss \in Nat \X Nat : ss[1] < ss[2]}
<1>1. IsWellFoundedOn(R, Nat)
    BY NatLessThanWellFounded, Zenon DEF OpToRel
<1>2. \A t, u \in Nat : u < t => <<u, t>> \in R
    OBVIOUS
<1>3. PICK t \in T : \A u \in T : ~(<<u, t>> \in R)
    BY <1>1, WFMin
<1> HIDE DEF R
<1>4. \A u \in T : ~(u < t)
    BY <1>2, <1>3
<1>5. \A u \in T : t <= u
    BY <1>4
<1> QED BY <1>5

(* The earliest scheduled time exists, and no scheduled row is earlier. *)
LEMMA EarliestScanFacts ==
    ASSUME NEW s \in PoolType
    PROVE  /\ EarliestScan(s) \in Nat \cup {NULL}
           /\ \A a \in Scheduled(s) : /\ EarliestScan(s) \in Nat
                                      /\ EarliestScan(s) <= s.PeerIps[a].ScanNext
<1> DEFINE T == {s.PeerIps[a].ScanNext : a \in Scheduled(s)}
<1>1. CASE Scheduled(s) = {}
    BY <1>1 DEF EarliestScan
<1>2. CASE Scheduled(s) # {}
    <2>1. \A a \in Scheduled(s) : s.PeerIps[a].ScanNext \in Nat
        BY DEF Scheduled, HasRow, PoolType, Row
    <2>2. T \subseteq Nat /\ T # {}
        BY <1>2, <2>1
    <2>3. \E t \in T : \A u \in T : t <= u
        BY <2>2, LeastNatural
    <2>4. \E t \in T : \A a \in Scheduled(s) : t <= s.PeerIps[a].ScanNext
        BY <2>3
    <2>5. /\ EarliestScan(s) \in T
          /\ \A a \in Scheduled(s) : EarliestScan(s) <= s.PeerIps[a].ScanNext
        BY <1>2, <2>4 DEF EarliestScan
    <2> QED BY <2>2, <2>5
<1> QED BY <1>1, <1>2

(* A loop that is lost in Peer::connect has postponed rows, no more. *)
LEMMA ScanLostFacts ==
    ASSUME NEW s \in PoolType, now \in Nat, NEW a \in ScanTargets(s),
           NEW B \in PassedOver(s, a), NEW t, t = ScanLost(s, a, B)
    PROVE  /\ t \in PoolType
           /\ t.peer = s.peer /\ t.mIpMap = s.mIpMap
           /\ t.mConnectedMap = s.mConnectedMap /\ t.mScanning = s.mScanning
           /\ t.fault
           /\ \A b \in Addrs : HasRow(t, b) <=> HasRow(s, b)
           /\ Unscheduled(t) \subseteq Unscheduled(s)
<1> DEFINE C == B \cup {a}
           u == PostponeAll(s, C)
<1>1. t = [u EXCEPT !.mScanTimer = NULL, !.fault = TRUE]
    BY DEF ScanLost
<1>2. C \subseteq Scheduled(s)
    BY DEF ScanTargets, PassedOver, Due
<1>3. /\ u \in PoolType
      /\ u.peer = s.peer /\ u.mIpMap = s.mIpMap
      /\ u.mConnectedMap = s.mConnectedMap /\ u.mScanning = s.mScanning
      /\ \A b \in Addrs : HasRow(u, b) <=> HasRow(s, b)
      /\ \A b \in C : u.PeerIps[b] = Postpone(s.PeerIps[b])
      /\ \A b \in Addrs \ C : u.PeerIps[b] = s.PeerIps[b]
    BY <1>2, PostponeAllFacts
<1>4. \A b \in C : Postpone(s.PeerIps[b]).ScanNext # NULL
    BY <1>2, PostponeRow, ConstantsAssumption DEF Scheduled, HasRow, PoolType
<1> HIDE DEF u, C
<1>5. /\ t \in PoolType
      /\ t.peer = u.peer /\ t.mIpMap = u.mIpMap
      /\ t.mConnectedMap = u.mConnectedMap /\ t.mScanning = u.mScanning
      /\ t.PeerIps = u.PeerIps
      /\ t.fault
    BY <1>1, <1>3 DEF PoolType
<1> QED BY <1>3, <1>4, <1>5 DEF HasRow, Unscheduled

-----------------------------------------------------------------------------
(* The invariant does not mention the timer, and of a row only that it is  *)
(* there: a change to the table that keeps the rows of busy addresses      *)
(* keeps the invariant.                                                    *)
LEMMA RowsChangeInv ==
    ASSUME NEW s, NEW X, PoolInv(s, X),
           NEW t \in PoolType,
           t.peer = s.peer, t.mIpMap = s.mIpMap,
           t.mConnectedMap = s.mConnectedMap,
           t.mScanning \in {s.mScanning, NULL},
           \A a \in Addrs : HasRow(s, a) => HasRow(t, a)
    PROVE  PoolInv(t, X)
BY DEF PoolInv, IpMapInv, ConnectedMapInv, PeersInv, AttemptsHaveDeadline,
       Live, HasRow

(* peerConnect with a fresh object for an address that has a row and is    *)
(* not in mIpMap.                                                          *)
LEMMA PeerConnectInv ==
    ASSUME NEW s, NEW X, PoolInv(s, X),
           NEW a \in Addrs, s.mIpMap[a] = NULL, HasRow(s, a),
           NEW p \in Free(s)
    PROVE  LET t == PeerConnect(s, a, p)
           IN /\ PoolInv(t, X)
              /\ p \notin X
              /\ t.peer[p].mClientConnect
              /\ t.mScanning = s.mScanning
              /\ t.mScanTimer = s.mScanTimer
              /\ t.PeerIps = s.PeerIps
<1> DEFINE t == PeerConnect(s, a, p)
<1>1. /\ p \in Peers
      /\ p \notin X
      /\ ~Live(s, p)
      /\ s.mScanning # p
      /\ \A b \in Addrs : s.mIpMap[b] # p
      /\ \A n \in Nodes : s.mConnectedMap[n] # p
    BY DEF Free, PoolInv, PeersInv
<1>2. s \in PoolType /\ p # NULL
    BY <1>1, ConstantsAssumption DEF PoolInv
<1>3. ConnectPeer(a) \in PeerRec
    BY ConstantsAssumption DEF ConnectPeer, PeerRec, Stages
<1>4. /\ t \in PoolType
      /\ t.peer = [s.peer EXCEPT ![p] = ConnectPeer(a)]
      /\ t.mIpMap = [s.mIpMap EXCEPT ![a] = p]
      /\ t.mConnectedMap = s.mConnectedMap
      /\ t.mScanning = s.mScanning
      /\ t.mScanTimer = s.mScanTimer
      /\ t.PeerIps = s.PeerIps
    BY <1>1, <1>2, <1>3 DEF PeerConnect, PoolType
<1>5. /\ t.peer[p] = ConnectPeer(a)
      /\ \A q \in Peers \ {p} : t.peer[q] = s.peer[q]
      /\ t.mIpMap[a] = p
      /\ \A b \in Addrs \ {a} : t.mIpMap[b] = s.mIpMap[b]
    BY <1>1, <1>2, <1>4 DEF PoolType
<1>6. /\ ConnectPeer(a).stage = "connect"
      /\ ConnectPeer(a).mClientConnect
      /\ ~ConnectPeer(a).mHelloed
      /\ ConnectPeer(a).mNodePublic = NULL
      /\ ConnectPeer(a).mIpPort = a
      /\ ConnectPeer(a).mVerifyTimer = "armed"
    BY DEF ConnectPeer
<1> HIDE DEF t
<1>7. IpMapInv(t, X)
    BY <1>1, <1>2, <1>4, <1>5, <1>6, ConstantsAssumption
       DEF PoolInv, IpMapInv, Live, HasRow, PoolType
<1>8. ConnectedMapInv(t, X)
    BY <1>1, <1>2, <1>4, <1>5, <1>6, ConstantsAssumption
       DEF PoolInv, ConnectedMapInv, PoolType
<1>9. PeersInv(t, X)
    BY <1>1, <1>2, <1>4, <1>5, <1>6, ConstantsAssumption
       DEF PoolInv, PeersInv, AttemptsHaveDeadline, Live, PoolType
<1> QED
    BY <1>1, <1>4, <1>5, <1>6, <1>7, <1>8, <1>9 DEF PoolInv, t

(* scanRefresh preserves the invariant, whatever peers are departing. *)
LEMMA ScanRefreshInv ==
    ASSUME NEW s, NEW X, PoolInv(s, X), now \in Nat, NEW t \in scanRefresh(s)
    PROVE  PoolInv(t, X)
<1>0. s \in PoolType
    BY DEF PoolInv
<1>1. CASE s.mScanning # NULL
    BY <1>1 DEF scanRefresh
<1>2. CASE s.mScanning = NULL /\ Due(s) \ Busy(s) = {}
    <2> DEFINE u == PostponeAll(s, Due(s))
    <2>1. t = [u EXCEPT !.mScanTimer = EarliestScan(u)]
        BY <1>2 DEF scanRefresh, ScanLater
    <2>2. /\ u \in PoolType
          /\ u.peer = s.peer /\ u.mIpMap = s.mIpMap
          /\ u.mConnectedMap = s.mConnectedMap /\ u.mScanning = s.mScanning
          /\ \A a \in Addrs : HasRow(u, a) <=> HasRow(s, a)
        BY <1>0, PostponeAllFacts DEF Due
    <2> HIDE DEF u
    <2>3. EarliestScan(u) \in Nat \cup {NULL}
        BY <2>2, EarliestScanFacts
    <2>4. /\ t \in PoolType
          /\ t.peer = u.peer /\ t.mIpMap = u.mIpMap
          /\ t.mConnectedMap = u.mConnectedMap /\ t.mScanning = u.mScanning
          /\ t.PeerIps = u.PeerIps
        BY <2>1, <2>2, <2>3 DEF PoolType
    <2> QED BY <2>2, <2>4, RowsChangeInv DEF HasRow
<1>3. CASE \E a \in ScanTargets(s) : \E B \in PassedOver(s, a), p \in Free(s) :
                t = ScanNow(s, a, B, p)
    <2>0. PICK a \in ScanTargets(s) :
            \E B \in PassedOver(s, a), p \in Free(s) : t = ScanNow(s, a, B, p)
        BY <1>3
    <2>1. PICK B \in PassedOver(s, a), p \in Free(s) : t = ScanNow(s, a, B, p)
        BY <2>0
    <2> DEFINE u == PostponeAll(s, B \cup {a})
               v == PeerConnect(u, a, p)
    <2>2. t = [v EXCEPT !.mScanning = p, !.mScanTimer = NULL]
        BY <2>1 DEF ScanNow
    <2>3. /\ a \in Addrs /\ s.mIpMap[a] = NULL /\ HasRow(s, a)
          /\ B \cup {a} \subseteq Scheduled(s)
        BY DEF ScanTargets, PassedOver, Due, Scheduled, Busy
    <2>4. /\ u \in PoolType
          /\ u.peer = s.peer /\ u.mIpMap = s.mIpMap
          /\ u.mConnectedMap = s.mConnectedMap /\ u.mScanning = s.mScanning
          /\ \A b \in Addrs : HasRow(u, b) <=> HasRow(s, b)
        BY <1>0, <2>3, PostponeAllFacts
    <2> HIDE DEF u
    <2>5. PoolInv(u, X)
        BY <2>4, RowsChangeInv
    <2>6. p \in Free(u)
        BY <2>4 DEF Free, Live
    <2>7. /\ PoolInv(v, X)
          /\ p \notin X
          /\ v.peer[p].mClientConnect
        BY <2>3, <2>4, <2>5, <2>6, PeerConnectInv
    <2>8. p \in Peers
        BY DEF Free
    <2> HIDE DEF v
    <2>9. /\ t \in PoolType
          /\ t.peer = v.peer /\ t.mIpMap = v.mIpMap
          /\ t.mConnectedMap = v.mConnectedMap /\ t.PeerIps = v.PeerIps
          /\ t.mScanning = p
        BY <2>2, <2>7, <2>8 DEF PoolInv, PoolType
    <2> QED
        BY <2>7, <2>8, <2>9 DEF PoolInv, IpMapInv, ConnectedMapInv, PeersInv,
           AttemptsHaveDeadline, Live
<1>4. CASE \E a \in ScanTargets(s) : \E B \in PassedOver(s, a) : t = ScanLost(s, a, B)
    BY <1>4, ScanLostFacts, RowsChangeInv, <1>0
<1>5. CASE s.mScanning = NULL /\ Due(s) \ Busy(s) # {}
    BY <1>3, <1>4, <1>5 DEF scanRefresh
<1> QED BY <1>1, <1>2, <1>5

(* What scanRefresh leaves alone: live peers, entries of the maps, which   *)
(* rows there are; no row loses its schedule; and afterwards a scan is in  *)
(* progress or the timer covers every scheduled row.                       *)
LEMMA ScanRefreshFrame ==
    ASSUME NEW s \in PoolType, now \in Nat, NEW t \in scanRefresh(s)
    PROVE  /\ t.mConnectedMap = s.mConnectedMap
           /\ s.fault => t.fault
           /\ \A p \in Peers : Live(s, p) => t.peer[p] = s.peer[p]
           /\ \A a \in Addrs : s.mIpMap[a] # NULL => t.mIpMap[a] = s.mIpMap[a]
           /\ \A a \in Addrs : HasRow(t, a) <=> HasRow(s, a)
           /\ Unscheduled(t) \subseteq Unscheduled(s)
           /\ Covered(t)
<1>1. CASE s.mScanning # NULL
    BY <1>1 DEF scanRefresh, TimerCovers, Covered
<1>2. CASE s.mScanning = NULL /\ Due(s) \ Busy(s) = {}
    <2> DEFINE u == PostponeAll(s, Due(s))
    <2>1. t = [u EXCEPT !.mScanTimer = EarliestScan(u)]
        BY <1>2 DEF scanRefresh, ScanLater
    <2>2. /\ u \in PoolType
          /\ u.peer = s.peer /\ u.mIpMap = s.mIpMap /\ u.fault = s.fault
          /\ u.mConnectedMap = s.mConnectedMap /\ u.mScanning = s.mScanning
          /\ \A a \in Addrs : HasRow(u, a) <=> HasRow(s, a)
          /\ \A a \in Due(s) : u.PeerIps[a] = Postpone(s.PeerIps[a])
          /\ \A a \in Addrs \ Due(s) : u.PeerIps[a] = s.PeerIps[a]
        BY PostponeAllFacts DEF Due
    <2>3. \A a \in Due(s) : Postpone(s.PeerIps[a]).ScanNext # NULL
        BY PostponeRow, ConstantsAssumption DEF Due, Scheduled, HasRow, PoolType
    <2> HIDE DEF u
    <2>4. \A a \in Scheduled(u) : /\ EarliestScan(u) \in Nat
                                  /\ EarliestScan(u) <= u.PeerIps[a].ScanNext
        BY <2>2, EarliestScanFacts
    <2>5. /\ t.peer = u.peer /\ t.mIpMap = u.mIpMap /\ t.fault = u.fault
          /\ t.mConnectedMap = u.mConnectedMap
          /\ t.PeerIps = u.PeerIps
          /\ t.mScanTimer = EarliestScan(u)
        BY <2>1, <2>2 DEF PoolType
    <2>6. Covered(t)
        BY <2>4, <2>5, ConstantsAssumption DEF Covered, TimerCovers, Scheduled, HasRow
    <2> QED BY <2>2, <2>3, <2>5, <2>6 DEF HasRow, Unscheduled
<1>3. CASE \E a \in ScanTargets(s) : \E B \in PassedOver(s, a), p \in Free(s) :
                t = ScanNow(s, a, B, p)
    <2>0. PICK a \in ScanTargets(s) :
            \E B \in PassedOver(s, a), p \in Free(s) : t = ScanNow(s, a, B, p)
        BY <1>3
    <2>1. PICK B \in PassedOver(s, a), p \in Free(s) : t = ScanNow(s, a, B, p)
        BY <2>0
    <2> DEFINE C == B \cup {a}
               u == PostponeAll(s, C)
    <2>2. t = [[u EXCEPT !.peer[p] = ConnectPeer(a), !.mIpMap[a] = p]
                  EXCEPT !.mScanning = p, !.mScanTimer = NULL]
        BY <2>1 DEF ScanNow, PeerConnect
    <2>3. /\ a \in Addrs /\ s.mIpMap[a] = NULL
          /\ C \subseteq Scheduled(s)
          /\ p \in Peers /\ ~Live(s, p)
        BY DEF ScanTargets, PassedOver, Due, Scheduled, Busy, Free
    <2>4. /\ u \in PoolType
          /\ u.peer = s.peer /\ u.mIpMap = s.mIpMap /\ u.fault = s.fault
          /\ u.mConnectedMap = s.mConnectedMap
          /\ \A b \in Addrs : HasRow(u, b) <=> HasRow(s, b)
          /\ \A b \in C : u.PeerIps[b] = Postpone(s.PeerIps[b])
          /\ \A b \in Addrs \ C : u.PeerIps[b] = s.PeerIps[b]
        BY <2>3, PostponeAllFacts
    <2>5. \A b \in C : Postpone(s.PeerIps[b]).ScanNext # NULL
        BY <2>3, PostponeRow, ConstantsAssumption DEF Scheduled, HasRow, PoolType
    <2> HIDE DEF u, C
    <2>6. /\ t.peer = [u.peer EXCEPT ![p] = ConnectPeer(a)]
          /\ t.mIpMap = [u.mIpMap EXCEPT ![a] = p]
          /\ t.fault = u.fault
          /\ t.mConnectedMap = u.mConnectedMap
          /\ t.PeerIps = u.PeerIps
          /\ t.mScanning = p
        BY <2>2, <2>4 DEF PoolType
    <2>7. /\ \A q \in Peers : Live(s, q) => t.peer[q] = s.peer[q]
          /\ \A b \in Addrs : s.mIpMap[b] # NULL => t.mIpMap[b] = s.mIpMap[b]
        BY <2>3, <2>4, <2>6 DEF PoolType
    <2>8. Covered(t)
        BY <2>3, <2>6, ConstantsAssumption DEF Covered, TimerCovers
    <2> QED BY <2>3, <2>4, <2>5, <2>6, <2>7, <2>8 DEF HasRow, Unscheduled
<1>4. CASE \E a \in ScanTargets(s) : \E B \in PassedOver(s, a) : t = ScanLost(s, a, B)
    BY <1>4, ScanLostFacts DEF Covered
<1>5. CASE s.mScanning = NULL /\ Due(s) \ Busy(s) # {}
    BY <1>3, <1>4, <1>5 DEF scanRefresh
<1> QED BY <1>1, <1>2, <1>5

(* A scan that scanRefresh starts uses a fresh object. *)
LEMMA ScanRefreshStarts ==
    ASSUME NEW s \in PoolType, now \in Nat, s.mScanning = NULL,
           NEW t \in scanRefresh(s), t.mScanning # NULL
    PROVE  \E p \in Free(s) : t.mScanning = p
<1>1. CASE Due(s) \ Busy(s) = {}
    <2>1. t = [PostponeAll(s, Due(s)) EXCEPT
                    !.mScanTimer = EarliestScan(PostponeAll(s, Due(s)))]
        BY <1>1 DEF scanRefresh, ScanLater
    <2>2. /\ PostponeAll(s, Due(s)) \in PoolType
          /\ PostponeAll(s, Due(s)).mScanning = NULL
        BY PostponeAllFacts DEF Due
    <2> QED BY <2>1, <2>2 DEF PoolType
<1>2. CASE Due(s) \ Busy(s) # {}
    <2>0. ~\E a \in ScanTargets(s) : \E B \in PassedOver(s, a) : t = ScanLost(s, a, B)
        BY ScanLostFacts
    <2>1. PICK a \in ScanTargets(s) :
            \E B \in PassedOver(s, a), p \in Free(s) : t = ScanNow(s, a, B, p)
        BY <1>2, <2>0 DEF scanRefresh
    <2>2. PICK B \in PassedOver(s, a), p \in Free(s) : t = ScanNow(s, a, B, p)
        BY <2>1
    <2>3. B \cup {a} \subseteq Scheduled(s)
        BY DEF ScanTargets, PassedOver, Due
    <2>4. PostponeAll(s, B \cup {a}) \in PoolType
        BY <2>3, PostponeAllFacts
    <2>5. t.mScanning = p
        BY <2>2, <2>4 DEF ScanNow, PeerConnect, PoolType
    <2> QED BY <2>5
<1> QED BY <1>1, <1>2

(* The two properties of the table and the timer look at these parts only. *)
LEMMA SameRows ==
    ASSUME NEW s, NEW t,
           t.PeerIps = s.PeerIps, t.mScanning = s.mScanning,
           t.mScanTimer = s.mScanTimer, s.fault => t.fault
    PROVE  /\ Covered(s) => Covered(t)
           /\ t.mIpMap = s.mIpMap => (NoneForgotten(s) => NoneForgotten(t))
BY DEF Covered, TimerCovers, NoneForgotten, Scheduled, Unscheduled, HasRow

-----------------------------------------------------------------------------
(* peerDisconnected followed by peerClosed, up to the point where the      *)
(* latter calls scanRefresh: p is departing.                               *)
LEMMA DepartInv ==
    ASSUME NEW p \in Peers, NEW X, X \subseteq {p},
           NEW s, PoolInv(s, X), Live(s, p),
           NEW t \in PoolType,
           t.peer = s.peer,
           \A n \in Nodes : t.mConnectedMap[n] =
                IF n = s.peer[p].mNodePublic /\ s.mConnectedMap[n] = p
                THEN NULL ELSE s.mConnectedMap[n],
           \A a \in Addrs : t.mIpMap[a] =
                IF a = s.peer[p].mIpPort /\ s.mIpMap[a] = p
                THEN NULL ELSE s.mIpMap[a],
           t.mScanning = IF s.mScanning = p THEN NULL ELSE s.mScanning,
           \A a \in Addrs : HasRow(s, a) => HasRow(t, a)
    PROVE  PoolInv(t, {p})
<1>1. s \in PoolType /\ p # NULL
    BY ConstantsAssumption DEF PoolInv
<1>2. IpMapInv(t, {p})
    <2>1. \A a \in Addrs : t.mIpMap[a] # NULL =>
            /\ t.mIpMap[a] = s.mIpMap[a] /\ s.mIpMap[a] # p
            /\ Live(s, s.mIpMap[a]) /\ s.peer[s.mIpMap[a]].mIpPort = a
            /\ HasRow(t, a)
        BY <1>1 DEF PoolInv, IpMapInv, HasRow
    <2>2. \A q \in Peers \ {p} : Live(s, q) /\ s.peer[q].mIpPort # NULL =>
            /\ s.peer[q].mIpPort \in Addrs
            /\ s.mIpMap[s.peer[q].mIpPort] = q
        BY <1>1 DEF PoolInv, IpMapInv, PoolType, PeerRec
    <2>3. \A q \in Peers \ {p} : Live(s, q) /\ s.peer[q].mIpPort # NULL =>
            t.mIpMap[s.peer[q].mIpPort] = q
        BY <2>2
    <2> QED BY <2>1, <2>3 DEF IpMapInv, Live, HasRow
<1>3. ConnectedMapInv(t, {p})
    BY <1>1 DEF PoolInv, ConnectedMapInv, PoolType
<1>4. PeersInv(t, {p})
    BY <1>1 DEF PoolInv, PeersInv, AttemptsHaveDeadline, Live, PoolType
<1> QED BY <1>2, <1>3, <1>4 DEF PoolInv

(* Letting go of a departing peer. *)
LEMMA ReleaseInv ==
    ASSUME NEW p \in Peers, NEW s, PoolInv(s, {p})
    PROVE  LET t == [s EXCEPT !.peer[p] = IdlePeer]
           IN /\ PoolInv(t, {})
              /\ t.PeerIps = s.PeerIps
              /\ t.mScanning = s.mScanning
              /\ t.mScanTimer = s.mScanTimer
              /\ t.mIpMap = s.mIpMap
              /\ t.fault = s.fault
<1> DEFINE t == [s EXCEPT !.peer[p] = IdlePeer]
<1>1. s \in PoolType /\ p # NULL /\ IdlePeer \in PeerRec
    BY ConstantsAssumption DEF PoolInv, IdlePeer, PeerRec, Stages
<1>2. /\ t \in PoolType
      /\ t.peer[p] = IdlePeer
      /\ \A q \in Peers \ {p} : t.peer[q] = s.peer[q]
      /\ t.mIpMap = s.mIpMap /\ t.mConnectedMap = s.mConnectedMap
      /\ t.mScanning = s.mScanning /\ t.mScanTimer = s.mScanTimer
      /\ t.PeerIps = s.PeerIps /\ t.fault = s.fault
    BY <1>1 DEF PoolType
<1>3. /\ IdlePeer.stage = "idle"
      /\ ~IdlePeer.mClientConnect
      /\ ~IdlePeer.mHelloed
      /\ IdlePeer.mNodePublic = NULL
      /\ IdlePeer.mVerifyTimer = "off"
    BY DEF IdlePeer
<1> HIDE DEF t
<1>4. IpMapInv(t, {})
    BY <1>1, <1>2, <1>3 DEF PoolInv, IpMapInv, Live, PoolType
<1>5. ConnectedMapInv(t, {})
    BY <1>1, <1>2, <1>3 DEF PoolInv, ConnectedMapInv, PoolType
<1>6. PeersInv(t, {})
    BY <1>1, <1>2, <1>3 DEF PoolInv, PeersInv, AttemptsHaveDeadline, Live, PoolType
<1> QED BY <1>2, <1>4, <1>5, <1>6 DEF PoolInv, t

(* Peer::detach, from any point where p is live and nothing else is        *)
(* departing.                                                              *)
LEMMA DetachInv ==
    ASSUME NEW p \in Peers, NEW X, X \subseteq {p},
           NEW s, PoolInv(s, X), Live(s, p), now \in Nat,
           X = {} \/ s.peer[p].mConnectionPool,
           NEW t \in detach(s, p)
    PROVE  /\ PoolInv(t, {})
           /\ NoneForgotten(s) => NoneForgotten(t)
           /\ Covered(s) => Covered(t)
<1> DEFINE n == s.peer[p].mNodePublic
           a == s.peer[p].mIpPort
           s1 == IF n # NULL THEN peerDisconnected(s, p, n) ELSE s
           identified == s1.mIpMap[a] = p
           bScanSet == identified /\ a \in Unscheduled(s1)
           closed == [s1 EXCEPT !.mScanning = IF @ = p THEN NULL ELSE @,
                                !.mIpMap[a] = IF identified THEN NULL ELSE @]
           after == IF bScanSet THEN peerScanSet(closed, a) ELSE closed
           s2 == IF a # NULL THEN peerClosed(s1, p, a) ELSE {s1}
<1>0. /\ s \in PoolType /\ p # NULL
      /\ n \in Nodes \cup {NULL} /\ a \in Addrs \cup {NULL}
    BY ConstantsAssumption DEF PoolInv, PoolType, PeerRec
<1>1. CASE (n # NULL \/ a # NULL) /\ ~s.peer[p].mConnectionPool
    <2>1. t = [s EXCEPT !.fault = TRUE]
        BY <1>1 DEF detach
    <2>2. /\ t \in PoolType /\ t.peer = s.peer /\ t.mIpMap = s.mIpMap
          /\ t.mConnectedMap = s.mConnectedMap /\ t.mScanning = s.mScanning
          /\ t.PeerIps = s.PeerIps /\ t.mScanTimer = s.mScanTimer
          /\ t.fault
        BY <1>0, <2>1 DEF PoolType
    <2>3. PoolInv(t, {})
        BY <1>1, <2>2, RowsChangeInv DEF HasRow
    <2> QED BY <2>2, <2>3, SameRows
<1>2. CASE ~((n # NULL \/ a # NULL) /\ ~s.peer[p].mConnectionPool)
    <2>1. PICK x \in s2 : t = [x EXCEPT !.peer[p] = IdlePeer]
        BY <1>2 DEF detach
    <2>2. /\ s1 \in PoolType /\ s1.peer = s.peer /\ s1.mIpMap = s.mIpMap
          /\ s1.mScanning = s.mScanning /\ s1.mScanTimer = s.mScanTimer
          /\ s1.PeerIps = s.PeerIps /\ s1.fault = s.fault
          /\ \A m \in Nodes : s1.mConnectedMap[m] =
                IF m = n /\ s.mConnectedMap[m] = p THEN NULL
                ELSE s.mConnectedMap[m]
        <3>1. CASE n = NULL
            BY SMTT(40), <1>0, <3>1, ConstantsAssumption DEF PoolType
        <3>2. CASE n # NULL
            <4>1. s1 = [s EXCEPT !.mConnectedMap[n] = IF @ = p THEN NULL ELSE @]
                BY <3>2 DEF peerDisconnected
            <4> HIDE DEF s1
            <4> QED BY <1>0, <3>2, <4>1 DEF PoolType
        <3> QED BY <3>1, <3>2
    <2>3. SUFFICES /\ PoolInv(x, {p})
                   /\ NoneForgotten(s) => NoneForgotten(x)
                   /\ Covered(s) => Covered(x)
        <3>1. /\ PoolInv(t, {})
              /\ t.PeerIps = x.PeerIps /\ t.mScanning = x.mScanning
              /\ t.mScanTimer = x.mScanTimer /\ t.mIpMap = x.mIpMap
              /\ t.fault = x.fault
            BY <2>1, <2>3, ReleaseInv, ZenonT(40)
        <3> QED BY <2>3, <3>1, SameRows
    <2>4. CASE a = NULL
        <3>1. x = s1
            BY <2>1, <2>4
        <3>2. s.mScanning # p
            BY <1>0, <2>4 DEF PoolInv, PeersInv, AttemptsHaveDeadline
        <3>3. \A b \in Addrs : b # a
            BY SMTT(40), <2>4, ConstantsAssumption
        <3>4. PoolInv(x, {p})
            BY <1>0, <2>2, <3>1, <3>2, <3>3, DepartInv DEF HasRow
        <3> QED BY <2>2, <3>1, <3>4, SameRows
    <2>5. CASE a # NULL
        <3> DEFINE row == [ScanNext |-> now + ScanIntervalMin,
                           ScanInterval |-> ScanIntervalMin]
        <3>0. a \in Addrs /\ row \in Row /\ row # NULL /\ row.ScanNext # NULL
            BY SMTT(40), <1>0, <2>5, ConstantsAssumption, NullIsNoRow DEF Row
        <3>1. /\ closed \in PoolType /\ closed.peer = s.peer
              /\ closed.mConnectedMap = s1.mConnectedMap
              /\ \A b \in Addrs : closed.mIpMap[b] =
                    IF b = a /\ s.mIpMap[b] = p THEN NULL ELSE s.mIpMap[b]
              /\ closed.mScanning = IF s.mScanning = p THEN NULL ELSE s.mScanning
              /\ closed.mScanTimer = s.mScanTimer
              /\ closed.PeerIps = s.PeerIps /\ closed.fault = s.fault
            BY ZenonT(40), <2>2, <3>0 DEF PoolType
        <3>2. x \in IF s1.mScanning = p \/ bScanSet THEN scanRefresh(after)
                    ELSE {after}
            BY <2>1, <2>5 DEF peerClosed
        <3> HIDE DEF closed, s1
        <3>3. /\ after \in PoolType /\ after.peer = s.peer
              /\ after.mConnectedMap = s1.mConnectedMap
              /\ \A b \in Addrs : after.mIpMap[b] =
                    IF b = a /\ s.mIpMap[b] = p THEN NULL ELSE s.mIpMap[b]
              /\ after.mScanning = IF s.mScanning = p THEN NULL ELSE s.mScanning
              /\ after.mScanTimer = s.mScanTimer /\ after.fault = s.fault
              /\ after.PeerIps[a] = IF bScanSet THEN row ELSE s.PeerIps[a]
              /\ \A b \in Addrs \ {a} : after.PeerIps[b] = s.PeerIps[b]
              /\ ~bScanSet => after.PeerIps = s.PeerIps
            BY <3>0, <3>1 DEF peerScanSet, PoolType
        <3>4. bScanSet <=> s.mIpMap[a] = p /\ a \in Unscheduled(s)
            BY <2>2 DEF Unscheduled, HasRow
        <3> HIDE DEF after, bScanSet, row
        <3>5. PoolInv(after, {p})
            BY <1>0, <2>2, <3>0, <3>3, DepartInv DEF HasRow
        <3>6. NoneForgotten(s) => NoneForgotten(after)
            BY <3>0, <3>3, <3>4 DEF NoneForgotten, Unscheduled, HasRow
        <3>7. CASE s.mScanning = p \/ bScanSet
            <4>1. x \in scanRefresh(after)
                BY <2>2, <3>2, <3>7
            <4>2. PoolInv(x, {p})
                BY <3>5, <4>1, ScanRefreshInv
            <4>3. Covered(x) /\ (NoneForgotten(after) => NoneForgotten(x))
                BY <3>3, <4>1, ScanRefreshFrame DEF NoneForgotten
            <4> QED BY <3>6, <4>2, <4>3
        <3>8. CASE ~(s.mScanning = p \/ bScanSet)
            BY <2>2, <3>2, <3>3, <3>5, <3>6, <3>8, SameRows
        <3> QED BY <3>7, <3>8
    <2> QED BY <2>4, <2>5
<1> QED BY <1>1, <1>2

-----------------------------------------------------------------------------
(* Replacing rows by new ones, in any set of addresses. *)
LEMMA ReplaceRowsInv ==
    ASSUME NEW X, NEW s, PoolInv(s, X), NEW t, NEW A \in SUBSET Addrs,
           t = [s EXCEPT !.PeerIps = [a \in Addrs |-> IF a \in A THEN NewRow
                                                     ELSE @[a]]]
    PROVE  /\ PoolInv(t, X)
           /\ NoneForgotten(s) => NoneForgotten(t)
           /\ t.peer = s.peer /\ t.mIpMap = s.mIpMap
           /\ t.mConnectedMap = s.mConnectedMap
           /\ t.mScanning = s.mScanning /\ t.fault = s.fault
<1>1. s \in PoolType
    BY DEF PoolInv
<1>2. /\ NewRow \in Row /\ NewRow # NULL /\ NewRow.ScanNext # NULL
    BY ConstantsAssumption, NullIsNoRow DEF NewRow, Row
<1>3. /\ t \in PoolType
      /\ t.peer = s.peer /\ t.mIpMap = s.mIpMap
      /\ t.mConnectedMap = s.mConnectedMap /\ t.mScanning = s.mScanning
      /\ t.fault = s.fault
      /\ \A a \in Addrs : t.PeerIps[a] = IF a \in A THEN NewRow ELSE s.PeerIps[a]
    BY <1>1, <1>2 DEF PoolType
<1>4. PoolInv(t, X)
    BY <1>2, <1>3, RowsChangeInv DEF HasRow
<1> QED
    BY <1>2, <1>3, <1>4 DEF NoneForgotten, Unscheduled, HasRow

(* savePeer, which refreshes if the row is new. *)
LEMMA SavePeerInv ==
    ASSUME NEW s, PoolInv(s, {}), now \in Nat,
           NEW a \in Addrs, NEW t \in savePeer(s, a)
    PROVE  /\ PoolInv(t, {})
           /\ NoneForgotten(s) => NoneForgotten(t)
           /\ Covered(s) => Covered(t)
<1>1. CASE HasRow(s, a)
    BY <1>1 DEF savePeer
<1>2. CASE ~HasRow(s, a)
    <2> DEFINE u == [s EXCEPT !.PeerIps[a] = NewRow]
    <2>1. t \in scanRefresh(u)
        BY <1>2 DEF savePeer
    <2> DEFINE A == {a}
    <2>2. /\ A \in SUBSET Addrs
          /\ u = [s EXCEPT !.PeerIps = [b \in Addrs |-> IF b \in A THEN NewRow
                                                       ELSE @[b]]]
        BY DEF PoolInv, PoolType
    <2> HIDE DEF u, A
    <2>3. PoolInv(u, {}) /\ (NoneForgotten(s) => NoneForgotten(u))
        BY <2>2, ReplaceRowsInv
    <2>4. u \in PoolType
        BY <2>3 DEF PoolInv
    <2>5. PoolInv(t, {})
        BY <2>1, <2>3, ScanRefreshInv
    <2>6. Covered(t) /\ (NoneForgotten(u) => NoneForgotten(t))
        BY <2>1, <2>4, ScanRefreshFrame DEF NoneForgotten
    <2> QED BY <2>3, <2>5, <2>6
<1> QED BY <1>1, <1>2

(* peerVerified: the row it takes off the schedule is that of an address   *)
(* in mIpMap; p itself, and its entry, are left as they were.              *)
LEMMA PeerVerifiedInv ==
    ASSUME NEW s, PoolInv(s, {}), now \in Nat,
           NEW p \in Peers, s.peer[p].mClientConnect,
           NEW n \in Nodes, NEW t \in peerVerified(s, p, n)
    PROVE  /\ PoolInv(t, {})
           /\ t.peer[p] = s.peer[p]
           /\ t.mScanning # p
           /\ NoneForgotten(s) => NoneForgotten(t)
           /\ Covered(s) => Covered(t)
<1> DEFINE a == s.peer[p].mIpPort
           none == [ScanNext |-> NULL, ScanInterval |-> 0]
           row == IF n = Self \/ ~HasRow(s, a) THEN s.PeerIps[a] ELSE none
           u == [s EXCEPT !.mScanning = NULL, !.PeerIps[a] = row]
<1>1. /\ s \in PoolType /\ p # NULL
      /\ Live(s, p) /\ a \in Addrs /\ s.mIpMap[a] = p /\ s.mIpMap[a] # NULL
    BY ConstantsAssumption
       DEF PoolInv, PeersInv, AttemptsHaveDeadline, IpMapInv, PoolType, PeerRec
<1>2. CASE s.mScanning # p
    BY <1>2 DEF peerVerified
<1>3. CASE s.mScanning = p
    <2>1. t \in scanRefresh(u)
        BY <1>3 DEF peerVerified
    <2>2. none \in Row /\ none # NULL
        BY NullIsNoRow DEF Row
    <2>3. /\ u \in PoolType
          /\ u.peer = s.peer /\ u.mIpMap = s.mIpMap /\ u.fault = s.fault
          /\ u.mConnectedMap = s.mConnectedMap /\ u.mScanning = NULL
          /\ \A b \in Addrs \ {a} : u.PeerIps[b] = s.PeerIps[b]
          /\ u.PeerIps[a] = row
        BY <1>1, <2>2 DEF PoolType
    <2>4. \A b \in Addrs : HasRow(s, b) => HasRow(u, b)
        BY <2>2, <2>3 DEF HasRow
    <2> HIDE DEF u
    <2>5. PoolInv(u, {})
        BY <2>3, <2>4, RowsChangeInv
    <2>6. NoneForgotten(s) => NoneForgotten(u)
        BY <1>1, <2>3 DEF NoneForgotten, Unscheduled, HasRow
    <2>7. PoolInv(t, {})
        BY <2>1, <2>5, ScanRefreshInv
    <2>8. /\ Covered(t)
          /\ NoneForgotten(u) => NoneForgotten(t)
          /\ t.peer[p] = u.peer[p]
        BY <1>1, <2>1, <2>3, ScanRefreshFrame DEF NoneForgotten, Live
    <2>9. t.mScanning # p
        <3>1. CASE t.mScanning = NULL
            BY <1>1, <3>1
        <3>2. CASE t.mScanning # NULL
            <4>1. PICK q \in Free(u) : t.mScanning = q
                BY <2>1, <2>3, <3>2, ScanRefreshStarts
            <4> QED BY <1>1, <2>3, <4>1 DEF Free, Live
        <3> QED BY <3>1, <3>2
    <2> QED BY <2>3, <2>6, <2>7, <2>8, <2>9
<1> QED BY <1>2, <1>3

-----------------------------------------------------------------------------
(* setIpPort changes the address only. *)
LEMMA SetIpPortRec ==
    ASSUME NEW r0 \in PeerRec, NEW a \in Addrs
    PROVE  LET r == [r0 EXCEPT !.mIpPort = a]
           IN /\ r \in PeerRec
              /\ r.mIpPort = a
              /\ r.stage = r0.stage
              /\ r.mClientConnect <=> r0.mClientConnect
              /\ r.mHelloed <=> r0.mHelloed
              /\ r.mNodePublic = r0.mNodePublic
BY DEF PeerRec

(* peerConnected for a redundant connection p: either nothing changes, or  *)
(* the older connection takes over p's address and p is departing.         *)
LEMMA PeerRedundantInv ==
    ASSUME NEW s, PoolInv(s, {}), NEW p \in Peers, Live(s, p),
           ~s.peer[p].mHelloed, s.mScanning # p,
           NEW n \in Nodes, ~IsNewNode(s, n)
    PROVE  LET t == PeerRedundant(s, p, n)
           IN /\ PoolInv(t, {}) \/ PoolInv(t, {p})
              /\ t.peer[p] = s.peer[p]
              /\ NoneForgotten(s) => NoneForgotten(t)
              /\ Covered(s) => Covered(t)
<1> DEFINE t == PeerRedundant(s, p, n)
           old == s.mConnectedMap[n]
           a == s.peer[p].mIpPort
<1>1. CASE n # Self /\ a # NULL /\ s.peer[old].mIpPort = NULL
    <2>1. t = [s EXCEPT !.peer[old].mIpPort = a, !.mIpMap[a] = old]
        BY <1>1 DEF PeerRedundant
    <2>2. /\ s \in PoolType /\ p # NULL /\ a \in Addrs
          /\ old \in Peers /\ old # NULL /\ old # p
          /\ s.peer[old].mHelloed /\ Live(s, old)
          /\ s.mIpMap[a] = p
        BY <1>1, ConstantsAssumption
           DEF IsNewNode, PoolInv, ConnectedMapInv, IpMapInv, PeersInv, PoolType,
               PeerRec
    <2> DEFINE r == [s.peer[old] EXCEPT !.mIpPort = a]
    <2>3. /\ r \in PeerRec
          /\ r.mIpPort = a
          /\ r.stage = s.peer[old].stage
          /\ r.mClientConnect <=> s.peer[old].mClientConnect
          /\ r.mHelloed <=> s.peer[old].mHelloed
          /\ r.mNodePublic = s.peer[old].mNodePublic
        <3>1. s.peer[old] \in PeerRec
            BY <2>2 DEF PoolType
        <3> QED BY <2>2, <3>1, SetIpPortRec
    <2>4. t = [s EXCEPT !.peer[old] = r, !.mIpMap[a] = old]
        BY <2>1
    <2> HIDE DEF t, r, old
    <2>5. /\ t \in PoolType
          /\ t.peer[old] = r
          /\ \A q \in Peers \ {old} : t.peer[q] = s.peer[q]
          /\ t.mIpMap[a] = old
          /\ \A b \in Addrs \ {a} : t.mIpMap[b] = s.mIpMap[b]
          /\ t.mConnectedMap = s.mConnectedMap /\ t.mScanning = s.mScanning
          /\ t.PeerIps = s.PeerIps /\ t.mScanTimer = s.mScanTimer
          /\ t.fault = s.fault
        BY <2>2, <2>3, <2>4 DEF PoolType
    <2>6. IpMapInv(t, {p})
        <3>1. \A b \in Addrs : b # a /\ s.mIpMap[b] # NULL =>
                /\ s.mIpMap[b] \in Peers \ {p, old}
                /\ Live(s, s.mIpMap[b]) /\ s.peer[s.mIpMap[b]].mIpPort = b
                /\ s.PeerIps[b] # NULL
            BY <1>1, <2>2, ConstantsAssumption
               DEF PoolInv, IpMapInv, PoolType, old
        <3>2. \A b \in Addrs : t.mIpMap[b] # NULL =>
                /\ Live(t, t.mIpMap[b]) /\ t.peer[t.mIpMap[b]].mIpPort = b
                /\ t.mIpMap[b] # p /\ t.PeerIps[b] # NULL
            <4>1. s.PeerIps[a] # NULL
                BY <2>2 DEF PoolInv, IpMapInv
            <4> QED BY <2>2, <2>3, <2>5, <3>1, <4>1 DEF Live
        <3>3. \A q \in Peers \ {p, old} : Live(t, q) /\ t.peer[q].mIpPort # NULL =>
                /\ t.peer[q].mIpPort \in Addrs \ {a}
                /\ s.mIpMap[t.peer[q].mIpPort] = q
            BY <2>2, <2>5 DEF PoolInv, IpMapInv, PoolType, PeerRec, Live
        <3>4. \A q \in Peers \ {p} : Live(t, q) /\ t.peer[q].mIpPort # NULL =>
                t.mIpMap[t.peer[q].mIpPort] = q
            BY <2>3, <2>5, <3>3
        <3> QED BY <3>2, <3>4 DEF IpMapInv
    <2>7. ConnectedMapInv(t, {p})
        BY <2>2, <2>3, <2>5 DEF PoolInv, ConnectedMapInv, PoolType
    <2>8. PeersInv(t, {p})
        BY <2>2, <2>3, <2>5 DEF PoolInv, PeersInv, AttemptsHaveDeadline, Live, PoolType
    <2>9. NoneForgotten(s) => NoneForgotten(t)
        BY <2>2, <2>5 DEF NoneForgotten, Unscheduled, HasRow
    <2>10. Covered(s) => Covered(t)
        BY <2>5, SameRows
    <2> QED BY <2>2, <2>5, <2>6, <2>7, <2>8, <2>9, <2>10 DEF PoolInv, t
<1>2. CASE ~(n # Self /\ a # NULL /\ s.peer[old].mIpPort = NULL)
    <2>1. t = s
        BY <1>2 DEF PeerRedundant
    <2> QED BY <2>1
<1> QED BY <1>1, <1>2

(* recvHello for a node we are not connected to. *)
LEMMA HelloAcceptedInv ==
    ASSUME NEW s, PoolInv(s, {}), now \in Nat, NEW p \in Peers, Live(s, p),
           ~s.peer[p].mHelloed, s.mScanning # p,
           NEW n \in Nodes, IsNewNode(s, n),
           NEW guess \in Addrs, NEW late \in BOOLEAN,
           NEW t \in HelloAccepted(s, p, n, guess, late)
    PROVE  /\ PoolInv(t, {})
           /\ NoneForgotten(s) => NoneForgotten(t)
           /\ Covered(s) => Covered(t)
<1> DEFINE v == IF late /\ s.peer[p].mVerifyTimer = "armed" THEN "queued" ELSE "off"
           u == [s EXCEPT !.mConnectedMap[n] = p,
                          !.peer[p].mNodePublic = n,
                          !.peer[p].mClientConnect = FALSE,
                          !.peer[p].mHelloed = TRUE,
                          !.peer[p].mVerifyTimer = v]
<1>1. t \in IF s.peer[p].mClientConnect THEN {u} ELSE savePeer(u, guess)
    BY DEF HelloAccepted
<1>2. /\ s \in PoolType /\ p # NULL /\ n # Self /\ s.mConnectedMap[n] = NULL
      /\ \A m \in Nodes : s.mConnectedMap[m] # p
    BY ConstantsAssumption DEF PoolInv, ConnectedMapInv, IsNewNode
<1>3. v \in {"off", "queued"}
    OBVIOUS
<1> HIDE DEF v
<1>4. PICK r :
      /\ r = [s.peer[p] EXCEPT !.mNodePublic = n, !.mClientConnect = FALSE,
                               !.mHelloed = TRUE, !.mVerifyTimer = v]
      /\ r \in PeerRec
      /\ r.mNodePublic = n /\ ~r.mClientConnect /\ r.mHelloed
      /\ r.stage = s.peer[p].stage /\ r.mIpPort = s.peer[p].mIpPort
    <2>1. s.peer[p] \in PeerRec
        BY <1>2 DEF PoolType
    <2> DEFINE r == [s.peer[p] EXCEPT !.mNodePublic = n, !.mClientConnect = FALSE,
                                      !.mHelloed = TRUE, !.mVerifyTimer = v]
    <2>2. /\ r \in PeerRec
          /\ r.mNodePublic = n /\ ~r.mClientConnect /\ r.mHelloed
          /\ r.stage = s.peer[p].stage /\ r.mIpPort = s.peer[p].mIpPort
        BY <1>3, <2>1 DEF PeerRec
    <2> QED BY <2>2, Zenon
<1>5. /\ u \in PoolType
      /\ u.peer = [s.peer EXCEPT ![p] = r]
      /\ u.mConnectedMap = [s.mConnectedMap EXCEPT ![n] = p]
      /\ u.mIpMap = s.mIpMap /\ u.mScanning = s.mScanning
      /\ u.PeerIps = s.PeerIps /\ u.mScanTimer = s.mScanTimer
      /\ u.fault = s.fault
    BY ZenonT(40), <1>2, <1>3, <1>4 DEF PoolType
<1>14. /\ r.mNodePublic = n /\ ~r.mClientConnect /\ r.mHelloed
       /\ r.stage = s.peer[p].stage /\ r.mIpPort = s.peer[p].mIpPort
    BY <1>4
<1> HIDE DEF u
<1>6. /\ u.peer[p] = r
      /\ \A q \in Peers \ {p} : u.peer[q] = s.peer[q]
      /\ u.mConnectedMap[n] = p
      /\ \A m \in Nodes \ {n} : u.mConnectedMap[m] = s.mConnectedMap[m]
    BY <1>2, <1>5 DEF PoolType
<1>7. IpMapInv(u, {})
    BY <1>2, <1>14, <1>5, <1>6 DEF PoolInv, IpMapInv, Live, PoolType
<1>8. ConnectedMapInv(u, {})
    <2>1. \A q \in Peers : q # p /\ u.peer[q].mHelloed =>
            /\ s.peer[q].mNodePublic \in Nodes \ {n}
            /\ s.mConnectedMap[s.peer[q].mNodePublic] = q
        BY <1>2, <1>6, ConstantsAssumption DEF PoolInv, ConnectedMapInv
    <2>2. \A q \in Peers : u.peer[q].mHelloed =>
            /\ u.peer[q].mNodePublic \in Nodes
            /\ u.mConnectedMap[u.peer[q].mNodePublic] = q
        BY <1>14, <1>6, <2>1
    <2>3. \A m \in Nodes : u.mConnectedMap[m] # NULL =>
            /\ u.peer[u.mConnectedMap[m]].mHelloed
            /\ u.peer[u.mConnectedMap[m]].mNodePublic = m
            /\ m # Self
        BY <1>2, <1>14, <1>6 DEF PoolInv, ConnectedMapInv, PoolType
    <2> QED BY <2>2, <2>3 DEF ConnectedMapInv
<1>9. PeersInv(u, {})
    BY <1>2, <1>14, <1>5, <1>6
       DEF PoolInv, PeersInv, AttemptsHaveDeadline, Live, PoolType
<1>10. PoolInv(u, {})
    BY <1>5, <1>7, <1>8, <1>9 DEF PoolInv
<1>11. /\ NoneForgotten(s) => NoneForgotten(u)
       /\ Covered(s) => Covered(u)
    BY <1>5, SameRows
<1>12. CASE s.peer[p].mClientConnect
    BY <1>1, <1>10, <1>11, <1>12
<1>13. CASE ~s.peer[p].mClientConnect
    BY <1>1, <1>10, <1>11, <1>13, SavePeerInv
<1> QED BY <1>12, <1>13

(* The whole of recvHello. *)
LEMMA RecvHelloInv ==
    ASSUME NEW s, PoolInv(s, {}), now \in Nat, NEW p \in Peers, Live(s, p),
           ~s.peer[p].mHelloed,
           NEW n \in Nodes, NEW guess \in Addrs, NEW late \in BOOLEAN,
           NEW t \in recvHello(s, p, n, guess, late)
    PROVE  /\ PoolInv(t, {})
           /\ NoneForgotten(s) => NoneForgotten(t)
           /\ Covered(s) => Covered(t)
<1>1. CASE ~s.peer[p].mConnectionPool
    <2>1. t = [s EXCEPT !.fault = TRUE]
        BY <1>1 DEF recvHello
    <2>2. /\ t \in PoolType /\ t.peer = s.peer /\ t.mIpMap = s.mIpMap
          /\ t.mConnectedMap = s.mConnectedMap /\ t.mScanning = s.mScanning
          /\ t.PeerIps = s.PeerIps /\ t.mScanTimer = s.mScanTimer
          /\ t.fault
        BY <2>1 DEF PoolType, PoolInv
    <2> QED BY <2>2, RowsChangeInv, SameRows DEF HasRow
<1>2. CASE s.peer[p].mConnectionPool
    <2>1. PICK x \in IF s.peer[p].mClientConnect THEN peerVerified(s, p, n)
                     ELSE {s} :
            t \in IF x.fault THEN {x}
                  ELSE IF IsNewNode(x, n) THEN HelloAccepted(x, p, n, guess, late)
                  ELSE detach(PeerRedundant(x, p, n), p)
        BY <1>2 DEF recvHello
    <2>2. /\ PoolInv(x, {})
          /\ x.peer[p] = s.peer[p]
          /\ x.mScanning # p
          /\ NoneForgotten(s) => NoneForgotten(x)
          /\ Covered(s) => Covered(x)
        <3>1. CASE s.peer[p].mClientConnect
            BY <2>1, <3>1, PeerVerifiedInv
        <3>2. CASE ~s.peer[p].mClientConnect
            <4>1. s.mScanning # p
                BY <3>2, ConstantsAssumption DEF PoolInv, PeersInv
            <4> QED BY <2>1, <3>2, <4>1
        <3> QED BY <3>1, <3>2
    <2>3. Live(x, p) /\ ~x.peer[p].mHelloed /\ x.peer[p].mConnectionPool
        BY <1>2, <2>2 DEF Live
    <2>f. CASE x.fault
        BY <2>1, <2>2, <2>f
    <2>4. CASE ~x.fault /\ IsNewNode(x, n)
        BY <2>1, <2>2, <2>3, <2>4, HelloAcceptedInv
    <2>5. CASE ~x.fault /\ ~IsNewNode(x, n)
        <3> DEFINE y == PeerRedundant(x, p, n)
        <3>1. t \in detach(y, p)
            BY <2>1, <2>5
        <3>2. /\ PoolInv(y, {}) \/ PoolInv(y, {p})
              /\ y.peer[p] = x.peer[p]
              /\ NoneForgotten(x) => NoneForgotten(y)
              /\ Covered(x) => Covered(y)
            BY <2>2, <2>3, <2>5, PeerRedundantInv
        <3> HIDE DEF y
        <3>3. Live(y, p) /\ y.peer[p].mConnectionPool
            BY <2>3, <3>2 DEF Live
        <3>4. PICK X \in {{}, {p}} : PoolInv(y, X)
            BY <3>2
        <3>5. X \subseteq {p}
            OBVIOUS
        <3> QED BY <2>2, <3>1, <3>2, <3>3, <3>4, <3>5, DetachInv
    <2> QED BY <2>f, <2>4, <2>5
<1> QED BY <1>1, <1>2 DEF PoolInv, PoolType, PeerRec

-----------------------------------------------------------------------------
(* scanRefresh leaves a scan in progress if there is a due address it can  *)
(* connect to, or the loop is lost.                                        *)
LEMMA ScanRefreshScans ==
    ASSUME NEW s \in PoolType, now \in Nat, NEW t \in scanRefresh(s),
           Due(s) \ Busy(s) # {}
    PROVE  t.fault \/ t.mScanning # NULL
<1>1. CASE s.mScanning # NULL
    BY <1>1 DEF scanRefresh
<1>2. CASE s.mScanning = NULL
    <2>0. CASE \E a \in ScanTargets(s) : \E B \in PassedOver(s, a) :
                    t = ScanLost(s, a, B)
        BY <2>0, ScanLostFacts
    <2> SUFFICES ASSUME ~\E a \in ScanTargets(s) : \E B \in PassedOver(s, a) :
                            t = ScanLost(s, a, B)
                 PROVE  t.fault \/ t.mScanning # NULL
        BY <2>0
    <2>1. PICK a \in ScanTargets(s) :
            \E B \in PassedOver(s, a), p \in Free(s) : t = ScanNow(s, a, B, p)
        BY <1>2 DEF scanRefresh
    <2>2. PICK B \in PassedOver(s, a), p \in Free(s) : t = ScanNow(s, a, B, p)
        BY <2>1
    <2>3. B \cup {a} \subseteq Scheduled(s)
        BY DEF ScanTargets, PassedOver, Due
    <2>4. PostponeAll(s, B \cup {a}) \in PoolType
        BY <2>3, PostponeAllFacts
    <2>5. t.mScanning = p /\ p \in Peers
        BY <2>2, <2>4 DEF ScanNow, PeerConnect, PoolType, Free
    <2> QED BY <2>5, ConstantsAssumption
<1> QED BY <1>1, <1>2

(* recvPeers: the addresses saved after the first wait for its scan. *)
LEMMA RecvPeersInv ==
    ASSUME NEW s, PoolInv(s, {}), now \in Nat, NEW told \in SUBSET Addrs,
           NEW first \in told, ~HasRow(s, first),
           NEW t \in recvPeers(s, told, first)
    PROVE  /\ PoolInv(t, {})
           /\ NoneForgotten(s) => NoneForgotten(t)
           /\ Covered(t)
<1>1. PICK x \in savePeer(s, first) :
        t = [x EXCEPT !.PeerIps =
                [a \in Addrs |-> IF a \in told /\ @[a] = NULL /\ ~x.fault
                                 THEN NewRow ELSE @[a]]]
    BY DEF recvPeers
<1>2. PoolInv(x, {}) /\ (NoneForgotten(s) => NoneForgotten(x))
    BY SavePeerInv
<1> DEFINE A == {a \in told : x.PeerIps[a] = NULL /\ ~x.fault}
<1>3. /\ A \in SUBSET Addrs
      /\ t = [x EXCEPT !.PeerIps = [a \in Addrs |-> IF a \in A THEN NewRow
                                                    ELSE @[a]]]
    BY <1>1
<1> HIDE DEF A
<1>4. /\ PoolInv(t, {})
      /\ NoneForgotten(x) => NoneForgotten(t)
      /\ t.mScanning = x.mScanning /\ t.fault = x.fault
    BY <1>2, <1>3, ReplaceRowsInv
<1>5. x.fault \/ x.mScanning # NULL
    <2> DEFINE u == [s EXCEPT !.PeerIps[first] = NewRow]
    <2>1. x \in scanRefresh(u)
        BY <1>1 DEF savePeer
    <2>2. NewRow \in Row /\ NewRow # NULL /\ NewRow.ScanNext = 0
        BY ConstantsAssumption, NullIsNoRow DEF NewRow, Row
    <2>3. /\ u \in PoolType
          /\ u.PeerIps[first] = NewRow
          /\ u.mIpMap = s.mIpMap
        BY <2>2 DEF PoolInv, PoolType
    <2>4. s.mIpMap[first] = NULL
        BY DEF PoolInv, IpMapInv, HasRow
    <2> HIDE DEF u
    <2>5. first \in Due(u) \ Busy(u)
        BY <2>2, <2>3, <2>4, ConstantsAssumption DEF Due, Scheduled, Busy, HasRow
    <2> QED BY <2>1, <2>3, <2>5, ScanRefreshScans
<1> QED BY <1>2, <1>4, <1>5 DEF Covered, TimerCovers

(* policyLowWater gives each available address a fresh object of its own.  *)
(* With no connection at all, as at start, none is left out, unless the    *)
(* loop is lost.                                                           *)
LEMMA PolicyLowWaterInv ==
    ASSUME NEW s, PoolInv(s, {}), NEW t \in policyLowWater(s)
    PROVE  /\ PoolInv(t, {})
           /\ NoneForgotten(s) => NoneForgotten(t)
           /\ Covered(s) => Covered(t)
           /\ (\A n \in Nodes : s.mConnectedMap[n] = NULL) =>
                    t.fault \/ NoneForgotten(t)
<1> DEFINE C == {n \in Nodes : s.mConnectedMap[n] # NULL}
<1>0. s \in PoolType
    BY DEF PoolInv
<1>1. CASE Cardinality(C) > LowWater
    <2>1. t = s
        BY <1>1 DEF policyLowWater
    <2>2. ~\A n \in Nodes : s.mConnectedMap[n] = NULL
        <3>1. SUFFICES ASSUME C = {} PROVE FALSE
            OBVIOUS
        <3>2. Cardinality(C) = 0
            BY <3>1, FS_EmptySet
        <3> QED BY <1>1, <3>2, ConstantsAssumption
    <2> QED BY <2>1, <2>2
<1>2. CASE ~(Cardinality(C) > LowWater)
    <2>0. PICK A \in SUBSET Available(s) :
            \E f \in {g \in [A -> Free(s)] : \A a, b \in A : g[a] = g[b] => a = b} :
                t = ConnectAll(s, A, f)
        BY <1>2 DEF policyLowWater
    <2>1. PICK f \in [A -> Free(s)] :
            /\ \A a, b \in A : f[a] = f[b] => a = b
            /\ t = ConnectAll(s, A, f)
        BY <2>0
    <2>2. \A a \in A : a \in Addrs /\ s.mIpMap[a] = NULL /\ s.PeerIps[a] # NULL
        BY DEF Available, Unscheduled, HasRow, Busy
    <2>3. \A a \in A : /\ f[a] \in Peers /\ f[a] # NULL
                       /\ ~Live(s, f[a]) /\ s.mScanning # f[a]
                       /\ \A b \in Addrs : s.mIpMap[b] # f[a]
                       /\ \A n \in Nodes : s.mConnectedMap[n] # f[a]
        BY <2>1, ConstantsAssumption DEF Free
    <2>4. \A a \in A : (CHOOSE b \in A : f[b] = f[a]) = a
        BY <2>1
    <2>5. \A a \in Addrs : /\ ConnectPeer(a) \in PeerRec
                           /\ ConnectPeer(a).stage = "connect"
                           /\ ConnectPeer(a).mClientConnect
                           /\ ~ConnectPeer(a).mHelloed
                           /\ ConnectPeer(a).mNodePublic = NULL
                           /\ ConnectPeer(a).mIpPort = a
                           /\ ConnectPeer(a).mVerifyTimer = "armed"
        BY ConstantsAssumption DEF ConnectPeer, PeerRec, Stages
    <2>6. /\ \A p \in Peers : (\E a \in A : f[a] = p) =>
                (CHOOSE a \in A : f[a] = p) \in Addrs
          /\ \A a \in A : f[a] \in Peers
        BY SMTT(40), <2>2, <2>3
    <2>7. /\ t \in PoolType
          /\ t.mConnectedMap = s.mConnectedMap /\ t.mScanning = s.mScanning
          /\ t.PeerIps = s.PeerIps /\ t.mScanTimer = s.mScanTimer
          /\ t.fault = (s.fault \/ A # Available(s))
          /\ \A a \in Addrs : t.mIpMap[a] = IF a \in A THEN f[a] ELSE s.mIpMap[a]
          /\ \A p \in Peers : t.peer[p] =
                IF \E a \in A : f[a] = p
                THEN ConnectPeer(CHOOSE a \in A : f[a] = p) ELSE s.peer[p]
        BY ZenonT(40), <1>0, <2>1, <2>5, <2>6 DEF PoolType, ConnectAll
    <2>8. \A a \in A : t.peer[f[a]] = ConnectPeer(a)
        BY <2>3, <2>4, <2>7
    <2>9. \A p \in Peers : (\A a \in A : f[a] # p) => t.peer[p] = s.peer[p]
        BY <2>7
    <2>10. \A p \in Peers : \/ \E a \in A : p = f[a] /\ t.peer[p] = ConnectPeer(a)
                            \/ t.peer[p] = s.peer[p] /\ \A a \in A : f[a] # p
        BY <2>8, <2>9
    <2>11. IpMapInv(t, {})
        <3>1. \A a \in Addrs : t.mIpMap[a] # NULL =>
                /\ Live(t, t.mIpMap[a]) /\ t.peer[t.mIpMap[a]].mIpPort = a
                /\ t.PeerIps[a] # NULL
            <4>1. \A a \in A : /\ Live(t, t.mIpMap[a])
                               /\ t.peer[t.mIpMap[a]].mIpPort = a
                               /\ t.PeerIps[a] # NULL
                BY <2>2, <2>5, <2>7, <2>8 DEF Live
            <4>2. \A a \in Addrs \ A : t.mIpMap[a] # NULL =>
                    /\ t.mIpMap[a] = s.mIpMap[a]
                    /\ s.mIpMap[a] \in Peers
                    /\ t.peer[s.mIpMap[a]] = s.peer[s.mIpMap[a]]
                BY <1>0, <2>3, <2>7, <2>9 DEF PoolType
            <4> QED BY <2>7, <4>1, <4>2 DEF PoolInv, IpMapInv, Live
        <3>2. \A p \in Peers : Live(t, p) /\ t.peer[p].mIpPort # NULL =>
                t.mIpMap[t.peer[p].mIpPort] = p
            <4>1. TAKE p \in Peers
            <4>2. CASE \E a \in A : p = f[a] /\ t.peer[p] = ConnectPeer(a)
                BY <2>2, <2>5, <2>7, <4>2
            <4>3. CASE t.peer[p] = s.peer[p]
                BY <1>0, <2>2, <2>7, <4>3, ConstantsAssumption
                   DEF PoolInv, IpMapInv, Live, PoolType, PeerRec
            <4> QED BY <2>10, <4>2, <4>3
        <3> QED BY <3>1, <3>2 DEF IpMapInv
    <2>12. ConnectedMapInv(t, {})
        <3>1. \A n \in Nodes : s.mConnectedMap[n] # NULL =>
                /\ s.mConnectedMap[n] \in Peers
                /\ t.peer[s.mConnectedMap[n]] = s.peer[s.mConnectedMap[n]]
            BY <1>0, <2>3, <2>9 DEF PoolType
        <3>2. \A p \in Peers : t.peer[p].mHelloed => t.peer[p] = s.peer[p]
            BY <2>2, <2>5, <2>10
        <3> QED BY <2>7, <3>1, <3>2 DEF PoolInv, ConnectedMapInv
    <2>13. PeersInv(t, {})
        <3>1. \A p \in Peers :
                \/ t.peer[p] = s.peer[p]
                \/ /\ t.peer[p].stage = "connect"
                   /\ t.peer[p].mClientConnect
                   /\ ~t.peer[p].mHelloed
                   /\ t.peer[p].mNodePublic = NULL
                   /\ t.peer[p].mIpPort # NULL
                   /\ t.peer[p].mVerifyTimer = "armed"
            BY <2>2, <2>5, <2>10, ConstantsAssumption
        <3>2. s.mScanning # NULL => t.peer[s.mScanning] = s.peer[s.mScanning]
            BY <1>0, <2>3, <2>9 DEF PoolType
        <3> QED BY <2>7, <3>1, <3>2 DEF PoolInv, PeersInv, AttemptsHaveDeadline, Live
    <2>14. /\ NoneForgotten(s) => NoneForgotten(t)
           /\ t.fault \/ NoneForgotten(t)
        <3>1. \A a \in Addrs : s.mIpMap[a] # NULL => t.mIpMap[a] # NULL
            BY <2>3, <2>7
        <3>2. A = Available(s) => \A a \in Unscheduled(s) : t.mIpMap[a] # NULL
            BY <2>3, <2>7 DEF Available, Busy, Unscheduled
        <3> QED BY <2>7, <3>1, <3>2 DEF NoneForgotten, Unscheduled, HasRow
    <2>15. Covered(s) => Covered(t)
        BY <2>7, SameRows
    <2> QED BY SMTT(40), <2>7, <2>11, <2>12, <2>13, <2>14, <2>15 DEF PoolInv
<1> QED BY <1>1, <1>2

-----------------------------------------------------------------------------
(* The inductive invariant. *)
IInv ==
    /\ TypeOK
    /\ PoolInv(pool, {})
    /\ running => fault \/ NoneForgotten(pool)
    /\ running /\ ~scoreDue => Covered(pool)
    /\ ~running => \A n \in Nodes : mConnectedMap[n] = NULL

(* The invariant implies each of the properties that the runs check. *)
LEMMA IInvImplies ==
    IInv => /\ IpMapConsistent
            /\ ConnectedMapConsistent
            /\ AttemptsEnd
            /\ ScanConsistent
            /\ AddressesTracked
            /\ ScanTimerCovers
<1> SUFFICES ASSUME IInv
             PROVE  /\ IpMapConsistent /\ ConnectedMapConsistent /\ AttemptsEnd
                    /\ ScanConsistent /\ AddressesTracked /\ ScanTimerCovers
    OBVIOUS
<1>1. PoolInv(pool, {}) /\ pool \in PoolType
    BY DEF IInv, PoolInv
<1>2. IpMapConsistent
    BY <1>1, ConstantsAssumption DEF PoolInv, IpMapInv, IpMapConsistent, IpMapExact, PoolType
<1>3. ConnectedMapConsistent
    BY <1>1, ConstantsAssumption
       DEF PoolInv, ConnectedMapInv, PeersInv, ConnectedMapConsistent,
           ConnectedMapExact, PoolType, Live
<1>4. AttemptsEnd /\ ScanConsistent
    BY <1>1 DEF PoolInv, PeersInv, AttemptsEnd, ScanConsistent, ScanUnderWay
<1>5. AddressesTracked
    BY <1>1 DEF IInv, PoolInv, IpMapInv, AddressesTracked, BusyHasRow, Busy, HasRow, Up
<1>6. ScanTimerCovers
    BY DEF IInv, ScanTimerCovers, Covered, Up, pool
<1> QED BY <1>2, <1>3, <1>4, <1>5, <1>6

LEMMA InitIInv == Init => IInv
<1> SUFFICES ASSUME Init PROVE IInv
    OBVIOUS
<1>1. /\ IdlePeer \in PeerRec /\ IdlePeer.stage = "idle"
      /\ ~IdlePeer.mClientConnect /\ ~IdlePeer.mHelloed
      /\ IdlePeer.mNodePublic = NULL /\ IdlePeer.mVerifyTimer = "off"
    BY DEF IdlePeer, PeerRec, Stages
<1>2. TypeOK
    BY <1>1 DEF Init, TypeOK
<1>3. pool \in PoolType
    BY <1>2 DEF TypeOK, pool, PoolType
<1>4. PoolInv(pool, {})
    BY <1>1, <1>3 DEF Init, pool, PoolInv, IpMapInv, ConnectedMapInv, PeersInv,
       AttemptsHaveDeadline, Live
<1> QED BY <1>2, <1>4 DEF Init, IInv

(* Taking the state s, with the process up before and after. *)
LEMMA BecomeInv ==
    ASSUME IInv, running, running' = TRUE, now' \in Nat, ops' \in Nat,
           scoreDue' \in BOOLEAN,
           NEW s, PoolInv(s, {}), s.fault \/ NoneForgotten(s),
           ~scoreDue' => Covered(s),
           Become(s)
    PROVE  IInv'
<1>1. s \in PoolType
    BY DEF PoolInv
<1>2. pool' = s
    BY <1>1 DEF Become, pool, PoolType
<1>3. TypeOK'
    BY <1>1 DEF Become, TypeOK, PoolType
<1>4. fault' = s.fault
    BY DEF Become
<1> QED BY <1>2, <1>3, <1>4 DEF IInv

(* A handler whose results keep the invariant and the two properties of    *)
(* the table and the timer.                                                *)
LEMMA HandleInv ==
    ASSUME IInv, NEW S,
           \A s \in S : /\ PoolInv(s, {})
                        /\ NoneForgotten(pool) => NoneForgotten(s)
                        /\ Covered(pool) => Covered(s),
           Handle(S)
    PROVE  IInv'
<1>1. PICK s \in S : Become(s)
    BY DEF Handle
<1>2. /\ running /\ running' = TRUE /\ now' = now /\ ops' = ops
      /\ scoreDue' = scoreDue /\ ~fault
    BY DEF Handle, Up, IInv, TypeOK
<1>3. now \in Nat /\ ops \in Nat /\ scoreDue \in BOOLEAN
    BY DEF IInv, TypeOK
<1>4. NoneForgotten(s) /\ (~scoreDue' => Covered(s))
    BY <1>2 DEF IInv
<1> QED BY <1>1, <1>2, <1>3, <1>4, BecomeInv

(* scanRefresh of a state that keeps the invariant except for the timer. *)
LEMMA RefreshInv ==
    ASSUME NEW s, PoolInv(s, {}), now \in Nat, NEW t \in scanRefresh(s)
    PROVE  /\ PoolInv(t, {})
           /\ NoneForgotten(s) => NoneForgotten(t)
           /\ Covered(t)
<1>1. PoolInv(t, {})
    BY ScanRefreshInv
<1>2. s \in PoolType
    BY DEF PoolInv
<1> QED BY <1>1, <1>2, ScanRefreshFrame DEF NoneForgotten

(* A new inbound peer. *)
LEMMA ConnectedInv ==
    ASSUME IInv, NEW p \in Peers, connected(p)
    PROVE  IInv'
<1> DEFINE u == [pool EXCEPT !.peer[p] = ConnectedPeer]
<1>1. Handle({u}) /\ p \in Free(pool)
    BY DEF connected
<1>2. /\ PoolInv(pool, {}) /\ pool \in PoolType /\ p # NULL
      /\ ~Live(pool, p) /\ pool.mScanning # p
      /\ \A a \in Addrs : pool.mIpMap[a] # p
      /\ \A n \in Nodes : pool.mConnectedMap[n] # p
    BY <1>1, ConstantsAssumption DEF IInv, PoolInv, Free
<1>3. /\ ConnectedPeer \in PeerRec
      /\ ConnectedPeer.stage = "handshake"
      /\ ~ConnectedPeer.mClientConnect /\ ~ConnectedPeer.mHelloed
      /\ ConnectedPeer.mNodePublic = NULL /\ ConnectedPeer.mIpPort = NULL
    BY DEF ConnectedPeer, PeerRec, Stages
<1>4. /\ u \in PoolType
      /\ u.peer[p] = ConnectedPeer
      /\ \A q \in Peers \ {p} : u.peer[q] = pool.peer[q]
      /\ u.mIpMap = pool.mIpMap /\ u.mConnectedMap = pool.mConnectedMap
      /\ u.mScanning = pool.mScanning /\ u.mScanTimer = pool.mScanTimer
      /\ u.PeerIps = pool.PeerIps /\ u.fault = pool.fault
    BY <1>2, <1>3 DEF PoolType
<1> HIDE DEF u
<1>5. IpMapInv(u, {})
    BY <1>2, <1>3, <1>4 DEF PoolInv, IpMapInv, Live, PoolType
<1>6. ConnectedMapInv(u, {})
    BY <1>2, <1>3, <1>4 DEF PoolInv, ConnectedMapInv, PoolType
<1>7. PeersInv(u, {})
    BY <1>2, <1>3, <1>4 DEF PoolInv, PeersInv, AttemptsHaveDeadline, Live, PoolType
<1>8. PoolInv(u, {})
    BY <1>4, <1>5, <1>6, <1>7 DEF PoolInv
<1>9. /\ NoneForgotten(pool) => NoneForgotten(u)
      /\ Covered(pool) => Covered(u)
    BY <1>4, SameRows
<1> QED BY <1>1, <1>8, <1>9, HandleInv

(* A connection that advances from one stage to the next. *)
LEMMA StageInv ==
    ASSUME IInv, NEW p \in Peers, peer[p].stage # "idle",
           NEW stage \in Stages, stage # "idle",
           Handle({[pool EXCEPT !.peer[p].stage = stage]})
    PROVE  IInv'
<1> DEFINE u == [pool EXCEPT !.peer[p].stage = stage]
<1>1. /\ PoolInv(pool, {}) /\ pool \in PoolType /\ Live(pool, p)
      /\ pool.peer[p] \in PeerRec
    BY DEF IInv, PoolInv, Live, pool, PoolType
<1>2. PICK r : r = [pool.peer[p] EXCEPT !.stage = stage]
    OBVIOUS
<1>3. /\ r \in PeerRec
      /\ r.stage = stage /\ r.mIpPort = pool.peer[p].mIpPort
      /\ r.mClientConnect <=> pool.peer[p].mClientConnect
      /\ r.mHelloed <=> pool.peer[p].mHelloed
      /\ r.mNodePublic = pool.peer[p].mNodePublic
      /\ r.mVerifyTimer = pool.peer[p].mVerifyTimer
    BY <1>1, <1>2 DEF PeerRec
<1>4. /\ u \in PoolType
      /\ u.peer[p] = r
      /\ \A q \in Peers \ {p} : u.peer[q] = pool.peer[q]
      /\ u.mIpMap = pool.mIpMap /\ u.mConnectedMap = pool.mConnectedMap
      /\ u.mScanning = pool.mScanning /\ u.mScanTimer = pool.mScanTimer
      /\ u.PeerIps = pool.PeerIps /\ u.fault = pool.fault
    BY <1>1, <1>2, <1>3 DEF PoolType
<1>5. Handle({u})
    OBVIOUS
<1> HIDE DEF u
<1>6. IpMapInv(u, {})
    BY <1>1, <1>3, <1>4 DEF PoolInv, IpMapInv, Live, PoolType
<1>7. ConnectedMapInv(u, {})
    BY <1>1, <1>3, <1>4 DEF PoolInv, ConnectedMapInv, PoolType
<1>8. PeersInv(u, {})
    BY <1>1, <1>3, <1>4 DEF PoolInv, PeersInv, AttemptsHaveDeadline, Live, PoolType
<1>9. PoolInv(u, {})
    BY <1>4, <1>6, <1>7, <1>8 DEF PoolInv
<1>10. /\ NoneForgotten(pool) => NoneForgotten(u)
       /\ Covered(pool) => Covered(u)
    BY <1>4, SameRows
<1> QED BY <1>5, <1>9, <1>10, HandleInv

(* Every step preserves the invariant. *)
LEMMA NextIInv == IInv /\ [Next]_vars => IInv'
<1> SUFFICES ASSUME IInv, [Next]_vars PROVE IInv'
    OBVIOUS
<1>0. /\ PoolInv(pool, {}) /\ pool \in PoolType /\ TypeOK
      /\ now \in Nat /\ ops \in Nat /\ scoreDue \in BOOLEAN
    BY DEF IInv, PoolInv, TypeOK
<1>1. CASE Start
    <2>1. PICK x \in policyLowWater(pool) :
            \E s \in IF x.fault THEN {x} ELSE scanRefresh(x) : Become(s)
        BY <1>1 DEF Start
    <2>2. PICK s \in IF x.fault THEN {x} ELSE scanRefresh(x) : Become(s)
        BY <2>1
    <2>3. PoolInv(x, {}) /\ (x.fault \/ NoneForgotten(x))
        <3>1. \A n \in Nodes : pool.mConnectedMap[n] = NULL
            BY <1>1 DEF Start, IInv, pool
        <3> QED BY <1>0, <3>1, PolicyLowWaterInv
    <2>4. PoolInv(s, {}) /\ (s.fault \/ NoneForgotten(s)) /\ Covered(s)
        <3>1. CASE x.fault
            BY <2>2, <2>3, <3>1 DEF Covered
        <3>2. CASE ~x.fault
            BY <1>0, <2>2, <2>3, <3>2, RefreshInv
        <3> QED BY <3>1, <3>2
    <2>5. s \in PoolType
        BY <2>4 DEF PoolInv
    <2>6. pool' = s /\ fault' = s.fault
        BY <2>2, <2>5 DEF Become, pool, PoolType
    <2>7. TypeOK' /\ running' = TRUE
        BY <1>0, <1>1, <2>2, <2>5 DEF Become, Start, TypeOK, PoolType
    <2> QED BY <2>4, <2>6, <2>7 DEF IInv
<1>2. CASE Crash
    <2>1. /\ IdlePeer \in PeerRec /\ IdlePeer.stage = "idle"
          /\ ~IdlePeer.mClientConnect /\ ~IdlePeer.mHelloed
          /\ IdlePeer.mNodePublic = NULL /\ IdlePeer.mVerifyTimer = "off"
        BY DEF IdlePeer, PeerRec, Stages
    <2>2. TypeOK'
        <3>1. /\ ops' \in Nat /\ now' \in Nat
              /\ PeerIps' \in [Addrs -> Row \cup {NULL}]
            BY <1>0, <1>2 DEF Crash, Request, TypeOK
        <3> QED BY <1>2, <2>1, <3>1 DEF Crash, TypeOK
    <2>3. pool' \in PoolType
        BY <2>2 DEF TypeOK, pool, PoolType
    <2>4. PoolInv(pool', {})
        BY <1>2, <2>1, <2>3 DEF Crash, pool, PoolInv, IpMapInv, ConnectedMapInv,
           PeersInv, AttemptsHaveDeadline, Live
    <2> QED BY <1>2, <2>2, <2>4 DEF Crash, IInv
<1>3. CASE Tick
    <2>1. pool' = pool /\ TypeOK'
        BY <1>0, <1>3 DEF Tick, pool, TypeOK
    <2> QED BY <1>3, <2>1 DEF Tick, IInv
<1>4. CASE scanHandler
    <2> DEFINE u == [pool EXCEPT !.mScanTimer = NULL]
    <2>1. /\ u \in PoolType
          /\ u.peer = pool.peer /\ u.mIpMap = pool.mIpMap
          /\ u.mConnectedMap = pool.mConnectedMap
          /\ u.mScanning = pool.mScanning /\ u.PeerIps = pool.PeerIps
        BY <1>0 DEF PoolType
    <2>2. Handle(scanRefresh(u))
        BY <1>4 DEF scanHandler
    <2> HIDE DEF u
    <2>3. PoolInv(u, {}) /\ (NoneForgotten(pool) => NoneForgotten(u))
        BY <1>0, <2>1, RowsChangeInv DEF HasRow, NoneForgotten, Unscheduled
    <2>4. \A s \in scanRefresh(u) :
            /\ PoolInv(s, {})
            /\ NoneForgotten(pool) => NoneForgotten(s)
            /\ Covered(pool) => Covered(s)
        BY <1>0, <2>3, RefreshInv
    <2> QED BY <2>2, <2>4, HandleInv
<1>5. CASE policyHandler
    <2>1. \A s \in policyLowWater(pool) :
            /\ PoolInv(s, {})
            /\ NoneForgotten(pool) => NoneForgotten(s)
            /\ Covered(pool) => Covered(s)
        BY <1>0, PolicyLowWaterInv
    <2> QED BY <1>5, <2>1, HandleInv DEF policyHandler
<1>6. ASSUME NEW a \in Addrs, connectTo(a) PROVE IInv'
    <2> DEFINE u == [pool EXCEPT !.PeerIps[a] = NewRow]
               A == {a}
    <2>1. PICK s \in scanRefresh(u) : Become(s)
        BY <1>6 DEF connectTo
    <2>2. /\ A \in SUBSET Addrs
          /\ u = [pool EXCEPT !.PeerIps = [b \in Addrs |-> IF b \in A THEN NewRow
                                                          ELSE @[b]]]
        BY <1>0 DEF PoolType
    <2>3. /\ running /\ ~fault /\ running' = TRUE /\ now' \in Nat /\ ops' \in Nat
          /\ scoreDue' \in BOOLEAN
        BY <1>0, <1>6 DEF connectTo, Up, Request, TypeOK
    <2> HIDE DEF u, A
    <2>4. PoolInv(u, {}) /\ (NoneForgotten(pool) => NoneForgotten(u))
        BY <1>0, <2>2, ReplaceRowsInv
    <2>5. PoolInv(s, {}) /\ NoneForgotten(s) /\ Covered(s)
        BY <1>0, <2>3, <2>4, RefreshInv DEF IInv
    <2> QED BY <2>1, <2>3, <2>5, BecomeInv
<1>7. ASSUME NEW A \in SUBSET Addrs, nodeBootstrap(A) PROVE IInv'
    <2> DEFINE u == ReplaceRows(pool, A)
    <2>1. /\ running /\ ~fault /\ running' = TRUE /\ now' \in Nat /\ ops' \in Nat
          /\ scoreDue' = TRUE /\ Become(u)
        BY <1>0, <1>7 DEF nodeBootstrap, Up, Request, TypeOK
    <2>2. u = [pool EXCEPT !.PeerIps = [b \in Addrs |-> IF b \in A THEN NewRow
                                                       ELSE @[b]]]
        BY DEF ReplaceRows
    <2> HIDE DEF u
    <2>3. PoolInv(u, {}) /\ NoneForgotten(u)
        BY <1>0, <2>1, <2>2, ReplaceRowsInv DEF IInv
    <2> QED BY <2>1, <2>3, BecomeInv
<1>8. ASSUME NEW A \in SUBSET Addrs, scoreTimerHandler(A) PROVE IInv'
    <2> DEFINE u == ReplaceRows(pool, A)
    <2>1. /\ running /\ ~fault /\ running' = TRUE /\ now' \in Nat /\ ops' \in Nat
          /\ scoreDue' = FALSE
        BY <1>0, <1>8 DEF scoreTimerHandler, Up, TypeOK
    <2>2. PICK s \in scanRefresh(u) : Become(s)
        BY <1>8 DEF scoreTimerHandler
    <2>3. u = [pool EXCEPT !.PeerIps = [b \in Addrs |-> IF b \in A THEN NewRow
                                                       ELSE @[b]]]
        BY DEF ReplaceRows
    <2> HIDE DEF u
    <2>4. PoolInv(u, {}) /\ NoneForgotten(u)
        BY <1>0, <2>1, <2>3, ReplaceRowsInv DEF IInv
    <2>5. PoolInv(s, {}) /\ NoneForgotten(s) /\ Covered(s)
        BY <1>0, <2>4, RefreshInv
    <2> QED BY <2>1, <2>2, <2>5, BecomeInv
<1>9. CASE fetchDirty
    <2>1. pool' = pool /\ TypeOK' /\ running' = running /\ scoreDue' = TRUE
        BY <1>0, <1>9 DEF fetchDirty, Request, pool, TypeOK
    <2> QED BY <1>9, <2>1 DEF fetchDirty, IInv
<1>10. ASSUME NEW p \in Peers, PeerEvent(p) PROVE IInv'
    <2>1. CASE connected(p)
        BY <1>0, <1>10, <2>1, ConnectedInv
    <2>2. CASE handleConnect(p)
        <3>1. /\ peer[p].stage # "idle"
              /\ Handle({[pool EXCEPT !.peer[p].stage = "handshake"]})
              /\ "handshake" \in Stages
            BY <2>2 DEF handleConnect, Stages
        <3> QED BY <3>1, StageInv
    <2>3. CASE handleStart(p)
        <3>1. /\ peer[p].stage # "idle"
              /\ Handle({[pool EXCEPT !.peer[p].stage = "read"]})
              /\ "read" \in Stages
            BY <2>3 DEF handleStart, Stages
        <3> QED BY <3>1, StageInv
    <2>4. CASE handleVerifyTimer(p) \/ PeerFails(p)
        <3>1. Live(pool, p)
            BY <1>0, <2>4 DEF handleVerifyTimer, PeerFails, PoolInv, PeersInv, pool
        <3>2. \A s \in detach(pool, p) :
                /\ PoolInv(s, {})
                /\ NoneForgotten(pool) => NoneForgotten(s)
                /\ Covered(pool) => Covered(s)
            BY <1>0, <3>1, DetachInv
        <3> QED BY <2>4, <3>2, HandleInv DEF handleVerifyTimer, PeerFails
    <2>5. CASE RecvHello(p)
        <3>1. PICK n \in Nodes, guess \in Addrs, late \in BOOLEAN :
                Handle(recvHello(pool, p, n, guess, late))
            BY <2>5 DEF RecvHello
        <3>2. Live(pool, p) /\ ~pool.peer[p].mHelloed
            BY <2>5 DEF RecvHello, Live, pool
        <3>3. \A s \in recvHello(pool, p, n, guess, late) :
                /\ PoolInv(s, {})
                /\ NoneForgotten(pool) => NoneForgotten(s)
                /\ Covered(pool) => Covered(s)
            BY <1>0, <3>2, RecvHelloInv
        <3> QED BY <3>1, <3>3, HandleInv
    <2>6. CASE RecvPeers(p)
        <3>1. PICK told \in SUBSET Addrs :
                \E first \in told : /\ PeerIps[first] = NULL
                                    /\ Handle(recvPeers(pool, told, first))
            BY <2>6 DEF RecvPeers
        <3>2. PICK first \in told : /\ PeerIps[first] = NULL
                                    /\ Handle(recvPeers(pool, told, first))
            BY <3>1
        <3>3. ~HasRow(pool, first)
            BY <3>2 DEF HasRow, pool
        <3>4. \A s \in recvPeers(pool, told, first) :
                /\ PoolInv(s, {})
                /\ NoneForgotten(pool) => NoneForgotten(s)
                /\ Covered(pool) => Covered(s)
            BY <1>0, <3>3, RecvPeersInv
        <3> QED BY <3>2, <3>4, HandleInv
    <2> QED BY <1>10, <2>1, <2>2, <2>3, <2>4, <2>5, <2>6 DEF PeerEvent
<1>11. CASE UNCHANGED vars
    <2>1. pool' = pool
        BY <1>11 DEF vars, pool
    <2> QED BY <1>11, <2>1 DEF vars, IInv, TypeOK
<1> QED
    BY <1>1, <1>2, <1>3, <1>4, <1>5, <1>6, <1>7, <1>8, <1>9, <1>10, <1>11 DEF Next

-----------------------------------------------------------------------------
(* The inductive invariant holds in every reachable state. *)
THEOREM Invariance == Spec => []IInv
BY InitIInv, NextIInv, PTL DEF Spec

(* The variables keep their types in every reachable state. *)
THEOREM TypeCorrect == Spec => []TypeOK
<1>1. IInv => TypeOK
    BY DEF IInv
<1> QED BY <1>1, Invariance, PTL

(* mIpMap lists exactly the live peers with a known address: the entry     *)
(* peerClosed looks for is always there, or belongs to a peer that took    *)
(* the address over.                                                       *)
THEOREM IpMapCorrect == Spec => []IpMapConsistent
BY Invariance, IInvImplies, PTL

(* mConnectedMap lists exactly the peers whose hello was accepted, one per *)
(* node and never ourselves.                                               *)
THEOREM ConnectedMapCorrect == Spec => []ConnectedMapConsistent
BY Invariance, IInvImplies, PTL

(* Every outbound attempt has a deadline, the scan in progress included    *)
(* (Peer::connect, handleVerifyTimer): an attempt that fails inside        *)
(* connect, with no timer armed, is not left behind as one under way.      *)
THEOREM AttemptsEndCorrect == Spec => []AttemptsEnd
BY Invariance, IInvImplies, PTL

(* mScanning is an outbound attempt under way, never a peer that is gone   *)
(* (scanRefresh, peerVerified, peerClosed).                                *)
THEOREM ScanCorrect == Spec => []ScanConsistent
BY Invariance, IInvImplies, PTL

(* No address of PeerIps is forgotten while the process is up, restarts    *)
(* included.                                                               *)
THEOREM NothingForgotten == Spec => []AddressesTracked
BY Invariance, IInvImplies, PTL

(* No wake-up is lost: with no scan in progress the scan timer covers the  *)
(* earliest scheduled row, or the score timer will refresh it.             *)
THEOREM NoLostWakeup == Spec => []ScanTimerCovers
BY Invariance, IInvImplies, PTL

-----------------------------------------------------------------------------
(* No entry of mConnectedMap is given to another peer. *)
Keeps(s, t) == \A n \in Nodes : s.mConnectedMap[n] # NULL =>
                    t.mConnectedMap[n] \in {s.mConnectedMap[n], NULL}

(* scanRefresh results are pool states. *)
LEMMA ScanRefreshType ==
    ASSUME NEW s \in PoolType, now \in Nat, NEW t \in scanRefresh(s)
    PROVE  t \in PoolType
<1>1. CASE s.mScanning # NULL
    BY <1>1 DEF scanRefresh
<1>2. CASE s.mScanning = NULL /\ Due(s) \ Busy(s) = {}
    <2> DEFINE u == PostponeAll(s, Due(s))
    <2>1. t = [u EXCEPT !.mScanTimer = EarliestScan(u)]
        BY <1>2 DEF scanRefresh, ScanLater
    <2>2. u \in PoolType
        BY PostponeAllFacts DEF Due
    <2> HIDE DEF u
    <2>3. EarliestScan(u) \in Nat \cup {NULL}
        BY <2>2, EarliestScanFacts
    <2> QED BY <2>1, <2>2, <2>3 DEF PoolType
<1>3. CASE \E a \in ScanTargets(s) : \E B \in PassedOver(s, a), p \in Free(s) :
                t = ScanNow(s, a, B, p)
    <2>0. PICK a \in ScanTargets(s) :
            \E B \in PassedOver(s, a), p \in Free(s) : t = ScanNow(s, a, B, p)
        BY <1>3
    <2>1. PICK B \in PassedOver(s, a), p \in Free(s) : t = ScanNow(s, a, B, p)
        BY <2>0
    <2> DEFINE u == PostponeAll(s, B \cup {a})
    <2>2. B \cup {a} \subseteq Scheduled(s) /\ a \in Addrs /\ p \in Peers
        BY DEF ScanTargets, PassedOver, Due, Scheduled, Free
    <2>3. u \in PoolType
        BY <2>2, PostponeAllFacts
    <2>4. ConnectPeer(a) \in PeerRec
        BY <2>2, ConstantsAssumption DEF ConnectPeer, PeerRec, Stages
    <2>5. t = [[u EXCEPT !.peer[p] = ConnectPeer(a), !.mIpMap[a] = p]
                  EXCEPT !.mScanning = p, !.mScanTimer = NULL]
        BY <2>1 DEF ScanNow, PeerConnect
    <2> HIDE DEF u
    <2> QED BY <2>2, <2>3, <2>4, <2>5 DEF PoolType
<1>4. CASE \E a \in ScanTargets(s) : \E B \in PassedOver(s, a) : t = ScanLost(s, a, B)
    BY <1>4, ScanLostFacts
<1>5. CASE s.mScanning = NULL /\ Due(s) \ Busy(s) # {}
    BY <1>3, <1>4, <1>5 DEF scanRefresh
<1> QED BY <1>1, <1>2, <1>5

(* peerClosed leaves mConnectedMap alone. *)
LEMMA PeerClosedKeeps ==
    ASSUME NEW p \in Peers, NEW s \in PoolType, now \in Nat, NEW a \in Addrs,
           NEW t \in peerClosed(s, p, a)
    PROVE  t \in PoolType /\ t.mConnectedMap = s.mConnectedMap
<1> DEFINE identified == s.mIpMap[a] = p
           bScanSet == identified /\ a \in Unscheduled(s)
           closed == [s EXCEPT !.mScanning = IF @ = p THEN NULL ELSE @,
                               !.mIpMap[a] = IF identified THEN NULL ELSE @]
           after == IF bScanSet THEN peerScanSet(closed, a) ELSE closed
<1>1. closed \in PoolType /\ closed.mConnectedMap = s.mConnectedMap
    BY DEF PoolType
<1>2. t \in scanRefresh(after) \/ t = after
    BY DEF peerClosed
<1> HIDE DEF closed
<1>3. [ScanNext |-> now + ScanIntervalMin, ScanInterval |-> ScanIntervalMin] \in Row
    BY ConstantsAssumption DEF Row
<1>4. after \in PoolType /\ after.mConnectedMap = s.mConnectedMap
    BY <1>1, <1>3 DEF peerScanSet, PoolType
<1> HIDE DEF after
<1> QED BY <1>2, <1>4, ScanRefreshType, ScanRefreshFrame

(* detach takes out at most the entry of the peer that ends. *)
LEMMA DetachKeeps ==
    ASSUME NEW p \in Peers, NEW s \in PoolType, now \in Nat,
           NEW t \in detach(s, p)
    PROVE  Keeps(s, t)
<1> DEFINE n == s.peer[p].mNodePublic
           a == s.peer[p].mIpPort
           s1 == IF n # NULL THEN peerDisconnected(s, p, n) ELSE s
           s2 == IF a # NULL THEN peerClosed(s1, p, a) ELSE {s1}
<1>0. n \in Nodes \cup {NULL} /\ a \in Addrs \cup {NULL}
    BY DEF PoolType, PeerRec
<1>1. CASE t = [s EXCEPT !.fault = TRUE]
    BY <1>1 DEF Keeps, PoolType
<1>2. CASE \E x \in s2 : t = [x EXCEPT !.peer[p] = IdlePeer]
    <2>1. PICK x \in s2 : t = [x EXCEPT !.peer[p] = IdlePeer]
        BY <1>2
    <2>2. s1 \in PoolType /\ Keeps(s, s1)
        BY <1>0 DEF peerDisconnected, Keeps, PoolType
    <2> HIDE DEF s1
    <2>3. x \in PoolType => t.mConnectedMap = x.mConnectedMap
        BY <2>1 DEF PoolType
    <2>4. x \in PoolType /\ x.mConnectedMap = s1.mConnectedMap
        <3>1. CASE a = NULL
            BY <2>1, <2>2, <3>1
        <3>2. CASE a # NULL
            BY <1>0, <2>1, <2>2, <3>2, PeerClosedKeeps
        <3> QED BY <3>1, <3>2
    <2> QED BY <2>2, <2>3, <2>4 DEF Keeps
<1> QED BY <1>1, <1>2 DEF detach

(* savePeer leaves mConnectedMap alone. *)
LEMMA SavePeerKeeps ==
    ASSUME NEW s \in PoolType, now \in Nat, NEW a \in Addrs,
           NEW t \in savePeer(s, a)
    PROVE  t \in PoolType /\ t.mConnectedMap = s.mConnectedMap
<1> DEFINE u == [s EXCEPT !.PeerIps[a] = NewRow]
<1>1. u \in PoolType /\ u.mConnectedMap = s.mConnectedMap
    BY DEF PoolType, NewRow, Row
<1>2. t = s \/ t \in scanRefresh(u)
    BY DEF savePeer
<1> HIDE DEF u
<1> QED BY <1>1, <1>2, ScanRefreshType, ScanRefreshFrame

(* peerVerified leaves mConnectedMap alone. *)
LEMMA PeerVerifiedKeeps ==
    ASSUME NEW s \in PoolType, now \in Nat, NEW p \in Peers, NEW n \in Nodes,
           s.peer[p].mIpPort \in Addrs, NEW t \in peerVerified(s, p, n)
    PROVE  t \in PoolType /\ t.mConnectedMap = s.mConnectedMap
<1> DEFINE a == s.peer[p].mIpPort
           row == IF n = Self \/ ~HasRow(s, a) THEN s.PeerIps[a]
                  ELSE [ScanNext |-> NULL, ScanInterval |-> 0]
           u == [s EXCEPT !.mScanning = NULL, !.PeerIps[a] = row]
<1>1. row \in Row \cup {NULL}
    BY DEF PoolType, Row
<1>2. u \in PoolType /\ u.mConnectedMap = s.mConnectedMap
    BY <1>1 DEF PoolType
<1>3. t = s \/ t \in scanRefresh(u)
    BY DEF peerVerified
<1> HIDE DEF u
<1> QED BY <1>2, <1>3, ScanRefreshType, ScanRefreshFrame

(* recvHello gives an entry to the newcomer only if the node had none. *)
LEMMA RecvHelloKeeps ==
    ASSUME NEW s, PoolInv(s, {}), now \in Nat, NEW p \in Peers, Live(s, p),
           ~s.peer[p].mHelloed, NEW n \in Nodes, NEW guess \in Addrs,
           NEW late \in BOOLEAN, NEW t \in recvHello(s, p, n, guess, late)
    PROVE  Keeps(s, t)
<1>0. s \in PoolType
    BY DEF PoolInv
<1>1. CASE t = [s EXCEPT !.fault = TRUE]
    BY <1>0, <1>1 DEF Keeps, PoolType
<1>2. ASSUME NEW x \in IF s.peer[p].mClientConnect
                       THEN peerVerified(s, p, n) ELSE {s},
             t \in IF x.fault THEN {x}
                   ELSE IF IsNewNode(x, n) THEN HelloAccepted(x, p, n, guess, late)
                   ELSE detach(PeerRedundant(x, p, n), p)
      PROVE  Keeps(s, t)
    <2>1. x \in PoolType /\ x.mConnectedMap = s.mConnectedMap
        <3>1. s.peer[p].mClientConnect => s.peer[p].mIpPort \in Addrs
            BY <1>0 DEF PoolInv, PeersInv, AttemptsHaveDeadline, PoolType, PeerRec
        <3> QED BY <1>0, <1>2, <3>1, PeerVerifiedKeeps
    <2>f. CASE x.fault
        BY <1>2, <2>1, <2>f DEF Keeps
    <2>2. CASE ~x.fault /\ IsNewNode(x, n)
        <3> DEFINE client == x.peer[p].mClientConnect
                   timer == IF late /\ x.peer[p].mVerifyTimer = "armed"
                            THEN "queued" ELSE "off"
        <3>1. PICK u : u = [x EXCEPT !.mConnectedMap[n] = p,
                                     !.peer[p].mNodePublic = n,
                                     !.peer[p].mClientConnect = FALSE,
                                     !.peer[p].mHelloed = TRUE,
                                     !.peer[p].mVerifyTimer = timer]
            OBVIOUS
        <3>2. t = u \/ t \in savePeer(u, guess)
            BY <1>2, <2>2, <3>1 DEF HelloAccepted
        <3>t. timer \in {"off", "queued"}
            OBVIOUS
        <3> HIDE DEF timer
        <3>3. PICK r : r = [x.peer[p] EXCEPT !.mNodePublic = n,
                                             !.mClientConnect = FALSE,
                                             !.mHelloed = TRUE,
                                             !.mVerifyTimer = timer]
            OBVIOUS
        <3>4. r \in PeerRec
            <4>1. x.peer[p] \in PeerRec
                BY <2>1 DEF PoolType
            <4> QED BY <3>3, <3>t, <4>1 DEF PeerRec
        <3>5. u = [x EXCEPT !.mConnectedMap[n] = p, !.peer[p] = r]
            BY ZenonT(60), <3>1, <3>3
        <3>6. u \in PoolType /\ u.mConnectedMap = [x.mConnectedMap EXCEPT ![n] = p]
            BY <2>1, <3>4, <3>5 DEF PoolType
        <3>7. t.mConnectedMap = u.mConnectedMap
            BY <3>2, <3>6, SavePeerKeeps
        <3> QED BY <2>1, <2>2, <3>6, <3>7 DEF IsNewNode, Keeps, PoolType
    <2>3. CASE ~x.fault /\ ~IsNewNode(x, n)
        <3> DEFINE u == PeerRedundant(x, p, n)
                   old == x.mConnectedMap[n]
                   a == x.peer[p].mIpPort
        <3>1. u \in PoolType /\ u.mConnectedMap = x.mConnectedMap
            <4>1. CASE u = x
                BY <2>1, <4>1
            <4>2. CASE /\ n # Self /\ a # NULL
                       /\ u = [x EXCEPT !.peer[old].mIpPort = a, !.mIpMap[a] = old]
                <5>1. old \in Peers /\ a \in Addrs
                    BY <2>1, <2>3, <4>2 DEF IsNewNode, PoolType, PeerRec
                <5>2. PICK r : r = [x.peer[old] EXCEPT !.mIpPort = a]
                    OBVIOUS
                <5>3. r \in PeerRec
                    <6>1. x.peer[old] \in PeerRec
                        BY <2>1, <5>1 DEF PoolType
                    <6> QED BY <5>1, <5>2, <6>1, SetIpPortRec
                <5>4. u = [x EXCEPT !.peer[old] = r, !.mIpMap[a] = old]
                    BY <4>2, <5>2
                <5> HIDE DEF u, old, a
                <5> QED BY <2>1, <5>1, <5>3, <5>4 DEF PoolType
            <4> QED BY <4>1, <4>2 DEF PeerRedundant
        <3>2. t \in detach(u, p)
            BY <1>2, <2>3
        <3> HIDE DEF u
        <3>3. Keeps(u, t)
            BY <3>1, <3>2, DetachKeeps
        <3> QED BY <2>1, <3>1, <3>3 DEF Keeps
    <2> QED BY <2>f, <2>2, <2>3
<1> QED BY <1>1, <1>2 DEF recvHello

(* A handler none of whose outcomes displaces a connection. *)
LEMMA HandleKeeps ==
    ASSUME NEW S, \A s \in S : Keeps(pool, s), Handle(S)
    PROVE  \A n \in Nodes : mConnectedMap[n] # NULL =>
                mConnectedMap'[n] \in {mConnectedMap[n], NULL}
BY DEF Handle, Become, Keeps, pool

(* No connection that was accepted is displaced by a later one to the same *)
(* node, however the two race.                                             *)
THEOREM ConnectionsKept == Spec => FirstConnectionStays
<1> DEFINE Stays == \A n \in Nodes : mConnectedMap[n] # NULL =>
                        mConnectedMap'[n] \in {mConnectedMap[n], NULL}
<1>1. IInv /\ [Next]_vars => [Stays]_vars
    <2> SUFFICES ASSUME IInv, Next PROVE Stays
        OBVIOUS
    <2>0. /\ PoolInv(pool, {}) /\ pool \in PoolType /\ now \in Nat
          /\ mConnectedMap = pool.mConnectedMap
        BY DEF IInv, PoolInv, TypeOK, pool
    <2>1. CASE Start
        BY <2>1 DEF Start, IInv
    <2>2. CASE Crash
        BY <2>2 DEF Crash
    <2>3. CASE Tick \/ fetchDirty
        BY <2>3 DEF Tick, fetchDirty
    <2>4. CASE scanHandler
        <3> DEFINE u == [pool EXCEPT !.mScanTimer = NULL]
        <3>1. u \in PoolType /\ u.mConnectedMap = pool.mConnectedMap
            BY <2>0 DEF PoolType
        <3>2. Handle(scanRefresh(u))
            BY <2>4 DEF scanHandler
        <3> HIDE DEF u
        <3>3. \A s \in scanRefresh(u) : Keeps(pool, s)
            BY <2>0, <3>1, ScanRefreshFrame DEF Keeps
        <3> QED BY <3>2, <3>3, HandleKeeps
    <2>5. CASE policyHandler
        <3>1. \A s \in policyLowWater(pool) : Keeps(pool, s)
            <4>1. ASSUME NEW K, NEW f PROVE Keeps(pool, ConnectAll(pool, K, f))
                BY <2>0 DEF ConnectAll, Keeps, PoolType
            <4> QED BY <4>1 DEF policyLowWater, Keeps
        <3> QED BY <2>5, <3>1, HandleKeeps DEF policyHandler
    <2>6. ASSUME NEW a \in Addrs, connectTo(a) PROVE Stays
        <3> DEFINE u == [pool EXCEPT !.PeerIps[a] = NewRow]
        <3>1. u \in PoolType /\ u.mConnectedMap = pool.mConnectedMap
            BY <2>0 DEF PoolType, NewRow, Row
        <3>2. PICK s \in scanRefresh(u) : Become(s)
            BY <2>6 DEF connectTo
        <3> HIDE DEF u
        <3> QED BY <2>0, <3>1, <3>2, ScanRefreshFrame DEF Become
    <2>7. ASSUME NEW A \in SUBSET Addrs, nodeBootstrap(A) PROVE Stays
        BY <2>0, <2>7 DEF nodeBootstrap, Become, ReplaceRows, PoolType
    <2>8. ASSUME NEW A \in SUBSET Addrs, scoreTimerHandler(A) PROVE Stays
        <3> DEFINE u == ReplaceRows(pool, A)
        <3>1. u \in PoolType /\ u.mConnectedMap = pool.mConnectedMap
            BY <2>0 DEF ReplaceRows, PoolType, NewRow, Row
        <3>2. PICK s \in scanRefresh(u) : Become(s)
            BY <2>8 DEF scoreTimerHandler
        <3> HIDE DEF u
        <3> QED BY <2>0, <3>1, <3>2, ScanRefreshFrame DEF Become
    <2>9. ASSUME NEW p \in Peers, PeerEvent(p) PROVE Stays
        <3>1. CASE connected(p) \/ handleConnect(p) \/ handleStart(p)
            BY <2>0, <3>1 DEF connected, handleConnect, handleStart, Handle,
               Become, PoolType
        <3>2. CASE handleVerifyTimer(p) \/ PeerFails(p)
            <4>1. \A s \in detach(pool, p) : Keeps(pool, s)
                BY <2>0, DetachKeeps
            <4> QED BY <3>2, <4>1, HandleKeeps DEF handleVerifyTimer, PeerFails
        <3>3. CASE RecvHello(p)
            <4>1. PICK n \in Nodes, guess \in Addrs, late \in BOOLEAN :
                    Handle(recvHello(pool, p, n, guess, late))
                BY <3>3 DEF RecvHello
            <4>2. Live(pool, p) /\ ~pool.peer[p].mHelloed
                BY <3>3 DEF RecvHello, Live, pool
            <4>3. \A s \in recvHello(pool, p, n, guess, late) : Keeps(pool, s)
                BY <2>0, <4>2, RecvHelloKeeps
            <4> QED BY <4>1, <4>3, HandleKeeps
        <3>4. CASE RecvPeers(p)
            <4>1. PICK told \in SUBSET Addrs :
                    \E first \in told : Handle(recvPeers(pool, told, first))
                BY <3>4 DEF RecvPeers
            <4>2. PICK first \in told : Handle(recvPeers(pool, told, first))
                BY <4>1
            <4>3. ASSUME NEW s \in recvPeers(pool, told, first)
                  PROVE  Keeps(pool, s)
                <5>1. PICK x \in savePeer(pool, first) :
                        s = [x EXCEPT !.PeerIps =
                               [a \in Addrs |-> IF a \in told /\ @[a] = NULL /\ ~x.fault
                                                THEN NewRow ELSE @[a]]]
                    BY <4>3 DEF recvPeers
                <5>2. x \in PoolType /\ x.mConnectedMap = pool.mConnectedMap
                    BY <2>0, SavePeerKeeps
                <5> QED BY <5>1, <5>2 DEF Keeps, PoolType
            <4> QED BY <4>2, <4>3, HandleKeeps
        <3> QED BY <2>9, <3>1, <3>2, <3>3, <3>4 DEF PeerEvent
    <2> QED BY <2>1, <2>2, <2>3, <2>4, <2>5, <2>6, <2>7, <2>8, <2>9 DEF Next
<1>2. []IInv /\ [][Next]_vars => [][Stays]_vars
    BY <1>1, PTL
<1> QED BY <1>2, Invariance, PTL DEF Spec, FirstConnectionStays
=============================================================================
