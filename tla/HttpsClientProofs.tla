--------------------------- MODULE HttpsClientProofs ---------------------------
(***************************************************************************)
(* Proofs about HttpsClient, for lists of sites of every length.           *)
(***************************************************************************)
EXTENDS HttpsClient, FiniteSetTheorems, TLAPS

-------------------------------------------------------------------------------
(* The inductive invariant.                                                *)

\* At most one operation is under way, for the front site, and there is one
\* as long as sites are left; no timer is set when none is.
Chain ==
    \/ mDeqSites = 0 /\ pending = {} /\ mDeadline = "off"
    \/ mDeqSites # 0 /\ \E k \in Kinds : pending = {Op(k, mDeqSites)}

\* Nothing happens before the request; nothing is delivered before the end.
Order ==
    /\ ~Started => late = {} /\ struck = {} /\ failed = {}
    /\ Len(results) <= 1
    /\ results # <<>> => mDeqSites = 0

\* A deadline that struck did so at this site or at an earlier one, and when
\* at this one the shutdown it caused still holds.
Strikes ==
    \A p \in struck :
        /\ p[2] >= mDeqSites
        /\ p[2] = mDeqSites /\ pending # {} => mShutdown = "error"

\* What the buffers hold besides the request being written is left by writes
\* and reads that failed, and those were made for sites that are over.
Leftovers ==
    /\ \A s \in mResponse : Op("read", s) \in failed
    /\ \A s \in mRequest : Op("write", s) \in failed \/ Op("write", s) \in pending
    /\ \A op \in failed : op.site > mDeqSites

\* The site's own request is being written, or was before its answer is read.
Asked ==
    \A op \in pending :
        /\ op.kind = "write" => op.site \in mRequest
        /\ op.kind = "read" =>
               /\ op.site \in sent
               /\ \A s \in sent \ {op.site} : Op("write", s) \in failed

IInv ==
    /\ TypeOK
    /\ Chain
    /\ Order
    /\ Supervised
    /\ Strikes
    /\ Leftovers
    /\ Asked
    /\ DeliveredHonestly

-------------------------------------------------------------------------------
(* Lemmas.                                                                 *)

\* Of the operations under way none is left when one of them is taken.
LEMMA OnlyOne ==
    ASSUME IInv, NEW op \in pending
    PROVE  /\ pending \ {op} = {}
           /\ op.site = mDeqSites
           /\ mDeqSites # 0
           /\ results = <<>>
           /\ op = Op(op.kind, mDeqSites)
  BY DEF IInv, TypeOK, Chain, Order, Op

\* The stream and the buffers keep their types.
StreamTypes ==
    /\ mSocketSsl \in {"none", "session", "blocked"}
    /\ mRequest \in SUBSET Sites
    /\ mResponse \in SUBSET Sites
    /\ sent \in SUBSET Sites
    /\ failed \in SUBSET [kind : Kinds, site : Sites]

\* Only leftovers stand in the buffers.
OnlyLeftovers ==
    /\ \A s \in mResponse : Op("read", s) \in failed
    /\ \A s \in mRequest : Op("write", s) \in failed

\* Taking up the next of n sites, with no operation under way.
LEMMA NextSite ==
    ASSUME TypeOK, MaxSites \in Nat, NEW n \in 0..MaxSites, results = <<>>,
           httpsNext(n, {}), late' \in SUBSET Sites, StreamTypes', OnlyLeftovers',
           \A op \in failed' : op.site > n,
           struck' = struck, \A p \in struck : p[2] > n
    PROVE  IInv'
  <1>1. PICK left \in 0..n :
            /\ mDeqSites' = left
            /\ IF left = 0
               THEN /\ mShutdown' = "error"
                    /\ mDeadline' = "off"
                    /\ pending' = {}
                    /\ results' = Append(results, NoPage)
               ELSE /\ mShutdown' = "ok"
                    /\ mDeadline' = "armed"
                    /\ pending' = {} \cup {Op("resolve", left)}
                    /\ UNCHANGED results
    BY DEF httpsNext
  <1>2. left \in 0..MaxSites /\ (left # 0 => left \in Sites)
    BY DEF Sites
  <1>3. Leftovers'
    <2>1. \A op \in failed' : op.site \in Nat /\ op.site > left
      BY DEF StreamTypes, Sites
    <2> QED
      BY <1>1, <2>1 DEF Leftovers, OnlyLeftovers
  <1>4. CASE left = 0
    <2>1. results' = <<NoPage>>
      BY <1>1, <1>4
    <2>2. TypeOK'
      BY <1>1, <1>2, <1>4, <2>1 DEF TypeOK, StreamTypes, NoPage, Result
    <2>3. Chain' /\ Supervised' /\ Asked'
      BY <1>1, <1>4 DEF Chain, Supervised, Asked
    <2>4. Order'
      BY <1>1, <1>4, <2>1 DEF Order, Started
    <2>5. Strikes'
      BY <1>1, <1>4 DEF Strikes, TypeOK
    <2>6. DeliveredHonestly'
      BY <2>1 DEF DeliveredHonestly, NoPage, Result
    <2> QED
      BY <1>3, <2>2, <2>3, <2>4, <2>5, <2>6 DEF IInv
  <1>5. CASE left # 0
    <2>1. /\ mShutdown' = "ok"
          /\ mDeadline' = "armed"
          /\ pending' = {Op("resolve", left)}
          /\ results' = <<>>
      BY <1>1, <1>5
    <2>2. TypeOK'
      BY <1>1, <1>2, <1>5, <2>1 DEF TypeOK, StreamTypes, Op, Kinds
    <2>3. Chain' /\ Supervised'
      BY <1>1, <1>5, <2>1 DEF Chain, Supervised, Kinds
    <2>4. Order' /\ Asked'
      BY <2>1 DEF Order, Started, Asked, Op
    <2>5. Strikes'
      BY <1>1, <2>1 DEF Strikes, TypeOK
    <2>6. DeliveredHonestly'
      BY <2>1 DEF DeliveredHonestly
    <2> QED
      BY <1>3, <2>2, <2>3, <2>4, <2>5, <2>6 DEF IInv
  <1> QED
    BY <1>4, <1>5

\* The front site is over.  A page is only offered when the client is not
\* shutting down, for the site's own request, and made of its own bytes and
\* of leftovers.
LEMMA SiteOver ==
    ASSUME IInv, MaxSites \in Nat, pending # {},
           NEW sh \in {"ok", "eof", "error"},
           NEW res \in [ec : {"ok", "error"}, data : SUBSET Sites],
           res.ec = "ok" =>
               /\ mShutdown # "error"
               /\ mDeqSites \in sent'
               /\ \A s \in sent' \ {mDeqSites} : Op("write", s) \in failed'
               /\ res.data # {}
               /\ \A s \in res.data \ {mDeqSites} : Op("read", s) \in failed'
               /\ Op("read", mDeqSites) \notin failed',
           invokeComplete(sh, res, {}),
           StreamTypes', OnlyLeftovers', \A op \in failed' : op.site >= mDeqSites,
           struck' = struck
    PROVE  IInv'
  <1>1. mDeqSites \in Sites /\ results = <<>>
    BY DEF IInv, TypeOK, Chain, Order, Sites
  <1>2. late' \in SUBSET Sites
    BY <1>1 DEF invokeComplete, IInv, TypeOK
  <1>3. CASE mDeqSites # 1
    <2>1. httpsNext(mDeqSites - 1, {})
      BY <1>3 DEF invokeComplete
    <2>2. mDeqSites - 1 \in 0..MaxSites
      BY <1>1 DEF Sites
    <2>3. \A p \in struck : p[2] > mDeqSites - 1
      BY <1>1 DEF IInv, Strikes, TypeOK, Sites
    <2>4. \A op \in failed' : op.site > mDeqSites - 1
      BY <1>1 DEF StreamTypes, Sites
    <2> QED
      BY <1>1, <1>2, <2>1, <2>2, <2>3, <2>4, NextSite DEF IInv
  <1>4. CASE mDeqSites = 1
    <2>1. /\ mDeqSites' = 0
          /\ mShutdown' = sh
          /\ mDeadline' = "off"
          /\ pending' = {}
          /\ results' = <<res>>
      BY <1>1, <1>4 DEF invokeComplete
    <2>2. TypeOK'
      BY <1>2, <2>1 DEF IInv, TypeOK, StreamTypes
    <2>3. Chain' /\ Supervised' /\ Asked'
      BY <2>1 DEF Chain, Supervised, Asked
    <2>4. Order'
      BY <2>1 DEF Order, Started
    <2>5. Strikes'
      BY <2>1 DEF Strikes, IInv, TypeOK
    <2>6. Leftovers'
      <3>1. \A op \in failed' : op.site > 0
        BY DEF StreamTypes, Sites
      <3> QED
        BY <2>1, <3>1 DEF Leftovers, OnlyLeftovers
    <2>7. res.ec = "ok" => \A t \in Sites : <<t, 1>> \notin struck
      BY <1>4 DEF IInv, Strikes
    <2>8. DeliveredHonestly'
      BY <1>4, <2>1, <2>7 DEF DeliveredHonestly
    <2> QED
      BY <2>2, <2>3, <2>4, <2>5, <2>6, <2>8 DEF IInv
  <1> QED
    BY <1>3, <1>4

\* What the first four handlers have in common, when the site goes on ...
LEMMA ChainGoesOn ==
    ASSUME IInv, NEW kind, NEW next \in Kinds,
           NEW ec \in {"ok", "error"}, Continue(kind, next, ec), Shut(ec) = "ok",
           StreamTypes', Leftovers', Asked'
    PROVE  IInv'
  <1>1. PICK op \in pending :
            /\ op.kind = kind
            /\ mShutdown' = "ok"
            /\ pending' = (pending \ {op}) \cup {Op(next, op.site)}
            /\ UNCHANGED <<mDeqSites, mDeadline, late, results, struck>>
    BY DEF Continue
  <1>2. /\ pending \ {op} = {}
        /\ op.site = mDeqSites
        /\ mDeqSites # 0
        /\ results = <<>>
    BY OnlyOne
  <1>3. mShutdown = "ok"
    BY DEF Shut
  <1>4. /\ pending' = {Op(next, mDeqSites)}
        /\ mShutdown' = mShutdown
    BY <1>1, <1>2, <1>3
  <1>5. TypeOK'
    BY <1>1, <1>2, <1>4 DEF IInv, TypeOK, StreamTypes, Op, Sites
  <1>6. Chain' /\ Supervised'
    BY <1>1, <1>2, <1>4 DEF IInv, Chain, Supervised
  <1>7. Order' /\ Strikes'
    BY <1>1, <1>2, <1>4 DEF IInv, Order, Strikes, Started
  <1>8. DeliveredHonestly'
    BY <1>1, <1>2 DEF DeliveredHonestly
  <1> QED
    BY <1>5, <1>6, <1>7, <1>8 DEF IInv

\* ... and when it is over.
LEMMA ChainEnds ==
    ASSUME IInv, MaxSites \in Nat, NEW kind, NEW next,
           NEW ec \in {"ok", "error"}, Continue(kind, next, ec), Shut(ec) # "ok",
           StreamTypes', OnlyLeftovers', \A op \in failed' : op.site >= mDeqSites
    PROVE  IInv'
  <1>1. PICK op \in pending :
            /\ invokeComplete(Shut(ec), NoPage, pending \ {op})
            /\ struck' = struck
    BY DEF Continue
  <1>2. pending \ {op} = {}
    BY OnlyOne
  <1>3. Shut(ec) \in {"ok", "eof", "error"}
    BY DEF Shut, IInv, TypeOK
  <1>4. invokeComplete(Shut(ec), NoPage, {})
    BY <1>1, <1>2
  <1>5. NoPage \in [ec : {"ok", "error"}, data : SUBSET Sites] /\ NoPage.ec # "ok"
    BY DEF NoPage, Result
  <1> QED
    BY <1>1, <1>3, <1>4, <1>5, SiteOver

\* The operation a handler ends, and the one it starts.
LEMMA ChainOps ==
    ASSUME IInv, NEW kind, NEW next, NEW ec, Continue(kind, next, ec)
    PROVE  /\ mDeqSites \in Sites
           /\ pending = {Op(kind, mDeqSites)}
           /\ Shut(ec) = "ok" => pending' = {Op(next, mDeqSites)} /\ mDeqSites' = mDeqSites
           /\ \A op \in failed : op.site >= mDeqSites
  <1>1. PICK op \in pending :
            /\ op.kind = kind
            /\ Shut(ec) = "ok" => /\ pending' = (pending \ {op}) \cup {Op(next, op.site)}
                                  /\ mDeqSites' = mDeqSites
    BY DEF Continue
  <1>2. pending \ {op} = {} /\ op.site = mDeqSites /\ op = Op(op.kind, mDeqSites)
    BY OnlyOne
  <1>3. mDeqSites \in Sites
    BY OnlyOne DEF IInv, TypeOK, Sites
  <1>4. \A f \in failed : f.site >= mDeqSites
    BY <1>3 DEF IInv, TypeOK, Leftovers, Sites
  <1> QED
    BY <1>1, <1>2, <1>3, <1>4

\* Resolving and connecting leave the stream and the buffers alone.
LEMMA QuietStep ==
    ASSUME IInv, MaxSites \in Nat, NEW ec \in {"ok", "error"},
           handleResolve(ec) \/ handleConnect(ec)
    PROVE  IInv'
  <1>1. PICK kind \in {"resolve", "connect"}, next \in {"connect", "handshake"} :
            Continue(kind, next, ec) /\ UNCHANGED streamVars
    BY DEF handleResolve, handleConnect
  <1>2. /\ pending = {Op(kind, mDeqSites)}
        /\ Shut(ec) = "ok" => pending' = {Op(next, mDeqSites)} /\ mDeqSites' = mDeqSites
        /\ \A op \in failed : op.site >= mDeqSites
    BY <1>1, ChainOps
  <1>3. StreamTypes' /\ OnlyLeftovers'
    BY <1>1, <1>2 DEF streamVars, IInv, TypeOK, StreamTypes, Leftovers, OnlyLeftovers, Op
  <1>4. CASE Shut(ec) = "ok"
    <2>1. Leftovers' /\ Asked'
      BY <1>1, <1>2, <1>3, <1>4 DEF streamVars, IInv, Leftovers, OnlyLeftovers, Asked, Op
    <2> QED
      BY <1>1, <1>3, <1>4, <2>1, ChainGoesOn DEF Kinds
  <1>5. CASE Shut(ec) # "ok"
    BY <1>1, <1>2, <1>3, <1>5, ChainEnds DEF streamVars
  <1> QED
    BY <1>4, <1>5

LEMMA RequestStep ==
    ASSUME IInv, MaxSites \in Nat, NEW ec \in {"ok", "error"}, handleRequest(ec)
    PROVE  IInv'
  <1>1. Continue("handshake", "write", ec)
    BY DEF handleRequest
  <1>2. /\ mDeqSites \in Sites
        /\ pending = {Op("handshake", mDeqSites)}
        /\ Shut(ec) = "ok" => pending' = {Op("write", mDeqSites)} /\ mDeqSites' = mDeqSites
        /\ \A op \in failed : op.site >= mDeqSites
    BY <1>1, ChainOps
  <1>3. StreamTypes'
    BY <1>2 DEF handleRequest, IInv, TypeOK, StreamTypes
  <1>4. OnlyLeftovers
    BY <1>2 DEF IInv, Leftovers, OnlyLeftovers, Op
  <1>5. CASE Shut(ec) = "ok"
    <2>1. Leftovers'
      BY <1>2, <1>4, <1>5 DEF handleRequest, IInv, Leftovers, OnlyLeftovers
    <2>2. Asked'
      BY <1>2, <1>5 DEF handleRequest, Asked, Op
    <2> QED
      BY <1>1, <1>3, <1>5, <2>1, <2>2, ChainGoesOn DEF Kinds
  <1>6. CASE Shut(ec) # "ok"
    <2>1. OnlyLeftovers' /\ failed' = failed
      BY <1>4, <1>6 DEF handleRequest, OnlyLeftovers
    <2> QED
      BY <1>1, <1>2, <1>3, <1>6, <2>1, ChainEnds
  <1> QED
    BY <1>5, <1>6

LEMMA WriteStep ==
    ASSUME IInv, MaxSites \in Nat, NEW ec \in {"ok", "error"}, handleWrite(ec)
    PROVE  IInv'
  <1>1. Continue("write", "read", ec)
    BY DEF handleWrite
  <1>2. /\ mDeqSites \in Sites
        /\ pending = {Op("write", mDeqSites)}
        /\ Shut(ec) = "ok" => pending' = {Op("read", mDeqSites)} /\ mDeqSites' = mDeqSites
        /\ \A op \in failed : op.site >= mDeqSites
    BY <1>1, ChainOps
  <1>3. /\ mDeqSites \in mRequest
        /\ \A s \in mRequest \ {mDeqSites} : Op("write", s) \in failed
        /\ \A s \in mResponse : Op("read", s) \in failed
    BY <1>2 DEF IInv, Leftovers, Asked, Op
  <1>4. CASE ec = "ok"
    <2>1. /\ mRequest' = {}
          /\ sent' = mRequest
          /\ UNCHANGED <<failed, mSocketSsl, mResponse>>
      BY <1>4 DEF handleWrite
    <2>2. StreamTypes' /\ OnlyLeftovers'
      BY <1>3, <2>1 DEF IInv, TypeOK, StreamTypes, OnlyLeftovers
    <2>3. CASE Shut(ec) = "ok"
      <3>1. Leftovers'
        BY <1>2, <1>3, <2>1, <2>3 DEF IInv, Leftovers
      <3>2. Asked'
        BY <1>2, <1>3, <2>1, <2>3 DEF Asked, Op
      <3> QED
        BY <1>1, <2>2, <2>3, <3>1, <3>2, ChainGoesOn DEF Kinds
    <2>4. CASE Shut(ec) # "ok"
      BY <1>1, <1>2, <2>1, <2>2, <2>4, ChainEnds
    <2> QED
      BY <2>3, <2>4
  <1>5. CASE ec = "error"
    <2>1. PICK last \in 0..MaxSites :
              /\ mRequest' = {s \in mRequest : s <= last}
              /\ failed' = failed \cup {Op("write", mDeqSites)}
              /\ UNCHANGED <<sent, mSocketSsl, mResponse>>
      BY <1>5 DEF handleWrite
    <2>2. Shut(ec) # "ok"
      BY <1>5 DEF Shut
    <2>3. StreamTypes'
      BY <1>2, <2>1 DEF IInv, TypeOK, StreamTypes, Op, Kinds
    <2>4. OnlyLeftovers'
      BY <1>3, <2>1 DEF OnlyLeftovers
    <2>5. \A op \in failed' : op.site >= mDeqSites
      BY <1>2, <2>1 DEF Op, Sites
    <2> QED
      BY <1>1, <2>2, <2>3, <2>4, <2>5, ChainEnds
  <1> QED
    BY <1>4, <1>5

LEMMA DataStep ==
    ASSUME IInv, MaxSites \in Nat, NEW ec \in {"ok", "eof", "error"},
           NEW bytes \in BOOLEAN, NEW match \in BOOLEAN, handleData(ec, bytes, match)
    PROVE  IInv'
  <1> DEFINE strData(op) == IF bytes THEN mResponse \cup {op.site} ELSE mResponse
  <1>1. PICK op \in pending :
            /\ op.kind = "read"
            /\ IF Shut(ec) = "error"
               THEN /\ invokeComplete("error", NoPage, pending \ {op})
                    /\ mResponse' = strData(op)
                    /\ failed' = failed \cup {op}
               ELSE /\ match => strData(op) # {}
                    /\ invokeComplete(Shut(ec),
                           IF match THEN Result("ok", strData(op)) ELSE NoPage,
                           pending \ {op})
                    /\ mResponse' = {}
                    /\ UNCHANGED failed
    BY DEF handleData
  <1>2. UNCHANGED <<mSocketSsl, mRequest, sent, struck>>
    BY DEF handleData
  <1>3. /\ pending \ {op} = {}
        /\ op = Op("read", mDeqSites)
        /\ op.site = mDeqSites
        /\ mDeqSites \in Sites
    BY <1>1, OnlyOne DEF IInv, TypeOK, Sites
  <1>4. pending = {Op("read", mDeqSites)}
    BY <1>3
  <1>5. /\ mDeqSites \in sent
        /\ \A s \in sent \ {mDeqSites} : Op("write", s) \in failed
        /\ \A s \in mRequest : Op("write", s) \in failed
        /\ \A s \in mResponse : Op("read", s) \in failed
    BY <1>1, <1>3, <1>4 DEF IInv, Leftovers, Asked, Op
  <1>6. \A f \in failed : f.site > mDeqSites /\ f.site >= mDeqSites
    BY <1>3 DEF IInv, TypeOK, Leftovers, Sites
  <1>7. Shut(ec) \in {"ok", "eof", "error"}
    BY DEF Shut, IInv, TypeOK
  <1>8. NoPage \in [ec : {"ok", "error"}, data : SUBSET Sites] /\ NoPage.ec # "ok"
    BY DEF NoPage, Result
  <1>9. strData(op) \in SUBSET Sites /\ \A s \in strData(op) \ {mDeqSites} : Op("read", s) \in failed
    BY <1>3, <1>5 DEF IInv, TypeOK
  <1> HIDE DEF strData
  <1>10. CASE Shut(ec) = "error"
    <2>1. invokeComplete("error", NoPage, {})
      BY <1>1, <1>3, <1>10
    <2>2. mResponse' = strData(op) /\ failed' = failed \cup {Op("read", mDeqSites)}
      BY <1>1, <1>3, <1>10
    <2>3. StreamTypes'
      BY <1>2, <1>3, <1>9, <2>2 DEF IInv, TypeOK, StreamTypes, Op, Kinds
    <2>4. OnlyLeftovers'
      BY <1>2, <1>5, <1>9, <2>2 DEF OnlyLeftovers
    <2>5. \A f \in failed' : f.site >= mDeqSites
      BY <1>3, <1>6, <2>2 DEF Op, Sites
    <2> QED
      BY <1>2, <1>4, <1>8, <2>1, <2>3, <2>4, <2>5, SiteOver
  <1>11. CASE Shut(ec) # "error"
    <2>1. mResponse' = {} /\ failed' = failed
      BY <1>1, <1>11
    <2>2. StreamTypes' /\ OnlyLeftovers'
      BY <1>2, <1>5, <2>1 DEF IInv, TypeOK, StreamTypes, OnlyLeftovers
    <2>3. CASE ~match
      BY <1>1, <1>2, <1>3, <1>4, <1>6, <1>7, <1>8, <1>11, <2>1, <2>2, <2>3, SiteOver
    <2>4. CASE match
      <3> DEFINE res == Result("ok", strData(op))
      <3>1. invokeComplete(Shut(ec), res, {})
        BY <1>1, <1>3, <1>11, <2>4
      <3>2. res \in [ec : {"ok", "error"}, data : SUBSET Sites]
        BY <1>9 DEF Result
      <3>3. /\ mShutdown # "error"
            /\ mDeqSites \in sent'
            /\ \A s \in sent' \ {mDeqSites} : Op("write", s) \in failed'
        BY <1>2, <1>5, <1>11, <2>1 DEF Shut
      <3>4. /\ res.data # {}
            /\ \A s \in res.data \ {mDeqSites} : Op("read", s) \in failed'
        BY <1>1, <1>9, <1>11, <2>1, <2>4 DEF Result
      <3>5. Op("read", mDeqSites) \notin failed'
        BY <1>3, <1>6, <2>1 DEF Op, Sites
      <3> HIDE DEF res
      <3> QED
        BY <1>2, <1>4, <1>6, <1>7, <2>1, <2>2, <3>1, <3>2, <3>3, <3>4, <3>5, SiteOver
    <2> QED
      BY <2>3, <2>4
  <1> QED
    BY <1>10, <1>11

LEMMA GetStep ==
    ASSUME IInv, MaxSites \in Nat, httpsGet
    PROVE  IInv'
  <1>1. PICK n \in Sites : httpsNext(n, {})
    BY DEF httpsGet
  <1>2. results = <<>> /\ struck = {}
    BY DEF httpsGet, Started, IInv, Order
  <1>3. n \in 0..MaxSites
    BY DEF Sites
  <1>4. struck' = struck /\ late' \in SUBSET Sites /\ StreamTypes'
    BY DEF httpsGet, streamVars, IInv, TypeOK, StreamTypes
  <1>5. OnlyLeftovers' /\ \A op \in failed' : op.site > n
    BY <1>2 DEF httpsGet, streamVars, Started, IInv, Order, Leftovers, OnlyLeftovers
  <1> QED
    BY <1>1, <1>2, <1>3, <1>4, <1>5, NextSite DEF IInv

LEMMA TimerStep ==
    ASSUME IInv, MaxSites \in Nat,
           DeadlineExpires \/ handleDeadline \/ handleDeadlineLate \/ ShutdownReturns
    PROVE  IInv'
  <1>1. CASE DeadlineExpires
    BY <1>1 DEF DeadlineExpires, streamVars, IInv, TypeOK, Chain, Order, Started,
                Supervised, Strikes, Leftovers, Asked, DeliveredHonestly
  <1>2. CASE ShutdownReturns
    BY <1>2 DEF ShutdownReturns, chainVars, IInv, TypeOK, Chain, Order, Started,
                Supervised, Strikes, Leftovers, Asked, DeliveredHonestly
  <1>3. ASSUME NEW t \in Sites,
               struck' = struck \cup {<<t, mDeqSites>>},
               StopTransaction,
               Started, mDeqSites = 0 => mDeadline' = mDeadline,
               late' \in SUBSET Sites,
               mDeadline' \in {"off", "armed", "expired"}
        PROVE  IInv'
    <2>1. /\ mShutdown' = "error"
          /\ mSocketSsl' \in {"none", "session", "blocked"}
          /\ UNCHANGED <<mDeqSites, pending, results, mRequest, mResponse, sent, failed>>
      BY <1>3 DEF StopTransaction, IInv, TypeOK
    <2>2. TypeOK'
      BY <1>3, <2>1 DEF IInv, TypeOK
    <2>3. Chain' /\ Order' /\ Supervised'
      BY <1>3, <2>1 DEF IInv, Chain, Order, Started, Supervised
    <2>4. Strikes'
      BY <1>3, <2>1 DEF IInv, Strikes, TypeOK
    <2>5. Leftovers' /\ Asked'
      BY <2>1 DEF IInv, Leftovers, Asked
    <2>6. DeliveredHonestly'
      <3>1. mDeqSites # 1 \/ results = <<>>
        BY DEF IInv, Order
      <3> QED
        BY <1>3, <2>1, <3>1 DEF IInv, DeliveredHonestly
    <2> QED
      BY <2>2, <2>3, <2>4, <2>5, <2>6 DEF IInv
  <1>4. CASE handleDeadline
    <2>1. mDeqSites \in Sites /\ Started
      BY <1>4 DEF handleDeadline, IInv, TypeOK, Chain, Sites, Started
    <2>2. /\ struck' = struck \cup {<<mDeqSites, mDeqSites>>}
          /\ StopTransaction
          /\ late' \in SUBSET Sites
          /\ mDeadline' \in {"off", "armed", "expired"}
          /\ mDeqSites # 0
      BY <1>4, <2>1 DEF handleDeadline, IInv, TypeOK, Sites
    <2> QED
      BY <1>3, <2>1, <2>2
  <1>5. CASE handleDeadlineLate
    <2>1. PICK t \in late :
              /\ late' = late \ {t}
              /\ struck' = struck \cup {<<t, mDeqSites>>}
              /\ StopTransaction
              /\ UNCHANGED mDeadline
      BY <1>5 DEF handleDeadlineLate
    <2>2. t \in Sites /\ Started
      BY DEF IInv, TypeOK, Order
    <2> QED
      BY <1>3, <2>1, <2>2 DEF IInv, TypeOK
  <1> QED
    BY <1>1, <1>2, <1>4, <1>5

-------------------------------------------------------------------------------
(* The theorems.                                                           *)

\* The inductive invariant holds of every behaviour.
THEOREM ClientInvariance == Safety => []IInv
  <1>1. MaxSites \in Nat
    BY MaxSitesAssumption
  <1>2. Init => IInv
    BY <1>1 DEF Init, IInv, TypeOK, Chain, Order, Started, Supervised, Strikes,
                Leftovers, Asked, DeliveredHonestly
  <1>3. IInv /\ [Next]_vars => IInv'
    <2> SUFFICES ASSUME IInv, [Next]_vars
                 PROVE  IInv'
      OBVIOUS
    <2>1. CASE httpsGet
      BY <1>1, <2>1, GetStep
    <2>2. CASE Operation
      <3>1. ASSUME NEW ec \in {"ok", "error"},
                   \/ handleResolve(ec)
                   \/ handleConnect(ec)
                   \/ handleRequest(ec)
                   \/ handleWrite(ec)
            PROVE  IInv'
        BY <1>1, <3>1, QuietStep, RequestStep, WriteStep
      <3>2. ASSUME NEW ec \in {"ok", "eof", "error"},
                   NEW bytes \in BOOLEAN, NEW match \in BOOLEAN,
                   handleData(ec, bytes, match)
            PROVE  IInv'
        BY <1>1, <3>2, DataStep
      <3> QED
        BY <2>2, <3>1, <3>2 DEF Operation
    <2>3. CASE DeadlineExpires \/ handleDeadline \/ handleDeadlineLate \/ ShutdownReturns
      BY <1>1, <2>3, TimerStep
    <2>4. CASE UNCHANGED vars
      BY <2>4 DEF vars, chainVars, streamVars, IInv, TypeOK, Chain, Order, Started,
                  Supervised, Strikes, Leftovers, Asked, DeliveredHonestly
    <2> QED
      BY <2>1, <2>2, <2>3, <2>4 DEF Next
  <1> QED
    BY <1>2, <1>3, PTL DEF Safety

\* One chain of operations at a time, whatever the timers and the sites do
\* (the handlers of HttpsClient).
THEOREM OneOperationAtATime == Safety => []OneOperation
  <1>1. IInv => OneOperation
    <2> SUFFICES ASSUME IInv
                 PROVE  OneOperation
      OBVIOUS
    <2>1. CASE pending = {}
      BY <2>1, FS_EmptySet DEF OneOperation
    <2>2. CASE pending # {}
      <3>1. PICK k \in Kinds : pending = {Op(k, mDeqSites)}
        BY <2>2 DEF IInv, Chain
      <3>2. Cardinality(pending) = 1
        BY <3>1, FS_Singleton
      <3>3. \A op \in pending : op.site = mDeqSites
        BY <3>1 DEF Op
      <3> QED
        BY <3>2, <3>3 DEF OneOperation
    <2> QED
      BY <2>1, <2>2
  <1> QED
    BY <1>1, ClientInvariance, PTL

\* The completion routine is called at most once, and when the last site is
\* dropped (invokeComplete).
THEOREM CompletedOnceCorrect == Safety => []CompletedOnce
  <1>1. IInv => CompletedOnce
    BY DEF IInv, Chain, Order, CompletedOnce, Started
  <1> QED
    BY <1>1, ClientInvariance, PTL

\* Every operation is under a deadline or being stopped (httpsNext,
\* handleDeadline).
THEOREM SupervisedCorrect == Safety => []Supervised
  <1>1. IInv => Supervised
    BY DEF IInv
  <1> QED
    BY <1>1, ClientInvariance, PTL

\* A delivered page answers the last site's own request, no deadline struck
\* that site, and the page holds besides its bytes only what failed reads left
\* in the shared buffer (handleWrite, handleData, parseData).
THEOREM DeliveredCorrect == Safety => []DeliveredHonestly
  <1>1. IInv => DeliveredHonestly
    BY DEF IInv
  <1> QED
    BY <1>1, ClientInvariance, PTL

-------------------------------------------------------------------------------
(* The client implements HttpsGet.                                         *)

\* The request goes on, or completes.
Moves ==
    \/ pending' # {} /\ results' = <<>>
    \/ pending' = {} /\ results' # <<>>

\* The end of a site leaves another operation under way, or completes.
LEMMA SiteOverMoves ==
    ASSUME results = <<>>, NEW sh, NEW res, invokeComplete(sh, res, {})
    PROVE  Moves
  <1>1. \A r : Append(<<>>, r) # <<>>
    OBVIOUS
  <1>2. CASE mDeqSites = 1
    BY <1>1, <1>2 DEF invokeComplete, Moves
  <1>3. CASE mDeqSites # 1
    BY <1>1, <1>3 DEF invokeComplete, httpsNext, Moves
  <1> QED
    BY <1>2, <1>3

\* What a step may do to the calls of mComplete: none is made once one was,
\* a request under way goes on or completes, and before a request the only
\* completion is the error of one that could not be started.
LEMMA StepShape ==
    ASSUME IInv, [Next]_vars
    PROVE  /\ results # <<>> => results' = results /\ pending' = pending
           /\ pending # {} => Moves
           /\ ~Started => results' = <<>> \/ (pending' = {} /\ results' = <<NoPage>>)
  <1>1. results # <<>> => pending = {}
    BY DEF IInv, Order, Chain
  <1>2. CASE httpsGet
    <2>1. PICK n \in Sites : httpsNext(n, {})
      BY <1>2 DEF httpsGet
    <2>2. pending = {} /\ results = <<>>
      BY <1>2 DEF httpsGet, Started
    <2> QED
      BY <2>1, <2>2 DEF httpsNext
  <1>3. CASE Operation
    <2>1. pending # {}
      BY <1>3 DEF Operation, handleResolve, handleConnect, handleRequest,
                  handleWrite, Continue, handleData
    <2>2. results = <<>>
      BY <1>1, <2>1
    <2>3. Moves
      <3>1. ASSUME NEW kind, NEW next, NEW ec, Continue(kind, next, ec)
            PROVE  Moves
        <4>1. PICK op \in pending :
                  IF Shut(ec) = "ok"
                  THEN /\ pending' = (pending \ {op}) \cup {Op(next, op.site)}
                       /\ results' = results
                  ELSE invokeComplete(Shut(ec), NoPage, pending \ {op})
          BY <3>1 DEF Continue
        <4>2. pending \ {op} = {}
          BY OnlyOne
        <4> QED
          BY <2>2, <4>1, <4>2, SiteOverMoves DEF Moves
      <3>2. ASSUME NEW ec, NEW bytes, NEW match, handleData(ec, bytes, match)
            PROVE  Moves
        <4>1. PICK op \in pending :
                  \E sh, res : invokeComplete(sh, res, pending \ {op})
          BY <3>2 DEF handleData
        <4>2. pending \ {op} = {}
          BY OnlyOne
        <4> QED
          BY <2>2, <4>1, <4>2, SiteOverMoves
      <3> QED
        BY <1>3, <3>1, <3>2 DEF Operation, handleResolve, handleConnect,
                                handleRequest, handleWrite
    <2> QED
      BY <2>1, <2>2, <2>3 DEF Started
  <1>4. CASE \/ DeadlineExpires \/ handleDeadline \/ handleDeadlineLate
             \/ ShutdownReturns \/ UNCHANGED vars
    <2>1. results' = results /\ pending' = pending
      BY <1>4 DEF DeadlineExpires, handleDeadline, handleDeadlineLate, ShutdownReturns,
                  StopTransaction, vars, chainVars
    <2> QED
      BY <1>1, <2>1 DEF Started, Moves
  <1> QED
    BY <1>2, <1>3, <1>4 DEF Next

\* Every behaviour of the client is one that HttpsGet allows: the completion
\* routine is called once, with a page or an error, and nothing follows
\* (httpsGet, invokeComplete).
THEOREM ClientRefinesGet == Safety => Get!GetSafety
  <1>1. Init => Get!GetInit
    BY DEF Init, Get!GetInit
  <1>2. IInv /\ [Next]_vars => [Get!GetNext]_(Get!getVars)
    <2> SUFFICES ASSUME IInv, [Next]_vars
                 PROVE  [Get!GetNext]_(Get!getVars)
      OBVIOUS
    <2>1. CASE results # <<>>
      BY <2>1, StepShape DEF Get!getVars
    <2>2. CASE results = <<>> /\ pending # {}
      BY <2>2, StepShape DEF Moves, Get!GetNext, Get!Complete, Get!getVars
    <2>3. CASE ~Started
      <3>1. results = <<>> /\ pending = {}
        BY <2>3 DEF Started
      <3>2. results' = <<>> \/ (pending' = {} /\ results' = <<NoPage>>)
        BY <2>3, StepShape
      <3>3. NoPage.ec # "ok"
        BY DEF NoPage, Result
      <3> QED
        BY <3>1, <3>2, <3>3 DEF Get!GetNext, Get!Get, Get!GetFails, Get!getVars
    <2> QED
      BY <2>1, <2>2, <2>3 DEF Started
  <1> QED
    BY <1>1, <1>2, ClientInvariance, PTL DEF Safety, Get!GetSafety
===============================================================================
