------------------------------ MODULE HttpsClient ------------------------------
(***************************************************************************)
(* One HttpsClient object (shared/HttpsClient): it fetches a page from a   *)
(* list of sites, one site after the other.  Every site has one chain of   *)
(* asynchronous operations (resolve, connect, handshake, write, read) and  *)
(* one deadline timer, and the two race: the timer may expire, and its     *)
(* handler may already be queued, when the chain ends and cancels it.      *)
(*                                                                         *)
(* What matters of a site is its place in the list, so mDeqSites is the    *)
(* number of sites left and that number names the site being fetched.  The *)
(* stream and the two buffers are shared by all sites.  A buffer is the    *)
(* set of sites whose bytes stand in it; as the numbers count down, it     *)
(* holds them from the largest to the smallest.                            *)
(***************************************************************************)
EXTENDS Naturals, Sequences, FiniteSets

CONSTANT MaxSites     \* length of the longest list of sites

ASSUME MaxSitesAssumption == MaxSites \in Nat \ {0}

VARIABLES
    mDeqSites,        \* sites left, the one being fetched included
    mShutdown,        \* "ok", "eof" or "error"
    mDeadline,        \* the timer: "off", "armed", or "expired" (handler queued)
    pending,          \* asynchronous operations under way
    late,             \* sites whose cancelled timer had already expired
    results,          \* the calls of mComplete
    mSocketSsl,       \* "none", "session" (once a handshake succeeded), or
                      \* "blocked": a shutdown waits, and the loop with it
    mRequest,         \* sites whose requests stand in the buffer to write
    mResponse,        \* sites whose bytes stand in the buffer read into
    sent,             \* history: the requests in the last completed write
    failed,           \* history: the writes and reads that ended in an error
    struck            \* history: <<t, s>>, the timer of t struck during s

chainVars == <<mDeqSites, mShutdown, mDeadline, pending, late, results>>
streamVars == <<mSocketSsl, mRequest, mResponse, sent, failed>>
vars == <<chainVars, streamVars, struck>>

Sites == 1..MaxSites

Kinds == {"resolve", "connect", "handshake", "write", "read"}

Op(kind, site) == [kind |-> kind, site |-> site]

\* mComplete's arguments; data is the set of sites the page is made of.
Result(ec, data) == [ec |-> ec, data |-> data]

NoPage == Result("error", {})

Started == pending # {} \/ results # <<>>

TypeOK ==
    /\ mDeqSites \in 0..MaxSites
    /\ mShutdown \in {"ok", "eof", "error"}
    /\ mDeadline \in {"off", "armed", "expired"}
    /\ pending \in SUBSET [kind : Kinds, site : Sites]
    /\ late \in SUBSET Sites
    /\ results \in Seq([ec : {"ok", "error"}, data : SUBSET Sites])
    /\ mSocketSsl \in {"none", "session", "blocked"}
    /\ mRequest \in SUBSET Sites
    /\ mResponse \in SUBSET Sites
    /\ sent \in SUBSET Sites
    /\ failed \in SUBSET [kind : Kinds, site : Sites]
    /\ struck \in SUBSET (Sites \X (0..MaxSites))

Init ==
    /\ mDeqSites = 0
    /\ mShutdown = "ok"
    /\ mDeadline = "off"
    /\ pending = {}
    /\ late = {}
    /\ results = <<>>
    /\ mSocketSsl = "none"
    /\ mRequest = {}
    /\ mResponse = {}
    /\ sent = {}
    /\ failed = {}
    /\ struck = {}

-------------------------------------------------------------------------------
(* httpsNext and invokeComplete.                                           *)

\* Try the next of n sites.  set_default_verify_paths resets mShutdown.  A
\* site whose local preparations fail is dropped at once (httpsNext calls
\* invokeComplete, which calls httpsNext), before its timer is set; when all
\* are dropped the client completes with the error.
httpsNext(n, ops) ==
    \E left \in 0..n :
        /\ mDeqSites' = left
        /\ IF left = 0
           THEN /\ mShutdown' = "error"
                /\ mDeadline' = "off"
                /\ pending' = ops
                /\ results' = Append(results, NoPage)
           ELSE /\ mShutdown' = "ok"
                /\ mDeadline' = "armed"
                /\ pending' = ops \cup {Op("resolve", left)}
                /\ UNCHANGED results

\* Fault: the completion routine is called for every site that ends.
invokeCompleteEach(sh, res, ops) ==
    /\ late' = IF mDeadline = "expired" THEN late \cup {mDeqSites} ELSE late
    /\ IF mDeqSites = 1
       THEN /\ mDeqSites' = 0
            /\ mShutdown' = sh
            /\ mDeadline' = "off"
            /\ pending' = ops
            /\ results' = Append(results, res)
       ELSE /\ mDeqSites' = mDeqSites - 1
            /\ mShutdown' = "ok"
            /\ mDeadline' = "armed"
            /\ pending' = ops \cup {Op("resolve", mDeqSites - 1)}
            /\ results' = Append(results, res)

\* Fault: the last site's operation ends without calling the routine.
invokeCompleteSilent(sh, res, ops) ==
    /\ late' = IF mDeadline = "expired" THEN late \cup {mDeqSites} ELSE late
    /\ IF mDeqSites = 1
       THEN /\ mDeqSites' = 0
            /\ mShutdown' = sh
            /\ mDeadline' = "off"
            /\ pending' = ops
            /\ UNCHANGED results
       ELSE httpsNext(mDeqSites - 1, ops)

\* The front site is over: its timer is cancelled (which cannot take back a
\* handler that is already queued), the site is dropped, and the next one is
\* tried; mComplete is called when none is left.  sh is mShutdown, res what
\* this site would complete with, ops the operations still under way.
invokeComplete(sh, res, ops) ==
    /\ late' = IF mDeadline = "expired" THEN late \cup {mDeqSites} ELSE late
    /\ IF mDeqSites = 1
       THEN /\ mDeqSites' = 0
            /\ mShutdown' = sh
            /\ mDeadline' = "off"
            /\ pending' = ops
            /\ results' = Append(results, res)
       ELSE httpsNext(mDeqSites - 1, ops)

-------------------------------------------------------------------------------
(* The requests and the handlers.                                          *)

\* A request: a single site, or the list that fetchProcess makes.
httpsGet ==
    /\ ~Started
    /\ \E n \in Sites : httpsNext(n, {})
    /\ UNCHANGED <<late, streamVars, struck>>

\* "if (!mShutdown) mShutdown = ecResult": the first error is kept.
Shut(ec) == IF mShutdown = "ok" THEN ec ELSE mShutdown

\* Fault: the error branch falls through and starts the next operation too.
ContinueBoth(kind, next, ec) ==
    /\ mSocketSsl # "blocked"
    /\ \E op \in pending :
        /\ op.kind = kind
        /\ LET rest == pending \ {op} IN
           IF Shut(ec) = "ok"
           THEN /\ mShutdown' = "ok"
                /\ pending' = rest \cup {Op(next, op.site)}
                /\ UNCHANGED <<mDeqSites, mDeadline, late, results>>
           ELSE invokeComplete(Shut(ec), NoPage, rest \cup {Op(next, op.site)})
    /\ UNCHANGED struck

\* What the first four handlers of a chain have in common: on an error the
\* site is over, otherwise the next operation is started.  No handler runs
\* while a shutdown blocks the thread of the loop.
Continue(kind, next, ec) ==
    /\ mSocketSsl # "blocked"
    /\ \E op \in pending :
        /\ op.kind = kind
        /\ LET rest == pending \ {op} IN
           IF Shut(ec) = "ok"
           THEN /\ mShutdown' = "ok"
                /\ pending' = rest \cup {Op(next, op.site)}
                /\ UNCHANGED <<mDeqSites, mDeadline, late, results>>
           ELSE invokeComplete(Shut(ec), NoPage, rest)
    /\ UNCHANGED struck

handleResolve(ec) ==
    /\ Continue("resolve", "connect", ec)
    /\ UNCHANGED streamVars

\* An error here may also come from set_verify_callback.
handleConnect(ec) ==
    /\ Continue("connect", "handshake", ec)
    /\ UNCHANGED streamVars

\* The request is put behind what the buffer holds.
handleRequest(ec) ==
    /\ Continue("handshake", "write", ec)
    /\ mSocketSsl' = IF ec = "ok" THEN "session" ELSE mSocketSsl
    /\ mRequest' = IF Shut(ec) = "ok" THEN mRequest \cup {mDeqSites} ELSE mRequest
    /\ UNCHANGED <<mResponse, sent, failed>>

\* async_write takes what it wrote out of the buffer: all of it, or on an
\* error a first part.
handleWrite(ec) ==
    /\ Continue("write", "read", ec)
    /\ IF ec = "ok"
       THEN /\ mRequest' = {}
            /\ sent' = mRequest
            /\ UNCHANGED failed
       ELSE /\ \E last \in 0..MaxSites : mRequest' = {s \in mRequest : s <= last}
            /\ failed' = failed \cup {Op("write", mDeqSites)}
            /\ UNCHANGED sent
    /\ UNCHANGED <<mSocketSsl, mResponse>>

\* Fault: a page that is refused stays in the buffer.
handleDataKeeps(ec, bytes, match) ==
    /\ mSocketSsl # "blocked"
    /\ \E op \in pending :
        LET rest == pending \ {op}
            strData == IF bytes THEN mResponse \cup {op.site} ELSE mResponse
        IN  /\ op.kind = "read"
            /\ IF Shut(ec) = "error"
               THEN /\ invokeComplete("error", NoPage, rest)
                    /\ failed' = failed \cup {op}
               ELSE /\ match => strData # {}
                    /\ invokeComplete(Shut(ec),
                           IF match THEN Result("ok", strData) ELSE NoPage, rest)
                    /\ UNCHANGED failed
            /\ mResponse' = strData
    /\ UNCHANGED <<mSocketSsl, mRequest, sent, struck>>

\* The read ends, with or without bytes of this site.  The response is
\* complete when the server closes (eof) or the buffer is full (ok): parseData
\* then empties the buffer and finds in all it held a page with status 200, or
\* none.  After an error the bytes stay in the buffer.
handleData(ec, bytes, match) ==
    /\ mSocketSsl # "blocked"
    /\ \E op \in pending :
        LET rest == pending \ {op}
            strData == IF bytes THEN mResponse \cup {op.site} ELSE mResponse
        IN  /\ op.kind = "read"
            /\ IF Shut(ec) = "error"
               THEN /\ invokeComplete("error", NoPage, rest)
                    /\ mResponse' = strData
                    /\ failed' = failed \cup {op}
               ELSE /\ match => strData # {}
                    /\ invokeComplete(Shut(ec),
                           IF match THEN Result("ok", strData) ELSE NoPage, rest)
                    /\ mResponse' = {}
                    /\ UNCHANGED failed
    /\ UNCHANGED <<mSocketSsl, mRequest, sent, struck>>

\* The deadline passes: the handler is queued.
DeadlineExpires ==
    /\ mDeadline = "armed"
    /\ mDeadline' = "expired"
    /\ UNCHANGED <<mDeqSites, mShutdown, pending, late, results, streamVars, struck>>

\* Fault: the handler forgets to mark the shutdown.
StopTransactionQuiet ==
    /\ mSocketSsl # "blocked"
    /\ mSocketSsl' \in IF mSocketSsl = "session" THEN {"session", "blocked"} ELSE {mSocketSsl}
    /\ UNCHANGED <<mDeqSites, mShutdown, pending, results, mRequest, mResponse, sent, failed>>

\* What the deadline's handler does: the client is marked as shutting down,
\* resolving is cancelled, and the stream is shut down synchronously.  Without
\* a session that fails at once; with one it waits until the site answers or
\* closes.  The operation under way is not cancelled.
StopTransaction ==
    /\ mSocketSsl # "blocked"
    /\ mShutdown' = "error"
    /\ mSocketSsl' \in IF mSocketSsl = "session" THEN {"session", "blocked"} ELSE {mSocketSsl}
    /\ UNCHANGED <<mDeqSites, pending, results, mRequest, mResponse, sent, failed>>

handleDeadline ==
    /\ mDeadline = "expired"
    /\ mDeadline' = "off"
    /\ struck' = struck \cup {<<mDeqSites, mDeqSites>>}
    /\ StopTransaction
    /\ UNCHANGED late

\* The same handler, when its site was over before it ran.
handleDeadlineLate ==
    \E t \in late :
        /\ late' = late \ {t}
        /\ struck' = struck \cup {<<t, mDeqSites>>}
        /\ StopTransaction
        /\ UNCHANGED mDeadline

\* The site answers the shutdown, or closes the connection.
ShutdownReturns ==
    /\ mSocketSsl = "blocked"
    /\ mSocketSsl' = "session"
    /\ UNCHANGED <<chainVars, mRequest, mResponse, sent, failed, struck>>

\* A handler runs; ec is what the operation reports.
Operation ==
    \/ \E ec \in {"ok", "error"} :
        \/ handleResolve(ec)
        \/ handleConnect(ec)
        \/ handleRequest(ec)
        \/ handleWrite(ec)
    \/ \E ec \in {"ok", "eof", "error"}, bytes, match \in BOOLEAN :
        handleData(ec, bytes, match)

Next ==
    \/ httpsGet
    \/ Operation
    \/ DeadlineExpires
    \/ handleDeadline
    \/ handleDeadlineLate
    \/ ShutdownReturns

Safety == Init /\ [][Next]_vars

\* Resolving that was cancelled ends, and the system gives up connecting
\* after a while.
ResolveEnds == mShutdown = "error" /\ \E ec \in {"ok", "error"} : handleResolve(ec)
ConnectEnds == \E ec \in {"ok", "error"} : handleConnect(ec)

\* Timers expire and queued handlers run.  A site that stands still lets a
\* handshake, a write, a read or a shutdown wait for ever: none of them is fair.
Fairness ==
    /\ WF_vars(DeadlineExpires)
    /\ WF_vars(handleDeadline)
    /\ WF_vars(ResolveEnds)
    /\ WF_vars(ConnectEnds)

Spec == Safety /\ Fairness

-------------------------------------------------------------------------------
(* Properties.                                                             *)

\* One chain at a time, for the front site: mSocketSsl, mRequest and
\* mResponse are shared by the sites and never used by two operations
\* (httpsNext, handleResolve ... handleData).
OneOperation ==
    /\ Cardinality(pending) <= 1
    /\ \A op \in pending : op.site = mDeqSites

\* mComplete is called once, and exactly when the last site has been dropped
\* (invokeComplete); until then some operation is under way.
CompletedOnce ==
    /\ Len(results) <= 1
    /\ Started => (results # <<>> <=> mDeqSites = 0)
    /\ mDeqSites # 0 <=> pending # {}

\* Nothing is waited for without a deadline: while an operation is under way
\* its site's timer is set, or the shutdown it causes is (httpsNext,
\* handleDeadline).
Supervised ==
    pending # {} => mDeadline # "off" \/ mShutdown = "error"

\* What a delivered page is made of.  Only the last site's read delivers, and
\* only when no deadline struck while that site was fetched ("If not success,
\* we are shutting down" is never undone within a site).  The request it
\* answers and the page are the last site's own; the only other bytes in them
\* are leftovers of writes and reads that failed, which the buffers shared by
\* the sites keep (handleWrite, handleData, parseData).
DeliveredHonestly ==
    \A i \in DOMAIN results :
        results[i].ec = "ok" =>
            /\ \A t \in Sites : <<t, 1>> \notin struck
            /\ 1 \in sent
            /\ \A s \in sent \ {1} : Op("write", s) \in failed
            /\ results[i].data # {}
            /\ \A s \in results[i].data \ {1} : Op("read", s) \in failed
            /\ Op("read", 1) \notin failed

\* The status and the outcome of the request, as the caller sees them.
Get == INSTANCE HttpsGet WITH
    status <- CASE results # <<>> -> "done"
                [] results = <<>> /\ pending # {} -> "busy"
                [] OTHER -> "idle",
    outcome <- CASE results = <<>> -> "none"
                 [] results # <<>> /\ results[1].ec = "ok" -> "page"
                 [] OTHER -> "error"

\* The site is past its deadline and stands still: only it can end the
\* operation under way, or the shutdown that blocks the loop.
Stuck ==
    \/ mSocketSsl = "blocked"
    \/ /\ mShutdown = "error"
       /\ \E op \in pending : op.kind \in {"handshake", "write", "read"}

\* The client does what HttpsGet promises: one answer to each request, and an
\* answer in the end, unless a site that stands still past its deadline is
\* stuck with for ever (handleDeadline, invokeComplete).
ImplementsGet == Get!GetSafety /\ ([]<>~Stuck => Get!GetLive)

\* "Stop the transaction." (handleDeadline): once a deadline has struck a
\* site, the client is done with that site in the end.
DeadlineStops ==
    \A s \in Sites : <<s, s>> \in struck ~> mDeqSites < s
===============================================================================
