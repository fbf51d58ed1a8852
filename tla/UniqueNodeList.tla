---------------------------- MODULE UniqueNodeList ----------------------------
(***************************************************************************)
(* The two schedules of the unique node list (src/UniqueNodeList): when    *)
(* the newcoin.txt of a seed domain is fetched, and when the nodes are     *)
(* scored again.                                                           *)
(*                                                                         *)
(* SeedDomains and Misc are tables and survive a crash.  A fetch is a job  *)
(* of up to three https requests, each of which does what HttpsGet         *)
(* promises; at most NODE_FETCH_JOBS jobs run.  Handlers run to            *)
(* completion on one io_service loop, and jobs, timers and requests        *)
(* interleave between them.  The code of a handler is written as operators *)
(* from a list state u to the list state, or the set of list states, it    *)
(* leaves.                                                                 *)
(***************************************************************************)
EXTENDS Naturals, FiniteSets

CONSTANTS
    Domains,          \* keys of SeedDomains
    Files,            \* newcoin.txt files, by checksum (iSha256)
    Addresses,        \* domains whose name is also an account address
    Refers,           \* Refers[f]: domains listed in a file's [validators]
    Urls,             \* Urls[f]: which of "validators", "ips" have a url
    NULL,             \* not_a_date_time, an absent row or checksum, no timer
    FetchJobs,        \* NODE_FETCH_JOBS
    FetchInterval,    \* 7 days: the next fetch of a domain
    ScoreDelay,       \* SCORE_DELAY_SECONDS
    Removals,         \* are domains removed (nodeRemoveDomain, nodeReset)?
    MaxTime,          \* bound: the horizon of the clock
    MaxOps            \* bound: requests from outside, and crashes

ASSUME ConstantsAssumption ==
    /\ IsFiniteSet(Domains) /\ Addresses \subseteq Domains
    /\ Refers \in [Files -> SUBSET Domains]
    /\ Urls \in [Files -> SUBSET {"validators", "ips"}]
    /\ NULL \notin Files \cup Nat
    /\ FetchJobs \in Nat \ {0}
    /\ FetchInterval \in Nat \ {0}
    /\ ScoreDelay \in Nat \ {0}
    /\ Removals \in BOOLEAN
    /\ MaxTime \in Nat
    /\ MaxOps \in Nat

VARIABLES
    list,             \* the UniqueNodeList object and its tables
    up,               \* is the program running?
    now,              \* the clock, in seconds
    ops               \* requests and crashes so far

vars == <<list, up, now, ops>>

Times == 0..MaxTime + FetchInterval + ScoreDelay

\* A SeedDomains row: Next and Sha256.  An absent checksum is uint256 zero.
Row == [Next : Times, Sha256 : Files \cup {NULL}]

ASSUME RowAssumption == NULL \notin Row

\* A fetch under way: its domain, a number that tells two fetches of one
\* domain apart, the request it waits for, and the file it works from.
Job == [domain : Domains, n : 0..FetchJobs, phase : {"site", "validators", "ips"},
        file : Files \cup {NULL}]

ListType ==
    [rows : [Domains -> Row \cup {NULL}],
     mFetchActive : 0..FetchJobs,
     jobs : SUBSET Job,
     mtpFetchNext : Times \cup {NULL},
     mdtFetchTimer : Times \cup {NULL},
     mtpFetchUpdated : Times \cup {NULL},
     mtpScoreUpdated : Times \cup {NULL},
     mtpScoreNext : Times \cup {NULL},
     mdtScoreTimer : Times \cup {NULL},
     queued : SUBSET {"fetch", "score"},
     misc : [FetchUpdated : Times \cup {NULL}, ScoreUpdated : Times \cup {NULL}]]

\* Types.
TypeOK ==
    /\ list \in ListType
    /\ up \in BOOLEAN
    /\ now \in 0..MaxTime
    /\ ops \in 0..MaxOps

-------------------------------------------------------------------------------
(* Scoring.                                                                *)

\* Is there an update that no scoring has seen?
Unscored(u) ==
    /\ u.mtpFetchUpdated # NULL
    /\ u.mtpScoreUpdated = NULL \/ u.mtpScoreUpdated <= u.mtpFetchUpdated

\* Re-arming a timer that has expired leaves its handler in the queue.
Requeue(u, which, timer) ==
    IF timer # NULL /\ timer <= now THEN u.queued \cup {which} ELSE u.queued

\* Fault: a timer that is set is never moved, nor set again once it fired.
scoreNextOnce(u, bNow) ==
    IF u.mtpFetchUpdated # NULL /\ (bNow \/ (Unscored(u) /\ u.mtpScoreUpdated = NULL
                                             /\ u.mtpScoreNext = NULL))
    THEN [u EXCEPT !.mtpScoreNext = now + (IF bNow THEN 0 ELSE ScoreDelay),
                   !.mdtScoreTimer = now + (IF bNow THEN 0 ELSE ScoreDelay),
                   !.queued = Requeue(u, "score", u.mdtScoreTimer)]
    ELSE u

\* Set the score timer, or push it back, when an update is not scored yet.
\* mtpScoreStart is only set while scoreTimerHandler runs, so it never stops
\* another handler from setting the timer.
scoreNext(u, bNow) ==
    LET timerFine == u.mtpScoreNext # NULL
                     /\ u.mtpScoreNext >= u.mtpFetchUpdated + ScoreDelay
        next == now + (IF bNow THEN 0 ELSE ScoreDelay)
    IN IF u.mtpFetchUpdated # NULL /\ (bNow \/ (Unscored(u) /\ ~timerFine))
       THEN [u EXCEPT !.mtpScoreNext = next,
                      !.mdtScoreTimer = next,
                      !.queued = Requeue(u, "score", u.mdtScoreTimer)]
       ELSE u

\* Persist the times of the last update and of the last scoring.
miscSave(u) ==
    [u EXCEPT !.misc = [FetchUpdated |-> u.mtpFetchUpdated,
                        ScoreUpdated |-> u.mtpScoreUpdated]]

\* Fault: the update is not persisted.
fetchDirtyUnsaved(u) ==
    scoreNext([u EXCEPT !.mtpFetchUpdated = now], FALSE)

\* Scores need an update.
fetchDirty(u) ==
    scoreNext(miscSave([u EXCEPT !.mtpFetchUpdated = now]), FALSE)

-------------------------------------------------------------------------------
(* Fetching.                                                               *)

Rows(u) == {d \in Domains : u.rows[d] # NULL}

Due(u) == {d \in Rows(u) : u.rows[d].Next <= now}

Smaller(a, b) == IF a <= b THEN a ELSE b

\* Free jobs go to the domains that are due, in order of Next.
Chosen(u) ==
    {K \in SUBSET Due(u) :
        /\ Cardinality(K) = Smaller(FetchJobs - u.mFetchActive, Cardinality(Due(u)))
        /\ \A k \in K, d \in Due(u) \ K : u.rows[k].Next <= u.rows[d].Next}

\* A number no fetch of d under way has.
FreshNumber(u, d) ==
    CHOOSE n \in 0..FetchJobs : \A j \in u.jobs : j.domain = d => j.n # n

\* Fetch the domains in K now: take the jobs, put off the next fetch of each,
\* and ask for its newcoin.txt (fetchProcess).
FetchNow(u, K) ==
    IF K = {} THEN u
    ELSE [u EXCEPT
            !.mFetchActive = @ + Cardinality(K),
            !.jobs = @ \cup {[domain |-> d, n |-> FreshNumber(u, d),
                              phase |-> "site", file |-> NULL] : d \in K},
            !.rows = [d \in Domains |->
                        IF d \in K THEN [@[d] EXCEPT !.Next = now + FetchInterval]
                        ELSE @[d]],
            !.mtpFetchNext = NULL]

\* Nothing more is due: unless all jobs are taken, set the timer for the
\* earliest row.  An empty table leaves mtpFetchNext as it is.
FetchLater(u) ==
    IF u.mFetchActive = FetchJobs \/ Rows(u) = {} THEN {u}
    ELSE {[u EXCEPT !.mtpFetchNext = u.rows[d].Next,
                    !.mdtFetchTimer = u.rows[d].Next,
                    !.queued = Requeue(u, "fetch", u.mdtFetchTimer)] :
            d \in {d \in Rows(u) : \A o \in Rows(u) : u.rows[d].Next <= u.rows[o].Next}}

\* Fetch what is due and wait for the rest.  The code starts one domain and
\* calls itself; rows with the same Next come in any order.
fetchNext(u) == UNION {FetchLater(FetchNow(u, K)) : K \in Chosen(u)}

\* Fault: a job that ends looks for no other work.
fetchFinishIdle(u, j) ==
    {[u EXCEPT !.mFetchActive = @ - 1, !.jobs = @ \ {j}]}

\* A job ends: its place is given to the next.
fetchFinish(u, j) ==
    fetchNext([u EXCEPT !.mFetchActive = @ - 1, !.jobs = @ \ {j}])

\* Fault: rows are stored without looking at the timer.
WakeEarlierNever(u, D) == {u}

\* Rows in D were stored with bNext: fetchNext is called when the timer is
\* not set for their time or earlier.
WakeEarlier(u, D) ==
    IF \E d \in D : u.mtpFetchNext = NULL \/ u.mtpFetchNext > u.rows[d].Next
    THEN fetchNext(u)
    ELSE {u}

NewRow == [Next |-> now, Sha256 |-> NULL]

\* nodeAddDomain for every domain in D: a new domain is due at once, a known
\* one is stored again when its source is promoted (the set P).  The code
\* stores and wakes one domain after the other; once one of them has woken
\* the scheduler every due domain has a job or no job is free.
AddDomains(u, D, P) ==
    LET new == D \ Rows(u)
        v == [u EXCEPT !.rows = [d \in Domains |-> IF d \in new THEN NewRow ELSE @[d]]]
    IN WakeEarlier(v, new \cup P)

\* A list of validators: its domains are added, its public keys stored
\* (setSeedNodes), and the scores are dirty.  setSeedGeneric takes every text
\* for a pass phrase but the addresses of accounts and of nodes, so any
\* other domain is refused.
processValidators(u, D) ==
    LET A == D \cap Addresses
    IN {fetchDirty(v) : v \in UNION {AddDomains(u, A, P) : P \in SUBSET (A \cap Rows(u))}}

\* A list of ips is stored.
processIps(u) == fetchDirty(u)

\* A job goes on to its next request.
JobTo(u, j, phase, file) ==
    [u EXCEPT !.jobs = (@ \ {j}) \cup {[j EXCEPT !.phase = phase, !.file = file]}]

\* Fault: a file without an ips_url ends its job and keeps its place.
getIpsUrlHangs(u, j, f) ==
    IF "ips" \in Urls[f] THEN {JobTo(u, j, "ips", f)} ELSE {[u EXCEPT !.jobs = @ \ {j}]}

\* The last request of a job, if the file has one.
getIpsUrl(u, j, f) ==
    IF "ips" \in Urls[f] THEN {JobTo(u, j, "ips", f)} ELSE fetchFinish(u, j)

getValidatorsUrl(u, j, f) ==
    IF "validators" \in Urls[f] THEN {JobTo(u, j, "validators", f)} ELSE getIpsUrl(u, j, f)

\* A newcoin.txt that has changed.
processFile(u, j, f) ==
    UNION {getValidatorsUrl(processIps(v), j, f) : v \in processValidators(u, Refers[f])}

\* A newcoin.txt that is valid: the row takes its checksum, and the file is
\* processed when that is new.
FileReceived(u, j, f) ==
    LET d == j.domain
        v == [u EXCEPT !.rows[d].Sha256 = f]
    IN UNION {IF u.rows[d].Sha256 = f THEN fetchFinish(w, j) ELSE processFile(w, j, f) :
                w \in WakeEarlier(v, {d})}

-------------------------------------------------------------------------------
(* The program.                                                            *)

\* The object as constructed, over the tables it finds.
Volatile(rows, misc) ==
    [rows |-> rows, misc |-> misc,
     mFetchActive |-> 0, jobs |-> {}, queued |-> {},
     mtpFetchNext |-> NULL, mdtFetchTimer |-> NULL,
     mtpFetchUpdated |-> NULL, mtpScoreUpdated |-> NULL,
     mtpScoreNext |-> NULL, mdtScoreTimer |-> NULL]

Init ==
    /\ list = Volatile([d \in Domains |-> NULL], [FetchUpdated |-> NULL, ScoreUpdated |-> NULL])
    /\ up = FALSE
    /\ now = 0
    /\ ops = 0

\* Fault: the stored times are not loaded.
StartUnloaded ==
    /\ ~up
    /\ list' \in {scoreNext(v, FALSE) : v \in fetchNext(list)}
    /\ up' = TRUE
    /\ UNCHANGED <<now, ops>>

\* start: load the times, start fetching, start scoring.
Start ==
    /\ ~up
    /\ LET u == [list EXCEPT !.mtpFetchUpdated = list.misc.FetchUpdated,
                             !.mtpScoreUpdated = list.misc.ScoreUpdated]
       IN list' \in {scoreNext(v, FALSE) : v \in fetchNext(u)}
    /\ up' = TRUE
    /\ UNCHANGED <<now, ops>>

\* The process ends; only the tables are left.
Crash ==
    /\ up /\ ops < MaxOps
    /\ list' = Volatile(list.rows, list.misc)
    /\ up' = FALSE
    /\ ops' = ops + 1
    /\ UNCHANGED now

\* A handler leaves one of the states in S.
Handle(S) ==
    /\ up
    /\ list' \in S
    /\ UNCHANGED <<up, now, ops>>

\* A request from outside leaves one of the states in S.
Request(S) ==
    /\ up /\ ops < MaxOps
    /\ list' \in S
    /\ ops' = ops + 1
    /\ UNCHANGED <<up, now>>

\* nodeAddDomain by the user: the domain is due now, even a known one.
nodeAddDomain(d) ==
    LET row == IF list.rows[d] = NULL THEN NewRow ELSE [list.rows[d] EXCEPT !.Next = now]
    IN Request(WakeEarlier([list EXCEPT !.rows[d] = row], {d}))

\* A validators.txt (nodeLoad, validatorsResponse), or the configured
\* validators (nodeBootstrap).
nodeProcess(D) == Request(processValidators(list, D))

\* nodeAddPublic and nodeRemovePublic change SeedNodes only, the configured
\* ips of nodeBootstrap PeerIps only.
nodePublic == Request({fetchDirty(list)})

\* nodeRemoveDomain for one domain, nodeReset for all of them.
nodeRemoveDomain(D) ==
    /\ Removals
    /\ Request({fetchDirty([list EXCEPT !.rows =
                    [d \in Domains |-> IF d \in D THEN NULL ELSE @[d]]])})

\* nodeScore: score now.
nodeScore == Request({scoreNext(list, TRUE)})

\* The request for a newcoin.txt failed, or the file is not valid.
responseFetchBad ==
    \E j \in list.jobs :
        /\ j.phase = "site"
        /\ Handle(fetchFinish(list, j))

\* A valid newcoin.txt arrived.
responseFetch ==
    \E j \in list.jobs, f \in Files :
        /\ j.phase = "site"
        /\ list.rows[j.domain] # NULL
        /\ Handle(FileReceived(list, j, f))

\* A valid newcoin.txt arrived and its domain has no row: assert(bFound)
\* ends the process.
responseFetchUnknown ==
    \E j \in list.jobs :
        /\ up
        /\ j.phase = "site"
        /\ list.rows[j.domain] = NULL
        /\ list' = Volatile(list.rows, list.misc)
        /\ up' = FALSE
        /\ UNCHANGED <<now, ops>>

\* The file at validators_url, or the failure to get it.
responseValidators ==
    \E j \in list.jobs :
        /\ j.phase = "validators"
        /\ \/ Handle(getIpsUrl(list, j, j.file))
           \/ \E f \in Files :
                Handle(UNION {getIpsUrl(v, j, j.file) :
                                v \in processValidators(list, Refers[f])})

\* The file at ips_url, or the failure to get it.
responseIps ==
    \E j \in list.jobs :
        /\ j.phase = "ips"
        /\ Handle(fetchFinish(list, j) \cup fetchFinish(processIps(list), j))

\* A job's request completes, as HttpsGet promises.
Response == responseFetchBad \/ responseFetch \/ responseFetchUnknown
            \/ responseValidators \/ responseIps

fetchTimerHandler ==
    /\ list.mdtFetchTimer # NULL
    /\ list.mdtFetchTimer <= now
    /\ Handle(fetchNext([list EXCEPT !.mdtFetchTimer = NULL]))

\* What scoreTimerHandler does: score (scoreCompute), note and persist the
\* time, and set the timer again if an update came in the same second.
Score(u) ==
    scoreNext(miscSave([u EXCEPT !.mtpScoreNext = NULL, !.mtpScoreUpdated = now]), FALSE)

scoreTimerHandler ==
    /\ list.mdtScoreTimer # NULL
    /\ list.mdtScoreTimer <= now
    /\ Handle({Score([list EXCEPT !.mdtScoreTimer = NULL])})

\* A handler that was in the queue when its timer was set again.
QueuedHandler ==
    \E which \in list.queued :
        LET u == [list EXCEPT !.queued = @ \ {which}]
        IN Handle(IF which = "fetch" THEN fetchNext(u) ELSE {Score(u)})

Tick ==
    /\ now < MaxTime
    /\ now' = now + 1
    /\ UNCHANGED <<list, up, ops>>

Next ==
    \/ Start
    \/ Crash
    \/ \E d \in Domains : nodeAddDomain(d)
    \/ \E D \in SUBSET Domains : nodeProcess(D)
    \/ nodePublic
    \/ \E D \in {{d} : d \in Domains} \cup {Domains} : nodeRemoveDomain(D)
    \/ nodeScore
    \/ Response
    \/ fetchTimerHandler
    \/ scoreTimerHandler
    \/ QueuedHandler
    \/ Tick

Safety == Init /\ [][Next]_vars

\* Timers expire and their handlers run, as long as nothing blocks the loop
\* they share; the clock runs; the program is started again.  A site that
\* stands still may hold an https request for ever (HttpsClient), so no
\* request is bound to complete.
Fairness ==
    /\ WF_vars(fetchTimerHandler)
    /\ WF_vars(scoreTimerHandler)
    /\ WF_vars(Start)
    /\ WF_vars(Tick)

Spec == Safety /\ Fairness

-------------------------------------------------------------------------------
(* Properties.                                                             *)

\* mFetchActive counts the jobs under way and never exceeds their number
\* (TypeOK): every path through the responses of a job gives its place back
\* exactly once (fetchNext, fetchFinish).
JobsCounted == TypeOK /\ list.mFetchActive = Cardinality(list.jobs)

\* The timer fired when the table was empty: mtpFetchNext is a past time.
StaleNext == list.mtpFetchNext # NULL /\ list.mdtFetchTimer = NULL

\* No domain is forgotten: unless all jobs are taken, the timer is set for
\* the earliest row or before.  The exception is the stale mtpFetchNext that
\* ManualAddScanned is about (setSeedDomains, fetchNext).
FetchCovered ==
    up /\ list.mFetchActive < FetchJobs /\ ~StaleNext =>
        \A d \in Rows(list) :
            /\ list.mdtFetchTimer # NULL
            /\ list.mdtFetchTimer <= list.rows[d].Next

\* No update is left unscored: the score timer is set as long as there is
\* one, after a restart too, and never more than the delay ahead
\* (scoreNext, scoreTimerHandler, start).
ScoreCovered ==
    up /\ Unscored(list) =>
        /\ list.mdtScoreTimer # NULL
        /\ list.mdtScoreTimer <= now + ScoreDelay

\* What a restart would load is what the running list knows (miscSave).
MiscCurrent ==
    up => list.misc = [FetchUpdated |-> list.mtpFetchUpdated,
                       ScoreUpdated |-> list.mtpScoreUpdated]

\* A due domain is fetched: again and again none that is due waits, provided
\* that the requests under way do not hang for ever, all of them, at sites
\* that stand still.  The exception is the stale mtpFetchNext again
\* (fetchNext, fetchFinish, fetchTimerHandler).
DueFetched ==
    WF_vars(Response) =>
        \A d \in Domains : []<>(~up \/ StaleNext \/ d \notin Due(list))

\* Updates are scored, even over crashes: again and again the stored scores
\* are younger than the stored update, unless the timer lies beyond the
\* clock's horizon (fetchDirty, scoreNext, scoreTimerHandler).
UpdateScored ==
    []<>(\/ list.misc.FetchUpdated = NULL
         \/ list.misc.ScoreUpdated # NULL /\ list.misc.ScoreUpdated > list.misc.FetchUpdated
         \/ list.mdtScoreTimer # NULL /\ list.mdtScoreTimer > MaxTime)

-------------------------------------------------------------------------------
(* What the comments say and the code does not do.                         *)

\* "A manual add forces immediate scan." (nodeAddDomain): a domain that is
\* due has a job to wait for or a timer that is about to fire.
ManualAddScanned ==
    up /\ Due(list) # {} =>
        list.mFetchActive = FetchJobs \/ list.mdtFetchTimer # NULL
===============================================================================
