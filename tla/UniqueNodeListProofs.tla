------------------------- MODULE UniqueNodeListProofs -------------------------
(***************************************************************************)
(* The schedules of the unique node list lose no job, no domain and no     *)
(* update, for every number of domains and jobs, every contents of the     *)
(* files and every clock.                                                  *)
(*                                                                         *)
(* A handler is an operator from a list state to the states it may leave,  *)
(* so most lemmas are about a list state u.  Handlers call each other in   *)
(* states where only a part of the invariant holds: fetchFinish gives the  *)
(* place of a job back before it looks at the timer.  The invariant        *)
(* therefore has four parts, and each lemma says which of them it needs.   *)
(***************************************************************************)
EXTENDS UniqueNodeList, FiniteSetTheorems, TLAPS

USE ConstantsAssumption

\* Jobs are counted, and the number of a job tells it from the others of its
\* domain: only so does a job that goes on to its next request not fall
\* together with another one.
JobsInv(u) ==
    /\ IsFiniteSet(u.jobs)
    /\ u.mFetchActive = Cardinality(u.jobs)
    /\ \A i, j \in u.jobs : i.domain = j.domain /\ i.n = j.n => i = j

\* The timers are set for the times that are noted, and the score timer is
\* never further ahead than the delay.  mtpFetchNext may be forgotten while
\* its timer runs, and outlive it.
TimersInv(u) ==
    /\ u.mtpFetchNext # NULL /\ u.mdtFetchTimer # NULL => u.mdtFetchTimer = u.mtpFetchNext
    /\ u.mtpScoreNext # NULL => u.mdtScoreTimer # NULL
    /\ u.mdtScoreTimer # NULL => u.mdtScoreTimer <= now + ScoreDelay

\* What holds wherever a handler calls another.
ListInv(u) == u \in ListType /\ JobsInv(u) /\ TimersInv(u)

\* FetchCovered, ScoreCovered and MiscCurrent of a list state.
RowsCovered(u) ==
    u.mFetchActive < FetchJobs /\ ~(u.mtpFetchNext # NULL /\ u.mdtFetchTimer = NULL) =>
        \A d \in Rows(u) :
            /\ u.mdtFetchTimer # NULL
            /\ u.mdtFetchTimer <= u.rows[d].Next

UpdateCovered(u) == Unscored(u) => u.mdtScoreTimer # NULL

Saved(u) == u.misc = [FetchUpdated |-> u.mtpFetchUpdated, ScoreUpdated |-> u.mtpScoreUpdated]

\* What holds between two handlers of the running program.
Running(u) == RowsCovered(u) /\ UpdateCovered(u) /\ Saved(u)

IInv ==
    /\ ListInv(list)
    /\ up => Running(list)
    /\ up \in BOOLEAN
    /\ now \in 0..MaxTime
    /\ ops \in 0..MaxOps

\* The clock shows a time, and the delays lead to times.
ClockOK == now \in 0..MaxTime

LEMMA TimesFacts ==
    ASSUME ClockOK
    PROVE  /\ Times \subseteq Nat /\ NULL \notin Times
           /\ now \in Times /\ now + FetchInterval \in Times /\ now + ScoreDelay \in Times
  BY DEF ClockOK, Times

\* Handlers of the fetch schedule leave the score schedule alone.
SameScores(u, v) ==
    /\ v.mtpFetchUpdated = u.mtpFetchUpdated
    /\ v.mtpScoreUpdated = u.mtpScoreUpdated
    /\ v.mtpScoreNext = u.mtpScoreNext
    /\ v.mdtScoreTimer = u.mdtScoreTimer
    /\ v.misc = u.misc

\* Handlers of the score schedule leave the fetch schedule alone.
SameFetches(u, v) ==
    /\ v.rows = u.rows
    /\ v.mFetchActive = u.mFetchActive
    /\ v.jobs = u.jobs
    /\ v.mtpFetchNext = u.mtpFetchNext
    /\ v.mdtFetchTimer = u.mdtFetchTimer

LEMMA SameScoresCovered ==
    ASSUME NEW u, NEW v, SameScores(u, v)
    PROVE  /\ UpdateCovered(u) => UpdateCovered(v)
           /\ Saved(u) => Saved(v)
           /\ (u.mtpScoreNext # NULL => u.mdtScoreTimer # NULL)
                => (v.mtpScoreNext # NULL => v.mdtScoreTimer # NULL)
  BY DEF SameScores, UpdateCovered, Saved, Unscored

LEMMA SameFetchesCovered ==
    ASSUME NEW u, NEW v, SameFetches(u, v)
    PROVE  /\ RowsCovered(u) => RowsCovered(v)
           /\ JobsInv(u) => JobsInv(v)
  BY DEF SameFetches, RowsCovered, JobsInv, Rows

-------------------------------------------------------------------------------
(* The score schedule.                                                     *)

LEMMA RequeueType ==
    ASSUME NEW u \in ListType, NEW which \in {"fetch", "score"}, NEW timer
    PROVE  Requeue(u, which, timer) \in SUBSET {"fetch", "score"}
  BY DEF ListType, Requeue

\* scoreNext sets the timer for every update that is not scored.
LEMMA ScoreNextInv ==
    ASSUME ClockOK, NEW u, ListInv(u), NEW bNow \in BOOLEAN
    PROVE  LET v == scoreNext(u, bNow) IN
           /\ ListInv(v) /\ SameFetches(u, v) /\ UpdateCovered(v)
           /\ Saved(u) => Saved(v)
<1> DEFINE next == now + (IF bNow THEN 0 ELSE ScoreDelay)
           w == [u EXCEPT !.mtpScoreNext = next, !.mdtScoreTimer = next,
                          !.queued = Requeue(u, "score", u.mdtScoreTimer)]
<1>1. u \in ListType
  BY DEF ListInv
<1>2. next \in Times /\ next \in Nat /\ next # NULL /\ next <= now + ScoreDelay
  BY TimesFacts DEF ClockOK
<1>3. /\ w \in ListType
      /\ w.mtpScoreNext = next /\ w.mdtScoreTimer = next
      /\ w.mtpFetchUpdated = u.mtpFetchUpdated /\ w.mtpScoreUpdated = u.mtpScoreUpdated
      /\ w.misc = u.misc
      /\ SameFetches(u, w)
  BY ZenonT(40), <1>1, <1>2, RequeueType DEF ListType, SameFetches
<1> HIDE DEF next
<1>4. ListInv(w) /\ UpdateCovered(w) /\ (Saved(u) => Saved(w))
  <2>1. JobsInv(w)
    BY <1>3, SameFetchesCovered DEF ListInv
  <2>2. TimersInv(w)
    BY <1>2, <1>3 DEF ListInv, TimersInv, SameFetches
  <2> QED
    BY <1>2, <1>3, <2>1, <2>2 DEF ListInv, UpdateCovered, Saved
<1>5. CASE scoreNext(u, bNow) = w
  BY <1>3, <1>4, <1>5
<1>6. CASE scoreNext(u, bNow) # w
  <2>1. scoreNext(u, bNow) = u /\ (Unscored(u) => u.mtpScoreNext # NULL)
    BY <1>6 DEF scoreNext, next, Unscored
  <2>2. SameFetches(u, u)
    BY DEF SameFetches
  <2>3. UpdateCovered(u)
    BY <2>1 DEF ListInv, TimersInv, UpdateCovered
  <2> QED
    BY <2>1, <2>2, <2>3
<1> QED BY <1>5, <1>6

\* miscSave only changes what is stored.
LEMMA MiscSaveInv ==
    ASSUME NEW u, ListInv(u)
    PROVE  LET v == miscSave(u) IN
           ListInv(v) /\ SameFetches(u, v) /\ Saved(v)
<1> DEFINE v == miscSave(u)
<1>1. u \in ListType
  BY DEF ListInv
<1>2. /\ v \in ListType /\ Saved(v) /\ SameFetches(u, v)
      /\ v.mtpScoreNext = u.mtpScoreNext /\ v.mdtScoreTimer = u.mdtScoreTimer
  BY <1>1 DEF miscSave, ListType, Saved, SameFetches
<1> HIDE DEF v
<1>3. JobsInv(v) /\ TimersInv(v)
  BY <1>2, SameFetchesCovered DEF ListInv, TimersInv, SameFetches
<1> QED BY <1>2, <1>3 DEF ListInv, v

\* After fetchDirty the update is noted, persisted and waited for.
LEMMA FetchDirtyInv ==
    ASSUME ClockOK, NEW u, ListInv(u)
    PROVE  LET v == fetchDirty(u) IN
           /\ ListInv(v) /\ SameFetches(u, v) /\ UpdateCovered(v) /\ Saved(v)
<1> DEFINE w == [u EXCEPT !.mtpFetchUpdated = now]
<1>1. u \in ListType
  BY DEF ListInv
<1>2. /\ w \in ListType /\ SameFetches(u, w)
      /\ w.mtpScoreNext = u.mtpScoreNext /\ w.mdtScoreTimer = u.mdtScoreTimer
  BY <1>1, TimesFacts DEF ListType, SameFetches
<1> HIDE DEF w
<1>3. ListInv(w)
  BY <1>2, SameFetchesCovered DEF ListInv, TimersInv, SameFetches
<1>4. /\ ListInv(miscSave(w)) /\ SameFetches(w, miscSave(w)) /\ Saved(miscSave(w))
  BY <1>3, MiscSaveInv
<1>5. fetchDirty(u) = scoreNext(miscSave(w), FALSE)
  BY DEF fetchDirty, w
<1>6. LET m == miscSave(w)
          v == scoreNext(m, FALSE)
      IN ListInv(v) /\ SameFetches(m, v) /\ UpdateCovered(v) /\ Saved(v)
  BY <1>4, ScoreNextInv, FALSE \in BOOLEAN
<1> QED
  BY <1>2, <1>4, <1>5, <1>6 DEF SameFetches

\* After a scoring too.
LEMMA ScoreInv ==
    ASSUME ClockOK, NEW u \in ListType, JobsInv(u),
           u.mtpFetchNext # NULL /\ u.mdtFetchTimer # NULL => u.mdtFetchTimer = u.mtpFetchNext,
           u.mdtScoreTimer # NULL => u.mdtScoreTimer <= now + ScoreDelay
    PROVE  LET v == Score(u) IN
           /\ ListInv(v) /\ SameFetches(u, v) /\ UpdateCovered(v) /\ Saved(v)
<1> DEFINE w == [u EXCEPT !.mtpScoreNext = NULL, !.mtpScoreUpdated = now]
<1>1. /\ w \in ListType /\ SameFetches(u, w)
      /\ w.mtpScoreNext = NULL /\ w.mdtScoreTimer = u.mdtScoreTimer
  BY TimesFacts DEF ListType, SameFetches
<1> HIDE DEF w
<1>2. ListInv(w)
  BY <1>1, SameFetchesCovered DEF ListInv, TimersInv, SameFetches
<1>3. /\ ListInv(miscSave(w)) /\ SameFetches(w, miscSave(w)) /\ Saved(miscSave(w))
  BY <1>2, MiscSaveInv
<1>4. Score(u) = scoreNext(miscSave(w), FALSE)
  BY DEF Score, w
<1>5. LET m == miscSave(w)
          v == scoreNext(m, FALSE)
      IN ListInv(v) /\ SameFetches(m, v) /\ UpdateCovered(v) /\ Saved(v)
  BY <1>3, ScoreNextInv, FALSE \in BOOLEAN
<1> QED
  BY <1>1, <1>3, <1>4, <1>5 DEF SameFetches

-------------------------------------------------------------------------------
(* The fetch schedule.                                                     *)

\* There are more numbers than jobs.
LEMMA FreshNumberFacts ==
    ASSUME NEW u \in ListType, JobsInv(u), NEW d
    PROVE  /\ FreshNumber(u, d) \in 0..FetchJobs
           /\ \A j \in u.jobs : j.domain = d => j.n # FreshNumber(u, d)
<1>1. ASSUME \A n \in 0..FetchJobs : \E j \in u.jobs : j.domain = d /\ j.n = n
      PROVE  FALSE
  <2> DEFINE f == [n \in 0..FetchJobs |-> CHOOSE j \in u.jobs : j.domain = d /\ j.n = n]
  <2>1. \A n \in 0..FetchJobs : f[n] \in u.jobs /\ f[n].n = n
    BY <1>1
  <2>2. f \in [0..FetchJobs -> u.jobs]
    BY <2>1
  <2> HIDE DEF f
  <2>3. IsFiniteSet(0..FetchJobs) /\ Cardinality(0..FetchJobs) = FetchJobs + 1
    BY FS_Interval
  <2>4. IsFiniteSet(u.jobs) /\ Cardinality(u.jobs) <= FetchJobs /\ Cardinality(u.jobs) \in Nat
    BY DEF JobsInv, ListType
  <2>5. Cardinality(u.jobs) < Cardinality(0..FetchJobs)
    BY <2>3, <2>4
  <2>6. \E x, y \in 0..FetchJobs : x # y /\ f[x] = f[y]
    BY <2>2, <2>3, <2>4, <2>5, FS_PigeonHole
  <2> QED
    BY <2>1, <2>6
<1>2. PICK n \in 0..FetchJobs : \A j \in u.jobs : j.domain = d => j.n # n
  BY <1>1
<1> QED
  BY <1>2 DEF FreshNumber

\* The domains that are chosen fit into the places that are free.
LEMMA ChosenFacts ==
    ASSUME ClockOK, NEW u, ListInv(u), NEW K \in Chosen(u)
    PROVE  /\ K \subseteq Rows(u) /\ IsFiniteSet(K)
           /\ Cardinality(K) \in Nat
           /\ u.mFetchActive + Cardinality(K) \in 0..FetchJobs
<1>1. K \subseteq Due(u) /\ Due(u) \subseteq Rows(u) /\ Rows(u) \subseteq Domains
  BY DEF Chosen, Due, Rows
<1>2. IsFiniteSet(Due(u)) /\ IsFiniteSet(K)
  BY <1>1, FS_Subset
<1>3. Cardinality(K) \in Nat /\ Cardinality(Due(u)) \in Nat
  BY <1>2, FS_CardinalityType
<1>4. u.mFetchActive \in 0..FetchJobs
  BY DEF ListInv, ListType
<1>5. Cardinality(K) = Smaller(FetchJobs - u.mFetchActive, Cardinality(Due(u)))
  BY DEF Chosen
<1> QED
  BY <1>1, <1>2, <1>3, <1>4, <1>5 DEF Smaller

\* The jobs that FetchNow starts, one for each domain.
NewJobs(u, K) ==
    {[domain |-> d, n |-> FreshNumber(u, d), phase |-> "site", file |-> NULL] : d \in K}

LEMMA NewJobsFacts ==
    ASSUME ClockOK, NEW u, ListInv(u), NEW K \in SUBSET Domains, IsFiniteSet(K)
    PROVE  LET N == NewJobs(u, K) IN
           /\ N \subseteq Job
           /\ IsFiniteSet(u.jobs \cup N)
           /\ Cardinality(u.jobs \cup N) = u.mFetchActive + Cardinality(K)
           /\ \A i, j \in u.jobs \cup N : i.domain = j.domain /\ i.n = j.n => i = j
<1> DEFINE N == NewJobs(u, K)
           new(d) == [domain |-> d, n |-> FreshNumber(u, d), phase |-> "site", file |-> NULL]
           f == [d \in K |-> new(d)]
<1>1. u \in ListType /\ JobsInv(u)
  BY DEF ListInv
<1>2. \A d \in K : /\ FreshNumber(u, d) \in 0..FetchJobs
                   /\ \A j \in u.jobs : j.domain = d => j.n # FreshNumber(u, d)
  BY <1>1, FreshNumberFacts
<1>3. N \subseteq Job
  BY <1>2 DEF NewJobs, Job
<1>4. \A j \in N : \E d \in K : j.domain = d /\ j.n = FreshNumber(u, d) /\ j = new(d)
  BY DEF NewJobs
<1>5. u.jobs \cap N = {}
  BY <1>2, <1>4
<1>6. IsFiniteSet(N) /\ Cardinality(N) = Cardinality(K)
  <2>1. f \in [K -> N] /\ \A d \in K : f[d].domain = d
    BY DEF NewJobs
  <2>2. \A j \in N : \E d \in K : f[d] = j
    BY DEF NewJobs
  <2> HIDE DEF f
  <2> HIDE DEF N
  <2>3. /\ \A a, b \in K : f[a] = f[b] => a = b
        /\ DOMAIN f = K
    BY <2>1
  <2>4. f \in Bijection(K, N)
    BY <2>1, <2>2, <2>3 DEF Bijection, Injection, Surjection, IsInjective
  <2>5. ExistsBijection(K, N)
    BY <2>4 DEF ExistsBijection
  <2> QED
    BY <2>5, FS_Bijection
<1>7. \A i, j \in u.jobs \cup N : i.domain = j.domain /\ i.n = j.n => i = j
  BY <1>1, <1>2, <1>4 DEF JobsInv
<1> HIDE DEF N
<1>8. IsFiniteSet(u.jobs) /\ Cardinality(u.jobs) = u.mFetchActive /\ Cardinality(u.jobs) \in Nat
  BY <1>1, FS_CardinalityType DEF JobsInv
<1>9. IsFiniteSet(K) /\ Cardinality(K) \in Nat
  BY FS_CardinalityType
<1>10. /\ IsFiniteSet(u.jobs \cup N)
       /\ Cardinality(u.jobs \cup N) = u.mFetchActive + Cardinality(K) - Cardinality({})
  BY <1>5, <1>6, <1>8, FS_Union
<1>11. Cardinality(u.jobs \cup N) = u.mFetchActive + Cardinality(K)
  BY <1>8, <1>9, <1>10, FS_EmptySet
<1> QED
  BY <1>3, <1>7, <1>10, <1>11 DEF N

\* Starting jobs keeps them counted.
LEMMA FetchNowInv ==
    ASSUME ClockOK, NEW u, ListInv(u), NEW K \in Chosen(u)
    PROVE  LET v == FetchNow(u, K) IN
           ListInv(v) /\ SameScores(u, v) /\ u.jobs \subseteq v.jobs
<1>1. CASE K = {}
  BY <1>1 DEF FetchNow, SameScores
<1>2. CASE K # {}
  <2> DEFINE N == NewJobs(u, K)
             later == [d \in Domains |->
                        IF d \in K THEN [u.rows[d] EXCEPT !.Next = now + FetchInterval]
                        ELSE u.rows[d]]
             v == [u EXCEPT !.mFetchActive = @ + Cardinality(K),
                            !.jobs = @ \cup N,
                            !.rows = later,
                            !.mtpFetchNext = NULL]
  <2>1. u \in ListType
    BY DEF ListInv
  <2>2. /\ K \subseteq Rows(u) /\ K \subseteq Domains /\ IsFiniteSet(K)
        /\ u.mFetchActive + Cardinality(K) \in 0..FetchJobs
    BY ChosenFacts DEF Rows
  <2>3. /\ N \subseteq Job /\ IsFiniteSet(u.jobs \cup N)
        /\ Cardinality(u.jobs \cup N) = u.mFetchActive + Cardinality(K)
        /\ \A i, j \in u.jobs \cup N : i.domain = j.domain /\ i.n = j.n => i = j
    BY <2>2, NewJobsFacts
  <2>4. later \in [Domains -> Row \cup {NULL}]
    <3>1. \A d \in Domains : u.rows[d] \in Row \cup {NULL}
      BY <2>1 DEF ListType
    <3>2. \A d \in K : u.rows[d] \in Row
      BY <2>2, <3>1 DEF Rows
    <3>3. \A d \in K : [u.rows[d] EXCEPT !.Next = now + FetchInterval] \in Row
      BY <3>2, TimesFacts DEF Row
    <3> QED
      BY <3>1, <3>3
  <2>5. FetchNow(u, K) = v
    BY <1>2 DEF FetchNow, NewJobs
  <2> HIDE DEF N, later
  <2>6. /\ v \in ListType /\ SameScores(u, v)
        /\ v.jobs = u.jobs \cup N /\ v.mFetchActive = u.mFetchActive + Cardinality(K)
        /\ v.mtpFetchNext = NULL /\ v.mdtFetchTimer = u.mdtFetchTimer
    BY <2>1, <2>2, <2>3, <2>4 DEF ListType, SameScores
  <2> HIDE DEF v
  <2>7. JobsInv(v)
    BY <2>3, <2>6 DEF JobsInv
  <2>8. TimersInv(v)
    BY <2>6 DEF ListInv, TimersInv, SameScores
  <2> QED
    BY <2>5, <2>6, <2>7, <2>8 DEF ListInv
<1> QED BY <1>1, <1>2

\* The timer is set for the earliest row unless all places are taken.
LEMMA FetchLaterInv ==
    ASSUME ClockOK, NEW u, ListInv(u), NEW v \in FetchLater(u)
    PROVE  /\ ListInv(v) /\ SameScores(u, v) /\ v.jobs = u.jobs
           /\ RowsCovered(v)
<1>1. CASE u.mFetchActive = FetchJobs \/ Rows(u) = {}
  <2>1. v = u
    BY <1>1 DEF FetchLater
  <2>2. RowsCovered(u)
    BY <1>1 DEF RowsCovered
  <2> QED
    BY <2>1, <2>2 DEF SameScores
<1>2. CASE ~(u.mFetchActive = FetchJobs \/ Rows(u) = {})
  <2>1. u \in ListType
    BY DEF ListInv
  <2>2. PICK d \in Rows(u) :
          /\ \A o \in Rows(u) : u.rows[d].Next <= u.rows[o].Next
          /\ v = [u EXCEPT !.mtpFetchNext = u.rows[d].Next,
                           !.mdtFetchTimer = u.rows[d].Next,
                           !.queued = Requeue(u, "fetch", u.mdtFetchTimer)]
    BY <1>2 DEF FetchLater
  <2>3. u.rows[d].Next \in Times /\ u.rows[d].Next # NULL
    BY <2>1, TimesFacts DEF Rows, ListType, Row
  <2>4. /\ v \in ListType /\ SameScores(u, v)
        /\ v.jobs = u.jobs /\ v.mFetchActive = u.mFetchActive /\ v.rows = u.rows
        /\ v.mtpFetchNext = u.rows[d].Next /\ v.mdtFetchTimer = u.rows[d].Next
    BY <2>1, <2>2, <2>3, RequeueType DEF ListType, SameScores
  <2>5. JobsInv(v) /\ TimersInv(v)
    BY <2>4 DEF ListInv, JobsInv, TimersInv, SameScores
  <2>6. RowsCovered(v)
    BY <2>2, <2>3, <2>4 DEF RowsCovered, Rows
  <2> QED
    BY SMTT(40), <2>4, <2>5, <2>6 DEF ListInv
<1> QED BY <1>1, <1>2

\* After fetchNext every row is waited for, or all places are taken.
LEMMA FetchNextInv ==
    ASSUME ClockOK, NEW u, ListInv(u), NEW v \in fetchNext(u)
    PROVE  /\ ListInv(v) /\ SameScores(u, v) /\ u.jobs \subseteq v.jobs
           /\ RowsCovered(v)
<1>1. PICK K \in Chosen(u) : v \in FetchLater(FetchNow(u, K))
  BY DEF fetchNext
<1>2. /\ ListInv(FetchNow(u, K)) /\ SameScores(u, FetchNow(u, K))
      /\ u.jobs \subseteq FetchNow(u, K).jobs
  BY FetchNowInv
<1>3. /\ ListInv(v) /\ SameScores(FetchNow(u, K), v) /\ v.jobs = FetchNow(u, K).jobs
      /\ RowsCovered(v)
  BY <1>1, <1>2, FetchLaterInv
<1> QED
  BY <1>2, <1>3 DEF SameScores
\* Rows that are stored are waited for as well: either setSeedDomains calls
\* fetchNext, or the timer it finds noted is early enough.
LEMMA WakeEarlierInv ==
    ASSUME ClockOK, NEW u, ListInv(u), NEW D \in SUBSET Rows(u),
           u.mFetchActive < FetchJobs /\ ~(u.mtpFetchNext # NULL /\ u.mdtFetchTimer = NULL) =>
               \A d \in Rows(u) \ D :
                   /\ u.mdtFetchTimer # NULL
                   /\ u.mdtFetchTimer <= u.rows[d].Next,
           NEW v \in WakeEarlier(u, D)
    PROVE  /\ ListInv(v) /\ SameScores(u, v) /\ u.jobs \subseteq v.jobs
           /\ RowsCovered(v)
<1>1. CASE \E d \in D : u.mtpFetchNext = NULL \/ u.mtpFetchNext > u.rows[d].Next
  BY <1>1, FetchNextInv DEF WakeEarlier
<1>2. CASE ~(\E d \in D : u.mtpFetchNext = NULL \/ u.mtpFetchNext > u.rows[d].Next)
  <2>1. v = u
    BY <1>2 DEF WakeEarlier
  <2>2. \A d \in D : u.rows[d].Next \in Nat /\ u.mtpFetchNext # NULL /\ u.mtpFetchNext \in Nat
    BY <1>2, TimesFacts DEF ListInv, ListType, Row, Rows
  <2>3. \A d \in D : u.mtpFetchNext <= u.rows[d].Next
    BY <1>2, <2>2
  <2>4. RowsCovered(u)
    BY <2>2, <2>3 DEF RowsCovered, ListInv, TimersInv
  <2> QED
    BY <2>1, <2>4 DEF SameScores
<1> QED BY <1>1, <1>2

\* A change of the rows alone.
LEMMA RowsChange ==
    ASSUME NEW u, ListInv(u), NEW r \in [Domains -> Row \cup {NULL}]
    PROVE  LET v == [u EXCEPT !.rows = r] IN
           /\ ListInv(v) /\ SameScores(u, v) /\ v.rows = r
           /\ v.jobs = u.jobs /\ v.mFetchActive = u.mFetchActive
           /\ v.mtpFetchNext = u.mtpFetchNext /\ v.mdtFetchTimer = u.mdtFetchTimer
<1> DEFINE v == [u EXCEPT !.rows = r]
<1>1. u \in ListType
  BY DEF ListInv
<1>2. /\ v \in ListType /\ SameScores(u, v) /\ v.rows = r
      /\ v.jobs = u.jobs /\ v.mFetchActive = u.mFetchActive
      /\ v.mtpFetchNext = u.mtpFetchNext /\ v.mdtFetchTimer = u.mdtFetchTimer
  BY <1>1 DEF ListType, SameScores
<1> HIDE DEF v
<1>3. JobsInv(v) /\ TimersInv(v)
  BY <1>2 DEF ListInv, JobsInv, TimersInv, SameScores
<1> QED BY <1>2, <1>3 DEF ListInv, v

LEMMA NewRowType ==
    ASSUME ClockOK
    PROVE  NewRow \in Row /\ NewRow # NULL
<1>1. NewRow \in Row
  BY TimesFacts DEF NewRow, Row
<1> QED BY <1>1, RowAssumption

\* The domains of a file.
LEMMA AddDomainsInv ==
    ASSUME ClockOK, NEW u, ListInv(u), RowsCovered(u),
           NEW D \in SUBSET Domains, NEW P \in SUBSET Rows(u), NEW v \in AddDomains(u, D, P)
    PROVE  /\ ListInv(v) /\ SameScores(u, v) /\ u.jobs \subseteq v.jobs
           /\ RowsCovered(v)
<1> DEFINE new == D \ Rows(u)
           r == [d \in Domains |-> IF d \in new THEN NewRow ELSE u.rows[d]]
           w == [u EXCEPT !.rows = r]
<1>1. r \in [Domains -> Row \cup {NULL}]
  BY NewRowType DEF ListInv, ListType
<1>2. /\ ListInv(w) /\ SameScores(u, w) /\ w.rows = r
      /\ w.jobs = u.jobs /\ w.mFetchActive = u.mFetchActive
      /\ w.mtpFetchNext = u.mtpFetchNext /\ w.mdtFetchTimer = u.mdtFetchTimer
  BY <1>1, RowsChange
<1>3. v \in WakeEarlier(w, new \cup P)
  BY DEF AddDomains
<1> HIDE DEF w
<1>4. Rows(w) = Rows(u) \cup new
  BY <1>2, NewRowType DEF Rows
<1>5. \A d \in Rows(w) \ (new \cup P) : d \in Rows(u) /\ w.rows[d] = u.rows[d]
  BY <1>2, <1>4 DEF Rows
<1>6. w.mFetchActive < FetchJobs /\ ~(w.mtpFetchNext # NULL /\ w.mdtFetchTimer = NULL) =>
          \A d \in Rows(w) \ (new \cup P) :
              /\ w.mdtFetchTimer # NULL
              /\ w.mdtFetchTimer <= w.rows[d].Next
  BY <1>2, <1>5 DEF RowsCovered
<1>7. new \cup P \in SUBSET Rows(w)
  BY <1>4
<1> HIDE DEF new, r
<1>8. /\ ListInv(v) /\ SameScores(w, v) /\ w.jobs \subseteq v.jobs
      /\ RowsCovered(v)
  BY <1>2, <1>3, <1>6, <1>7, WakeEarlierInv
<1> QED
  BY <1>2, <1>8 DEF SameScores

\* A list of validators leaves the schedules in order.
LEMMA ProcessValidatorsInv ==
    ASSUME ClockOK, NEW u, ListInv(u), RowsCovered(u), NEW D, NEW v \in processValidators(u, D)
    PROVE  ListInv(v) /\ Running(v) /\ u.jobs \subseteq v.jobs
<1> DEFINE A == D \cap Addresses
<1>0. PICK P \in SUBSET (A \cap Rows(u)) : \E w \in AddDomains(u, A, P) : v = fetchDirty(w)
  BY DEF processValidators
<1>1. PICK w \in AddDomains(u, A, P) : v = fetchDirty(w)
  BY <1>0
<1>2. A \in SUBSET Domains /\ P \in SUBSET Rows(u)
  BY <1>0
<1>3. ListInv(w) /\ u.jobs \subseteq w.jobs /\ RowsCovered(w)
  BY <1>1, <1>2, AddDomainsInv
<1>4. ListInv(v) /\ SameFetches(w, v) /\ UpdateCovered(v) /\ Saved(v)
  BY <1>1, <1>3, FetchDirtyInv
<1>5. RowsCovered(v)
  BY <1>3, <1>4, SameFetchesCovered
<1> QED
  BY <1>3, <1>4, <1>5 DEF Running, SameFetches

\* Another update alone.
LEMMA FetchDirtyRunning ==
    ASSUME ClockOK, NEW u, ListInv(u), RowsCovered(u)
    PROVE  LET v == fetchDirty(u) IN ListInv(v) /\ Running(v) /\ u.jobs = v.jobs
<1>1. LET v == fetchDirty(u) IN
      ListInv(v) /\ SameFetches(u, v) /\ UpdateCovered(v) /\ Saved(v)
  BY FetchDirtyInv
<1>2. RowsCovered(fetchDirty(u))
  BY <1>1, SameFetchesCovered
<1> QED
  BY <1>1, <1>2 DEF Running, SameFetches

-------------------------------------------------------------------------------
(* A job.                                                                  *)

\* A job that goes on to its next request is still one job.
LEMMA JobToInv ==
    ASSUME NEW u, ListInv(u), Running(u), NEW j \in u.jobs,
           NEW phase \in {"validators", "ips"}, NEW f \in Files \cup {NULL}
    PROVE  LET v == JobTo(u, j, phase, f) IN ListInv(v) /\ Running(v)
<1> DEFINE k == [j EXCEPT !.phase = phase, !.file = f]
           J == (u.jobs \ {j}) \cup {k}
           v == [u EXCEPT !.jobs = J]
<1>1. u \in ListType /\ JobsInv(u)
  BY DEF ListInv
<1>2. j \in Job
  BY <1>1 DEF ListType
<1>3. k \in Job /\ k.domain = j.domain /\ k.n = j.n
  BY <1>2 DEF Job
<1> HIDE DEF k
<1>4. k \notin u.jobs \ {j}
  BY <1>1, <1>3 DEF JobsInv
<1>5. \A i, o \in J : i.domain = o.domain /\ i.n = o.n => i = o
  BY <1>1, <1>3 DEF JobsInv
<1>6. IsFiniteSet(J) /\ Cardinality(J) = Cardinality(u.jobs)
  <2>1. IsFiniteSet(u.jobs) /\ Cardinality(u.jobs) \in Nat
    BY <1>1, FS_CardinalityType DEF JobsInv
  <2>2. IsFiniteSet(u.jobs \ {j}) /\ Cardinality(u.jobs \ {j}) = Cardinality(u.jobs) - 1
    BY ZenonT(40), <2>1, FS_RemoveElement
  <2>3. IsFiniteSet(J) /\ Cardinality(J) = Cardinality(u.jobs \ {j}) + 1
    BY <1>4, <2>2, FS_AddElement
  <2> QED
    BY <2>1, <2>2, <2>3
<1>7. J \in SUBSET Job
  BY <1>1, <1>3 DEF ListType
<1>8. JobTo(u, j, phase, f) = v
  BY DEF JobTo, k
<1> HIDE DEF J
<1>9. /\ v \in ListType /\ SameScores(u, v) /\ v.rows = u.rows
      /\ v.jobs = J /\ v.mFetchActive = u.mFetchActive
      /\ v.mtpFetchNext = u.mtpFetchNext /\ v.mdtFetchTimer = u.mdtFetchTimer
  BY <1>1, <1>7 DEF ListType, SameScores
<1> HIDE DEF v
<1>10. JobsInv(v) /\ TimersInv(v)
  BY <1>1, <1>5, <1>6, <1>9 DEF ListInv, JobsInv, TimersInv, SameScores
<1>11. RowsCovered(v)
  BY <1>9 DEF Running, RowsCovered, Rows
<1>12. UpdateCovered(v) /\ Saved(v)
  BY <1>9, SameScoresCovered DEF Running
<1> QED
  BY <1>8, <1>9, <1>10, <1>11, <1>12 DEF ListInv, Running

\* A job that ends gives its place back, and then the rows are looked at.
LEMMA FetchFinishInv ==
    ASSUME ClockOK, NEW u, ListInv(u), UpdateCovered(u), Saved(u), NEW j \in u.jobs,
           NEW v \in fetchFinish(u, j)
    PROVE  ListInv(v) /\ Running(v)
<1> DEFINE J == u.jobs \ {j}
           w == [u EXCEPT !.mFetchActive = @ - 1, !.jobs = J]
<1>1. u \in ListType /\ JobsInv(u)
  BY DEF ListInv
<1>2. IsFiniteSet(u.jobs) /\ Cardinality(u.jobs) \in Nat /\ Cardinality(u.jobs) # 0
  BY <1>1, FS_CardinalityType, FS_EmptySet DEF JobsInv
<1>3. IsFiniteSet(J) /\ Cardinality(J) = u.mFetchActive - 1
  <2>1. IsFiniteSet(J) /\ Cardinality(J) = Cardinality(u.jobs) - 1
    BY <1>2, FS_RemoveElement
  <2> QED
    BY <1>1, <2>1 DEF JobsInv
<1>4. u.mFetchActive - 1 \in 0..FetchJobs
  <2>1. u.mFetchActive \in 0..FetchJobs /\ u.mFetchActive # 0
    BY <1>1, <1>2 DEF JobsInv, ListType
  <2> QED
    BY <2>1
<1>5. v \in fetchNext(w)
  BY DEF fetchFinish
<1>6. J \in SUBSET Job /\ \A i, o \in J : i.domain = o.domain /\ i.n = o.n => i = o
  BY <1>1 DEF ListType, JobsInv
<1> HIDE DEF J
<1>7. /\ w \in ListType /\ SameScores(u, w) /\ w.rows = u.rows
      /\ w.jobs = J /\ w.mFetchActive = u.mFetchActive - 1
      /\ w.mtpFetchNext = u.mtpFetchNext /\ w.mdtFetchTimer = u.mdtFetchTimer
  BY ZenonT(40), <1>1, <1>4, <1>6 DEF ListType, SameScores
<1> HIDE DEF w
<1>8. JobsInv(w) /\ TimersInv(w)
  BY <1>3, <1>6, <1>7 DEF ListInv, JobsInv, TimersInv, SameScores
<1>9. ListInv(v) /\ SameScores(w, v) /\ RowsCovered(v)
  BY <1>5, <1>7, <1>8, FetchNextInv DEF ListInv
<1>10. UpdateCovered(v) /\ Saved(v)
  BY <1>7, <1>9, SameScoresCovered
<1> QED
  BY <1>9, <1>10 DEF Running

LEMMA GetIpsUrlInv ==
    ASSUME ClockOK, NEW u, ListInv(u), Running(u), NEW j \in u.jobs,
           NEW f \in Files \cup {NULL}, NEW v \in getIpsUrl(u, j, f)
    PROVE  ListInv(v) /\ Running(v)
<1>1. CASE "ips" \in Urls[f]
  <2>1. v = JobTo(u, j, "ips", f)
    BY <1>1 DEF getIpsUrl
  <2>2. LET w == JobTo(u, j, "ips", f) IN ListInv(w) /\ Running(w)
    BY JobToInv
  <2> QED BY <2>1, <2>2
<1>2. CASE "ips" \notin Urls[f]
  BY <1>2, FetchFinishInv DEF getIpsUrl, Running
<1> QED BY <1>1, <1>2

LEMMA GetValidatorsUrlInv ==
    ASSUME ClockOK, NEW u, ListInv(u), Running(u), NEW j \in u.jobs,
           NEW f \in Files \cup {NULL}, NEW v \in getValidatorsUrl(u, j, f)
    PROVE  ListInv(v) /\ Running(v)
<1>1. CASE "validators" \in Urls[f]
  <2>1. v = JobTo(u, j, "validators", f)
    BY <1>1 DEF getValidatorsUrl
  <2>2. LET w == JobTo(u, j, "validators", f) IN ListInv(w) /\ Running(w)
    BY JobToInv
  <2> QED BY <2>1, <2>2
<1>2. CASE "validators" \notin Urls[f]
  BY <1>2, GetIpsUrlInv DEF getValidatorsUrl
<1> QED BY <1>1, <1>2

LEMMA ProcessFileInv ==
    ASSUME ClockOK, NEW u, ListInv(u), RowsCovered(u), NEW j \in u.jobs,
           NEW f \in Files, NEW v \in processFile(u, j, f)
    PROVE  ListInv(v) /\ Running(v)
<1>1. PICK w \in processValidators(u, Refers[f]) : v \in getValidatorsUrl(processIps(w), j, f)
  BY DEF processFile
<1>2. ListInv(w) /\ Running(w) /\ j \in w.jobs
  BY <1>1, ProcessValidatorsInv
<1>3. LET x == fetchDirty(w) IN ListInv(x) /\ Running(x) /\ w.jobs = x.jobs
  BY <1>2, FetchDirtyRunning DEF Running
<1>4. LET x == processIps(w) IN ListInv(x) /\ Running(x) /\ j \in x.jobs
  BY <1>2, <1>3 DEF processIps
<1> QED
  BY <1>1, <1>4, GetValidatorsUrlInv

LEMMA FileReceivedInv ==
    ASSUME ClockOK, NEW u, ListInv(u), Running(u), NEW j \in u.jobs,
           u.rows[j.domain] # NULL,
           NEW f \in Files, NEW v \in FileReceived(u, j, f)
    PROVE  ListInv(v) /\ Running(v)
<1> DEFINE d == j.domain
           r == [u.rows EXCEPT ![d] = [u.rows[d] EXCEPT !.Sha256 = f]]
           x == [u EXCEPT !.rows = r]
<1>1. u \in ListType /\ d \in Domains
  BY DEF ListInv, ListType, Job
<1>2. u.rows \in [Domains -> Row \cup {NULL}] /\ u.rows[d] \in Row
  BY <1>1 DEF ListType
<1>3. /\ [u.rows[d] EXCEPT !.Sha256 = f] \in Row
      /\ [u.rows[d] EXCEPT !.Sha256 = f].Next = u.rows[d].Next
  BY <1>2 DEF Row
<1>4. /\ r \in [Domains -> Row \cup {NULL}]
      /\ \A o \in Domains : r[o] # NULL => u.rows[o] # NULL /\ r[o].Next = u.rows[o].Next
      /\ r[d] # NULL
  BY <1>1, <1>2, <1>3, RowAssumption
<1> HIDE DEF r
<1>5. /\ ListInv(x) /\ SameScores(u, x) /\ x.rows = r
      /\ x.jobs = u.jobs /\ x.mFetchActive = u.mFetchActive
      /\ x.mtpFetchNext = u.mtpFetchNext /\ x.mdtFetchTimer = u.mdtFetchTimer
  BY <1>4, RowsChange
<1>6. PICK w \in WakeEarlier(x, {d}) :
          v \in IF u.rows[d].Sha256 = f THEN fetchFinish(w, j) ELSE processFile(w, j, f)
  <2>1. [u EXCEPT !.rows[d].Sha256 = f] = x
    BY DEF r
  <2>2. \E w \in WakeEarlier([u EXCEPT !.rows[d].Sha256 = f], {d}) :
          v \in IF u.rows[d].Sha256 = f THEN fetchFinish(w, j) ELSE processFile(w, j, f)
    BY ZenonT(40) DEF FileReceived
  <2> HIDE DEF x
  <2> QED
    BY <2>1, <2>2
<1> HIDE DEF x
<1>7. RowsCovered(x)
  BY <1>4, <1>5 DEF Running, RowsCovered, Rows
<1>8. {d} \in SUBSET Rows(x)
  BY <1>1, <1>4, <1>5 DEF Rows
<1>9. ListInv(w) /\ SameScores(x, w) /\ x.jobs \subseteq w.jobs /\ RowsCovered(w)
  BY <1>5, <1>6, <1>7, <1>8, WakeEarlierInv DEF RowsCovered
<1>10. UpdateCovered(w) /\ Saved(w) /\ j \in w.jobs
  BY <1>5, <1>9, SameScoresCovered DEF Running
<1> QED
  BY <1>6, <1>9, <1>10, FetchFinishInv, ProcessFileInv

-------------------------------------------------------------------------------
(* The program.                                                            *)

\* A handler leaves the schedules in order when each of its outcomes is.
LEMMA StepInv ==
    ASSUME IInv, NEW S, \A s \in S : ListInv(s) /\ Running(s),
           Handle(S) \/ Request(S)
    PROVE  IInv'
<1>1. ListInv(list') /\ Running(list')
  BY DEF Handle, Request
<1>2. up' = up /\ up /\ now' = now /\ ops' \in 0..MaxOps
  BY DEF Handle, Request, IInv
<1>3. ListInv(list)'
  BY <1>1, <1>2 DEF ListInv, TimersInv, JobsInv
<1>4. Running(list)'
  BY <1>1 DEF Running, RowsCovered, UpdateCovered, Saved, Unscored, Rows
<1> QED
  BY <1>2, <1>3, <1>4 DEF IInv

\* Nothing runs in the object as it is constructed.
LEMMA VolatileInv ==
    ASSUME NEW rows \in [Domains -> Row \cup {NULL}],
           NEW misc \in [FetchUpdated : Times \cup {NULL}, ScoreUpdated : Times \cup {NULL}]
    PROVE  ListInv(Volatile(rows, misc))
<1> DEFINE v == Volatile(rows, misc)
<1>1. /\ v \in ListType /\ v.jobs = {} /\ v.mFetchActive = 0
      /\ v.mtpFetchNext = NULL /\ v.mtpScoreNext = NULL /\ v.mdtScoreTimer = NULL
  BY DEF Volatile, ListType
<1> HIDE DEF v
<1>2. JobsInv(v) /\ TimersInv(v)
  BY <1>1, FS_EmptySet DEF JobsInv, TimersInv
<1> QED
  BY <1>1, <1>2 DEF ListInv, v

LEMMA DownInv ==
    ASSUME IInv, list' = Volatile(list.rows, list.misc), up' = FALSE, now' = now,
           ops' \in 0..MaxOps
    PROVE  IInv'
<1>1. /\ list.rows \in [Domains -> Row \cup {NULL}]
      /\ list.misc \in [FetchUpdated : Times \cup {NULL}, ScoreUpdated : Times \cup {NULL}]
  BY DEF IInv, ListInv, ListType
<1>2. ListInv(list')
  BY <1>1, VolatileInv
<1>3. ListInv(list)'
  BY <1>2 DEF ListInv, TimersInv, JobsInv
<1> QED
  BY <1>3 DEF IInv

LEMMA InitInv == Init => IInv
<1> SUFFICES ASSUME Init PROVE IInv
  OBVIOUS
<1>1. ListInv(list)
  BY VolatileInv DEF Init
<1>2. now \in 0..MaxTime /\ ops \in 0..MaxOps
  BY DEF Init
<1> QED
  BY <1>1, <1>2 DEF IInv, Init

\* start loads the stored times before either schedule looks at them.
LEMMA StartInv ==
    ASSUME IInv, Start
    PROVE  IInv'
<1> DEFINE u == [list EXCEPT !.mtpFetchUpdated = list.misc.FetchUpdated,
                             !.mtpScoreUpdated = list.misc.ScoreUpdated]
<1>1. list \in ListType /\ ClockOK
  BY DEF IInv, ListInv, ClockOK
<1>2. /\ list.misc \in [FetchUpdated : Times \cup {NULL}, ScoreUpdated : Times \cup {NULL}]
      /\ list.misc = [FetchUpdated |-> list.misc.FetchUpdated,
                      ScoreUpdated |-> list.misc.ScoreUpdated]
  BY <1>1 DEF ListType
<1>3. /\ u \in ListType /\ SameFetches(list, u)
      /\ u.misc = list.misc
      /\ u.mtpFetchUpdated = list.misc.FetchUpdated
      /\ u.mtpScoreUpdated = list.misc.ScoreUpdated
      /\ u.mtpScoreNext = list.mtpScoreNext /\ u.mdtScoreTimer = list.mdtScoreTimer
  BY <1>1, <1>2 DEF ListType, SameFetches
<1>4. PICK v \in fetchNext(u) : list' = scoreNext(v, FALSE)
  BY DEF Start
<1> HIDE DEF u
<1>5. ListInv(u)
  BY <1>3, SameFetchesCovered DEF IInv, ListInv, TimersInv, SameFetches
<1>6. Saved(u)
  BY <1>2, <1>3 DEF Saved
<1>7. ListInv(v) /\ SameScores(u, v) /\ RowsCovered(v)
  BY <1>1, <1>4, <1>5, FetchNextInv
<1>8. Saved(v)
  BY <1>6, <1>7, SameScoresCovered
<1>9. LET w == scoreNext(v, FALSE) IN
      ListInv(w) /\ SameFetches(v, w) /\ UpdateCovered(w) /\ Saved(w)
  BY <1>1, <1>7, <1>8, ScoreNextInv, FALSE \in BOOLEAN
<1>10. ListInv(list') /\ Running(list')
  BY <1>4, <1>7, <1>9, SameFetchesCovered DEF Running
<1>11. ListInv(list)' /\ Running(list)'
  BY <1>10 DEF Start, ListInv, TimersInv, JobsInv,
               Running, RowsCovered, UpdateCovered, Saved, Unscored, Rows
<1> QED
  BY <1>11 DEF IInv, Start

\* The handlers of the timers, and those left in the queue.
LEMMA TimerInv ==
    ASSUME IInv, fetchTimerHandler \/ scoreTimerHandler \/ QueuedHandler
    PROVE  IInv'
<1>1. list \in ListType /\ ClockOK /\ JobsInv(list) /\ TimersInv(list)
  BY DEF IInv, ListInv, ClockOK
<1>2. CASE fetchTimerHandler
  <2> DEFINE u == [list EXCEPT !.mdtFetchTimer = NULL]
  <2>1. /\ u \in ListType /\ SameScores(list, u)
        /\ u.jobs = list.jobs /\ u.mFetchActive = list.mFetchActive
        /\ u.mdtFetchTimer = NULL
    BY <1>1 DEF ListType, SameScores
  <2>2. Handle(fetchNext(u))
    BY <1>2 DEF fetchTimerHandler
  <2> HIDE DEF u
  <2>3. ListInv(u)
    BY <1>1, <2>1 DEF ListInv, JobsInv, TimersInv, SameScores
  <2>4. up
    BY <2>2 DEF Handle
  <2>5. ASSUME NEW v \in fetchNext(u) PROVE ListInv(v) /\ Running(v)
    BY <1>1, <2>1, <2>3, <2>4, FetchNextInv, SameScoresCovered DEF IInv, Running
  <2> QED
    BY <2>2, <2>5, StepInv
<1>3. CASE scoreTimerHandler
  <2> DEFINE u == [list EXCEPT !.mdtScoreTimer = NULL]
  <2>1. u \in ListType /\ SameFetches(list, u) /\ u.mdtScoreTimer = NULL
    BY <1>1 DEF ListType, SameFetches
  <2>2. Handle({Score(u)})
    BY <1>3 DEF scoreTimerHandler
  <2> HIDE DEF u
  <2>3. LET v == Score(u) IN ListInv(v) /\ SameFetches(u, v) /\ UpdateCovered(v) /\ Saved(v)
    <3>1. /\ JobsInv(u)
          /\ u.mtpFetchNext # NULL /\ u.mdtFetchTimer # NULL => u.mdtFetchTimer = u.mtpFetchNext
      BY <1>1, <2>1, SameFetchesCovered DEF TimersInv, SameFetches
    <3> QED
      BY <1>1, <2>1, <3>1, ScoreInv
  <2>4. ListInv(Score(u)) /\ Running(Score(u))
    BY <2>1, <2>2, <2>3, SameFetchesCovered DEF IInv, Running, Handle
  <2> QED
    BY <2>2, <2>4, StepInv
<1>4. CASE QueuedHandler
  <2>1. PICK which \in list.queued :
          LET u == [list EXCEPT !.queued = @ \ {which}]
          IN Handle(IF which = "fetch" THEN fetchNext(u) ELSE {Score(u)})
    BY <1>4 DEF QueuedHandler
  <2> DEFINE u == [list EXCEPT !.queued = @ \ {which}]
  <2>2. u \in ListType /\ SameFetches(list, u) /\ SameScores(list, u)
    BY <1>1 DEF ListType, SameFetches, SameScores
  <2>3. Handle(IF which = "fetch" THEN fetchNext(u) ELSE {Score(u)})
    BY <2>1
  <2> HIDE DEF u
  <2>4. ListInv(u) /\ Running(u)
    BY <1>1, <2>2, <2>3, SameScoresCovered, SameFetchesCovered
       DEF IInv, Handle, ListInv, TimersInv, SameScores, SameFetches, Running
  <2>5. CASE which = "fetch"
    <3>1. ASSUME NEW v \in fetchNext(u) PROVE ListInv(v) /\ Running(v)
      BY <1>1, <2>4, FetchNextInv, SameScoresCovered DEF Running
    <3>2. Handle(fetchNext(u))
      BY <2>3, <2>5
    <3> QED
      BY <3>1, <3>2, StepInv
  <2>6. CASE which # "fetch"
    <3>1. LET v == Score(u) IN ListInv(v) /\ SameFetches(u, v) /\ UpdateCovered(v) /\ Saved(v)
      BY <1>1, <2>4, ScoreInv DEF ListInv, TimersInv
    <3>2. ListInv(Score(u)) /\ Running(Score(u))
      BY <2>4, <3>1, SameFetchesCovered DEF Running
    <3>3. Handle({Score(u)})
      BY <2>3, <2>6
    <3> QED
      BY <3>2, <3>3, StepInv
  <2> QED BY <2>5, <2>6
<1> QED BY <1>2, <1>3, <1>4
\* What a request may assume.
LEMMA UpFacts ==
    ASSUME IInv, NEW S, Handle(S) \/ Request(S)
    PROVE  ClockOK /\ ListInv(list) /\ Running(list)
  BY DEF IInv, ClockOK, Handle, Request

\* nodeAddDomain makes the row due and wakes the schedule.
LEMMA NodeAddDomainInv ==
    ASSUME IInv, NEW d \in Domains, nodeAddDomain(d)
    PROVE  IInv'
<1> DEFINE row == IF list.rows[d] = NULL THEN NewRow ELSE [list.rows[d] EXCEPT !.Next = now]
           r == [list.rows EXCEPT ![d] = row]
           w == [list EXCEPT !.rows = r]
<1>1. Request(WakeEarlier(w, {d}))
  BY DEF nodeAddDomain
<1>2. ClockOK /\ ListInv(list) /\ Running(list)
  BY <1>1, UpFacts
<1>3. list.rows \in [Domains -> Row \cup {NULL}]
  BY <1>2 DEF ListInv, ListType
<1>4. row \in Row
  BY <1>2, <1>3, NewRowType, TimesFacts DEF Row
<1> HIDE DEF row
<1>5. /\ r \in [Domains -> Row \cup {NULL}] /\ r[d] # NULL
      /\ \A o \in Domains \ {d} : r[o] = list.rows[o]
  BY <1>3, <1>4, RowAssumption
<1> HIDE DEF r
<1>6. /\ ListInv(w) /\ SameScores(list, w) /\ w.rows = r
      /\ w.jobs = list.jobs /\ w.mFetchActive = list.mFetchActive
      /\ w.mtpFetchNext = list.mtpFetchNext /\ w.mdtFetchTimer = list.mdtFetchTimer
  BY <1>2, <1>5, RowsChange
<1> HIDE DEF w
<1>7. w.mFetchActive < FetchJobs /\ ~(w.mtpFetchNext # NULL /\ w.mdtFetchTimer = NULL) =>
          \A o \in Rows(w) \ {d} :
              /\ w.mdtFetchTimer # NULL
              /\ w.mdtFetchTimer <= w.rows[o].Next
  BY <1>2, <1>5, <1>6 DEF Running, RowsCovered, Rows
<1>8. {d} \in SUBSET Rows(w)
  BY <1>5, <1>6 DEF Rows
<1>9. ASSUME NEW v \in WakeEarlier(w, {d}) PROVE ListInv(v) /\ Running(v)
  <2>1. ListInv(v) /\ SameScores(w, v) /\ RowsCovered(v)
    BY <1>2, <1>6, <1>7, <1>8, <1>9, WakeEarlierInv
  <2>2. UpdateCovered(v) /\ Saved(v)
    BY <1>2, <1>6, <2>1, SameScoresCovered DEF Running
  <2> QED
    BY <2>1, <2>2 DEF Running
<1> QED
  BY <1>1, <1>9, StepInv

\* A row that is removed need not be waited for.
LEMMA NodeRemoveDomainInv ==
    ASSUME IInv, NEW D, nodeRemoveDomain(D)
    PROVE  IInv'
<1> DEFINE r == [d \in Domains |-> IF d \in D THEN NULL ELSE list.rows[d]]
           w == [list EXCEPT !.rows = r]
<1>1. Request({fetchDirty(w)})
  BY DEF nodeRemoveDomain
<1>2. ClockOK /\ ListInv(list) /\ Running(list)
  BY <1>1, UpFacts
<1>3. list.rows \in [Domains -> Row \cup {NULL}]
  BY <1>2 DEF ListInv, ListType
<1>4. /\ r \in [Domains -> Row \cup {NULL}]
      /\ \A o \in Domains : r[o] # NULL => r[o] = list.rows[o]
  BY <1>3
<1> HIDE DEF r
<1>5. /\ ListInv(w) /\ w.rows = r /\ w.mFetchActive = list.mFetchActive
      /\ w.mtpFetchNext = list.mtpFetchNext /\ w.mdtFetchTimer = list.mdtFetchTimer
  BY <1>2, <1>4, RowsChange
<1> HIDE DEF w
<1>6. RowsCovered(w)
  BY <1>2, <1>4, <1>5 DEF Running, RowsCovered, Rows
<1>7. LET v == fetchDirty(w) IN ListInv(v) /\ Running(v)
  BY <1>2, <1>5, <1>6, FetchDirtyRunning
<1> QED
  BY <1>1, <1>7, StepInv

LEMMA RequestInv ==
    ASSUME IInv,
           (\E D \in SUBSET Domains : nodeProcess(D)) \/ nodePublic \/ nodeScore
    PROVE  IInv'
<1>1. ASSUME NEW D \in SUBSET Domains, nodeProcess(D) PROVE IInv'
  <2>1. ClockOK /\ ListInv(list) /\ Running(list)
    BY <1>1, UpFacts DEF nodeProcess
  <2>2. ASSUME NEW v \in processValidators(list, D) PROVE ListInv(v) /\ Running(v)
    BY <2>1, <2>2, ProcessValidatorsInv DEF Running
  <2> QED
    BY <1>1, <2>2, StepInv DEF nodeProcess
<1>2. CASE nodePublic
  <2>1. ClockOK /\ ListInv(list) /\ Running(list)
    BY <1>2, UpFacts DEF nodePublic
  <2>2. LET v == fetchDirty(list) IN ListInv(v) /\ Running(v)
    BY <2>1, FetchDirtyRunning DEF Running
  <2> QED
    BY <1>2, <2>2, StepInv DEF nodePublic
<1>3. CASE nodeScore
  <2>1. ClockOK /\ ListInv(list) /\ Running(list)
    BY <1>3, UpFacts DEF nodeScore
  <2>2. LET v == scoreNext(list, TRUE) IN
        ListInv(v) /\ SameFetches(list, v) /\ UpdateCovered(v) /\ Saved(v)
    BY <2>1, ScoreNextInv, TRUE \in BOOLEAN DEF Running
  <2> DEFINE v == scoreNext(list, TRUE)
  <2>3. ListInv(v) /\ Running(v)
    BY <2>1, <2>2, SameFetchesCovered DEF Running
  <2>4. Request({v})
    BY <1>3 DEF nodeScore
  <2> HIDE DEF v
  <2> QED
    BY <2>3, <2>4, StepInv
<1> QED BY <1>1, <1>2, <1>3

\* The answers to the requests of a job.
LEMMA ResponseInv ==
    ASSUME IInv, Response
    PROVE  IInv'
<1>1. CASE responseFetchBad
  <2>1. PICK j \in list.jobs : Handle(fetchFinish(list, j))
    BY <1>1 DEF responseFetchBad
  <2>2. ClockOK /\ ListInv(list) /\ Running(list)
    BY <2>1, UpFacts
  <2>3. ASSUME NEW v \in fetchFinish(list, j) PROVE ListInv(v) /\ Running(v)
    BY <2>2, <2>3, FetchFinishInv DEF Running
  <2> QED
    BY <2>1, <2>3, StepInv
<1>2. CASE responseFetch
  <2>1. PICK j \in list.jobs, f \in Files :
          list.rows[j.domain] # NULL /\ Handle(FileReceived(list, j, f))
    BY <1>2 DEF responseFetch
  <2>2. ClockOK /\ ListInv(list) /\ Running(list)
    BY <2>1, UpFacts
  <2>3. ASSUME NEW v \in FileReceived(list, j, f) PROVE ListInv(v) /\ Running(v)
    BY <2>1, <2>2, <2>3, FileReceivedInv
  <2> QED
    BY <2>1, <2>3, StepInv
<1>3. CASE responseFetchUnknown
  BY <1>3, DownInv DEF responseFetchUnknown, IInv
<1>4. CASE responseValidators
  <2>1. PICK j \in list.jobs :
          \/ Handle(getIpsUrl(list, j, j.file))
          \/ \E f \in Files : Handle(UNION {getIpsUrl(v, j, j.file) :
                                              v \in processValidators(list, Refers[f])})
    BY <1>4 DEF responseValidators
  <2>2. ClockOK /\ ListInv(list) /\ Running(list)
    BY <2>1, UpFacts
  <2>3. j.file \in Files \cup {NULL}
    BY <2>2 DEF ListInv, ListType, Job
  <2>4. CASE Handle(getIpsUrl(list, j, j.file))
    <3>1. ASSUME NEW v \in getIpsUrl(list, j, j.file) PROVE ListInv(v) /\ Running(v)
      BY <2>2, <2>3, <3>1, GetIpsUrlInv
    <3> QED
      BY <2>4, <3>1, StepInv
  <2>5. ASSUME NEW f \in Files,
               Handle(UNION {getIpsUrl(v, j, j.file) : v \in processValidators(list, Refers[f])})
        PROVE  IInv'
    <3>1. ASSUME NEW v \in processValidators(list, Refers[f]), NEW w \in getIpsUrl(v, j, j.file)
          PROVE  ListInv(w) /\ Running(w)
      <4>1. ListInv(v) /\ Running(v) /\ j \in v.jobs
        BY <2>2, <3>1, ProcessValidatorsInv DEF Running
      <4> QED
        BY <2>2, <2>3, <3>1, <4>1, GetIpsUrlInv
    <3>2. \A w \in UNION {getIpsUrl(v, j, j.file) : v \in processValidators(list, Refers[f])} :
            ListInv(w) /\ Running(w)
      BY <3>1
    <3> QED
      BY <2>5, <3>2, StepInv
  <2> QED BY <2>1, <2>4, <2>5
<1>5. CASE responseIps
  <2>1. PICK j \in list.jobs :
          Handle(fetchFinish(list, j) \cup fetchFinish(processIps(list), j))
    BY <1>5 DEF responseIps
  <2>2. ClockOK /\ ListInv(list) /\ Running(list)
    BY <2>1, UpFacts
  <2>3. LET u == fetchDirty(list) IN ListInv(u) /\ Running(u) /\ list.jobs = u.jobs
    BY <2>2, FetchDirtyRunning DEF Running
  <2>4. LET u == processIps(list) IN ListInv(u) /\ Running(u) /\ j \in u.jobs
    BY <2>3 DEF processIps
  <2>5. ASSUME NEW v \in fetchFinish(list, j) PROVE ListInv(v) /\ Running(v)
    BY <2>2, <2>5, FetchFinishInv DEF Running
  <2>6. ASSUME NEW v \in fetchFinish(processIps(list), j) PROVE ListInv(v) /\ Running(v)
    BY <2>2, <2>4, <2>6, FetchFinishInv DEF Running
  <2>7. \A v \in fetchFinish(list, j) \cup fetchFinish(processIps(list), j) :
          ListInv(v) /\ Running(v)
    BY <2>5, <2>6
  <2> QED
    BY <2>1, <2>7, StepInv
<1> QED
  BY <1>1, <1>2, <1>3, <1>4, <1>5 DEF Response

LEMMA NextInv ==
    ASSUME IInv, [Next]_vars
    PROVE  IInv'
<1>0. now \in 0..MaxTime /\ ops \in 0..MaxOps
  BY DEF IInv
<1>1. CASE Crash
  <2>1. ops' = ops + 1 /\ ops < MaxOps
    BY <1>1 DEF Crash
  <2>2. ops' \in 0..MaxOps
    BY <1>0, <2>1
  <2> QED
    BY <1>1, <2>2, DownInv DEF Crash
<1>2. CASE Tick
  <2>0. now' = now + 1 /\ now < MaxTime /\ list' = list /\ up' = up /\ ops' = ops
    BY <1>2 DEF Tick
  <2>1. now' \in 0..MaxTime /\ now \in Nat /\ now' \in Nat /\ now <= now'
    BY <1>0, <2>0
  <2>2. now + ScoreDelay \in Nat /\ now' + ScoreDelay = now + ScoreDelay + 1
    BY <1>0, <2>0
  <2>3. list.mdtScoreTimer # NULL => list.mdtScoreTimer \in Nat
    BY TimesFacts DEF IInv, ListInv, ListType, ClockOK
  <2>4. ListInv(list)'
    BY <2>0, <2>2, <2>3 DEF IInv, ListInv, TimersInv, JobsInv
  <2>5. Running(list) => Running(list)'
    BY <2>0 DEF Running, RowsCovered, UpdateCovered, Saved, Unscored, Rows
  <2> QED
    BY <2>0, <2>1, <2>4, <2>5 DEF IInv
<1>3. CASE UNCHANGED vars
  BY <1>3 DEF vars, IInv, ListInv, TimersInv, JobsInv,
              Running, RowsCovered, UpdateCovered, Saved, Unscored, Rows
<1> QED
  BY <1>1, <1>2, <1>3, StartInv, NodeAddDomainInv, NodeRemoveDomainInv, RequestInv,
     ResponseInv, TimerInv DEF Next

\* The four parts of the invariant hold of the list in every state.
THEOREM ListInvariant == Safety => []IInv
<1>1. Init => IInv
  BY InitInv
<1>2. IInv /\ [Next]_vars => IInv'
  BY NextInv
<1> QED
  BY <1>1, <1>2, PTL DEF Safety

\* Every place is given back exactly once: mFetchActive is the number of
\* jobs under way, however their answers, the timers and crashes interleave
\* (fetchNext, fetchFinish).
THEOREM JobsAreCounted == Safety => []JobsCounted
<1>1. IInv => JobsCounted
  BY DEF IInv, ListInv, JobsInv, JobsCounted, TypeOK
<1> QED
  BY <1>1, ListInvariant, PTL

\* No domain is forgotten: while a job is free the timer is set for the
\* earliest row or before, unless mtpFetchNext is stale (setSeedDomains,
\* fetchNext).
THEOREM RowsAreCovered == Safety => []FetchCovered
<1>1. IInv => FetchCovered
  BY DEF IInv, Running, RowsCovered, FetchCovered, StaleNext
<1> QED
  BY <1>1, ListInvariant, PTL

\* No update is left unscored: the score timer is set, within the delay,
\* while there is one, after a restart too (scoreNext, start).
THEOREM UpdatesAreCovered == Safety => []ScoreCovered
<1>1. IInv => ScoreCovered
  BY DEF IInv, ListInv, TimersInv, Running, UpdateCovered, ScoreCovered
<1> QED
  BY <1>1, ListInvariant, PTL

\* A restart loads what the running list knows (miscSave).
THEOREM MiscIsCurrent == Safety => []MiscCurrent
<1>1. IInv => MiscCurrent
  BY DEF IInv, Running, Saved, MiscCurrent
<1> QED
  BY <1>1, ListInvariant, PTL
===============================================================================
