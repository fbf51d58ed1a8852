-------------------------------- MODULE Scoring --------------------------------
(***************************************************************************)
(* What the unique node list trusts (src/UniqueNodeList): the tables that  *)
(* validators, their newcoin.txt files and the user fill, and the scores   *)
(* scoreCompute derives from them for nodes (TrustedNodes, mUNL) and for   *)
(* addresses (PeerIps.Score).                                              *)
(*                                                                         *)
(* When a file is fetched and when scores are computed is the subject of   *)
(* UniqueNodeList: here a file may arrive at any time for a domain that    *)
(* has a row, and scoring may run at any time after an update.             *)
(***************************************************************************)
EXTENDS Naturals, Sequences, FiniteSets, FiniteSetsExt, Functions

CONSTANTS
    Keys,             \* node public keys
    Domains,          \* keys of SeedDomains, and names in a list (in lower case)
    Addresses,        \* domains whose name is also an account address
    Ips,              \* "ip port" pairs
    Files,            \* newcoin.txt files, each with the domain it is for
    ConfigIps,        \* theConfig.IPS
    ValidatorLists,   \* what a validators.txt or a validators_url may hold
    IpLists,          \* what an ips_url may hold
    NULL,             \* an absent row, key or checksum; an entry that is bad
    Classes,          \* storage classes ValidatorReferrals.Validator may be
                      \* written with: {"text"} in the code
    Rounds,           \* SCORE_ROUNDS
    MaxReferrals,     \* REFERRAL_VALIDATORS_MAX, REFERRAL_IPS_MAX
    FetchJobs,        \* NODE_FETCH_JOBS
    MaxOps            \* bound: requests from outside, and crashes

\* validatorSource: configured, manual, validators.txt, web, referral.
Sources == {"C", "M", "V", "W", "R"}

Bounded(S) == {s \in Seq(S) : Len(s) <= MaxReferrals}

ASSUME ConstantsAssumption ==
    /\ IsFiniteSet(Keys) /\ IsFiniteSet(Ips) /\ Keys \cap Domains = {}
    /\ Addresses \subseteq Domains /\ ConfigIps \subseteq Ips
    /\ NULL \notin Keys \cup Domains \cup Ips
    /\ NULL \notin Files /\ NULL \notin Sources /\ NULL \notin Nat
    /\ \A f \in Files :
        /\ f.domain \in Domains /\ f.key \in Keys
        /\ f.validators \in Seq(Keys \cup Domains \cup {NULL})
        /\ f.ips \in Seq(Ips \cup {NULL})
        /\ f.urls \subseteq {"validators", "ips"}
    /\ \A l \in ValidatorLists : l \in Seq(Keys \cup Domains \cup {NULL})
    /\ \A l \in IpLists : l \in Seq(Ips \cup {NULL})
    /\ Classes \subseteq {"text", "blob"}
    /\ Rounds \in Nat /\ MaxReferrals \in Nat /\ FetchJobs \in Nat /\ MaxOps \in Nat

VARIABLES
    db,               \* the tables
    mUNL,             \* the unique node list in memory
    jobs,             \* files whose urls are being fetched
    up,               \* is the program running?
    ops               \* requests and crashes so far

vars == <<db, mUNL, jobs, up, ops>>

\* A SeedDomains row.
SeedDomain == [PublicKey : Keys \cup {NULL}, Source : Sources, Sha256 : Files \cup {NULL}]

ASSUME RowAssumption == NULL \notin SeedDomain

\* A job after its newcoin.txt: the request it waits for, and a number that
\* tells two jobs with one file apart.
Job == [file : Files, n : 1..FetchJobs, phase : {"validators", "ips"}]

\* dirty: Misc.FetchUpdated is later than Misc.ScoreUpdated.  torn: since the
\* last scoring the process was killed between a change and its note in Misc.
Tables ==
    [SeedDomains : [Domains -> SeedDomain \cup {NULL}],
     SeedNodes : [Keys -> Sources \cup {NULL}],
     class : Classes,
     ValidatorReferrals : [Keys -> Bounded(Keys \cup Addresses)],
     IpReferrals : [Keys -> Bounded(Ips)],
     TrustedNodes : [Keys -> Nat \cup {NULL}],
     IpScore : [Ips -> Nat],
     dirty : BOOLEAN,
     torn : BOOLEAN]

\* Types; in particular no list of referrals is longer than
\* REFERRAL_VALIDATORS_MAX (processValidators, processIps).
TypeOK ==
    /\ db \in Tables
    /\ mUNL \subseteq Keys
    /\ jobs \subseteq Job
    /\ Cardinality(jobs) <= FetchJobs
    /\ up \in BOOLEAN
    /\ ops \in 0..MaxOps

-------------------------------------------------------------------------------
(* Filling the tables.                                                     *)

iSourceScore(vsWhy) ==
    CASE vsWhy \in {"C", "M"} -> 1500
      [] vsWhy = "V" -> 1000
      [] vsWhy = "W" -> 200
      [] OTHER -> 0

\* A source takes the place of one that is worth no more.
Promotes(vsWhy, old) == old = NULL \/ iSourceScore(vsWhy) >= iSourceScore(old)

fetchDirty(t) == [t EXCEPT !.dirty = TRUE]

\* Add or promote the row of every domain in D.  The scores are not dirty.
nodeAddDomains(t, D, vsWhy) ==
    [t EXCEPT !.SeedDomains = [d \in Domains |->
        IF d \notin D THEN @[d]
        ELSE IF @[d] = NULL
        THEN [PublicKey |-> NULL, Source |-> vsWhy, Sha256 |-> NULL]
        ELSE IF Promotes(vsWhy, @[d].Source) THEN [@[d] EXCEPT !.Source = vsWhy]
        ELSE @[d]]]

\* Fault: a new node waits for another update to be scored.
nodeAddPublicsQuietly(t, K, vsWhy) ==
    [t EXCEPT !.SeedNodes = [k \in Keys |->
        IF k \in K /\ Promotes(vsWhy, @[k]) THEN vsWhy ELSE @[k]]]

\* Add or promote the row of every node in K (setSeedNodes).
nodeAddPublics(t, K, vsWhy) ==
    LET changed == {k \in K : Promotes(vsWhy, t.SeedNodes[k])}
    IN [t EXCEPT !.SeedNodes = [k \in Keys |-> IF k \in changed THEN vsWhy ELSE @[k]],
                 !.dirty = @ \/ changed # {}]

\* setSeedGeneric takes every text for a pass phrase but the addresses of
\* accounts and of nodes: any other domain in a list is a bad validator.
GoodValidators == Keys \cup Addresses

\* The entries of a list that are good, in order.
Kept(list, good) ==
    LET kept[i \in Nat] == IF i = 0 THEN <<>>
                           ELSE IF list[i] \in good THEN Append(kept[i - 1], list[i])
                           ELSE kept[i - 1]
    IN kept[Len(list)]

\* The entries of a list that are used: bad ones are skipped, and those past
\* the limit are not looked at.
Accepted(list, good) == SubSeq(Kept(list, good), 1, Min({Len(Kept(list, good)), MaxReferrals}))

\* A list of validators: its entries are added, and are the referrals of key
\* from now on.  A list of our own (key is NULL) makes no referrals.
processValidators(t, key, vsWhy, list) ==
    LET entries == Accepted(list, GoodValidators)
        added == nodeAddPublics(nodeAddDomains(t, Range(entries) \cap Domains, vsWhy),
                                Range(entries) \cap Keys, vsWhy)
    IN fetchDirty(IF key = NULL THEN added
                  ELSE [added EXCEPT !.ValidatorReferrals[key] = entries])

\* A list of addresses replaces the one of key.
processIps(t, key, list) == fetchDirty([t EXCEPT !.IpReferrals[key] = Accepted(list, Ips)])

-------------------------------------------------------------------------------
(* Scoring.                                                                *)

\* SELECT Referral ... WHERE Validator=X'...': a text is never equal to a blob.
Referrals(t, k) ==
    IF t.class = "blob" THEN t.ValidatorReferrals[k] ELSE <<>>

DomainsOf(t, k) ==
    {d \in Domains : t.SeedDomains[d] # NULL /\ t.SeedDomains[d].PublicKey = k}

\* The sources that vouch for a node: of its domains and of its own row.
SourcesOf(t, k) ==
    {t.SeedDomains[d].Source : d \in DomainsOf(t, k)} \cup ({t.SeedNodes[k]} \ {NULL})

Seeds(t) == {k \in Keys : SourcesOf(t, k) # {}}

\* The points a node starts with: those of its best source.
SeedScore(t, k) == Max({0} \cup {iSourceScore(src) : src \in SourcesOf(t, k)})

\* What is reached from the keys in B, where k leads to next[k].
Reached(B, next) ==
    LET grow[n \in Nat] == IF n = 0 THEN B
                           ELSE grow[n - 1] \cup UNION {next[k] : k \in grow[n - 1]}
    IN grow[Cardinality(Keys)]

\* The list of nodes grows by the keys its nodes refer to.
Nodes(t) == Reached(Seeds(t), [k \in Keys |-> Range(Referrals(t, k)) \cap Keys])

\* umDomainIdx: of the domains with one key only the first row is indexed,
\* and rows come in any order.
DomainIndexes(t) ==
    {idx \in SUBSET UNION {DomainsOf(t, k) : k \in Keys} :
        \A k \in Keys : DomainsOf(t, k) # {} =>
            \E d \in DomainsOf(t, k) : idx \cap DomainsOf(t, k) = {d}}

\* Where the list of each node stops being recorded.  Adding a node may move
\* vsnNodes and leave viReferrals dangling: that entry and what follows is
\* then written to memory that was freed.
Ends(t) ==
    {end \in [Keys -> 0..MaxReferrals] :
        \A k \in Keys :
            LET list == Referrals(t, k)
            IN \/ end[k] = Len(list)
               \/ end[k] < Len(list) /\ list[end[k] + 1] \in Keys \ Seeds(t)}

\* viReferrals: the nodes a node refers to, in order, other than itself.
viReferrals(t, idx, end) ==
    [k \in Keys |->
        LET list == SubSeq(Referrals(t, k), 1, end[k])
            node(e) == IF e \in Keys THEN {e} ELSE {x \in Keys : e \in idx \cap DomainsOf(t, x)}
        IN Kept([i \in DOMAIN list |->
                    IF node(list[i]) = {} THEN NULL ELSE CHOOSE x \in node(list[i]) : TRUE],
                Keys \ {k})]

\* Fault: the points are not shared out among the entries.
PointsWhole(iSeed, iEntries, i) == iSeed * ((iEntries - i) + 1)

\* What entry i of iEntries gets of iSeed points: less, the later it comes.
Points(iSeed, iEntries, i) ==
    LET iTotal == ((iEntries + 1) * iEntries) \div 2
        iBase == (iSeed * iEntries) \div iTotal
    IN (iBase * ((iEntries - i) + 1)) \div iEntries

\* What x gets when every k shares seed[k] among the entries of lists[k].
Received(lists, seed, x) ==
    SumFunction([p \in {q \in Keys \X (1..MaxReferrals) :
                            q[2] <= Len(lists[q[1]]) /\ lists[q[1]][q[2]] = x} |->
                    Points(seed[p[1]], Len(lists[p[1]]), p[2])])

\* One round: what it brings is added to the scores and handed on in the next.
scoreRound(lists, sn) ==
    LET iRoundScore == [k \in Keys |-> Received(lists, sn.iRoundSeed, k)]
    IN [iScore |-> [k \in Keys |-> sn.iScore[k] + iRoundScore[k]], iRoundSeed |-> iRoundScore]

\* The scores after all rounds.  A round that brings nothing, where the code
\* stops, is followed by rounds that bring nothing.
Scores(lists, start) ==
    LET round[n \in Nat] == IF n = 0 THEN [iScore |-> start, iRoundSeed |-> start]
                            ELSE scoreRound(lists, round[n - 1])
    IN round[Rounds].iScore

\* The scores scoreCompute may find.
ScoreOutcomes(t) ==
    LET start == [k \in Keys |-> SeedScore(t, k)]
    IN {Scores(lists, start) :
            lists \in {viReferrals(t, idx, end) : idx \in DomainIndexes(t), end \in Ends(t)}}

\* Fault: nodes that are no longer listed keep their scores.
StoreScoresKept(t, score) ==
    [t EXCEPT !.TrustedNodes = [k \in Keys |-> IF k \in Nodes(t) THEN score[k] ELSE @[k]],
              !.IpScore = [a \in Ips |-> Received(t.IpReferrals, score, a)],
              !.dirty = FALSE, !.torn = FALSE]

\* Persist the scores of nodes and of addresses: all others become zero.
StoreScores(t, score) ==
    [t EXCEPT !.TrustedNodes = [k \in Keys |-> IF k \in Nodes(t) THEN score[k]
                                               ELSE IF @[k] = NULL THEN NULL ELSE 0],
              !.IpScore = [a \in Ips |-> Received(t.IpReferrals, score, a)],
              !.dirty = FALSE, !.torn = FALSE]

-------------------------------------------------------------------------------
(* The program.                                                            *)

Init ==
    /\ db \in [SeedDomains : {[d \in Domains |-> NULL]},
               SeedNodes : {[k \in Keys |-> NULL]},
               class : Classes,
               ValidatorReferrals : {[k \in Keys |-> <<>>]},
               IpReferrals : {[k \in Keys |-> <<>>]},
               TrustedNodes : {[k \in Keys |-> NULL]},
               IpScore : {[a \in Ips |-> 0]},
               dirty : {FALSE}, torn : {FALSE}]
    /\ mUNL = {}
    /\ jobs = {}
    /\ up = FALSE
    /\ ops = 0

\* trustedLoad: what was trusted is trusted again.
trustedLoad ==
    /\ ~up
    /\ mUNL' = {k \in Keys : db.TrustedNodes[k] \notin {NULL, 0}}
    /\ up' = TRUE
    /\ UNCHANGED <<db, jobs, ops>>

\* A request from outside leaves the tables t.
Request(t) ==
    /\ up /\ ops < MaxOps
    /\ db' = t
    /\ ops' = ops + 1
    /\ UNCHANGED <<mUNL, jobs, up>>

\* By hand.
nodeAddDomain(d) == Request(nodeAddDomains(db, {d}, "M"))
nodeAddPublic(k) == Request(nodeAddPublics(db, {k}, "M"))

\* A list of our own, if there is one.
OwnList(t, vsWhy, list) == IF list = NULL THEN t ELSE processValidators(t, NULL, vsWhy, list)

\* A validators.txt: from a file, or from the network where nodeBootstrap
\* asks for it when it finds no other list (validatorsResponse).
nodeProcess(list) == Request(OwnList(db, "V", list))

\* REPLACE INTO PeerIps of the configured addresses.
IpsReplaced(t) ==
    IF ConfigIps = {} THEN t
    ELSE fetchDirty([t EXCEPT !.IpScore = [a \in Ips |-> IF a \in ConfigIps THEN 0 ELSE @[a]]])

\* A validators.txt on disk, the validators of the configuration and its
\* addresses, whose rows are replaced.  The file is read even if there are
\* seeds of an earlier run: the code counts them by sources no row has.
nodeBootstrap(file, list) ==
    Request(IpsReplaced(OwnList(OwnList(db, "V", file), "C", list)))

\* The key is not quoted in the statement, which is then no statement: no
\* row is deleted.
nodeRemovePublic == Request(fetchDirty(db))

nodeRemoveDomain(d) == Request(fetchDirty([db EXCEPT !.SeedDomains[d] = NULL]))

\* The seeds go; what the validators referred to stays in its tables.
SeedsDeleted == fetchDirty([db EXCEPT !.SeedDomains = [d \in Domains |-> NULL],
                                      !.SeedNodes = [k \in Keys |-> NULL]])

nodeReset == Request(SeedsDeleted)

\* A handler of a job leaves the tables t and the jobs J.
Handle(t, J) ==
    /\ up
    /\ db' = t
    /\ jobs' = J
    /\ UNCHANGED <<mUNL, up, ops>>

\* getIpsUrl and getValidatorsUrl: what a job with a file waits for next.
getIpsUrl(job) == IF "ips" \in job.file.urls THEN {[job EXCEPT !.phase = "ips"]} ELSE {}
getValidatorsUrl(job) == IF "validators" \in job.file.urls THEN {job} ELSE getIpsUrl(job)

\* A number no job with this file has.
FreshNumber(f) == CHOOSE n \in 1..FetchJobs : \A j \in jobs : j.file = f => j.n # n

\* A file may arrive for a domain with a row, while a place for a job is free.
Fetchable(f) == db.SeedDomains[f.domain] # NULL /\ Cardinality(jobs) < FetchJobs

FileStored(f) == [db EXCEPT !.SeedDomains[f.domain].PublicKey = f.key,
                            !.SeedDomains[f.domain].Sha256 = f]

\* A newcoin.txt arrives for its domain: the row takes its key and its
\* checksum, and the lists in it are processed if it has changed
\* (processFile).  A file for another domain is dropped, like a bad one.
responseFetch(f) ==
    LET t == FileStored(f)
        u == processValidators(t, f.key, "R", f.validators)
        job == [file |-> f, n |-> FreshNumber(f), phase |-> "validators"]
    IN /\ Fetchable(f)
       /\ IF db.SeedDomains[f.domain].Sha256 = f
          THEN Handle(t, jobs)
          ELSE Handle(processIps(u, f.key, f.ips), jobs \cup getValidatorsUrl(job))

\* The list at validators_url, or the failure to get it (NULL).
responseValidators(j, list) ==
    /\ j.phase = "validators"
    /\ Handle(IF list = NULL THEN db ELSE processValidators(db, j.file.key, "V", list),
              (jobs \ {j}) \cup getIpsUrl(j))

\* The list at ips_url, or the failure to get it.
responseIps(j, list) ==
    /\ j.phase = "ips"
    /\ Handle(IF list = NULL THEN db ELSE processIps(db, j.file.key, list), jobs \ {j})

\* Fault: the list in memory waits for a restart.
scoreComputeMerged ==
    \E score \in ScoreOutcomes(db) :
        /\ db' = StoreScores(db, score)
        /\ mUNL' = mUNL

\* Compute and store the scores; the list in memory is all nodes, the ones
\* without points too.
scoreCompute ==
    \E score \in ScoreOutcomes(db) :
        /\ db' = StoreScores(db, score)
        /\ mUNL' = Nodes(db)

\* An update is scored.
scoreTimerHandler ==
    /\ up /\ db.dirty
    /\ scoreCompute
    /\ UNCHANGED <<jobs, up, ops>>

\* Scored by request, update or not.
nodeScore ==
    /\ up /\ ops < MaxOps
    /\ scoreCompute
    /\ ops' = ops + 1
    /\ UNCHANGED <<jobs, up>>

(* A handler runs several statements, each committed by itself, and notes    *)
(* the update in Misc with the last one (fetchDirty): the tables a process  *)
(* that is killed in between leaves.                                        *)

\* A change whose note is not written yet.
Unnoted(t, before) == [t EXCEPT !.dirty = before.dirty]

\* A list of validators: after the DELETE of the old referrals and n entries,
\* the last of them noted or not yet, and after the INSERT of the referrals.
PartValidators(t, key, vsWhy, list) ==
    LET entries == Accepted(list, GoodValidators)
        bare == IF key = NULL THEN t ELSE [t EXCEPT !.ValidatorReferrals[key] = <<>>]
        added(n) == LET e == Range(SubSeq(entries, 1, n))
                    IN nodeAddPublics(nodeAddDomains(bare, e \cap Domains, vsWhy),
                                      e \cap Keys, vsWhy)
    IN {added(n) : n \in 0..Len(entries)}
        \cup {Unnoted(added(n), added(n - 1)) : n \in 1..Len(entries)}
        \cup {Unnoted(processValidators(t, key, vsWhy, list), added(Len(entries)))}

\* A list of addresses: after the DELETE, and after the INSERT.
PartIps(t, key, list) ==
    {[t EXCEPT !.IpReferrals[key] = <<>>], Unnoted(processIps(t, key, list), t)}

\* nodeBootstrap, or nodeProcess where list is NULL: inside one of the lists,
\* or after the addresses were replaced.
PartBootstrap(file, list) ==
    LET part(t, vsWhy, l) == IF l = NULL THEN {} ELSE PartValidators(t, NULL, vsWhy, l)
        first == OwnList(db, "V", file)
        second == OwnList(first, "C", list)
    IN part(db, "V", file) \cup part(first, "C", list)
        \cup {Unnoted(IpsReplaced(second), second)}

\* A newcoin.txt: after the row of its domain, inside its lists.
PartFetch(f) ==
    LET t == FileStored(f)
    IN IF ~Fetchable(f) \/ db.SeedDomains[f.domain].Sha256 = f THEN {}
       ELSE {t} \cup PartValidators(t, f.key, "R", f.validators)
                \cup PartIps(processValidators(t, f.key, "R", f.validators), f.key, f.ips)

\* What a process may leave that is killed inside a handler.
Interrupted ==
    {Unnoted(nodeAddPublics(db, {k}, "M"), db) : k \in Keys}
        \cup (UNION {PartBootstrap(file, list) : file, list \in ValidatorLists \cup {NULL}})
        \cup {[db EXCEPT !.SeedDomains[d] = NULL] : d \in Domains}
        \cup {[db EXCEPT !.SeedDomains = [d \in Domains |-> NULL]],
              Unnoted(SeedsDeleted, db)}
        \cup (UNION {PartFetch(f) : f \in Files})
        \cup (UNION {PartValidators(db, j.file.key, "V", list) :
                        j \in {i \in jobs : i.phase = "validators"}, list \in ValidatorLists})
        \cup (UNION {PartIps(db, j.file.key, list) :
                        j \in {i \in jobs : i.phase = "ips"}, list \in IpLists})
        \cup {Unnoted(StoreScores(db, score), db) : score \in ScoreOutcomes(db)}

\* The process is killed, between handlers or inside of one; the tables are
\* left as they are at that moment.  A handler cut short counts as a request
\* besides.
Crash ==
    /\ up /\ ops < MaxOps
    /\ up' = FALSE
    /\ mUNL' = {}
    /\ jobs' = {}
    /\ \/ /\ db' = db
          /\ ops' = ops + 1
       \/ /\ ops + 1 < MaxOps
          /\ \E t \in Interrupted : db' = [t EXCEPT !.torn = @ \/ t # db]
          /\ ops' = ops + 2

Next ==
    \/ trustedLoad
    \/ Crash
    \/ \E d \in Domains : nodeAddDomain(d)
    \/ \E k \in Keys : nodeAddPublic(k)
    \/ \E list \in ValidatorLists : nodeProcess(list)
    \/ \E file, list \in ValidatorLists \cup {NULL} : nodeBootstrap(file, list)
    \/ nodeRemovePublic
    \/ \E d \in Domains : nodeRemoveDomain(d)
    \/ nodeReset
    \/ \E f \in Files : responseFetch(f)
    \/ \E j \in jobs, list \in ValidatorLists \cup {NULL} : responseValidators(j, list)
    \/ \E j \in jobs, list \in IpLists \cup {NULL} : responseIps(j, list)
    \/ scoreTimerHandler
    \/ nodeScore

Spec == Init /\ [][Next]_vars

-------------------------------------------------------------------------------
(* Properties.                                                             *)

\* Nodes with points to give, and those that may get some of them.
Trusting(t) ==
    Reached({k \in Keys : SeedScore(t, k) > 0},
            [k \in Keys |-> (Range(Referrals(t, k)) \cap Keys)
                \cup {x \in Keys : DomainsOf(t, x) \cap Range(Referrals(t, k)) # {}}])

Score(k) == IF db.TrustedNodes[k] = NULL THEN 0 ELSE db.TrustedNodes[k]

\* All changes to the tables are scored, as far as Misc knows of them.  What a
\* process that was killed inside a handler changed and did not note is not
\* scored before the next update that is.
UpToDate == ~db.dirty /\ ~db.torn

\* Trust has a source: once updates are scored, every node with points can be
\* reached from a node the user, a validators.txt or the configuration vouches
\* for today, every address with points is referred to by such a node, and no
\* other node is in mUNL.  The referrals of removed validators, which stay in
\* their tables, give nothing, and the tables hold nothing but keys, domains
\* and addresses (scoreCompute, nodeReset, responseFetch, processValidators).
TrustHasSource ==
    /\ TypeOK
    /\ UpToDate =>
        /\ \A k \in Keys : Score(k) > 0 => k \in Trusting(db)
        /\ \A a \in Ips : db.IpScore[a] > 0 => \E k \in Trusting(db) : a \in Range(db.IpReferrals[k])
        /\ mUNL \subseteq Nodes(db)

\* Points are handed on and never made: nodes that refer to each other get no
\* more than what the seeds have, once for each round, and the addresses of a
\* node share no more than its score (scoreRound, scoreCompute).
TrustBounded ==
    /\ UpToDate => SumFunction([k \in Keys |-> Score(k)])
                  <= (Rounds + 1) * SumFunction([k \in Keys |-> SeedScore(db, k)])
    /\ SumFunction(db.IpScore) <= SumFunction([k \in Keys |-> Score(k)])

\* Every seed is listed, and a node with a row of its own has at least the
\* points of its source, whatever jobs and restarts came between its adding
\* and the scoring (setSeedNodes, processValidators, scoreCompute).
SeedsScored ==
    UpToDate =>
        /\ \A k \in Seeds(db) : db.TrustedNodes[k] # NULL
        /\ \A k \in Keys : db.SeedNodes[k] # NULL => Score(k) >= iSourceScore(db.SeedNodes[k])

\* The list in memory and the stored one agree on the nodes that have points,
\* also after a restart (trustedLoad, scoreCompute).
UNLRemembered ==
    up => /\ {k \in Keys : Score(k) > 0} \subseteq mUNL
          /\ mUNL \subseteq {k \in Keys : db.TrustedNodes[k] # NULL}

-------------------------------------------------------------------------------
(* What the comments say and the code does not do.                         *)

\* "For a round of scoring we destribute points from a node to nodes it
\* refers to.": the node a well trusted seed refers to first gets points.
ReferralsCount ==
    UpToDate =>
        \A k \in Keys :
            LET list == db.ValidatorReferrals[k]
            IN Score(k) >= 1000 /\ list # <<>> /\ list[1] \in Keys \ {k} => Score(list[1]) > 0
===============================================================================
