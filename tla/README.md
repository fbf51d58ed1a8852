# bytev5 in TLA+

bytev5 is an early port of the "newcoin" peer-to-peer node: a connection pool
over SSL peers, a list of trusted nodes built from files that web sites
publish, and a wallet that holds the node's identity, over a JSON library, a
database wrapper and the texts of keys. This directory models them, checks the
models with TLC on small instances, and proves the safety properties that
matter most with TLAPS for every value of the constants.

The repository has no documents besides comments; the comments that state an
intention are quoted where a property is about them. Its only test is the
Boost suite `newcoin_address` at the end of `NewcoinAddress.cpp` (one case,
`check_crypto`: the texts of the seed of one pass phrase and of the keys made
of it, signing and encryption). Everything else below has no test.

## The system

Everything runs on one `io_service`: a handler runs to completion, and between
handlers completions, timers and requests come in any order. What makes it
hard is that state is spread over objects that call each other back, over
tables that survive a restart, and over timers that can already have fired
when they are cancelled.

| Component | State | Operations | Talks to | Hard because |
|---|---|---|---|---|
| Connection pool (`src/ConnectionPool`) | `mIpMap`, `mConnectedMap`, `mScanning`, scan and policy timers, table `PeerIps` | connect to, scan, policy, peer connected / verified / closed / disconnected, save address | creates peers; is called back by them; reads and writes the table; asked by the node list to look again | two connections to one node race; one scan at a time; a lost wakeup stops scanning; the table outlives the process |
| Peer, life cycle (`src/Peer`) | stage, hello, identity, address, verify timer, pool pointer | connect, accept, handshake, hello, verify timeout, detach | the pool | late timers; detach from any handler; the pool pointer may be null |
| Peer, wire (`src/Peer`) | send queue, packet being written, read buffer | send, write completion, header and body read, dispatch | the other end, byte by byte | the ends are asynchronous; one write at a time; hello first |
| Packed message (`shared/PackedMessage`) | none | encode header, length and type of a buffer | peer | framing depends on every shift |
| Node list, schedule (`src/UniqueNodeList`) | table `SeedDomains`, active jobs, fetch and score timers, `Misc` times | add / remove domain, load lists, fetch, three chained responses, score | https client, pool | a bounded number of jobs; debounced scoring; crashes |
| Node list, scores | tables `SeedDomains`, `SeedNodes`, `ValidatorReferrals`, `IpReferrals`, `TrustedNodes`, list `mUNL` | add and remove domain or node, lists and files, reset, bootstrap, `scoreCompute`, `scoreRound` | `PeerIps` | rounds of integer shares among nodes that refer to each other; referrals outlive what made them; files of two jobs in any order; column types |
| Serializer (`shared/Serializer`) | a byte buffer | add and get numbers, raw bytes, strings with a length prefix | — | boundaries of a prefix of one to three bytes |
| Https client (`shared/HttpsClient`) | sites left, deadline timer, shutdown code, stream | get, resolve, connect, handshake, write, read, deadline, complete | its caller, web sites | silent sites; deadline races completion; late deadline |
| Wallet (`src/Wallet`) | identity of the node, tables `NodeIdentity`, `RPCData` | start (load, create, load again), fetch, store and delete data | database wrapper; starts the node list | the identity must outlive every failure and crash |
| Database wrapper (`notDatabase`, `src/DatabaseCon`) | connection, current statement, its rows, lock, open transaction | execute, iterate, columns, escape, init strings | SQLite; every thread | one current statement for all threads; results that are ignored |
| Addresses and keys (`src/NewcoinAddress`, `shared/base58.h`, `shared/rfc1751.cpp`) | version and bytes | create, write as text or words, read, sign, verify | people, files, the wallet, the node list | one class for seven kinds; a pass phrase is any text; leading zeros, ranges of a search |
| Section parser (`shared/ParseSection`) | none | sections and entries of a text | the node list | line ends, comments, headers and blanks in any order |
| JSON (`json`) | a value; the reader's place, stack, errors, comments | build, convert, compare, iterate, write in three styles, read | — | holes in arrays, limits of integers, comments anywhere, going on after errors |
| Configuration, `main` | — | — | — | values are constants; `main` only builds objects (below) |

What makes each correct:

* pool: the two maps say exactly which peers are live and accepted, one
  connection per node, the first one stays; a scan always ends; no address is
  forgotten, and a due one is tried;
* wire: frames arrive whole, once, in order; hello first; nothing is stuck;
* node list: a job's place is always given back; a due domain is fetched; an
  update is scored although the process may stop in between;
* scores: trust comes from a seed that is there today, is shared out and never
  made, reaches every seed, and is the same after a restart;
* serializer: what was added is got back;
* wallet: a node has one identity for ever; what was reported stored is what
  is fetched; nobody reads rows of a statement that is not his;
* keys: a text is read as the key it was written for, or refused; a list adds
  exactly the keys it lists;
* JSON: what is written is read back, as exactly as it was written; a document
  is refused exactly when there is an error, at the first token that is out of
  place; comments change nothing but comments;
* https client: the completion routine is called exactly once, and always
  unless a site stands still past its deadline; a page is the last site's.

`PROJECT.json` lists all components and the hazards, each at its line.

## Modules

| Module | What it is |
|---|---|
| `ConnectionPool` | the pool composed with the life cycle of its peers |
| `MCConnectionPool` | symmetry for TLC |
| `ConnectionPoolProofs` | its theorems |
| `Bytes` | bytes, of which messages, buffers and keys are sequences |
| `PackedMessage` | the header, as operators on bytes |
| `PeerWire` | the two ends of one connection, over `PackedMessage` |
| `MCPeerWire` | symmetry for TLC |
| `PeerWireProofs` | the header is read back as it was written, the discipline of the send queue, and frames arrive as sent |
| `HttpsGet` | abstract: what a request promises its caller |
| `HttpsClient` | the client; implements `HttpsGet` |
| `HttpsClientProofs` | its theorems, the refinement included |
| `UniqueNodeList` | fetch and score scheduling; its requests complete as `HttpsGet` promises |
| `MCUniqueNodeList` | two domains and their files |
| `UniqueNodeListProofs` | its theorems |
| `Scoring` | the tables behind trust, and scoring; when it happens is `UniqueNodeList`'s |
| `ScoringProofs` | its theorems, and what its sums and recursive functions compute |
| `Recursion` | recursion and induction as facts about sets, for `ScoringProofs` and `CodecProofs` |
| `MCScoring` | three nodes, two domains, files and lists |
| `Serializer` | the byte buffer, as operators |
| `JsonValue`, `JsonWriter`, `JsonReader` | `Json::Value`, the writers and the reader, as operators |
| `Json` | a client of them |
| `Base58`, `Rfc1751`, `NewcoinAddress` | texts and words of keys, and the class of all keys, as operators |
| `CodecProofs` | what `Serializer`, `Base58` and `Rfc1751` write, they read |
| `ParseSection` | files of sections, as operators |
| `SiteFile` | keys on their way through texts and files |
| `Database` | the connection, its statement, lock and transaction |
| `Wallet` | the wallet and other threads above `Database` |
| `LibraryProofs` | the theorems of `SiteFile` and `Wallet` |
| `MCLibrary` | `Json`, `SiteFile` and `Wallet` side by side |

Operators and actions have the names of the functions they model; `map` in
`PROJECT.json` gives the lines. An operator whose comment begins with "Fault:"
is a deliberately wrong variant of the one that follows it. It is used to test
that a property notices the mistake and is in no specification.

### ConnectionPool

Handlers call each other: `detach` calls `peerClosed`, which calls
`scanRefresh`, which creates a peer. So the code of a handler is an operator
from a pool state (record `pool`) to the set of states it may leave, and an
action (`Handle`) takes one of them.

* `scanRefresh`, `policyLowWater` and `recvPeers` loop or recurse in the code
  and are closed forms here: what rows are put off and which one is tried.
  Rows with equal times come in any order.
* The clock is absolute with horizon `MaxTime`. `NewRow` is a row due since
  the epoch, as the table's defaults make it; rewriting `PeerIps` after
  scoring (`ReplaceRows`) resets connected addresses to that.
* A peer object is recycled after it detached: every handler of a detached
  peer returns at its `mDetaching` test.
* `recvHello` may find its timer expired and the handler in the queue
  ("queued"); a scan handler that is late has the effect of any other call of
  `scanRefresh`.
* The bodies of `recvHello`, `sendHello` and `recvGetPeers` are commented out
  in the source. They are the only definition these functions have and are
  modelled from there.
* `peerConnect` passes `nullptr` as the new peer's pool. `PoolPassed` says
  whether it passes the pool instead. Run `pool_null` shows what the code does;
  the other runs take it as passed, to see what else there is. The theorems
  hold for both.
* `Peer::connect` has two error exits before its timer is armed: an address
  that does not resolve and a timer that cannot be set. Both call `detach`
  inside `peerConnect`, which holds `mPeerLock`; `detach` calls `peerClosed`,
  which locks it again. The lock is not recursive, so the loop never returns.
  `ScanLost` and the partial outcomes of `policyLowWater` are the states this
  leaves: `fault` is set, no handler runs any more, and only `Crash`, a kill
  of the process, gets out of it.

### PeerWire

Each end has a `Peer` record; `writes` are the bytes left of each
`async_write`, `reading` what `async_read` waits for. Bytes are real: headers
are encoded and decoded by `PackedMessage`, bodies are one or two bytes.
`Transfer` moves one byte, so a reader may see half a header, and an end may
detach, or the network fail, between any two bytes. `sent`, `received` and
`reason` are history variables. Messages other than hello, get-peers, peers
and one relayed type do not change a peer and are left out.

### HttpsClient

`mDeqSites` is the number of sites left, which also names the front one. A
chain of operations is one `pending` operation at a time by construction of
the code, not of the model: `pending` is a set. `httpsNext` recurses when a
site fails locally; the closed form skips any number of sites. A deadline may
expire at any time while its timer is set, and `cancel` does not take back a
handler that is queued (`handleDeadlineLate`). Errors of `cancel` itself are
left out.

The stream and the two buffers are one for all sites. `mRequest` and
`mResponse` are the sets of sites whose bytes stand in them: a failed write
leaves the rest of its request, a failed read what it has read, and the next
site's request and page come behind that (`handleWrite`, `handleData`). What
`parseData` makes of mixed bytes, a page or none, is a free choice.
`handleDeadline` marks the client, cancels the resolver and shuts the stream
down synchronously. Where there is an SSL session the shutdown may wait for
the site (`mSocketSsl` is "blocked", and no handler runs until
`ShutdownReturns`). Nothing cancels an operation under way.

### UniqueNodeList

`list` is the object with its tables; `Crash` leaves the tables. `fetchNext`
starts one domain and calls itself: `Chosen`, `FetchNow`, `FetchLater` are its
closed form. A domain in a list of validators is refused unless its name is
also an account address (`Addresses`), because `setSeedGeneric` takes any other
text for a pass phrase (run `site_lists`). A file is a model value with the domains it refers to (`Refers`)
and the urls it names (`Urls`); its checksum is its identity. Which known
domains are promoted by a file is a free choice (`P`). A timer that is set
again after it expired leaves its handler queued (`queued`). A request may
complete before `httpsGet` returns; that is the same as right after it. The
assertion in `responseFetch` that fails for a domain removed meanwhile ends
the process (`responseFetchUnknown`). The process is killed between handlers
here; a kill between two statements of a handler is the matter of `Scoring`,
and what it leaves of `SeedDomains` and `Misc` is one of the states a kill
before or after the handler leaves, but for the checksum of a file whose lists
were not processed.

### Scoring

`db` has one field per table, `mUNL` is the list in memory, `jobs` are the
fetches that still wait for a file at `validators_url` or `ips_url`. A file
arrives at any time for a domain that has a row: the schedule is left to
`UniqueNodeList`. `dirty` says that `FetchUpdated` is later than `ScoreUpdated`.

* A handler is several statements, each committed by itself, and the note in
  `Misc` (`fetchDirty`) is the last. `Interrupted` has the tables that a kill
  between two of them leaves, for every handler, and `Crash` takes one of them
  or the tables as they are. Such tables may have changed without being noted;
  `torn` remembers that until they are scored. Nothing is claimed of the scores
  of torn tables: they count as current for the program and are not, which is
  what the order of the statements brings with it. From the next scoring on
  all properties hold again, whatever was torn.

* `scoreCompute` is a set of outcomes (`ScoreOutcomes`): rows come in any
  order, which decides the domain a node is indexed under (`DomainIndexes`),
  and the code keeps references into a vector over `push_back`, so that
  referrals recorded after a new node was found may be lost (`Ends`).
* Points are divided as in the code, in integers, twice (`Points`).
* The column `ValidatorReferrals.Validator` is written as text and asked for as
  a blob, which SQLite never finds equal. `class` is the storage class of the
  column. The code's is "text", and run `score_referrals` shows what follows.
  With it no points are ever handed on, so `score_trust` also checks "blob",
  the class the query asks for, where everything else the code does counts.
* `nodeRemovePublic` deletes nothing (the key is not quoted), and
  `nodeBootstrap` counts seeds by sources that no row has; both are modelled as
  they are.
* Names in lists are taken to be in lower case, as the keys of `SeedDomains`
  are. `Seen`, comments and the times of rows are left out.

### Serializer

A buffer is a sequence, an offset counts from zero, and a read that returns
false or throws is `Failed`. Hashes, signatures and tagged lists are left out.

### JSON

A value is a tuple of type, data and comments; arrays and objects are
functions, as they are maps in the code, so that an array may have holes. A
document is a sequence of lexemes, because the grammar, the comments and the
recovery from errors depend on nothing smaller; inside a string every
character counts, escapes included. Reals are hundredths and the infinities;
the writer keeps `precision` significant digits of them, 4 in the run and 16
in the code, and prints "inf" for what has none. Exponents and NaN are left
out. `maxInt` is a parameter too: the limits of the integer types are reached
with numbers of three digits.

* `Reader::parse` is a function of the reader's record. A pointer to a value
  is a path from the root, and `stale` notes that a comment was written to a
  value that is gone.
* `Json` builds values with two operations on paths, writes them with each
  writer, and reads what was written; or it reads what somebody typed, up to
  two lexemes after a beginning, and numbers on both sides of every limit. A
  failed assertion of `resize` is the end of the program ("aborted").
* What a document is, is a pushdown automaton over its tokens (`Take`,
  `TakeComment`), in the two forms that `ParseHonest` compares the parser with:
  what every reader must accept, and what this one may: any token between two
  elements, or two members after a comment, and any text behind the root.
  Names are never empty: behind an empty one the reader accepts a comma too
  many.
* A line comment in front of a comment of several lines would end inside it;
  such documents are not read (`Readable`).

### Keys and files

A text is a sequence of characters, of which the 58 digits are their values;
bytes and their base 58 digits are real, so that leading zeros, versions and
check bytes are what they are. A word of RFC 1751 is one character that tells
its length and its place in the dictionary, which is enough for the search.
The curve, SHA-256 and Hash160 are stand-ins (external in `map`) that keep
apart what the real functions keep apart, and let a signature verify with its
own public key only. What the code does in loops is written as recursive
functions, with one operator for a round (`NextDigit`, `Narrowed`, `NextPiece`,
`TakeLine`), so that it can be proved about. `SiteFile` writes, pads, damages and reads texts, and
fetches files of up to three lines as `responseValidators` does.

### Database and Wallet

`disk` is what a restart finds, `view` what the connection sees. A statement
may fail for a lasting reason (no such table, a table that exists) or for one
that passes (`FailsForNow`, at most `MaxFaults` times). A function takes the
lock and runs its statement in one step; if there are rows, another step reads
them and lets the lock go. Iterating without `endIterRows`, as `SQL_FOREACH`
does, leaves the statement behind. `lost` notes that the transaction of the
init strings could not be committed. `initCount` is 0, what `main` passes, or
the length of `WalletDBInit`, what the strings are written for. Rows hold what
`humanNodePublic` and `escape` make of an identity, and `MCLibrary` reads them
with `setNodePublic` and the columns' names.

## Runs

| Run | Checks | Bounds |
|---|---|---|
| `pool_safety` | maps exact; attempts have deadlines; the scan in progress is under way; no address forgotten; scan timer covers the first row; first connection stays | 2 addresses, 2 other nodes, 4 peer objects, 2 inbound, 3 time units, 2 requests or crashes |
| `pool_liveness` | scans end; due addresses are tried | 2 addresses, 3 peers, 1 request |
| `pool_null` (violation) | "Inform connect failed." | smallest that shows it |
| `https_get` | one operation at a time; completed once; always supervised; a reported page is the last site's, not struck, and mixed with nothing but leftovers of failed reads; implements `HttpsGet`, so completes unless a site stands still past its deadline for ever | 1 to 3 sites |
| `https_stop` (violation) | "Stop the transaction." | 1 site |
| `unl_jobs` | types, jobs counted; no domain without a timer or a job; no update without a score timer; stored times current; due domains are fetched if requests complete; updates are scored | 2 domains, 2 files, 2 jobs, clock to 2, 2 requests or crashes, removals |
| `unl_manualadd` (violation) | "A manual add forces immediate scan." | 2 domains, 1 job, removals |
| `wire_order` | one write; queue moves; frames in order; never a wrong message; what is sent arrives unless the connection ends | 2 ends, one of which (`Relayers`) relays 1 message |
| `score_trust` | types, trust has a source; points are not made; seeds are scored; the list survives a restart | 3 nodes, 2 domains, 3 files, 2 addresses, 2 referrals per list, 3 rounds, 2 jobs, 3 requests or crashes, those inside handlers included |
| `score_referrals` (violation) | "For a round of scoring we destribute points from a node to nodes it refers to." | the same, 10 rounds, 2 requests |
| `library` | JSON: what is written is read back to its last written digit, a document refused where it stops being one, comments go to living values and change nothing else, numbers exact, contracts of values; keys: texts read back as what they were made of, damage noticed, lists of validators; wallet: identity kept, rows current | `maxInt` 127, 2 operations on 6 paths, 2 lexemes behind 4 beginnings of documents, numbers to 300; 2 seeds, 2 account numbers, files of 3 lines; 3 threads, 2 identities, 2 texts, 1 fault, 2 crashes |
| `site_lists` (violation) | "A domain: need to look it up." | the same |

The three parts of `library` share no state, so one run checks them side by
side: a behaviour is one of theirs (`part`). Types are proved for the pool, the
wire, the client and the wallet and are part of `JobsCounted` and
`TrustHasSource` for the node list.

Why the bounds are enough to be interesting. Two addresses and two other nodes
with four peers let an inbound and an outbound connection to one node race
while a scan of another address is under way; two requests are enough for a
crash and a rewrite of the table. Three sites let a late deadline hit a middle
site and the last. Two domains that refer to each other fill both jobs, and a
third request for a job finds none free. One relayed message queues behind
hello and get-peers. Three nodes make a cycle of referrals with a node outside
it; a list of three entries against a limit of two is cut; two files of one
domain let the lists of the older arrive after the newer took its row, with
another key; three requests are enough to add, remove and restart around a
scoring (a kill inside a handler counts as two, so that one request comes
before or after it, with any files and scorings); after three rounds the points of two nodes have gone round the cycle.
Two operations make an array with a hole, an object in an array
or a comment on a child; four reals are written with no, one, two and three
decimals or none at all; numbers to 300 pass `maxInt` and `maxUInt`; one seed
has the word that is never found as its first. One fault and two crashes let
any statement fail, or the process end, between creating an identity and
reading it, and once more after that; two callers hold rows while the other
wants to change them.
Symmetry is used in safety runs only. The node list may
stop at the clock's horizon with nothing left to do, as may two ends that
detached and scoring when requests are used up, so these runs do not check deadlock.

### Fairness

* Pool: armed timers fire. Nothing is assumed of peers or the network, so
  `ScanEnds` rests on the verify timer alone. A loop that is lost inside
  `Peer::connect` ends all progress, so both properties except it: `ScanEnds`
  by name, and `DueIsTried` as a process that is no longer up (`Up`).
* Https client: timers expire and their handlers run, unless a shutdown blocks
  the loop; a cancelled resolve ends, and the system gives up connecting.
  Handshakes, writes, reads and the shutdown are not fair: a site may stand
  still for ever, and nothing in the code ends that. So `ImplementsGet`
  promises an answer only if the client is not stuck for ever with such a site
  (`Stuck`), and `https_stop` shows that it can be.
* Node list: timers fire, the clock runs and the program is started again.
  Requests are not fair, for the same reason: `DueFetched` has their completion
  as its premise, and while all jobs hang no due domain is fetched. The loop is
  shared, so a client that blocks it stops the timers of all components; that
  is beyond these models, each of which has the loop for itself.
* Wire: bytes move and completed operations are handled; relaying, detaching
  and losing the connection are not fair.

### What the violations show

* The first outbound attempt that fails dereferences a null pool pointer.
* When the fetch timer fires on an empty table `mtpFetchNext` stays at the
  past time; a domain added by hand afterwards is stored and not fetched.
  `FetchCovered` and `DueFetched` name this one exception (`StaleNext`).
* A deadline that strikes during a read does not end it: a site that stays
  silent keeps the request, and with it a job of the node list, for ever.
* A domain in a list of validators is refused: `processValidators` asks
  `setSeedGeneric` first, which takes any text that is no address for a pass
  phrase.
* No referral of a validator is ever found when nodes are scored: a node that
  only others refer to has no points, however trusted those are.

Noticed while modelling, and in the models as they are, without a run of their
own:

* `invokeComplete` moves on whatever the result and reports the last site
  only, so a page found at the first site is dropped, although `fetchProcess`
  orders them "from most specifically for purpose to generic."
* An inbound connection has no deadline although "Node has this long to verify
  its identity from connection accepted or connection attempt." (`Peer.cpp`):
  only `Peer::connect` arms the timer. `AttemptsEnd` is about outbound ones.
* A deadline that expired just before its site ended shuts the next site's
  fetch down, or reads an empty list (`handleDeadlineLate`).
* An address that does not resolve, or a timer that cannot be set, locks the
  pool for ever (`ScanLost`).
* A failed read leaves its bytes in `mResponse`, and `parseData` takes the
  status line of the next site's page from them (`DeliveredHonestly` allows
  exactly that).
* A kill after `setSeedDomains` leaves the checksum of a file whose lists were
  not processed; the next fetch finds the file unchanged and never processes
  them. A kill before the note in `Misc` leaves changes that are not scored
  until another update.
* `nodeRemovePublic` deletes nothing. A domain promoted by hand is not scored
  again until another update.
* `encodeLengthLength` has its last test the wrong way round, so the assertion
  of `addVL` fails for all strings of 12,481 to 918,743 bytes (`AddVLAsserts`),
  and a first byte of 255 makes `getVL` throw where it means to return false.
* Wallet: `END TRANSACTION` that fails is not noticed, and the next crash takes
  the identity with it (`lost`, the exception in `IdentityKept`). `main` passes
  a count of 0, so that a new `wallet.db` never gets tables and `start` throws.
* Keys: the search of short words ends before the last of them, number 570,
  so a seed whose words include it cannot be read back (`HasLastShortWord`);
  `standard` corrects nothing. The text of a family generator is accepted as a
  pass phrase, against "Clients must disallow reconizable entries from being
  seeds." `TextsReadBack` claims nothing of these two. In a list of validators
  account numbers and private keys are looked up as domains.
* Sections: a line is taken for a comment or a header before it is trimmed,
  and a header that comes again empties its section.
* JSON values: `resize` of an array with holes may fail its own assertion; `operator<=` is
  `>=`; `Path::resolve` with a default finds only indices beyond the end; an
  index argument "[%]" is read on from its bracket; assignment drops no comment
  of the target and takes none of the source; `asInt` refuses the unsigned
  maximum and `asString` all numbers, both of which `isConvertibleTo` allows;
  an iterator without a value that is assigned `begin()` never meets `end()`.
* JSON text: `readArray` takes any token for a comma; the strict mode skips
  comments in front of names and separators, and accepts a root `null`;
  "\u0000" ends a string; a real loses its 17th digit; infinities are written
  as "inf", which is refused, but "-inf" alone is read as 0; a comment on a child of an array that fits one line
  is not written, and a line comment without its line end swallows what the
  styled writers put behind it.

## Proofs

All proofs are checked by TLAPS with Z3, Zenon and LS4. The assumptions are
the named `ASSUME`s of the modules: `NULL` is none of the values it is
compared with, the parameters have their ranges, and the sets that are counted
or summed over are finite.

**Pool** (`ConnectionPoolProofs`). `TypeCorrect`, `IpMapCorrect`,
`ConnectedMapCorrect`, `AttemptsEndCorrect`, `ScanCorrect`, `NothingForgotten`, `NoLostWakeup` and the
action property `ConnectionsKept`, for any sets of addresses, nodes and peers.
The invariants are not inductive over handlers because they do not hold inside
one: `detach` takes a peer out of both maps, and may start another scan,
before the object is let go. `PoolInv(s, X)` is therefore stated of an
intermediate state `s` relative to a set `X` of departing peers: live objects
that nothing refers to. Each operator has a lemma that carries `PoolInv` from
the states it is applied to to those it leaves (`PeerConnectInv`,
`ScanRefreshInv`, `DetachInv`, `RecvHelloInv`, ...). `IInv` is `PoolInv` with `X`
empty, together with the tracking and timer parts, and has one step per action.

**Https client** (`HttpsClientProofs`). `IInv` joins the types, the shape of
the chain (one operation, for the front site), the order in which sites are
used, supervision, what deadlines have struck, and what was delivered.
For the last it knows of the buffers: what stands in them are bytes of sites
that are over and failed, and of the front one.
From it `OneOperationAtATime`, `CompletedOnceCorrect`, `SupervisedCorrect` and
`DeliveredCorrect`, for every number of sites, and `ClientRefinesGet`: every
step is a step of `HttpsGet` or a stutter.

**Packed message** (`PeerWireProofs`). `HeaderRoundTrip`: every 32-bit
length and 16-bit type is read back as written, by undoing one shift at a time.

**Wire** (`PeerWireProofs`). `WireTypeCorrect`, `OneWriteCorrect`,
`QueueMovesCorrect`, `FramesInOrderCorrect` and `NoWrongTypeCorrect`, for any
number of relayed messages and any maximum length of at least 2, which is the
length of the longest body of the model.
`PeerInv` is about a single `Peer` object and conjoins its type with the write
and queue disciplines, which need each other: a write may only be started
because `mSendingPacket` being null means that none is under way, and the queue
is only safe to leave because the write under way will take from it. Each
function of the code keeps it; each handler then changes one object.

`FramesInOrder` and `NoWrongType` are about both ends and the bytes between
them. `OrderInv` says that for each direction there is a stream (`Link`): `k`
frames of `sent` have begun, frame `j` lies behind byte `at[j]`, the reader has
taken `c` bytes, the wire holds the bytes behind them, and what is left of the
write the rest up to `at[k + 1]`; the queue is what of `sent` has not begun. The
positions are no variables of the model, so the invariant is existential and
each lemma shows how a step moves the witnesses: `BeginLink` adds a frame,
`TransferLink` moves a byte, `HeaderLink` and `BodyLink` move the reader. The
reader finds the ends of frames by the lengths it reads, which is why frames
being as long as their headers say (`Framed`, from `HeaderRoundTrip`) is part
of it. A writer that detaches may leave a frame incomplete and begins no other.
`Speaks` adds who says what: hello is the first packet sent and no other, and a
live end is helloed exactly when it has received something, so the type of the
frame that is due is the one `processReadBuffer` expects.

**Unique node list** (`UniqueNodeListProofs`). `JobsAreCounted`,
`RowsAreCovered`, `UpdatesAreCovered` and `MiscIsCurrent`, for any finite set of
domains, any files, any number of jobs and any clock. None of the four is
inductive, and handlers call each other where only parts of them hold:
`fetchFinish` gives the place of a job back before it looks at the timer. The
invariant has parts for that: `JobsInv` (the count, and that a domain and a
number name one job, without which a job that goes on to its next request
could fall together with another), `TimersInv` (timers are set for the times
that are noted), and `RowsCovered`, `UpdateCovered` and `Saved`, which hold
between handlers. Every operator has a lemma that says which parts it needs
and which it leaves. A row is never the null row (`RowAssumption`).

**Scoring** (`ScoringProofs`). `TrustIsSourced`, `TrustIsBounded`,
`SeedsAreScored` and `UNLIsRemembered`, for any finite sets of keys and
addresses, any domains, files and lists, and any number of rounds, jobs and
requests. Four parts:

* What the sums and the recursive functions compute. The induction theorems of
  the library take an operator, which the provers cannot instantiate, so
  induction is stated about sets: a set of numbers that has 0 and every
  successor has all (`NatSet`), and likewise a set of finite sets
  (`SetInduct`). `Iterates` and `FollowsExists` (`Recursion`) build from it the
  function a recursive definition asks for; without it the definition is a
  `CHOOSE` of which nothing is known.
  From these come the sums over finite sets (`SumSplits` to `SumGathered`),
  `KeptOK`, and `ReachedOK`: after as many steps as there are keys nothing new
  is reached.
* What `scoreCompute` may find (`Found`). `SharedOut` shows that what the
  entries of a list get of a node's points, divided twice in integers, is in
  all no more than the points; `ReceivedBound` adds it up over all lists, and
  `AfterRounds` is the invariant of the rounds: scores only grow, stay within
  every set that the lists do not lead out of, and are in all at most one
  share of the seeds' points for each round and one to start with.
* What a state owes to the one before. The properties are about scores that
  are not old, and `nodeAddDomain` changes rows without making them old. They
  are right all the same because a new row has no key and a promoted one has a
  better source (`Promoted`): the nodes stay the same and those with points
  become more. A file that arrives again also leaves the scores as they are,
  which holds because a row with a file has the key of the file
  (`KeysOfFiles`). `After` says this of everything but scoring, `TablesInv` is
  kept by it (`AfterOK`) and established by scoring (`StoreOK`). `ScoreInv`
  adds the list in memory (`ListInv`) and the count of jobs, from which follows
  that `FreshNumber` finds a number.
* What a kill inside a handler leaves. `Sound` is what holds of tables at
  any moment, torn ones too: they are good, and addresses have in all no more
  points than nodes. `NoMore` says that a later table has the nodes' scores of
  an earlier one and no address has more points than before, and `Added` is
  the table with some entries of a list added; `PartValidatorsOK`, `PartIpsOK`,
  `PartBootstrapOK`, `PartFetchOK` and `PartRemoveOK` show it of every place
  between two statements, and `InterruptedOK` and `TornOK` of `Crash`.

**Serializer** (`CodecProofs`). `VLRoundTrip`: every byte string up to the
longest a prefix can tell is got back from wherever it stands in a buffer, and
the caller is told how many bytes to skip. `Prefix` shows that the bytes of the
prefix are the digits of the length; `Parts` finds the parts of a buffer.
`AddVLAsserts` says exactly when `addVL`'s own assertion holds. `RoundTrip16`
and `RoundTrip32` do the same for numbers. No run uses the module: the theorems
cover every input.

**Base 58** (`CodecProofs`). `Base58ReadBack`: every byte string is read back
from its text, however many zeros it begins with and whatever spaces stand
around the text. A big number is a sequence of bytes without leading zero, and
division and multiplication by 58 are the schoolbook ones, so no number ever
has a value in the proof. A division leaves a digit and a remainder for each
byte (`DividedIs`), a multiplication a byte and a carry (`ExtendedIs`). Each
equation of the one is an equation of the other with remainders for carries, and
there is one product (`ExtendedUnique`), so that multiplying undoes dividing
(`DividedBack`); the case of a leading zero in the quotient is `DividesShort`.
`DigitsMore` is the invariant of the loop: the digits found so far stand behind
those of what is left of the number. `Cut` and `CutAt` find where the digits
begin and end among the spaces. `AddressReadBack` adds version and check bytes:
`SetString` reads the text of every object as that object with its own version,
and as none with any other.

**Words** (`CodecProofs`). `WordsReadBack`: for every key of 16 bytes, `eng2key`
gives back the key that `key2eng` wrote, unless one of the twelve words is the
last of three letters, and then says that a word is not known. Bits are taken
from numbers and put together again (`ExtractBack`), in groups of eight, eleven
and two that do not align (`Joined8`, `Joined11`, `NumbersBack`). `wsrchFinds`
shows that the search finds every word of its range: the range holds the word
and is halved in each round until the word is in its middle, and eleven rounds
are enough for 1477 words (`HalvedOut`); `wsrchMisses` that it does not find a
word behind its range, which is what happens to number 570. `SpacedPieces`
splits the text into its words again.

**Keys in texts** (`LibraryProofs`). `SiteReadsBack`: `TextsReadBack` holds of
`SiteFile` for any seeds of 16 bytes, any account numbers, any phrases and
files, over every order of calls, with its two exceptions. `SiteInv` adds to it that the object is empty
or an address until a text is read (`ObjectInv`); that a text which was kept is
the one that was written of `origin`, in a form that `origin` has, bare or
padded (`OriginInv`); and that nothing is padded or read before there is a text
(`TextInv`). `MadeAddress` shows that everything made of a seed is an address
with bytes, `AddressSigns` that an address signs for exactly the public keys
made with it, and `SetReads`, `WordsRead` and `GenericReads` what each reader
makes of a kept text, from the theorems on codecs. That an address is never
words and words are never an address (`AddressNoWords`, `WordsNoAddress`) rests
on spaces and letters being no digits; that one kind is never taken for another
on the versions being different (`VersionsDiffer`). `SiteFileAssumption` has
account numbers as bytes because the stand-in for the curve keeps them as such.

**Wallet** (`LibraryProofs`). `IdentityIsKept` and `RowsAreCurrent`, for any
number of threads, identities, texts, faults and crashes. Neither property is
inductive. `WalletInv` adds that the lock is held exactly while rows are read
(`LockInv`), so that whoever runs a statement destroys nobody's rows; that
only init strings that could not be committed leave `view` and `disk` apart
(`CommitInv`), so that a crash forgets nothing that was reported; and that
what was loaded is the first identity there is (`LoadedInv`), which stays the
first because identities are only appended. Each action has one lemma for what
it leaves of these parts, and `TypeStep` one for the types. `StoredAsGiven`
shows that every byte string survives `escape` and the blob literal, two
hexadecimal digits at a time.

Only model-checked: all liveness (`ScanEnds`, `DueIsTried`, the
fairness part of `ImplementsGet`, `DueFetched`, `UpdateScored`, `Delivered`),
which is out of the prover's reach; the JSON library, whose values and grammar
are recursive operators; `ListsRead`, which depends on what names and phrases
are made of; and `DamageNoticed`, which no theorem can state of four check
bytes: it is true of the damage that is tried.

## Not modelled

* Configuration: values are constants; the code of `Config::load` that would
  read the file is commented out.
* Tagged lists, hashes and signatures of the serializer.
* The elliptic curve, hashes, ECIES and big numbers: OpenSSL, out of TLC's
  reach; stand-ins where keys are concerned, and in the pool a hello verifies
  or does not. Encryption in `NewcoinAddress` and `getNodeID`.
* `DeterministicKeys.cpp` and `ECIES.cpp` are commented out as a whole;
  `json_internalmap.inl`, `json_internalarray.inl` and `json_batchallocator.h`
  are not compiled.
* `getSingleDBValue*` and the getters of numbers: no caller. Tables of ledgers
  and transactions: no code.
* `main`: builds the components and does not run the loop yet. The models
  begin where each component's `start` does.
* Formatting of error messages, SQLite headers, logging.
* Undefined behaviour after a late deadline reads an empty list of sites.
* Exponents of real numbers and NaN; empty member names that are typed; the
  order relations other than `<` and `==`; assignment of iterators.

## Plan

1. `ConnectionPool`, its runs and its invariants proved — done.
2. `HttpsGet`, `HttpsClient`, refinement checked and proved — done.
3. `UniqueNodeList` scheduling, checked and proved — done.
4. `PackedMessage`, `PeerWire`, checked and proved — done.
5. `Scoring`, checked and proved — done.
6. `Serializer` with its round trips proved — done. Tagged lists are left.
7. `Database` and `Wallet`, checked and proved — done.
8. `Base58`, `Rfc1751`, `NewcoinAddress`, `ParseSection`, `SiteFile`, checked,
   and the way from key to text and back proved — done. Left: `ListsRead`.
9. The JSON library, checked — done.
10. Throughput of the fetch scheduler against the comment on `NODE_FETCH_JOBS`,
    which promises one node per second for ten jobs of ten seconds, while a job
    may last five requests.
