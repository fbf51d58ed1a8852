-------------------------------- MODULE Wallet --------------------------------
(***************************************************************************)
(* The wallet (src/Wallet): the identity of the node, which is created the *)
(* first time the program starts and must stay the same for ever, and the  *)
(* data of the RPC client.  One thread starts the wallet, others call its  *)
(* data functions or iterate over rows as UniqueNodeList does (SQL_FOREACH *)
(* without endIterRows).                                                   *)
(*                                                                         *)
(* A function takes the lock and runs its statement in one step; when the  *)
(* statement has rows, a second step reads them and lets the lock go.      *)
(***************************************************************************)
EXTENDS Database

CONSTANTS
    Main,             \* the thread that runs Wallet::start
    Identity,         \* node identities: a key pair and its parameters
    RowOf,            \* the row an identity is stored as: humanNodePublic, ...
    OfRow             \* what is read from a row: setNodePublic, DH_der_load, ...

ASSUME WalletAssumption ==
    /\ Main \in Thread
    /\ RowOf \in [Identity -> IdentityRow]
    /\ OfRow \in [IdentityRow -> Identity]
    /\ \A k \in Identity : OfRow[RowOf[k]] = k

VARIABLES
    pc,               \* where each thread is
    arg,              \* the key a thread fetches
    initCount,        \* number of init strings that are executed
    mNode,            \* mNodePublicKey, mNodePrivateKey, mDh512, mDh1024
    announced,        \* history: identities that the node started with
    told,             \* history: the value last reported stored for each key
    lost              \* history: a transaction could not be committed

walletVars == <<pc, arg, initCount, mNode, announced, told, lost>>

allVars == <<dbVars, walletVars>>

Callers == Thread \ {Main}

NoIdentity == <<>>

MainPlaces == {"off", "begin", "tables", "end", "load", "loading", "create",
               "reload", "reloading", "start", "started", "failed"}

Opened == pc[Main] \notin {"off", "begin", "tables", "end"}

WalletTypeOK ==
    /\ DbTypeOK
    /\ pc \in [Thread -> MainPlaces \cup {"idle", "fetching", "each"}]
    /\ pc[Main] \in MainPlaces
    /\ \A c \in Callers : pc[c] \in {"idle", "fetching", "each"}
    /\ arg \in [Thread -> Text \cup {NoValue}]
    /\ initCount \in {0, 3}
    /\ mNode \in {<<>>} \cup {<<k>> : k \in Identity}
    /\ announced \in SUBSET Identity
    /\ told \in [Text -> Text \cup {NoValue}]
    /\ lost \in BOOLEAN

WalletInit ==
    /\ DbInit
    /\ pc = [t \in Thread |-> IF t = Main THEN "off" ELSE "idle"]
    /\ arg = [t \in Thread |-> NoValue]
    /\ initCount \in {0, 3}
    /\ mNode = NoIdentity
    /\ announced = {}
    /\ told = [k \in Text |-> NoValue]
    /\ lost = FALSE

Goto(t, place) == pc' = [pc EXCEPT ![t] = place]

-------------------------------------------------------------------------------
(* DatabaseCon's constructor and Wallet::start, in the thread Main.        *)

\* connect(), then the init strings, whose results are ignored.  main()
\* passes a count of 0 for wallet.db.
Open ==
    /\ pc[Main] = "off"
    /\ Goto(Main, IF initCount = 0 THEN "load" ELSE "begin")
    /\ UNCHANGED <<dbVars, arg, initCount, mNode, announced, told, lost>>

InitStatement ==
    /\ \/ pc[Main] = "begin" /\ BeginTransaction(Main) /\ Goto(Main, "tables") /\ lost' = lost
       \/ pc[Main] = "tables" /\ CreateTables(Main) /\ Goto(Main, "end") /\ lost' = lost
       \/ pc[Main] = "end" /\ EndTransaction(Main) /\ Goto(Main, "load") /\ lost' = (lost \/ txn')
    /\ UNCHANGED <<mLock, crashes, arg, initCount, mNode, announced, told>>

\* nodeIdentityLoad: the statement.  Without a row the lock is let go and
\* start() goes on to create the identity, or to throw.
LoadStatement(place, reading, failed) ==
    /\ pc[Main] = place
    /\ Free(Main)
    /\ \/ /\ view.schema
          /\ Query(Main, view.ids)
          /\ IF view.ids = <<>> THEN Goto(Main, failed) /\ mLock' = NoThread
                                ELSE Goto(Main, reading) /\ mLock' = Main
       \/ /\ ~view.schema /\ Fails(Main) /\ UNCHANGED faults
          /\ Goto(Main, failed) /\ mLock' = NoThread
       \/ /\ FailsForNow(Main)
          /\ Goto(Main, failed) /\ mLock' = NoThread
    /\ UNCHANGED <<crashes, arg, initCount, mNode, announced, told, lost>>

nodeIdentityLoad ==
    \/ LoadStatement("load", "loading", "create")
    \/ LoadStatement("reload", "reloading", "failed")

\* Fault: the newest identity is used.
LoadRowNewest ==
    /\ pc[Main] \in {"loading", "reloading"}
    /\ mNode' = <<OfRow[mCurrentStmt.rows[Len(mCurrentStmt.rows)]]>>
    /\ mCurrentStmt' = endIterRows
    /\ mLock' = NoThread
    /\ Goto(Main, "start")
    /\ UNCHANGED <<disk, view, txn, mMoreRows, faults, crashes, arg, initCount,
                   announced, told, lost>>

\* The columns of the first row become the wallet's members.
LoadRow ==
    /\ pc[Main] \in {"loading", "reloading"}
    /\ mNode' = <<OfRow[CurrentRow]>>
    /\ mCurrentStmt' = endIterRows
    /\ mLock' = NoThread
    /\ Goto(Main, "start")
    /\ UNCHANGED <<disk, view, txn, mMoreRows, faults, crashes, arg, initCount,
                   announced, told, lost>>

\* nodeIdentityCreate: the result of the INSERT is not looked at.
nodeIdentityCreate ==
    /\ pc[Main] = "create"
    /\ Free(Main)
    /\ \/ \E k \in Identity : view.schema /\ Change(Main, [view EXCEPT !.ids = Append(@, RowOf[k])])
       \/ ~view.schema /\ Fails(Main) /\ UNCHANGED faults
       \/ FailsForNow(Main)
    /\ Goto(Main, "reload")
    /\ UNCHANGED <<mLock, crashes, arg, initCount, mNode, announced, told, lost>>

\* mUNL->start(): from now on the node is known by its identity.
StartUNL ==
    /\ pc[Main] = "start"
    /\ announced' = announced \cup {mNode[1]}
    /\ Goto(Main, "started")
    /\ UNCHANGED <<dbVars, arg, initCount, mNode, told, lost>>

-------------------------------------------------------------------------------
(* The data functions and the iteration, in the other threads.             *)

\* Fault: the statement runs without the lock.
DataChangeUnlocked(t, k, value) ==
    /\ Opened /\ pc[t] = "idle"
    /\ \/ /\ view.schema
          /\ Change(t, [view EXCEPT !.data[Stored(k)] = Stored(value)])
          /\ told' = [told EXCEPT ![k] = value]
       \/ ~view.schema /\ Fails(t) /\ UNCHANGED <<faults, told>>
       \/ FailsForNow(t) /\ UNCHANGED told
    /\ UNCHANGED <<mLock, crashes, pc, arg, initCount, mNode, announced, lost>>

\* A statement on RPCData that changes the row of a key.
DataChange(t, k, value) ==
    /\ Opened /\ pc[t] = "idle"
    /\ Free(t)
    /\ \/ /\ view.schema
          /\ Change(t, [view EXCEPT !.data[Stored(k)] = Stored(value)])
          /\ told' = [told EXCEPT ![k] = value]
       \/ ~view.schema /\ Fails(t) /\ UNCHANGED <<faults, told>>
       \/ FailsForNow(t) /\ UNCHANGED told
    /\ UNCHANGED <<mLock, crashes, pc, arg, initCount, mNode, announced, lost>>

dataStore(t) == \E k \in Text, value \in Text : DataChange(t, k, value)

dataDelete(t) == \E k \in Text : DataChange(t, k, NoValue)

\* A query whose rows the thread goes on to read at the place reading.
StartRead(t, rows, reading) ==
    /\ Opened /\ pc[t] = "idle"
    /\ Free(t)
    /\ \/ /\ view.schema
          /\ Query(t, rows)
          /\ IF rows = <<>> THEN UNCHANGED <<pc, mLock>> ELSE Goto(t, reading) /\ mLock' = t
       \/ /\ ~view.schema /\ Fails(t) /\ UNCHANGED <<faults, pc, mLock>>
       \/ /\ FailsForNow(t) /\ UNCHANGED <<pc, mLock>>

dataFetch(t) ==
    /\ \E k \in Text :
        /\ LET value == view.data[Stored(k)] IN
           StartRead(t, IF value = NoValue THEN <<>> ELSE <<value>>, "fetching")
        /\ arg' = IF mLock' = t THEN [arg EXCEPT ![t] = k] ELSE arg
    /\ UNCHANGED <<crashes, initCount, mNode, announced, told, lost>>

\* dataFetch reads the row, ends the iteration and returns.
FetchRow(t) ==
    /\ pc[t] = "fetching"
    /\ mCurrentStmt' = endIterRows
    /\ mLock' = NoThread
    /\ Goto(t, "idle")
    /\ arg' = [arg EXCEPT ![t] = NoValue]
    /\ UNCHANGED <<disk, view, txn, mMoreRows, faults, crashes, initCount,
                   mNode, announced, told, lost>>

\* SQL_FOREACH over the identities.
ForEach(t) ==
    /\ StartRead(t, view.ids, "each")
    /\ UNCHANGED <<arg, crashes, initCount, mNode, announced, told, lost>>

\* The body of the loop has run; after the last row the statement is left.
ForEachNext(t) ==
    /\ pc[t] = "each"
    /\ mCurrentStmt' = getNextRow
    /\ IF Len(mCurrentStmt.rows) <= 1
       THEN Goto(t, "idle") /\ mLock' = NoThread
       ELSE UNCHANGED <<pc, mLock>>
    /\ UNCHANGED <<disk, view, txn, mMoreRows, faults, crashes, arg, initCount,
                   mNode, announced, told, lost>>

\* The program is killed, and can be started again.
Crash ==
    /\ DbCrash
    /\ pc' = [t \in Thread |-> IF t = Main THEN "off" ELSE "idle"]
    /\ mNode' = NoIdentity
    /\ arg' = [t \in Thread |-> NoValue]
    /\ UNCHANGED <<initCount, announced, told, lost>>

WalletNext ==
    \/ Open \/ InitStatement \/ nodeIdentityLoad \/ LoadRow \/ nodeIdentityCreate \/ StartUNL
    \/ \E t \in Callers :
        dataStore(t) \/ dataDelete(t) \/ dataFetch(t) \/ FetchRow(t) \/ ForEach(t) \/ ForEachNext(t)
    \/ Crash

WalletSpec == WalletInit /\ [][WalletNext]_allVars

-------------------------------------------------------------------------------
(* Properties.                                                             *)

\* Whatever fails and whenever the program is killed, every start that
\* announces an identity announces the one that is first on the disk, so all
\* announce the same one ("Node identity must be persisted", DBInit.cpp;
\* Wallet::start).  One thing breaks it: when the transaction of the init
\* strings cannot be committed nobody notices, and what is written after it
\* is rolled back by the next crash.
IdentityKept ==
    announced # {} /\ ~lost => disk.ids # <<>> /\ announced = {OfRow[disk.ids[1]]}

\* A thread that reads rows reads those of its own statement, and they are
\* still what the table holds.  What dataFetch returns is the value that was
\* last reported stored under its key, by whatever thread and before whatever
\* crash, with the same exception (ScopedLock, mCurrentStmt, escape).
RowsCurrent ==
    /\ pc[Main] \in {"loading", "reloading"} =>
        mCurrentStmt = [owner |-> Main, rows |-> view.ids]
    /\ \A t \in Callers :
        /\ pc[t] = "fetching" =>
            /\ mCurrentStmt.owner = t
            /\ mCurrentStmt.rows = <<view.data[arg[t]]>>
            /\ ~lost => view.data[arg[t]] = told[arg[t]] /\ told[arg[t]] # NoValue
        /\ pc[t] = "each" =>
            /\ mCurrentStmt.owner = t
            /\ mCurrentStmt.rows # <<>>

-------------------------------------------------------------------------------
(* The inductive invariant behind them.                                    *)

Reading == {"loading", "reloading", "fetching", "each"}

\* The lock is held exactly while rows are being read, and before the
\* connection is open there is nobody to read.
LockInv ==
    /\ \A t \in Thread : pc[t] \in Reading <=> mLock = t
    /\ ~Opened => \A t \in Callers : pc[t] = "idle"

\* Only the init strings leave a transaction open, and only one that could not
\* be committed is still open after them; without it nothing that was
\* reported stored is missing on the disk.
CommitInv ==
    /\ txn => pc[Main] \in {"tables", "end"} \/ lost
    /\ ~txn => view = disk
    /\ ~lost => view.ids = disk.ids /\ view.data = disk.data /\ view.data = told

\* The identity that was loaded is the first one.
LoadedInv ==
    /\ pc[Main] \in {"loading", "reloading", "start"} => view.ids # <<>>
    /\ pc[Main] = "start" => mNode = <<OfRow[view.ids[1]]>>

WalletInv ==
    WalletTypeOK /\ LockInv /\ CommitInv /\ LoadedInv /\ IdentityKept /\ RowsCurrent
===============================================================================
