------------------------------- MODULE Database -------------------------------
(***************************************************************************)
(* The database wrapper: one SqliteDatabase (notDatabase/), the connection *)
(* with its lock that DatabaseCon keeps around it (src/DatabaseCon), and   *)
(* the tables of wallet.db that the wallet uses.                           *)
(*                                                                         *)
(* disk is what a restart finds, view what the connection sees: they       *)
(* differ while a transaction is open.  All threads share one connection,  *)
(* and the connection has one current statement, so a thread that runs a   *)
(* statement destroys the rows that another is still reading; only the     *)
(* lock keeps them apart.                                                  *)
(***************************************************************************)
EXTENDS Integers, Sequences

CONSTANTS
    Thread,           \* the threads that use the connection
    IdentityRow,      \* rows of NodeIdentity: two keys and the parameters, as texts
    Text,             \* what the RPC client stores, keys and values: bytes
    NoThread, NoValue, \* nobody, no row
    MaxFaults,        \* statements that fail for a passing reason
    MaxCrashes        \* times the program is killed

ASSUME DatabaseAssumption ==
    /\ NoThread \notin Thread
    /\ Text \subseteq Seq(0..255)
    /\ NoValue \notin Text
    /\ MaxFaults \in Nat
    /\ MaxCrashes \in Nat

VARIABLES
    disk, view,       \* the tables: committed, and seen by the connection
    txn,              \* is a transaction open?
    mCurrentStmt,     \* the current statement and the rows it still has
    mMoreRows,        \* did the last statement that ran return a row?
    mLock,            \* the thread that holds the lock, or NoThread
    faults, crashes   \* how often statements failed and the program was killed

dbVars == <<disk, view, txn, mCurrentStmt, mMoreRows, mLock, faults, crashes>>

\* The tables NodeIdentity and RPCData; before they are created they are empty.
Tables == [schema : BOOLEAN, ids : Seq(IdentityRow), data : [Text -> Text \cup {NoValue}]]

NoTables == [schema |-> FALSE, ids |-> <<>>, data |-> [k \in Text |-> NoValue]]

Row == IdentityRow \cup Text

\* mCurrentStmt = NULL.
NoStmt == [owner |-> NoThread, rows |-> <<>>]

DbTypeOK ==
    /\ disk \in Tables /\ view \in Tables
    /\ txn \in BOOLEAN
    /\ mCurrentStmt \in [owner : Thread \cup {NoThread}, rows : Seq(Row)]
    /\ mMoreRows \in BOOLEAN
    /\ mLock \in Thread \cup {NoThread}
    /\ faults \in Nat /\ crashes \in Nat

-------------------------------------------------------------------------------
(* Blob literals.                                                          *)

\* SqliteDatabase::escape: two hexadecimal digits for each byte.
escape(bytes) ==
    [i \in 1..(2 * Len(bytes)) |->
        IF i % 2 = 1 THEN bytes[(i + 1) \div 2] \div 16 ELSE bytes[i \div 2] % 16]

\* What SQLite makes of the literal.
Blob(digits) == [i \in 1..(Len(digits) \div 2) |-> 16 * digits[2 * i - 1] + digits[2 * i]]

\* The value that a statement with the literal of value stores.
Stored(value) == IF value = NoValue THEN NoValue ELSE Blob(escape(value))

-------------------------------------------------------------------------------
(* SqliteDatabase.                                                         *)

\* A statement that fails: the old one is finalized, sqlite3_prepare_v2
\* leaves none (mMoreRows stays) or sqlite3_step fails (mMoreRows is reset).
Fails(self) ==
    /\ mCurrentStmt' \in {NoStmt, [owner |-> self, rows |-> <<>>]}
    /\ mMoreRows' \in {mMoreRows, FALSE}
    /\ UNCHANGED <<disk, view, txn>>

\* Reasons that pass: the file is busy, the disk is full.
FailsForNow(self) ==
    /\ faults < MaxFaults
    /\ faults' = faults + 1
    /\ Fails(self)

\* executeSQL of a query that returns rows: the first step is already taken.
Query(self, rows) ==
    /\ mCurrentStmt' = [owner |-> self, rows |-> rows]
    /\ mMoreRows' = (rows # <<>>)
    /\ UNCHANGED <<disk, view, txn, faults>>

\* executeSQL of a statement that changes the tables to new; outside a
\* transaction the change is committed at once.
Change(self, new) ==
    /\ mCurrentStmt' = [owner |-> self, rows |-> <<>>]
    /\ mMoreRows' = FALSE
    /\ view' = new
    /\ disk' = IF txn THEN disk ELSE new
    /\ UNCHANGED <<txn, faults>>

\* getColNumber: the place of a column among the names of the query's columns
\* (mColNameTable), or 0.
getColNumber(columns, name) ==
    LET places == {n \in DOMAIN columns : columns[n] = name} IN
    IF places = {} THEN 0 ELSE CHOOSE n \in places : \A m \in places : n <= m

\* getStr, getBinary, ...: the column of a row, nothing when there is none.
getColumn(row, columns, name) ==
    LET n == getColNumber(columns, name) IN IF n = 0 THEN <<>> ELSE row[n]

\* The row that the getters read, and getNextRow and endIterRows after it.
CurrentRow == Head(mCurrentStmt.rows)

getNextRow == [mCurrentStmt EXCEPT !.rows = Tail(@)]

endIterRows == NoStmt

-------------------------------------------------------------------------------
(* DatabaseCon.                                                            *)

\* ScopedLock sl(getDBLock()).
Free(self) == mLock \in {self, NoThread}

\* The statements of WalletDBInit that matter here.
BeginTransaction(self) ==
    \/ /\ mCurrentStmt' = [owner |-> self, rows |-> <<>>]
       /\ mMoreRows' = FALSE
       /\ txn' = TRUE
       /\ UNCHANGED <<disk, view, faults>>
    \/ FailsForNow(self)

CreateTables(self) ==
    \/ ~view.schema /\ Change(self, [view EXCEPT !.schema = TRUE])
    \/ view.schema /\ Fails(self) /\ UNCHANGED faults
    \/ FailsForNow(self)

EndTransaction(self) ==
    \/ /\ txn
       /\ mCurrentStmt' = [owner |-> self, rows |-> <<>>]
       /\ mMoreRows' = FALSE
       /\ txn' = FALSE
       /\ disk' = view
       /\ UNCHANGED <<view, faults>>
    \/ ~txn /\ Fails(self) /\ UNCHANGED faults
    \/ FailsForNow(self)

DbInit ==
    /\ disk = NoTables
    /\ view = NoTables
    /\ txn = FALSE
    /\ mCurrentStmt = NoStmt
    /\ mMoreRows = FALSE
    /\ mLock = NoThread
    /\ faults = 0
    /\ crashes = 0

\* The program is killed: what was not committed is rolled back.
DbCrash ==
    /\ crashes < MaxCrashes
    /\ crashes' = crashes + 1
    /\ view' = disk
    /\ txn' = FALSE
    /\ mCurrentStmt' = NoStmt
    /\ mMoreRows' = FALSE
    /\ mLock' = NoThread
    /\ UNCHANGED <<disk, faults>>
===============================================================================
