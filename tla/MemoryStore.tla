------------------------------ MODULE MemoryStore ------------------------------
(***************************************************************************)
(* The two backends of the memory store and the service above them.         *)
(*                                                                         *)
(* sqlite: one database file for all processes, one connection per process, *)
(* shared by its threads under a reentrant lock.  A unit of work is BEGIN    *)
(* IMMEDIATE at depth 0 and COMMIT or ROLLBACK when it closes; a second      *)
(* process that wants to write meanwhile waits, up to the busy timeout.      *)
(* memory: dictionaries of one process under a reentrant lock; a            *)
(* transaction snapshots them and puts the snapshot back on an exception.    *)
(*                                                                         *)
(* A thread is whatever writes through the service: single operations, a     *)
(* lifecycle event written fail-open, a transaction whose operations may     *)
(* raise.  An exception of a nested transaction is taken to leave the outer  *)
(* one too; an operation's exception may be caught within it.               *)
(***************************************************************************)
EXTENDS MemoryModels

CONSTANTS
    Processes, Threads,
    ProcessOf,      \* the process a thread runs in
    Host,           \* the process that hosts an in-memory store
    Modes,          \* the units each thread may begin
    Considered,     \* bound of the model: the operations its threads may try
    Reader,         \* the thread that pages through the records
    PageLimit,      \* its page size
    Backends,       \* the values of memory_backend to consider
    Free            \* no owner, no open unit

ASSUME ThreadAssumption ==
    /\ ProcessOf \in [Threads -> Processes] /\ Host \in Processes
    /\ Modes \in [Threads -> SUBSET {"single", "event", "transaction"}]
    /\ Reader \in Threads /\ PageLimit \in Nat \ {0}
    /\ Backends \subseteq {"sqlite", "memory"}
    /\ Free \notin Threads /\ Free \notin Contents

VARIABLES
    backend,    \* settings.memory_backend
    schema,     \* whether the file holds the migrated schema
    phase,      \* of a process: "down", "opened" (ledger read), "up"
    rows,       \* sqlite: the committed database; memory: the dictionaries
    saved,      \* sqlite: the connection's open transaction; memory: the snapshot
    owner,      \* the thread that holds the process's reentrant lock
    depth,      \* _depth, or how often the lock is held
    pc,         \* of a thread: "idle", a mode, "written" or "logged" before COMMIT
    degraded,   \* MemoryService._degraded, of a process
    reading,    \* the reader's pages so far
    pending,    \* history: updates won in the open unit
    granted,    \* history: updates won and committed, by record and expected revision
    lost        \* history: processes in which an event was not persisted

unitVars == <<rows, saved, owner, depth, pc, pending, granted>>
vars == <<backend, schema, phase, unitVars, degraded, reading, lost>>

-----------------------------------------------------------------------------
Sqlite == backend = "sqlite"

\* The contents that a reader outside any unit is entitled to.
Committed ==
    IF ~Sqlite /\ saved[Host] # Free THEN saved[Host] ELSE rows

\* The contents of the unit that p has open.
Working(p) == IF Sqlite THEN saved[p] ELSE rows

Put(p, d) ==
    IF Sqlite THEN saved' = [saved EXCEPT ![p] = d] /\ UNCHANGED rows
              ELSE rows' = d /\ UNCHANGED saved

WriterElsewhere(p) == Sqlite /\ \E q \in Processes \ {p} : saved[q] # Free

-----------------------------------------------------------------------------
(* Operations, with what they answer *)

Operations ==
    [kind : {"scope"}, scope : ScopeIds, parent : ScopeIds \cup {NoParent}]
      \cup [kind : {"close"}, scope : ScopeIds]
      \cup [kind : {"insert"}, record : RecordIds, scope : ScopeIds, created : Instants]
      \cup [kind : {"update"}, record : RecordIds, scope : ScopeIds,
            expected : 1 .. MaxRevision - 1]
      \cup [kind : {"relate"}, record : RecordIds, target : RecordIds]

ASSUME OperationAssumption == Considered \subseteq Operations

\* Ids come from uuid4: nobody creates one that is or is about to be in use.
Fresh(op) ==
    \A d \in ({rows} \cup {saved[p] : p \in Processes}) \ {Free} :
      /\ op.kind = "scope"  => ~HasScope(d, op.scope)
      /\ op.kind = "insert" => ~Has(d, op.record)

\* Foreign keys hold in SQLite only: the dictionaries take any scope.
KnowsScope(d, s) == Sqlite => HasScope(d, s)

\* Mutant of RevisionHolds: the update names its record only.
RevisionIgnored(d, op) == Has(d, op.record)

\* WHERE id = ? AND revision = ?, or the comparison under the lock.
RevisionHolds(d, op) == Has(d, op.record) /\ d.records[op.record].revision = op.expected

\* Mutant of Accepts: a relation may name a target nobody inserted.
AcceptsAnyTarget(d, op) ==
    CASE op.kind = "scope"  -> op.parent = NoParent \/ KnowsScope(d, op.parent)
      [] op.kind = "close"  -> HasScope(d, op.scope)
      [] op.kind = "insert" -> KnowsScope(d, op.scope)
      [] op.kind = "update" -> RevisionHolds(d, op) /\ KnowsScope(d, op.scope)
      [] op.kind = "relate" -> Has(d, op.record)

Accepts(d, op) ==
    CASE op.kind = "scope"  -> op.parent = NoParent \/ KnowsScope(d, op.parent)
      [] op.kind = "close"  -> HasScope(d, op.scope)
      [] op.kind = "insert" -> KnowsScope(d, op.scope)
      [] op.kind = "update" -> RevisionHolds(d, op) /\ KnowsScope(d, op.scope)
      [] op.kind = "relate" -> Has(d, op.record) /\ Has(d, op.target)

Performed(d, op) ==
    CASE op.kind = "scope"  -> ScopeCreated(d, op.scope, op.parent)
      [] op.kind = "close"  -> ScopeClosed(d, op.scope)
      [] op.kind = "insert" -> RecordInserted(d, op.record, op.scope, op.created)
      [] op.kind = "update" -> RecordUpdated(d, op.record, op.scope)
      [] op.kind = "relate" -> RelationCreated(d, op.record, op.target)

Won(op) == IF op.kind = "update" THEN {<<op.record, op.expected>>} ELSE {}

-----------------------------------------------------------------------------
Init ==
    /\ backend \in Backends /\ schema = FALSE
    /\ phase = [p \in Processes |-> "down"]
    /\ rows = Nothing
    /\ saved = [p \in Processes |-> Free] /\ owner = [p \in Processes |-> Free]
    /\ depth = [p \in Processes |-> 0]
    /\ pc = [t \in Threads |-> "idle"]
    /\ degraded = [p \in Processes |-> FALSE] /\ reading = Free
    /\ pending = {} /\ granted = {} /\ lost = {}

-----------------------------------------------------------------------------
(* Start, migration, crash *)

\* Connect and consult the ledger, before any transaction.
Open(p) ==
    /\ phase[p] = "down" /\ (Sqlite \/ p = Host)
    /\ phase' = [phase EXCEPT ![p] = IF Sqlite /\ ~schema THEN "opened" ELSE "up"]
    /\ UNCHANGED <<backend, schema, unitVars, degraded, reading, lost>>

\* The migration runs if no other process migrated since the ledger was read;
\* its CREATE TABLE fails if one did, or the database stays locked, and the
\* process does not come up.
Migrate(p) ==
    /\ phase[p] = "opened"
    /\ \/ /\ ~schema /\ ~WriterElsewhere(p)
          /\ schema' = TRUE /\ phase' = [phase EXCEPT ![p] = "up"]
       \/ /\ schema \/ WriterElsewhere(p)
          /\ phase' = [phase EXCEPT ![p] = "down"] /\ UNCHANGED schema
    /\ UNCHANGED <<backend, unitVars, degraded, reading, lost>>

\* A process dies: its connection's transaction is rolled back by the file.
Crash(p) ==
    /\ Sqlite /\ phase[p] = "up"
    /\ phase' = [phase EXCEPT ![p] = "down"]
    /\ saved' = [saved EXCEPT ![p] = Free] /\ owner' = [owner EXCEPT ![p] = Free]
    /\ depth' = [depth EXCEPT ![p] = 0]
    /\ pc' = [t \in Threads |-> IF ProcessOf[t] = p THEN "idle" ELSE pc[t]]
    /\ pending' = IF saved[p] = Free THEN pending ELSE {}
    /\ degraded' = [degraded EXCEPT ![p] = FALSE] /\ lost' = lost \ {p}
    /\ reading' = IF ProcessOf[Reader] = p THEN Free ELSE reading
    /\ UNCHANGED <<backend, schema, rows, granted>>

-----------------------------------------------------------------------------
(* Units of work *)

\* A thread whose process is up and whose lock it can take.
Ready(t) ==
    phase[ProcessOf[t]] = "up" /\ pc[t] = "idle" /\ owner[ProcessOf[t]] = Free

\* The outermost _unit, or transaction() of the dictionaries.
Enter(t, mode) ==
    LET p == ProcessOf[t] IN
    /\ Ready(t) /\ ~WriterElsewhere(p)
    /\ Sqlite \/ mode = "transaction"
    /\ owner' = [owner EXCEPT ![p] = t] /\ depth' = [depth EXCEPT ![p] = 1]
    /\ saved' = [saved EXCEPT ![p] = rows]
    /\ pc' = [pc EXCEPT ![t] = mode]
    /\ UNCHANGED <<backend, schema, phase, rows, pending, granted, degraded, reading, lost>>

\* The busy timeout passes for an event.  sqlite3.OperationalError is no MemoryStoreError:
\* safe_append_event does not catch it, the tool-memory callback does.
BusyTimeout(t) ==
    LET p == ProcessOf[t] IN
    /\ Ready(t) /\ "event" \in Modes[t] /\ WriterElsewhere(p)
    /\ lost' = lost \cup {p}
    /\ UNCHANGED <<backend, schema, phase, unitVars, degraded, reading>>

InTransaction(t) == pc[t] = "transaction"

\* A nested transaction() opens nothing and commits nothing.
Nest(t) ==
    LET p == ProcessOf[t] IN
    /\ InTransaction(t) /\ depth[p] = 1
    /\ depth' = [depth EXCEPT ![p] = 2]
    /\ UNCHANGED <<backend, schema, phase, rows, saved, owner, pc, pending, granted, degraded,
                   reading, lost>>

Unnest(t) ==
    LET p == ProcessOf[t] IN
    /\ InTransaction(t) /\ depth[p] = 2
    /\ depth' = [depth EXCEPT ![p] = 1]
    /\ UNCHANGED <<backend, schema, phase, rows, saved, owner, pc, pending, granted, degraded,
                   reading, lost>>

Write(t, op) ==
    LET p == ProcessOf[t] IN
    /\ pc[t] \in {"single", "event", "transaction"}
    /\ (pc[t] = "event" => op.kind = "insert")
    /\ Fresh(op) /\ Accepts(Working(p), op)
    /\ Put(p, Performed(Working(p), op))
    /\ pending' = pending \cup Won(op)
    /\ pc' = [pc EXCEPT ![t] = CASE @ = "single" -> "written"
                                  [] @ = "event"  -> "logged"
                                  [] OTHER        -> @]
    /\ UNCHANGED <<backend, schema, phase, owner, depth, granted, degraded, reading, lost>>

\* Mutant of Released: the depth of an inner unit stays.
ReleasedOneLevel(p, d) ==
    /\ saved' = [saved EXCEPT ![p] = Free] /\ owner' = [owner EXCEPT ![p] = Free]
    /\ depth' = [depth EXCEPT ![p] = @ - 1]
    /\ rows' = d

\* The outermost unit is over and leaves the contents d.
Released(p, d) ==
    /\ saved' = [saved EXCEPT ![p] = Free] /\ owner' = [owner EXCEPT ![p] = Free]
    /\ depth' = [depth EXCEPT ![p] = 0]
    /\ rows' = d

\* Mutant of RolledBack: the snapshot of the records alone is put back.
RolledBackRecords(p) ==
    IF Sqlite THEN rows ELSE [rows EXCEPT !.records = saved[p].records]

\* ROLLBACK forgets the transaction; the dictionaries go back to the snapshot.
RolledBack(p) == IF Sqlite THEN rows ELSE saved[p]

\* The outermost unit of t is complete.
Closes(t) == pc[t] \in {"written", "logged"} \/ (InTransaction(t) /\ depth[ProcessOf[t]] = 1)

Commit(t) ==
    LET p == ProcessOf[t] IN
    /\ Closes(t)
    /\ Released(p, Working(p))
    /\ granted' = granted \cup pending /\ pending' = {}
    /\ pc' = [pc EXCEPT ![t] = "idle"]
    /\ UNCHANGED <<backend, schema, phase, degraded, reading, lost>>

\* COMMIT fails on I/O: SQLite rolls back and the raw error is raised.
CommitFails(t) ==
    LET p == ProcessOf[t] IN
    /\ Sqlite /\ Closes(t)
    /\ Released(p, RolledBack(p)) /\ pending' = {}
    /\ lost' = IF pc[t] = "logged" THEN lost \cup {p} ELSE lost
    /\ pc' = [pc EXCEPT ![t] = "idle"]
    /\ UNCHANGED <<backend, schema, phase, granted, degraded, reading>>

\* The one operation of a unit raises a MemoryStoreError: an event degrades
\* the service's health, another operation tells its caller.
Reject(t, op) ==
    LET p == ProcessOf[t] IN
    /\ pc[t] \in {"single", "event"}
    /\ (pc[t] = "event" => op.kind = "insert")
    /\ Fresh(op) /\ ~Accepts(Working(p), op)
    /\ Released(p, RolledBack(p)) /\ UNCHANGED <<pending, granted>>
    /\ pc' = [pc EXCEPT ![t] = "idle"]
    /\ IF pc[t] = "event"
       THEN degraded' = [degraded EXCEPT ![p] = TRUE] /\ lost' = lost \cup {p}
       ELSE UNCHANGED <<degraded, lost>>
    /\ UNCHANGED <<backend, schema, phase, reading>>

\* An exception leaves every open level of the transaction.
Raise(t) ==
    LET p == ProcessOf[t] IN
    /\ InTransaction(t)
    /\ Released(p, RolledBack(p)) /\ pending' = {} /\ UNCHANGED granted
    /\ pc' = [pc EXCEPT ![t] = "idle"]
    /\ UNCHANGED <<backend, schema, phase, degraded, reading, lost>>

\* A single operation on the dictionaries, under the lock from end to end.
WriteInMemory(t, op) ==
    /\ ~Sqlite /\ Ready(t) /\ Modes[t] \cap {"single", "event"} # {}
    /\ Fresh(op) /\ Accepts(rows, op)
    /\ rows' = Performed(rows, op)
    /\ granted' = granted \cup Won(op)
    /\ UNCHANGED <<backend, schema, phase, saved, owner, depth, pc, pending, degraded, reading,
                   lost>>

Unit(t) ==
    \/ \E mode \in Modes[t] : Enter(t, mode)
    \/ BusyTimeout(t) \/ Nest(t) \/ Unnest(t)
    \/ \E op \in Considered : Write(t, op) \/ Reject(t, op) \/ WriteInMemory(t, op)
    \/ Commit(t) \/ CommitFails(t) \/ Raise(t)

-----------------------------------------------------------------------------
(* Paging: each page is read under the lock, other threads write in between *)

ReadPage(cursor) == Page(rows, ScopeIds, cursor, PageLimit)

StartReading ==
    /\ reading = Free /\ Ready(Reader)
    /\ LET page == ReadPage(Start)
       IN reading' = [asked |-> DOMAIN rows.records, seen |-> page.items, next |-> page.next]
    /\ UNCHANGED <<backend, schema, phase, unitVars, degraded, lost>>

NextPage ==
    /\ reading # Free /\ reading.next # Start /\ Ready(Reader)
    /\ LET page == ReadPage(reading.next)
       IN reading' = [reading EXCEPT !.seen = @ \o page.items, !.next = page.next]
    /\ UNCHANGED <<backend, schema, phase, unitVars, degraded, lost>>

StopReading ==
    /\ reading # Free /\ reading.next = Start /\ reading' = Free
    /\ UNCHANGED <<backend, schema, phase, unitVars, degraded, lost>>

Next ==
    \/ \E p \in Processes : Open(p) \/ Migrate(p) \/ Crash(p)
    \/ \E t \in Threads : Unit(t)
    \/ StartReading \/ NextPage \/ StopReading

Spec == Init /\ [][Next]_vars

-----------------------------------------------------------------------------
(* Properties *)

Reading == [asked : SUBSET RecordIds, seen : Seq(RecordIds), next : {Start} \cup (Instants \X RecordIds)]

UnitsTyped ==
    /\ backend \in Backends /\ schema \in BOOLEAN
    /\ phase \in [Processes -> {"down", "opened", "up"}]
    /\ rows \in Contents
    /\ saved \in [Processes -> Contents \cup {Free}]
    /\ owner \in [Processes -> Threads \cup {Free}]
    /\ depth \in [Processes -> 0 .. 2]
    /\ pc \in [Threads -> {"idle", "single", "event", "transaction", "written", "logged"}]
    /\ degraded \in [Processes -> BOOLEAN]
    /\ lost \subseteq Processes
    /\ pending \subseteq RecordIds \X (1 .. MaxRevision)
    /\ granted \subseteq RecordIds \X (1 .. MaxRevision)

\* The lock, the depth and the open unit tell the same story: a unit is open
\* exactly while a thread of its process is in one, at the depth it is at, and
\* the file has one writer.
LocksAgree ==
    /\ \A p \in Processes :
          /\ depth[p] = 0 <=> owner[p] = Free
          /\ saved[p] = Free <=> owner[p] = Free
          /\ owner[p] # Free => ProcessOf[owner[p]] = p /\ pc[owner[p]] # "idle"
    /\ \A t \in Threads : pc[t] # "idle" => owner[ProcessOf[t]] = t
    /\ \A p, q \in Processes : saved[p] # Free /\ saved[q] # Free => p = q

TypeOK == UnitsTyped /\ LocksAgree /\ (reading = Free \/ reading \in Reading)

Opened(p) == IF saved[p] = Free THEN Free ELSE Working(p)

Port == INSTANCE UnitsOfWork
          WITH Clients <- Processes, NoUnit <- Free,
               db <- Committed, work <- [p \in Processes |-> Opened(p)]

\* store.py: both backends change what everybody sees by whole units of work,
\* one at a time, through exceptions, failed commits and crashes, and nobody
\* reads a unit that is not over.
ImplementsPort == Port!Spec

\* No update is lost and none is granted twice: the revision of a committed
\* record is one more than the committed updates, each at a revision of its own,
\* also when a transaction that won an update is rolled back.
RevisionCountsUpdates ==
    \A r \in DOMAIN Committed.records :
      Committed.records[r].revision = 1 + Cardinality({g \in granted : g[1] = r})

Resolved(d) ==
    /\ \A l \in d.relations : Has(d, l[1]) /\ Has(d, l[2])
    /\ Sqlite => /\ \A r \in DOMAIN d.records : HasScope(d, d.records[r].scope)
                 /\ \A s \in DOMAIN d.scopes :
                       d.scopes[s].parent # NoParent => HasScope(d, d.scopes[s].parent)

\* No contents a reader or a unit can see hold a relation one of whose records
\* is missing, nor, in SQLite, a record or a scope whose scope is missing.
ReferencesHold ==
    \A d \in ({rows} \cup {saved[p] : p \in Processes}) \ {Free} : Resolved(d)

\* A reader that follows the cursors to the end has met every record that was
\* there when it began, and no record twice, whatever was inserted between its
\* pages, at an earlier or the same instant.
PagesExact ==
    reading # Free =>
      /\ IsInjective(reading.seen)
      /\ reading.next = Start => reading.asked \subseteq ToSet(reading.seen)

\* retrieve_bounded says truncated exactly if a matching record was left out,
\* and what it returns is within both caps.
TruncationTold ==
    \A s \in ScopeIds, cap \in 0 .. Cardinality(RecordIds), tokens \in {1, 3} :
      LET got == RetrieveBounded(rows, {s}, cap, tokens)
      IN /\ got.truncated <=> ToSet(got.records) # Matching(rows, {s})
         /\ Len(got.records) <= cap /\ Tokens(got.records) <= tokens

\* service.py: "a failed lifecycle write is caught, logged without sensitive
\* detail, and surfaced through health".
LossIsSurfaced == \A p \in lost : degraded[p]
=============================================================================
