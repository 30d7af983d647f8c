--------------------------- MODULE MemoryStoreProofs ---------------------------
(***************************************************************************)
(* Theorems about MemoryStore, for any processes, threads, scopes, records  *)
(* and operations, and either backend: it implements the units of work the  *)
(* port promises, its references hold, no update is lost, and what a reader  *)
(* pages through or retrieves is exact or says that it is not.              *)
(***************************************************************************)
EXTENDS MemoryStore, MemoryModelsProofs

-----------------------------------------------------------------------------
(* Contents                                                                 *)

LEMMA ContentsFields ==
    ASSUME NEW d \in Contents
    PROVE  /\ d.scopes \in [DOMAIN d.scopes -> Scope] /\ DOMAIN d.scopes \subseteq ScopeIds
           /\ d.records \in [DOMAIN d.records -> Record] /\ DOMAIN d.records \subseteq RecordIds
           /\ d.relations \subseteq Relation
           /\ d = [scopes |-> d.scopes, records |-> d.records, relations |-> d.relations]
  BY DEF Contents

LEMMA ContentsMade ==
    ASSUME NEW S \in SUBSET ScopeIds, NEW R \in SUBSET RecordIds,
           NEW f \in [S -> Scope], NEW g \in [R -> Record], NEW L \in SUBSET Relation
    PROVE  [scopes |-> f, records |-> g, relations |-> L] \in Contents
  BY DEF Contents

LEMMA NothingFacts ==
    /\ Nothing \in Contents /\ DOMAIN Nothing.scopes = {} /\ DOMAIN Nothing.records = {}
    /\ Nothing.relations = {}
  <1>1. /\ [s \in {} |-> 0] \in [{} -> Scope] /\ [r \in {} |-> 0] \in [{} -> Record]
    OBVIOUS
  <1>2. Nothing \in Contents
    BY <1>1, ContentsMade DEF Nothing
  <1>. QED  BY <1>2 DEF Nothing

\* What an accepted operation makes of contents, by kind.
LEMMA ScopePerformed ==
    ASSUME NEW d \in Contents, NEW op \in Operations, op.kind = "scope"
    PROVE  LET e == Performed(d, op)
           IN  /\ e \in Contents /\ e.records = d.records /\ e.relations = d.relations
               /\ DOMAIN e.scopes = DOMAIN d.scopes \cup {op.scope}
               /\ e.scopes[op.scope].parent = op.parent
               /\ \A s \in DOMAIN d.scopes \ {op.scope} : e.scopes[s] = d.scopes[s]
  <1>1. op.scope \in ScopeIds /\ op.parent \in ScopeIds \cup {NoParent}
    BY DEF Operations
  <1>2. [parent |-> op.parent, closed |-> FALSE] \in Scope
    BY <1>1 DEF Scope
  <1>. DEFINE f == With(d.scopes, op.scope, [parent |-> op.parent, closed |-> FALSE])
  <1>3. /\ f \in [DOMAIN d.scopes \cup {op.scope} -> Scope]
        /\ f[op.scope] = [parent |-> op.parent, closed |-> FALSE]
        /\ \A s \in DOMAIN d.scopes \ {op.scope} : f[s] = d.scopes[s]
    <2>1. d.scopes \in [DOMAIN d.scopes -> Scope]
      BY ContentsFields
    <2>. QED  BY <1>2, <2>1 DEF With
  <1>. HIDE DEF f
  <1>4. Performed(d, op) = [scopes |-> f, records |-> d.records, relations |-> d.relations]
    BY ContentsFields DEF Performed, ScopeCreated, f
  <1>5. Performed(d, op) \in Contents
    BY <1>1, <1>3, <1>4, ContentsFields, ContentsMade
  <1>. QED  BY <1>3, <1>4, <1>5

LEMMA ClosePerformed ==
    ASSUME NEW d \in Contents, NEW op \in Operations, op.kind = "close", Accepts(d, op)
    PROVE  LET e == Performed(d, op)
           IN  /\ e \in Contents /\ e.records = d.records /\ e.relations = d.relations
               /\ DOMAIN e.scopes = DOMAIN d.scopes
               /\ \A s \in DOMAIN d.scopes : e.scopes[s].parent = d.scopes[s].parent
  <1>1. op.scope \in DOMAIN d.scopes
    BY DEF Accepts, HasScope
  <1>. DEFINE f == [d.scopes EXCEPT ![op.scope].closed = TRUE]
  <1>2. d.scopes \in [DOMAIN d.scopes -> Scope]
    BY ContentsFields
  <1>3. /\ f \in [DOMAIN d.scopes -> Scope]
        /\ \A s \in DOMAIN d.scopes : f[s].parent = d.scopes[s].parent
    BY <1>1, <1>2 DEF Scope
  <1>4. Performed(d, op) = [d EXCEPT !.scopes = f]
    BY ContentsFields DEF Performed, ScopeClosed
  <1>. HIDE DEF f
  <1>5. Performed(d, op) = [scopes |-> f, records |-> d.records, relations |-> d.relations]
    BY <1>4, ContentsFields
  <1>6. Performed(d, op) \in Contents
    <2>1. f \in [DOMAIN d.scopes -> Scope]
      BY <1>3
    <2>. QED  BY <1>5, <2>1, ContentsFields, ContentsMade
  <1>. QED  BY <1>3, <1>5, <1>6

LEMMA InsertPerformed ==
    ASSUME NEW d \in Contents, NEW op \in Operations, op.kind = "insert"
    PROVE  LET e == Performed(d, op)
           IN  /\ e \in Contents /\ e.scopes = d.scopes /\ e.relations = d.relations
               /\ DOMAIN e.records = DOMAIN d.records \cup {op.record}
               /\ e.records[op.record].scope = op.scope /\ e.records[op.record].revision = 1
               /\ \A r \in DOMAIN d.records \ {op.record} : e.records[r] = d.records[r]
  <1>1. op.record \in RecordIds /\ op.scope \in ScopeIds /\ op.created \in Instants
    BY DEF Operations
  <1>. DEFINE new == [scope |-> op.scope, revision |-> 1, created |-> op.created]
              f   == With(d.records, op.record, new)
  <1>2. new \in Record
    BY <1>1, ModelAssumption DEF Record
  <1>3. /\ f \in [DOMAIN d.records \cup {op.record} -> Record]
        /\ f[op.record] = new
        /\ \A r \in DOMAIN d.records \ {op.record} : f[r] = d.records[r]
    <2>1. d.records \in [DOMAIN d.records -> Record]
      BY ContentsFields
    <2>. QED  BY <1>2, <2>1 DEF With
  <1>4. Performed(d, op) = [d EXCEPT !.records = f]
    BY ContentsFields DEF Performed, RecordInserted
  <1>. HIDE DEF f
  <1>5. Performed(d, op) = [scopes |-> d.scopes, records |-> f, relations |-> d.relations]
    BY <1>4, ContentsFields
  <1>6. Performed(d, op) \in Contents
    BY <1>1, <1>3, <1>5, ContentsFields, ContentsMade
  <1>. QED  BY <1>3, <1>5, <1>6

LEMMA UpdatePerformed ==
    ASSUME NEW d \in Contents, NEW op \in Operations, op.kind = "update", Accepts(d, op)
    PROVE  LET e == Performed(d, op)
           IN  /\ e \in Contents /\ e.scopes = d.scopes /\ e.relations = d.relations
               /\ DOMAIN e.records = DOMAIN d.records /\ op.record \in DOMAIN d.records
               /\ e.records[op.record].scope = op.scope
               /\ e.records[op.record].revision = op.expected + 1
               /\ e.records[op.record].created = d.records[op.record].created
               /\ \A r \in DOMAIN d.records \ {op.record} : e.records[r] = d.records[r]
  <1>1. /\ op.scope \in ScopeIds /\ op.expected \in 1 .. MaxRevision - 1
        /\ op.record \in DOMAIN d.records /\ d.records[op.record].revision = op.expected
    BY DEF Operations, Accepts, RevisionHolds, Has
  <1>2. d.records \in [DOMAIN d.records -> Record]
    BY ContentsFields
  <1>. DEFINE new == [d.records[op.record] EXCEPT !.scope = op.scope, !.revision = @ + 1]
              f   == [d.records EXCEPT ![op.record] = new]
  <1>3. /\ new \in Record /\ new.scope = op.scope /\ new.revision = op.expected + 1
        /\ new.created = d.records[op.record].created
    <2>1. d.records[op.record] \in Record /\ op.expected + 1 \in 1 .. MaxRevision
      BY <1>1, <1>2, ModelAssumption
    <2>. QED  BY <1>1, <2>1 DEF Record
  <1>7. /\ f \in [DOMAIN d.records -> Record] /\ f[op.record] = new
        /\ \A r \in DOMAIN d.records \ {op.record} : f[r] = d.records[r]
    <2>. HIDE DEF new
    <2>. QED  BY <1>1, <1>2, <1>3
  <1>4. Performed(d, op) = [d EXCEPT !.records = f]
    <2>1. Performed(d, op) = RecordUpdated(d, op.record, op.scope)
      BY DEF Performed
    <2>2. RecordUpdated(d, op.record, op.scope) = [d EXCEPT !.records = f]
      BY ContentsFields, <1>1 DEF RecordUpdated
    <2>. QED  BY <2>1, <2>2
  <1>. HIDE DEF f
  <1>5. Performed(d, op) = [scopes |-> d.scopes, records |-> f, relations |-> d.relations]
    BY <1>4, ContentsFields
  <1>6. Performed(d, op) \in Contents
    <2>1. f \in [DOMAIN d.records -> Record]
      BY <1>7
    <2>. QED  BY <1>5, <2>1, ContentsFields, ContentsMade
  <1>. HIDE DEF new
  <1>. QED  BY <1>1, <1>3, <1>5, <1>6, <1>7

LEMMA RelatePerformed ==
    ASSUME NEW d \in Contents, NEW op \in Operations, op.kind = "relate"
    PROVE  LET e == Performed(d, op)
           IN  /\ e \in Contents /\ e.scopes = d.scopes /\ e.records = d.records
               /\ e.relations = d.relations \cup {<<op.record, op.target>>}
  <1>1. <<op.record, op.target>> \in Relation
    BY DEF Operations, Relation
  <1>2. Performed(d, op) = [d EXCEPT !.relations = @ \cup {<<op.record, op.target>>}]
    BY DEF Performed, RelationCreated
  <1>4. Performed(d, op) = [scopes |-> d.scopes, records |-> d.records,
                            relations |-> d.relations \cup {<<op.record, op.target>>}]
    BY <1>2, ContentsFields
  <1>5. Performed(d, op) \in Contents
    BY <1>1, <1>4, ContentsFields, ContentsMade
  <1>. QED  BY <1>4, <1>5

LEMMA Kinds ==
    ASSUME NEW op \in Operations
    PROVE  op.kind \in {"scope", "close", "insert", "update", "relate"}
  BY DEF Operations

LEMMA PerformedContents ==
    ASSUME NEW d \in Contents, NEW op \in Operations, Accepts(d, op)
    PROVE  Performed(d, op) \in Contents
  BY Kinds, ScopePerformed, ClosePerformed, InsertPerformed, UpdatePerformed, RelatePerformed

-----------------------------------------------------------------------------
(* The invariant of the units                                               *)

\* Only the process that hosts the dictionaries ever runs or opens a unit.
HostOnly ==
    ~Sqlite => \A p \in Processes : (phase[p] # "down" \/ saved[p] # Free) => p = Host

\* What the clients of the port have open.
Work == [p \in Processes |-> Opened(p)]

NoneOpen == \A p \in Processes : saved[p] = Free

\* Nobody has won an update before a unit has performed one.
PendingInUnit ==
    /\ \A t \in Threads : pc[t] \in {"single", "event"} => pending = {}
    /\ NoneOpen => pending = {}

UnitsInv == UnitsTyped /\ LocksAgree /\ HostOnly /\ PendingInUnit

LEMMA WorkFacts ==
    ASSUME UnitsTyped, HostOnly
    PROVE  /\ Committed \in Contents
           /\ \A p \in Processes : saved[p] # Free => Working(p) \in Contents
           /\ \A p \in Processes : Work[p] = Free <=> saved[p] = Free
           /\ \A p \in Processes : saved[p] # Free => Work[p] = Working(p)
           /\ Work = [p \in Processes |-> Work[p]]
  <1>1. Free \notin Contents /\ Host \in Processes
    BY ThreadAssumption
  <1>2. rows \in Contents /\ saved \in [Processes -> Contents \cup {Free}]
    BY DEF UnitsTyped
  <1>3. Committed \in Contents
    BY <1>1, <1>2 DEF Committed
  <1>4. \A p \in Processes : saved[p] # Free => Working(p) \in Contents
    BY <1>2 DEF Working
  <1>. QED  BY <1>1, <1>3, <1>4 DEF Work, Opened

\* The shapes of a step, as the port sees it and with what it grants.
FreshIn(d, op) ==
    (op.kind = "scope" => ~HasScope(d, op.scope)) /\ (op.kind = "insert" => ~Has(d, op.record))

Begins(p) ==
    /\ NoneOpen
    /\ Committed' = Committed /\ Work' = [Work EXCEPT ![p] = Committed]
    /\ UNCHANGED <<pending, granted>>

Does(p, op) ==
    /\ saved[p] # Free
    /\ FreshIn(Work[p], op) /\ Accepts(Work[p], op)
    /\ Committed' = Committed /\ Work' = [Work EXCEPT ![p] = Performed(Work[p], op)]
    /\ pending' = pending \cup Won(op) /\ UNCHANGED granted

Commits(p) ==
    /\ saved[p] # Free
    /\ Committed' = Work[p] /\ Work' = [Work EXCEPT ![p] = Free]
    /\ granted' = granted \cup pending /\ pending' = {}

Aborts(p) ==
    /\ saved[p] # Free
    /\ Committed' = Committed /\ Work' = [Work EXCEPT ![p] = Free]
    /\ pending' = {} /\ UNCHANGED granted

AtOnce(op) ==
    /\ NoneOpen
    /\ FreshIn(Committed, op) /\ Accepts(Committed, op)
    /\ Committed' = Performed(Committed, op) /\ Work' = Work
    /\ granted' = granted \cup Won(op) /\ UNCHANGED pending

Stutters == Committed' = Committed /\ Work' = Work /\ UNCHANGED <<pending, granted>>

Shaped ==
    /\ backend' = backend
    /\ \/ \E p \in Processes :
            Begins(p) \/ Commits(p) \/ Aborts(p) \/ (\E op \in Operations : Does(p, op))
       \/ \E op \in Operations : AtOnce(op)
       \/ Stutters

\* A step that leaves the contents and the open units alone.
LEMMA SameContents ==
    ASSUME UNCHANGED <<backend, rows, saved>>
    PROVE  Committed' = Committed /\ Work' = Work /\ NoneOpen' = NoneOpen
  BY DEF Committed, Work, Opened, Working, Sqlite, NoneOpen

\* The outermost unit of p ends and leaves d.
LEMMA Ends ==
    ASSUME UnitsInv, NEW p \in Processes, NEW d, Released(p, d), saved[p] # Free,
           backend' = backend
    PROVE  /\ Committed' = d /\ Work' = [Work EXCEPT ![p] = Free] /\ NoneOpen'
  <1>1. /\ saved' = [saved EXCEPT ![p] = Free] /\ rows' = d
        /\ saved \in [Processes -> Contents \cup {Free}]
    BY DEF Released, UnitsInv, UnitsTyped
  <1>2. \A q \in Processes : saved'[q] = Free
    BY <1>1 DEF UnitsInv, LocksAgree
  <1>3. Committed' = d
    BY <1>1, <1>2, ThreadAssumption DEF Committed
  <1>4. \A q \in Processes : Opened(q)' = Free
    BY <1>2 DEF Opened
  <1>5. \A q \in Processes \ {p} : Opened(q) = Free
    BY DEF UnitsInv, LocksAgree, Opened
  <1>. QED  BY <1>2, <1>3, <1>4, <1>5 DEF Work, NoneOpen

\* What a rolled back unit leaves is what everybody saw.
LEMMA RolledBackIsCommitted ==
    ASSUME UnitsInv, NEW p \in Processes, saved[p] # Free
    PROVE  RolledBack(p) = Committed
  BY DEF UnitsInv, HostOnly, RolledBack, Committed

LEMMA ReadyFacts ==
    ASSUME UnitsInv, NEW t \in Threads, Ready(t)
    PROVE  /\ ProcessOf[t] \in Processes /\ saved[ProcessOf[t]] = Free
           /\ ~Sqlite => ProcessOf[t] = Host
           /\ ~WriterElsewhere(ProcessOf[t]) => NoneOpen
  <1>1. ProcessOf[t] \in Processes
    BY ThreadAssumption
  <1>2. saved[ProcessOf[t]] = Free
    BY <1>1 DEF Ready, UnitsInv, LocksAgree
  <1>3. ~Sqlite => ProcessOf[t] = Host
    BY <1>1 DEF Ready, UnitsInv, HostOnly
  <1>4. ~WriterElsewhere(ProcessOf[t]) => NoneOpen
    BY <1>1, <1>2, <1>3 DEF NoneOpen, WriterElsewhere, UnitsInv, HostOnly
  <1>. QED  BY <1>1, <1>2, <1>3, <1>4

LEMMA OwnerFacts ==
    ASSUME UnitsInv, NEW t \in Threads, pc[t] # "idle"
    PROVE  /\ ProcessOf[t] \in Processes /\ owner[ProcessOf[t]] = t
           /\ saved[ProcessOf[t]] # Free /\ depth[ProcessOf[t]] # 0
           /\ \A q \in Processes \ {ProcessOf[t]} : saved[q] = Free /\ owner[q] = Free
           /\ \A u \in Threads \ {t} : pc[u] = "idle"
           /\ ~Sqlite => ProcessOf[t] = Host
  <1>1. ProcessOf[t] \in Processes /\ t # Free /\ ProcessOf \in [Threads -> Processes]
    BY ThreadAssumption
  <1>2. owner[ProcessOf[t]] = t
    BY DEF UnitsInv, LocksAgree
  <1>3. saved[ProcessOf[t]] # Free /\ depth[ProcessOf[t]] # 0
    BY <1>1, <1>2 DEF UnitsInv, LocksAgree
  <1>4. \A q \in Processes \ {ProcessOf[t]} : saved[q] = Free /\ owner[q] = Free
    BY <1>1, <1>3 DEF UnitsInv, LocksAgree
  <1>5. ASSUME NEW u \in Threads \ {t}, pc[u] # "idle"  PROVE FALSE
    <2>1. owner[ProcessOf[u]] = u /\ u # Free /\ ProcessOf[u] \in Processes
      BY <1>1, <1>5, ThreadAssumption DEF UnitsInv, LocksAgree
    <2>. QED  BY <1>2, <1>4, <2>1
  <1>6. ~Sqlite => ProcessOf[t] = Host
    BY <1>1, <1>3 DEF UnitsInv, HostOnly
  <1>. QED  BY <1>1, <1>2, <1>3, <1>4, <1>5, <1>6

-----------------------------------------------------------------------------
(* One lemma per action: it keeps the invariant and has one of the shapes    *)

LEMMA OpenStep ==
    ASSUME UnitsInv, NEW p \in Processes, Open(p)
    PROVE  UnitsInv' /\ Shaped
  <1>. USE DEF Open, unitVars
  <1>1. Shaped
    BY SameContents DEF Shaped, Stutters
  <1>2. UnitsTyped'
    BY DEF UnitsInv, UnitsTyped
  <1>3. LocksAgree'
    BY DEF UnitsInv, LocksAgree
  <1>4. HostOnly'
    BY DEF UnitsInv, UnitsTyped, HostOnly, Sqlite
  <1>5. PendingInUnit'
    BY DEF UnitsInv, PendingInUnit, NoneOpen
  <1>. QED  BY <1>1, <1>2, <1>3, <1>4, <1>5 DEF UnitsInv

LEMMA MigrateStep ==
    ASSUME UnitsInv, NEW p \in Processes, Migrate(p)
    PROVE  UnitsInv' /\ Shaped
  <1>. USE DEF Migrate, unitVars
  <1>1. Shaped
    BY SameContents DEF Shaped, Stutters
  <1>2. UnitsTyped'
    BY DEF UnitsInv, UnitsTyped
  <1>3. LocksAgree'
    BY DEF UnitsInv, LocksAgree
  <1>4. HostOnly'
    BY DEF UnitsInv, UnitsTyped, HostOnly, Sqlite
  <1>5. PendingInUnit'
    BY DEF UnitsInv, PendingInUnit, NoneOpen
  <1>. QED  BY <1>1, <1>2, <1>3, <1>4, <1>5 DEF UnitsInv

LEMMA CrashStep ==
    ASSUME UnitsInv, NEW p \in Processes, Crash(p)
    PROVE  UnitsInv' /\ Shaped
  <1>. USE DEF Crash
  <1>1. UnitsTyped'
    BY DEF UnitsInv, UnitsTyped
  <1>2. LocksAgree'
    <2>1. /\ saved' = [saved EXCEPT ![p] = Free] /\ owner' = [owner EXCEPT ![p] = Free]
          /\ depth' = [depth EXCEPT ![p] = 0]
          /\ pc' = [t \in Threads |-> IF ProcessOf[t] = p THEN "idle" ELSE pc[t]]
      OBVIOUS
    <2>2. \A q \in Processes :
             /\ depth'[q] = 0 <=> owner'[q] = Free
             /\ saved'[q] = Free <=> owner'[q] = Free
             /\ owner'[q] # Free => ProcessOf[owner'[q]] = q /\ pc'[owner'[q]] # "idle"
      BY <2>1 DEF UnitsInv, UnitsTyped, LocksAgree
    <2>3. \A t \in Threads : pc'[t] # "idle" => owner'[ProcessOf[t]] = t
      BY <2>1, ThreadAssumption DEF UnitsInv, UnitsTyped, LocksAgree
    <2>4. \A q, r \in Processes : saved'[q] # Free /\ saved'[r] # Free => q = r
      BY <2>1 DEF UnitsInv, UnitsTyped, LocksAgree
    <2>. QED  BY <2>2, <2>3, <2>4 DEF LocksAgree
  <1>3. HostOnly'
    BY DEF HostOnly, Sqlite
  <1>4. PendingInUnit'
    <2>1. CASE saved[p] = Free
      <3>1. saved' = saved /\ pending' = pending
        BY <2>1 DEF UnitsInv, UnitsTyped
      <3>2. \A t \in Threads : pc'[t] = "idle" \/ pc'[t] = pc[t]
        OBVIOUS
      <3>. QED  BY <3>1, <3>2 DEF UnitsInv, PendingInUnit, NoneOpen
    <2>2. CASE saved[p] # Free
      BY <2>2 DEF PendingInUnit
    <2>. QED  BY <2>1, <2>2
  <1>5. Shaped
    <2>1. CASE saved[p] = Free
      <3>1. saved' = saved /\ pending' = pending /\ UNCHANGED <<backend, rows, granted>>
        BY <2>1 DEF UnitsInv, UnitsTyped
      <3>. QED  BY <3>1, SameContents DEF Shaped, Stutters
    <2>2. CASE saved[p] # Free
      <3>1. Released(p, rows) /\ pending' = {} /\ UNCHANGED <<backend, granted>>
        BY <2>2 DEF Released
      <3>2. Committed = rows
        BY DEF Committed
      <3>3. Committed' = Committed /\ Work' = [Work EXCEPT ![p] = Free]
        BY <2>2, <3>1, <3>2, Ends
      <3>. QED  BY <2>2, <3>1, <3>3 DEF Shaped, Aborts
    <2>. QED  BY <2>1, <2>2
  <1>. QED  BY <1>1, <1>2, <1>3, <1>4, <1>5 DEF UnitsInv

LEMMA EnterStep ==
    ASSUME UnitsInv, NEW t \in Threads, NEW mode \in Modes[t], Enter(t, mode)
    PROVE  UnitsInv' /\ Shaped
  <1>. DEFINE p == ProcessOf[t]
  <1>1. /\ p \in Processes /\ NoneOpen /\ owner[p] = Free /\ pc[t] = "idle" /\ phase[p] = "up"
        /\ mode \in {"single", "event", "transaction"} /\ (~Sqlite => p = Host)
    BY ReadyFacts, ThreadAssumption DEF Enter, Ready
  <1>2. /\ owner' = [owner EXCEPT ![p] = t] /\ depth' = [depth EXCEPT ![p] = 1]
        /\ saved' = [saved EXCEPT ![p] = rows] /\ pc' = [pc EXCEPT ![t] = mode]
        /\ UNCHANGED <<backend, schema, phase, rows, pending, granted, degraded, lost>>
    BY DEF Enter
  <1>. HIDE DEF p
  <1>3. UnitsTyped'
    BY <1>1, <1>2 DEF UnitsInv, UnitsTyped
  <1>4. rows \in Contents /\ rows # Free /\ t # Free
    BY ThreadAssumption DEF UnitsInv, UnitsTyped
  <1>5. \A q \in Processes : owner[q] = Free /\ depth[q] = 0
    BY <1>1 DEF NoneOpen, UnitsInv, LocksAgree
  <1>6. \A u \in Threads : pc[u] = "idle"
    BY <1>5, ThreadAssumption DEF UnitsInv, LocksAgree
  <1>7. LocksAgree'
    <2>1. \A q \in Processes :
             /\ depth'[q] = 0 <=> owner'[q] = Free
             /\ saved'[q] = Free <=> owner'[q] = Free
             /\ owner'[q] # Free => ProcessOf[owner'[q]] = q /\ pc'[owner'[q]] # "idle"
      BY <1>1, <1>2, <1>4, <1>5 DEF UnitsInv, UnitsTyped, NoneOpen, p
    <2>2. \A u \in Threads : pc'[u] # "idle" => owner'[ProcessOf[u]] = u
      BY <1>1, <1>2, <1>6 DEF UnitsInv, UnitsTyped, p
    <2>3. \A q, r \in Processes : saved'[q] # Free /\ saved'[r] # Free => q = r
      BY <1>1, <1>2 DEF UnitsInv, UnitsTyped, NoneOpen
    <2>. QED  BY <2>1, <2>2, <2>3 DEF LocksAgree
  <1>8. HostOnly'
    BY <1>1, <1>2 DEF UnitsInv, UnitsTyped, HostOnly, Sqlite
  <1>9. PendingInUnit'
    <2>1. pending' = {}
      BY <1>1, <1>2 DEF UnitsInv, PendingInUnit
    <2>. QED  BY <2>1 DEF PendingInUnit
  <1>10. Committed = rows /\ Committed' = rows
    <2>1. Committed = rows
      BY <1>1, ThreadAssumption DEF Committed, NoneOpen
    <2>2. saved'[Host] = Free \/ saved'[Host] = rows
      BY <1>1, <1>2, ThreadAssumption DEF UnitsInv, UnitsTyped, NoneOpen
    <2>. QED  BY <1>2, <2>1, <2>2 DEF Committed
  <1>11. Work' = [Work EXCEPT ![p] = rows]
    <2>1. \A q \in Processes : Opened(q)' = IF q = p THEN rows ELSE Free
      BY <1>1, <1>2, <1>4 DEF UnitsInv, UnitsTyped, NoneOpen, Opened, Working
    <2>2. \A q \in Processes : Opened(q) = Free
      BY <1>1 DEF NoneOpen, Opened
    <2>. QED  BY <2>1, <2>2 DEF Work
  <1>12. Shaped
    BY <1>1, <1>2, <1>10, <1>11 DEF Shaped, Begins
  <1>. QED  BY <1>3, <1>7, <1>8, <1>9, <1>12 DEF UnitsInv

LEMMA NestStep ==
    ASSUME UnitsInv, NEW t \in Threads, Nest(t)
    PROVE  UnitsInv' /\ Shaped
  <1>. USE DEF Nest, InTransaction
  <1>1. Shaped
    BY SameContents DEF Shaped, Stutters
  <1>2. ProcessOf[t] \in Processes /\ depth[ProcessOf[t]] # 0
    BY OwnerFacts
  <1>3. UnitsTyped'
    BY <1>2 DEF UnitsInv, UnitsTyped
  <1>4. LocksAgree'
    BY <1>2 DEF UnitsInv, UnitsTyped, LocksAgree
  <1>5. HostOnly'
    BY DEF UnitsInv, HostOnly, Sqlite
  <1>6. PendingInUnit'
    BY DEF UnitsInv, PendingInUnit, NoneOpen
  <1>. QED  BY <1>1, <1>3, <1>4, <1>5, <1>6 DEF UnitsInv

LEMMA UnnestStep ==
    ASSUME UnitsInv, NEW t \in Threads, Unnest(t)
    PROVE  UnitsInv' /\ Shaped
  <1>. USE DEF Unnest, InTransaction
  <1>1. Shaped
    BY SameContents DEF Shaped, Stutters
  <1>2. ProcessOf[t] \in Processes /\ depth[ProcessOf[t]] # 0
    BY OwnerFacts
  <1>3. UnitsTyped'
    BY <1>2 DEF UnitsInv, UnitsTyped
  <1>4. LocksAgree'
    BY <1>2 DEF UnitsInv, UnitsTyped, LocksAgree
  <1>5. HostOnly'
    BY DEF UnitsInv, HostOnly, Sqlite
  <1>6. PendingInUnit'
    BY DEF UnitsInv, PendingInUnit, NoneOpen
  <1>. QED  BY <1>1, <1>3, <1>4, <1>5, <1>6 DEF UnitsInv

LEMMA OutsideStep ==
    ASSUME UnitsInv, UNCHANGED <<backend, schema, phase, unitVars>>,
           degraded' \in [Processes -> BOOLEAN], lost' \subseteq Processes
    PROVE  UnitsInv' /\ Shaped
  <1>. USE DEF unitVars
  <1>1. Shaped
    BY SameContents DEF Shaped, Stutters
  <1>2. UnitsTyped'
    BY DEF UnitsInv, UnitsTyped
  <1>3. LocksAgree'
    BY DEF UnitsInv, LocksAgree
  <1>4. HostOnly'
    BY DEF UnitsInv, HostOnly, Sqlite
  <1>5. PendingInUnit'
    BY DEF UnitsInv, PendingInUnit, NoneOpen
  <1>. QED  BY <1>1, <1>2, <1>3, <1>4, <1>5 DEF UnitsInv

LEMMA FreshFacts ==
    ASSUME UnitsInv, NEW op \in Operations, Fresh(op)
    PROVE  /\ \A p \in Processes : saved[p] # Free => FreshIn(Work[p], op)
           /\ FreshIn(Committed, op)
  <1>1. UnitsTyped /\ HostOnly /\ Host \in Processes /\ Free \notin Contents
    BY ThreadAssumption DEF UnitsInv
  <1>2. rows \in Contents
    BY <1>1 DEF UnitsTyped
  <1>3. \A p \in Processes : saved[p] # Free => Working(p) \in {rows, saved[p]}
    BY DEF Working
  <1>4. Committed = rows \/ (saved[Host] # Free /\ Committed = saved[Host])
    BY DEF Committed
  <1>5. FreshIn(rows, op) /\ \A p \in Processes : saved[p] # Free => FreshIn(saved[p], op)
    BY <1>1, <1>2 DEF Fresh, FreshIn
  <1>. QED  BY <1>1, <1>3, <1>4, <1>5, WorkFacts

LEMMA WonType ==
    ASSUME NEW op \in Operations
    PROVE  Won(op) \subseteq RecordIds \X (1 .. MaxRevision)
  BY ModelAssumption DEF Won, Operations

LEMMA WriteStep ==
    ASSUME UnitsInv, NEW t \in Threads, NEW op \in Considered, Write(t, op)
    PROVE  UnitsInv' /\ Shaped
  <1>. DEFINE p == ProcessOf[t]
              d == Working(p)
              e == Performed(d, op)
  <1>1. /\ pc[t] \in {"single", "event", "transaction"} /\ Fresh(op) /\ Accepts(d, op)
        /\ Put(p, e) /\ pending' = pending \cup Won(op)
        /\ pc' = [pc EXCEPT ![t] = CASE @ = "single" -> "written"
                                      [] @ = "event"  -> "logged"
                                      [] OTHER        -> @]
        /\ UNCHANGED <<backend, schema, phase, owner, depth, granted, degraded, lost>>
    BY DEF Write
  <1>2. /\ p \in Processes /\ saved[p] # Free /\ owner[p] = t /\ pc[t] # "idle"
        /\ \A q \in Processes \ {p} : saved[q] = Free
        /\ \A u \in Threads \ {t} : pc[u] = "idle"
        /\ (~Sqlite => p = Host) /\ op \in Operations
    BY <1>1, OwnerFacts, OperationAssumption
  <1>3. d \in Contents /\ e \in Contents /\ e # Free /\ Free \notin Contents
    BY <1>1, <1>2, WorkFacts, PerformedContents, ThreadAssumption DEF UnitsInv
  <1>. DEFINE at == CASE pc[t] = "single" -> "written"
                      [] pc[t] = "event"  -> "logged"
                      [] OTHER            -> pc[t]
  <1>4. /\ at \in {"transaction", "written", "logged"}
        /\ pc' = [pc EXCEPT ![t] = at]
    BY <1>1, <1>2 DEF UnitsInv, UnitsTyped
  <1>. HIDE DEF p, d, e, at
  <1>5. /\ rows' \in Contents /\ saved' \in [Processes -> Contents \cup {Free}]
        /\ \A q \in Processes : saved'[q] = Free <=> saved[q] = Free
    BY <1>1, <1>2, <1>3 DEF Put, UnitsInv, UnitsTyped
  <1>6. UnitsTyped'
    BY <1>1, <1>2, <1>4, <1>5, WonType DEF UnitsInv, UnitsTyped
  <1>7. LocksAgree'
    BY <1>1, <1>2, <1>4, <1>5 DEF UnitsInv, UnitsTyped, LocksAgree
  <1>8. HostOnly'
    BY <1>1, <1>5 DEF UnitsInv, HostOnly, Sqlite
  <1>9. PendingInUnit'
    BY <1>1, <1>2, <1>4, <1>5 DEF UnitsInv, UnitsTyped, PendingInUnit, NoneOpen
  <1>10. Committed' = Committed
    <2>1. CASE Sqlite
      BY <1>1, <2>1 DEF Put, Committed, Sqlite
    <2>2. CASE ~Sqlite
      BY <1>1, <1>2, <2>2 DEF Put, Committed, Sqlite
    <2>. QED  BY <2>1, <2>2
  <1>11. Work' = [Work EXCEPT ![p] = e]
    <2>1. Opened(p)' = e
      BY <1>1, <1>2, <1>3, <1>5 DEF Put, Opened, Working, Sqlite, UnitsInv, UnitsTyped
    <2>2. \A q \in Processes \ {p} : Opened(q)' = Free /\ Opened(q) = Free
      BY <1>2, <1>5 DEF Opened
    <2>. QED  BY <2>1, <2>2 DEF Work
  <1>12. Work[p] = d /\ FreshIn(Work[p], op)
    BY <1>1, <1>2, WorkFacts, FreshFacts DEF UnitsInv, d
  <1>13. Does(p, op)
    BY <1>1, <1>2, <1>10, <1>11, <1>12 DEF Does, e
  <1>14. Shaped
    BY <1>1, <1>2, <1>13 DEF Shaped
  <1>. QED  BY <1>6, <1>7, <1>8, <1>9, <1>14 DEF UnitsInv

\* What every end of a unit leaves of the invariant.
LEMMA ReleasedInv ==
    ASSUME UnitsInv, NEW t \in Threads, pc[t] # "idle", NEW d \in Contents,
           Released(ProcessOf[t], d), pc' = [pc EXCEPT ![t] = "idle"], pending' = {},
           granted' \subseteq RecordIds \X (1 .. MaxRevision),
           UNCHANGED <<backend, schema, phase>>,
           degraded' \in [Processes -> BOOLEAN], lost' \subseteq Processes
    PROVE  UnitsInv'
  <1>. DEFINE p == ProcessOf[t]
  <1>1. /\ p \in Processes /\ owner[p] = t
        /\ \A q \in Processes \ {p} : saved[q] = Free /\ owner[q] = Free
        /\ \A u \in Threads \ {t} : pc[u] = "idle"
    BY OwnerFacts
  <1>2. /\ saved' = [saved EXCEPT ![p] = Free] /\ owner' = [owner EXCEPT ![p] = Free]
        /\ depth' = [depth EXCEPT ![p] = 0] /\ rows' = d
    BY DEF Released
  <1>. HIDE DEF p
  <1>3. UnitsTyped'
    BY <1>1, <1>2 DEF UnitsInv, UnitsTyped
  <1>4. LocksAgree'
    BY <1>1, <1>2 DEF UnitsInv, UnitsTyped, LocksAgree
  <1>5. HostOnly'
    BY <1>1, <1>2 DEF UnitsInv, UnitsTyped, HostOnly, Sqlite
  <1>. QED  BY <1>3, <1>4, <1>5 DEF UnitsInv, PendingInUnit

LEMMA CommitStep ==
    ASSUME UnitsInv, NEW t \in Threads, Commit(t)
    PROVE  UnitsInv' /\ Shaped
  <1>. DEFINE p == ProcessOf[t]
  <1>1. pc[t] # "idle" /\ p \in Processes /\ saved[p] # Free
    BY OwnerFacts DEF Commit, Closes, InTransaction
  <1>2. Working(p) \in Contents /\ Work[p] = Working(p)
    BY <1>1, WorkFacts DEF UnitsInv
  <1>3. UnitsInv'
    BY <1>1, <1>2, ReleasedInv DEF Commit, UnitsInv, UnitsTyped
  <1>4. Shaped
    BY <1>1, <1>2, Ends DEF Commit, Shaped, Commits
  <1>. QED  BY <1>3, <1>4

LEMMA CommitFailsStep ==
    ASSUME UnitsInv, NEW t \in Threads, CommitFails(t)
    PROVE  UnitsInv' /\ Shaped
  <1>. DEFINE p == ProcessOf[t]
  <1>1. pc[t] # "idle" /\ p \in Processes /\ saved[p] # Free
    BY OwnerFacts DEF CommitFails, Closes, InTransaction
  <1>2. RolledBack(p) = Committed /\ Committed \in Contents
    BY <1>1, RolledBackIsCommitted, WorkFacts DEF UnitsInv
  <1>3. UnitsInv'
    BY <1>1, <1>2, ReleasedInv DEF CommitFails, UnitsInv, UnitsTyped
  <1>4. Shaped
    BY <1>1, <1>2, Ends DEF CommitFails, Shaped, Aborts
  <1>. QED  BY <1>3, <1>4

LEMMA RejectStep ==
    ASSUME UnitsInv, NEW t \in Threads, NEW op \in Considered, Reject(t, op)
    PROVE  UnitsInv' /\ Shaped
  <1>. DEFINE p == ProcessOf[t]
  <1>1. pc[t] # "idle" /\ p \in Processes /\ saved[p] # Free
    BY OwnerFacts DEF Reject
  <1>2. RolledBack(p) = Committed /\ Committed \in Contents
    BY <1>1, RolledBackIsCommitted, WorkFacts DEF UnitsInv
  <1>3. pending' = {}
    BY DEF Reject, UnitsInv, PendingInUnit
  <1>4. degraded' \in [Processes -> BOOLEAN] /\ lost' \subseteq Processes
    BY <1>1 DEF Reject, UnitsInv, UnitsTyped
  <1>5. UnitsInv'
    BY <1>1, <1>2, <1>3, <1>4, ReleasedInv DEF Reject, UnitsInv, UnitsTyped
  <1>6. Shaped
    BY <1>1, <1>2, <1>3, Ends DEF Reject, Shaped, Aborts
  <1>. QED  BY <1>5, <1>6

LEMMA RaiseStep ==
    ASSUME UnitsInv, NEW t \in Threads, Raise(t)
    PROVE  UnitsInv' /\ Shaped
  <1>. DEFINE p == ProcessOf[t]
  <1>1. pc[t] # "idle" /\ p \in Processes /\ saved[p] # Free
    BY OwnerFacts DEF Raise, InTransaction
  <1>2. RolledBack(p) = Committed /\ Committed \in Contents
    BY <1>1, RolledBackIsCommitted, WorkFacts DEF UnitsInv
  <1>3. UnitsInv'
    BY <1>1, <1>2, ReleasedInv DEF Raise, UnitsInv, UnitsTyped
  <1>4. Shaped
    BY <1>1, <1>2, Ends DEF Raise, Shaped, Aborts
  <1>. QED  BY <1>3, <1>4

LEMMA WriteInMemoryStep ==
    ASSUME UnitsInv, NEW t \in Threads, NEW op \in Considered, WriteInMemory(t, op)
    PROVE  UnitsInv' /\ Shaped
  <1>1. /\ ~Sqlite /\ Ready(t) /\ Fresh(op) /\ Accepts(rows, op)
        /\ rows' = Performed(rows, op) /\ granted' = granted \cup Won(op)
        /\ UNCHANGED <<backend, schema, phase, saved, owner, depth, pc, pending, degraded, lost>>
    BY DEF WriteInMemory
  <1>2. NoneOpen /\ op \in Operations
    BY <1>1, ReadyFacts, OperationAssumption DEF WriterElsewhere
  <1>3. rows \in Contents /\ rows' \in Contents /\ Committed = rows /\ Host \in Processes
    BY <1>1, <1>2, PerformedContents, ThreadAssumption
       DEF UnitsInv, UnitsTyped, Committed, NoneOpen
  <1>4. UnitsTyped'
    BY <1>1, <1>2, <1>3, WonType DEF UnitsInv, UnitsTyped
  <1>5. LocksAgree'
    BY <1>1 DEF UnitsInv, LocksAgree
  <1>6. HostOnly'
    BY <1>1 DEF UnitsInv, HostOnly, Sqlite
  <1>7. PendingInUnit'
    BY <1>1 DEF UnitsInv, PendingInUnit, NoneOpen
  <1>8. Committed' = rows' /\ Work' = Work
    BY <1>1, <1>2, <1>3 DEF Committed, Work, Opened, NoneOpen, Sqlite
  <1>9. FreshIn(Committed, op)
    BY <1>1, <1>2, FreshFacts
  <1>10. AtOnce(op)
    BY <1>1, <1>2, <1>3, <1>8, <1>9 DEF AtOnce
  <1>11. Shaped
    BY <1>1, <1>2, <1>10 DEF Shaped
  <1>. QED  BY <1>4, <1>5, <1>6, <1>7, <1>11 DEF UnitsInv

LEMMA UnitsInitially ==
    ASSUME Init
    PROVE  /\ UnitsInv /\ Committed = Nothing /\ Work = [p \in Processes |-> Free]
           /\ granted = {} /\ pending = {}
  <1>. USE DEF Init
  <1>1. UnitsTyped
    <2>1. rows \in Contents
      BY NothingFacts
    <2>2. /\ phase \in [Processes -> {"down", "opened", "up"}]
          /\ saved \in [Processes -> Contents \cup {Free}]
          /\ owner \in [Processes -> Threads \cup {Free}]
          /\ depth \in [Processes -> 0 .. 2]
          /\ degraded \in [Processes -> BOOLEAN]
      OBVIOUS
    <2>3. pc \in [Threads -> {"idle", "single", "event", "transaction", "written", "logged"}]
      OBVIOUS
    <2>. QED  BY <2>1, <2>2, <2>3 DEF UnitsTyped
  <1>2. LocksAgree
    BY ThreadAssumption DEF LocksAgree
  <1>3. HostOnly /\ PendingInUnit
    BY DEF HostOnly, PendingInUnit
  <1>4. Committed = Nothing /\ Work = [p \in Processes |-> Free]
    BY ThreadAssumption DEF Committed, Work, Opened
  <1>. QED  BY <1>1, <1>2, <1>3, <1>4 DEF UnitsInv

LEMMA UnitsStep ==
    ASSUME UnitsInv, [Next]_vars
    PROVE  UnitsInv' /\ Shaped
  <1>1. CASE \E p \in Processes : Open(p) \/ Migrate(p) \/ Crash(p)
    BY <1>1, OpenStep, MigrateStep, CrashStep
  <1>2. CASE \E t \in Threads : Unit(t)
    <2>. PICK t \in Threads : Unit(t)
      BY <1>2
    <2>1. CASE \E mode \in Modes[t] : Enter(t, mode)
      BY <2>1, EnterStep
    <2>2. CASE BusyTimeout(t)
      BY <2>2, OutsideStep, ThreadAssumption DEF BusyTimeout, UnitsInv, UnitsTyped
    <2>3. CASE Nest(t) \/ Unnest(t)
      BY <2>3, NestStep, UnnestStep
    <2>4. CASE \E op \in Considered : Write(t, op) \/ Reject(t, op) \/ WriteInMemory(t, op)
      BY <2>4, WriteStep, RejectStep, WriteInMemoryStep
    <2>5. CASE Commit(t) \/ CommitFails(t) \/ Raise(t)
      BY <2>5, CommitStep, CommitFailsStep, RaiseStep
    <2>. QED  BY <2>1, <2>2, <2>3, <2>4, <2>5 DEF Unit
  <1>3. CASE StartReading \/ NextPage \/ StopReading
    BY <1>3, OutsideStep DEF StartReading, NextPage, StopReading, UnitsInv, UnitsTyped
  <1>4. CASE UNCHANGED vars
    BY <1>4, OutsideStep DEF vars, UnitsInv, UnitsTyped
  <1>. QED  BY <1>1, <1>2, <1>3, <1>4 DEF Next

\* The lock, the depth and the open unit of a process tell the same story, and
\* the database file has one writer, with any number of processes and threads,
\* through nested transactions, exceptions, failed commits and crashes
\* (sqlite.py, _unit and transaction; in_memory.py, transaction).
THEOREM UnitsAgree == Spec => [](UnitsTyped /\ LocksAgree)
  <1>1. Init => UnitsInv
    BY UnitsInitially
  <1>2. UnitsInv /\ [Next]_vars => UnitsInv'
    BY UnitsStep
  <1>3. UnitsInv => UnitsTyped /\ LocksAgree
    BY DEF UnitsInv
  <1>. QED  BY <1>1, <1>2, <1>3, PTL DEF Spec

-----------------------------------------------------------------------------
(* The refinement                                                           *)

LEMMA AcceptedIsOperation ==
    ASSUME NEW d \in Contents, NEW op \in Operations, FreshIn(d, op), Accepts(d, op)
    PROVE  Port!Operation(d, Performed(d, op))
  <1>1. CASE op.kind = "scope"
    <2>1. op.scope \in ScopeIds /\ op.parent \in ScopeIds \cup {NoParent}
      BY <1>1 DEF Operations
    <2>2. Performed(d, op) = Port!ScopeCreated(d, op.scope, op.parent)
      BY <1>1 DEF Performed, ScopeCreated, With, Port!ScopeCreated, Port!With
    <2>. QED  BY <2>1, <2>2 DEF Port!Operation
  <1>2. CASE op.kind = "close"
    <2>1. op.scope \in ScopeIds /\ Port!HasScope(d, op.scope)
      BY <1>2, ContentsFields DEF Accepts, HasScope, Port!HasScope
    <2>2. Performed(d, op) = Port!ScopeClosed(d, op.scope)
      BY <1>2 DEF Performed, ScopeClosed, Port!ScopeClosed
    <2>. QED  BY <2>1, <2>2 DEF Port!Operation
  <1>3. CASE op.kind = "insert"
    <2>1. op.record \in RecordIds /\ op.scope \in ScopeIds /\ op.created \in Instants
      BY <1>3 DEF Operations
    <2>2. ~Port!Has(d, op.record)
      BY <1>3 DEF FreshIn, Has, Port!Has
    <2>3. Performed(d, op) = Port!RecordInserted(d, op.record, op.scope, op.created)
      BY <1>3 DEF Performed, RecordInserted, With, Port!RecordInserted, Port!With
    <2>. QED  BY <2>1, <2>2, <2>3 DEF Port!Operation
  <1>4. CASE op.kind = "update"
    <2>1. op.record \in RecordIds /\ op.scope \in ScopeIds
      BY <1>4 DEF Operations
    <2>2. Port!Has(d, op.record)
      BY <1>4 DEF Accepts, RevisionHolds, Has, Port!Has
    <2>3. Performed(d, op) = Port!RecordUpdated(d, op.record, op.scope)
      BY <1>4 DEF Performed, RecordUpdated, Port!RecordUpdated
    <2>. QED  BY <2>1, <2>2, <2>3 DEF Port!Operation
  <1>5. CASE op.kind = "relate"
    <2>1. op.record \in RecordIds /\ op.target \in RecordIds
      BY <1>5 DEF Operations
    <2>2. Port!Has(d, op.record) /\ Port!Has(d, op.target)
      BY <1>5 DEF Accepts, Has, Port!Has
    <2>3. Performed(d, op) = Port!RelationCreated(d, op.record, op.target)
      BY <1>5 DEF Performed, RelationCreated, Port!RelationCreated
    <2>. QED  BY <2>1, <2>2, <2>3 DEF Port!Operation
  <1>. QED  BY Kinds, <1>1, <1>2, <1>3, <1>4, <1>5

LEMMA PortInitially ==
    ASSUME Init
    PROVE  Port!Init
  <1>1. Committed = Nothing /\ Work = [p \in Processes |-> Free]
    BY UnitsInitially
  <1>. QED  BY <1>1 DEF Port!Init, Port!Nothing, Nothing, Work

\* Every shape of a step is a step of the port, or leaves it alone.
LEMMA PortStep ==
    ASSUME UnitsInv, UnitsInv', Shaped
    PROVE  Port!Next \/ (Committed' = Committed /\ Work' = Work)
  <1>1. /\ Committed \in Contents
        /\ \A p \in Processes : saved[p] # Free => Working(p) \in Contents
        /\ \A p \in Processes : Work[p] = Free <=> saved[p] = Free
        /\ \A p \in Processes : saved[p] # Free => Work[p] = Working(p)
    BY WorkFacts DEF UnitsInv
  <1>2. NoneOpen => Port!Idle
    BY <1>1 DEF NoneOpen, Port!Idle, Work
  <1>3. ASSUME NEW p \in Processes, Begins(p)  PROVE Port!Begin(p)
    BY <1>2, <1>3 DEF Begins, Port!Begin, Work
  <1>4. ASSUME NEW p \in Processes, Commits(p)  PROVE Port!Commit(p)
    BY <1>1, <1>4 DEF Commits, Port!Commit, Work
  <1>5. ASSUME NEW p \in Processes, Aborts(p)  PROVE Port!Abort(p)
    BY <1>1, <1>5 DEF Aborts, Port!Abort, Work
  <1>6. ASSUME NEW p \in Processes, NEW op \in Operations, Does(p, op)  PROVE Port!Do(p)
    <2>1. Work[p] # Free /\ Work[p] \in Contents
      BY <1>1, <1>6 DEF Does
    <2>2. Port!Operation(Work[p], Performed(Work[p], op))
      BY <1>6, <2>1, AcceptedIsOperation DEF Does
    <2>3. Work'[p] = Performed(Work[p], op) /\ Work' = [Work EXCEPT ![p] = Work'[p]]
          /\ Committed' = Committed
      BY <1>6 DEF Does, Work
    <2>. HIDE DEF Port!Operation
    <2>4. Port!Operation(Work[p], Work'[p])
      BY <2>2, <2>3
    <2>. QED  BY <2>1, <2>3, <2>4 DEF Port!Do, Work
  <1>7. ASSUME NEW op \in Operations, AtOnce(op)  PROVE Port!Once
    <2>1. Port!Operation(Committed, Performed(Committed, op))
      BY <1>1, <1>7, AcceptedIsOperation DEF AtOnce
    <2>2. Port!Operation(Committed, Committed')
      BY <1>7, <2>1 DEF AtOnce
    <2>. QED  BY <1>2, <1>7, <2>2 DEF AtOnce, Port!Once, Work
  <1>. QED  BY <1>3, <1>4, <1>5, <1>6, <1>7 DEF Shaped, Stutters, Port!Next

\* store.py, sqlite.py and in_memory.py: with any number of processes and
\* threads, either backend changes what everybody sees by whole units of work,
\* one at a time; an exception, a failed COMMIT or a crash leaves nothing of its
\* unit behind.
THEOREM StoreImplementsPort == Spec => ImplementsPort
  <1>1. Init => UnitsInv /\ Port!Init
    BY UnitsInitially, PortInitially
  <1>2. UnitsInv /\ [Next]_vars => UnitsInv' /\ [Port!Next]_<<Committed, Work>>
    BY UnitsStep, PortStep
  <1>3. UnitsInv /\ [Next]_vars =>
          UnitsInv' /\ [Port!Next]_<<Committed, [p \in Processes |-> Opened(p)]>>
    BY <1>2 DEF Work
  <1>. QED  BY <1>1, <1>3, PTL DEF Spec, ImplementsPort, Port!Spec

-----------------------------------------------------------------------------
(* References                                                               *)

LEMMA AcceptedResolves ==
    ASSUME NEW d \in Contents, NEW op \in Operations, Accepts(d, op), Resolved(d)
    PROVE  Resolved(Performed(d, op))
  <1>. DEFINE e == Performed(d, op)
  <1>. SUFFICES Resolved(e)
    OBVIOUS
  <1>1. CASE op.kind = "scope"
    <2>1. /\ e.records = d.records /\ e.relations = d.relations
          /\ DOMAIN e.scopes = DOMAIN d.scopes \cup {op.scope}
          /\ e.scopes[op.scope].parent = op.parent
          /\ \A s \in DOMAIN d.scopes \ {op.scope} : e.scopes[s] = d.scopes[s]
      BY <1>1, ScopePerformed
    <2>2. Sqlite /\ op.parent # NoParent => HasScope(d, op.parent)
      BY <1>1 DEF Accepts, KnowsScope
    <2>. HIDE DEF e
    <2>. QED  BY <2>1, <2>2 DEF Resolved, Has, HasScope
  <1>2. CASE op.kind = "close"
    <2>1. /\ e.records = d.records /\ e.relations = d.relations
          /\ DOMAIN e.scopes = DOMAIN d.scopes
          /\ \A s \in DOMAIN d.scopes : e.scopes[s].parent = d.scopes[s].parent
      BY <1>2, ClosePerformed
    <2>. HIDE DEF e
    <2>. QED  BY <2>1 DEF Resolved, Has, HasScope
  <1>3. CASE op.kind = "insert"
    <2>1. /\ e.scopes = d.scopes /\ e.relations = d.relations
          /\ DOMAIN e.records = DOMAIN d.records \cup {op.record}
          /\ e.records[op.record].scope = op.scope
          /\ \A r \in DOMAIN d.records \ {op.record} : e.records[r] = d.records[r]
      BY <1>3, InsertPerformed
    <2>2. Sqlite => HasScope(d, op.scope)
      BY <1>3 DEF Accepts, KnowsScope
    <2>. HIDE DEF e
    <2>. QED  BY <2>1, <2>2 DEF Resolved, Has, HasScope
  <1>4. CASE op.kind = "update"
    <2>1. /\ e.scopes = d.scopes /\ e.relations = d.relations
          /\ DOMAIN e.records = DOMAIN d.records
          /\ e.records[op.record].scope = op.scope
          /\ \A r \in DOMAIN d.records \ {op.record} : e.records[r] = d.records[r]
      BY <1>4, UpdatePerformed
    <2>2. Sqlite => HasScope(d, op.scope)
      BY <1>4 DEF Accepts, KnowsScope
    <2>. HIDE DEF e
    <2>. QED  BY <2>1, <2>2 DEF Resolved, Has, HasScope
  <1>5. CASE op.kind = "relate"
    <2>1. /\ e.scopes = d.scopes /\ e.records = d.records
          /\ e.relations = d.relations \cup {<<op.record, op.target>>}
      BY <1>5, RelatePerformed
    <2>2. Has(d, op.record) /\ Has(d, op.target)
      BY <1>5 DEF Accepts
    <2>. HIDE DEF e
    <2>. QED  BY <2>1, <2>2 DEF Resolved, Has, HasScope
  <1>. QED  BY Kinds, <1>1, <1>2, <1>3, <1>4, <1>5

\* Both what everybody sees and what a unit has made of it resolve.
AllResolve ==
    /\ Resolved(Committed)
    /\ \A p \in Processes : saved[p] # Free => Resolved(Work[p])

\* WorkFacts of the next state.
LEMMA WorkFactsNext ==
    ASSUME UnitsInv'
    PROVE  \A p \in Processes : Work'[p] = Free <=> saved'[p] = Free
  <1>1. Free \notin Contents
    BY ThreadAssumption
  <1>2. rows' \in Contents /\ saved' \in [Processes -> Contents \cup {Free}]
    BY DEF UnitsInv, UnitsTyped
  <1>. QED  BY <1>1, <1>2 DEF Work, Opened, Working

LEMMA ResolveStep ==
    ASSUME UnitsInv, UnitsInv', AllResolve, Shaped
    PROVE  AllResolve'
  <1>1. /\ Committed \in Contents
        /\ \A p \in Processes : saved[p] # Free => Work[p] \in Contents
        /\ \A p \in Processes : Work[p] = Free <=> saved[p] = Free
        /\ \A p \in Processes : Work'[p] = Free <=> saved'[p] = Free
        /\ DOMAIN Work = Processes
    BY WorkFacts, WorkFactsNext DEF UnitsInv, Work
  <1>2. \A d : Resolved(d) => Resolved(d)'
    <2>1. backend' = backend
      BY DEF Shaped
    <2>. QED  BY <2>1 DEF Resolved, Sqlite, Has, HasScope
  <1>. QED  BY <1>1, <1>2, AcceptedResolves DEF AllResolve, Shaped, Begins, Does, Commits, Aborts, AtOnce, Stutters

\* No contents a reader or a unit can see hold a relation one of whose records
\* is missing, nor, in SQLite, a record or a scope whose scope is missing:
\* the foreign keys and the checks under the lock hold across every rollback.
THEOREM ReferencesAlwaysHold == Spec => []ReferencesHold
  <1>1. Init => UnitsInv /\ AllResolve
    <2>. SUFFICES ASSUME Init  PROVE UnitsInv /\ AllResolve
      OBVIOUS
    <2>1. UnitsInv /\ Committed = Nothing /\ \A p \in Processes : saved[p] = Free
      BY UnitsInitially DEF Init
    <2>. QED  BY <2>1, NothingFacts DEF AllResolve, Resolved
  <1>2. UnitsInv /\ AllResolve /\ [Next]_vars => (UnitsInv /\ AllResolve)'
    BY UnitsStep, ResolveStep
  <1>3. UnitsInv /\ AllResolve => ReferencesHold
    <2>. SUFFICES ASSUME UnitsInv, AllResolve,
                         NEW d \in ({rows} \cup {saved[p] : p \in Processes}) \ {Free}
                  PROVE  Resolved(d)
      BY DEF ReferencesHold
    <2>1. UnitsTyped /\ HostOnly /\ Host \in Processes
      BY ThreadAssumption DEF UnitsInv
    <2>2. \A p \in Processes : saved[p] # Free => Resolved(Working(p))
      BY <2>1, WorkFacts DEF AllResolve
    <2>3. CASE d = rows
      BY <2>1, <2>2, <2>3 DEF AllResolve, Committed, Working
    <2>4. CASE \E p \in Processes : d = saved[p]
      BY <2>1, <2>2, <2>4 DEF AllResolve, Committed, Working, HostOnly
    <2>. QED  BY <2>3, <2>4
  <1>. QED  BY <1>1, <1>2, <1>3, PTL DEF Spec

-----------------------------------------------------------------------------
(* Revisions                                                                *)

\* The updates the revisions of d stand for.
Ladder(d) ==
    {g \in RecordIds \X (1 .. MaxRevision) :
       g[1] \in DOMAIN d.records /\ g[2] < d.records[g[1]].revision}

\* What is granted is what the committed revisions stand for, and a unit's own
\* updates are what it has raised them by.
GrantsExact ==
    /\ granted = Ladder(Committed)
    /\ \A p \in Processes : saved[p] # Free => granted \cup pending = Ladder(Work[p])

LEMMA LadderPerformed ==
    ASSUME NEW d \in Contents, NEW op \in Operations, FreshIn(d, op), Accepts(d, op)
    PROVE  Ladder(Performed(d, op)) = Ladder(d) \cup Won(op)
  <1>. DEFINE e == Performed(d, op)
  <1>. SUFFICES Ladder(e) = Ladder(d) \cup Won(op)
    OBVIOUS
  <1>0. d.records \in [DOMAIN d.records -> Record] /\ MaxRevision \in Nat \ {0}
    BY ContentsFields, ModelAssumption
  <1>1. CASE op.kind \in {"scope", "close", "relate"}
    <2>1. e.records = d.records
      BY <1>1, ScopePerformed, ClosePerformed, RelatePerformed
    <2>. HIDE DEF e
    <2>. QED  BY <1>1, <2>1 DEF Ladder, Won
  <1>2. CASE op.kind = "insert"
    <2>1. /\ DOMAIN e.records = DOMAIN d.records \cup {op.record}
          /\ e.records[op.record].revision = 1
          /\ \A r \in DOMAIN d.records \ {op.record} : e.records[r] = d.records[r]
      BY <1>2, InsertPerformed
    <2>2. op.record \notin DOMAIN d.records /\ Won(op) = {}
      BY <1>2 DEF FreshIn, Has, Won
    <2>. HIDE DEF e
    <2>. QED  BY <1>0, <2>1, <2>2 DEF Ladder
  <1>3. CASE op.kind = "update"
    <2>1. /\ DOMAIN e.records = DOMAIN d.records /\ op.record \in DOMAIN d.records
          /\ e.records[op.record].revision = op.expected + 1
          /\ \A r \in DOMAIN d.records \ {op.record} : e.records[r] = d.records[r]
      BY <1>3, UpdatePerformed
    <2>2. /\ d.records[op.record].revision = op.expected /\ op.record \in RecordIds
          /\ op.expected \in 1 .. MaxRevision - 1 /\ Won(op) = {<<op.record, op.expected>>}
      BY <1>3 DEF Accepts, RevisionHolds, Won, Operations
    <2>. HIDE DEF e
    <2>3. ASSUME NEW r \in RecordIds, NEW n \in 1 .. MaxRevision
          PROVE  (r \in DOMAIN e.records /\ n < e.records[r].revision)
                   <=> (r \in DOMAIN d.records /\ n < d.records[r].revision)
                         \/ (r = op.record /\ n = op.expected)
      BY <1>0, <2>1, <2>2
    <2>4. Ladder(e) \subseteq Ladder(d) \cup Won(op)
      BY <2>2, <2>3 DEF Ladder
    <2>5. Ladder(d) \subseteq Ladder(e)
      BY <2>3 DEF Ladder
    <2>6. Won(op) \subseteq Ladder(e)
      BY <1>0, <2>1, <2>2 DEF Ladder
    <2>. QED  BY <2>4, <2>5, <2>6
  <1>. QED  BY Kinds, <1>1, <1>2, <1>3

LEMMA GrantsStep ==
    ASSUME UnitsInv, UnitsInv', GrantsExact, Shaped
    PROVE  GrantsExact'
  <1>1. /\ Committed \in Contents
        /\ \A p \in Processes : saved[p] # Free => Work[p] \in Contents
        /\ \A p \in Processes : Work[p] = Free <=> saved[p] = Free
        /\ \A p \in Processes : Work'[p] = Free <=> saved'[p] = Free
        /\ DOMAIN Work = Processes
        /\ \A p, q \in Processes : saved[p] # Free /\ saved[q] # Free => p = q
    BY WorkFacts, WorkFactsNext DEF UnitsInv, Work, LocksAgree
  <1>2. ASSUME NEW p \in Processes, Begins(p)  PROVE GrantsExact'
    <2>1. pending = {} /\ pending' = {}
      BY <1>2 DEF Begins, UnitsInv, PendingInUnit
    <2>2. \A q \in Processes : saved'[q] # Free => Work'[q] = Committed
      BY <1>1, <1>2 DEF Begins, NoneOpen
    <2>. QED  BY <1>2, <2>1, <2>2 DEF Begins, GrantsExact, Ladder
  <1>3. ASSUME NEW p \in Processes, Commits(p)  PROVE GrantsExact'
    <2>1. \A q \in Processes : saved'[q] = Free
      BY <1>1, <1>3 DEF Commits
    <2>. QED  BY <1>3, <2>1 DEF Commits, GrantsExact, Ladder
  <1>4. ASSUME NEW p \in Processes, Aborts(p)  PROVE GrantsExact'
    <2>1. \A q \in Processes : saved'[q] = Free
      BY <1>1, <1>4 DEF Aborts
    <2>. QED  BY <1>4, <2>1 DEF Aborts, GrantsExact, Ladder
  <1>5. ASSUME NEW p \in Processes, NEW op \in Operations, Does(p, op)  PROVE GrantsExact'
    <2>1. Ladder(Performed(Work[p], op)) = Ladder(Work[p]) \cup Won(op)
      BY <1>1, <1>5, LadderPerformed DEF Does
    <2>2. \A q \in Processes : saved'[q] # Free => q = p
      BY <1>1, <1>5 DEF Does
    <2>3. Work'[p] = Performed(Work[p], op) /\ granted' = granted /\ Committed' = Committed
          /\ pending' = pending \cup Won(op) /\ granted \cup pending = Ladder(Work[p])
      BY <1>1, <1>5 DEF Does, GrantsExact
    <2>4. granted' \cup pending' = Ladder(Work'[p])
      BY <2>1, <2>3
    <2>5. Ladder(Committed)' = Ladder(Committed) /\ Ladder(Work[p])' = Ladder(Work'[p])
      BY <2>3 DEF Ladder
    <2>. QED  BY <2>2, <2>3, <2>4, <2>5 DEF GrantsExact
  <1>6. ASSUME NEW op \in Operations, AtOnce(op)  PROVE GrantsExact'
    <2>1. Ladder(Performed(Committed, op)) = Ladder(Committed) \cup Won(op)
      BY <1>1, <1>6, LadderPerformed DEF AtOnce
    <2>2. \A q \in Processes : saved'[q] = Free
      BY <1>1, <1>6 DEF AtOnce, NoneOpen
    <2>3. Ladder(Committed)' = Ladder(Performed(Committed, op))
      BY <1>6 DEF AtOnce, Ladder
    <2>. QED  BY <1>6, <2>1, <2>2, <2>3 DEF AtOnce, GrantsExact
  <1>7. CASE Stutters
    BY <1>1, <1>7 DEF Stutters, GrantsExact, Ladder
  <1>. QED  BY <1>2, <1>3, <1>4, <1>5, <1>6, <1>7 DEF Shaped

\* A set of pairs with one first component has as many members as its rungs.
LEMMA LadderCardinality ==
    ASSUME NEW d \in Contents, NEW r \in DOMAIN d.records
    PROVE  d.records[r].revision = 1 + Cardinality({g \in Ladder(d) : g[1] = r})
  <1>. DEFINE n == d.records[r].revision
              G == {g \in Ladder(d) : g[1] = r}
              rung == [k \in 1 .. n - 1 |-> <<r, k>>]
  <1>1. r \in RecordIds /\ n \in 1 .. MaxRevision /\ MaxRevision \in Nat
    BY ContentsFields, ModelAssumption DEF Record
  <1>2. G = {<<r, k>> : k \in 1 .. n - 1}
    BY <1>1 DEF Ladder
  <1>3. rung \in Bijection(1 .. n - 1, G)
    <2>. HIDE DEF n, G
    <2>1. rung \in [1 .. n - 1 -> G]
      BY <1>2
    <2>2. \A j, k \in 1 .. n - 1 : rung[j] = rung[k] => j = k
      OBVIOUS
    <2>3. \A g \in G : \E k \in 1 .. n - 1 : rung[k] = g
      BY <1>2
    <2>. QED  BY <2>1, <2>2, <2>3 DEF Bijection, Injection, Surjection, IsInjective
  <1>4. ExistsBijection(1 .. n - 1, G)
    BY <1>3 DEF ExistsBijection
  <1>5. IsFiniteSet(1 .. n - 1) /\ Cardinality(1 .. n - 1) = n - 1
    BY <1>1, FS_Interval
  <1>6. Cardinality(G) = n - 1
    BY <1>4, <1>5, FS_Bijection
  <1>. QED  BY <1>1, <1>6

\* models.py, expected_revision: a committed record has one revision more than
\* committed updates, whoever raced for it and whatever was rolled back.
THEOREM NoUpdateLost == Spec => []RevisionCountsUpdates
  <1>1. Init => UnitsInv /\ GrantsExact
    <2>. SUFFICES ASSUME Init  PROVE UnitsInv /\ GrantsExact
      OBVIOUS
    <2>1. /\ UnitsInv /\ Committed = Nothing /\ granted = {}
          /\ \A p \in Processes : saved[p] = Free
      BY UnitsInitially DEF Init
    <2>. QED  BY <2>1, NothingFacts DEF GrantsExact, Ladder
  <1>2. UnitsInv /\ GrantsExact /\ [Next]_vars => (UnitsInv /\ GrantsExact)'
    BY UnitsStep, GrantsStep
  <1>3. UnitsInv /\ GrantsExact => RevisionCountsUpdates
    <2>. SUFFICES ASSUME UnitsInv, GrantsExact, NEW r \in DOMAIN Committed.records
                  PROVE  Committed.records[r].revision
                           = 1 + Cardinality({g \in granted : g[1] = r})
      BY DEF RevisionCountsUpdates
    <2>1. Committed \in Contents
      BY WorkFacts DEF UnitsInv
    <2>. QED  BY <2>1, LadderCardinality DEF GrantsExact
  <1>. QED  BY <1>1, <1>2, <1>3, PTL DEF Spec

-----------------------------------------------------------------------------
(* Paging                                                                   *)

\* Records stay, at the place of the order they were inserted at.
Grows(d, e) ==
    \A r \in DOMAIN d.records :
      r \in DOMAIN e.records /\ e.records[r].created = d.records[r].created

WorkGrows == \A p \in Processes : saved[p] # Free => Grows(Committed, Work[p])

LEMMA PerformedGrows ==
    ASSUME NEW d \in Contents, NEW op \in Operations, FreshIn(d, op), Accepts(d, op)
    PROVE  Grows(d, Performed(d, op))
  <1>. DEFINE e == Performed(d, op)
  <1>. SUFFICES Grows(d, e)
    OBVIOUS
  <1>1. CASE op.kind \in {"scope", "close", "relate"}
    <2>1. e.records = d.records
      BY <1>1, ScopePerformed, ClosePerformed, RelatePerformed
    <2>. HIDE DEF e
    <2>. QED  BY <2>1 DEF Grows
  <1>2. CASE op.kind = "insert"
    <2>1. /\ DOMAIN e.records = DOMAIN d.records \cup {op.record}
          /\ \A r \in DOMAIN d.records \ {op.record} : e.records[r] = d.records[r]
          /\ op.record \notin DOMAIN d.records
      BY <1>2, InsertPerformed DEF FreshIn, Has
    <2>. HIDE DEF e
    <2>. QED  BY <2>1 DEF Grows
  <1>3. CASE op.kind = "update"
    <2>1. /\ DOMAIN e.records = DOMAIN d.records /\ op.record \in DOMAIN d.records
          /\ e.records[op.record].created = d.records[op.record].created
          /\ \A r \in DOMAIN d.records \ {op.record} : e.records[r] = d.records[r]
      BY <1>3, UpdatePerformed
    <2>. HIDE DEF e
    <2>. QED  BY <2>1 DEF Grows
  <1>. QED  BY Kinds, <1>1, <1>2, <1>3

LEMMA GrowsStep ==
    ASSUME UnitsInv, UnitsInv', WorkGrows, Shaped
    PROVE  WorkGrows' /\ Grows(Committed, Committed')
  <1>1. /\ Committed \in Contents
        /\ \A p \in Processes : saved[p] # Free => Work[p] \in Contents
        /\ \A p \in Processes : Work[p] = Free <=> saved[p] = Free
        /\ \A p \in Processes : Work'[p] = Free <=> saved'[p] = Free
        /\ DOMAIN Work = Processes
        /\ \A p, q \in Processes : saved[p] # Free /\ saved[q] # Free => p = q
    BY WorkFacts, WorkFactsNext DEF UnitsInv, Work, LocksAgree
  <1>2. \A d : Grows(d, d)
    BY DEF Grows
  <1>3. \A d, e, f : Grows(d, e) /\ Grows(e, f) => Grows(d, f)
    BY DEF Grows
  <1>4. WorkGrows' <=> \A p \in Processes : saved'[p] # Free => Grows(Committed', Work'[p])
    BY DEF WorkGrows, Grows
  <1>5. ASSUME NEW p \in Processes, Begins(p)
        PROVE  WorkGrows' /\ Grows(Committed, Committed')
    <2>1. \A q \in Processes : saved'[q] # Free => Work'[q] = Committed
      BY <1>1, <1>5 DEF Begins, NoneOpen
    <2>2. Committed' = Committed
      BY <1>5 DEF Begins
    <2>. QED  BY <1>2, <1>4, <2>1, <2>2
  <1>6. ASSUME NEW p \in Processes, Commits(p)
        PROVE  WorkGrows' /\ Grows(Committed, Committed')
    <2>1. \A q \in Processes : saved'[q] = Free
      BY <1>1, <1>6 DEF Commits
    <2>2. Committed' = Work[p] /\ saved[p] # Free
      BY <1>6 DEF Commits
    <2>3. Grows(Committed, Work[p])
      BY <2>2 DEF WorkGrows
    <2>. QED  BY <1>4, <2>1, <2>2, <2>3
  <1>7. ASSUME NEW p \in Processes, Aborts(p)
        PROVE  WorkGrows' /\ Grows(Committed, Committed')
    <2>1. \A q \in Processes : saved'[q] = Free
      BY <1>1, <1>7 DEF Aborts
    <2>2. Committed' = Committed
      BY <1>7 DEF Aborts
    <2>. QED  BY <1>2, <1>4, <2>1, <2>2
  <1>8. ASSUME NEW p \in Processes, NEW op \in Operations, Does(p, op)
        PROVE  WorkGrows' /\ Grows(Committed, Committed')
    <2>1. \A q \in Processes : saved'[q] # Free => q = p
      BY <1>1, <1>8 DEF Does
    <2>2. Work'[p] = Performed(Work[p], op) /\ Committed' = Committed /\ saved[p] # Free
      BY <1>1, <1>8 DEF Does
    <2>3. Grows(Work[p], Performed(Work[p], op))
      BY <1>1, <1>8, PerformedGrows DEF Does
    <2>4. Grows(Committed, Work[p])
      BY <2>2 DEF WorkGrows
    <2>. QED  BY <1>2, <1>3, <1>4, <2>1, <2>2, <2>3, <2>4
  <1>9. ASSUME NEW op \in Operations, AtOnce(op)
        PROVE  WorkGrows' /\ Grows(Committed, Committed')
    <2>1. \A q \in Processes : saved'[q] = Free
      BY <1>1, <1>9 DEF AtOnce, NoneOpen
    <2>2. Committed' = Performed(Committed, op) /\ Grows(Committed, Performed(Committed, op))
      BY <1>1, <1>9, PerformedGrows DEF AtOnce
    <2>. QED  BY <1>4, <2>1, <2>2
  <1>10. CASE Stutters
    <2>1. Committed' = Committed /\ Work' = Work
      BY <1>10 DEF Stutters
    <2>2. \A q \in Processes : saved'[q] # Free => saved[q] # Free
      BY <1>1, <2>1
    <2>. QED  BY <1>2, <1>4, <2>1, <2>2 DEF WorkGrows
  <1>. QED  BY <1>5, <1>6, <1>7, <1>8, <1>9, <1>10 DEF Shaped

\* How far the reader g has come in d: what it has seen is what is not after
\* its cursor, but for records that came later at an earlier place.
Followed(d, g) ==
    /\ g \in Reading
    /\ \A i, j \in DOMAIN g.seen : g.seen[i] = g.seen[j] => i = j
    /\ g.asked \subseteq DOMAIN d.records /\ ToSet(g.seen) \subseteq DOMAIN d.records
    /\ g.next = Start => g.asked \subseteq ToSet(g.seen)
    /\ g.next # Start =>
         /\ \A r \in ToSet(g.seen) : ~KeyBefore(g.next, Key(d, r))
         /\ \A r \in g.asked \ ToSet(g.seen) : KeyBefore(g.next, Key(d, r))

LEMMA FollowedGrows ==
    ASSUME NEW d, NEW e, Grows(d, e), NEW g, Followed(d, g)
    PROVE  Followed(e, g)
  <1>1. \A r \in DOMAIN d.records : r \in DOMAIN e.records /\ Key(e, r) = Key(d, r)
    BY DEF Grows, Key
  <1>. QED  BY <1>1 DEF Followed

LEMMA FollowedFirst ==
    ASSUME NEW d \in Contents
    PROVE  LET page == Page(d, ScopeIds, Start, PageLimit)
           IN  Followed(d, [asked |-> DOMAIN d.records, seen |-> page.items, next |-> page.next])
  <1>. DEFINE page == Page(d, ScopeIds, Start, PageLimit)
              g == [asked |-> DOMAIN d.records, seen |-> page.items, next |-> page.next]
              R == DOMAIN d.records
  <1>1. {r \in Matching(d, ScopeIds) : IsAfter(d, r, Start)} = R
    BY KeyType DEF Matching, IsAfter, Record
  <1>2. HoldsStart(d, R, page)
    BY <1>1, PageHolds, ThreadAssumption
  <1>3. R \subseteq RecordIds /\ \A r \in R : Key(d, r) \in Instants \X RecordIds
    BY KeyType
  <1>4. g.asked = R /\ g.seen = page.items /\ g.next = page.next
    OBVIOUS
  <1>5. g \in Reading
    <2>1. page.items \in Seq(RecordIds) /\ page.next \in {Start} \cup (Instants \X RecordIds)
      BY <1>2, <1>3 DEF HoldsStart
    <2>. HIDE DEF page
    <2>. QED  BY <1>3, <2>1 DEF Reading
  <1>. HIDE DEF page, g
  <1>6. ASSUME g.next # Start
        PROVE  /\ \A r \in ToSet(g.seen) : ~KeyBefore(g.next, Key(d, r))
               /\ \A r \in g.asked \ ToSet(g.seen) : KeyBefore(g.next, Key(d, r))
    <2>1. PICK last \in ToSet(page.items) :
             /\ page.next = Key(d, last)
             /\ \A r \in ToSet(page.items) : r = last \/ Before(d, r, last)
             /\ \A r \in R \ ToSet(page.items) : Before(d, last, r)
      BY <1>2, <1>4, <1>6 DEF HoldsStart
    <2>2. ToSet(page.items) \subseteq R
      BY <1>2 DEF HoldsStart
    <2>3. \A r \in ToSet(page.items) : ~Before(d, last, r)
      BY <2>1, <2>2, BeforeOrder
    <2>. QED  BY <1>4, <2>1, <2>3 DEF Before
  <1>7. /\ \A i, j \in DOMAIN g.seen : g.seen[i] = g.seen[j] => i = j
        /\ ToSet(g.seen) \subseteq R /\ (g.next = Start => ToSet(g.seen) = R)
    BY <1>2, <1>4 DEF HoldsStart
  <1>8. Followed(d, g)
    BY <1>4, <1>5, <1>6, <1>7 DEF Followed
  <1>. QED  BY <1>8 DEF g, page


LEMMA FollowedNext ==
    ASSUME NEW d \in Contents, NEW g, Followed(d, g), g.next # Start
    PROVE  LET page == Page(d, ScopeIds, g.next, PageLimit)
           IN  Followed(d, [g EXCEPT !.seen = @ \o page.items, !.next = page.next])
  <1>. DEFINE page == Page(d, ScopeIds, g.next, PageLimit)
              h == [g EXCEPT !.seen = @ \o page.items, !.next = page.next]
              R == {r \in DOMAIN d.records : KeyBefore(g.next, Key(d, r))}
              items == page.items
  <1>1. {r \in Matching(d, ScopeIds) : IsAfter(d, r, g.next)} = R
    BY KeyType DEF Matching, IsAfter, Record
  <1>2. HoldsStart(d, R, page)
    BY <1>1, PageHolds, ThreadAssumption
  <1>3. R \subseteq RecordIds /\ \A r \in DOMAIN d.records : Key(d, r) \in Instants \X RecordIds
    BY KeyType
  <1>4. g \in Reading /\ g.next \in Instants \X RecordIds
    BY DEF Followed, Reading
  <1>. HIDE DEF page, R
  <1>5. /\ items \in Seq(RecordIds) /\ page.next \in {Start} \cup (Instants \X RecordIds)
        /\ ToSet(items) \subseteq R
    <2>1. R \subseteq DOMAIN d.records
      BY DEF R
    <2>. QED  BY <1>2, <1>3, <2>1 DEF HoldsStart
  <1>6. /\ g.seen \in Seq(RecordIds) /\ ToSet(g.seen) \cap ToSet(items) = {}
        /\ \A i, j \in DOMAIN items : items[i] = items[j] => i = j
        /\ \A i, j \in DOMAIN g.seen : g.seen[i] = g.seen[j] => i = j
    BY <1>2, <1>4, <1>5 DEF Followed, Reading, R, HoldsStart
  <1>. HIDE DEF items
  <1>7. /\ g.seen \o items \in Seq(RecordIds)
        /\ ToSet(g.seen \o items) = ToSet(g.seen) \cup ToSet(items)
        /\ \A i, j \in DOMAIN (g.seen \o items) :
             (g.seen \o items)[i] = (g.seen \o items)[j] => i = j
    BY <1>5, <1>6, Joined DEF Distinct
  <1>8. h.asked = g.asked /\ h.seen = g.seen \o items /\ h.next = page.next /\ h \in Reading
    <2>1. g = [asked |-> g.asked, seen |-> g.seen, next |-> g.next]
          /\ g.asked \in SUBSET RecordIds
      BY <1>4 DEF Reading
    <2>2. h = [asked |-> g.asked, seen |-> g.seen \o items, next |-> page.next]
      <3>1. h = [g EXCEPT !.seen = g.seen \o items, !.next = page.next]
        BY DEF items
      <3>. HIDE DEF h
      <3>. QED  BY <2>1, <3>1
    <2>. HIDE DEF h
    <2>. QED  BY <1>5, <1>7, <2>1, <2>2 DEF Reading
  <1>9. g.asked \ ToSet(g.seen) \subseteq R
    BY DEF Followed, R
  <1>10. ASSUME page.next # Start
         PROVE  /\ \A r \in ToSet(h.seen) : ~KeyBefore(page.next, Key(d, r))
                /\ \A r \in h.asked \ ToSet(h.seen) : KeyBefore(page.next, Key(d, r))
    <2>1. PICK last \in ToSet(items) :
             /\ page.next = Key(d, last)
             /\ \A r \in ToSet(items) : r = last \/ Before(d, r, last)
             /\ \A r \in R \ ToSet(items) : Before(d, last, r)
      BY <1>2, <1>10 DEF HoldsStart, items
    <2>2. R \subseteq DOMAIN d.records /\ last \in R /\ KeyBefore(g.next, Key(d, last))
      BY <1>5 DEF R
    <2>3. \A r \in ToSet(items) : ~Before(d, last, r)
      BY <1>5, <2>1, <2>2, BeforeOrder
    <2>4. ASSUME NEW r \in ToSet(g.seen), KeyBefore(page.next, Key(d, r))  PROVE FALSE
      <3>1. r \in DOMAIN d.records /\ ~KeyBefore(g.next, Key(d, r))
        BY DEF Followed
      <3>2. /\ g.next \in Nat \X Nat /\ Key(d, last) \in Nat \X Nat /\ Key(d, r) \in Nat \X Nat
        BY <1>3, <1>4, <2>2, <3>1, ModelAssumption
      <3>3. \A x, y, z \in Nat \X Nat : KeyBefore(x, y) /\ KeyBefore(y, z) => KeyBefore(x, z)
        BY DEF KeyBefore
      <3>. QED  BY <2>1, <2>2, <2>4, <3>1, <3>2, <3>3
    <2>. QED  BY <1>7, <1>8, <1>9, <2>1, <2>3, <2>4 DEF Before
  <1>11. page.next = Start => h.asked \subseteq ToSet(h.seen)
    BY <1>2, <1>7, <1>8, <1>9 DEF HoldsStart, items
  <1>12. h.asked \subseteq DOMAIN d.records /\ ToSet(h.seen) \subseteq DOMAIN d.records
    BY <1>5, <1>7, <1>8 DEF Followed, R
  <1>. HIDE DEF h
  <1>13. Followed(d, h)
    BY <1>7, <1>8, <1>10, <1>11, <1>12 DEF Followed
  <1>. QED  BY <1>13 DEF h, page

PagesInv == UnitsInv /\ WorkGrows /\ (reading # Free => Followed(Committed, reading))

\* The reader's own steps read what everybody sees; all others leave its pages.
LEMMA ReadingStep ==
    ASSUME UnitsInv, [Next]_vars
    PROVE  \/ reading' = reading \/ reading' = Free
           \/ /\ Committed' = Committed
              /\ LET page == Page(Committed, ScopeIds, Start, PageLimit)
                 IN  reading' = [asked |-> DOMAIN Committed.records, seen |-> page.items,
                                 next |-> page.next]
           \/ /\ Committed' = Committed /\ reading # Free /\ reading.next # Start
              /\ LET page == Page(Committed, ScopeIds, reading.next, PageLimit)
                 IN  reading' = [reading EXCEPT !.seen = @ \o page.items, !.next = page.next]
  <1>1. CASE \E p \in Processes : Open(p) \/ Migrate(p) \/ Crash(p)
    BY <1>1 DEF Open, Migrate, Crash
  <1>2. CASE \E t \in Threads : Unit(t)
    BY <1>2 DEF Unit, Enter, BusyTimeout, Nest, Unnest, Write, Reject, WriteInMemory, Commit,
                CommitFails, Raise
  <1>3. Ready(Reader) => rows = Committed
    BY ReadyFacts, ThreadAssumption DEF Committed
  <1>4. CASE StartReading
    <2>1. Committed' = Committed
      BY <1>4, SameContents DEF StartReading, unitVars
    <2>. QED  BY <1>3, <1>4, <2>1 DEF StartReading, ReadPage
  <1>5. CASE NextPage
    <2>1. Committed' = Committed
      BY <1>5, SameContents DEF NextPage, unitVars
    <2>. QED  BY <1>3, <1>5, <2>1 DEF NextPage, ReadPage
  <1>6. CASE StopReading \/ UNCHANGED vars
    BY <1>6 DEF StopReading, vars
  <1>. QED  BY <1>1, <1>2, <1>4, <1>5, <1>6 DEF Next

LEMMA PagesAlways == Spec => []PagesInv
  <1>1. Init => PagesInv
    <2>. SUFFICES ASSUME Init  PROVE PagesInv
      OBVIOUS
    <2>1. UnitsInv /\ \A p \in Processes : saved[p] = Free
      BY UnitsInitially DEF Init
    <2>. QED  BY <2>1 DEF PagesInv, WorkGrows, Init
  <1>2. PagesInv /\ [Next]_vars => PagesInv'
    <2>. SUFFICES ASSUME PagesInv, [Next]_vars  PROVE PagesInv'
      OBVIOUS
    <2>1. UnitsInv /\ UnitsInv' /\ Shaped
      BY UnitsStep DEF PagesInv
    <2>2. WorkGrows' /\ Grows(Committed, Committed')
      BY <2>1, GrowsStep DEF PagesInv
    <2>3. Committed \in Contents
      BY <2>1, WorkFacts DEF UnitsInv
    <2>4. reading' # Free => Followed(Committed', reading')
      <3>. SUFFICES ASSUME reading' # Free  PROVE Followed(Committed', reading')
        OBVIOUS
      <3>1. CASE reading' = reading
        BY <2>2, <3>1, FollowedGrows DEF PagesInv
      <3>2. CASE LET page == Page(Committed, ScopeIds, Start, PageLimit)
                 IN  /\ Committed' = Committed
                     /\ reading' = [asked |-> DOMAIN Committed.records, seen |-> page.items,
                                    next |-> page.next]
        BY <2>3, <3>2, FollowedFirst
      <3>3. CASE LET page == Page(Committed, ScopeIds, reading.next, PageLimit)
                 IN  /\ Committed' = Committed /\ reading # Free /\ reading.next # Start
                     /\ reading' = [reading EXCEPT !.seen = @ \o page.items, !.next = page.next]
        BY <2>3, <3>3, FollowedNext DEF PagesInv
      <3>. QED  BY <2>1, <3>1, <3>2, <3>3, ReadingStep
    <2>5. (reading # Free => Followed(Committed, reading))'
      BY <2>4 DEF Followed, Reading
    <2>. QED  BY <2>1, <2>2, <2>5 DEF PagesInv
  <1>. QED  BY <1>1, <1>2, PTL DEF Spec

\* The types, the locks and the reader's cursor, for any instance.
THEOREM StoreTyped == Spec => []TypeOK
  <1>1. PagesInv => TypeOK
    BY DEF PagesInv, UnitsInv, TypeOK, Followed
  <1>. QED  BY <1>1, PagesAlways, PTL

\* query_records: a reader that follows the cursors to the end has met every
\* record that was there when it began and none twice, whatever other threads
\* and processes insert, update, roll back or lose between its pages.
THEOREM PagesAlwaysExact == Spec => []PagesExact
  <1>1. PagesInv => PagesExact
    BY DEF PagesInv, PagesExact, Followed, IsInjective
  <1>. QED  BY <1>1, PagesAlways, PTL

\* retrieve_bounded: whatever the store holds, it says truncated exactly if it
\* left a matching record out, and what it returns keeps to both caps.
THEOREM TruncationAlwaysTold == Spec => []TruncationTold
  <1>1. UnitsTyped /\ LocksAgree => TruncationTold
    <2>. SUFFICES ASSUME rows \in Contents, NEW s \in ScopeIds,
                         NEW cap \in 0 .. Cardinality(RecordIds), NEW tokens \in {1, 3}
                  PROVE  LET got == RetrieveBounded(rows, {s}, cap, tokens)
                         IN  /\ got.truncated <=> ToSet(got.records) # Matching(rows, {s})
                             /\ Len(got.records) <= cap /\ Tokens(got.records) <= tokens
      BY DEF UnitsTyped, TruncationTold
    <2>1. cap \in Nat /\ tokens \in Nat
      BY ModelAssumption, FS_CardinalityType
    <2>. QED  BY <2>1, RetrievalTold
  <1>. QED  BY <1>1, UnitsAgree, PTL
===============================================================================
