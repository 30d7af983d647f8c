------------------------------ MODULE UnitsOfWork ------------------------------
(***************************************************************************)
(* What the port of store.py promises of every backend: the contents change *)
(* by whole units of work, one at a time.  A unit works on its own copy,    *)
(* which nobody else sees; it takes effect at once and completely, or not   *)
(* at all.  An update raises the revision of a record that exists and keeps  *)
(* the instant of its creation; a relation is only between records that      *)
(* exist.                                                                   *)
(***************************************************************************)
EXTENDS MemoryModels

CONSTANTS Clients, NoUnit

VARIABLES
    db,     \* the contents everybody sees
    work    \* work[c]: the copy of the unit that c has open

TypeOK ==
    /\ db \in Contents
    /\ work \in [Clients -> Contents \cup {NoUnit}]

Init == db = Nothing /\ work = [c \in Clients |-> NoUnit]

Idle == \A c \in Clients : work[c] = NoUnit

\* e is d after one operation.
Operation(d, e) ==
    \/ \E s \in ScopeIds, p \in ScopeIds \cup {NoParent} : e = ScopeCreated(d, s, p)
    \/ \E s \in ScopeIds : HasScope(d, s) /\ e = ScopeClosed(d, s)
    \/ \E r \in RecordIds, s \in ScopeIds, i \in Instants :
          ~Has(d, r) /\ e = RecordInserted(d, r, s, i)
    \/ \E r \in RecordIds, s \in ScopeIds : Has(d, r) /\ e = RecordUpdated(d, r, s)
    \/ \E a, b \in RecordIds : Has(d, a) /\ Has(d, b) /\ e = RelationCreated(d, a, b)

Begin(c)  == Idle /\ work' = [work EXCEPT ![c] = db] /\ UNCHANGED db
Do(c)     == /\ work[c] # NoUnit /\ UNCHANGED db
             /\ Operation(work[c], work'[c]) /\ work' = [work EXCEPT ![c] = work'[c]]
Commit(c) == work[c] # NoUnit /\ db' = work[c] /\ work' = [work EXCEPT ![c] = NoUnit]
Abort(c)  == work[c] # NoUnit /\ work' = [work EXCEPT ![c] = NoUnit] /\ UNCHANGED db
\* A single operation that no other client can see half done.
Once      == Idle /\ Operation(db, db') /\ UNCHANGED work

Next == Once \/ \E c \in Clients : Begin(c) \/ Do(c) \/ Commit(c) \/ Abort(c)

Spec == Init /\ [][Next]_<<db, work>>
=============================================================================
