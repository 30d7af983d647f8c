----------------------------- MODULE MemoryModels -----------------------------
(***************************************************************************)
(* The vocabulary of the memory store (models.py): scopes, record envelopes *)
(* and relations, what one successful operation makes of them, and the      *)
(* reads, which are functions of the contents.  A payload is abstracted to  *)
(* its cost in tokens; expiry and tags, which only filter a read, and the   *)
(* wording of a cursor are left out: a cursor is the sort key it carries.   *)
(***************************************************************************)
EXTENDS Naturals, Sequences, FiniteSets, SequencesExt

CONSTANTS
    ScopeIds,       \* uuid4 ids of scopes
    RecordIds,      \* uuid4 ids of records: naturals, since ids break ties
    Instants,       \* created_at of an envelope, taken before any lock
    Cost,           \* Cost[r]: the estimated tokens of a record's payload
    MaxRevision,    \* bound of the model: no update is tried beyond it
    NoParent,       \* parent_id of a root scope
    Start           \* the cursor of a first page

ASSUME ModelAssumption ==
    /\ RecordIds \subseteq Nat /\ IsFiniteSet(RecordIds) /\ Instants \subseteq Nat
    /\ Cost \in [RecordIds -> Nat \ {0}]
    /\ MaxRevision \in Nat \ {0}
    /\ NoParent \notin ScopeIds
    /\ Start \notin Instants \X RecordIds

Scope    == [parent : ScopeIds \cup {NoParent}, closed : BOOLEAN]
Record   == [scope : ScopeIds, revision : 1 .. MaxRevision, created : Instants]
Relation == RecordIds \X RecordIds

Contents ==
    [scopes    : UNION {[S -> Scope] : S \in SUBSET ScopeIds},
     records   : UNION {[R -> Record] : R \in SUBSET RecordIds},
     relations : SUBSET Relation]

Nothing == [scopes |-> [s \in {} |-> 0], records |-> [r \in {} |-> 0], relations |-> {}]

Has(d, r)      == r \in DOMAIN d.records
HasScope(d, s) == s \in DOMAIN d.scopes

-----------------------------------------------------------------------------
(* One successful operation *)

With(f, x, y) == [z \in DOMAIN f \cup {x} |-> IF z = x THEN y ELSE f[z]]

ScopeCreated(d, s, p) == [d EXCEPT !.scopes = With(@, s, [parent |-> p, closed |-> FALSE])]
ScopeClosed(d, s)     == [d EXCEPT !.scopes[s].closed = TRUE]

RecordInserted(d, r, s, i) ==
    [d EXCEPT !.records = With(@, r, [scope |-> s, revision |-> 1, created |-> i])]

\* The payload is replaced, created_at stays, the revision goes up by one.
RecordUpdated(d, r, s) ==
    LET new == [d.records[r] EXCEPT !.scope = s, !.revision = @ + 1]
    IN [d EXCEPT !.records[r] = new]

RelationCreated(d, a, b) == [d EXCEPT !.relations = @ \cup {<<a, b>>}]

-----------------------------------------------------------------------------
(* Reads *)

Matching(d, S) == {r \in DOMAIN d.records : d.records[r].scope \in S}

Key(d, r) == <<d.records[r].created, r>>

KeyBefore(j, k) == j[1] < k[1] \/ (j[1] = k[1] /\ j[2] < k[2])

\* Mutant of IsAfter: the tie-breaker is forgotten.
IsAfterInstant(d, r, cursor) == cursor = Start \/ cursor[1] < Key(d, r)[1]

IsAfter(d, r, cursor) == cursor = Start \/ KeyBefore(cursor, Key(d, r))

\* The records R by (created_at, id).
Sorted(d, R) ==
    CHOOSE s \in [1 .. Cardinality(R) -> R] :
      \A i, j \in DOMAIN s : i < j => KeyBefore(Key(d, s[i]), Key(d, s[j]))

\* query_records: the rows after the cursor by (created_at, id), and a cursor
\* if the limit left some of them out.
Page(d, S, cursor, limit) ==
    LET rest == Sorted(d, {r \in Matching(d, S) : IsAfter(d, r, cursor)})
        more == Len(rest) > limit
    IN [items |-> IF more THEN SubSeq(rest, 1, limit) ELSE rest,
        next  |-> IF more THEN Key(d, rest[limit]) ELSE Start]

Tokens(items) == FoldLeft(LAMBDA sum, r : sum + Cost[r], 0, items)

\* How many of the items both caps admit, in order, stopping at the first that
\* does not fit.
Admitted(items, cap, tokens) ==
    CHOOSE n \in 0 .. Len(items) :
      /\ n <= cap /\ Tokens(SubSeq(items, 1, n)) <= tokens
      /\ (n < Len(items) /\ n < cap) => Tokens(SubSeq(items, 1, n + 1)) > tokens

\* Mutant of RetrieveBounded: only the token budget is told.
RetrieveByBudget(d, S, cap, tokens) ==
    LET page == Page(d, S, Start, IF cap = 0 THEN 1 ELSE cap)
        n    == Admitted(page.items, cap, tokens)
    IN [records   |-> SubSeq(page.items, 1, n),
        truncated |-> Len(page.items) > n]

\* retrieve_bounded: one page, cut at either cap, and whether anything is left.
RetrieveBounded(d, S, cap, tokens) ==
    LET page == Page(d, S, Start, IF cap = 0 THEN 1 ELSE cap)
        n    == Admitted(page.items, cap, tokens)
    IN [records   |-> SubSeq(page.items, 1, n),
        truncated |-> page.next # Start \/ Len(page.items) > n]
=============================================================================
