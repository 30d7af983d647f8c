---------------------------- MODULE MCMemoryStore ----------------------------
(***************************************************************************)
(* Instances of MemoryStore: a process with a writer and a reader, and a    *)
(* second process that writes; records in a known and an unknown scope;     *)
(* instants that collide and go backwards.                                  *)
(***************************************************************************)
EXTENDS MemoryStore

CONSTANTS P, Q, writer, reader, other

AllProcesses == {P, Q}
AllThreads   == {writer, reader, other}
Where        == [t \in AllThreads |-> IF t = other THEN Q ELSE P]
Begun        == [t \in AllThreads |-> CASE t = writer -> {"transaction", "event"}
                                        [] t = reader -> {"single"}
                                        [] t = other  -> {"single"}]
Records      == 1 .. 3
CostOf       == [r \in RecordIds |-> r]

SomeOperations ==
    {[kind |-> "scope", scope |-> "run", parent |-> NoParent],
     [kind |-> "scope", scope |-> "sub", parent |-> "run"],
     [kind |-> "close", scope |-> "run"]}
      \cup [kind : {"insert"}, record : {1}, scope : {"run"}, created : {2}]
      \cup [kind : {"insert"}, record : {2}, scope : {"sub"}, created : Instants]
      \cup [kind : {"insert"}, record : {3}, scope : {"run"}, created : {1}]
      \cup [kind : {"update"}, record : {1}, scope : {"run", "sub"},
            expected : 1 .. MaxRevision - 1]
      \cup [kind : {"relate"}, record : {1}, target : {2}]
============================================================================
