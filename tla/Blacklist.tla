------------------------------ MODULE Blacklist -------------------------------
(***************************************************************************)
(* The blacklist: one row of the system state, written by two              *)
(* applications.  The admin application keeps the list in memory, reads    *)
(* the row when it starts and writes the whole list after each change; the *)
(* web application reads the row, changes what it has read and writes it   *)
(* back.  A write looks for the row first and inserts it when there is     *)
(* none; the key is unique.  Each awaits the database in between.          *)
(***************************************************************************)
EXTENDS FiniteSets, Integers

CONSTANTS
  Symbols,
  Edits,             \* requests to either application
  MaxAdminRestarts,  \* bound on restarts of the admin application
  MaxRowFaults       \* bound on failing calls of the database

ASSUME BlacklistAssumption == MaxAdminRestarts \in Nat /\ MaxRowFaults \in Nat

VARIABLES
  stored,            \* the row: {} when there is none, else {the list}
  memory,            \* _blacklist of the admin application
  edit,              \* each request
  wanted,            \* the coins that the answered requests leave on the list
  troubled,          \* what may have lost a request: see Overlap
  adminRestarts,
  rowFaults

blackVars == <<stored, memory, edit, wanted, troubled, adminRestarts, rowFaults>>

-----------------------------------------------------------------------------
Request == [app : {"admin", "web"}, op : {"add", "remove"}, coin : Symbols]

Running == [pc : {"read", "find", "insert", "update"}, req : Request,
            list : SUBSET Symbols]

BlackTypeOK ==
  /\ stored \in SUBSET SUBSET Symbols /\ Cardinality(stored) <= 1
  /\ memory \subseteq Symbols
  /\ edit \in [Edits -> Running \cup [pc : {"none"}]]
  /\ wanted \subseteq Symbols
  /\ troubled \subseteq {"overlap", "failure", "stale"}
  /\ adminRestarts \in 0..MaxAdminRestarts
  /\ rowFaults \in 0..MaxRowFaults

BlackInit ==
  /\ stored = {} /\ memory = {}
  /\ edit = [r \in Edits |-> [pc |-> "none"]]
  /\ wanted = {} /\ troubled = {}
  /\ adminRestarts = 0 /\ rowFaults = 0

Row == UNION stored

Asked == {r \in Edits : edit[r].pc # "none"}

Changed(list, req) ==
  IF req.op = "add" THEN list \cup {req.coin} ELSE list \ {req.coin}

RowFault == rowFaults < MaxRowFaults /\ rowFaults' = rowFaults + 1

-----------------------------------------------------------------------------
WholeMemory(req) == memory

\* What is written is taken from the memory that the request has changed.
MemoryAfter(req) == Changed(memory, req)

Overlap == IF Asked = {} THEN {} ELSE {"overlap"}

\* add_to_blacklist and remove_from_blacklist of the admin application.
AskAdmin(r, req) ==
  /\ req.app = "admin"
  /\ memory' = Changed(memory, req)
  /\ edit' = [edit EXCEPT ![r] = [pc |-> "find", req |-> req, list |-> MemoryAfter(req)]]
  /\ troubled' = troubled \cup Overlap \cup (IF memory = Row THEN {} ELSE {"stale"})

\* Those of the web application.
AskWeb(r, req) ==
  /\ req.app = "web"
  /\ edit' = [edit EXCEPT ![r] = [pc |-> "read", req |-> req, list |-> {}]]
  /\ troubled' = troubled \cup Overlap
  /\ UNCHANGED memory

Ask(r) ==
  /\ edit[r].pc = "none"
  /\ \E req \in Request : AskAdmin(r, req) \/ AskWeb(r, req)
  /\ UNCHANGED <<stored, wanted, adminRestarts, rowFaults>>

\* The answer of SystemStateRepository.get, and the change of it.
ReadRow(r) ==
  /\ edit[r].pc = "read"
  /\ edit' = [edit EXCEPT ![r].pc = "find", ![r].list = Changed(Row, edit[r].req)]
  /\ UNCHANGED <<stored, wanted, troubled, memory, adminRestarts, rowFaults>>

\* SystemStateRepository.set: the select, then the write.
FindRow(r) ==
  /\ edit[r].pc = "find"
  /\ edit' = [edit EXCEPT ![r].pc = IF stored = {} THEN "insert" ELSE "update"]
  /\ UNCHANGED <<stored, wanted, troubled, memory, adminRestarts, rowFaults>>

Upserted(list) == {list}

WriteRow(r) ==
  /\ edit[r].pc = "update" \/ (edit[r].pc = "insert" /\ stored = {})
  /\ stored' = Upserted(edit[r].list)
  /\ wanted' = Changed(wanted, edit[r].req)
  /\ edit' = [edit EXCEPT ![r] = [pc |-> "none"]]
  /\ UNCHANGED <<memory, troubled, adminRestarts, rowFaults>>

\* The row was inserted meanwhile, or the database fails: the request is
\* answered with an error; the memory of the admin application has changed.
EditFails(r) ==
  /\ \/ edit[r].pc = "insert" /\ stored # {} /\ UNCHANGED rowFaults
     \/ edit[r].pc # "none" /\ RowFault
  /\ edit' = [edit EXCEPT ![r] = [pc |-> "none"]]
  /\ troubled' = troubled \cup {"failure"}
  /\ UNCHANGED <<stored, memory, wanted, adminRestarts>>

\* load_blacklist.  When the row cannot be read the memory stays empty.  The
\* requests have ended with the application.
RestartAdmin ==
  /\ adminRestarts < MaxAdminRestarts
  /\ \A r \in Asked : edit[r].req.app = "web"
  /\ \/ memory' = Row /\ UNCHANGED rowFaults
     \/ memory' = {} /\ RowFault
  /\ adminRestarts' = adminRestarts + 1
  /\ UNCHANGED <<stored, edit, wanted, troubled>>

BlackNext ==
  \/ \E r \in Edits : Ask(r) \/ ReadRow(r) \/ FindRow(r) \/ WriteRow(r) \/ EditFails(r)
  \/ RestartAdmin

BlackSpec == BlackInit /\ [][BlackNext]_blackVars

-----------------------------------------------------------------------------
(***************************************************************************)
(* Properties                                                              *)
(***************************************************************************)

\* The row holds what the answered requests to both applications leave on
\* the list.  A request is lost, or undone, only after two requests have
\* overlapped, one has failed, or the admin application has written a memory
\* that was older than the row.
RowIsWanted == troubled = {} /\ Asked = {} => Row = wanted

=============================================================================
