------------------------------- MODULE Accounts -------------------------------
(***************************************************************************)
(* The table of exchange accounts and the requests of the web application  *)
(* that change it.  A request that makes an account the primary one of its *)
(* exchange takes several transactions, and requests run interleaved, one  *)
(* transaction at a time.  Accounts are of one exchange: no query or       *)
(* update looks beyond the exchange of its account.                        *)
(***************************************************************************)
EXTENDS Integers, FiniteSets

CONSTANTS
  AccountIds,
  Requests,        \* handlers that run at a time
  MaxRequests      \* bound on requests

ASSUME AccountsAssumption ==
  IsFiniteSet(AccountIds) /\ MaxRequests \in Nat

VARIABLES
  stored,          \* the rows: account -> [primary, active]
  handler,         \* what each request is at
  served,          \* requests so far

  \* Observation that no action reads.
  overlapped       \* was an account made primary while a creation was under way?

accountVars == <<stored, handler, served, overlapped>>

-----------------------------------------------------------------------------
Absent == [exists |-> FALSE, primary |-> FALSE, active |-> FALSE]

IdleRequest == [pc |-> "idle"]

\* What the body of an update says of the two flags.
Update == [primary : {"yes", "no", "unsaid"}, active : {"yes", "no", "unsaid"}]

Handler ==
  {IdleRequest}
    \cup [pc : {"list", "insert"}, id : AccountIds, primary : BOOLEAN]
    \cup [pc : {"demote"}, id : AccountIds, primary : {TRUE}, todo : SUBSET AccountIds]
    \cup [pc : {"promote", "edit"}, id : AccountIds, says : Update]

AccountsTypeOK ==
  /\ stored \in [AccountIds ->
       {Absent} \cup [exists : {TRUE}, primary : BOOLEAN, active : BOOLEAN]]
  /\ handler \in [Requests -> Handler]
  /\ served \in 0..MaxRequests
  /\ overlapped \in BOOLEAN

AccountsInit ==
  /\ stored = [a \in AccountIds |-> Absent]
  /\ handler = [r \in Requests |-> IdleRequest]
  /\ served = 0
  /\ overlapped = FALSE

Begins(r, state) ==
  /\ handler[r] = IdleRequest /\ served < MaxRequests
  /\ served' = served + 1
  /\ handler' = [handler EXCEPT ![r] = state]

GoesOn(r, state) == handler' = [handler EXCEPT ![r] = state] /\ UNCHANGED served

\* Has one of them seen the other accounts and not yet inserted its own?
Creating(others) ==
  \E r \in others : handler[r].pc \in {"demote", "insert"} /\ handler[r].primary

Primaries == {a \in AccountIds : stored[a].primary}

-----------------------------------------------------------------------------
(***************************************************************************)
(* create_account: look for the id, demote the others one by one, insert   *)
(***************************************************************************)
CreateAccount(r, a, primary) ==
  /\ ~stored[a].exists
  /\ Begins(r, [pc |-> IF primary THEN "list" ELSE "insert",
                id |-> a, primary |-> primary])
  /\ UNCHANGED <<stored, overlapped>>

ListAccounts(r) ==
  /\ handler[r].pc = "list"
  /\ GoesOn(r, IF Primaries = {}
               THEN [pc |-> "insert", id |-> handler[r].id, primary |-> TRUE]
               ELSE [pc |-> "demote", id |-> handler[r].id, primary |-> TRUE,
                     todo |-> Primaries])
  /\ UNCHANGED <<stored, overlapped>>

Undemoted(a) == stored

\* An account that was deleted in the meantime is passed over.
Demoted(a) ==
  [stored EXCEPT ![a] = IF @.exists THEN [@ EXCEPT !.primary = FALSE] ELSE @]

DemoteAccount(r, a) ==
  /\ handler[r].pc = "demote" /\ a \in handler[r].todo
  /\ stored' = Demoted(a)
  /\ GoesOn(r, IF handler[r].todo = {a}
               THEN [pc |-> "insert", id |-> handler[r].id, primary |-> TRUE]
               ELSE [handler[r] EXCEPT !.todo = @ \ {a}])
  /\ UNCHANGED overlapped

\* The id is unique in the table: a second insertion raises.
InsertAccount(r, active) ==
  /\ handler[r].pc = "insert"
  /\ LET a == handler[r].id
     IN  stored' = IF stored[a].exists THEN stored
                   ELSE [stored EXCEPT ![a] = [exists |-> TRUE, active |-> active,
                                               primary |-> handler[r].primary]]
  /\ overlapped' = (overlapped \/ (handler[r].primary /\ Creating(Requests \ {r})))
  /\ GoesOn(r, IdleRequest)

-----------------------------------------------------------------------------
(***************************************************************************)
(* update_account, set_account_primary and delete_account                  *)
(***************************************************************************)
\* The id is looked up before the body is taken apart.
UpdateAccount(r, a, update) ==
  /\ stored[a].exists
  /\ Begins(r, [pc |-> IF update.primary = "yes" THEN "promote" ELSE "edit",
                id |-> a, says |-> update])
  /\ UNCHANGED <<stored, overlapped>>

\* set_primary is one transaction.
PrimaryOnly(a) ==
  [b \in AccountIds |-> [stored[b] EXCEPT !.primary = (b = a)]]

MadePrimary(a) == IF stored[a].exists THEN PrimaryOnly(a) ELSE stored

PromoteInUpdate(r) ==
  /\ handler[r].pc = "promote"
  /\ stored' = MadePrimary(handler[r].id)
  /\ overlapped' = (overlapped \/ Creating(Requests))
  /\ GoesOn(r, [handler[r] EXCEPT !.pc = "edit", !.says.primary = "unsaid"])

Said(word, old) == IF word = "unsaid" THEN old ELSE word = "yes"

\* "is_primary": false passes through to the row.
RowWith(says, row) ==
  [row EXCEPT !.primary = Said(says.primary, @), !.active = Said(says.active, @)]

Edited(a, says) ==
  IF stored[a].exists THEN [stored EXCEPT ![a] = RowWith(says, @)] ELSE stored

EditAccount(r) ==
  /\ handler[r].pc = "edit"
  /\ stored' = Edited(handler[r].id, handler[r].says)
  /\ GoesOn(r, IdleRequest)
  /\ UNCHANGED overlapped

SetPrimary(a) ==
  /\ served < MaxRequests /\ served' = served + 1
  /\ stored' = MadePrimary(a)
  /\ overlapped' = (overlapped \/ Creating(Requests))
  /\ UNCHANGED handler

DeleteAccount(a) ==
  /\ stored[a].exists
  /\ served < MaxRequests /\ served' = served + 1
  /\ stored' = [stored EXCEPT ![a] = Absent]
  /\ UNCHANGED <<handler, overlapped>>

\* A query fails, or the client goes away: what was done before remains.
RequestDies(r) ==
  /\ handler[r] # IdleRequest
  /\ GoesOn(r, IdleRequest)
  /\ UNCHANGED <<stored, overlapped>>

-----------------------------------------------------------------------------
Request(r) ==
  \/ \E a \in AccountIds : \E primary \in BOOLEAN : CreateAccount(r, a, primary)
  \/ ListAccounts(r)
  \/ \E a \in AccountIds : DemoteAccount(r, a)
  \/ \E active \in BOOLEAN : InsertAccount(r, active)
  \/ \E a \in AccountIds : \E update \in Update : UpdateAccount(r, a, update)
  \/ PromoteInUpdate(r) \/ EditAccount(r) \/ RequestDies(r)

AccountsNext ==
  \/ \E r \in Requests : Request(r)
  \/ \E a \in AccountIds : SetPrimary(a) \/ DeleteAccount(a)

AccountsSpec == AccountsInit /\ [][AccountsNext]_accountVars

-----------------------------------------------------------------------------
(***************************************************************************)
(* Properties                                                              *)
(***************************************************************************)

\* An exchange has one primary account at most, unless another account was
\* made primary between a creation's look at the table and its insertion:
\* deletions, requests that die half way and updates that overlap one another
\* leave no second one, of which get_primary would raise.
OnePrimary == Cardinality(Primaries) > 1 => overlapped

=============================================================================
