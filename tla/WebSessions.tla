----------------------------- MODULE WebSessions ------------------------------
(***************************************************************************)
(* Login and sessions of the web application: the counter of wrong logins  *)
(* of each client address with its lock, the table of sessions, and the    *)
(* tokens that were handed out.  Both tables are in memory; a token lives  *)
(* with its owner and outlasts a restart.                                  *)
(*                                                                         *)
(* What a client sends is right or wrong; a token is known by its session. *)
(***************************************************************************)
EXTENDS Integers, FiniteSets, Sequences

CONSTANTS
  Clients,
  Sids,            \* the sessions there may be
  MaxAttempts,     \* wrong logins that lock an address
  Lockout,         \* how long it stays locked
  Lifetime,        \* of a token and its session
  KeptSecret,      \* is the signing key set in the environment?
  MaxWebTime,      \* bound on the clock
  MaxWebRestarts   \* bound on restarts

ASSUME WebAssumption ==
  /\ MaxAttempts \in Nat \ {0} /\ Lockout \in Nat \ {0} /\ Lifetime \in Nat
  /\ KeptSecret \in BOOLEAN /\ MaxWebTime \in Nat /\ MaxWebRestarts \in Nat

VARIABLES
  webNow,
  attempts,        \* _login_attempts: wrong logins, locked_until or -1
  sessions,        \* _sessions: when each expires, or -1
  token,           \* handed out: expiry or -1, and the process that signed it
  process,         \* restarts so far

  \* Observations that no action reads.
  wrong,           \* when each client was wrong, since it was right, in this process
  revoked          \* sessions that were revoked

webVars == <<webNow, attempts, sessions, token, process, wrong, revoked>>

-----------------------------------------------------------------------------
NoAttempts == [count |-> 0, until |-> -1]

WebTypeOK ==
  /\ webNow \in 0..MaxWebTime
  /\ attempts \in [Clients -> [count : 0..MaxAttempts, until : -1..(MaxWebTime + Lockout)]]
  /\ sessions \in [Sids -> -1..(MaxWebTime + Lifetime)]
  /\ token \in [Sids -> [exp : -1..(MaxWebTime + Lifetime), by : 0..MaxWebRestarts]]
  /\ process \in 0..MaxWebRestarts
  /\ wrong \in [Clients -> Seq(0..MaxWebTime)]
  /\ revoked \subseteq Sids

WebInit ==
  /\ webNow = 0
  /\ attempts = [c \in Clients |-> NoAttempts]
  /\ sessions = [s \in Sids |-> -1]
  /\ token = [s \in Sids |-> [exp |-> -1, by |-> 0]]
  /\ process = 0
  /\ wrong = [c \in Clients |-> <<>>]
  /\ revoked = {}

-----------------------------------------------------------------------------
(***************************************************************************)
(* Login                                                                   *)
(***************************************************************************)
Locked(c) == attempts[c].until >= 0 /\ webNow < attempts[c].until

\* _check_login_rate.  A lock that is over is forgotten with its count.
MayTry(c) ==
  IF attempts[c].until >= 0 THEN webNow >= attempts[c].until
  ELSE attempts[c].count < MaxAttempts

AttemptsNow(c) ==
  IF attempts[c].until >= 0 /\ webNow >= attempts[c].until THEN NoAttempts
  ELSE attempts[c]

Counted(a) ==
  LET n == a.count + 1
  IN  [count |-> n, until |-> IF n >= MaxAttempts THEN webNow + Lockout ELSE a.until]

\* A wrong name, password or second factor.
LoginFails(c) ==
  /\ MayTry(c)
  /\ attempts' = [attempts EXCEPT ![c] = Counted(AttemptsNow(c))]
  /\ wrong' = [wrong EXCEPT ![c] = Append(@, webNow)]
  /\ UNCHANGED <<webNow, sessions, token, process, revoked>>

LoginIncompleteForgiven(c) ==
  /\ MayTry(c)
  /\ attempts' = [attempts EXCEPT ![c] = NoAttempts]
  /\ UNCHANGED <<webNow, sessions, token, process, wrong, revoked>>

\* The second factor is missing: the login is refused and not counted.
LoginIncomplete(c) ==
  /\ MayTry(c)
  /\ attempts' = [attempts EXCEPT ![c] = AttemptsNow(c)]
  /\ UNCHANGED <<webNow, sessions, token, process, wrong, revoked>>

LoginSucceeds(c) ==
  /\ MayTry(c)
  /\ \E s \in Sids :
       /\ token[s].exp = -1
       /\ token' = [token EXCEPT ![s] = [exp |-> webNow + Lifetime, by |-> process]]
       /\ sessions' = [sessions EXCEPT ![s] = webNow + Lifetime]
  /\ attempts' = [attempts EXCEPT ![c] = NoAttempts]
  /\ wrong' = [wrong EXCEPT ![c] = <<>>]
  /\ UNCHANGED <<webNow, process, revoked>>

-----------------------------------------------------------------------------
(***************************************************************************)
(* Sessions                                                                *)
(***************************************************************************)
\* _verify_jwt: the signature and the expiry.
Valid(s) ==
  /\ token[s].exp >= webNow
  /\ KeptSecret \/ token[s].by = process

SignedOnly(s) == Valid(s)

\* get_current_user.
Admitted(s) == Valid(s) /\ sessions[s] # -1

Revoke(s) ==
  /\ token[s].exp # -1
  /\ sessions' = [sessions EXCEPT ![s] = -1]
  /\ revoked' = revoked \cup {s}
  /\ UNCHANGED <<webNow, attempts, token, process, wrong>>

ExpiredSession(s) == sessions[s] < webNow

\* get_active_sessions drops the sessions that have expired.
ListSessions ==
  /\ \E s \in Sids : sessions[s] # -1 /\ ExpiredSession(s)
  /\ sessions' = [s \in Sids |-> IF ExpiredSession(s) THEN -1 ELSE sessions[s]]
  /\ UNCHANGED <<webNow, attempts, token, process, wrong, revoked>>

WebTick ==
  /\ webNow < MaxWebTime
  /\ webNow' = webNow + 1
  /\ UNCHANGED <<attempts, sessions, token, process, wrong, revoked>>

\* The tables are empty again, and so is the memory of who was wrong.
WebRestart ==
  /\ process < MaxWebRestarts
  /\ process' = process + 1
  /\ attempts' = [c \in Clients |-> NoAttempts]
  /\ sessions' = [s \in Sids |-> -1]
  /\ wrong' = [c \in Clients |-> <<>>]
  /\ UNCHANGED <<webNow, token, revoked>>

-----------------------------------------------------------------------------
WebNext ==
  \/ \E c \in Clients : LoginFails(c) \/ LoginIncomplete(c) \/ LoginSucceeds(c)
  \/ \E s \in Sids : Revoke(s)
  \/ ListSessions \/ WebTick \/ WebRestart

WebSpec == WebInit /\ [][WebNext]_webVars

-----------------------------------------------------------------------------
(***************************************************************************)
(* Properties                                                              *)
(***************************************************************************)

\* While a process runs, a client that is never right is judged at most
\* MaxAttempts times in any span of the lockout's length, through locks that
\* begin and end and logins that are not counted.
JudgedRarely ==
  \A c \in Clients :
    \A i \in 1..Len(wrong[c]) :
      i + MaxAttempts <= Len(wrong[c]) =>
        wrong[c][i + MaxAttempts] - wrong[c][i] >= Lockout

\* A locked client is one that was wrong MaxAttempts times since it was last
\* right: nobody is locked out for less.
LockedWithReason ==
  \A c \in Clients : Locked(c) => Len(wrong[c]) >= MaxAttempts

\* The lockout is neither too lax nor too strict.
LockoutIsRight == JudgedRarely /\ LockedWithReason

\* A token that was revoked, or refused once, is refused for ever: no login of
\* anybody, no restart and no cleaning of the tables brings it back.
RefusedForEver ==
  [][\A s \in Sids :
       s \in revoked' \/ (token[s].exp # -1 /\ ~Admitted(s)) => ~Admitted(s)']_webVars

=============================================================================
