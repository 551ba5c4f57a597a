---------------------------- MODULE WebAppProofs ----------------------------
(***************************************************************************)
(* What the web application and the process that serves it guarantee:      *)
(* logins and sessions, the accounts of the exchanges, the reload of the   *)
(* configuration, the broadcasts to the browsers, and how the process      *)
(* stops; for any number of users, rows, requests and connections.         *)
(***************************************************************************)
EXTENDS MCServices, ServicesProofs, SequenceTheorems

-----------------------------------------------------------------------------
(***************************************************************************)
(* Logins and sessions.                                                    *)
(***************************************************************************)
\* A lock is the end of a round of MaxAttempts wrong logins, and lasts Lockout
\* from each of them.  Those of earlier rounds are that long ago already.
RoundOf(a, w, at) ==
  /\ a.count <= Len(w)
  /\ \A i \in 1..Len(w) : w[i] <= at
  /\ \A i \in 1..Len(w) : i + a.count <= Len(w) => w[i] + Lockout <= at
  /\ a.until < 0 => a.count < MaxAttempts
  /\ a.until >= 0 => a.count = MaxAttempts /\ \A i \in 1..Len(w) : w[i] + Lockout <= a.until

Rare(w) ==
  \A i \in 1..Len(w) : i + MaxAttempts <= Len(w) => w[i + MaxAttempts] - w[i] >= Lockout

Judged ==
  WebTypeOK /\ \A c \in Clients : RoundOf(attempts[c], wrong[c], webNow) /\ Rare(wrong[c])

Attempts == [count : 0..MaxAttempts, until : -1..(MaxWebTime + Lockout)]

LEMMA WebNumbers ==
  /\ MaxAttempts \in Nat /\ MaxAttempts >= 1 /\ Lockout \in Nat /\ Lifetime \in Nat
  /\ MaxWebTime \in Nat /\ MaxWebRestarts \in Nat
  BY WebAssumption

LEMMA TimesOf ==
  ASSUME NEW w \in Seq(0..MaxWebTime)
  PROVE  Len(w) \in Nat /\ \A i \in 1..Len(w) : w[i] \in Nat
<1>1. Len(w) \in Nat
  BY LenProperties
<1>2. \A i \in 1..Len(w) : w[i] \in 0..MaxWebTime
  BY ElementOfSeq
<1> QED
  BY <1>1, <1>2, WebNumbers

\* No wrong login yet, or none since the last right one.
LEMMA NoneWrong ==
  ASSUME NEW at \in 0..MaxWebTime
  PROVE  /\ NoAttempts \in Attempts /\ <<>> \in Seq(0..MaxWebTime)
         /\ RoundOf(NoAttempts, <<>>, at) /\ Rare(<<>>)
<1>1. NoAttempts \in Attempts /\ NoAttempts.count = 0 /\ NoAttempts.until = -1
  BY WebNumbers DEF NoAttempts, Attempts
<1>2. Len(<<>>) = 0 /\ <<>> \in Seq(0..MaxWebTime)
  OBVIOUS
<1>3. \A i \in 1..Len(<<>>) : FALSE
  BY <1>2
<1> QED
  BY <1>1, <1>2, <1>3, WebNumbers DEF RoundOf, Rare

\* A lock that is over ends the round.
LEMMA RoundNow ==
  ASSUME WebTypeOK, NEW c \in Clients, RoundOf(attempts[c], wrong[c], webNow), MayTry(c)
  PROVE  /\ AttemptsNow(c) \in Attempts /\ AttemptsNow(c).until = -1
         /\ AttemptsNow(c).count < MaxAttempts
         /\ RoundOf(AttemptsNow(c), wrong[c], webNow)
<1> DEFINE a == attempts[c]
<1> DEFINE w == wrong[c]
<1>1. /\ a \in Attempts /\ w \in Seq(0..MaxWebTime) /\ webNow \in Nat /\ Len(w) \in Nat
      /\ a.count \in Nat /\ a.until \in Int /\ a.until >= -1
      /\ \A i \in 1..Len(w) : w[i] \in Int
  <2>1. a \in Attempts /\ w \in Seq(0..MaxWebTime) /\ webNow \in 0..MaxWebTime
    BY DEF WebTypeOK, Attempts
  <2> HIDE DEF a, w
  <2>2. /\ a.count \in Nat /\ a.until \in Int /\ a.until >= -1
    BY <2>1, WebNumbers DEF Attempts
  <2>3. Len(w) \in Nat /\ \A i \in 1..Len(w) : w[i] \in Nat
    BY <2>1, TimesOf
  <2> QED
    BY <2>1, <2>2, <2>3, WebNumbers
<1>2. /\ NoAttempts \in Attempts /\ NoAttempts.count = 0 /\ NoAttempts.until = -1
  BY WebNumbers DEF NoAttempts, Attempts
<1> HIDE DEF a, w
<1>3. CASE a.until >= 0
  <2>1. AttemptsNow(c) = NoAttempts /\ a.until <= webNow
    BY <1>1, <1>3 DEF MayTry, AttemptsNow, a
  <2>2. \A i \in 1..Len(w) : w[i] + Lockout <= webNow /\ w[i] <= webNow
    BY <1>1, <1>3, <2>1, WebNumbers DEF RoundOf, a, w
  <2>3. RoundOf(NoAttempts, w, webNow)
    BY <1>1, <1>2, <2>2, WebNumbers DEF RoundOf
  <2> QED
    BY <1>2, <2>1, <2>3, WebNumbers DEF w
<1>4. CASE ~(a.until >= 0)
  <2>1. AttemptsNow(c) = a /\ a.until = -1 /\ a.count < MaxAttempts
    BY <1>1, <1>4 DEF MayTry, AttemptsNow, a
  <2> QED
    BY <1>1, <2>1 DEF a, w
<1> QED
  BY <1>3, <1>4

\* A wrong login is MaxAttempts after one of an earlier round, if it is so
\* many after any.
LEMMA RoundGoesOn ==
  ASSUME NEW at \in 0..MaxWebTime, at = webNow, NEW a \in Attempts, a.until = -1,
         a.count < MaxAttempts, NEW w \in Seq(0..MaxWebTime), RoundOf(a, w, at), Rare(w)
  PROVE  /\ Counted(a) \in Attempts /\ Append(w, at) \in Seq(0..MaxWebTime)
         /\ RoundOf(Counted(a), Append(w, at), at) /\ Rare(Append(w, at))
<1> DEFINE n == a.count + 1
<1> DEFINE v == Append(w, at)
<1>1. /\ at \in Nat /\ at <= MaxWebTime /\ a.count \in Nat /\ n \in Nat /\ n <= MaxAttempts
      /\ n >= 1 /\ a.count = n - 1
  BY WebNumbers DEF Attempts
<1>2. /\ v \in Seq(0..MaxWebTime) /\ Len(v) = Len(w) + 1 /\ v[Len(w) + 1] = at
      /\ Len(w) \in Nat /\ \A i \in 1..Len(w) : v[i] = w[i] /\ w[i] \in Nat
  <2>1. Len(w) \in Nat /\ \A i \in 1..Len(w) : w[i] \in Nat
    BY TimesOf
  <2>2. /\ Append(w, at) \in Seq(0..MaxWebTime) /\ Len(Append(w, at)) = Len(w) + 1
        /\ Append(w, at)[Len(w) + 1] = at
        /\ \A i \in 1..Len(w) : Append(w, at)[i] = w[i]
    BY <2>1, AppendProperties
  <2> QED
    BY <2>1, <2>2
<1> HIDE DEF v, n
<1>3. /\ \A i \in 1..Len(v) : v[i] <= at
      /\ \A i \in 1..Len(v) : i + n <= Len(v) => v[i] + Lockout <= at
      /\ n <= Len(v)
  <2>1. a.count <= Len(w)
    BY DEF RoundOf
  <2>2. ASSUME NEW i \in 1..Len(v)
        PROVE  v[i] <= at /\ (i + n <= Len(v) => v[i] + Lockout <= at)
    <3>1. CASE i = Len(w) + 1
      BY <1>1, <1>2, <3>1
    <3>2. CASE i # Len(w) + 1
      <4>1. i \in 1..Len(w)
        BY <1>2, <3>2
      <4>2. /\ w[i] <= at /\ (i + a.count <= Len(w) => w[i] + Lockout <= at)
            /\ v[i] = w[i]
        BY <1>2, <4>1 DEF RoundOf
      <4>3. i + n <= Len(v) => i + a.count <= Len(w)
        BY <1>1, <1>2, <4>1
      <4> QED
        BY <4>2, <4>3
    <3> QED
      BY <3>1, <3>2
  <2> QED
    BY <1>1, <1>2, <2>1, <2>2
<1>4. Rare(v)
  <2> SUFFICES ASSUME NEW i \in 1..Len(v), i + MaxAttempts <= Len(v)
               PROVE  v[i + MaxAttempts] - v[i] >= Lockout
    BY DEF Rare
  <2>1. i \in 1..Len(w) /\ i + n <= Len(v)
    BY <1>1, <1>2, WebNumbers
  <2>2. CASE i + MaxAttempts = Len(v)
    <3>1. v[i + MaxAttempts] = at
      BY <1>2, <2>2
    <3>2. v[i] + Lockout <= at /\ v[i] \in Nat
      BY <1>2, <1>3, <2>1
    <3> QED
      BY <1>1, <3>1, <3>2, WebNumbers
  <2>3. CASE i + MaxAttempts # Len(v)
    <3>1. i + MaxAttempts <= Len(w) /\ i + MaxAttempts \in 1..Len(w)
      <4>1. /\ i \in Nat /\ i >= 1 /\ MaxAttempts \in Nat /\ i + MaxAttempts \in Nat
            /\ i + MaxAttempts >= 1
        BY <1>2, <2>1, WebNumbers
      <4>2. i + MaxAttempts <= Len(w) + 1 /\ i + MaxAttempts # Len(w) + 1
        BY <1>2, <2>3
      <4>3. Len(w) \in Nat
        BY <1>2
      <4>4. ASSUME NEW x \in Nat, NEW l \in Nat, x <= l + 1, x # l + 1
            PROVE  x <= l
        BY <4>4
      <4> QED
        BY <4>1, <4>2, <4>3, <4>4
    <3> QED
      BY <1>2, <2>1, <3>1 DEF Rare
  <2> QED
    BY <2>2, <2>3
<1>5. CASE n >= MaxAttempts
  <2>1. Counted(a) = [count |-> n, until |-> at + Lockout] /\ n = MaxAttempts
    BY <1>1, <1>5, WebNumbers DEF Counted, n
  <2>2. Counted(a) \in Attempts /\ Counted(a).count = n /\ Counted(a).until = at + Lockout
    BY <1>1, <2>1, WebNumbers DEF Attempts
  <2>3. at + Lockout >= 0 /\ \A i \in 1..Len(v) : v[i] + Lockout <= at + Lockout
    <3>1. \A i \in 1..Len(v) : v[i] \in Nat /\ v[i] <= at
      BY <1>1, <1>2, <1>3
    <3> QED
      BY <1>1, <3>1, WebNumbers
  <2>4. RoundOf(Counted(a), v, at)
    BY <1>1, <1>3, <2>1, <2>2, <2>3, WebNumbers DEF RoundOf
  <2> QED
    BY <1>2, <1>4, <2>2, <2>4 DEF v
<1>6. CASE ~(n >= MaxAttempts)
  <2>1. Counted(a) = [count |-> n, until |-> -1]
    BY <1>6 DEF Counted, n
  <2>2. Counted(a) \in Attempts /\ Counted(a).count = n /\ Counted(a).until = -1
    BY <1>1, <2>1, WebNumbers DEF Attempts
  <2>3. RoundOf(Counted(a), v, at)
    BY <1>1, <1>3, <1>6, <2>2, WebNumbers DEF RoundOf
  <2> QED
    BY <1>2, <1>4, <2>2, <2>3 DEF v
<1> QED
  BY <1>5, <1>6

\* What a step does to the attempts of one client, and to when it was wrong.
LEMMA OneClientTries ==
  ASSUME Judged, NEW c \in Clients, NEW a \in Attempts, NEW w \in Seq(0..MaxWebTime),
         RoundOf(a, w, webNow), Rare(w),
         attempts' = [attempts EXCEPT ![c] = a], wrong' = [wrong EXCEPT ![c] = w],
         webNow' = webNow
  PROVE  /\ attempts' \in [Clients -> Attempts] /\ wrong' \in [Clients -> Seq(0..MaxWebTime)]
         /\ \A d \in Clients : RoundOf(attempts'[d], wrong'[d], webNow') /\ Rare(wrong'[d])
<1>1. /\ attempts \in [Clients -> Attempts] /\ wrong \in [Clients -> Seq(0..MaxWebTime)]
      /\ \A d \in Clients : RoundOf(attempts[d], wrong[d], webNow) /\ Rare(wrong[d])
  BY DEF Judged, WebTypeOK, Attempts
<1>2. /\ attempts' \in [Clients -> Attempts] /\ attempts'[c] = a
      /\ \A d \in Clients \ {c} : attempts'[d] = attempts[d]
  BY <1>1
<1>3. /\ wrong' \in [Clients -> Seq(0..MaxWebTime)] /\ wrong'[c] = w
      /\ \A d \in Clients \ {c} : wrong'[d] = wrong[d]
  BY <1>1
<1>4. ASSUME NEW d \in Clients
      PROVE  RoundOf(attempts'[d], wrong'[d], webNow') /\ Rare(wrong'[d])
  <2>1. CASE d = c
    BY <1>2, <1>3, <2>1
  <2>2. CASE d # c
    BY <1>1, <1>2, <1>3, <2>2
  <2> QED
    BY <2>1, <2>2
<1> QED
  BY <1>2, <1>3, <1>4

LEMMA LoginsJudged ==
  ASSUME Judged, NEW c \in Clients,
         LoginFails(c) \/ LoginIncomplete(c) \/ LoginSucceeds(c)
  PROVE  Judged'
<1> DEFINE a == AttemptsNow(c)
<1> DEFINE w == wrong[c]
<1>1. MayTry(c) /\ UNCHANGED <<webNow, process, revoked>>
  BY DEF LoginFails, LoginIncomplete, LoginSucceeds
<1>2. /\ w \in Seq(0..MaxWebTime) /\ RoundOf(attempts[c], w, webNow) /\ Rare(w)
      /\ webNow \in 0..MaxWebTime /\ WebTypeOK
      /\ wrong \in [Clients -> Seq(0..MaxWebTime)]
  BY DEF Judged, WebTypeOK
<1>3. a \in Attempts /\ a.until = -1 /\ a.count < MaxAttempts /\ RoundOf(a, w, webNow)
  BY <1>1, <1>2, RoundNow
<1> HIDE DEF a, w
<1>4. ASSUME attempts' \in [Clients -> Attempts], wrong' \in [Clients -> Seq(0..MaxWebTime)],
             \A d \in Clients : RoundOf(attempts'[d], wrong'[d], webNow') /\ Rare(wrong'[d]),
             sessions' \in [Sids -> -1..(MaxWebTime + Lifetime)],
             token' \in [Sids -> [exp : -1..(MaxWebTime + Lifetime), by : 0..MaxWebRestarts]]
      PROVE  Judged'
  BY <1>1, <1>2, <1>4 DEF Judged, WebTypeOK, Attempts
<1>5. CASE LoginFails(c)
  <2>1. /\ attempts' = [attempts EXCEPT ![c] = Counted(a)]
        /\ wrong' = [wrong EXCEPT ![c] = Append(w, webNow)]
        /\ UNCHANGED <<sessions, token>>
    BY <1>5 DEF LoginFails, a, w
  <2>2. /\ Counted(a) \in Attempts /\ Append(w, webNow) \in Seq(0..MaxWebTime)
        /\ RoundOf(Counted(a), Append(w, webNow), webNow) /\ Rare(Append(w, webNow))
    BY <1>2, <1>3, RoundGoesOn
  <2>3. /\ attempts' \in [Clients -> Attempts] /\ wrong' \in [Clients -> Seq(0..MaxWebTime)]
        /\ \A d \in Clients : RoundOf(attempts'[d], wrong'[d], webNow') /\ Rare(wrong'[d])
    BY <1>1, <2>1, <2>2, OneClientTries
  <2> QED
    BY <1>2, <1>4, <2>1, <2>3 DEF WebTypeOK
<1>6. CASE LoginIncomplete(c)
  <2>1. /\ attempts' = [attempts EXCEPT ![c] = a] /\ wrong' = wrong
        /\ UNCHANGED <<sessions, token>>
    BY <1>6 DEF LoginIncomplete, a
  <2>2. wrong' = [wrong EXCEPT ![c] = w]
    BY <1>2, <2>1 DEF w
  <2>3. /\ attempts' \in [Clients -> Attempts] /\ wrong' \in [Clients -> Seq(0..MaxWebTime)]
        /\ \A d \in Clients : RoundOf(attempts'[d], wrong'[d], webNow') /\ Rare(wrong'[d])
    BY <1>1, <1>2, <1>3, <2>1, <2>2, OneClientTries
  <2> QED
    BY <1>2, <1>4, <2>1, <2>3 DEF WebTypeOK
<1>7. CASE LoginSucceeds(c)
  <2>1. /\ attempts' = [attempts EXCEPT ![c] = NoAttempts]
        /\ wrong' = [wrong EXCEPT ![c] = <<>>]
    BY <1>7 DEF LoginSucceeds
  <2>2. /\ NoAttempts \in Attempts /\ <<>> \in Seq(0..MaxWebTime)
        /\ RoundOf(NoAttempts, <<>>, webNow) /\ Rare(<<>>)
    BY <1>2, NoneWrong
  <2>3. /\ attempts' \in [Clients -> Attempts] /\ wrong' \in [Clients -> Seq(0..MaxWebTime)]
        /\ \A d \in Clients : RoundOf(attempts'[d], wrong'[d], webNow') /\ Rare(wrong'[d])
    BY <1>1, <2>1, <2>2, OneClientTries
  <2>4. PICK s \in Sids :
          /\ token' = [token EXCEPT ![s] = [exp |-> webNow + Lifetime, by |-> process]]
          /\ sessions' = [sessions EXCEPT ![s] = webNow + Lifetime]
    BY <1>7 DEF LoginSucceeds
  <2>5. webNow + Lifetime \in -1..(MaxWebTime + Lifetime) /\ process \in 0..MaxWebRestarts
    BY <1>2, WebNumbers DEF WebTypeOK
  <2>6. /\ sessions' \in [Sids -> -1..(MaxWebTime + Lifetime)]
        /\ token' \in [Sids -> [exp : -1..(MaxWebTime + Lifetime), by : 0..MaxWebRestarts]]
    BY <1>2, <2>4, <2>5 DEF WebTypeOK
  <2> QED
    BY <1>4, <2>3, <2>6
<1> QED
  BY <1>5, <1>6, <1>7

\* Time goes by: what was long ago is longer ago.
LEMMA OthersJudged ==
  ASSUME Judged, (\E s \in Sids : Revoke(s)) \/ ListSessions \/ WebTick \/ WebRestart
  PROVE  Judged'
<1>1. /\ webNow \in 0..MaxWebTime /\ sessions \in [Sids -> -1..(MaxWebTime + Lifetime)]
      /\ attempts \in [Clients -> Attempts] /\ wrong \in [Clients -> Seq(0..MaxWebTime)]
      /\ process \in 0..MaxWebRestarts /\ revoked \subseteq Sids
      /\ -1 \in -1..(MaxWebTime + Lifetime)
  BY WebNumbers DEF Judged, WebTypeOK, Attempts
<1>2. ASSUME NEW s \in Sids, Revoke(s)
      PROVE  Judged'
  BY <1>1, <1>2 DEF Revoke, Judged, WebTypeOK
<1>3. CASE ListSessions
  <2>1. sessions' \in [Sids -> -1..(MaxWebTime + Lifetime)]
    BY <1>1, <1>3 DEF ListSessions
  <2> QED
    BY <1>3, <2>1 DEF ListSessions, Judged, WebTypeOK
<1>4. CASE WebTick
  <2>1. /\ webNow' = webNow + 1 /\ webNow < MaxWebTime
        /\ UNCHANGED <<attempts, sessions, token, process, wrong, revoked>>
    BY <1>4 DEF WebTick
  <2>2. webNow' \in 0..MaxWebTime
    BY <1>1, <2>1, WebNumbers
  <2>3. WebTypeOK'
    BY <2>1, <2>2 DEF Judged, WebTypeOK
  <2>4. ASSUME NEW c \in Clients
        PROVE  RoundOf(attempts[c], wrong[c], webNow + 1) /\ Rare(wrong[c])
    <3>1. /\ Len(wrong[c]) \in Nat /\ \A i \in 1..Len(wrong[c]) : wrong[c][i] \in Nat
      BY <1>1, TimesOf
    <3>2. RoundOf(attempts[c], wrong[c], webNow) /\ Rare(wrong[c]) /\ webNow \in Nat
      BY <1>1, WebNumbers DEF Judged
    <3> QED
      BY <3>1, <3>2, WebNumbers DEF RoundOf
  <2> QED
    BY <2>1, <2>3, <2>4 DEF Judged
<1>5. CASE WebRestart
  <2>1. /\ process' = process + 1 /\ process < MaxWebRestarts
        /\ attempts' = [c \in Clients |-> NoAttempts] /\ sessions' = [s \in Sids |-> -1]
        /\ wrong' = [c \in Clients |-> <<>>] /\ UNCHANGED <<webNow, token, revoked>>
    BY <1>5 DEF WebRestart
  <2>2. /\ NoAttempts \in Attempts /\ <<>> \in Seq(0..MaxWebTime)
        /\ RoundOf(NoAttempts, <<>>, webNow) /\ Rare(<<>>)
    BY <1>1, NoneWrong
  <2>3. process' \in 0..MaxWebRestarts
    BY <1>1, <2>1, WebNumbers
  <2>4. /\ attempts' \in [Clients -> Attempts] /\ wrong' \in [Clients -> Seq(0..MaxWebTime)]
        /\ sessions' \in [Sids -> -1..(MaxWebTime + Lifetime)]
    BY <1>1, <2>1, <2>2
  <2>5. WebTypeOK'
    BY <2>1, <2>3, <2>4 DEF Judged, WebTypeOK, Attempts
  <2>6. \A c \in Clients : attempts'[c] = NoAttempts /\ wrong'[c] = <<>>
    BY <2>1
  <2> QED
    BY <2>1, <2>2, <2>5, <2>6 DEF Judged
<1> QED
  BY <1>2, <1>3, <1>4, <1>5

LEMMA JudgedInit == WebInit => Judged
<1> SUFFICES ASSUME WebInit
             PROVE  Judged
  OBVIOUS
<1>1. /\ webNow = 0 /\ attempts = [c \in Clients |-> NoAttempts]
      /\ sessions = [s \in Sids |-> -1] /\ token = [s \in Sids |-> [exp |-> -1, by |-> 0]]
      /\ process = 0 /\ wrong = [c \in Clients |-> <<>>] /\ revoked = {}
  BY DEF WebInit
<1>2. /\ 0 \in 0..MaxWebTime /\ 0 \in 0..MaxWebRestarts
      /\ -1 \in -1..(MaxWebTime + Lifetime)
  BY WebNumbers
<1>3. /\ NoAttempts \in Attempts /\ <<>> \in Seq(0..MaxWebTime)
      /\ RoundOf(NoAttempts, <<>>, webNow) /\ Rare(<<>>)
  BY <1>1, <1>2, NoneWrong
<1>4. WebTypeOK
  <2>1. /\ attempts \in [Clients -> Attempts] /\ wrong \in [Clients -> Seq(0..MaxWebTime)]
        /\ sessions \in [Sids -> -1..(MaxWebTime + Lifetime)]
    BY <1>1, <1>2, <1>3
  <2>2. token \in [Sids -> [exp : -1..(MaxWebTime + Lifetime), by : 0..MaxWebRestarts]]
    BY <1>1, <1>2
  <2> QED
    BY <1>1, <1>2, <2>1, <2>2 DEF WebTypeOK, Attempts
<1>5. \A c \in Clients : attempts[c] = NoAttempts /\ wrong[c] = <<>>
  BY <1>1
<1> QED
  BY <1>3, <1>4, <1>5 DEF Judged

LEMMA JudgedStep == Judged /\ [WebNext]_webVars => Judged'
<1> SUFFICES ASSUME Judged, [WebNext]_webVars
             PROVE  Judged'
  OBVIOUS
<1>1. CASE WebNext
  BY <1>1, LoginsJudged, OthersJudged DEF WebNext
<1>2. CASE UNCHANGED webVars
  BY <1>2 DEF webVars, Judged, WebTypeOK
<1> QED
  BY <1>1, <1>2

\* Whatever logins are tried, counted or refused, a client is judged wrong
\* MaxAttempts times at most per lockout, and is locked only for as many wrong
\* ones as that.
THEOREM LockoutsAreRight == WebSpec => [](WebTypeOK /\ LockoutIsRight)
<1>1. Judged => WebTypeOK /\ LockoutIsRight
  <2> SUFFICES ASSUME Judged
               PROVE  WebTypeOK /\ JudgedRarely /\ LockedWithReason
    BY DEF LockoutIsRight
  <2>1. WebTypeOK /\ JudgedRarely
    BY DEF Judged, JudgedRarely, Rare
  <2>2. ASSUME NEW c \in Clients, Locked(c)
        PROVE  Len(wrong[c]) >= MaxAttempts
    <3>1. attempts[c].count = MaxAttempts /\ attempts[c].count <= Len(wrong[c])
      BY <2>2 DEF Judged, RoundOf, Locked
    <3>2. wrong[c] \in Seq(0..MaxWebTime)
      BY DEF Judged, WebTypeOK
    <3>3. Len(wrong[c]) \in Nat
      BY <3>2, TimesOf
    <3> QED
      BY <3>1, <3>3, WebNumbers
  <2> QED
    BY <2>1, <2>2 DEF LockedWithReason
<1> QED
  BY JudgedInit, JudgedStep, <1>1, PTL DEF WebSpec

-----------------------------------------------------------------------------
(***************************************************************************)
(* Sessions                                                                *)
(***************************************************************************)
\* A session is that of a token, whose name no later login uses; one that was
\* revoked is in the table no more.
Issued ==
  /\ \A s \in Sids : sessions[s] # -1 => token[s].exp # -1
  /\ \A s \in revoked : sessions[s] = -1 /\ token[s].exp # -1
  /\ \A s \in Sids : token[s].by <= process

Sessions == WebTypeOK /\ Issued

LEMMA SessionNumbers ==
  ASSUME WebTypeOK
  PROVE  /\ webNow \in Nat /\ process \in Nat /\ revoked \subseteq Sids
         /\ sessions \in [Sids -> -1..(MaxWebTime + Lifetime)]
         /\ token \in [Sids -> [exp : -1..(MaxWebTime + Lifetime), by : 0..MaxWebRestarts]]
         /\ \A s \in Sids : token[s].exp \in Int /\ token[s].by \in Nat
<1>1. /\ webNow \in 0..MaxWebTime /\ process \in 0..MaxWebRestarts /\ revoked \subseteq Sids
      /\ sessions \in [Sids -> -1..(MaxWebTime + Lifetime)]
      /\ token \in [Sids -> [exp : -1..(MaxWebTime + Lifetime), by : 0..MaxWebRestarts]]
  BY DEF WebTypeOK
<1>2. \A s \in Sids : /\ token[s].exp \in -1..(MaxWebTime + Lifetime)
                      /\ token[s].by \in 0..MaxWebRestarts
  BY <1>1
<1> QED
  BY <1>1, <1>2, WebNumbers

\* Only a login issues a token or enters a session, under a new name; the
\* clock and the number of restarts grow.
LEMMA SessionSteps ==
  ASSUME Sessions, [WebNext]_webVars
  PROVE  /\ webNow' \in Int /\ webNow' >= webNow /\ process' \in Int /\ process' >= process
         /\ \A s \in Sids : token[s].exp # -1 =>
              token'[s] = token[s] /\ (sessions'[s] = sessions[s] \/ sessions'[s] = -1)
         /\ Issued'
<1>1. /\ webNow \in Nat /\ process \in Nat /\ revoked \subseteq Sids
      /\ sessions \in [Sids -> -1..(MaxWebTime + Lifetime)]
      /\ token \in [Sids -> [exp : -1..(MaxWebTime + Lifetime), by : 0..MaxWebRestarts]]
      /\ \A s \in Sids : token[s].exp \in Int /\ token[s].by \in Nat
  BY SessionNumbers DEF Sessions
<1>2. Issued
  BY DEF Sessions
<1>3. CASE UNCHANGED <<webNow, sessions, token, process, revoked>>
  BY <1>1, <1>2, <1>3 DEF Issued
<1>4. ASSUME NEW c \in Clients, LoginSucceeds(c)
      PROVE  /\ webNow' \in Int /\ webNow' >= webNow /\ process' \in Int /\ process' >= process
             /\ \A s \in Sids : token[s].exp # -1 =>
                  token'[s] = token[s] /\ (sessions'[s] = sessions[s] \/ sessions'[s] = -1)
             /\ Issued'
  <2>1. PICK s \in Sids :
          /\ token[s].exp = -1
          /\ token' = [token EXCEPT ![s] = [exp |-> webNow + Lifetime, by |-> process]]
          /\ sessions' = [sessions EXCEPT ![s] = webNow + Lifetime]
    BY <1>4 DEF LoginSucceeds
  <2>2. UNCHANGED <<webNow, process, revoked>>
    BY <1>4 DEF LoginSucceeds
  <2>3. /\ token'[s].exp # -1 /\ token'[s].by = process
        /\ \A t \in Sids \ {s} : token'[t] = token[t] /\ sessions'[t] = sessions[t]
    BY <1>1, <2>1, WebNumbers
  <2>4. s \notin revoked
    BY <1>2, <2>1 DEF Issued
  <2>5. Issued'
    <3>1. ASSUME NEW t \in Sids
          PROVE  /\ sessions'[t] # -1 => token'[t].exp # -1
                 /\ token'[t].by <= process
                 /\ t \in revoked => sessions'[t] = -1 /\ token'[t].exp # -1
      <4>1. CASE t = s
        BY <1>1, <2>3, <2>4, <4>1
      <4>2. CASE t # s
        BY <1>1, <1>2, <2>3, <4>2 DEF Issued
      <4> QED
        BY <4>1, <4>2
    <3> QED
      BY <1>1, <2>2, <3>1 DEF Issued
  <2> QED
    BY <1>1, <2>1, <2>2, <2>3, <2>5
<1>5. ASSUME NEW s \in Sids, Revoke(s)
      PROVE  /\ webNow' \in Int /\ webNow' >= webNow /\ process' \in Int /\ process' >= process
             /\ \A t \in Sids : token[t].exp # -1 =>
                  token'[t] = token[t] /\ (sessions'[t] = sessions[t] \/ sessions'[t] = -1)
             /\ Issued'
  <2>1. /\ token[s].exp # -1 /\ sessions' = [sessions EXCEPT ![s] = -1]
        /\ revoked' = revoked \cup {s} /\ UNCHANGED <<webNow, token, process>>
    BY <1>5 DEF Revoke
  <2>2. \A t \in Sids : sessions'[t] = sessions[t] \/ sessions'[t] = -1
    BY <1>1, <2>1
  <2>3. sessions'[s] = -1
    BY <1>1, <2>1
  <2>4. Issued'
    BY <1>1, <1>2, <2>1, <2>2, <2>3 DEF Issued
  <2> QED
    BY <1>1, <2>1, <2>2, <2>4
<1>6. CASE ListSessions
  <2>1. /\ sessions' = [s \in Sids |-> IF ExpiredSession(s) THEN -1 ELSE sessions[s]]
        /\ UNCHANGED <<webNow, token, process, revoked>>
    BY <1>6 DEF ListSessions
  <2>2. \A s \in Sids : sessions'[s] = sessions[s] \/ sessions'[s] = -1
    BY <1>1, <2>1
  <2>3. Issued'
    BY <1>1, <1>2, <2>1, <2>2 DEF Issued
  <2> QED
    BY <1>1, <2>1, <2>2, <2>3
<1>7. CASE WebTick
  BY <1>1, <1>2, <1>7 DEF WebTick, Issued
<1>8. CASE WebRestart
  <2>1. /\ process' = process + 1 /\ sessions' = [s \in Sids |-> -1]
        /\ UNCHANGED <<webNow, token, revoked>>
    BY <1>8 DEF WebRestart
  <2>2. \A s \in Sids : sessions'[s] = -1
    BY <2>1
  <2>3. Issued'
    BY <1>1, <1>2, <2>1, <2>2 DEF Issued
  <2> QED
    BY <1>1, <2>1, <2>2, <2>3
<1>9. ASSUME NEW c \in Clients, LoginFails(c) \/ LoginIncomplete(c)
      PROVE  UNCHANGED <<webNow, sessions, token, process, revoked>>
  BY <1>9 DEF LoginFails, LoginIncomplete
<1>10. UNCHANGED webVars => UNCHANGED <<webNow, sessions, token, process, revoked>>
  BY DEF webVars
<1> QED
  BY <1>3, <1>4, <1>5, <1>6, <1>7, <1>8, <1>9, <1>10 DEF WebNext

\* What was refused is refused afterwards: what was expired, signed with a lost
\* key or without a session still is.
LEMMA RefusedAgain ==
  ASSUME Sessions, [WebNext]_webVars, NEW s \in Sids,
         s \in revoked' \/ (token[s].exp # -1 /\ ~Admitted(s))
  PROVE  ~Admitted(s)'
<1>1. CASE s \in revoked'
  BY <1>1, SessionSteps DEF Issued, Admitted
<1>2. CASE token[s].exp # -1 /\ ~Admitted(s)
  <2>1. /\ token'[s] = token[s] /\ (sessions'[s] = sessions[s] \/ sessions'[s] = -1)
        /\ webNow' \in Int /\ webNow' >= webNow /\ process' \in Int /\ process' >= process
    BY <1>2, SessionSteps
  <2>2. /\ webNow \in Nat /\ process \in Nat /\ token[s].exp \in Int /\ token[s].by \in Nat
        /\ token[s].by <= process
    BY SessionNumbers DEF Sessions, Issued
  <2>3. CASE sessions[s] = -1
    BY <2>1, <2>3 DEF Admitted
  <2>4. CASE ~(token[s].exp >= webNow)
    <3>1. ~(token'[s].exp >= webNow')
      BY <2>1, <2>2, <2>4
    <3> QED
      BY <3>1 DEF Admitted, Valid
  <2>5. CASE ~(KeptSecret \/ token[s].by = process)
    <3>1. ~(token'[s].by = process')
      BY <2>1, <2>2, <2>5
    <3> QED
      BY <2>5, <3>1 DEF Admitted, Valid
  <2> QED
    BY <1>2, <2>3, <2>4, <2>5 DEF Admitted, Valid
<1> QED
  BY <1>1, <1>2

\* A token that was revoked, or refused once, is refused for ever: time only goes
\* on, secrets of earlier processes are lost or kept as they were, and no name of
\* a session is used again.
THEOREM RefusedIsForEver == WebSpec => RefusedForEver
<1>1. WebInit => Issued
  <2> SUFFICES ASSUME WebInit
               PROVE  Issued
    OBVIOUS
  <2>1. /\ revoked = {} /\ process = 0
        /\ \A s \in Sids : sessions[s] = -1 /\ token[s].by = 0
    BY DEF WebInit
  <2> QED
    BY <2>1 DEF Issued
<1>2. Issued /\ WebTypeOK /\ [WebNext]_webVars => Issued'
  BY SessionSteps DEF Sessions
<1>3. Issued /\ WebTypeOK /\ [WebNext]_webVars =>
        [\A s \in Sids : s \in revoked' \/ (token[s].exp # -1 /\ ~Admitted(s))
                           => ~Admitted(s)']_webVars
  BY RefusedAgain DEF Sessions
<1> QED
  BY <1>1, <1>2, <1>3, LockoutsAreRight, PTL DEF WebSpec, RefusedForEver

-----------------------------------------------------------------------------
(***************************************************************************)
(* The accounts of the exchanges.                                          *)
(***************************************************************************)
AccountRows == {Absent} \cup [exists : {TRUE}, primary : BOOLEAN, active : BOOLEAN]

\* What is left of an update that has made its account primary says nothing
\* of it any more.
EditsPromoteNothing ==
  \A r \in Requests : handler[r].pc = "edit" => handler[r].says.primary # "yes"

AtMostOne == \A a, b \in Primaries : a = b

\* A creation that has looked at the table has still to demote each primary
\* account there is, and inserts its own when there is none.
CreatorsKnow ==
  \A r \in Requests :
    /\ handler[r].pc = "demote" => Primaries \subseteq handler[r].todo
    /\ handler[r].pc = "insert" /\ handler[r].primary => Primaries = {}

Kept == AccountsTypeOK /\ EditsPromoteNothing /\ (~overlapped => AtMostOne /\ CreatorsKnow)

LEMMA KeptInit == AccountsInit => Kept
<1> SUFFICES ASSUME AccountsInit
             PROVE  Kept
  OBVIOUS
<1>1. /\ stored = [a \in AccountIds |-> Absent] /\ served = 0 /\ overlapped = FALSE
      /\ handler = [r \in Requests |-> IdleRequest]
  BY DEF AccountsInit
<1>2. AccountsTypeOK
  <2>1. IdleRequest \in Handler
    BY DEF Handler
  <2>2. MaxRequests \in Nat
    BY AccountsAssumption
  <2>3. 0 \in 0..MaxRequests
    BY <2>2
  <2> QED
    BY <1>1, <2>1, <2>3 DEF AccountsTypeOK
<1>3. \A r \in Requests : handler[r].pc = "idle"
  BY <1>1 DEF IdleRequest
<1>4. Primaries = {}
  BY <1>1 DEF Primaries, Absent
<1> QED
  BY <1>2, <1>3, <1>4 DEF Kept, EditsPromoteNothing, AtMostOne, CreatorsKnow

LEMMA AtMostOneIsCounted ==
  ASSUME AtMostOne
  PROVE  ~(Cardinality(Primaries) > 1)
<1>1. CASE Primaries = {}
  <2>1. Cardinality(Primaries) = 0
    BY <1>1, FS_EmptySet
  <2> QED
    BY <2>1
<1>2. CASE Primaries # {}
  <2>1. PICK a \in Primaries : TRUE
    BY <1>2
  <2>2. \A b \in Primaries : b = a
    BY <2>1 DEF AtMostOne
  <2>3. Primaries = {a}
    BY <2>1, <2>2
  <2>4. Cardinality(Primaries) = 1
    BY <2>3, FS_Singleton
  <2> QED
    BY <2>4
<1> QED
  BY <1>1, <1>2

LEMMA DemotersArePrimary ==
  ASSUME NEW h \in Handler, h.pc = "demote"
  PROVE  h.primary /\ h.todo \subseteq AccountIds /\ h.id \in AccountIds
<1>1. h # IdleRequest
  BY DEF IdleRequest
<1>2. /\ h \notin [pc : {"list", "insert"}, id : AccountIds, primary : BOOLEAN]
      /\ h \notin [pc : {"promote", "edit"}, id : AccountIds, says : Update]
  OBVIOUS
<1> QED
  BY <1>1, <1>2 DEF Handler

\* The other requests are where they were.
LEMMA OneGoesOn ==
  ASSUME Kept, NEW r \in Requests, NEW h \in Handler,
         handler' = [handler EXCEPT ![r] = h]
  PROVE  /\ handler' \in [Requests -> Handler] /\ handler'[r] = h
         /\ \A q \in Requests \ {r} : handler'[q] = handler[q]
<1>1. handler \in [Requests -> Handler]
  BY DEF Kept, AccountsTypeOK
<1> QED
  BY <1>1

\* A step that makes no account primary keeps what is known, if the request
\* that takes it knows what it has to.
LEMMA NoneIsMade ==
  ASSUME Kept, NEW r \in Requests, NEW h \in Handler,
         handler' = [handler EXCEPT ![r] = h],
         h.pc = "edit" => h.says.primary # "yes",
         Primaries' \subseteq Primaries,
         ~overlapped /\ h.pc = "demote" => Primaries' \subseteq h.todo,
         ~overlapped /\ h.pc = "insert" /\ h.primary => Primaries' = {},
         stored' \in [AccountIds -> AccountRows], served' \in 0..MaxRequests,
         overlapped' \in BOOLEAN, overlapped => overlapped'
  PROVE  Kept'
<1>1. /\ handler' \in [Requests -> Handler] /\ handler'[r] = h
      /\ \A q \in Requests \ {r} : handler'[q] = handler[q]
  BY OneGoesOn
<1>2. AccountsTypeOK'
  BY <1>1 DEF AccountsTypeOK, AccountRows
<1>3. EditsPromoteNothing'
  BY <1>1 DEF EditsPromoteNothing, Kept
<1>4. ASSUME ~overlapped'
      PROVE  AtMostOne' /\ CreatorsKnow'
  <2>1. ~overlapped /\ AtMostOne /\ CreatorsKnow
    BY <1>4 DEF Kept
  <2>2. AtMostOne'
    BY <2>1 DEF AtMostOne
  <2>3. CreatorsKnow'
    BY <1>1, <2>1 DEF CreatorsKnow
  <2> QED
    BY <2>2, <2>3
<1> QED
  BY <1>2, <1>3, <1>4 DEF Kept

\* A step that makes an account primary leaves that one, and is known for
\* what it is if a creation has looked at the table before.
LEMMA OneIsMade ==
  ASSUME Kept, NEW a \in AccountIds,
         Primaries' \subseteq {a} \/ Primaries' \subseteq Primaries,
         handler' \in [Requests -> Handler], EditsPromoteNothing',
         \A q \in Requests : handler'[q].pc \in {"demote", "insert"}
                             /\ handler'[q].primary => overlapped',
         stored' \in [AccountIds -> AccountRows], served' \in 0..MaxRequests,
         overlapped' \in BOOLEAN, overlapped => overlapped'
  PROVE  Kept'
<1>1. AccountsTypeOK'
  BY DEF AccountsTypeOK, AccountRows
<1>2. ASSUME ~overlapped'
      PROVE  AtMostOne' /\ CreatorsKnow'
  <2>1. AtMostOne
    BY <1>2 DEF Kept
  <2>2. AtMostOne'
    BY <2>1 DEF AtMostOne
  <2>3. \A q \in Requests : handler'[q].pc = "demote" => handler'[q].primary
    <3>1. \A q \in Requests : handler'[q] \in Handler
      OBVIOUS
    <3> QED
      BY <3>1, DemotersArePrimary
  <2>4. CreatorsKnow'
    BY <1>2, <2>3 DEF CreatorsKnow
  <2> QED
    BY <2>2, <2>4
<1> QED
  BY <1>1, <1>2 DEF Kept

\* What a step does to the rows, and so to the primary accounts.
LEMMA RowsChange ==
  ASSUME Kept, NEW a \in AccountIds
  PROVE  /\ stored \in [AccountIds -> AccountRows] /\ Absent \in AccountRows
         /\ Demoted(a) \in [AccountIds -> AccountRows]
         /\ \A b \in AccountIds : Demoted(a)[b].primary => b # a /\ stored[b].primary
         /\ MadePrimary(a) \in [AccountIds -> AccountRows]
         /\ (\A b \in AccountIds : MadePrimary(a)[b].primary => b = a)
              \/ MadePrimary(a) = stored
<1>1. stored \in [AccountIds -> AccountRows] /\ Absent \in AccountRows
  BY DEF Kept, AccountsTypeOK, AccountRows
<1> DEFINE AnyRow == [exists : BOOLEAN, primary : BOOLEAN, active : BOOLEAN]
<1>2. Absent \in AnyRow /\ ~Absent.exists /\ ~Absent.primary
  BY DEF Absent
<1>3. [Absent EXCEPT !.primary = FALSE] = Absent
  BY <1>2
<1>4. ASSUME NEW account \in AccountRows, NEW p \in BOOLEAN
      PROVE  /\ account.exists => [account EXCEPT !.primary = p] \in AccountRows
             /\ account.exists => [account EXCEPT !.primary = p].primary = p
             /\ ~account.exists => account = Absent /\ ~account.primary
  <2>1. CASE account = Absent
    BY <1>2, <2>1
  <2>2. CASE account \in [exists : {TRUE}, primary : BOOLEAN, active : BOOLEAN]
    <3>1. /\ [account EXCEPT !.primary = p] \in [exists : {TRUE}, primary : BOOLEAN, active : BOOLEAN]
          /\ [account EXCEPT !.primary = p].primary = p /\ account.exists
      BY <2>2
    <3> QED
      BY <3>1 DEF AccountRows
  <2> QED
    BY <2>1, <2>2 DEF AccountRows
<1>5. /\ Demoted(a) \in [AccountIds -> AccountRows]
      /\ \A b \in AccountIds : Demoted(a)[b].primary => b # a /\ stored[b].primary
  <2>1. CASE stored[a].exists
    <3>1. Demoted(a) = [stored EXCEPT ![a] = [stored[a] EXCEPT !.primary = FALSE]]
      BY <1>1, <2>1 DEF Demoted
    <3>2. /\ [stored[a] EXCEPT !.primary = FALSE] \in AccountRows
          /\ ~[stored[a] EXCEPT !.primary = FALSE].primary
      BY <1>1, <1>4, <2>1
    <3> QED
      BY <1>1, <3>1, <3>2
  <2>2. CASE ~stored[a].exists
    <3>1. Demoted(a) = stored /\ ~stored[a].primary
      BY <1>1, <1>4, <2>2 DEF Demoted
    <3> QED
      BY <1>1, <3>1
  <2> QED
    BY <2>1, <2>2
<1>6. CASE stored[a].exists
  <2>1. MadePrimary(a) = [b \in AccountIds |-> [stored[b] EXCEPT !.primary = (b = a)]]
    BY <1>6 DEF MadePrimary, PrimaryOnly
  <2>2. ASSUME NEW b \in AccountIds
        PROVE  /\ [stored[b] EXCEPT !.primary = (b = a)] \in AccountRows
               /\ [stored[b] EXCEPT !.primary = (b = a)].primary => b = a
    <3>1. CASE b = a
      <4>1. [stored[b] EXCEPT !.primary = TRUE] \in AccountRows
        BY <1>1, <1>4, <1>6, <3>1
      <4> QED
        BY <3>1, <4>1
    <3>2. CASE b # a
      <4>1. /\ [stored[b] EXCEPT !.primary = FALSE] \in AccountRows
            /\ ~[stored[b] EXCEPT !.primary = FALSE].primary
        BY <1>1, <1>4, <1>2, <1>3
      <4>2. [stored[b] EXCEPT !.primary = (b = a)] = [stored[b] EXCEPT !.primary = FALSE]
        BY <3>2
      <4> QED
        BY <4>1, <4>2
    <3> QED
      BY <3>1, <3>2
  <2> QED
    BY <1>1, <1>5, <2>1, <2>2
<1>7. CASE ~stored[a].exists
  BY <1>1, <1>5, <1>7 DEF MadePrimary
<1> QED
  BY <1>6, <1>7

\* Where a request has got to, and that it counts.
LEMMA RequestsAreTyped ==
  ASSUME Kept, NEW r \in Requests
  PROVE  /\ handler[r] \in Handler /\ IdleRequest \in Handler /\ IdleRequest.pc = "idle"
         /\ served \in 0..MaxRequests
         /\ served < MaxRequests => served + 1 \in 0..MaxRequests
         /\ handler[r].pc \in {"list", "demote", "insert"} =>
              handler[r].id \in AccountIds /\ handler[r].primary \in BOOLEAN
         /\ handler[r].pc \in {"promote", "edit"} =>
              handler[r].id \in AccountIds /\ handler[r].says \in Update
<1>1. handler[r] \in Handler
  BY DEF Kept, AccountsTypeOK
<1>2. MaxRequests \in Nat
  BY AccountsAssumption
<1>3. served \in 0..MaxRequests
  BY DEF Kept, AccountsTypeOK
<1>4. ASSUME NEW h \in Handler
      PROVE  /\ h.pc \in {"list", "demote", "insert"} =>
                  h.id \in AccountIds /\ h.primary \in BOOLEAN
             /\ h.pc \in {"promote", "edit"} => h.id \in AccountIds /\ h.says \in Update
  <2>1. CASE h = IdleRequest
    BY <2>1 DEF IdleRequest
  <2>2. CASE h # IdleRequest
    BY <2>2 DEF Handler
  <2> QED
    BY <2>1, <2>2
<1>5. IdleRequest \in Handler /\ IdleRequest.pc = "idle"
  BY DEF IdleRequest, Handler
<1>6. served < MaxRequests => served + 1 \in 0..MaxRequests
  BY <1>2, <1>3
<1> QED
  BY <1>1, <1>3, <1>4, <1>5, <1>6

\* A request that only goes on: no account changes.
LEMMA GoingOnKeeps ==
  ASSUME Kept, NEW r \in Requests, NEW h \in Handler,
         handler' = [handler EXCEPT ![r] = h],
         h.pc = "edit" => h.says.primary # "yes",
         h.pc = "demote" => Primaries \subseteq h.todo,
         h.pc = "insert" /\ h.primary => Primaries = {},
         stored' = stored, overlapped' = overlapped, served' \in 0..MaxRequests
  PROVE  Kept'
<1>1. Primaries' = Primaries
  BY DEF Primaries
<1>2. stored \in [AccountIds -> AccountRows] /\ overlapped \in BOOLEAN
  BY DEF Kept, AccountsTypeOK, AccountRows
<1> QED
  BY <1>1, <1>2, NoneIsMade

LEMMA CreationsKeep ==
  ASSUME Kept, NEW r \in Requests, NEW a \in AccountIds, NEW primary \in BOOLEAN,
         CreateAccount(r, a, primary)
  PROVE  Kept'
<1> DEFINE h == [pc |-> IF primary THEN "list" ELSE "insert",
                 id |-> a, primary |-> primary]
<1>1. h \in Handler /\ h.pc \in {"list", "insert"} /\ (h.pc = "insert" => ~h.primary)
  BY DEF Handler
<1>2. /\ handler' = [handler EXCEPT ![r] = h] /\ served' \in 0..MaxRequests
      /\ stored' = stored /\ overlapped' = overlapped
  BY RequestsAreTyped DEF CreateAccount, Begins
<1> QED
  BY <1>1, <1>2, GoingOnKeeps

LEMMA ListingsKeep ==
  ASSUME Kept, NEW r \in Requests, ListAccounts(r)
  PROVE  Kept'
<1>1. /\ handler[r].id \in AccountIds /\ served' \in 0..MaxRequests
      /\ stored' = stored /\ overlapped' = overlapped
  BY RequestsAreTyped DEF ListAccounts, GoesOn
<1>2. CASE Primaries = {}
  <2> DEFINE h == [pc |-> "insert", id |-> handler[r].id, primary |-> TRUE]
  <2>1. h \in Handler /\ h.pc = "insert"
    BY <1>1 DEF Handler
  <2>2. handler' = [handler EXCEPT ![r] = h]
    BY <1>2 DEF ListAccounts, GoesOn
  <2> QED
    BY <1>1, <1>2, <2>1, <2>2, GoingOnKeeps
<1>3. CASE Primaries # {}
  <2> DEFINE h == [pc |-> "demote", id |-> handler[r].id, primary |-> TRUE,
                   todo |-> Primaries]
  <2>1. h \in Handler /\ h.pc = "demote" /\ h.todo = Primaries
    BY <1>1 DEF Handler, Primaries
  <2>2. handler' = [handler EXCEPT ![r] = h]
    BY <1>3 DEF ListAccounts, GoesOn
  <2> QED
    BY <1>1, <2>1, <2>2, GoingOnKeeps
<1> QED
  BY <1>2, <1>3

\* The account that is demoted is off the list of those to demote.
LEMMA DemotionsKeep ==
  ASSUME Kept, NEW r \in Requests, NEW a \in AccountIds, DemoteAccount(r, a)
  PROVE  Kept'
<1>1. /\ handler[r].pc = "demote" /\ stored' = Demoted(a) /\ overlapped' = overlapped
      /\ served' = served
  BY DEF DemoteAccount, GoesOn
<1>2. /\ stored' \in [AccountIds -> AccountRows] /\ overlapped' \in BOOLEAN
      /\ served' \in 0..MaxRequests /\ handler[r] \in Handler
      /\ handler[r].id \in AccountIds /\ handler[r].todo \subseteq AccountIds
  BY <1>1, RowsChange, RequestsAreTyped, DemotersArePrimary DEF Kept, AccountsTypeOK
<1>3. \A b \in Primaries' : b # a /\ b \in Primaries
  BY <1>1, RowsChange DEF Primaries
<1>4. ~overlapped => Primaries \subseteq handler[r].todo
  BY <1>1 DEF Kept, CreatorsKnow
<1>5. CASE handler[r].todo = {a}
  <2> DEFINE h == [pc |-> "insert", id |-> handler[r].id, primary |-> TRUE]
  <2>1. h \in Handler /\ h.pc = "insert"
    BY <1>2 DEF Handler
  <2>2. handler' = [handler EXCEPT ![r] = h]
    BY <1>5 DEF DemoteAccount, GoesOn
  <2>3. ~overlapped => Primaries' = {}
    BY <1>3, <1>4, <1>5
  <2>4. Primaries' \subseteq Primaries
    BY <1>3
  <2> HIDE DEF h
  <2> QED
    BY <1>1, <1>2, <2>1, <2>2, <2>3, <2>4, NoneIsMade
<1>6. CASE handler[r].todo # {a}
  <2> DEFINE h == [handler[r] EXCEPT !.todo = @ \ {a}]
  <2>1. handler[r] \in [pc : {"demote"}, id : AccountIds, primary : {TRUE},
                        todo : SUBSET AccountIds]
    <3>1. handler[r] # IdleRequest
      BY <1>1 DEF IdleRequest
    <3>2. /\ handler[r] \notin [pc : {"list", "insert"}, id : AccountIds, primary : BOOLEAN]
          /\ handler[r] \notin [pc : {"promote", "edit"}, id : AccountIds, says : Update]
      BY <1>1
    <3> QED
      BY <1>2, <3>1, <3>2 DEF Handler
  <2>2. /\ h \in [pc : {"demote"}, id : AccountIds, primary : {TRUE}, todo : SUBSET AccountIds]
        /\ h.todo = handler[r].todo \ {a}
    BY <2>1
  <2>3. h \in Handler /\ h.pc = "demote"
    BY <2>2 DEF Handler
  <2>4. handler' = [handler EXCEPT ![r] = h]
    BY <1>6 DEF DemoteAccount, GoesOn
  <2>5. ~overlapped => Primaries' \subseteq h.todo
    BY <1>3, <1>4, <2>2
  <2>6. Primaries' \subseteq Primaries
    BY <1>3
  <2> HIDE DEF h
  <2> QED
    BY <1>1, <1>2, <2>3, <2>4, <2>5, <2>6, NoneIsMade
<1> QED
  BY <1>5, <1>6

\* An insertion makes an account primary when there is none, or there was
\* another creation, or a promotion, since its request looked at the table.
LEMMA InsertionsKeep ==
  ASSUME Kept, NEW r \in Requests, NEW on \in BOOLEAN, InsertAccount(r, on)
  PROVE  Kept'
<1> DEFINE a == handler[r].id
<1> DEFINE account == [exists |-> TRUE, active |-> on, primary |-> handler[r].primary]
<1>1. /\ handler[r].pc = "insert" /\ a \in AccountIds /\ handler[r].primary \in BOOLEAN
      /\ handler' = [handler EXCEPT ![r] = IdleRequest] /\ served' = served
      /\ overlapped' = (overlapped \/ (handler[r].primary /\ Creating(Requests \ {r})))
  BY RequestsAreTyped DEF InsertAccount, GoesOn
<1>2. /\ stored \in [AccountIds -> AccountRows] /\ served' \in 0..MaxRequests
      /\ overlapped' \in BOOLEAN /\ (overlapped => overlapped')
      /\ IdleRequest \in Handler /\ IdleRequest.pc = "idle"
  BY <1>1, RequestsAreTyped DEF Kept, AccountsTypeOK, AccountRows, Creating
<1>3. account \in AccountRows /\ account.primary = handler[r].primary
  BY <1>1 DEF AccountRows
<1>4. stored' = IF stored[a].exists THEN stored ELSE [stored EXCEPT ![a] = account]
  BY DEF InsertAccount
<1> HIDE DEF account
<1>5. /\ stored' \in [AccountIds -> AccountRows]
      /\ \A b \in AccountIds : stored'[b].primary =>
           stored[b].primary \/ (b = a /\ handler[r].primary)
  BY <1>1, <1>2, <1>3, <1>4
<1>6. \A b \in Primaries' : b \in Primaries \/ (b = a /\ handler[r].primary)
  BY <1>5 DEF Primaries
<1>7. CASE handler[r].primary
  <2>1. ~overlapped => Primaries = {}
    BY <1>1, <1>7 DEF Kept, CreatorsKnow
  <2>2. CASE overlapped
    <3>1. AccountsTypeOK'
      BY <1>2, <1>5, <1>1, OneGoesOn DEF AccountsTypeOK, AccountRows
    <3>2. EditsPromoteNothing'
      BY <1>1, <1>2, OneGoesOn DEF EditsPromoteNothing, Kept
    <3> QED
      BY <1>2, <2>2, <3>1, <3>2 DEF Kept
  <2>3. CASE ~overlapped
    <3>1. Primaries' \subseteq {a}
      BY <1>6, <2>1, <2>3
    <3>2. /\ handler' \in [Requests -> Handler] /\ handler'[r] = IdleRequest
          /\ \A q \in Requests \ {r} : handler'[q] = handler[q]
      BY <1>1, <1>2, OneGoesOn
    <3>3. EditsPromoteNothing'
      BY <1>2, <3>2 DEF EditsPromoteNothing, Kept
    <3>4. \A q \in Requests : handler'[q].pc \in {"demote", "insert"}
                             /\ handler'[q].primary => overlapped'
      BY <1>1, <1>2, <1>7, <3>2 DEF Creating
    <3> HIDE DEF a
    <3> QED
      BY <1>1, <1>2, <1>5, <3>1, <3>2, <3>3, <3>4, OneIsMade
  <2> QED
    BY <2>2, <2>3
<1>8. CASE ~handler[r].primary
  <2>1. Primaries' \subseteq Primaries
    BY <1>6, <1>8
  <2> QED
    BY <1>1, <1>2, <1>5, <2>1, NoneIsMade
<1> QED
  BY <1>7, <1>8

\* A step that makes account a the only primary one.
LEMMA PromotionsKeep ==
  ASSUME Kept, NEW a \in AccountIds, stored' = MadePrimary(a),
         overlapped' = (overlapped \/ Creating(Requests)), served' \in 0..MaxRequests,
         handler' \in [Requests -> Handler], EditsPromoteNothing',
         \A q \in Requests : handler'[q] = handler[q] \/ handler'[q].pc = "edit"
  PROVE  Kept'
<1>1. /\ stored' \in [AccountIds -> AccountRows]
      /\ (\A b \in AccountIds : stored'[b].primary => b = a) \/ stored' = stored
  BY RowsChange
<1>2. Primaries' \subseteq {a} \/ Primaries' \subseteq Primaries
  BY <1>1 DEF Primaries
<1>3. overlapped' \in BOOLEAN /\ (overlapped => overlapped')
  BY DEF Kept, AccountsTypeOK, Creating
<1>4. \A q \in Requests : handler'[q].pc \in {"demote", "insert"}
                         /\ handler'[q].primary => overlapped'
  BY DEF Creating
<1> QED
  BY <1>1, <1>2, <1>3, <1>4, OneIsMade

LEMMA UpdatesKeep ==
  ASSUME Kept, NEW r \in Requests, NEW a \in AccountIds, NEW update \in Update,
         UpdateAccount(r, a, update)
  PROVE  Kept'
<1> DEFINE h == [pc |-> IF update.primary = "yes" THEN "promote" ELSE "edit",
                 id |-> a, says |-> update]
<1>1. h \in Handler /\ h.pc \in {"promote", "edit"}
      /\ (h.pc = "edit" => h.says.primary # "yes")
  BY DEF Handler
<1>2. /\ handler' = [handler EXCEPT ![r] = h] /\ served' \in 0..MaxRequests
      /\ stored' = stored /\ overlapped' = overlapped
  BY RequestsAreTyped DEF UpdateAccount, Begins
<1> HIDE DEF h
<1> QED
  BY <1>1, <1>2, GoingOnKeeps

LEMMA PromotesKeep ==
  ASSUME Kept, NEW r \in Requests, PromoteInUpdate(r)
  PROVE  Kept'
<1> DEFINE h == [handler[r] EXCEPT !.pc = "edit", !.says.primary = "unsaid"]
<1>1. /\ handler[r].pc = "promote" /\ handler[r].id \in AccountIds /\ handler[r] \in Handler
      /\ stored' = MadePrimary(handler[r].id) /\ served' \in 0..MaxRequests
      /\ overlapped' = (overlapped \/ Creating(Requests))
      /\ handler' = [handler EXCEPT ![r] = h]
  BY RequestsAreTyped DEF PromoteInUpdate, GoesOn
<1>2. handler[r] \in [pc : {"promote", "edit"}, id : AccountIds, says : Update]
  <2>1. handler[r] # IdleRequest
    BY <1>1 DEF IdleRequest
  <2>2. /\ handler[r] \notin [pc : {"list", "insert"}, id : AccountIds, primary : BOOLEAN]
        /\ handler[r] \notin [pc : {"demote"}, id : AccountIds, primary : {TRUE},
                              todo : SUBSET AccountIds]
    BY <1>1
  <2> QED
    BY <1>1, <2>1, <2>2 DEF Handler
<1>3. /\ h \in [pc : {"promote", "edit"}, id : AccountIds, says : Update]
      /\ h.pc = "edit" /\ h.says.primary = "unsaid"
  BY <1>2 DEF Update
<1>4. h \in Handler
  BY <1>3 DEF Handler
<1> HIDE DEF h
<1>5. /\ handler' \in [Requests -> Handler] /\ handler'[r] = h
      /\ \A q \in Requests \ {r} : handler'[q] = handler[q]
  BY <1>1, <1>4, OneGoesOn
<1>6. EditsPromoteNothing'
  BY <1>3, <1>5 DEF EditsPromoteNothing, Kept
<1> QED
  BY <1>1, <1>3, <1>5, <1>6, PromotionsKeep

LEMMA EditsKeep ==
  ASSUME Kept, NEW r \in Requests, EditAccount(r)
  PROVE  Kept'
<1> DEFINE a == handler[r].id
<1> DEFINE says == handler[r].says
<1>1. /\ handler[r].pc = "edit" /\ a \in AccountIds /\ says \in Update
      /\ stored' = Edited(a, says) /\ overlapped' = overlapped /\ served' = served
      /\ handler' = [handler EXCEPT ![r] = IdleRequest]
  BY RequestsAreTyped DEF EditAccount, GoesOn
<1>2. /\ says.primary \in {"no", "unsaid"} /\ says.active \in {"yes", "no", "unsaid"}
  BY <1>1 DEF Kept, EditsPromoteNothing, Update
<1>3. /\ stored \in [AccountIds -> AccountRows] /\ served' \in 0..MaxRequests
      /\ overlapped' \in BOOLEAN /\ IdleRequest \in Handler /\ IdleRequest.pc = "idle"
  BY <1>1, RequestsAreTyped DEF Kept, AccountsTypeOK, AccountRows
<1> HIDE DEF a, says
<1>4. CASE stored[a].exists
  <2> DEFINE account == RowWith(says, stored[a])
  <2>1. stored[a] \in [exists : {TRUE}, primary : BOOLEAN, active : BOOLEAN]
    <3>1. stored[a] # Absent
      BY <1>4 DEF Absent
    <3> QED
      BY <1>1, <1>3, <3>1 DEF AccountRows
  <2>2. /\ Said(says.primary, stored[a].primary) \in BOOLEAN
        /\ Said(says.primary, stored[a].primary) => stored[a].primary
        /\ Said(says.active, stored[a].active) \in BOOLEAN
    BY <1>2, <2>1 DEF Said
  <2>3. account \in AccountRows /\ (account.primary => stored[a].primary)
    BY <2>1, <2>2 DEF AccountRows, RowWith
  <2>4. stored' = [stored EXCEPT ![a] = account]
    BY <1>1, <1>4 DEF Edited
  <2> HIDE DEF account
  <2>5. /\ stored' \in [AccountIds -> AccountRows]
        /\ \A b \in AccountIds : stored'[b].primary => stored[b].primary
    BY <1>1, <1>3, <2>3, <2>4
  <2>6. Primaries' \subseteq Primaries
    BY <2>5 DEF Primaries
  <2> QED
    BY <1>1, <1>3, <2>5, <2>6, NoneIsMade
<1>5. CASE ~stored[a].exists
  <2>1. stored' = stored
    BY <1>1, <1>5 DEF Edited
  <2> QED
    BY <1>1, <1>3, <2>1, GoingOnKeeps
<1> QED
  BY <1>4, <1>5

LEMMA OthersKeep ==
  ASSUME Kept, NEW a \in AccountIds,
         SetPrimary(a) \/ DeleteAccount(a)
  PROVE  Kept'
<1>1. handler \in [Requests -> Handler] /\ stored \in [AccountIds -> AccountRows]
      /\ MaxRequests \in Nat /\ served \in 0..MaxRequests /\ overlapped \in BOOLEAN
  BY AccountsAssumption DEF Kept, AccountsTypeOK, AccountRows
<1>2. CASE SetPrimary(a)
  <2>1. /\ stored' = MadePrimary(a) /\ overlapped' = (overlapped \/ Creating(Requests))
        /\ handler' = handler /\ served' = served + 1 /\ served < MaxRequests
    BY <1>2 DEF SetPrimary
  <2>2. served' \in 0..MaxRequests
    BY <1>1, <2>1
  <2>3. EditsPromoteNothing'
    BY <2>1 DEF Kept, EditsPromoteNothing
  <2> QED
    BY <1>1, <2>1, <2>2, <2>3, PromotionsKeep
<1>3. CASE DeleteAccount(a)
  <2>1. /\ stored' = [stored EXCEPT ![a] = Absent] /\ overlapped' = overlapped
        /\ handler' = handler /\ served' = served + 1 /\ served < MaxRequests
    BY <1>3 DEF DeleteAccount
  <2>2. served' \in 0..MaxRequests
    BY <1>1, <2>1
  <2>3. Absent \in AccountRows /\ ~Absent.primary
    BY DEF AccountRows, Absent
  <2>4. stored' \in [AccountIds -> AccountRows]
        /\ \A b \in AccountIds : stored'[b].primary => stored[b].primary
    BY <1>1, <2>1, <2>3
  <2>5. Primaries' \subseteq Primaries
    BY <2>4 DEF Primaries
  <2>6. AccountsTypeOK'
    BY <1>1, <2>1, <2>2, <2>4 DEF AccountsTypeOK, AccountRows
  <2>7. EditsPromoteNothing'
    BY <2>1 DEF Kept, EditsPromoteNothing
  <2>8. ~overlapped' => AtMostOne' /\ CreatorsKnow'
    BY <2>1, <2>5 DEF Kept, AtMostOne, CreatorsKnow
  <2> QED
    BY <2>6, <2>7, <2>8 DEF Kept
<1> QED
  BY <1>2, <1>3

LEMMA DeathsKeep ==
  ASSUME Kept, NEW r \in Requests, RequestDies(r)
  PROVE  Kept'
<1>1. /\ handler' = [handler EXCEPT ![r] = IdleRequest] /\ stored' = stored
      /\ overlapped' = overlapped /\ served' \in 0..MaxRequests
  BY RequestsAreTyped DEF RequestDies, GoesOn
<1>2. IdleRequest \in Handler /\ IdleRequest.pc = "idle"
  BY DEF IdleRequest, Handler
<1> QED
  BY <1>1, <1>2, GoingOnKeeps

\* However requests interleave and wherever they die, an exchange has one primary
\* account at most unless another was made primary during a creation.
THEOREM OnePrimaryAccount == AccountsSpec => [](AccountsTypeOK /\ OnePrimary)
<1>1. Kept /\ [AccountsNext]_accountVars => Kept'
  <2> SUFFICES ASSUME Kept, [AccountsNext]_accountVars
               PROVE  Kept'
    OBVIOUS
  <2>1. ASSUME NEW r \in Requests, Request(r)
        PROVE  Kept'
    BY <2>1, CreationsKeep, ListingsKeep, DemotionsKeep, InsertionsKeep, UpdatesKeep,
       PromotesKeep, EditsKeep, DeathsKeep DEF Request
  <2>2. CASE UNCHANGED accountVars
    BY <2>2 DEF accountVars, Kept, AccountsTypeOK, EditsPromoteNothing, AtMostOne,
       CreatorsKnow, Primaries
  <2> QED
    BY <2>1, <2>2, OthersKeep DEF AccountsNext
<1>2. Kept => AccountsTypeOK /\ OnePrimary
  BY AtMostOneIsCounted DEF Kept, OnePrimary
<1> QED
  BY KeptInit, <1>1, <1>2, PTL DEF AccountsSpec

-----------------------------------------------------------------------------
(***************************************************************************)
(* The reload of the configuration.                                        *)
(***************************************************************************)
\* The file has changed twice for each edit, once for one that is under way.
TimeOfFile ==
  /\ file.whole => file.time = 2 * file.version
  /\ ~file.whole => file.version < MaxEdits /\ file.time = 2 * file.version + 1

\* Each notice stands for a change of the file's time that a manager has noted.
NoticesNoted ==
  /\ watch.pc = "absent" => notices <= file.time
  /\ watch.pc = "sleep" => notices <= watch.known
  /\ watch.pc \in {"reload", "publish"} => notices + 1 <= watch.known
  /\ watch.known <= file.time

Reloading ==
  /\ file \in [version : 0..MaxEdits, time : 0..(2 * MaxEdits), whole : BOOLEAN]
  /\ cached \in [{"web", "trading"} -> Versions]
  /\ watch \in [pc : {"absent"}, known : {-1}]
       \cup [pc : {"sleep", "reload", "publish"}, known : 0..(2 * MaxEdits)]
  /\ notices \in Nat
  /\ riskSettings \in Versions
  /\ configRestarts \in [{"web", "trading"} -> 0..MaxConfigRestarts]
  /\ TimeOfFile /\ NoticesNoted

-----------------------------------------------------------------------------
LEMMA ReloadingInit == ConfigInit => Reloading
<1> SUFFICES ASSUME ConfigInit PROVE Reloading OBVIOUS
<1> USE ConfigAssumption
<1>1. 0 \in 0..MaxEdits /\ 0 \in 0..(2 * MaxEdits) /\ 0 \in Versions
        /\ 0 \in 0..MaxConfigRestarts
  BY DEF Versions, Defaults
<1>2. file \in [version : 0..MaxEdits, time : 0..(2 * MaxEdits), whole : BOOLEAN]
  BY <1>1 DEF ConfigInit
<1>3. watch \in [pc : {"absent"}, known : {-1}] BY DEF ConfigInit
<1>4. file.whole BY DEF ConfigInit
<1> QED BY <1>1, <1>2, <1>3, <1>4 DEF ConfigInit, Reloading, TimeOfFile, NoticesNoted

\* What a process reads is a version.
LEMMA LoadedType == Reloading => Loaded \in Versions
BY ConfigAssumption DEF Reloading, Loaded, Versions, Defaults

LEMMA ReloadingStep == Reloading /\ [ConfigNext]_configVars => Reloading'
<1> SUFFICES ASSUME Reloading, [ConfigNext]_configVars PROVE Reloading' OBVIOUS
<1> USE ConfigAssumption
<1> DEFINE FileType == [version : 0..MaxEdits, time : 0..(2 * MaxEdits), whole : BOOLEAN]
           AbsentType == [pc : {"absent"}, known : {-1}]
           WatchType == [pc : {"sleep", "reload", "publish"}, known : 0..(2 * MaxEdits)]
<1>0. /\ file \in FileType /\ notices \in Nat
      /\ file.version \in Nat /\ file.time \in Nat
      /\ watch \in AbsentType \cup WatchType
      /\ watch.pc # "absent" => watch \in WatchType /\ watch.known \in Nat
      /\ watch.pc = "absent" => watch.known = -1
      /\ Loaded \in Versions
  BY LoadedType DEF Reloading
<1>1. ASSUME watch' = watch, notices' = notices, file.time <= file'.time,
             file' \in FileType, TimeOfFile',
             UNCHANGED <<cached, riskSettings, configRestarts>>
      PROVE  Reloading'
  <2>1. file'.time \in Nat BY <1>1
  <2>2. NoticesNoted' BY <1>0, <1>1, <2>1 DEF Reloading, NoticesNoted
  <2> QED BY <1>1, <2>2 DEF Reloading
<1>2. CASE BeginEdit
  <2>1. file' = [file EXCEPT !.time = file.time + 1, !.whole = FALSE] BY <1>2 DEF BeginEdit
  <2>2. file'.version = file.version /\ file'.time = file.time + 1 /\ ~file'.whole
          /\ file'.whole \in BOOLEAN
    BY <1>0, <2>1
  <2>3. file.time + 1 = 2 * file.version + 1 /\ file.version < MaxEdits
    BY <1>2 DEF BeginEdit, Reloading, TimeOfFile
  <2>4. file.time + 1 \in 0..(2 * MaxEdits) BY <1>0, <2>3
  <2>5. file' \in FileType BY <1>0, <2>1, <2>4
  <2>6. TimeOfFile' BY <2>2, <2>3 DEF TimeOfFile
  <2> QED BY <1>0, <1>1, <1>2, <2>2, <2>5, <2>6 DEF BeginEdit
<1>3. CASE EndEdit
  <2>1. file' = [version |-> file.version + 1, time |-> file.time + 1, whole |-> TRUE]
    BY <1>3 DEF EndEdit
  <2>2. file.time = 2 * file.version + 1 /\ file.version < MaxEdits
    BY <1>3 DEF EndEdit, Reloading, TimeOfFile
  <2>3. file.time + 1 \in 0..(2 * MaxEdits) /\ file.version + 1 \in 0..MaxEdits
          /\ file.time + 1 = 2 * (file.version + 1)
    BY <1>0, <2>2
  <2>4. file' \in FileType BY <2>1, <2>3
  <2>5. TimeOfFile' BY <2>1, <2>3 DEF TimeOfFile
  <2> QED BY <1>0, <1>1, <1>3, <2>1, <2>4, <2>5 DEF EndEdit
<1>4. CASE RestartWeb
  <2>1. watch' \in AbsentType /\ watch'.pc = "absent" /\ watch'.known = -1
    BY <1>4 DEF RestartWeb
  <2>2. notices <= file.time BY <1>0 DEF Reloading, NoticesNoted
  <2>3. NoticesNoted' BY <1>0, <1>4, <2>1, <2>2 DEF RestartWeb, NoticesNoted
  <2>4. configRestarts' \in [{"web", "trading"} -> 0..MaxConfigRestarts]
    BY <1>4 DEF RestartWeb, Reloading
  <2>5. cached' \in [{"web", "trading"} -> Versions]
    BY <1>0, <1>4 DEF RestartWeb, Reloading
  <2> QED BY <1>4, <2>1, <2>3, <2>4, <2>5 DEF RestartWeb, Reloading, TimeOfFile
<1>5. CASE RestartTrading
  <2>1. configRestarts' \in [{"web", "trading"} -> 0..MaxConfigRestarts]
    BY <1>5 DEF RestartTrading, Reloading
  <2>2. cached' \in [{"web", "trading"} -> Versions] /\ riskSettings' \in Versions
    BY <1>0, <1>5 DEF RestartTrading, Reloading
  <2> QED BY <1>5, <2>1, <2>2 DEF RestartTrading, Reloading, TimeOfFile, NoticesNoted
<1>6. CASE StartManager
  <2>1. watch' = [pc |-> "sleep", known |-> file.time] BY <1>6 DEF StartManager
  <2>2. watch' \in WatchType BY <1>0, <2>1
  <2>3. NoticesNoted'
    BY <1>0, <1>6, <2>1 DEF StartManager, Reloading, NoticesNoted
  <2> QED BY <1>6, <2>2, <2>3 DEF StartManager, Reloading, TimeOfFile
<1>7. CASE CheckChanges
  <2>1. watch' = [pc |-> "reload", known |-> file.time] BY <1>7 DEF CheckChanges
  <2>2. watch' \in WatchType BY <1>0, <2>1
  <2>3. notices + 1 <= file.time
    BY <1>0, <1>7 DEF CheckChanges, Reloading, NoticesNoted
  <2>4. NoticesNoted' BY <1>0, <1>7, <2>1, <2>3 DEF CheckChanges, NoticesNoted
  <2> QED BY <1>7, <2>2, <2>4 DEF CheckChanges, Reloading, TimeOfFile
<1>8. CASE ReloadSettings
  <2>1. watch \in WatchType /\ watch' = [watch EXCEPT !.pc = "publish"]
    BY <1>0, <1>8 DEF ReloadSettings
  <2>2. watch' \in WatchType /\ watch'.pc = "publish" /\ watch'.known = watch.known
    BY <2>1
  <2>3. NoticesNoted' BY <1>8, <2>2 DEF ReloadSettings, Reloading, NoticesNoted
  <2>4. cached' \in [{"web", "trading"} -> Versions]
    BY <1>0, <1>8 DEF ReloadSettings, Reloading
  <2> QED BY <1>8, <2>2, <2>3, <2>4 DEF ReloadSettings, Reloading, TimeOfFile
<1>9. CASE PublishReload
  <2>1. watch \in WatchType /\ watch' = [watch EXCEPT !.pc = "sleep"]
    BY <1>0, <1>9 DEF PublishReload, Afterwards
  <2>2. watch' \in WatchType /\ watch'.pc = "sleep" /\ watch'.known = watch.known
    BY <2>1
  <2>3. notices' \in Nat /\ notices' <= notices + 1
    BY <1>0, <1>9 DEF PublishReload, Published
  <2>4. NoticesNoted'
    BY <1>0, <1>9, <2>2, <2>3 DEF PublishReload, Reloading, NoticesNoted
  <2> QED BY <1>9, <2>2, <2>3, <2>4 DEF PublishReload, Reloading, TimeOfFile
<1>10. CASE OnConfigReloaded
  <2>1. notices' \in Nat /\ notices' <= notices BY <1>0, <1>10 DEF OnConfigReloaded
  <2>2. NoticesNoted'
    BY <1>0, <1>10, <2>1 DEF OnConfigReloaded, Reloading, NoticesNoted
  <2>3. riskSettings' \in Versions BY <1>10 DEF OnConfigReloaded, Reloading
  <2> QED BY <1>10, <2>1, <2>2, <2>3 DEF OnConfigReloaded, Reloading, TimeOfFile
<1>11. CASE UNCHANGED configVars
  BY <1>11 DEF configVars, Reloading, TimeOfFile, NoticesNoted
<1> QED BY <1>2, <1>3, <1>4, <1>5, <1>6, <1>7, <1>8, <1>9, <1>10, <1>11
  DEF ConfigNext, Manager

\* There is never more than one notice on its way for each change of the file,
\* through any order of edits, restarts and checks.
THEOREM ReloadTypeCorrect == ConfigSpec => []ConfigTypeOK
<1>1. Reloading => ConfigTypeOK
  <2> SUFFICES ASSUME Reloading PROVE ConfigTypeOK OBVIOUS
  <2>1. /\ notices \in Nat /\ file.time \in 0..(2 * MaxEdits) /\ watch.known <= file.time
        /\ \/ watch.pc = "absent"
           \/ watch.pc \in {"sleep", "reload", "publish"} /\ watch.known \in Nat
    BY ConfigAssumption DEF Reloading, NoticesNoted
  <2>2. notices \in 0..(2 * MaxEdits)
    BY <2>1, ConfigAssumption DEF Reloading, NoticesNoted
  <2> QED BY <2>2 DEF Reloading, ConfigTypeOK
<1> QED BY ReloadingInit, ReloadingStep, <1>1, PTL DEF ConfigSpec

-----------------------------------------------------------------------------
(***************************************************************************)
(* Broadcasts.                                                             *)
(***************************************************************************)
\* A connection that has not come yet has been taken out by nobody.
NewIsUntouched == \A c \in Sockets : socket[c] = "new" => taker[c] = "nobody"

\* What is left of a copy of the list has been in the list; what is not there
\* any more, somebody else has taken out.
CopyWasListed ==
  \A b \in Casters : \A c \in caster[b].left :
    /\ socket[c] # "new"
    /\ c \notin clients => taker[c] \notin {b, "nobody"}

Cast == CastTypeOK /\ NewIsUntouched /\ CopyWasListed /\ LeaversHarmNobodyElse

LEMMA CastsWell == CastInit => Cast
BY CastAssumption DEF CastInit, Cast, CastTypeOK, NewIsUntouched, CopyWasListed,
   LeaversHarmNobodyElse, GivenUpByARace, StayersHear, IdleCaster, Caster, SocketStates

\* A socket that leaves the list does so once: who has taken it is known.
LEMMA TakenOnce ==
  ASSUME Cast, NEW c \in clients, NEW by \in Casters \cup {"endpoint"},
         TakenOut(c, by)
  PROVE  /\ clients' \subseteq Sockets /\ c \notin clients'
         /\ \A d \in clients' : d # c /\ d \in clients
         /\ taker' \in [Sockets -> Casters \cup {"nobody", "endpoint"}]
         /\ taker'[c] = by /\ taker[c] = "nobody" /\ socket[c] # "new"
         /\ \A d \in Sockets \ {c} : taker'[d] = taker[d]
  BY DEF TakenOut, Cast, CastTypeOK

\* How a broadcast goes on after one of its sockets.
LEMMA OnwardIsCaster ==
  ASSUME NEW k \in Caster, NEW rest \in SUBSET k.left, k.pc = "sending"
  PROVE  /\ Onward(k, rest) \in Caster
         /\ Onward(k, rest).left = rest
         /\ Onward(k, rest).at = k.at /\ Onward(k, rest).missed = k.missed
         /\ (Onward(k, rest).pc = "sending") <=> (rest # {})
<1>1. CASE rest # {}
  BY <1>1 DEF Onward, Caster
<1>2. CASE rest = {}
  BY <1>2 DEF Onward, Caster
<1> QED
  BY <1>1, <1>2

\* What a socket or its endpoint does leaves the broadcasts alone.
LEMMA EndpointsCast ==
  ASSUME Cast, NEW c \in Sockets, Endpoint(c) \/ ClientLeaves(c)
  PROVE  Cast'
<1> USE DEF Cast, CastTypeOK, NewIsUntouched, CopyWasListed, LeaversHarmNobodyElse,
      GivenUpByARace, StayersHear, SocketStates
<1>1. CASE ClientConnects(c)
  BY <1>1 DEF ClientConnects
<1>2. CASE ClientLeaves(c)
  <2>1. PICK how \in {"gone", "broken"} : socket' = [socket EXCEPT ![c] = how]
    BY <1>2 DEF ClientLeaves
  <2> QED
    BY <1>2, <2>1 DEF ClientLeaves
<1>3. ASSUME socket' = [socket EXCEPT ![c] = "ended"], socket[c] # "new",
             UNCHANGED caster,
             (c \in clients /\ TakenOut(c, "endpoint")) \/ UNCHANGED <<clients, taker>>
      PROVE  Cast'
  <2>1. CASE UNCHANGED <<clients, taker>>
    BY <1>3, <2>1
  <2>2. CASE c \in clients /\ TakenOut(c, "endpoint")
    <3>1. \A b \in Casters : b # "endpoint" /\ b # "nobody"
      BY CastAssumption
    <3>2. /\ clients' \subseteq Sockets /\ c \notin clients'
          /\ \A d \in clients' : d # c /\ d \in clients
          /\ taker' \in [Sockets -> Casters \cup {"nobody", "endpoint"}]
          /\ taker'[c] = "endpoint" /\ taker[c] = "nobody"
          /\ \A d \in Sockets \ {c} : taker'[d] = taker[d]
          /\ clients' = clients \ {c}
      BY <2>2, TakenOnce DEF TakenOut
    <3>3. \A b \in Casters : caster[b].left \subseteq Sockets
      BY DEF Caster
    <3>4. /\ socket' \in [Sockets -> SocketStates] /\ caster' = caster
          /\ socket'[c] = "ended" /\ \A d \in Sockets \ {c} : socket'[d] = socket[d]
      BY <1>3
    <3>5. CastTypeOK' /\ NewIsUntouched'
      BY <3>2, <3>4
    <3>6. CopyWasListed'
      BY <3>1, <3>2, <3>3, <3>4
    <3>7. LeaversHarmNobodyElse'
      BY <3>1, <3>2, <3>4
    <3> QED
      BY <3>5, <3>6, <3>7
  <2> QED
    BY <1>3, <2>1, <2>2
<1>4. CASE EndpointEnds(c)
  BY <1>3, <1>4 DEF EndpointEnds
<1>5. CASE EndpointFails(c)
  BY <1>3, <1>5 DEF EndpointFails
<1> QED
  BY <1>1, <1>2, <1>4, <1>5 DEF Endpoint

\* A broadcast that is given up lost its socket to somebody else; one that
\* takes a socket out has no more to do with it, and the others come to know.
LEMMA BroadcastsCast ==
  ASSUME Cast, NEW b \in Casters, Broadcasting(b)
  PROVE  Cast'
<1> USE DEF Cast, CastTypeOK, NewIsUntouched, CopyWasListed, LeaversHarmNobodyElse,
      GivenUpByARace, StayersHear
<1>1. CASE BeginBroadcast(b)
  <2> DEFINE k == [pc |-> "sending", left |-> clients, at |-> {}, missed |-> {}]
  <2>1. k \in Caster /\ k.pc = "sending" /\ k.left # {}
    BY <1>1 DEF BeginBroadcast, Caster
  <2>2. caster' = [caster EXCEPT ![b] = k] /\ UNCHANGED <<clients, socket, taker>>
    BY <1>1 DEF BeginBroadcast
  <2> QED
    BY <2>1, <2>2
<1>2. ASSUME NEW c \in Sockets, SendSucceeds(b, c)
      PROVE  Cast'
  <2>1. /\ caster' = [caster EXCEPT ![b] = Onward(caster[b], caster[b].left \ {c})]
        /\ UNCHANGED <<clients, socket, taker>> /\ caster[b].pc = "sending"
    BY <1>2 DEF SendSucceeds
  <2> QED
    BY <2>1, OnwardIsCaster
<1>3. ASSUME NEW c \in Sockets, SendFails(b, c)
      PROVE  Cast'
  <2> DEFINE rest == AfterRemoval(caster[b].left, c)
  <2> DEFINE k == [caster[b] EXCEPT !.missed =
                     @ \cup (caster[b].left \ (rest \cup {c}))]
  <2>1. /\ caster[b].pc = "sending" /\ c \in caster[b].left /\ c \in clients
        /\ TakenOut(c, b) /\ socket' = socket
        /\ caster' = [caster EXCEPT ![b] = Onward(k, rest)]
    BY <1>3 DEF SendFails, Forgets
  <2>2. rest = caster[b].left \ {c}
    BY DEF AfterRemoval
  <2>3. k = caster[b]
    BY <2>2 DEF Caster
  <2>4. /\ Onward(k, rest).left = rest /\ Onward(k, rest).at = caster[b].at
        /\ Onward(k, rest).missed = caster[b].missed /\ Onward(k, rest) \in Caster
        /\ (Onward(k, rest).pc = "sending") <=> (rest # {})
    <3>1. caster[b] \in Caster /\ rest \in SUBSET caster[b].left
      BY <2>2
    <3> HIDE DEF rest, k
    <3> QED
      BY <2>1, <2>3, <3>1, OnwardIsCaster
  <2> HIDE DEF rest, k
  <2>5. /\ caster' \in [Casters -> Caster] /\ caster'[b] = Onward(k, rest)
        /\ \A a \in Casters \ {b} : caster'[a] = caster[a]
    <3> HIDE DEF Cast
    <3>1. caster \in [Casters -> Caster]
      BY DEF Cast
    <3> QED
      BY <2>1, <2>4, <3>1
  <2>6. /\ clients' \subseteq Sockets /\ c \notin clients'
        /\ \A d \in clients' : d # c /\ d \in clients
        /\ taker' \in [Sockets -> Casters \cup {"nobody", "endpoint"}]
        /\ taker'[c] = b /\ taker[c] = "nobody" /\ b # "nobody"
        /\ \A d \in Sockets \ {c} : taker'[d] = taker[d]
        /\ clients' = clients \ {c} /\ socket' = socket
    BY <2>1, TakenOnce, CastAssumption DEF TakenOut
  <2>7. \A a \in Casters : caster[a].left \subseteq Sockets
    BY DEF Caster
  <2>8. CastTypeOK' /\ NewIsUntouched'
    BY <2>1, <2>4, <2>5, <2>6
  <2>9. CopyWasListed'
    <3> SUFFICES ASSUME NEW a \in Casters, NEW d \in caster'[a].left
                 PROVE  socket'[d] # "new"
                        /\ (d \notin clients' => taker'[d] \notin {a, "nobody"})
      BY DEF CopyWasListed
    <3>1. d \in caster[a].left /\ d \in Sockets /\ (a = b => d # c)
      <4> HIDE DEF Cast, CopyWasListed, CastTypeOK, LeaversHarmNobodyElse, NewIsUntouched
      <4>1. CASE a = b
        <5>1. d \in caster[b].left \ {c}
          BY <2>2, <2>4, <2>5, <4>1
        <5> QED
          BY <2>7, <4>1, <5>1
      <4>2. CASE a # b
        BY <2>5, <2>7, <4>2
      <4> QED
        BY <4>1, <4>2
    <3>2. /\ socket[d] # "new" /\ socket' = socket
          /\ d \notin clients => taker[d] \notin {a, "nobody"}
      <4> SUFFICES socket[d] # "new" /\ (d \notin clients => taker[d] \notin {a, "nobody"})
        BY <2>6
      <4> HIDE DEF Cast, CastTypeOK
      <4> QED
        BY <3>1 DEF Cast
    <3> HIDE DEF Cast, CopyWasListed, CastTypeOK, LeaversHarmNobodyElse, NewIsUntouched
    <3>3. CASE d = c
      <4>1. taker'[d] = b /\ b # "nobody" /\ a # b
        BY <2>6, <3>1, <3>3
      <4> QED
        BY <3>2, <4>1
    <3>4. CASE d # c
      <4>1. d \notin clients' => d \notin clients
        BY <2>6, <3>1, <3>4
      <4>2. taker'[d] = taker[d]
        BY <2>6, <3>1, <3>4
      <4> QED
        BY <3>2, <4>1, <4>2
    <3> QED
      BY <3>3, <3>4
  <2>10. LeaversHarmNobodyElse'
    BY <2>4, <2>5, <2>6
  <2> QED
    BY <2>8, <2>9, <2>10
<1>4. ASSUME NEW c \in Sockets, SendRaises(b, c)
      PROVE  Cast'
  <2> DEFINE k == [pc |-> "raised", left |-> {}, at |-> {c}, missed |-> {}]
  <2>1. k \in Caster
    BY DEF Caster
  <2>2. /\ caster' = [caster EXCEPT ![b] = k] /\ UNCHANGED <<clients, socket, taker>>
        /\ c \in caster[b].left /\ c \notin clients
    BY <1>4 DEF SendRaises
  <2> HIDE DEF k
  <2>3. caster' \in [Casters -> Caster] /\ caster'[b] = k
        /\ \A a \in Casters \ {b} : caster'[a] = caster[a]
    BY <2>1, <2>2
  <2>4. k.pc # "sending" /\ k.left = {} /\ k.at = {c} /\ k.missed = {}
    BY DEF k
  <2>5. taker[c] \notin {b, "nobody"}
    BY <2>2
  <2>6. \A a \in Casters : caster[a].left \subseteq Sockets
    BY DEF Caster
  <2>7. CastTypeOK' /\ NewIsUntouched'
    BY <2>2, <2>3, <2>4
  <2>8. CopyWasListed'
    <3> SUFFICES ASSUME NEW a \in Casters, NEW d \in caster'[a].left
                 PROVE  socket'[d] # "new"
                        /\ (d \notin clients' => taker'[d] \notin {a, "nobody"})
      BY DEF CopyWasListed
    <3>1. a # b
      BY <2>3, <2>4
    <3> QED
      BY <2>2, <2>3, <3>1
  <2>9. LeaversHarmNobodyElse'
    BY <2>2, <2>3, <2>4, <2>5
  <2> QED
    BY <2>7, <2>8, <2>9
<1> QED
  BY <1>1, <1>2, <1>3, <1>4 DEF Broadcasting

\* However clients come and leave while broadcasts walk over their copies, a
\* broadcast comes to all of its copy unless a race for a socket has ended it.
THEOREM BroadcastsAreSafe ==
  CastSpec => [](CastTypeOK /\ LeaversHarmNobodyElse)
<1>1. Cast /\ [CastNext]_castVars => Cast'
  <2> SUFFICES ASSUME Cast, [CastNext]_castVars
               PROVE  Cast'
    OBVIOUS
  <2>1. CASE CastNext
    BY <2>1, EndpointsCast, BroadcastsCast DEF CastNext
  <2>2. CASE UNCHANGED castVars
    BY <2>2 DEF castVars, Cast, CastTypeOK, NewIsUntouched, CopyWasListed,
       LeaversHarmNobodyElse, GivenUpByARace, StayersHear
  <2> QED
    BY <2>1, <2>2
<1>2. Cast => CastTypeOK /\ LeaversHarmNobodyElse
  BY DEF Cast
<1> QED
  BY CastsWell, <1>1, <1>2, PTL DEF CastSpec

-----------------------------------------------------------------------------
(***************************************************************************)
(* How the process starts and stops.                                       *)
(***************************************************************************)
\* Until the first signal, what listens and loops is what has been started,
\* the bus is the first one and nobody stops.
Launched(n) == {StartOrder[i] : i \in 1..n}

StartedAsOrdered ==
  /\ life.pc \in {"starting", "running"} =>
       /\ theBus = 1
       /\ \A t \in Stoppers : stopper[t] = NotStopping
  /\ life.pc = "starting" =>
       listening = Launched(life.at) \cap Subscribers
         /\ looping = Launched(life.at) \cap WithTasks
  /\ life.pc = "running" => listening = Subscribers /\ looping = WithTasks

\* The services that a stop has left behind.
AmongServices(t) == stopper[t].pc \in {"service", "connect", "unsubscribe", "cancel"}

PastServices(t) == stopper[t].pc \in {"bus", "closing", "db", "done"}

LeftBehind(t) ==
  IF AmongServices(t) THEN {StopOrder[i] : i \in 1..(stopper[t].at - 1)}
  ELSE IF PastServices(t) THEN ServiceNames ELSE {}

\* They neither listen nor loop, whoever has stopped them.
NothingLeftBehind ==
  \A t \in Stoppers :
    /\ stopper[t].pc # "none" => stopper[t].at \in 1..Len(StopOrder)
    /\ LeftBehind(t) \cap (listening \cup looping) = {}
    /\ stopper[t].pc = "cancel" => Stopping(t) \notin listening

\* A stop loses the first bus only when nobody listens to it any more: only
\* then may a stop that is overtaken unsubscribe from another bus.
FirstBusLast ==
  /\ theBus # 1 => listening = {} /\ 1 \notin busTasks
  /\ \A t \in Stoppers :
       /\ stopper[t].pc = "unsubscribe" /\ stopper[t].bus # 1 => listening = {}
       /\ stopper[t].pc = "connect" => stopper[t].bus > 1 /\ listening = {}
       /\ stopper[t].pc \in {"closing", "db", "done"} => 1 \notin busTasks

Finished ==
  /\ \A t \in Stoppers : stopper[t].pc = "done" => ~dbOpen
  /\ life.pc = "ended" => stopper["main"].pc = "done"

\* A bus is made only after a stop has forgotten the one before it.
Forgetful == {t \in Stoppers : stopper[t].pc \in {"db", "done"}}

FewBuses == busesMade + (IF theBus = 0 THEN 1 ELSE 0) <= Cardinality(Forgetful) + 1

Stopped ==
  /\ StopTypeOK /\ StartedAsOrdered /\ NothingLeftBehind /\ FirstBusLast /\ Finished
  /\ FewBuses /\ GuardedWhileTrading

-----------------------------------------------------------------------------
\* The two orders, one the reverse of the other.
LEMMA OrderFacts ==
  /\ Len(StartOrder) = 7 /\ Len(StopOrder) = 7
  /\ StartOrder[1] = "datafeed" /\ StartOrder[2] = "router" /\ StartOrder[3] = "risk"
  /\ StartOrder[4] = "trade" /\ StartOrder[5] = "strategy" /\ StartOrder[6] = "monitor"
  /\ StartOrder[7] = "optimization"
  /\ StopOrder[7] = "datafeed" /\ StopOrder[6] = "router" /\ StopOrder[5] = "risk"
  /\ StopOrder[4] = "trade" /\ StopOrder[3] = "strategy" /\ StopOrder[2] = "monitor"
  /\ StopOrder[1] = "optimization"
  /\ ServiceNames = {"datafeed", "router", "risk", "trade", "strategy", "monitor",
                     "optimization"}
  /\ \A i \in 1..7 : StopOrder[i] \in ServiceNames /\ StartOrder[i] \in ServiceNames
<1>1. /\ Len(StartOrder) = 7
      /\ StartOrder[1] = "datafeed" /\ StartOrder[2] = "router" /\ StartOrder[3] = "risk"
      /\ StartOrder[4] = "trade" /\ StartOrder[5] = "strategy"
      /\ StartOrder[6] = "monitor" /\ StartOrder[7] = "optimization"
  BY DEF StartOrder
<1>2. StopOrder = [i \in 1..7 |-> StartOrder[7 - i + 1]]
  BY <1>1 DEF StopOrder, Reverse
<1>3. StopOrder \in Seq({StartOrder[j] : j \in 1..7}) /\ Len(StopOrder) = 7
  <2>1. \A i \in 1..7 : 7 - i + 1 \in 1..7 OBVIOUS
  <2> QED BY <1>2, <2>1
<1>4. /\ StopOrder[7] = "datafeed" /\ StopOrder[6] = "router" /\ StopOrder[5] = "risk"
      /\ StopOrder[4] = "trade" /\ StopOrder[3] = "strategy" /\ StopOrder[2] = "monitor"
      /\ StopOrder[1] = "optimization"
  BY <1>1, <1>2
<1>5. DOMAIN StartOrder = 1..7 BY <1>1 DEF StartOrder
<1>6. ServiceNames = {StartOrder[i] : i \in 1..7} BY <1>5 DEF ServiceNames, Range
<1>7. \A i \in 1..7 : i \in {1, 2, 3, 4, 5, 6, 7} OBVIOUS
<1>8. ServiceNames = {"datafeed", "router", "risk", "trade", "strategy", "monitor",
                     "optimization"}
  BY <1>1, <1>6, <1>7
<1>9. \A i \in 1..7 : StopOrder[i] \in ServiceNames /\ StartOrder[i] \in ServiceNames
  BY <1>1, <1>4, <1>7, <1>8
<1> QED BY <1>1, <1>3, <1>4, <1>8, <1>9

-----------------------------------------------------------------------------
\* A stop is at a service, on a bus and at a step of NexusSystem.stop.
Places == [at : 0..Len(StopOrder), bus : 0..busesMade,
           pc : {"none", "service", "connect", "unsubscribe", "cancel", "bus", "closing",
                 "db", "done"}]

LEMMA StoppersType ==
  StopTypeOK => stopper \in [Stoppers -> Places] /\ busesMade \in Nat
<1> SUFFICES ASSUME StopTypeOK PROVE stopper \in [Stoppers -> Places] /\ busesMade \in Nat
  OBVIOUS
<1>1. IsFiniteSet(Stoppers) BY FS_AddElement, StopAssumption DEF Stoppers
<1>2. Cardinality(Stoppers) \in Nat BY <1>1, FS_CardinalityType
<1> QED BY <1>2 DEF StopTypeOK, Places

\* Forgetful stops are stops.
LEMMA ForgetfulIsFinite ==
  /\ IsFiniteSet(Forgetful) /\ Cardinality(Forgetful) \in Nat
  /\ Cardinality(Stoppers) \in Nat /\ Cardinality(Forgetful) <= Cardinality(Stoppers)
<1>1. IsFiniteSet(Stoppers) BY FS_AddElement, StopAssumption DEF Stoppers
<1>2. Forgetful \subseteq Stoppers BY DEF Forgetful
<1> QED BY <1>1, <1>2, FS_Subset, FS_CardinalityType

\* A step of one stop moves that stop alone, and starts nothing again.
LEMMA StopStepMoves ==
  ASSUME StopTypeOK, NothingLeftBehind, NEW t \in Stoppers, StopStep(t)
  PROVE  /\ \A u \in Stoppers \ {t} : stopper'[u] = stopper[u]
         /\ stopper' \in [Stoppers -> [at : 0..Len(StopOrder), bus : 0..busesMade',
                                       pc : {"none", "service", "connect", "unsubscribe",
                                             "cancel", "bus", "closing", "db", "done"}]]
         /\ listening' \subseteq listening /\ looping' \subseteq looping
         /\ life' = life /\ dbOpen' = dbOpen /\ life.pc = "stopping"
         /\ busesMade' \in Nat
<1> DEFINE P == stopper[t]
<1>1. stopper \in [Stoppers -> Places] /\ busesMade \in Nat BY StoppersType
<1>2. P \in Places BY <1>1
<1>3. life' = life /\ dbOpen' = dbOpen /\ life.pc = "stopping" BY DEF StopStep
<1>4. CASE StopPlain(t)
  BY <1>1, <1>2, <1>3, <1>4 DEF StopPlain, Moved, Places
<1>5. CASE AskBus(t)
  <2>1. CASE theBus # 0
    <3>1. theBus \in 0..busesMade BY DEF StopTypeOK
    <3>2. [P EXCEPT !.pc = "unsubscribe", !.bus = theBus] \in Places
      BY <1>2, <3>1 DEF Places
    <3>3. /\ stopper' = [stopper EXCEPT ![t] =
                           [P EXCEPT !.pc = "unsubscribe", !.bus = theBus]]
          /\ busesMade' = busesMade /\ listening' = listening /\ looping' = looping
      BY <1>1, <1>5, <2>1 DEF AskBus
    <3>4. stopper' \in [Stoppers -> Places] BY <1>1, <3>2, <3>3
    <3> QED BY <1>1, <1>3, <3>3, <3>4 DEF Places
  <2>2. CASE theBus = 0
    BY <1>1, <1>2, <1>3, <1>5, <2>2 DEF AskBus, Places
  <2> QED BY <2>1, <2>2
<1>6. CASE Connect(t)
  BY <1>1, <1>2, <1>3, <1>6 DEF Connect, Moved, Places
<1>7. CASE StopListening(t)
  BY <1>1, <1>2, <1>3, <1>7 DEF StopListening, Moved, Places
<1>8. CASE StopTasks(t)
  <2>1. P.at \in 1..7 BY <1>8, OrderFacts DEF StopTasks, NothingLeftBehind
  <2>2. P.at # 7 => P.at + 1 \in 0..7 BY <2>1
  <2> QED BY <1>1, <1>2, <1>3, <1>8, <2>1, <2>2, OrderFacts
    DEF StopTasks, NextService, AllCancelled, Moved, Places
<1>9. CASE CloseBus(t)
  BY <1>1, <1>2, <1>3, <1>9 DEF CloseBus, Moved, Places
<1>10. CASE ForgetBus(t)
  BY <1>1, <1>2, <1>3, <1>10 DEF ForgetBus, Moved, Places
<1> QED BY <1>4, <1>5, <1>6, <1>7, <1>8, <1>9, <1>10 DEF StopStep

\* The bound on the buses survives the step of a stop.
LEMMA FewBusesStep ==
  ASSUME StopTypeOK, FewBuses, NothingLeftBehind, NEW t \in Stoppers, StopStep(t)
  PROVE  FewBuses'
<1>1. stopper \in [Stoppers -> Places] /\ busesMade \in Nat BY StoppersType
<1>2. Cardinality(Forgetful) \in Nat /\ IsFiniteSet(Forgetful) BY ForgetfulIsFinite
<1>3. \A u \in Stoppers \ {t} : stopper'[u] = stopper[u] BY StopStepMoves
<1>4. ASSUME stopper'[t].pc \in {"db", "done"}, stopper[t].pc \notin {"db", "done"}
      PROVE  Cardinality(Forgetful)' = Cardinality(Forgetful) + 1
  <2>1. Forgetful' = Forgetful \cup {t} BY <1>3, <1>4 DEF Forgetful
  <2>2. t \notin Forgetful BY <1>4 DEF Forgetful
  <2> QED BY <1>2, <2>1, <2>2, FS_AddElement
<1>5. ASSUME stopper'[t].pc \notin {"db", "done"}, stopper[t].pc \notin {"db", "done"}
      PROVE  Cardinality(Forgetful)' = Cardinality(Forgetful)
  <2>1. Forgetful' = Forgetful BY <1>3, <1>5 DEF Forgetful
  <2> QED BY <2>1
<1>6. ASSUME theBus' = theBus, busesMade' = busesMade PROVE FewBuses'
  <2>1. stopper[t].pc \notin {"db", "done"}
    BY DEF StopStep, StopPlain, AskBus, Connect, StopListening, StopTasks, CloseBus, ForgetBus
  <2> QED BY <1>1, <1>2, <1>4, <1>5, <1>6, <2>1 DEF FewBuses
<1>7. CASE StopPlain(t) \/ Connect(t) \/ StopListening(t) \/ StopTasks(t) \/ CloseBus(t)
  BY <1>6, <1>7 DEF StopPlain, Connect, StopListening, StopTasks, CloseBus
<1>8. CASE AskBus(t)
  <2>1. CASE theBus # 0
    BY <1>6, <1>8, <2>1 DEF AskBus
  <2>2. CASE theBus = 0
    <3>1. stopper'[t].pc = "connect" /\ theBus' = busesMade + 1 /\ busesMade' = busesMade + 1
      BY <1>1, <1>8, <2>2 DEF AskBus, Places
    <3>2. stopper[t].pc = "service" BY <1>8 DEF AskBus
    <3>3. Cardinality(Forgetful)' = Cardinality(Forgetful) BY <1>5, <3>1, <3>2
    <3>4. theBus' # 0 BY <1>1, <3>1
    <3> QED BY <1>1, <1>2, <2>2, <3>1, <3>3, <3>4 DEF FewBuses
  <2> QED BY <2>1, <2>2
<1>9. CASE ForgetBus(t)
  <2>1. stopper'[t].pc = "db" /\ stopper[t].pc = "closing" /\ theBus' = 0
          /\ busesMade' = busesMade
    BY <1>1, <1>9 DEF ForgetBus, Moved, Places
  <2>2. Cardinality(Forgetful)' = Cardinality(Forgetful) + 1 BY <1>4, <2>1
  <2>3. busesMade <= Cardinality(Forgetful) + 1 BY <1>1, <1>2 DEF FewBuses
  <2> QED BY <1>1, <1>2, <2>1, <2>2, <2>3 DEF FewBuses
<1> QED BY <1>7, <1>8, <1>9 DEF StopStep

\* The types survive the step of a stop.
LEMMA StopStepType ==
  ASSUME StopTypeOK, FewBuses, NothingLeftBehind, FirstBusLast, NEW t \in Stoppers,
         StopStep(t)
  PROVE  StopTypeOK'
<1>1. stopper \in [Stoppers -> Places] /\ busesMade \in Nat BY StoppersType
<1>2. stopper[t] \in Places BY <1>1
<1>3. busesMade' \in 1..(Cardinality(Stoppers) + 1)
  <2>1. FewBuses' BY FewBusesStep
  <2>2. busesMade' \in Nat BY StopStepMoves
  <2>3. /\ Cardinality(Forgetful') \in Nat /\ Cardinality(Stoppers) \in Nat
        /\ Cardinality(Forgetful') <= Cardinality(Stoppers)
    <3>1. IsFiniteSet(Stoppers) BY FS_AddElement, StopAssumption DEF Stoppers
    <3>2. Forgetful' \subseteq Stoppers BY DEF Forgetful
    <3> QED BY <3>1, <3>2, FS_Subset, FS_CardinalityType
  <2>4. busesMade' <= Cardinality(Forgetful') + 1 BY <2>1, <2>2, <2>3 DEF FewBuses
  <2>5. busesMade >= 1 /\ busesMade' >= busesMade
    <3>1. busesMade \in 1..(Cardinality(Stoppers) + 1) BY DEF StopTypeOK
    <3>2. busesMade' = busesMade \/ busesMade' = busesMade + 1
      BY DEF StopStep, StopPlain, AskBus, Connect, StopListening, StopTasks, CloseBus,
             ForgetBus
    <3> QED BY <1>1, <2>3, <3>1, <3>2
  <2> QED BY <1>1, <2>2, <2>3, <2>4, <2>5
<1>4. theBus' \in 0..busesMade'
  <2>1. theBus \in 0..busesMade BY DEF StopTypeOK
  <2> QED BY <1>1, <2>1
    DEF StopStep, StopPlain, AskBus, Connect, StopListening, StopTasks, CloseBus, ForgetBus
<1>5. busTasks' \subseteq 1..busesMade'
  <2>1. busTasks \subseteq 1..busesMade BY DEF StopTypeOK
  <2>2. CASE Connect(t)
    <3>1. stopper[t].bus \in 0..busesMade BY <1>2 DEF Places
    <3>2. stopper[t].bus > 1 BY <2>2 DEF Connect, FirstBusLast
    <3>3. stopper[t].bus \in 1..busesMade BY <1>1, <3>1, <3>2
    <3> QED BY <2>1, <2>2, <3>3 DEF Connect
  <2>3. CASE ~Connect(t)
    <3>1. busTasks' \subseteq busTasks
      BY <2>3 DEF StopStep, StopPlain, AskBus, StopListening, StopTasks, CloseBus, ForgetBus
    <3>2. busesMade' = busesMade \/ busesMade' = busesMade + 1
      BY DEF StopStep, StopPlain, AskBus, Connect, StopListening, StopTasks, CloseBus,
             ForgetBus
    <3>3. \A i \in 1..busesMade : i \in 1..busesMade' BY <1>1, <3>2
    <3> QED BY <2>1, <3>1, <3>3
  <2> QED BY <2>2, <2>3
<1> QED BY <1>3, <1>4, <1>5, StopStepMoves DEF StopTypeOK

\* Whatever a stop does at a service, what it has left behind stays stopped.
LEMMA BehindStep ==
  ASSUME StopTypeOK, NothingLeftBehind, FirstBusLast, NEW t \in Stoppers, StopStep(t)
  PROVE  NothingLeftBehind'
<1>1. stopper \in [Stoppers -> Places] BY StoppersType
<1>2. stopper[t] \in Places BY <1>1
<1>3. /\ \A u \in Stoppers \ {t} : stopper'[u] = stopper[u]
      /\ listening' \subseteq listening /\ looping' \subseteq looping
  BY StopStepMoves
<1>4. ASSUME NEW u \in Stoppers \ {t}
      PROVE  /\ stopper'[u].pc # "none" => stopper'[u].at \in 1..Len(StopOrder)
             /\ LeftBehind(u)' \cap (listening' \cup looping') = {}
             /\ stopper'[u].pc = "cancel" => StopOrder[stopper'[u].at] \notin listening'
  <2>1. stopper'[u] = stopper[u] BY <1>3
  <2>2. LeftBehind(u)' = LeftBehind(u)
    BY <2>1 DEF LeftBehind, AmongServices, PastServices
  <2> QED BY <1>3, <2>1, <2>2 DEF NothingLeftBehind, Stopping
<1>5. stopper[t].pc # "none"
  BY DEF StopStep, StopPlain, AskBus, Connect, StopListening, StopTasks, CloseBus, ForgetBus
<1>6. /\ stopper[t].at \in 1..7
      /\ LeftBehind(t) \cap (listening \cup looping) = {}
      /\ stopper[t].pc = "cancel" => Stopping(t) \notin listening
  BY <1>5, OrderFacts DEF NothingLeftBehind
<1>7. /\ stopper'[t].pc # "none" => stopper'[t].at \in 1..7
      /\ LeftBehind(t)' \cap (listening' \cup looping') = {}
      /\ stopper'[t].pc = "cancel" => StopOrder[stopper'[t].at] \notin listening'
  <2>1. ASSUME stopper'[t].at = stopper[t].at, stopper'[t].pc # "cancel",
               \/ AmongServices(t) /\ AmongServices(t)'
               \/ PastServices(t) /\ PastServices(t)'
        PROVE  /\ stopper'[t].pc # "none" => stopper'[t].at \in 1..7
               /\ LeftBehind(t)' \cap (listening' \cup looping') = {}
               /\ stopper'[t].pc = "cancel" => StopOrder[stopper'[t].at] \notin listening'
    <3>1. LeftBehind(t)' = LeftBehind(t)
      BY <2>1 DEF LeftBehind, AmongServices, PastServices
    <3> QED BY <1>3, <1>6, <2>1, <3>1
  <2>2. CASE StopPlain(t)
    <3>1. /\ stopper'[t].at = stopper[t].at /\ stopper'[t].pc = "cancel"
          /\ listening' = listening /\ looping' = looping
      BY <1>1, <1>2, <2>2 DEF StopPlain, Moved, Places
    <3>2. LeftBehind(t)' = LeftBehind(t)
      BY <2>2, <3>1 DEF StopPlain, LeftBehind, AmongServices
    <3>3. listening \subseteq Subscribers BY DEF StopTypeOK
    <3>4. StopOrder[stopper'[t].at] \notin listening'
      BY <2>2, <3>1, <3>3 DEF StopPlain, Stopping
    <3> QED BY <1>6, <3>1, <3>2, <3>4
  <2>3. CASE AskBus(t)
    <3>1. stopper'[t].at = stopper[t].at /\ stopper'[t].pc \in {"connect", "unsubscribe"}
      BY <1>1, <1>2, <2>3 DEF AskBus, Places
    <3>2. AmongServices(t) /\ AmongServices(t)' BY <2>3, <3>1 DEF AskBus, AmongServices
    <3> QED BY <2>1, <3>1, <3>2
  <2>4. CASE Connect(t)
    <3>1. stopper'[t].at = stopper[t].at /\ stopper'[t].pc = "unsubscribe"
      BY <1>1, <1>2, <2>4 DEF Connect, Moved, Places
    <3>2. AmongServices(t) /\ AmongServices(t)' BY <2>4, <3>1 DEF Connect, AmongServices
    <3> QED BY <2>1, <3>1, <3>2
  <2>5. CASE StopListening(t)
    <3>1. /\ stopper'[t].at = stopper[t].at /\ stopper'[t].pc = "cancel"
          /\ looping' = looping
      BY <1>1, <1>2, <2>5 DEF StopListening, Moved, Places
    <3>2. LeftBehind(t)' = LeftBehind(t)
      BY <2>5, <3>1 DEF StopListening, LeftBehind, AmongServices
    <3>3. Stopping(t) \notin listening'
      BY <2>5 DEF StopListening, FirstBusLast
    <3>4. StopOrder[stopper'[t].at] \notin listening' BY <3>1, <3>3 DEF Stopping
    <3> QED BY <1>3, <1>6, <3>1, <3>2, <3>4
  <2>6. CASE StopTasks(t)
    <3>1. /\ listening' = listening /\ looping' = looping \ {Stopping(t)}
          /\ Stopping(t) \notin listening /\ stopper[t].pc = "cancel"
      BY <1>6, <2>6 DEF StopTasks, AllCancelled
    <3>2. LeftBehind(t) = {StopOrder[i] : i \in 1..(stopper[t].at - 1)}
      BY <3>1 DEF LeftBehind, AmongServices
    <3>3. \A i \in 1..stopper[t].at :
            StopOrder[i] \notin listening' /\ StopOrder[i] \notin looping'
      <4> SUFFICES ASSUME NEW i \in 1..stopper[t].at
                   PROVE  StopOrder[i] \notin listening' /\ StopOrder[i] \notin looping'
        OBVIOUS
      <4>1. CASE i = stopper[t].at BY <3>1, <4>1 DEF Stopping
      <4>2. CASE i # stopper[t].at
        <5>1. i \in 1..(stopper[t].at - 1) BY <1>6, <4>2
        <5>2. StopOrder[i] \in LeftBehind(t) BY <3>2, <5>1
        <5> QED BY <1>6, <3>1, <5>2
      <4> QED BY <4>1, <4>2
    <3>4. CASE stopper[t].at = 7
      <4>1. stopper'[t].pc = "bus" /\ stopper'[t].at = 7
        BY <1>1, <1>2, <2>6, <3>4, OrderFacts DEF StopTasks, NextService, Moved, Places
      <4>2. LeftBehind(t)' = ServiceNames
        BY <4>1 DEF LeftBehind, AmongServices, PastServices
      <4>3. \A s \in ServiceNames : \E i \in 1..7 : s = StopOrder[i]
        <5>1. /\ 1 \in 1..7 /\ 2 \in 1..7 /\ 3 \in 1..7 /\ 4 \in 1..7
              /\ 5 \in 1..7 /\ 6 \in 1..7 /\ 7 \in 1..7
          OBVIOUS
        <5> QED BY <5>1, OrderFacts
      <4> QED BY <3>3, <3>4, <4>1, <4>2, <4>3
    <3>5. CASE stopper[t].at # 7
      <4>1. stopper'[t].pc = "service" /\ stopper'[t].at = stopper[t].at + 1
        BY <1>1, <1>2, <2>6, <3>5, OrderFacts DEF StopTasks, NextService, Moved, Places
      <4>2. LeftBehind(t)' = {StopOrder[i] : i \in 1..(stopper'[t].at - 1)}
        BY <4>1 DEF LeftBehind, AmongServices
      <4>3. stopper'[t].at - 1 = stopper[t].at /\ stopper'[t].at \in 1..7
        BY <1>6, <3>5, <4>1
      <4> QED BY <3>3, <4>1, <4>2, <4>3
    <3> QED BY <3>4, <3>5
  <2>7. CASE CloseBus(t)
    <3>1. stopper'[t].at = stopper[t].at /\ stopper'[t].pc \in {"db", "closing"}
      BY <1>1, <1>2, <2>7 DEF CloseBus, Moved, Places
    <3> QED BY <2>1, <2>7, <3>1 DEF CloseBus, PastServices
  <2>8. CASE ForgetBus(t)
    <3>1. stopper'[t].at = stopper[t].at /\ stopper'[t].pc = "db"
      BY <1>1, <1>2, <2>8 DEF ForgetBus, Moved, Places
    <3> QED BY <2>1, <2>8, <3>1 DEF ForgetBus, PastServices
  <2> QED BY <2>2, <2>3, <2>4, <2>5, <2>6, <2>7, <2>8 DEF StopStep
<1> QED BY <1>4, <1>7, OrderFacts DEF NothingLeftBehind, Stopping

\* The first bus goes last: it is closed by a stop that is past every service.
LEMMA FirstBusStep ==
  ASSUME StopTypeOK, NothingLeftBehind, FirstBusLast, NEW t \in Stoppers, StopStep(t)
  PROVE  FirstBusLast'
<1>1. stopper \in [Stoppers -> Places] /\ busesMade \in Nat BY StoppersType
<1>2. stopper[t] \in Places BY <1>1
<1>3. /\ \A u \in Stoppers \ {t} : stopper'[u] = stopper[u]
      /\ listening' \subseteq listening
  BY StopStepMoves
<1>4. theBus \in 0..busesMade /\ 1 <= busesMade
  BY ForgetfulIsFinite DEF StopTypeOK
<1>5. ASSUME stopper[t].pc \in {"bus", "closing"} PROVE listening = {}
  <2>1. LeftBehind(t) = ServiceNames
    BY <1>5 DEF LeftBehind, AmongServices, PastServices
  <2>2. listening \subseteq ServiceNames
    BY OrderFacts DEF StopTypeOK, Subscribers
  <2> QED BY <2>1, <2>2 DEF NothingLeftBehind
<1>6. 1 \in busTasks' => 1 \in busTasks
  <2>1. CASE Connect(t) BY <2>1 DEF Connect, FirstBusLast
  <2>2. CASE ~Connect(t)
    BY <2>2 DEF StopStep, StopPlain, AskBus, StopListening, StopTasks, CloseBus, ForgetBus
  <2> QED BY <2>1, <2>2
<1>7. theBus' # 1 => listening' = {} /\ 1 \notin busTasks'
  <2>1. CASE theBus # 1 BY <1>3, <1>6, <2>1 DEF FirstBusLast
  <2>2. CASE theBus = 1 /\ ~ForgetBus(t)
    BY <1>1, <2>2 DEF StopStep, StopPlain, AskBus, Connect, StopListening, StopTasks, CloseBus
  <2>3. CASE ForgetBus(t) BY <1>3, <1>5, <1>6, <2>3 DEF ForgetBus, FirstBusLast
  <2> QED BY <2>1, <2>2, <2>3
<1>8. ASSUME NEW u \in Stoppers \ {t}
      PROVE  /\ stopper'[u].pc = "unsubscribe" /\ stopper'[u].bus # 1 => listening' = {}
             /\ stopper'[u].pc = "connect" => stopper'[u].bus > 1 /\ listening' = {}
             /\ stopper'[u].pc \in {"closing", "db", "done"} => 1 \notin busTasks'
  BY <1>3, <1>6, <1>8 DEF FirstBusLast
<1>9. /\ stopper'[t].pc = "unsubscribe" /\ stopper'[t].bus # 1 => listening' = {}
      /\ stopper'[t].pc = "connect" => stopper'[t].bus > 1 /\ listening' = {}
      /\ stopper'[t].pc \in {"closing", "db", "done"} => 1 \notin busTasks'
  <2>1. CASE StopPlain(t) \/ StopListening(t)
    <3>1. stopper'[t].pc = "cancel"
      BY <1>1, <1>2, <2>1 DEF StopPlain, StopListening, Moved, Places
    <3> QED BY <3>1
  <2>2. CASE AskBus(t) /\ theBus # 0
    <3>1. stopper'[t].pc = "unsubscribe" /\ stopper'[t].bus = theBus
      <4>1. stopper' = [stopper EXCEPT ![t] =
                         [stopper[t] EXCEPT !.pc = "unsubscribe", !.bus = theBus]]
        BY <1>1, <2>2 DEF AskBus
      <4> QED BY <1>1, <1>2, <4>1 DEF Places
    <3> QED BY <1>3, <3>1 DEF FirstBusLast
  <2>3. CASE AskBus(t) /\ theBus = 0
    <3>1. stopper'[t].pc = "connect" /\ stopper'[t].bus = busesMade + 1
      <4>1. stopper' = [stopper EXCEPT ![t] =
                         [stopper[t] EXCEPT !.pc = "connect", !.bus = busesMade + 1]]
        BY <1>1, <2>3 DEF AskBus
      <4> QED BY <1>1, <1>2, <4>1 DEF Places
    <3>2. busesMade + 1 > 1 BY <1>1, <1>4
    <3> QED BY <1>3, <2>3, <3>1, <3>2 DEF FirstBusLast
  <2>4. CASE Connect(t)
    <3>1. stopper'[t].pc = "unsubscribe" /\ listening' = listening
      BY <1>1, <1>2, <2>4 DEF Connect, Moved, Places
    <3> QED BY <2>4, <3>1 DEF Connect, FirstBusLast
  <2>5. CASE StopTasks(t)
    <3>1. stopper'[t].pc \in {"bus", "service"}
      BY <1>1, <1>2, <2>5 DEF StopTasks, NextService, Moved, Places
    <3> QED BY <3>1
  <2>6. CASE CloseBus(t)
    <3>1. stopper'[t].pc \in {"db", "closing"}
      BY <1>1, <1>2, <2>6 DEF CloseBus, Moved, Places
    <3>2. 1 \notin busTasks' BY <2>6 DEF CloseBus, FirstBusLast
    <3> QED BY <3>1, <3>2
  <2>7. CASE ForgetBus(t)
    <3>1. stopper'[t].pc = "db" BY <1>1, <1>2, <2>7 DEF ForgetBus, Moved, Places
    <3>2. 1 \notin busTasks' BY <1>6, <2>7 DEF ForgetBus, FirstBusLast
    <3> QED BY <3>1, <3>2
  <2> QED BY <2>1, <2>2, <2>3, <2>4, <2>5, <2>6, <2>7 DEF StopStep
<1> QED BY <1>7, <1>8, <1>9 DEF FirstBusLast

\* A stop takes a guard away only behind what it guards.
LEMMA GuardStep ==
  ASSUME StopTypeOK, NothingLeftBehind, FirstBusLast, GuardedWhileTrading,
         NEW t \in Stoppers, StopStep(t)
  PROVE  GuardedWhileTrading'
<1>1. listening' \subseteq listening /\ looping' \subseteq looping
        /\ life' = life /\ life.pc = "stopping"
  BY StopStepMoves
<1>2. /\ "trade" \in listening => {"risk", "router"} \subseteq listening
      /\ "strategy" \in looping => "trade" \in listening
  BY <1>1 DEF GuardedWhileTrading
<1>3. CASE ~StopListening(t)
  <2>1. listening' = listening
    BY <1>3 DEF StopStep, StopPlain, AskBus, Connect, StopTasks, CloseBus, ForgetBus
  <2> QED BY <1>1, <1>2, <2>1 DEF GuardedWhileTrading
<1>4. CASE StopListening(t)
  <2>1. /\ listening' = listening \/ listening' = listening \ {Stopping(t)}
        /\ looping' = looping
    BY <1>4 DEF StopListening
  <2>2. /\ stopper[t].at \in 1..7
        /\ \A i \in 1..(stopper[t].at - 1) :
             StopOrder[i] \notin listening /\ StopOrder[i] \notin looping
    BY <1>4, OrderFacts DEF StopListening, NothingLeftBehind, LeftBehind, AmongServices
  <2>3. CASE Stopping(t) \in {"risk", "router"}
    <3>1. stopper[t].at \in {5, 6} BY <2>2, <2>3, OrderFacts DEF Stopping
    <3>2. 4 \in 1..(stopper[t].at - 1) /\ 3 \in 1..(stopper[t].at - 1) BY <2>2, <3>1
    <3>3. "trade" \notin listening /\ "strategy" \notin looping
      BY <2>2, <3>2, OrderFacts
    <3> QED BY <1>1, <3>3 DEF GuardedWhileTrading
  <2>4. CASE Stopping(t) = "trade"
    <3>1. stopper[t].at = 4 BY <2>2, <2>4, OrderFacts DEF Stopping
    <3>2. 3 \in 1..(stopper[t].at - 1) BY <3>1
    <3>3. "strategy" \notin looping BY <2>2, <3>2, OrderFacts
    <3> QED BY <1>1, <1>2, <2>1, <2>4, <3>3 DEF GuardedWhileTrading
  <2>5. CASE Stopping(t) \notin {"risk", "router", "trade"}
    BY <1>2, <2>1, <2>5 DEF GuardedWhileTrading
  <2> QED BY <2>3, <2>4, <2>5
<1> QED BY <1>3, <1>4

-----------------------------------------------------------------------------
\* What has been started so far is guarded, and in the end it is everything.
LEMMA LaunchedFacts ==
  ASSUME NEW n \in 0..7
  PROVE  /\ n < 7 => Launched(n + 1) = Launched(n) \cup {StartOrder[n + 1]}
         /\ "trade" \in Launched(n) => {"risk", "router"} \subseteq Launched(n)
         /\ "strategy" \in Launched(n) => "trade" \in Launched(n)
         /\ Launched(0) = {} /\ Launched(7) = ServiceNames
<1>1. n < 7 => Launched(n + 1) = Launched(n) \cup {StartOrder[n + 1]}
  <2>1. n < 7 => \A i : i \in 1..(n + 1) <=> i \in 1..n \/ i = n + 1 OBVIOUS
  <2> QED BY <2>1 DEF Launched
<1>2. "trade" \in Launched(n) => n >= 4
  <2>1. \A i \in 1..n : i < 4 => i \in {1, 2, 3} OBVIOUS
  <2>2. \A i \in 1..n : n < 4 => i < 4 OBVIOUS
  <2> QED BY <2>1, <2>2, OrderFacts DEF Launched
<1>3. "strategy" \in Launched(n) => n >= 5
  <2>1. \A i \in 1..n : i < 5 => i \in {1, 2, 3, 4} OBVIOUS
  <2>2. \A i \in 1..n : n < 5 => i < 5 OBVIOUS
  <2> QED BY <2>1, <2>2, OrderFacts DEF Launched
<1>4. n >= 4 => {"risk", "router", "trade"} \subseteq Launched(n)
  <2>1. n >= 4 => 2 \in 1..n /\ 3 \in 1..n /\ 4 \in 1..n OBVIOUS
  <2> QED BY <2>1, OrderFacts DEF Launched
<1>5. Launched(0) = {} BY DEF Launched
<1>6. Launched(7) = ServiceNames
  <2>1. Launched(7) \subseteq ServiceNames BY OrderFacts DEF Launched
  <2>2. /\ 1 \in 1..7 /\ 2 \in 1..7 /\ 3 \in 1..7 /\ 4 \in 1..7
        /\ 5 \in 1..7 /\ 6 \in 1..7 /\ 7 \in 1..7
    OBVIOUS
  <2>3. ServiceNames \subseteq Launched(7) BY <2>2, OrderFacts DEF Launched
  <2> QED BY <2>1, <2>3
<1>7. n >= 5 => n >= 4 OBVIOUS
<1> QED BY <1>1, <1>2, <1>3, <1>4, <1>5, <1>6, <1>7

\* Until the first signal the stops say nothing.
LEMMA NobodyStops ==
  ASSUME StopTypeOK, theBus = 1, \A t \in Stoppers : stopper[t] = NotStopping
  PROVE  NothingLeftBehind /\ FirstBusLast /\ (life.pc # "ended" => Finished)
<1>1. \A t \in Stoppers : stopper[t].pc = "none" BY DEF NotStopping
<1>2. \A t \in Stoppers : LeftBehind(t) = {}
  BY <1>1 DEF LeftBehind, AmongServices, PastServices
<1> QED BY <1>1, <1>2 DEF NothingLeftBehind, FirstBusLast, Finished

LEMMA StoppedInit == StopInit => Stopped
<1> SUFFICES ASSUME StopInit PROVE Stopped OBVIOUS
<1>1. /\ life = [pc |-> "starting", at |-> 0] /\ listening = {} /\ looping = {}
      /\ theBus = 1 /\ busTasks = {1} /\ busesMade = 1 /\ dbOpen = TRUE
      /\ stopper = [t \in Stoppers |-> NotStopping]
  BY DEF StopInit
<1>2. \A t \in Stoppers : stopper[t] = NotStopping BY <1>1
<1>3. StopTypeOK
  <2>1. Cardinality(Stoppers) \in Nat BY ForgetfulIsFinite
  <2>2. 1 \in 1..(Cardinality(Stoppers) + 1) BY <2>1
  <2>3. NotStopping \in [at : 0..Len(StopOrder), bus : 0..busesMade,
          pc : {"none", "service", "connect", "unsubscribe", "cancel", "bus", "closing",
                "db", "done"}]
    BY <1>1, OrderFacts DEF NotStopping
  <2>4. life \in [pc : {"starting"}, at : 0..Len(StartOrder)] BY <1>1, OrderFacts
  <2> QED BY <1>1, <2>2, <2>3, <2>4 DEF StopTypeOK
<1>4. NothingLeftBehind /\ FirstBusLast /\ Finished BY <1>1, <1>2, <1>3, NobodyStops
<1>5. StartedAsOrdered BY <1>1, <1>2, LaunchedFacts DEF StartedAsOrdered
<1>6. FewBuses
  <2>1. Cardinality(Forgetful) \in Nat BY ForgetfulIsFinite
  <2> QED BY <1>1, <2>1 DEF FewBuses
<1>7. GuardedWhileTrading BY <1>1 DEF GuardedWhileTrading
<1> QED BY <1>3, <1>4, <1>5, <1>6, <1>7 DEF Stopped

\* The actions of the start.
LEMMA StartStep ==
  ASSUME Stopped, StartService \/ StartFails \/ Started
  PROVE  Stopped'
<1>1. life.pc = "starting" BY DEF StartService, StartFails, Started
<1>2. /\ life \in [pc : {"starting"}, at : 0..7] /\ life.at \in 0..7
      /\ theBus = 1 /\ \A t \in Stoppers : stopper[t] = NotStopping
      /\ listening = Launched(life.at) \cap Subscribers
      /\ looping = Launched(life.at) \cap WithTasks
  BY <1>1, OrderFacts DEF Stopped, StopTypeOK, StartedAsOrdered
<1>3. /\ UNCHANGED <<theBus, busTasks, busesMade, dbOpen, stopper>>
      /\ stopper' = stopper /\ theBus' = theBus
  BY DEF StartService, StartFails, Started
<1>4. FewBuses' BY <1>3 DEF Stopped, FewBuses, Forgetful
<1>5. ASSUME /\ listening' \subseteq Subscribers /\ looping' \subseteq WithTasks
             /\ life' \in [pc : {"starting"}, at : 0..7]
                  \cup [pc : {"running", "stopping", "ended", "failed"}]
             /\ life'.pc # "ended"
      PROVE  (StopTypeOK /\ NothingLeftBehind /\ FirstBusLast /\ Finished)'
  <2>1. StopTypeOK' BY <1>3, <1>5, OrderFacts DEF Stopped, StopTypeOK
  <2>2. /\ (theBus = 1)' /\ (\A t \in Stoppers : stopper[t] = NotStopping)'
        /\ (life.pc # "ended")'
    BY <1>2, <1>3, <1>5
  <2>3. (NothingLeftBehind /\ FirstBusLast /\ (life.pc # "ended" => Finished))'
    <3>1. \A t \in Stoppers : stopper'[t].pc = "none" BY <2>2 DEF NotStopping
    <3>2. \A t \in Stoppers : LeftBehind(t)' = {}
      BY <3>1 DEF LeftBehind, AmongServices, PastServices
    <3> QED BY <2>2, <3>1, <3>2 DEF NothingLeftBehind, FirstBusLast, Finished
  <2> QED BY <2>1, <2>2, <2>3
<1>6. CASE StartService
  <2>1. life.at + 1 \in 0..7 /\ life.at < 7 BY <1>2, <1>6, OrderFacts DEF StartService
  <2>2. life' = [life EXCEPT !.at = life.at + 1] BY <1>6 DEF StartService
  <2>3. life' \in [pc : {"starting"}, at : 0..7] /\ life'.at = life.at + 1
          /\ life'.pc = "starting"
    BY <1>2, <2>1, <2>2
  <2>4. Launched(life.at + 1) = Launched(life.at) \cup {StartOrder[life.at + 1]}
    BY <1>2, <2>1, LaunchedFacts
  <2>5. /\ listening' = Launched(life'.at) \cap Subscribers
        /\ looping' = Launched(life'.at) \cap WithTasks
    BY <1>2, <1>6, <2>3, <2>4 DEF StartService
  <2>6. (StopTypeOK /\ NothingLeftBehind /\ FirstBusLast /\ Finished)'
    BY <1>5, <2>3, <2>5
  <2>7. StartedAsOrdered'
    <3>1. \A n : Launched(n)' = Launched(n) BY DEF Launched
    <3> QED BY <1>2, <1>3, <2>3, <2>5, <3>1 DEF StartedAsOrdered, Launched
  <2>8. GuardedWhileTrading'
    <3>1. /\ "trade" \in Launched(life'.at) =>
               {"risk", "router"} \subseteq Launched(life'.at)
          /\ "strategy" \in Launched(life'.at) => "trade" \in Launched(life'.at)
      BY <2>1, <2>3, LaunchedFacts
    <3> QED BY <2>5, <3>1 DEF GuardedWhileTrading, Subscribers
  <2> QED BY <1>4, <2>6, <2>7, <2>8 DEF Stopped
<1>7. CASE StartFails
  <2>1. life' = [pc |-> "failed"] /\ listening' = listening /\ looping' = looping
    BY <1>7 DEF StartFails
  <2>2. (StopTypeOK /\ NothingLeftBehind /\ FirstBusLast /\ Finished)'
    BY <1>2, <1>5, <2>1
  <2> QED BY <1>4, <2>1, <2>2 DEF Stopped, StartedAsOrdered, GuardedWhileTrading
<1>8. CASE Started
  <2>1. life' = [pc |-> "running"] /\ listening' = listening /\ looping' = looping
          /\ life.at = 7
    BY <1>8, OrderFacts DEF Started
  <2>2. (StopTypeOK /\ NothingLeftBehind /\ FirstBusLast /\ Finished)'
    BY <1>2, <1>5, <2>1
  <2>3. listening' = Subscribers /\ looping' = WithTasks
    <3>1. Launched(7) = ServiceNames BY LaunchedFacts
    <3>2. Subscribers \subseteq ServiceNames /\ WithTasks \subseteq ServiceNames
      BY OrderFacts DEF Subscribers, WithTasks
    <3> QED BY <1>2, <2>1, <3>1, <3>2
  <2>4. StartedAsOrdered' BY <1>2, <1>3, <2>1, <2>3 DEF StartedAsOrdered
  <2>5. GuardedWhileTrading' BY <2>1, <2>3 DEF GuardedWhileTrading, Subscribers
  <2> QED BY <1>4, <2>2, <2>4, <2>5 DEF Stopped
<1> QED BY <1>6, <1>7, <1>8

\* The first step of a stop.
LEMMA BeginStep ==
  ASSUME Stopped, NEW t \in Stoppers, stopper[t] = NotStopping,
         life.pc \in {"running", "stopping"},
         stopper' = [stopper EXCEPT ![t] = BeginStop],
         life' \in [pc : {"stopping"}],
         UNCHANGED <<listening, looping, theBus, busTasks, busesMade, dbOpen>>
  PROVE  Stopped'
<1>1. stopper \in [Stoppers -> Places] BY StoppersType DEF Stopped
<1>2. /\ BeginStop.pc = "service" /\ BeginStop.at = 1 /\ BeginStop.bus = 0
      /\ stopper[t].pc = "none"
  BY DEF BeginStop, NotStopping
<1>3. stopper'[t] = BeginStop /\ \A u \in Stoppers \ {t} : stopper'[u] = stopper[u]
  BY <1>1
<1>4. StopTypeOK'
  <2>1. BeginStop \in Places BY OrderFacts, StoppersType DEF BeginStop, Places, Stopped
  <2>2. stopper' \in [Stoppers -> Places] BY <1>1, <2>1
  <2> QED BY <2>2 DEF Stopped, StopTypeOK, Places
<1>5. NothingLeftBehind'
  <2>1. LeftBehind(t)' = {}
    <3>1. 1..(1 - 1) = {} OBVIOUS
    <3> QED BY <1>2, <1>3, <3>1 DEF LeftBehind, AmongServices
  <2>2. \A u \in Stoppers \ {t} : LeftBehind(u)' = LeftBehind(u)
    BY <1>3 DEF LeftBehind, AmongServices, PastServices
  <2> QED BY <1>2, <1>3, <2>1, <2>2, OrderFacts DEF Stopped, NothingLeftBehind, Stopping
<1>6. FirstBusLast' BY <1>2, <1>3 DEF Stopped, FirstBusLast
<1>7. Finished' BY <1>2, <1>3 DEF Stopped, Finished
<1>8. FewBuses'
  <2>1. Forgetful' = Forgetful BY <1>2, <1>3 DEF Forgetful
  <2> QED BY <2>1 DEF Stopped, FewBuses
<1>9. GuardedWhileTrading' BY DEF Stopped, GuardedWhileTrading
<1>10. StartedAsOrdered' BY DEF StartedAsOrdered
<1> QED BY <1>4, <1>5, <1>6, <1>7, <1>8, <1>9, <1>10 DEF Stopped

\* The last step of a stop.
LEMMA CloseDbStep ==
  ASSUME Stopped, NEW t \in Stoppers, CloseDb(t)
  PROVE  Stopped'
<1>1. stopper \in [Stoppers -> Places] /\ stopper[t] \in Places
  BY StoppersType DEF Stopped
<1>2. /\ life.pc = "stopping" /\ stopper[t].pc = "db" /\ dbOpen' = FALSE
      /\ UNCHANGED <<listening, looping, theBus, busTasks, busesMade>>
      /\ life' = life \/ (life' = [pc |-> "ended"] /\ t = "main")
  BY DEF CloseDb, EndsWithMain
<1>3. /\ stopper' \in [Stoppers -> Places]
      /\ stopper'[t].pc = "done" /\ stopper'[t].at = stopper[t].at
      /\ \A u \in Stoppers \ {t} : stopper'[u] = stopper[u]
  BY <1>1 DEF CloseDb, Moved, Places
<1>4. StopTypeOK'
  <2>1. Places' = Places BY <1>2 DEF Places
  <2>2. life' \in [pc : {"starting"}, at : 0..Len(StartOrder)]
          \cup [pc : {"running", "stopping", "ended", "failed"}]
    BY <1>2 DEF Stopped, StopTypeOK
  <2> QED BY <1>2, <1>3, <2>2 DEF Stopped, StopTypeOK, Places
<1>5. NothingLeftBehind'
  <2>1. \A u \in Stoppers : LeftBehind(u)' = LeftBehind(u)
    BY <1>2, <1>3 DEF LeftBehind, AmongServices, PastServices
  <2> QED BY <1>2, <1>3, <2>1 DEF Stopped, NothingLeftBehind, Stopping
<1>6. FirstBusLast' BY <1>2, <1>3 DEF Stopped, FirstBusLast
<1>7. Finished' BY <1>2, <1>3 DEF Stopped, Finished
<1>8. FewBuses'
  <2>1. Forgetful' = Forgetful BY <1>2, <1>3 DEF Forgetful
  <2> QED BY <1>2, <2>1 DEF Stopped, FewBuses
<1>9. GuardedWhileTrading' BY <1>2 DEF Stopped, GuardedWhileTrading
<1>10. StartedAsOrdered' BY <1>2 DEF StartedAsOrdered
<1> QED BY <1>4, <1>5, <1>6, <1>7, <1>8, <1>9, <1>10 DEF Stopped

LEMMA StoppedStep == Stopped /\ [StopNext]_stopVars => Stopped'
<1> SUFFICES ASSUME Stopped, [StopNext]_stopVars PROVE Stopped' OBVIOUS
<1>1. CASE StartService \/ StartFails \/ Started BY <1>1, StartStep
<1>2. CASE MainStops
  <2>1. "main" \in Stoppers BY DEF Stoppers
  <2>2. life' \in [pc : {"stopping"}]
    <3>1. life.pc = "stopping" /\ life' = life BY <1>2 DEF MainStops
    <3>2. life \in [pc : {"starting"}, at : 0..Len(StartOrder)]
            \cup [pc : {"running", "stopping", "ended", "failed"}]
      BY DEF Stopped, StopTypeOK
    <3> QED BY <3>1, <3>2
  <2> QED BY <1>2, <2>1, <2>2, BeginStep DEF MainStops
<1>3. ASSUME NEW t \in Signals, SignalArrives(t) PROVE Stopped'
  BY <1>3, BeginStep DEF SignalArrives, Stoppers
<1>4. ASSUME NEW t \in Stoppers, StopStep(t) PROVE Stopped'
  <2>1. /\ StopTypeOK /\ FewBuses /\ NothingLeftBehind /\ FirstBusLast
        /\ GuardedWhileTrading /\ Finished
    BY DEF Stopped
  <2>2. StopTypeOK' /\ NothingLeftBehind' /\ FirstBusLast' /\ FewBuses'
          /\ GuardedWhileTrading'
    BY <1>4, <2>1, StopStepType, BehindStep, FirstBusStep, FewBusesStep, GuardStep
  <2>3. /\ life' = life /\ life.pc = "stopping" /\ dbOpen' = dbOpen
        /\ \A u \in Stoppers \ {t} : stopper'[u] = stopper[u]
    BY <1>4, <2>1, StopStepMoves
  <2>4. stopper'[t].pc # "done"
    <3>1. stopper \in [Stoppers -> Places] /\ stopper[t] \in Places
      BY <2>1, StoppersType
    <3> QED BY <1>4, <3>1
      DEF StopStep, StopPlain, AskBus, Connect, StopListening, StopTasks, CloseBus,
          ForgetBus, NextService, Moved, Places
  <2>5. Finished' BY <2>1, <2>3, <2>4 DEF Finished
  <2>6. StartedAsOrdered' BY <2>3 DEF StartedAsOrdered
  <2> QED BY <2>2, <2>5, <2>6 DEF Stopped
<1>5. ASSUME NEW t \in Stoppers, CloseDb(t) PROVE Stopped' BY <1>5, CloseDbStep
<1>6. ASSUME UNCHANGED stopVars PROVE Stopped'
  BY <1>6 DEF stopVars, Stopped, StopTypeOK, StartedAsOrdered, NothingLeftBehind,
              LeftBehind, AmongServices, PastServices, Stopping, FirstBusLast, Finished,
              FewBuses, Forgetful, GuardedWhileTrading
<1> QED BY <1>1, <1>2, <1>3, <1>4, <1>5, <1>6 DEF StopNext

\* However many signals arrive and however the stops they start overtake each
\* other: no trader is left without its guards, and the process ends with
\* nothing that listens or loops, its database closed and its first bus silent.
THEOREM StopsAreInOrder == StopSpec => [](StopTypeOK /\ StopsInOrder)
<1>1. Stopped => StopTypeOK /\ StopsInOrder
  <2> SUFFICES ASSUME Stopped PROVE StopTypeOK /\ StopsInOrder OBVIOUS
  <2>1. StopTypeOK /\ GuardedWhileTrading BY DEF Stopped
  <2>2. ASSUME life.pc = "ended"
        PROVE  listening = {} /\ looping = {} /\ ~dbOpen /\ 1 \notin busTasks
    <3>1. stopper["main"].pc = "done" /\ "main" \in Stoppers
      BY <2>2 DEF Stopped, Finished, Stoppers
    <3>2. ~dbOpen /\ 1 \notin busTasks BY <3>1 DEF Stopped, Finished, FirstBusLast
    <3>3. LeftBehind("main") = ServiceNames
      BY <3>1 DEF LeftBehind, AmongServices, PastServices
    <3>4. listening \subseteq ServiceNames /\ looping \subseteq ServiceNames
      BY <2>1, OrderFacts DEF StopTypeOK, Subscribers, WithTasks
    <3> QED BY <3>1, <3>2, <3>3, <3>4 DEF Stopped, NothingLeftBehind
  <2> QED BY <2>1, <2>2 DEF StopsInOrder, EndsClosed
<1> QED BY StoppedInit, StoppedStep, <1>1, PTL DEF StopSpec

-----------------------------------------------------------------------------
(***************************************************************************)
(* All parts together.                                                     *)
(***************************************************************************)
ServicesStep ==
  /\ [HealNext]_healVars /\ [OrderNext]_orderVars /\ [FeedNext]_feedVars
  /\ [ChainNext]_chainVars /\ [MonitorNext]_monitorVars /\ [WfaNext]_wfaVars

WebAppStep ==
  /\ [WebNext]_webVars /\ [AccountsNext]_accountVars /\ [ConfigNext]_configVars
  /\ [CastNext]_castVars

\* The parts share no state: what one of them does the others see as a
\* stutter, so each behaves as it does alone.
LEMMA PartsAreApart ==
  [Next]_vars => ServicesStep /\ WebAppStep /\ [StopNext]_stopVars
<1>1. ASSUME UNCHANGED serviceVars PROVE ServicesStep
  BY <1>1 DEF serviceVars, ServicesStep
<1>2. ASSUME UNCHANGED webAppVars PROVE WebAppStep
  BY <1>2 DEF webAppVars, WebAppStep
<1>3. ASSUME Services, UNCHANGED <<part, webAppVars, stopVars>>
      PROVE  ServicesStep /\ WebAppStep /\ [StopNext]_stopVars
  <2>1. ServicesStep BY <1>3 DEF Services, ServicesStep
  <2> QED BY <1>2, <1>3, <2>1
<1>4. ASSUME WebApp, UNCHANGED <<part, serviceVars, stopVars>>
      PROVE  ServicesStep /\ WebAppStep /\ [StopNext]_stopVars
  <2>1. WebAppStep BY <1>4 DEF WebApp, WebAppStep
  <2> QED BY <1>1, <1>4, <2>1
<1>5. ASSUME Process, UNCHANGED <<part, serviceVars, webAppVars>>
      PROVE  ServicesStep /\ WebAppStep /\ [StopNext]_stopVars
  BY <1>1, <1>2, <1>5 DEF Process
<1>6. ASSUME UNCHANGED vars PROVE ServicesStep /\ WebAppStep /\ [StopNext]_stopVars
  BY <1>1, <1>2, <1>6 DEF vars
<1> QED BY <1>3, <1>4, <1>5, <1>6 DEF Next

\* So what has been proved of each part by itself holds of all of them.
THEOREM PartsBehaveAsAlone ==
  Spec => /\ HealSpec /\ OrderSpec /\ FeedSpec /\ ChainSpec /\ MonitorSpec /\ WfaSpec
          /\ WebSpec /\ AccountsSpec /\ ConfigSpec /\ CastSpec /\ StopSpec
<1>1. Init => /\ HealInit /\ OrderInit /\ FeedInit /\ ChainInit /\ MonitorInit /\ WfaInit
              /\ WebInit /\ AccountsInit /\ ConfigInit /\ CastInit /\ StopInit
  BY DEF Init
<1>2. ServicesStep =>
        /\ [HealNext]_healVars /\ [OrderNext]_orderVars /\ [FeedNext]_feedVars
        /\ [ChainNext]_chainVars /\ [MonitorNext]_monitorVars /\ [WfaNext]_wfaVars
  BY DEF ServicesStep
<1>3. WebAppStep =>
        /\ [WebNext]_webVars /\ [AccountsNext]_accountVars /\ [ConfigNext]_configVars
        /\ [CastNext]_castVars
  BY DEF WebAppStep
<1> QED
  BY <1>1, <1>2, <1>3, PartsAreApart, PTL
  DEF Spec, HealSpec, OrderSpec, FeedSpec, ChainSpec, MonitorSpec, WfaSpec, WebSpec,
      AccountsSpec, ConfigSpec, CastSpec, StopSpec

\* Whatever the services, the web application and the stop of the process do,
\* their variables keep to their types.
THEOREM ServicesTypeCorrect == Spec => []ServicesTypeOK
<1>1. Spec => /\ []HealTypeOK /\ []OrderTypeOK /\ []FeedTypeOK /\ []ChainTypeOK
              /\ []MonitorTypeOK /\ []WfaTypeOK
  BY PartsBehaveAsAlone, HealTypeCorrect, OrdersAreAccountedFor, TickersAreShared,
     TimeoutsAreCountedOnce, PanicsHaveAReason, FoldsAreRight, PTL
<1>2. Spec => []WebTypeOK /\ []AccountsTypeOK /\ []ConfigTypeOK /\ []CastTypeOK /\ []StopTypeOK
  BY PartsBehaveAsAlone, LockoutsAreRight, OnePrimaryAccount, ReloadTypeCorrect,
     BroadcastsAreSafe, StopsAreInOrder, PTL
<1>3. /\ HealTypeOK /\ OrderTypeOK /\ FeedTypeOK /\ ChainTypeOK /\ MonitorTypeOK /\ WfaTypeOK
      /\ WebTypeOK /\ AccountsTypeOK /\ ConfigTypeOK /\ CastTypeOK /\ StopTypeOK
      => ServicesTypeOK
  BY DEF ServicesTypeOK
<1> QED BY <1>1, <1>2, <1>3, PTL

=============================================================================
