---------------------------- MODULE PlatformProofs ----------------------------
(***************************************************************************)
(* What every service stands on: the sessions of the database, the client  *)
(* of the outbound calls and the limiter in front of the routes.           *)
(***************************************************************************)
EXTENDS TenantSessions, HttpClient, RateLimiter, TLAPS

(***************************************************************************)
(* Sessions.  Whatever the number of sessions, connections, workspaces and *)
(* users, a session that may run a statement reaches the rows it was bound *)
(* to.  OnlyOwnRows is not inductive: a statement may run on any connection*)
(* of the pool, so that it takes what the pool hands out into account.     *)
(***************************************************************************)

\* A connection belongs to one session, the pool has only clean ones, and the
\* connection of an open session says what the session says; an open session
\* that has none yet is bound to nothing.
Exclusive ==
  \A c, d \in Clients : c # d /\ sess[c].conn # None => sess[c].conn # sess[d].conn
PoolIsClean == \A k \in Connections : Free(k) => settings[k] = Unset
InStep ==
  \A c \in Clients :
    sess[c].phase = "open" =>
      IF sess[c].conn = None THEN sess[c].context = Unset
                             ELSE settings[sess[c].conn] = sess[c].context

SessionInv == TenantSessionsTypeOK /\ Exclusive /\ PoolIsClean /\ InStep

LEMMA UnsetType == Unset \in Context
  BY DEF Unset, Context

\* Setting the context leaves the session in step with the connection it took.
LEMMA ApplyStep ==
  ASSUME SessionInv, NEW c \in Clients, NEW context \in Context, NEW k \in Connections,
         Apply(c, context, k)
  PROVE  SessionInv'
<1> USE TenantSessionsAssumption DEF SessionInv, TenantSessionsTypeOK, Sessions, Apply, Available, Free
<1>1. k \in Connections /\ k # None
  OBVIOUS
<1>2. sess[c].conn = k \/ (sess[c].conn = None /\ \A d \in Clients : sess[d].conn # k)
  OBVIOUS
<1>3. \A d \in Clients \ {c} : sess[d].conn # k /\ sess'[d] = sess[d]
  BY <1>2 DEF Exclusive
<1>4. sess'[c] = [phase |-> "open", conn |-> k, context |-> context]
  OBVIOUS
<1>5. TenantSessionsTypeOK'
  BY <1>4
<1>6. Exclusive'
  BY <1>3, <1>4 DEF Exclusive
<1>7. PoolIsClean'
  <2> SUFFICES ASSUME NEW x \in Connections, Free(x)' PROVE settings'[x] = Unset
    BY DEF PoolIsClean
  <2>1. x # k
    BY <1>4
  <2>2. Free(x)
    BY <1>2, <1>3, <2>1
  <2> QED BY <2>1, <2>2 DEF PoolIsClean
<1>8. InStep'
  <2> SUFFICES ASSUME NEW d \in Clients, sess'[d].phase = "open"
               PROVE  IF sess'[d].conn = None THEN sess'[d].context = Unset
                      ELSE settings'[sess'[d].conn] = sess'[d].context
    BY DEF InStep
  <2>1. CASE d = c
    BY <2>1, <1>1, <1>4
  <2>2. CASE d # c
    BY <2>2, <1>3 DEF InStep
  <2> QED BY <2>1, <2>2
<1> QED BY <1>5, <1>6, <1>7, <1>8

\* A statement runs on the connection of its transaction, or on a clean one.
LEMMA StatementStep ==
  ASSUME SessionInv, NEW c \in Clients, NEW k \in Connections, RunStatement(c, k)
  PROVE  SessionInv'
<1> USE TenantSessionsAssumption DEF SessionInv, TenantSessionsTypeOK, Sessions
<1>1. /\ sess' = [sess EXCEPT ![c].conn = k] /\ settings' = settings
      /\ sess[c].phase = "open"
  BY DEF RunStatement
<1>2. sess[c].conn = k \/ (sess[c].conn = None /\ Free(k))
  BY DEF RunStatement, Available
<1>3. \A d \in Clients \ {c} : sess[d].conn # k
  BY <1>2 DEF Exclusive, Free
<1>4. settings[k] = sess[c].context
  BY <1>1, <1>2 DEF InStep, PoolIsClean
<1>5. TenantSessionsTypeOK'
  BY <1>1
<1>6. Exclusive'
  BY <1>1, <1>3 DEF Exclusive
<1>7. PoolIsClean'
  BY <1>1, <1>2 DEF PoolIsClean, Free
<1>8. InStep'
  BY <1>1, <1>4 DEF InStep
<1> QED BY <1>5, <1>6, <1>7, <1>8

\* At the end of a transaction the connection goes back clean.
LEMMA ReturnStep ==
  ASSUME SessionInv, NEW c \in Clients, NEW s \in Sessions,
         s.conn = None, s.phase = "open" => s.context = Unset,
         settings' = Returned(c), sess' = [sess EXCEPT ![c] = s]
  PROVE  SessionInv'
<1> USE TenantSessionsAssumption, UnsetType DEF SessionInv, TenantSessionsTypeOK, Sessions
<1>1. /\ sess'[c] = s
      /\ \A d \in Clients \ {c} : sess'[d] = sess[d]
  OBVIOUS
<1>2. \A k \in Connections : settings'[k] = IF k = sess[c].conn THEN Unset ELSE settings[k]
  BY DEF Returned, AfterTransaction
<1>3. TenantSessionsTypeOK'
  BY DEF Returned, AfterTransaction
<1>4. Exclusive'
  BY <1>1 DEF Exclusive
<1>5. PoolIsClean'
  <2> SUFFICES ASSUME NEW k \in Connections, Free(k)' PROVE settings'[k] = Unset
    BY DEF PoolIsClean
  <2>1. k = sess[c].conn \/ Free(k)
    BY <1>1 DEF Free
  <2> QED BY <2>1, <1>2 DEF PoolIsClean
<1>6. InStep'
  BY <1>1, <1>2 DEF InStep, Exclusive
<1> QED BY <1>3, <1>4, <1>5, <1>6

LEMMA LoseStep ==
  ASSUME SessionInv, NEW k \in Connections, LoseConnection(k)
  PROVE  SessionInv'
<1> USE TenantSessionsAssumption, UnsetType DEF SessionInv, TenantSessionsTypeOK, Sessions, LoseConnection
<1>1. \A d \in Clients :
        sess'[d] = IF sess[d].conn = k THEN [sess[d] EXCEPT !.phase = "broken", !.conn = None]
                                       ELSE sess[d]
  OBVIOUS
<1>2. TenantSessionsTypeOK'
  OBVIOUS
<1>3. Exclusive'
  BY <1>1, ZenonT(60) DEF Exclusive
<1>4. PoolIsClean'
  BY <1>1 DEF PoolIsClean, Free
<1>5. InStep'
  BY <1>1 DEF InStep
<1> QED BY <1>2, <1>3, <1>4, <1>5

LEMMA SessionNext == SessionInv /\ [TenantSessionsNext]_sessVars => SessionInv'
<1> SUFFICES ASSUME SessionInv, [TenantSessionsNext]_sessVars PROVE SessionInv'
  OBVIOUS
<1> USE TenantSessionsAssumption, UnsetType
<1>1. ASSUME NEW c \in Clients, OpenSession(c) PROVE SessionInv'
  BY <1>1 DEF OpenSession, ClosedSession, SessionInv, TenantSessionsTypeOK, Sessions, Exclusive,
              PoolIsClean, Free, InStep
<1>2. ASSUME NEW c \in Clients, NEW k \in Connections, RunStatement(c, k) PROVE SessionInv'
  BY <1>2, StatementStep
<1>3. ASSUME NEW c \in Clients, NEW k \in Connections, NEW t \in TenantIds,
             NEW u \in UserIds \cup {None}, SetTenantContext(c, t, u, k)
      PROVE SessionInv'
  <2>1. [tenant |-> t, user |-> u] \in Context
    BY DEF Context
  <2> QED BY <1>3, <2>1, ApplyStep DEF SetTenantContext
<1>4. ASSUME NEW c \in Clients, NEW k \in Connections, NEW u \in UserIds,
             SetUserContext(c, u, k)
      PROVE SessionInv'
  <2>1. [sess[c].context EXCEPT !.user = u] \in Context
    BY DEF SessionInv, TenantSessionsTypeOK, Sessions, Context
  <2> QED BY <1>4, <2>1, ApplyStep DEF SetUserContext
<1>5. ASSUME NEW c \in Clients, NEW k \in Connections, Reapply(c, k) PROVE SessionInv'
  <2>1. sess[c].context \in Context
    BY DEF SessionInv, TenantSessionsTypeOK, Sessions
  <2> QED BY <1>5, <2>1, ApplyStep DEF Reapply
<1>6. ASSUME NEW c \in Clients, EndTransaction(c) PROVE SessionInv'
  <2> DEFINE s == [sess[c] EXCEPT !.conn = None,
                     !.phase = IF sess[c].context = Unset THEN "open" ELSE "reapply"]
  <2>1. s \in Sessions /\ s.conn = None /\ (s.phase = "open" => s.context = Unset)
    BY DEF SessionInv, TenantSessionsTypeOK, Sessions
  <2>2. settings' = Returned(c) /\ sess' = [sess EXCEPT ![c] = s]
    BY <1>6 DEF EndTransaction, SessionInv, TenantSessionsTypeOK, Sessions
  <2> HIDE DEF s
  <2> QED BY <2>1, <2>2, ReturnStep
<1>7. ASSUME NEW c \in Clients, CloseSession(c) PROVE SessionInv'
  <2>1. ClosedSession \in Sessions /\ ClosedSession.conn = None
        /\ ClosedSession.phase # "open"
    BY DEF ClosedSession, Sessions
  <2> QED BY <1>7, <2>1, ReturnStep DEF CloseSession
<1>8. ASSUME NEW k \in Connections, LoseConnection(k) PROVE SessionInv'
  BY <1>8, LoseStep
<1>9. CASE UNCHANGED sessVars
  BY <1>9 DEF sessVars, SessionInv, TenantSessionsTypeOK, Exclusive, PoolIsClean, Free, InStep
<1> QED
  BY <1>1, <1>2, <1>3, <1>4, <1>5, <1>6, <1>7, <1>8, <1>9 DEF TenantSessionsNext, SessionStep

LEMMA SessionInit == TenantSessionsInit => SessionInv
  BY TenantSessionsAssumption, UnsetType
     DEF TenantSessionsInit, SessionInv, TenantSessionsTypeOK, Sessions, ClosedSession,
         Exclusive, PoolIsClean, InStep

LEMMA SessionInvariant == TenantSessionsSpec => []SessionInv
  BY SessionInit, SessionNext, PTL DEF TenantSessionsSpec

\* However many sessions share however many connections, a session that may
\* run a statement sees and writes the rows of its own workspace and user.
THEOREM SessionsConfined == TenantSessionsSpec => []OnlyOwnRows
<1>1. SessionInv => OnlyOwnRows
  <2> SUFFICES ASSUME SessionInv, NEW c \in Clients, NEW k \in Available(c),
                      sess[c].phase = "open"
               PROVE  settings[k] = sess[c].context
    BY DEF OnlyOwnRows
  <2>1. CASE sess[c].conn = None
    BY <2>1 DEF SessionInv, InStep, PoolIsClean, Available
  <2>2. CASE sess[c].conn # None
    BY <2>2 DEF SessionInv, InStep, Available
  <2> QED BY <2>1, <2>2
<1> QED BY <1>1, SessionInvariant, PTL

-----------------------------------------------------------------------------
(***************************************************************************)
(* Outbound calls.  A call is guarded for every set of hosts, every budget *)
(* of retries and every limit of redirections.                             *)
(***************************************************************************)

\* What was sent in the hops that are over, each with a full budget.
Spent == (call.budget + 1) * call.redirects

\* A send is always to a host that was checked; the body is gone once the call
\* was made a GET; each hop starts with all its attempts.
GuardInv ==
  /\ HttpClientTypeOK
  /\ call.phase = "send" => call.host \in PublicHosts
  /\ \A v \in visited : v.host \in PublicHosts /\ (v.turned => ~v.body)
  /\ turned => ~call.body
  /\ call.phase = "idle" => sends = 0 /\ ~turned
  /\ call.phase # "ended" => call.outcome = "none"
  /\ call.attempt <= call.budget
  /\ call.phase \in {"check", "send"} => sends <= Spent + call.attempt
  /\ call.phase = "ended" => sends <= Spent + call.attempt + 1
  /\ call.outcome \in {"timeout", "rate_limited"} => call.attempt = call.budget

LEMMA OneHopMore == \A b, r \in Nat : (b + 1) * (r + 1) = (b + 1) * r + b + 1
  OBVIOUS

LEMMA MoreHops == \A b, r, s \in Nat : r <= s => (b + 1) * r <= (b + 1) * s
  OBVIOUS

\* Only two outcomes are reported as failures that may pass.
LEMMA Transient ==
  ASSUME NEW o \in Outcomes,
         ProviderResult(o) \in {"PROVIDER_TIMEOUT", "PROVIDER_RATE_LIMITED"}
  PROVE  o \in {"timeout", "rate_limited"}
  BY DEF Outcomes, RetryAnswers, FinalAnswers, TransportErrors, ProviderResult, ProviderErrors

LEMMA GuardInit == HttpClientInit => GuardInv
<1> SUFFICES ASSUME HttpClientInit PROVE GuardInv
  OBVIOUS
<1>1. /\ call.phase = "idle" /\ call.outcome = "none" /\ call.body = FALSE
      /\ call.attempt = 0 /\ call.budget = 0
  BY DEF HttpClientInit, NoCall
<1>2. 0 \in 0..MaxRetries /\ 0 \in 0..MaxRedirects
  BY HttpClientAssumption
<1>3. "none" \in Outcomes /\ "GET" \in Methods
  BY DEF Outcomes, Methods
<1>4. call \in Calls
  BY <1>2, <1>3 DEF HttpClientInit, NoCall, Calls
<1>5. sends = 0 /\ visited = {} /\ ~turned /\ turned \in BOOLEAN
  BY DEF HttpClientInit
<1> QED BY <1>1, <1>4, <1>5 DEF GuardInv, HttpClientTypeOK

\* One more send, to the host that was checked.
LEMMA Sent ==
  ASSUME GuardInv, SendOnce
  PROVE  /\ sends' = sends + 1 /\ sends' \in Nat
         /\ sends' <= Spent + call.attempt + 1
         /\ visited' \subseteq [host : Hosts \cup {NoHost}, method : Methods, body : BOOLEAN,
                                turned : BOOLEAN]
         /\ \A v \in visited' : v.host \in PublicHosts /\ (v.turned => ~v.body)
<1> DEFINE v == [host |-> call.host, method |-> call.method, body |-> call.body,
                 turned |-> turned]
<1>1. /\ v \in [host : Hosts \cup {NoHost}, method : Methods, body : BOOLEAN, turned : BOOLEAN]
      /\ v.host \in PublicHosts /\ (v.turned => ~v.body)
  BY DEF GuardInv, HttpClientTypeOK, Calls, SendOnce
<1>2. visited' = visited \cup {v} /\ sends' = sends + 1
  BY DEF SendOnce
<1> HIDE DEF v
<1>3. Spent \in Nat
  BY HttpClientAssumption DEF GuardInv, HttpClientTypeOK, Calls, Spent
<1> QED
  BY <1>1, <1>2, <1>3, HttpClientAssumption DEF GuardInv, HttpClientTypeOK, Calls, SendOnce

\* The call ends with an answer that is final, or that used up its attempts.
LEMMA Ended ==
  ASSUME GuardInv, SendOnce, NEW o \in Outcomes, EndCall(o),
         o \in {"timeout", "rate_limited"} => call.attempt = call.budget,
         turned' = turned
  PROVE  GuardInv'
<1>1. /\ call'.phase = "ended" /\ call'.outcome = o
      /\ call'.attempt = call.attempt /\ call'.budget = call.budget
      /\ call'.redirects = call.redirects /\ call'.body = call.body
      /\ call' \in Calls
  BY DEF GuardInv, HttpClientTypeOK, Calls, EndCall
<1>2. Spent' = Spent
  BY <1>1 DEF Spent
<1> QED
  BY <1>1, <1>2, Sent DEF GuardInv, HttpClientTypeOK

\* One more attempt, or the end of the budget.
LEMMA Retried ==
  ASSUME GuardInv, SendOnce, NEW o \in Outcomes, RetryOr(o), turned' = turned
  PROVE  GuardInv'
<1>1. CASE call.attempt < call.budget
  <2>1. call' = [call EXCEPT !.attempt = @ + 1]
    BY <1>1 DEF RetryOr
  <2>2. /\ call'.phase = call.phase /\ call'.outcome = call.outcome
        /\ call'.attempt = call.attempt + 1 /\ call'.budget = call.budget
        /\ call'.redirects = call.redirects /\ call'.body = call.body
        /\ call'.host = call.host /\ call.phase = "send"
    BY <2>1 DEF GuardInv, HttpClientTypeOK, Calls, SendOnce
  <2>3. call' \in Calls
    BY <1>1, <2>1, HttpClientAssumption DEF GuardInv, HttpClientTypeOK, Calls
  <2>4. Spent' = Spent /\ Spent \in Nat
    BY <2>2, HttpClientAssumption DEF Spent, GuardInv, HttpClientTypeOK, Calls
  <2>5. call.attempt \in Nat /\ call.budget \in Nat
    BY HttpClientAssumption DEF GuardInv, HttpClientTypeOK, Calls
  <2> QED BY <1>1, <2>2, <2>3, <2>4, <2>5, Sent DEF GuardInv, HttpClientTypeOK
<1>2. CASE ~(call.attempt < call.budget)
  <2>1. call.attempt = call.budget
    BY <1>2, HttpClientAssumption DEF GuardInv, HttpClientTypeOK, Calls
  <2> QED BY <1>2, <2>1, Ended DEF RetryOr
<1> QED BY <1>1, <1>2

\* The next hop has to be checked, and has all its attempts.
LEMMA Redirected ==
  ASSUME GuardInv, NEW kind \in Redirections, NEW h \in Hosts, FollowRedirect(kind, h)
  PROVE  GuardInv'
<1>1. SendOnce
  BY DEF FollowRedirect
<1>2. CASE call.redirects >= MaxRedirects
  <2>1. EndCall("too_many_redirects") /\ turned' = turned
    BY <1>2 DEF FollowRedirect
  <2>2. "too_many_redirects" \in Outcomes
    BY DEF Outcomes
  <2> QED BY <1>1, <2>1, <2>2, Ended
<1>3. CASE ~(call.redirects >= MaxRedirects)
  <2> DEFINE next == [call EXCEPT !.phase = "check", !.host = h, !.attempt = 0,
                                  !.redirects = @ + 1]
             turns == kind = "turns_get" /\ call.method # "HEAD"
  <2>1. /\ call' = IF turns THEN TurnedGet(next) ELSE next
        /\ turned' = (turned \/ turns)
    BY <1>3 DEF FollowRedirect
  <2>2. /\ call'.phase = "check" /\ call'.outcome = call.outcome
        /\ call'.attempt = 0 /\ call'.budget = call.budget
        /\ call'.redirects = call.redirects + 1 /\ call'.host = h
        /\ call'.body = IF turns THEN FALSE ELSE call.body
    BY <2>1 DEF TurnedGet, GuardInv, HttpClientTypeOK, Calls
  <2>3. call' \in Calls
    <3>1. call.redirects + 1 \in 0..MaxRedirects /\ 0 \in 0..MaxRetries
      BY <1>3, HttpClientAssumption DEF GuardInv, HttpClientTypeOK, Calls
    <3>2. next \in Calls
      BY <3>1 DEF GuardInv, HttpClientTypeOK, Calls
    <3> HIDE DEF next
    <3>3. TurnedGet(next) \in Calls
      BY <3>2 DEF TurnedGet, Calls, Methods
    <3> QED BY <2>1, <3>2, <3>3
  <2>4. /\ call.attempt \in Nat /\ call.budget \in Nat /\ call.redirects \in Nat
        /\ call.attempt <= call.budget
    BY HttpClientAssumption DEF GuardInv, HttpClientTypeOK, Calls
  <2>5. Spent' = Spent + call.budget + 1 /\ Spent \in Nat
    BY <2>2, <2>4, OneHopMore DEF Spent
  <2>6. sends' <= Spent' + call'.attempt
    BY <1>1, <2>2, <2>4, <2>5, Sent
  <2>7. turned' \in BOOLEAN /\ (turned' => ~call'.body)
    BY <2>1, <2>2 DEF GuardInv, HttpClientTypeOK
  <2>8. call'.outcome = "none"
    BY <1>1, <2>2 DEF SendOnce, GuardInv
  <2> QED
    BY <1>1, <2>2, <2>3, <2>4, <2>6, <2>7, <2>8, Sent DEF GuardInv, HttpClientTypeOK
<1> QED BY <1>2, <1>3

LEMMA GuardNext == GuardInv /\ [HttpClientNext]_httpVars => GuardInv'
<1> SUFFICES ASSUME GuardInv, [HttpClientNext]_httpVars PROVE GuardInv'
  OBVIOUS
<1>1. ASSUME NEW method \in Methods, NEW h \in Hosts, NEW budget \in {0, MaxRetries},
             BeginCall(method, h, budget)
      PROVE  GuardInv'
  <2>1. /\ call'.phase = "check" /\ call'.outcome = "none"
        /\ call'.attempt = 0 /\ call'.budget = budget /\ call'.redirects = 0
        /\ UNCHANGED <<sends, visited, turned>> /\ sends = 0 /\ ~turned
    BY <1>1 DEF BeginCall, NoCall, GuardInv
  <2>2. 0 \in 0..MaxRetries /\ 0 \in 0..MaxRedirects /\ budget \in 0..MaxRetries
    BY HttpClientAssumption
  <2>3. "none" \in Outcomes
    BY DEF Outcomes
  <2>4. call' \in Calls
    BY <1>1, <2>2, <2>3 DEF BeginCall, NoCall, Calls
  <2>5. budget \in Nat /\ Spent' = (budget + 1) * 0
    BY <2>1, HttpClientAssumption DEF Spent
  <2>6. sends' <= Spent' + call'.attempt /\ call'.attempt <= call'.budget
    <3>1. 0 <= (budget + 1) * 0 + 0 /\ 0 <= budget
      BY <2>5
    <3> QED BY <2>1, <2>5, <3>1
  <2>7. ~turned' /\ visited' = visited /\ sends' = sends /\ turned' = turned
    BY <2>1
  <2> QED BY <2>1, <2>4, <2>6, <2>7 DEF GuardInv, HttpClientTypeOK
<1>2. ASSUME CheckUrl PROVE GuardInv'
  <2>1. UNCHANGED <<sends, visited, turned>>
    BY <1>2 DEF CheckUrl
  <2>2. CASE IsPublicHost(call.host)
    <3>1. call' = [call EXCEPT !.phase = "send"]
      BY <1>2, <2>2 DEF CheckUrl
    <3>2. /\ call.phase = "check" /\ call'.phase = "send" /\ call' \in Calls
          /\ call'.host = call.host /\ call'.body = call.body
          /\ call'.outcome = call.outcome /\ call'.attempt = call.attempt
          /\ call'.budget = call.budget /\ Spent' = Spent
      BY <1>2, <3>1 DEF CheckUrl, GuardInv, HttpClientTypeOK, Calls, Spent
    <3>3. /\ call'.host \in PublicHosts /\ call'.outcome = "none"
          /\ turned => ~call'.body
          /\ sends <= Spent + call.attempt
      BY <2>2, <3>2 DEF IsPublicHost, GuardInv
    <3> QED BY <2>1, <3>2, <3>3 DEF GuardInv, HttpClientTypeOK
  <2>3. CASE ~IsPublicHost(call.host)
    <3>1. call' = [call EXCEPT !.phase = "ended", !.outcome = "blocked_host"]
      BY <1>2, <2>3 DEF CheckUrl, EndCall
    <3>2. "blocked_host" \in Outcomes /\ "blocked_host" \notin {"timeout", "rate_limited"}
      BY DEF Outcomes
    <3>3. call' \in Calls /\ Spent' = Spent /\ call'.attempt = call.attempt
          /\ call'.budget = call.budget /\ call'.body = call.body
      BY <3>1, <3>2 DEF GuardInv, HttpClientTypeOK, Calls, Spent
    <3>4. Spent \in Nat /\ call.attempt \in Nat /\ sends \in Nat
      BY HttpClientAssumption DEF GuardInv, HttpClientTypeOK, Calls, Spent
    <3>5. call'.phase = "ended" /\ call'.outcome = "blocked_host"
      BY <3>1 DEF GuardInv, HttpClientTypeOK, Calls
    <3>6. sends' <= Spent' + call'.attempt + 1
      BY <1>2, <2>1, <3>3, <3>4 DEF CheckUrl, GuardInv
    <3> QED BY <2>1, <3>2, <3>3, <3>5, <3>6 DEF GuardInv, HttpClientTypeOK
  <2> QED BY <2>2, <2>3
<1>3. ASSUME NEW o \in TransportErrors, TransportFails(o) PROVE GuardInv'
  BY <1>3, Retried DEF TransportFails, Outcomes
<1>4. ASSUME NEW o \in RetryAnswers, AnswerToRetry(o) PROVE GuardInv'
  BY <1>4, Retried DEF AnswerToRetry, Outcomes
<1>5. ASSUME NEW o \in FinalAnswers \cup {"too_large", "no_location"}, FinalAnswer(o)
      PROVE  GuardInv'
  <2>1. o \in Outcomes /\ o \notin {"timeout", "rate_limited"}
    BY DEF Outcomes, FinalAnswers
  <2> QED BY <1>5, <2>1, Ended DEF FinalAnswer
<1>6. ASSUME NEW kind \in Redirections, NEW h \in Hosts, FollowRedirect(kind, h)
      PROVE  GuardInv'
  BY <1>6, Redirected
<1>7. CASE UNCHANGED httpVars
  BY <1>7 DEF httpVars, GuardInv, HttpClientTypeOK, Spent
<1> QED BY <1>1, <1>2, <1>3, <1>4, <1>5, <1>6, <1>7 DEF HttpClientNext

\* For every set of hosts, number of retries and of redirections: only public
\* hosts are contacted, nothing carries the body of a POST turned GET, the sends
\* are bounded, and a failure that may pass is final for the hop.
THEOREM CallsGuarded == HttpClientSpec => []CallIsGuarded
<1>1. GuardInv => CallIsGuarded
  <2> SUFFICES ASSUME GuardInv PROVE CallIsGuarded
    OBVIOUS
  <2>1. /\ call.attempt \in Nat /\ call.budget \in Nat /\ call.redirects \in Nat
        /\ call.attempt <= call.budget /\ call.redirects <= MaxRedirects /\ sends \in Nat
    BY HttpClientAssumption DEF GuardInv, HttpClientTypeOK, Calls
  <2>2. /\ (call.budget + 1) * (MaxRedirects + 1)
             = (call.budget + 1) * MaxRedirects + call.budget + 1
        /\ Spent <= (call.budget + 1) * MaxRedirects
        /\ Spent \in Nat /\ (call.budget + 1) * MaxRedirects \in Nat
    BY <2>1, OneHopMore, MoreHops, HttpClientAssumption DEF Spent
  <2>3. call.phase \in {"idle", "check", "send", "ended"}
    BY DEF GuardInv, HttpClientTypeOK, Calls
  <2>4. sends <= Spent + call.attempt + 1
    BY <2>1, <2>2, <2>3 DEF GuardInv
  <2>5. sends <= (call.budget + 1) * (MaxRedirects + 1)
    BY <2>1, <2>2, <2>4
  <2>6. call.outcome \in Outcomes
    BY DEF GuardInv, HttpClientTypeOK, Calls
  <2> QED BY <2>5, <2>6, Transient DEF GuardInv, CallIsGuarded
<1> QED BY <1>1, GuardInit, GuardNext, PTL DEF HttpClientSpec

-----------------------------------------------------------------------------
(***************************************************************************)
(* The limiter.  Neither the tokens of a bucket nor what a window has      *)
(* admitted bounds the other: a window is paid for by the bucket it began  *)
(* with and by what flowed in while it was open.                           *)
(***************************************************************************)

\* What the windows of k can have admitted in all, in units of a token: a full
\* bucket and what it takes in until the last tick of the window.
Allowance(k) == Full(k) + (WindowOf(k) - 1) * LimitOf(k)

\* A window that is open has cost what the bucket started with and took in
\* since, less what is left in it; a bucket that is not there owes nothing to
\* a window that is open.
QuotaOf(k, t) ==
  /\ WindowOf(k) * admitted[k][t] <= Allowance(k)
  /\ buckets[k].kept =>
       /\ t > buckets[k].at => admitted[k][t] = 0
       /\ t <= buckets[k].at /\ buckets[k].at < t + WindowOf(k) =>
            WindowOf(k) * admitted[k][t] + buckets[k].tokens
              <= Full(k) + (buckets[k].at - t) * LimitOf(k)
  /\ ~buckets[k].kept /\ now < t + WindowOf(k) => admitted[k][t] = 0

QuotaInv ==
  /\ RateLimiterTypeOK
  /\ \A k \in BucketKeys \ shed : \A t \in 0..MaxTime : QuotaOf(k, t)

LEMMA KeyTypes ==
  ASSUME NEW k \in BucketKeys
  PROVE  /\ LimitOf(k) \in Nat \ {0} /\ WindowOf(k) \in Nat \ {0}
         /\ Full(k) \in Nat /\ Allowance(k) \in Nat
<1>1. LimitOf(k) \in Nat \ {0} /\ WindowOf(k) \in Nat \ {0}
  BY RateLimiterAssumption DEF BucketKeys, LimitOf, WindowOf
<1>2. (WindowOf(k) - 1) * LimitOf(k) \in Nat
  BY <1>1
<1>. QED BY <1>1, <1>2 DEF Full, Allowance

LEMMA IncomeAdds ==
  \A x, y, z, l \in Nat :
    z <= y /\ y <= x => (x - y) * l + (y - z) * l = (x - z) * l /\ (x - y) * l \in Nat
  OBVIOUS

LEMMA IncomeGrows == \A n, m, l \in Nat : n <= m => n * l <= m * l
  OBVIOUS

LEMMA OneMoreCosts == \A w, a \in Nat : w * (a + 1) = w * a + w
  OBVIOUS

\* An allowance is less than two quotas.
LEMMA AllowanceIsShort ==
  \A w, l \in Nat \ {0}, a \in Nat : w * a <= l * w + (w - 1) * l => a < 2 * l
<1>. SUFFICES ASSUME NEW w \in Nat \ {0}, NEW l \in Nat \ {0}, NEW a \in Nat,
                     w * a <= l * w + (w - 1) * l, a >= 2 * l
              PROVE  FALSE
  OBVIOUS
<1>1. w * a >= w * (2 * l)
  BY IncomeGrows
<1>2. w * (2 * l) = l * w + l * w /\ (w - 1) * l = l * w - l
  OBVIOUS
<1>. QED BY <1>1, <1>2

LEMMA QuotaInit == RateLimiterInit => QuotaInv
<1>. SUFFICES ASSUME RateLimiterInit PROVE QuotaInv
  OBVIOUS
<1>. USE DEF RateLimiterInit, NoBucket
<1>1. RateLimiterTypeOK
  BY RateLimiterAssumption, KeyTypes DEF RateLimiterTypeOK
<1>2. ASSUME NEW k \in BucketKeys, NEW t \in 0..MaxTime PROVE QuotaOf(k, t)
  <2>1. admitted[k][t] = 0 /\ ~buckets[k].kept
    OBVIOUS
  <2>. QED BY <2>1, KeyTypes DEF QuotaOf
<1>. QED BY <1>1, <1>2 DEF QuotaInv

\* The tokens a request finds in its bucket.
Found(k) == IF k \in Kept THEN Refilled(k) ELSE Full(k)
LeftAfter(k) == IF Found(k) >= WindowOf(k) THEN Found(k) - WindowOf(k) ELSE Found(k)

LEMMA FoundTokens ==
  ASSUME RateLimiterTypeOK, NEW k \in BucketKeys
  PROVE  /\ Found(k) \in Nat /\ Found(k) <= Full(k)
         /\ LeftAfter(k) \in Nat /\ LeftAfter(k) <= Full(k)
         /\ (now - buckets[k].at) * LimitOf(k) \in Nat
         /\ k \in Kept =>
              Found(k) <= buckets[k].tokens + (now - buckets[k].at) * LimitOf(k)
<1>1. LimitOf(k) \in Nat /\ WindowOf(k) \in Nat \ {0} /\ Full(k) \in Nat
  BY KeyTypes
<1>2. now \in Nat /\ buckets[k].at \in Nat /\ buckets[k].at <= now /\ buckets[k].tokens \in Nat
      /\ buckets[k].tokens <= Full(k)
  BY RateLimiterAssumption DEF RateLimiterTypeOK
<1>3. (now - buckets[k].at) * LimitOf(k) \in Nat
  BY <1>1, <1>2
<1>4. Found(k) \in Nat /\ Found(k) <= Full(k)
      /\ (k \in Kept => Found(k) <= buckets[k].tokens + (now - buckets[k].at) * LimitOf(k))
  BY <1>1, <1>2, <1>3 DEF Found, Refilled
<1>5. LeftAfter(k) \in Nat /\ LeftAfter(k) <= Full(k)
  BY <1>1, <1>4 DEF LeftAfter
<1>. QED BY <1>3, <1>4, <1>5

\* The windows of the key whose request it is: an open one pays for it.
LEMMA RequestIsPaid ==
  ASSUME QuotaInv, NEW k \in BucketKeys \ shed, NEW t \in 0..MaxTime, NEW a \in Nat,
         a = IF Found(k) >= WindowOf(k) /\ t \in Windows(k)
               THEN admitted[k][t] + 1 ELSE admitted[k][t]
  PROVE  /\ WindowOf(k) * a <= Allowance(k)
         /\ t > now => a = 0
         /\ t <= now /\ now < t + WindowOf(k) =>
              WindowOf(k) * a + LeftAfter(k) <= Full(k) + (now - t) * LimitOf(k)
<1>. DEFINE w == WindowOf(k)
            l == LimitOf(k)
            b == admitted[k][t]
            at == buckets[k].at
            tokens == buckets[k].tokens
<1>1. /\ l \in Nat /\ w \in Nat /\ w > 0 /\ Full(k) \in Nat /\ Allowance(k) \in Nat
      /\ b \in Nat /\ at \in Nat /\ tokens \in Nat /\ now \in Nat /\ t \in Nat /\ at <= now
      /\ w * b \in Nat /\ w * a \in Nat
  BY KeyTypes, RateLimiterAssumption, SMTT(30) DEF QuotaInv, RateLimiterTypeOK
<1>2. QuotaOf(k, t) /\ RateLimiterTypeOK
  BY DEF QuotaInv
<1>3. CASE t > now
  <2>1. ~(t \in Windows(k)) /\ a = b
    BY <1>1, <1>3 DEF Windows
  <2>2. b = 0
    BY <1>1, <1>2, <1>3 DEF QuotaOf
  <2>. QED BY <1>1, <1>2, <1>3, <2>1, <2>2 DEF QuotaOf
<1>4. CASE t <= now /\ now >= t + w
  <2>1. ~(t \in Windows(k)) /\ a = b
    BY <1>1, <1>4 DEF Windows
  <2>. QED BY <1>1, <1>2, <1>4, <2>1 DEF QuotaOf
<1>5. CASE t <= now /\ now < t + w
  <2>0. t \in Windows(k)
    BY <1>1, <1>5 DEF Windows
  <2>1. Found(k) \in Nat /\ Found(k) <= Full(k) /\ LeftAfter(k) \in Nat
    BY <1>2, FoundTokens
  <2>2. (now - t) * l \in Nat
    BY <1>1, <1>5
  <2>3. w * b + Found(k) <= Full(k) + (now - t) * l
    <3>1. CASE b = 0
      BY <1>1, <2>1, <2>2, <3>1
    <3>2. CASE b # 0
      <4>1. buckets[k].kept /\ t <= at /\ at < t + w
        BY <1>1, <1>2, <1>5, <3>2 DEF QuotaOf
      <4>2. w * b + tokens <= Full(k) + (at - t) * l
        BY <1>2, <4>1 DEF QuotaOf
      <4>3. Found(k) <= tokens + (now - at) * l
        BY <1>2, <4>1, FoundTokens DEF Kept
      <4>4. /\ (now - at) * l + (at - t) * l = (now - t) * l
            /\ (now - at) * l \in Nat /\ (at - t) * l \in Nat
        BY <1>1, <4>1, IncomeAdds
      <4>. QED BY <1>1, <2>1, <2>2, <4>2, <4>3, <4>4
    <3>. QED BY <3>1, <3>2
  <2>4. w * a + LeftAfter(k) = w * b + Found(k)
    <3>1. w * (b + 1) = w * b + w
      BY <1>1, OneMoreCosts
    <3>. QED BY <1>1, <2>0, <2>1, <3>1 DEF LeftAfter
  <2>5. (now - t) * l <= (w - 1) * l
    BY <1>1, <1>5, IncomeGrows
  <2>6. (w - 1) * l \in Nat
    BY <1>1
  <2>. QED BY <1>1, <1>5, <2>1, <2>2, <2>3, <2>4, <2>5, <2>6 DEF Allowance
<1>. QED BY <1>1, <1>3, <1>4, <1>5

LEMMA AcquireStep ==
  ASSUME QuotaInv, NEW k \in BucketKeys, Acquire(k)
  PROVE  QuotaInv'
<1>. DEFINE dropping(dropped) ==
       /\ buckets' = [m \in BucketKeys |->
                        IF m = k THEN [tokens |-> LeftAfter(k), at |-> now, kept |-> TRUE]
                        ELSE IF m \in dropped THEN NoBucket ELSE buckets[m]]
       /\ shed' = shed \cup {m \in dropped : buckets[m].at + WindowOf(m) >= now}
       /\ admitted' = [m \in BucketKeys |->
                        [t \in 0..MaxTime |->
                           IF m \in shed' THEN 0
                           ELSE IF Found(k) >= WindowOf(k) /\ m = k /\ t \in Windows(k)
                             THEN admitted[m][t] + 1
                           ELSE admitted[m][t]]]
<1>1. RateLimiterTypeOK /\ now' = now
  BY DEF QuotaInv, Acquire
<1>2. PICK dropped \in IF k \in Kept THEN {{}} ELSE Evictions(k[1]) : dropping(dropped)
  BY DEF Acquire, Found, LeftAfter
<1>3. dropped \subseteq BucketKeys
  <2>1. CASE k \in Kept
    BY <1>2, <2>1
  <2>2. CASE k \notin Kept
    <3>1. dropped \in Evictions(k[1])
      BY <1>2, <2>2
    <3>2. Stale(k[1]) \subseteq BucketKeys /\ Kept \subseteq BucketKeys
      BY DEF Stale, Kept
    <3>3. \A n : kSubset(n, Kept) \subseteq SUBSET Kept
      BY DEF kSubset
    <3>. QED BY <3>1, <3>2, <3>3 DEF Evictions
  <2>. QED BY <2>1, <2>2
<1>4. RateLimiterTypeOK'
  <2>1. now \in Nat /\ now \in 0..MaxTime
    BY <1>1, RateLimiterAssumption DEF RateLimiterTypeOK
  <2>2. LeftAfter(k) \in Nat /\ LeftAfter(k) <= Full(k)
    BY <1>1, FoundTokens
  <2>3. buckets' \in [BucketKeys -> [tokens : Nat, at : Nat, kept : BOOLEAN]]
    BY <1>1, <1>2, <2>1, <2>2 DEF RateLimiterTypeOK, NoBucket
  <2>4. ASSUME NEW m \in BucketKeys
        PROVE  buckets'[m].tokens <= Full(m) /\ buckets'[m].at <= now
    BY <1>1, <1>2, <2>1, <2>2, KeyTypes DEF RateLimiterTypeOK, NoBucket
  <2>5. admitted' \in [BucketKeys -> [0..MaxTime -> Nat]]
    <3>1. \A m \in BucketKeys, t \in 0..MaxTime : admitted[m][t] \in Nat
      BY <1>1 DEF RateLimiterTypeOK
    <3>2. \A m \in BucketKeys, t \in 0..MaxTime : admitted[m][t] + 1 \in Nat
      BY <3>1
    <3>. QED BY <1>2, <3>1, <3>2, Zenon
  <2>6. shed' \subseteq BucketKeys
    BY <1>1, <1>2, <1>3 DEF RateLimiterTypeOK
  <2>. QED BY <1>1, <2>1, <2>3, <2>4, <2>5, <2>6 DEF RateLimiterTypeOK
<1>5. ASSUME NEW m \in BucketKeys \ shed', NEW t \in 0..MaxTime PROVE QuotaOf(m, t)'
  <2>1. m \notin shed /\ (m \in dropped => buckets[m].at + WindowOf(m) < now)
    <3>1. buckets[m].at + WindowOf(m) \in Nat /\ now \in Nat
      BY <1>1, KeyTypes, RateLimiterAssumption, SMTT(30) DEF RateLimiterTypeOK
    <3>. QED BY <1>2, <1>5, <3>1
  <2>2. QuotaOf(m, t)
    BY <2>1 DEF QuotaInv
  <2>3. CASE m = k
    <3>1. admitted'[k][t] = IF Found(k) >= WindowOf(k) /\ t \in Windows(k)
                              THEN admitted[k][t] + 1 ELSE admitted[k][t]
      BY <1>2, <1>5, <2>3
    <3>2. admitted'[k][t] \in Nat
      BY <1>4 DEF RateLimiterTypeOK
    <3>3. buckets'[k] = [tokens |-> LeftAfter(k), at |-> now, kept |-> TRUE]
      BY <1>2
    <3>. QED BY <1>1, <2>1, <2>3, <3>1, <3>2, <3>3, RequestIsPaid
         DEF QuotaOf, Allowance, Full, WindowOf, LimitOf
  <2>4. CASE m # k
    <3>1. admitted'[m][t] = admitted[m][t]
      BY <1>2, <1>5, <2>4
    <3>2. CASE m \notin dropped
      <4>1. buckets'[m] = buckets[m]
        BY <1>2, <2>4, <3>2
      <4>. QED BY <1>1, <2>2, <3>1, <4>1 DEF QuotaOf, Allowance, Full, WindowOf, LimitOf
    <3>3. CASE m \in dropped
      <4>1. buckets'[m].kept = FALSE
        BY <1>2, <2>4, <3>3 DEF NoBucket
      <4>0. /\ buckets[m].at \in Nat /\ WindowOf(m) \in Nat
            /\ now \in Nat /\ t \in Nat
        BY <1>1, KeyTypes, RateLimiterAssumption DEF RateLimiterTypeOK
      <4>2. now < t + WindowOf(m) => t > buckets[m].at
        BY <2>1, <3>3, <4>0
      <4>3. now < t + WindowOf(m) => admitted[m][t] = 0
        BY <1>1, <2>2, <4>2 DEF QuotaOf, RateLimiterTypeOK
      <4>. QED BY <1>1, <2>2, <3>1, <4>1, <4>3
           DEF QuotaOf, Allowance, Full, WindowOf, LimitOf
    <3>. QED BY <3>2, <3>3
  <2>. QED BY <2>3, <2>4
<1>. QED BY <1>4, <1>5 DEF QuotaInv

LEMMA TimePasses ==
  ASSUME QuotaInv, Tick
  PROVE  QuotaInv'
<1>1. now' = now + 1 /\ now < MaxTime /\ UNCHANGED <<buckets, admitted, shed>>
  BY DEF Tick
<1>2. RateLimiterTypeOK'
  <2>1. now' \in 0..MaxTime /\ now' \in Nat
    BY <1>1, RateLimiterAssumption DEF QuotaInv, RateLimiterTypeOK
  <2>2. ASSUME NEW k \in BucketKeys PROVE buckets[k].tokens <= Full(k) /\ buckets[k].at <= now'
    BY <1>1, RateLimiterAssumption DEF QuotaInv, RateLimiterTypeOK
  <2>. QED BY <1>1, <2>1, <2>2 DEF QuotaInv, RateLimiterTypeOK, Full, LimitOf, WindowOf
<1>3. ASSUME NEW k \in BucketKeys \ shed', NEW t \in 0..MaxTime PROVE QuotaOf(k, t)'
  <2>1. QuotaOf(k, t)
    BY <1>1 DEF QuotaInv
  <2>2. now' < t + WindowOf(k) => now < t + WindowOf(k)
    BY <1>1, KeyTypes, RateLimiterAssumption DEF QuotaInv, RateLimiterTypeOK
  <2>. QED BY <1>1, <2>1, <2>2 DEF QuotaOf, Allowance, Full, LimitOf, WindowOf
<1>. QED BY <1>2, <1>3 DEF QuotaInv

LEMMA QuotaNext == QuotaInv /\ [RateLimiterNext]_rateVars => QuotaInv'
<1>. SUFFICES ASSUME QuotaInv, [RateLimiterNext]_rateVars PROVE QuotaInv'
  OBVIOUS
<1>1. CASE UNCHANGED rateVars
  BY <1>1 DEF rateVars, QuotaInv, RateLimiterTypeOK, QuotaOf, Allowance, Full, LimitOf, WindowOf
<1>2. CASE Tick
  BY <1>2, TimePasses
<1>3. ASSUME NEW k \in BucketKeys, Acquire(k) PROVE QuotaInv'
  BY <1>3, AcquireStep
<1>. QED BY <1>1, <1>2, <1>3 DEF RateLimiterNext

LEMMA QuotaInvariant == RateLimiterSpec => []QuotaInv
<1>. QED BY QuotaInit, QuotaNext, PTL DEF RateLimiterSpec

\* No two quotas in a window, whatever the limits, the windows, the ceiling of
\* the dictionary and the number of clients (InMemoryRateLimiter.acquire).
THEOREM NoTwoQuotasEver == RateLimiterSpec => []NoTwoQuotas
<1>1. QuotaInv => NoTwoQuotas
  <2>. SUFFICES ASSUME QuotaInv, NEW k \in BucketKeys \ shed, NEW t \in 0..now
                PROVE  admitted[k][t] < 2 * LimitOf(k)
    BY DEF NoTwoQuotas
  <2>1. t \in 0..MaxTime /\ admitted[k][t] \in Nat
    BY RateLimiterAssumption DEF QuotaInv, RateLimiterTypeOK
  <2>2. WindowOf(k) * admitted[k][t] <= Allowance(k)
    BY <2>1 DEF QuotaInv, QuotaOf
  <2>3. WindowOf(k) * admitted[k][t]
          <= LimitOf(k) * WindowOf(k) + (WindowOf(k) - 1) * LimitOf(k)
    BY <2>2 DEF Allowance, Full
  <2>. QED BY <2>1, <2>3, KeyTypes, AllowanceIsShort
<1>. QED BY <1>1, QuotaInvariant, PTL
=============================================================================
