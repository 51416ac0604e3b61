------------------------------ MODULE HttpClient ------------------------------
(***************************************************************************)
(* One outbound call through SafeHttpClient.request (core/http_client.py), *)
(* as the AI adapters make it (integrations/ai/http_provider.py).  Calls   *)
(* share nothing but the pool of connections, so that one is enough.       *)
(*                                                                         *)
(* A send that times out may have reached the server or not: the client    *)
(* cannot tell, and sends again.                                           *)
(***************************************************************************)
EXTENDS Naturals, FiniteSets

CONSTANTS Hosts, PublicHosts,
          MaxRetries, MaxRedirects, FollowRedirects \* HttpClientConfig

Methods == {"GET", "HEAD", "POST"}

\* What a server may answer, by what the client makes of it.  Of the server
\* errors only "not_implemented" is outside _RETRY_STATUS_CODES.
RetryAnswers == {"request_timeout", "rate_limited", "server_error"}
FinalAnswers == {"success", "success_not_json", "refused", "rejected", "not_implemented"}
TransportErrors == {"timeout", "unreachable"}
Redirections == {"turns_get", "keeps_method"}  \* 301, 302, 303 and 307, 308

Outcomes == RetryAnswers \cup FinalAnswers \cup TransportErrors
            \cup {"none", "blocked_host", "too_large", "too_many_redirects", "no_location"}

ASSUME HttpClientAssumption ==
  /\ PublicHosts \subseteq Hosts
  /\ MaxRetries \in Nat /\ MaxRedirects \in Nat /\ FollowRedirects \in BOOLEAN

VARIABLES
  call,    \* the local variables of request
  sends,   \* history: how often _send_once was called
  visited, \* history: what was sent, and where to
  turned   \* history: a redirection has made the call a GET

httpVars == <<call, sends, visited, turned>>

NoHost == "no host"
NoCall == [phase |-> "idle", host |-> NoHost, method |-> "GET", body |-> FALSE,
           budget |-> 0, attempt |-> 0, redirects |-> 0, outcome |-> "none"]
Calls ==
  [phase : {"idle", "check", "send", "ended"}, host : Hosts \cup {NoHost},
   method : Methods, body : BOOLEAN,
   budget : 0..MaxRetries, attempt : 0..MaxRetries, redirects : 0..MaxRedirects,
   outcome : Outcomes]

HttpClientTypeOK ==
  /\ call \in Calls
  /\ sends \in Nat
  /\ visited \subseteq [host : Hosts \cup {NoHost}, method : Methods, body : BOOLEAN, turned : BOOLEAN]
  /\ turned \in BOOLEAN

-----------------------------------------------------------------------------
\* get, post, post_json; robots.txt and the probes of a crawl do not retry.
BeginCall(method, h, budget) ==
  /\ call.phase = "idle"
  /\ call' = [NoCall EXCEPT !.phase = "check", !.host = h, !.method = method,
                            !.body = (method = "POST"), !.budget = budget]
  /\ UNCHANGED <<sends, visited, turned>>

EndCall(outcome) == call' = [call EXCEPT !.phase = "ended", !.outcome = outcome]

\* Mutant: only the first URL is checked.
IsPublicHost_FirstHop(h) == call.redirects > 0 \/ h \in PublicHosts

\* is_public_host
IsPublicHost(h) == h \in PublicHosts

\* _assert_safe_url
CheckUrl ==
  /\ call.phase = "check"
  /\ IF IsPublicHost(call.host) THEN call' = [call EXCEPT !.phase = "send"]
                               ELSE EndCall("blocked_host")
  /\ UNCHANGED <<sends, visited, turned>>

\* _send_once is called: whatever comes of it, the server may have seen it.
SendOnce ==
  /\ call.phase = "send"
  /\ sends' = sends + 1
  /\ visited' = visited \cup {[host |-> call.host, method |-> call.method,
                               body |-> call.body, turned |-> turned]}

\* Another attempt after _sleep_backoff, or the end of the budget.
RetryOr(outcome) ==
  IF call.attempt < call.budget THEN call' = [call EXCEPT !.attempt = @ + 1]
                                ELSE EndCall(outcome)

TransportFails(error) ==
  /\ SendOnce
  /\ RetryOr(error)
  /\ UNCHANGED turned

AnswerToRetry(answer) ==
  /\ SendOnce
  /\ RetryOr(answer)
  /\ UNCHANGED turned

\* Anything else that is not a redirection, and a redirection to nowhere.
FinalAnswer(answer) ==
  /\ SendOnce
  /\ EndCall(answer)
  /\ UNCHANGED turned

\* "a redirected non-GET becomes a GET without a body"
TurnedGet(next) == [next EXCEPT !.method = "GET", !.body = FALSE]

\* Each hop is a new loop of attempts.
FollowRedirect(kind, h) ==
  /\ FollowRedirects
  /\ SendOnce
  /\ LET next == [call EXCEPT !.phase = "check", !.host = h, !.attempt = 0,
                             !.redirects = @ + 1]
         turns == kind = "turns_get" /\ call.method # "HEAD"
     IN IF call.redirects >= MaxRedirects
          THEN /\ EndCall("too_many_redirects")
               /\ UNCHANGED turned
          ELSE /\ call' = IF turns THEN TurnedGet(next) ELSE next
               /\ turned' = (turned \/ turns)

\* The class of error that HttpAIProvider._error_for makes of an answer.
ProviderErrors ==
  [refused |-> "PROVIDER_CREDENTIAL_REJECTED", rate_limited |-> "PROVIDER_RATE_LIMITED",
   server_error |-> "PROVIDER_UNAVAILABLE", not_implemented |-> "PROVIDER_UNAVAILABLE",
   rejected |-> "PROVIDER_REQUEST_REJECTED", request_timeout |-> "PROVIDER_REQUEST_REJECTED",
   no_location |-> "PROVIDER_REQUEST_REJECTED"]

\* _post_json: what the adapter of an AI provider sees.
ProviderResult(outcome) ==
  IF outcome = "success" THEN "completion"
  ELSE IF outcome \in DOMAIN ProviderErrors THEN ProviderErrors[outcome]
  ELSE IF outcome = "timeout" THEN "PROVIDER_TIMEOUT"
  ELSE IF outcome = "unreachable" THEN "PROVIDER_UNAVAILABLE"
  ELSE "PROVIDER_ERROR"

-----------------------------------------------------------------------------
HttpClientInit ==
  /\ call = NoCall
  /\ sends = 0 /\ visited = {} /\ turned = FALSE

HttpClientNext ==
  \/ \E method \in Methods, h \in Hosts, budget \in {0, MaxRetries} :
       BeginCall(method, h, budget)
  \/ CheckUrl
  \/ \E error \in TransportErrors : TransportFails(error)
  \/ \E answer \in RetryAnswers : AnswerToRetry(answer)
  \/ \E answer \in FinalAnswers \cup {"too_large", "no_location"} : FinalAnswer(answer)
  \/ \E kind \in Redirections, h \in Hosts : FollowRedirect(kind, h)

HttpClientSpec == HttpClientInit /\ [][HttpClientNext]_httpVars

-----------------------------------------------------------------------------
\* "every hop is re-checked": whatever chain of redirections a server sends,
\* only public hosts are contacted, the payload of a POST goes nowhere after a
\* redirection that has made it a GET, the retries of all the hops together
\* are bounded, and a failure that may pass is reported to the caller only
\* when the attempts of its hop are used up.
CallIsGuarded ==
  /\ \A v \in visited : v.host \in PublicHosts /\ (v.turned => ~v.body)
  /\ sends <= (call.budget + 1) * (MaxRedirects + 1)
  /\ ProviderResult(call.outcome) \in {"PROVIDER_TIMEOUT", "PROVIDER_RATE_LIMITED"} =>
       call.attempt = call.budget
=============================================================================
