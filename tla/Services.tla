------------------------------- MODULE Services -------------------------------
(***************************************************************************)
(* The HTTP services of the application next to one another: workspaces,   *)
(* accounts, publishers with the opportunities that refer to them,         *)
(* credentials, the idempotency ledger, the rate limiter, the outbound     *)
(* client and the sessions of the database.                                *)
(*                                                                         *)
(* They share no row: what one does is no step of any other, so every      *)
(* interleaving of all of them is, for each of them, a run in which it     *)
(* moves alone.  part says which one moves.                                *)
(***************************************************************************)
EXTENDS Workspaces, Opportunities, Credentials, Idempotency, RateLimiter, HttpClient,
        Accounts, TenantSessions

CONSTANT Parts  \* the ones that may move

VARIABLE part

servicesVars == <<part, wsVars, oppVars, credVars, idemVars, rateVars, httpVars, authVars,
                  sessVars>>

TypeOK ==
  /\ part \in Parts
  /\ WorkspacesTypeOK
  /\ OpportunitiesTypeOK
  /\ CredentialsTypeOK
  /\ IdempotencyTypeOK
  /\ RateLimiterTypeOK
  /\ HttpClientTypeOK
  /\ AccountsTypeOK
  /\ TenantSessionsTypeOK

ServicesInit ==
  /\ part \in Parts
  /\ WorkspacesInit
  /\ OpportunitiesInit
  /\ CredentialsInit
  /\ IdempotencyInit
  /\ RateLimiterInit
  /\ HttpClientInit
  /\ AccountsInit
  /\ TenantSessionsInit

ServicesNext ==
  /\ \/ part = "workspaces"    /\ WorkspacesNext
     \/ part = "opportunities" /\ OpportunitiesNext
     \/ part = "credentials"   /\ CredentialsNext
     \/ part = "idempotency"   /\ IdempotencyNext
     \/ part = "limiter"       /\ RateLimiterNext
     \/ part = "http"          /\ HttpClientNext
     \/ part = "accounts"      /\ AccountsNext
     \/ part = "sessions"      /\ TenantSessionsNext
  /\ part # "workspaces"    => UNCHANGED wsVars
  /\ part # "opportunities" => UNCHANGED oppVars
  /\ part # "credentials"   => UNCHANGED credVars
  /\ part # "idempotency"   => UNCHANGED idemVars
  /\ part # "limiter"       => UNCHANGED rateVars
  /\ part # "http"          => UNCHANGED httpVars
  /\ part # "accounts"      => UNCHANGED authVars
  /\ part # "sessions"      => UNCHANGED sessVars
  /\ UNCHANGED part

ServicesSpec == ServicesInit /\ [][ServicesNext]_servicesVars

=============================================================================
