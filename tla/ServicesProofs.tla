---------------------------- MODULE ServicesProofs ----------------------------
(***************************************************************************)
(* The services next to one another.  Each of them behaves in the whole as *)
(* its own specification says, so that what is proved of it alone holds of *)
(* every interleaving of all of them.                                      *)
(***************************************************************************)
EXTENDS Services, KeysProofs, IdentityProofs, ListingsProofs, PlatformProofs

\* Whoever moves, a service takes a step of its own or none.
LEMMA EachMovesAlone ==
  ASSUME [ServicesNext]_servicesVars
  PROVE  /\ [WorkspacesNext]_wsVars
         /\ [OpportunitiesNext]_oppVars
         /\ [CredentialsNext]_credVars
         /\ [IdempotencyNext]_idemVars
         /\ [RateLimiterNext]_rateVars
         /\ [HttpClientNext]_httpVars
         /\ [AccountsNext]_authVars
         /\ [TenantSessionsNext]_sessVars
<1>1. CASE UNCHANGED servicesVars
  BY <1>1 DEF servicesVars
<1>2. CASE ServicesNext
  BY <1>2 DEF ServicesNext
<1>. QED BY <1>1, <1>2

\* What is said of a service by itself is said of it among the others: the
\* whole implements the specification of each (main.py mounts the routers of
\* all of them on one application).
THEOREM EachServiceRuns ==
  ServicesSpec => /\ WorkspacesSpec
                  /\ OpportunitiesSpec
                  /\ CredentialsSpec
                  /\ IdempotencySpec
                  /\ RateLimiterSpec
                  /\ HttpClientSpec
                  /\ AccountsSpec
                  /\ TenantSessionsSpec
<1>1. ServicesInit => /\ WorkspacesInit /\ OpportunitiesInit /\ CredentialsInit
                      /\ IdempotencyInit /\ RateLimiterInit /\ HttpClientInit
                      /\ AccountsInit /\ TenantSessionsInit
  BY DEF ServicesInit
<1>. QED BY <1>1, EachMovesAlone, PTL
     DEF ServicesSpec, WorkspacesSpec, OpportunitiesSpec, CredentialsSpec, IdempotencySpec,
         RateLimiterSpec, HttpClientSpec, AccountsSpec, TenantSessionsSpec

\* Every variable of every service keeps to its type, for all values of the
\* constants: TypeOK.
THEOREM ServicesTyped == ServicesSpec => []TypeOK
<1>1. ServicesSpec => [](part \in Parts)
  <2>1. ServicesInit => part \in Parts
    BY DEF ServicesInit
  <2>2. part \in Parts /\ [ServicesNext]_servicesVars => (part \in Parts)'
    BY DEF ServicesNext, servicesVars
  <2>. QED BY <2>1, <2>2, PTL DEF ServicesSpec
<1>2. WorkspacesSpec => []WorkspacesTypeOK
  <2>1. MemberInv => WorkspacesTypeOK
    BY DEF MemberInv
  <2>. QED BY <2>1, MemberInvariant, PTL
<1>3. OpportunitiesSpec => []OpportunitiesTypeOK
  <2>1. PubInv /\ ListingInv => OpportunitiesTypeOK
    BY DEF PubInv, ListingInv, TablesOK, RequestsOK, AllRequests, OpportunitiesTypeOK
  <2>2. PubInv /\ ListingInv /\ [OpportunitiesNext]_oppVars => PubInv' /\ ListingInv'
    BY ListingInvStep DEF ListingHolds
  <2>. QED BY <2>1, <2>2, ListingInvInit, PTL DEF OpportunitiesSpec
<1>4. IdempotencySpec => []IdempotencyTypeOK
  <2>1. LedgerInv => IdempotencyTypeOK
    BY DEF LedgerInv
  <2>. QED BY <2>1, LedgerInit, LedgerNext, PTL DEF IdempotencySpec
<1>5. RateLimiterSpec => []RateLimiterTypeOK
  <2>1. QuotaInv => RateLimiterTypeOK
    BY DEF QuotaInv
  <2>. QED BY <2>1, QuotaInvariant, PTL
<1>6. HttpClientSpec => []HttpClientTypeOK
  <2>1. GuardInv => HttpClientTypeOK
    BY DEF GuardInv
  <2>. QED BY <2>1, GuardInit, GuardNext, PTL DEF HttpClientSpec
<1>7. AccountsSpec => []AccountsTypeOK
  <2>1. LoginInv => AccountsTypeOK
    BY DEF LoginInv
  <2>. QED BY <2>1, LoginInit, LoginStep, PTL DEF AccountsSpec
<1>8. TenantSessionsSpec => []TenantSessionsTypeOK
  <2>1. SessionInv => TenantSessionsTypeOK
    BY DEF SessionInv
  <2>. QED BY <2>1, SessionInvariant, PTL
<1>9. /\ part \in Parts /\ WorkspacesTypeOK /\ OpportunitiesTypeOK /\ CredentialsTypeOK
      /\ IdempotencyTypeOK /\ RateLimiterTypeOK /\ HttpClientTypeOK /\ AccountsTypeOK
      /\ TenantSessionsTypeOK
      => TypeOK
  BY DEF TypeOK
<1>. QED BY <1>1, <1>2, <1>3, <1>4, <1>5, <1>6, <1>7, <1>8, <1>9, CredentialsTyped,
            EachServiceRuns, PTL

\* What the services promise one by one, they promise together: every
\* invariant and every action property of this project that is about them
\* holds of all interleavings of all of them.
THEOREM PromisesHoldTogether ==
  ServicesSpec =>
    /\ [](/\ OwnerRemains /\ HeldRolesAreOwn
          /\ OneSite /\ FreeIsNotPaid /\ RunCountsItsPublishers /\ QualifyingIsMonotone
          /\ NoOrphans /\ OnePendingDraft
          /\ VerifiedIsProven /\ ConfigsSound
          /\ OneEffectPerKey /\ NoTwoQuotas /\ CallIsGuarded
          /\ PasswordStands /\ OnlyOwnRows)
    /\ OwnWorkspaceOnly /\ NoSilentStripping /\ DecisionStands
<1>. QED BY EachServiceRuns, PublishersUndisturbed,
            OwnersRemain, RolesHeldAreOwn,
            SitesAreListedOnce, PaidSitesAreNotFree, RunsCountTheirPublishers,
            QualifyingMonotone,
            NothingIsOrphaned, OneDraftIsPending,
            VerifiedSecretsAreProven, ConfigsAreSound,
            KeysHaveOneEffect, NoTwoQuotasEver, CallsGuarded,
            PasswordsStand, SessionsConfined,
            AddressedInOwnWorkspace, NothingStrippedSilently, DecisionsStand, PTL

\* With one client the exceptions are gone: the promises that each name the
\* overlap that breaks them hold as the docstrings have them.
THEOREM OneAtATime ==
  ASSUME \A c, d \in Clients : c = d
  PROVE  ServicesSpec =>
           /\ [](\A e \in Emails : accounts[e].password = chosen[e])
           /\ [](\A t \in Tenants : tenants[t] # "absent" => Owners(t) # {})
           /\ [](\A r \in CredRows \ byHand :
                   LiveCred(r) /\ creds[r].status = "VERIFIED" => creds[r].secret \in proven)
           /\ [](\A o \in OppRows :
                   Cardinality({d \in DraftsOf(o) : drafts[d].status = "PENDING_REVIEW"}) <= 1)
           /\ [][\A d \in DraftRows :
                   LiveDraft(d) /\ drafts[d].status \in Decided =>
                     drafts'[d].status = drafts[d].status]_oppVars
  BY EachServiceRuns, SerialPasswordStands, SerialOwnerRemains, SerialVerifiedIsProven,
     SerialDrafts, PTL

=============================================================================
