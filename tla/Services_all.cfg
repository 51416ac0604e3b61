SPECIFICATION MCSpec
CONSTANTS
  Parts = {"workspaces", "opportunities", "credentials", "idempotency", "limiter", "http", "accounts", "sessions"}
  SampleSites <- MCSites
  Clients = {c1, c2}
  r1 = r1
  Tenants = {t1, t2}
  Users = {u1, u2}
  CustomRoles = {r1}
  MaxRows = 3
  MaxRequests = 4
  Additions <- MCAdditions
  Changes <- MCChanges
  GrantChoices <- MCGrants
  WrittenLabels <- MCWrittenLabels
  Ascii <- MCAscii
  ValidLabels <- MCValidLabels
  NumericLabels <- MCNumericLabels
  IpLiterals <- MCIpLiterals
  MaxPublishers = 3
  MaxRuns = 1
  MaxPubRequests = 3
  Pages <- MCPages
  Briefs <- MCBriefs
  Spellings <- MCSpellings
  CandidateLists <- MCCandidates
  Edits <- MCEdits
  name1 = name1
  url1 = url1
  SiteSpellings <- MCSiteSpellings
  Names = {name1, name2}
  TargetUrls = {url1}
  MaxWebsites = 2
  MaxCampaigns = 2
  MaxOpportunities = 1
  MaxDrafts = 2
  MaxOppRequests = 5
  Labels = {l1}
  Purposes = {p1}
  Vendors = {v1, v2}
  MaxCredentials = 2
  MaxConfigs = 2
  MaxCredRequests = 3
  IdemKeys = {k1, k2}
  b1 = b1
  b2 = b2
  b3 = b3
  aim1 = aim1
  aim2 = aim2
  Bodies = {b1, b2, b3}
  Aims = {aim1, aim2}
  Aim <- MCAim
  Finds = TRUE
  MaxResources = 3
  MaxIdemRequests = 3
  Scopes = {"api"}
  Addresses = {a1, a2}
  Limit <- MCLimit
  Window <- MCWindow
  MaxKeys = 1
  MaxTime = 4
  Hosts = {h1, h2}
  PublicHosts = {h1}
  MaxRetries = 2
  MaxRedirects = 2
  FollowRedirects = TRUE
  Emails = {e1}
  Passwords = {pw1, pw2, pw3}
  Weak = {pw3}
  Costs = {1, 2}
  MaxAuthRequests = 4
  TenantIds = {t1, t2}
  UserIds = {u1, u2}
  Connections = {x1, x2}
  None = None
SYMMETRY Symmetry
CHECK_DEADLOCK FALSE
INVARIANT TypeOK
INVARIANT OwnerRemains
INVARIANT HeldRolesAreOwn
INVARIANT QualifyingIsMonotone
INVARIANT OneSite
INVARIANT FreeIsNotPaid
INVARIANT RunCountsItsPublishers
INVARIANT NoOrphans
INVARIANT OnlyOwnRows
INVARIANT OnePendingDraft
INVARIANT VerifiedIsProven
INVARIANT ConfigsSound
INVARIANT OneEffectPerKey
INVARIANT NoTwoQuotas
INVARIANT CallIsGuarded
INVARIANT PasswordStands
PROPERTY OwnWorkspaceOnly
PROPERTY NoSilentStripping
PROPERTY DecisionStands
