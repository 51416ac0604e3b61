------------------------------ MODULE MCServices ------------------------------
EXTENDS Services, TLC

CONSTANTS r1, name1, url1, b1, b2, b3, aim1, aim2


----------------------------------------------------------------------------
(* Workspaces *)
MCAdditions == {[status |-> "ACTIVE", roles |-> {"viewer"}],
                [status |-> "ACTIVE", roles |-> {r1}]}

MCChange(st, owner, rs) == [status |-> st, owner |-> owner, roles |-> rs]
MCChanges == {MCChange("keep", "yes", {"owner"}), MCChange("keep", "no", {}),
              MCChange("SUSPENDED", "keep", {}), MCChange("keep", "keep", {r1})}

MCGrants == {{<<"user", "update">>}}

----------------------------------------------------------------------------
(* Publishers *)
MCPage == [robots |-> TRUE, answer |-> "page", https |-> TRUE, submitLink |-> TRUE,
           freePhrase |-> FALSE, paidPhrase |-> FALSE, probed |-> FALSE,
           noindex |-> FALSE, spam |-> {}, linkFarm |-> FALSE, authority |-> Unmeasured]
MCPages == {MCPage,
            [MCPage EXCEPT !.paidPhrase = TRUE],
            [MCPage EXCEPT !.answer = "challenge"],
            [MCPage EXCEPT !.robots = FALSE]}
MCBriefs == {[hits |-> 2, recorded |-> FALSE, marker |-> TRUE, country |-> TRUE,
              language |-> TRUE]}

\* Labels as they may be written, and what lowering and punycode make of them.
MCWrittenLabels ==
  {"", "www", "WWW", "acme", "Acme", "directory", "com", "COM", "127", "0", "bad_label"}
MCAscii ==
  [w \in MCWrittenLabels |-> CASE w = "WWW" -> "www" [] w = "Acme" -> "acme"
                               [] w = "COM" -> "com" [] OTHER -> w]
MCNumericLabels == {"127", "0"}
MCValidLabels == MCNumericLabels \cup {"www", "acme", "directory", "com"}
MCIpLiterals == {<<"127", "0", "0", "127">>}

MCSpelling(scheme, port, host) == [scheme |-> scheme, port |-> port, host |-> host]
Acme == MCSpelling("none", "none", <<"acme", "com">>)
AcmeWww == MCSpelling("https", "given", <<"www", "Acme", "COM", "">>)
AcmeTwice == MCSpelling("http", "none", <<"WWW", "www", "acme", "com">>)
Directory == MCSpelling("https", "none", <<"directory", "com">>)
Address == MCSpelling("https", "none", <<"127", "0", "0", "127">>)
Mail == MCSpelling("other", "none", <<"acme", "com">>)
BadLabel == MCSpelling("none", "none", <<"bad_label", "com">>)
OneLabel == MCSpelling("none", "none", <<"acme">>)
BadPort == MCSpelling("http", "malformed", <<"directory", "com">>)

MCSpellings == {Acme, AcmeWww, AcmeTwice, Directory, Address, Mail, BadLabel, OneLabel, BadPort}
MCSiteSpellings == {AcmeWww, Address}
MCCandidates == {<<AcmeTwice, Acme, Address, Mail>>, <<Directory, AcmeWww>>,
                 <<Acme, BadPort>>}
MCEdits == {[pricing |-> "FREE", status |-> "DISCOVERED"],
            [pricing |-> "UNKNOWN", status |-> "BLOCKED"]}

\* Sites to compare, all that a crawl may find but for the numbers.
MCSites ==
  {s \in [reachable : BOOLEAN, tls : {TRUE}, path : BOOLEAN, free : BOOLEAN,
          paid : BOOLEAN, indexable : BOOLEAN, hits : {0, 2, 5}, category : BOOLEAN,
          country : BOOLEAN, language : {FALSE}, authority : {Unmeasured, 0, 60, 100},
          spam : {{}, {"adult_content"}, {"paid_links_offered"},
                  {"adult_content", "vendor_spam_score_high"}},
          linkFarm : BOOLEAN] : ~(s.free /\ s.paid)}

----------------------------------------------------------------------------
(* The rest *)
\* Two bodies for the same campaign, publisher and URL, and one for another.
MCAim == [b \in Bodies |-> IF b = b3 THEN aim2 ELSE aim1]
MCLimit == [s \in Scopes |-> 2]
MCWindow == [s \in Scopes |-> 2]

----------------------------------------------------------------------------
(* States to begin in: an empty database, and three that a workspace gets  *)
(* to.  In each the requests that are left are given to one half of the    *)
(* part, so that they are enough for the cases of that half.               *)

\* A publisher that a discovery found, that was qualified, and whose pricing
\* was then set back by hand.
SeededPublisher ==
  [UnusedPublisher EXCEPT !.state = "live", !.domain = NormalizeDomain(Acme), !.run = 1,
                          !.signals = SignalsOf(UnusedPublisher, MCPage,
                                                CHOOSE b \in MCBriefs : TRUE)]
SeededRun == [state |-> "live", status |-> "COMPLETED", created |-> 1, duplicates |-> 0]

\* Publishers alone, from nothing and from the seeded one.
PublishersAlone(seeded) ==
  /\ IF seeded THEN /\ pubs = [p \in PubRows |-> IF p = 1 THEN SeededPublisher
                                                          ELSE UnusedPublisher]
                    /\ runs = [r \in RunRows |-> SeededRun]
               ELSE /\ pubs = [p \in PubRows |-> UnusedPublisher]
                    /\ runs = [r \in RunRows |-> [SeededRun EXCEPT !.state = "unused",
                                              !.status = "PENDING", !.created = 0]]
  /\ pubServed = 0
  /\ oppServed = MaxOppRequests
  /\ webs = [w \in WebRows |-> [state |-> "unused", site |-> NotADomain]]
  /\ camps = [k \in CampRows |-> [state |-> "unused", web |-> 0, name |-> "none"]]

\* Campaigns, up to the first publisher.
CampaignsAlone ==
  /\ pubs = [p \in PubRows |-> UnusedPublisher]
  /\ runs = [r \in RunRows |-> [SeededRun EXCEPT !.state = "unused", !.status = "PENDING",
                                                  !.created = 0]]
  /\ pubServed = MaxPubRequests
  /\ oppServed = 0
  /\ webs = [w \in WebRows |-> [state |-> "unused", site |-> NotADomain]]
  /\ camps = [k \in CampRows |-> [state |-> "unused", web |-> 0, name |-> "none"]]

\* Opportunities of one campaign with a publisher that is FREE: before it is
\* listed, while the publisher may be edited or deleted once, and after.
OpportunitiesOfOne(listed) ==
  /\ pubs = [p \in PubRows |-> IF p = 1 THEN [SeededPublisher EXCEPT !.pricing = "FREE"]
                                        ELSE UnusedPublisher]
  /\ runs = [r \in RunRows |-> SeededRun]
  /\ pubServed = IF listed THEN MaxPubRequests ELSE MaxPubRequests - 1
  /\ oppServed = MaxOppRequests - 3
  /\ webs = [w \in WebRows |-> IF w = 1 THEN [state |-> "live", site |-> NormalizeDomain(Acme)]
                               ELSE [state |-> "unused", site |-> NotADomain]]
  /\ camps = [k \in CampRows |-> IF k = 1 THEN [state |-> "live", web |-> 1, name |-> name1]
                                ELSE [state |-> "unused", web |-> 0, name |-> "none"]]

NoOpportunity == [state |-> "unused", camp |-> 0, pub |-> 0, url |-> "none",
                  status |-> "DISCOVERED"]
Listed == [NoOpportunity EXCEPT !.state = "live", !.camp = 1, !.pub = 1, !.url = url1]

NothingUnderWay ==
  /\ drafts = [d \in DraftRows |-> [state |-> "unused", opp |-> 0, status |-> "DRAFT"]]
  /\ oppReq = [c \in Clients |-> idle] /\ pubReq = [c \in Clients |-> idle]
  /\ overlapped = {} /\ rerun = {} /\ repriced = {}

MCInit ==
  /\ part \in Parts
  /\ WorkspacesInit /\ CredentialsInit /\ IdempotencyInit /\ RateLimiterInit
  /\ HttpClientInit /\ AccountsInit /\ TenantSessionsInit
  /\ IF part = "opportunities"
       THEN /\ \/ /\ \/ \E seeded \in BOOLEAN : PublishersAlone(seeded)
                     \/ CampaignsAlone
                     \/ OpportunitiesOfOne(FALSE)
                  /\ opps = [o \in OppRows |-> NoOpportunity]
               \/ /\ OpportunitiesOfOne(TRUE)
                  /\ opps = [o \in OppRows |-> IF o = 1 THEN Listed ELSE NoOpportunity]
            /\ NothingUnderWay
       ELSE OpportunitiesInit
  /\ part # "accounts" => cost = NoAccount.cost

MCSpec == MCInit /\ [][ServicesNext]_servicesVars

Symmetry == Permutations(Clients) \cup Permutations(Users) \cup Permutations(Tenants)
=============================================================================
