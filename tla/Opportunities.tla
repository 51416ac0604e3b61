---------------------------- MODULE Opportunities ----------------------------
(***************************************************************************)
(* What a workspace does with its publishers: client websites, their       *)
(* campaigns, the opportunities that pair a campaign with a publisher, and *)
(* the drafts of listing copy that a person reviews (organizations/,       *)
(* campaigns/ and opportunities/).                                         *)
(*                                                                         *)
(* It composes Publishers: a publisher that goes takes its opportunities   *)
(* along, and one that changes changes under the requests that have read   *)
(* it.  A request loads its rows in one step and commits in another; the   *)
(* generation of a draft takes three, because it waits for the AI.         *)
(***************************************************************************)
EXTENDS Publishers, Workflows

CONSTANTS SiteSpellings,  \* what a caller may write for a client website
          Names,          \* names of campaigns
          TargetUrls,
          MaxWebsites, MaxCampaigns, MaxOpportunities, MaxDrafts, \* bounds: rows
          MaxOppRequests  \* bound: requests begun

ContentStatuses == {"DRAFT", "PENDING_REVIEW", "APPROVED", "REJECTED", "SUPERSEDED"}
Decided == {"APPROVED", "REJECTED"}
WebRows == 1..MaxWebsites
CampRows == 1..MaxCampaigns
OppRows == 1..MaxOpportunities
DraftRows == 1..MaxDrafts

ASSUME OpportunitiesAssumption ==
  /\ {MaxWebsites, MaxCampaigns, MaxOpportunities, MaxDrafts, MaxOppRequests} \subseteq Nat
  /\ SiteSpellings \subseteq Spellings

VARIABLES
  webs,       \* client_websites
  camps,      \* campaigns
  opps,       \* opportunities
  drafts,     \* generated_contents
  oppReq,     \* what each client's request is about to write
  oppServed,  \* requests begun
  overlapped  \* history: drafts decided, and opportunities given a draft, while
              \* another request was about to write the same rows

oppOwn  == <<webs, camps, opps, drafts, oppReq, oppServed, overlapped>>
oppVars == <<pubVars, oppOwn>>

States == {"unused", "live", "deleted"}
Websites == [state : States, site : Domains \cup {NotADomain}]
Campaigns == [state : States, web : WebRows \cup {0}, name : Names \cup {"none"}]
OpportunityRows ==
  [state : States, camp : CampRows \cup {0}, pub : PubRows \cup {0},
   url : TargetUrls \cup {"none"}, status : OpportunityStatuses]
Drafts == [state : States, opp : OppRows \cup {0}, status : ContentStatuses]

WebsiteRequests ==
  [op : {"createWebsite"}, site : Domains] \cup [op : {"deleteWebsite"}, web : WebRows]
CampaignRequests ==
       [op : {"createCampaign"}, web : WebRows, name : Names]
  \cup [op : {"renameCampaign"}, camp : CampRows, name : Names]
  \cup [op : {"deleteCampaign"}, camp : CampRows]
OppRequests ==
       [op : {"create"}, camp : CampRows, pub : PubRows, url : TargetUrls]
  \cup [op : {"move"}, opp : OppRows, status : OpportunityStatuses \cup {"keep"}]
  \cup [op : {"delete"}, opp : OppRows]
  \cup [op : {"generate"}, opp : OppRows, answered : BOOLEAN, old : SUBSET DraftRows]
  \cup [op : {"review"}, draft : DraftRows, decision : Decided]

OpportunitiesTypeOK ==
  /\ PublishersTypeOK
  /\ webs \in [WebRows -> Websites]
  /\ camps \in [CampRows -> Campaigns]
  /\ opps \in [OppRows -> OpportunityRows]
  /\ drafts \in [DraftRows -> Drafts]
  /\ oppReq \in [Clients -> WebsiteRequests \cup CampaignRequests \cup OppRequests \cup {idle}]
  /\ oppServed \in 0..MaxOppRequests
  /\ overlapped \subseteq ({"draft"} \X DraftRows) \cup ({"opportunity"} \X OppRows)

LiveWeb(w)   == webs[w].state = "live"
LiveCamp(k)  == camps[k].state = "live"
LiveOpp(o)   == opps[o].state = "live"
LiveDraft(d) == drafts[d].state = "live"
DraftsOf(o)  == {d \in DraftRows : LiveDraft(d) /\ drafts[d].opp = o}

-----------------------------------------------------------------------------
(***************************************************************************)
(* The routes, up to their first write.                                    *)
(***************************************************************************)

OppBegin(c, request) ==
  /\ oppReq[c] = idle
  /\ oppServed < MaxOppRequests
  /\ oppServed' = oppServed + 1
  /\ oppReq' = [oppReq EXCEPT ![c] = request]
  /\ UNCHANGED <<webs, camps, opps, drafts, overlapped>>

\* INVALID_DOMAIN, CLIENT_WEBSITE_EXISTS
CreateWebsite(c, x) ==
  LET site == NormalizeDomain(x) IN
  /\ site # NotADomain
  /\ \A w \in WebRows : LiveWeb(w) => webs[w].site # site
  /\ OppBegin(c, [op |-> "createWebsite", site |-> site])

DeleteWebsite(c, w) ==
  /\ LiveWeb(w)
  /\ OppBegin(c, [op |-> "deleteWebsite", web |-> w])

\* CAMPAIGN_NAME_TAKEN
CreateCampaign(c, w, name) ==
  /\ LiveWeb(w)
  /\ \A k \in CampRows : LiveCamp(k) /\ camps[k].web = w => camps[k].name # name
  /\ OppBegin(c, [op |-> "createCampaign", web |-> w, name |-> name])

\* PATCH /campaigns/{id}, as far as uniqueness is concerned: nobody looks first.
RenameCampaign(c, k, name) ==
  /\ LiveCamp(k) /\ camps[k].name # name
  /\ OppBegin(c, [op |-> "renameCampaign", camp |-> k, name |-> name])

DeleteCampaign(c, k) ==
  /\ LiveCamp(k)
  /\ OppBegin(c, [op |-> "deleteCampaign", camp |-> k])

Twins(k, p, url) ==
  {o \in OppRows : LiveOpp(o) /\ opps[o].camp = k /\ opps[o].pub = p /\ opps[o].url = url}

\* _assert_free
AssertFree(p) == pubs[p].pricing = "FREE"

\* POST /opportunities.  When the row is there already it is the answer.
CreateOpportunity(c, k, p, url) ==
  /\ LiveCamp(k) /\ LivePub(p)
  /\ AssertFree(p)
  /\ Twins(k, p, url) = {}
  /\ OppBegin(c, [op |-> "create", camp |-> k, pub |-> p, url |-> url])

\* /select, /reject with its reason, /transition
TransitionOpportunity(c, o, status) ==
  /\ LiveOpp(o)
  /\ status \in OpportunityTransitions[opps[o].status]
  /\ OppBegin(c, [op |-> "move", opp |-> o, status |-> status])

\* The judgement of the publisher, whatever the status is now.  An assignment
\* that changes nothing writes nothing.
QualifyOpportunity(c, o) ==
  /\ LiveOpp(o)
  /\ LET p == pubs[opps[o].pub]
         verdict == IF p.pricing = "FREE" /\ p.status = "QUALIFIED"
                      THEN "QUALIFIED" ELSE "REJECTED"
     IN OppBegin(c, [op |-> "move", opp |-> o,
                     status |-> IF verdict = opps[o].status THEN "keep" ELSE verdict])

DeleteOpportunity(c, o) ==
  /\ LiveOpp(o)
  /\ OppBegin(c, [op |-> "delete", opp |-> o])

\* CONTENT_ALREADY_APPROVED
Discards(o) == \E d \in DraftsOf(o) : drafts[d].status = "APPROVED"

\* generate, up to the call of the AI
GenerateContent(c, o, regenerate) ==
  /\ LiveOpp(o)
  /\ Discards(o) => regenerate
  /\ OppBegin(c, [op |-> "generate", opp |-> o, answered |-> FALSE, old |-> {}])

\* Mutant: nothing is superseded.
Superseded_None(o) == {}

\* supersede_drafts
Superseded(o) == {d \in DraftsOf(o) : drafts[d].status \in {"DRAFT", "PENDING_REVIEW"}}

\* The AI has answered and the drafts are listed; nothing locks them.
ReceiveContent(c) ==
  LET q == oppReq[c] IN
  /\ q.op = "generate" /\ ~q.answered
  /\ oppReq' = [oppReq EXCEPT ![c].answered = TRUE, ![c].old = Superseded(q.opp)]
  /\ UNCHANGED <<webs, camps, opps, drafts, oppServed, overlapped>>

\* Mutant: a draft may be reviewed again.
Reviewable_Always(d) == TRUE

\* CONTENT_ALREADY_REVIEWED.  A superseded draft can still be reviewed.
Reviewable(d) == drafts[d].status \notin Decided

ReviewContent(c, d, decision) ==
  /\ LiveDraft(d)
  /\ Reviewable(d)
  /\ OppBegin(c, [op |-> "review", draft |-> d, decision |-> decision])

-----------------------------------------------------------------------------
(***************************************************************************)
(* The commits.                                                            *)
(***************************************************************************)

OppEnd(c) == oppReq' = [oppReq EXCEPT ![c] = idle] /\ UNCHANGED oppServed

\* The next row of a table.
NextIn(table, r) ==
  table[r].state = "unused" /\ \A x \in DOMAIN table : x < r => table[x].state # "unused"

\* uq_client_websites, then uq_campaigns
CommitCreateWebsite(c) ==
  LET q == oppReq[c] IN
  /\ q.op = "createWebsite"
  /\ \A w \in WebRows : LiveWeb(w) => webs[w].site # q.site
  /\ \E w \in WebRows :
       NextIn(webs, w) /\ webs' = [webs EXCEPT ![w] = [state |-> "live", site |-> q.site]]
  /\ OppEnd(c)
  /\ UNCHANGED <<camps, opps, drafts, overlapped>>

NameFree(w, name) ==
  \A k \in CampRows : LiveCamp(k) /\ camps[k].web = w => camps[k].name # name

CommitCreateCampaign(c) ==
  LET q == oppReq[c] IN
  /\ q.op = "createCampaign"
  /\ LiveWeb(q.web)
  /\ NameFree(q.web, q.name)
  /\ \E k \in CampRows :
       /\ NextIn(camps, k)
       /\ camps' = [camps EXCEPT ![k] = [state |-> "live", web |-> q.web, name |-> q.name]]
  /\ OppEnd(c)
  /\ UNCHANGED <<webs, opps, drafts, overlapped>>

CommitRenameCampaign(c) ==
  LET q == oppReq[c] IN
  /\ q.op = "renameCampaign"
  /\ LiveCamp(q.camp)
  /\ NameFree(camps[q.camp].web, q.name)
  /\ camps' = [camps EXCEPT ![q.camp].name = q.name]
  /\ OppEnd(c)
  /\ UNCHANGED <<webs, opps, drafts, overlapped>>

\* Mutant: without the foreign key of opportunities.publisher_id.
ReferencesExist_CampaignOnly(k, p) == LiveCamp(k)

\* The foreign keys of an opportunity
ReferencesExist(k, p) == LiveCamp(k) /\ LivePub(p)

CommitCreateOpportunity(c) ==
  LET q == oppReq[c] IN
  /\ q.op = "create"
  /\ ReferencesExist(q.camp, q.pub)
  /\ Twins(q.camp, q.pub, q.url) = {}
  /\ \E o \in OppRows :
       /\ NextIn(opps, o)
       /\ opps' = [opps EXCEPT ![o] = [state |-> "live", camp |-> q.camp, pub |-> q.pub,
                                       url |-> q.url, status |-> "DISCOVERED"]]
  /\ OppEnd(c)
  /\ UNCHANGED <<webs, camps, drafts, overlapped>>

\* The status is written over whatever the row says by now.
CommitMove(c) ==
  LET q == oppReq[c] IN
  /\ q.op = "move"
  /\ LiveOpp(q.opp)
  /\ opps' = [opps EXCEPT ![q.opp].status = IF q.status = "keep" THEN @ ELSE q.status]
  /\ OppEnd(c)
  /\ UNCHANGED <<webs, camps, drafts, overlapped>>

Drop(table, rows) ==
  [r \in DOMAIN table |-> IF r \in rows THEN [table[r] EXCEPT !.state = "deleted"] ELSE table[r]]

\* The rows ws, ks and os go, and what refers to them or to the publishers ps:
\* ON DELETE CASCADE.
DeleteRows(ws, ks, ps, os) ==
  LET camps_ == ks \cup {k \in CampRows : LiveCamp(k) /\ camps[k].web \in ws}
      opps_ == os \cup {o \in OppRows : LiveOpp(o) /\ \/ opps[o].camp \in camps_
                                                      \/ opps[o].pub \in ps}
  IN
  /\ webs' = Drop(webs, ws)
  /\ camps' = Drop(camps, camps_)
  /\ opps' = Drop(opps, opps_)
  /\ drafts' = Drop(drafts, {d \in DraftRows : LiveDraft(d) /\ drafts[d].opp \in opps_})

\* A row that somebody else has deleted is only worth a warning.
CommitDeleteListing(c) ==
  LET q == oppReq[c] IN
  /\ \/ q.op = "deleteWebsite"  /\ DeleteRows({q.web}, {}, {}, {})
     \/ q.op = "deleteCampaign" /\ DeleteRows({}, {q.camp}, {}, {})
     \/ q.op = "delete"         /\ DeleteRows({}, {}, {}, {q.opp})
  /\ OppEnd(c)
  /\ UNCHANGED overlapped

\* Other requests that are about to write draft d, or to add one to o.
WritersOf(c, d) ==
  {e \in Clients \ {c} : \/ oppReq[e].op = "review" /\ oppReq[e].draft = d
                         \/ oppReq[e].op = "generate" /\ d \in oppReq[e].old}
Generating(c, o) ==
  {e \in Clients \ {c} : oppReq[e].op = "generate" /\ oppReq[e].opp = o /\ oppReq[e].answered}

\* The drafts listed are superseded, also one that was reviewed meanwhile.
CommitGenerate(c) ==
  LET q == oppReq[c] IN
  /\ q.op = "generate" /\ q.answered
  /\ LiveOpp(q.opp)
  /\ \E d \in DraftRows :
       /\ NextIn(drafts, d)
       /\ drafts' = [e \in DraftRows |->
                       IF e = d THEN [state |-> "live", opp |-> q.opp,
                                      status |-> "PENDING_REVIEW"]
                       ELSE IF e \in q.old THEN [drafts[e] EXCEPT !.status = "SUPERSEDED"]
                       ELSE drafts[e]]
  /\ overlapped' = IF Generating(c, q.opp) = {} THEN overlapped
                   ELSE overlapped \cup {<<"opportunity", q.opp>>}
  /\ OppEnd(c)
  /\ UNCHANGED <<webs, camps, opps>>

CommitReview(c) ==
  LET q == oppReq[c] IN
  /\ q.op = "review"
  /\ LiveDraft(q.draft)
  /\ drafts' = [drafts EXCEPT ![q.draft].status = q.decision]
  /\ overlapped' = IF WritersOf(c, q.draft) = {} THEN overlapped
                   ELSE overlapped \cup {<<"draft", q.draft>>}
  /\ OppEnd(c)
  /\ UNCHANGED <<webs, camps, opps>>

\* The AI fails, a key is violated, a row is gone, or the connection is lost.
OppRollback(c) ==
  /\ oppReq[c] # idle
  /\ OppEnd(c)
  /\ UNCHANGED <<webs, camps, opps, drafts, overlapped>>

-----------------------------------------------------------------------------
OppOwnInit ==
  /\ webs = [w \in WebRows |-> [state |-> "unused", site |-> NotADomain]]
  /\ camps = [k \in CampRows |-> [state |-> "unused", web |-> 0, name |-> "none"]]
  /\ opps = [o \in OppRows |-> [state |-> "unused", camp |-> 0, pub |-> 0, url |-> "none",
                                status |-> "DISCOVERED"]]
  /\ drafts = [d \in DraftRows |-> [state |-> "unused", opp |-> 0, status |-> "DRAFT"]]
  /\ oppReq = [c \in Clients |-> idle]
  /\ oppServed = 0
  /\ overlapped = {}

OpportunitiesInit == PublishersInit /\ OppOwnInit

WebsiteRoute(c) ==
  \/ \E x \in SiteSpellings : CreateWebsite(c, x)
  \/ \E w \in WebRows : DeleteWebsite(c, w)

CampaignRoute(c) ==
  \/ \E w \in WebRows, name \in Names : CreateCampaign(c, w, name)
  \/ \E k \in CampRows, name \in Names : RenameCampaign(c, k, name)
  \/ \E k \in CampRows : DeleteCampaign(c, k)

OpportunityRoute(c) ==
  \/ \E k \in CampRows, p \in PubRows, url \in TargetUrls : CreateOpportunity(c, k, p, url)
  \/ \E o \in OppRows, status \in OpportunityStatuses : TransitionOpportunity(c, o, status)
  \/ \E o \in OppRows : QualifyOpportunity(c, o)
  \/ \E o \in OppRows : DeleteOpportunity(c, o)
  \/ \E o \in OppRows, regenerate \in BOOLEAN : GenerateContent(c, o, regenerate)
  \/ \E d \in DraftRows, decision \in Decided : ReviewContent(c, d, decision)

OppCommit(c) ==
  \/ ReceiveContent(c)
  \/ CommitCreateWebsite(c)
  \/ CommitCreateCampaign(c)
  \/ CommitRenameCampaign(c)
  \/ CommitCreateOpportunity(c)
  \/ CommitMove(c)
  \/ CommitDeleteListing(c)
  \/ CommitGenerate(c)
  \/ CommitReview(c)
  \/ OppRollback(c)

\* The publishers a step of Publishers has deleted.
DeletedPublishers == {p \in PubRows : LivePub(p) /\ pubs'[p].state = "deleted"}

PublisherStep ==
  /\ PublishersNext
  /\ DeleteRows({}, {}, DeletedPublishers, {})
  /\ UNCHANGED <<oppReq, oppServed, overlapped>>

ListingStep ==
  /\ \E c \in Clients : WebsiteRoute(c) \/ CampaignRoute(c) \/ OpportunityRoute(c) \/ OppCommit(c)
  /\ UNCHANGED pubVars

OpportunitiesNext == PublisherStep \/ ListingStep

OpportunitiesSpec == OpportunitiesInit /\ [][OpportunitiesNext]_oppVars

-----------------------------------------------------------------------------
\* Deletions cascade, also past the requests that have just read a row:
\* nothing is left behind of a website, campaign, publisher or opportunity.
NoOrphans ==
  /\ \A k \in CampRows : LiveCamp(k) => LiveWeb(camps[k].web)
  /\ \A o \in OppRows : LiveOpp(o) => LiveCamp(opps[o].camp) /\ LivePub(opps[o].pub)
  /\ \A d \in DraftRows : LiveDraft(d) => LiveOpp(drafts[d].opp)

\* "regenerating would discard a human decision, so the caller must ask
\* explicitly", and even then an approved or rejected draft stays what it is,
\* unless somebody was about to write it when it was decided.
DecisionStands ==
  [][\A d \in DraftRows :
       /\ LiveDraft(d) /\ drafts[d].status \in Decided
       /\ <<"draft", d>> \notin overlapped
       => drafts'[d].status = drafts[d].status]_oppVars

\* A person is asked about one draft of an opportunity at a time, unless two
\* generations had both listed the drafts before either was stored.
OnePendingDraft ==
  \A o \in OppRows : <<"opportunity", o>> \notin overlapped =>
    Cardinality({d \in DraftsOf(o) : drafts[d].status = "PENDING_REVIEW"}) <= 1
=============================================================================
