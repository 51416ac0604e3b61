------------------------------ MODULE Publishers ------------------------------
(***************************************************************************)
(* The publishers of one workspace: CRUD, discovery and qualification      *)
(* (publishers/*.py), with the crawler that gathers the evidence.          *)
(*                                                                         *)
(* A request loads its rows in one step and writes in another.  A          *)
(* qualification takes three: it loads the row, marks it QUALIFYING, which *)
(* locks it, and writes the outcome when the site has been crawled.        *)
(***************************************************************************)
EXTENDS Requests, Scoring, Sequences

CONSTANTS WrittenLabels,   \* labels of host names, as callers write them
          Ascii,           \* a written label, lowered and in punycode; not a valid
                           \* label where the idna library refuses it
          ValidLabels,     \* labels that a domain may have ...
          NumericLabels,   \* ... and those of them that are all digits
          IpLiterals,      \* hosts that the ipaddress library reads
          MaxPublishers,   \* bound: rows of publishers ever inserted
          MaxRuns,         \* bound: discovery runs
          MaxPubRequests,  \* bound: requests begun
          Pages,           \* what a crawl may meet
          Briefs,          \* what a qualification is asked to match
          Spellings,       \* what a caller may write for a domain
          CandidateLists,  \* what a discovery provider may answer
          Edits            \* what POST and PATCH are asked: a pricing and a status

PricingTypes == {"FREE", "PAID", "MIXED", "UNKNOWN"}
PublisherStatuses ==
  {"DISCOVERED", "QUALIFYING", "QUALIFIED", "REJECTED", "BLOCKED", "ARCHIVED"}
RunStatuses == {"PENDING", "FAILED", "COMPLETED"}
PubRows == 1..MaxPublishers
RunRows == 1..MaxRuns
NoRun == 0
NoPage == [robots |-> "not asked"]
NoSignals == [signals |-> "none"]

\* A canonical domain is a sequence of labels, the empty one stands for none.
NotADomain == <<>>
Domains ==
  {d \in Seq(ValidLabels) : /\ Len(d) >= 2
                            /\ d[Len(d)] \notin NumericLabels
                            /\ Len(d) > 2 => d[1] # "www"}

ASSUME PublishersAssumption ==
  /\ MaxPublishers \in Nat /\ MaxRuns \in Nat /\ MaxPubRequests \in Nat
  /\ Pages \subseteq
       [robots : BOOLEAN, answer : {"page", "challenge", "http_error", "none"},
        https : BOOLEAN, submitLink : BOOLEAN, freePhrase : BOOLEAN, paidPhrase : BOOLEAN,
        probed : BOOLEAN, noindex : BOOLEAN, spam : SUBSET SpamSignals,
        linkFarm : BOOLEAN, authority : {Unmeasured} \cup 0..100]
  /\ Briefs \subseteq [hits : Nat, recorded : BOOLEAN, marker : BOOLEAN,
                       country : BOOLEAN, language : BOOLEAN]
  /\ Spellings \subseteq [scheme : {"none", "http", "https", "other"},
                          port : {"none", "given", "malformed"}, host : Seq(WrittenLabels)]
  /\ CandidateLists \subseteq Seq(Spellings)
  /\ Edits \subseteq [pricing : PricingTypes, status : PublisherStatuses]

ASSUME LabelsAssumption ==
  /\ "" \notin ValidLabels
  /\ DOMAIN Ascii = WrittenLabels

VARIABLES
  pubs,       \* publishers
  runs,       \* discovery_runs
  pubReq,     \* what each client's request is about to write
  pubServed,  \* requests begun
  rerun,      \* history: runs executed again after they had ended
  repriced    \* history: publishers whose pricing was changed behind the last
              \* qualification, by a person or by another qualification

pubHistory == <<rerun, repriced>>
pubVars == <<pubs, runs, pubReq, pubServed, pubHistory>>

PublisherRows ==
  [state : {"unused", "live", "deleted"}, domain : Domains \cup {NotADomain},
   pricing : PricingTypes, status : PublisherStatuses,
   signals : Signals \cup {NoSignals}, run : RunRows \cup {NoRun}]
DiscoveryRuns ==
  [state : {"unused", "live"}, status : RunStatuses, created : Nat, duplicates : Nat]

\* start_run
NewRun == [state |-> "live", status |-> "PENDING", created |-> 0, duplicates |-> 0]

UnusedPublisher ==
  [state |-> "unused", domain |-> NotADomain, pricing |-> "UNKNOWN", status |-> "DISCOVERED",
   signals |-> NoSignals, run |-> NoRun]

PubRequests ==
       [op : {"create"}, domain : Domains, pricing : PricingTypes,
        status : PublisherStatuses]
  \cup [op : {"update"}, pub : PubRows, pricing : PricingTypes \cup {"keep"},
        status : PublisherStatuses \cup {"keep"}]
  \cup [op : {"delete"}, pub : PubRows]
  \cup [op : {"qualify"}, pub : PubRows, loaded : PublisherRows, locked : BOOLEAN,
        marked : BOOLEAN, brief : Briefs, page : Pages \cup {NoPage}]
  \cup [op : {"discover"}, run : RunRows, answer : CandidateLists,
        known : SUBSET Domains]

PublishersTypeOK ==
  /\ pubs \in [PubRows -> PublisherRows]
  /\ runs \in [RunRows -> DiscoveryRuns]
  /\ pubReq \in [Clients -> PubRequests \cup {idle}]
  /\ pubServed \in 0..MaxPubRequests
  /\ rerun \subseteq RunRows
  /\ repriced \subseteq PubRows

-----------------------------------------------------------------------------
(***************************************************************************)
(* Canonical domains (core/domains.py).  Spaces, paths and the limit on    *)
(* the length of a host are left out.                                      *)
(***************************************************************************)

\* _to_ascii_host: without the dots around it, lowered, in punycode.
Host(x) ==
  LET folded == [i \in DOMAIN x.host |-> Ascii[x.host[i]]]
      named == {i \in DOMAIN x.host : folded[i] # ""}
  IN IF named = {} THEN <<>>
     ELSE SubSeq(folded, CHOOSE i \in named : \A j \in named : i <= j,
                         CHOOSE i \in named : \A j \in named : i >= j)

\* _validate_host
ValidHost(host) ==
  /\ host \in Seq(ValidLabels)
  /\ Len(host) >= 2
  /\ host[Len(host)] \notin NumericLabels

\* Mutant: "www." is dropped once.
DropWww_Once(host) ==
  IF Len(host) > 2 /\ host[1] = "www" THEN Tail(host) ELSE host

\* Every leading "www." goes, as long as two labels stay.
DropWww(host) ==
  LET dropped == {i \in 1..(Len(host) - 2) : \A j \in 1..i : host[j] = "www"}
  IN SubSeq(host, Cardinality(dropped) + 1, Len(host))

\* A port that is none is found out when the host has passed, by a ValueError
\* that is no ValidationError.
PortRaises(x) ==
  /\ x.port = "malformed" /\ x.scheme # "other"
  /\ x.host \in IpLiterals \/ ValidHost(Host(x))

\* normalize_domain of normalize_url, or NotADomain where one of them raises.
NormalizeDomain(x) ==
  IF x.scheme # "other" /\ x.host \notin IpLiterals /\ ValidHost(Host(x)) /\ ~PortRaises(x)
    THEN DropWww(Host(x)) ELSE NotADomain

-----------------------------------------------------------------------------
(***************************************************************************)
(* The crawler.                                                            *)
(***************************************************************************)

UnseenSite ==
  [reachable |-> FALSE, tls |-> FALSE, path |-> FALSE, free |-> FALSE, paid |-> FALSE,
   indexable |-> TRUE, spam |-> {}, linkFarm |-> FALSE, text |-> FALSE]

\* A submission link, the words of one, or a conventional path that has them.
SubmissionPath(page) == page.submitLink \/ page.freePhrase \/ page.probed

\* HttpCrawlerProvider.fetch_site never raises; a challenge ends the crawl.
Crawl(page) ==
  CASE ~page.robots                -> [UnseenSite EXCEPT !.indexable = FALSE]
    [] page.robots /\ page.answer = "none" -> UnseenSite
    [] page.robots /\ page.answer = "http_error" -> [UnseenSite EXCEPT !.tls = page.https]
    [] page.robots /\ page.answer = "challenge" ->
         [UnseenSite EXCEPT !.reachable = TRUE, !.tls = page.https,
                            !.indexable = ~page.noindex]
    [] page.robots /\ page.answer = "page" ->
         [reachable |-> TRUE, tls |-> page.https, path |-> SubmissionPath(page),
          free |-> page.freePhrase \/ SubmissionPath(page),
          paid |-> page.paidPhrase /\ ~page.freePhrase,
          indexable |-> ~page.noindex, spam |-> page.spam,
          linkFarm |-> page.linkFarm, text |-> TRUE]

-----------------------------------------------------------------------------
(***************************************************************************)
(* Qualification.                                                          *)
(***************************************************************************)

\* Without a crawl the stored evidence is used again; a row that was never
\* crawled has none.
Evidence(loaded, page) ==
  IF page # NoPage THEN Crawl(page)
  ELSE IF loaded.signals = NoSignals THEN UnseenSite
  ELSE [reachable |-> loaded.signals.reachable, tls |-> loaded.signals.tls,
        path |-> loaded.signals.path, free |-> FALSE, paid |-> loaded.signals.paid,
        indexable |-> loaded.signals.indexable, spam |-> loaded.signals.spam,
        linkFarm |-> loaded.signals.linkFarm, text |-> FALSE]

\* An explicit paid signal wins, then a detected free path, then the row.
IsFree(loaded, site) == ~site.paid /\ (site.free \/ loaded.pricing = "FREE")

AuthorityOf(loaded, page) ==
  IF page # NoPage THEN page.authority
  ELSE IF loaded.signals = NoSignals THEN Unmeasured ELSE loaded.signals.authority

\* _build_signals
SignalsOf(loaded, page, brief) ==
  LET site == Evidence(loaded, page) IN
  [reachable |-> site.reachable, tls |-> site.tls, path |-> site.path,
   free |-> IsFree(loaded, site), paid |-> site.paid, indexable |-> site.indexable,
   hits |-> IF site.text THEN brief.hits ELSE 0,
   category |-> brief.recorded \/ (site.text /\ brief.marker),
   country |-> brief.country, language |-> brief.language,
   authority |-> AuthorityOf(loaded, page), spam |-> site.spam, linkFarm |-> site.linkFarm]

\* Mutant: a paid signal only settles what is unknown.
PricingAfter_Unsettled(loaded, s) ==
  LET pricing == IF s.paid /\ loaded.pricing = "UNKNOWN" THEN "PAID"
                 ELSE IF s.free /\ s.path THEN "FREE" ELSE loaded.pricing
  IN IF pricing = loaded.pricing THEN "keep" ELSE pricing

\* The pricing that _apply writes, or "keep": only a change is written.
PricingAfter(loaded, s) ==
  LET pricing == IF s.paid THEN "PAID" ELSE IF s.free /\ s.path THEN "FREE" ELSE loaded.pricing
  IN IF pricing = loaded.pricing THEN "keep" ELSE pricing

\* _apply
Verdict(s) == IF MeetsThresholds(s, DefaultWeights) THEN "QUALIFIED" ELSE "REJECTED"

-----------------------------------------------------------------------------
(***************************************************************************)
(* The routes and the tasks, up to their first write.                      *)
(***************************************************************************)

LivePub(p) == pubs[p].state = "live"
Known == {pubs[p].domain : p \in {q \in PubRows : LivePub(q)}}

\* Whether another request holds the lock of row p.
Locked(c, p) ==
  \E d \in Clients \ {c} : pubReq[d].op = "qualify" /\ pubReq[d].pub = p /\ pubReq[d].locked

PubBegin(c, request) ==
  /\ pubReq[c] = idle
  /\ pubServed < MaxPubRequests
  /\ pubServed' = pubServed + 1
  /\ pubReq' = [pubReq EXCEPT ![c] = request]
  /\ UNCHANGED <<pubs, runs, pubHistory>>

\* INVALID_DOMAIN, PUBLISHER_EXISTS
CreatePublisher(c, x, e) ==
  LET d == NormalizeDomain(x) IN
  /\ d \notin Known \cup {NotADomain}
  /\ PubBegin(c, [op |-> "create", domain |-> d, pricing |-> e.pricing, status |-> e.status])

UpdatePublisher(c, p, e) ==
  /\ LivePub(p)
  /\ PubBegin(c, [op |-> "update", pub |-> p,
                  pricing |-> IF e.pricing = pubs[p].pricing THEN "keep" ELSE e.pricing,
                  status |-> IF e.status = pubs[p].status THEN "keep" ELSE e.status])

DeletePublisher(c, p) ==
  /\ LivePub(p)
  /\ PubBegin(c, [op |-> "delete", pub |-> p])

\* qualify_by_id: the row is loaded; marking it comes next.
QualifyPublisher(c, p, brief) ==
  /\ LivePub(p)
  /\ PubBegin(c, [op |-> "qualify", pub |-> p, loaded |-> pubs[p], locked |-> FALSE,
                  marked |-> FALSE, brief |-> brief, page |-> NoPage])

\* status = QUALIFYING is flushed before the crawl, so the row is locked
\* while the site answers; a row that already said QUALIFYING is not.
MarkQualifying(c, page) ==
  LET q == pubReq[c] IN
  /\ q.op = "qualify" /\ ~q.marked
  /\ LivePub(q.pub)
  /\ ~Locked(c, q.pub)
  /\ pubReq' = [pubReq EXCEPT ![c].marked = TRUE, ![c].page = page,
                              ![c].locked = q.loaded.status # "QUALIFYING"]
  /\ UNCHANGED <<pubs, runs, pubServed, pubHistory>>

\* POST /publishers/discover: the run and its job, in one transaction.
StartRun(r) ==
  /\ runs[r].state = "unused"
  /\ \A s \in RunRows : s < r => runs[s].state = "live"
  /\ runs' = [runs EXCEPT ![r] = NewRun]
  /\ UNCHANGED <<pubs, pubReq, pubServed, pubHistory>>

\* status = RUNNING is flushed before the provider is asked: the row is locked.
UnderWay(r) == \E c \in Clients : pubReq[c].op = "discover" /\ pubReq[c].run = r

\* run_publisher_discovery, up to the lookup of the known domains.  A job may
\* be run again after it has committed.
ExecuteRun(c, r, answer) ==
  /\ runs[r].state = "live" /\ ~UnderWay(r)
  /\ PubBegin(c, [op |-> "discover", run |-> r, answer |-> answer, known |-> Known])

\* The provider fails: the run says so, and the job succeeds.
FailRun(r) ==
  /\ runs[r].state = "live" /\ ~UnderWay(r)
  /\ runs' = [runs EXCEPT ![r].status = "FAILED"]
  /\ rerun' = IF runs[r].status = "PENDING" THEN rerun ELSE rerun \cup {r}
  /\ UNCHANGED <<pubs, pubReq, pubServed, repriced>>

-----------------------------------------------------------------------------
(***************************************************************************)
(* The commits.                                                            *)
(***************************************************************************)

PubEnd(c) == pubReq' = [pubReq EXCEPT ![c] = idle] /\ UNCHANGED pubServed

\* uq_publishers_tenant_id_normalized_domain
UniqueDomain(ds) == ds \cap Known = {}

NewPublisher(d, pricing, status, r) ==
  [state |-> "live", domain |-> d, pricing |-> pricing, status |-> status,
   signals |-> NoSignals, run |-> r]

\* The next rows of the table, one for each domain in ds.
NextRows(ds) ==
  {f \in [ds -> PubRows] :
     /\ \A d \in ds : pubs[f[d]].state = "unused"
     /\ \A d, e \in ds : d # e => f[d] # f[e]
     /\ \A d \in ds, p \in PubRows :
          p < f[d] => pubs[p].state # "unused" \/ \E e \in ds : f[e] = p}

CommitCreate(c) ==
  LET q == pubReq[c] IN
  /\ q.op = "create"
  /\ UniqueDomain({q.domain})
  /\ \E f \in NextRows({q.domain}) :
       pubs' = [pubs EXCEPT ![f[q.domain]] = NewPublisher(q.domain, q.pricing, q.status, NoRun)]
  /\ PubEnd(c)
  /\ UNCHANGED <<runs, pubHistory>>

CommitUpdatePublisher(c) ==
  LET q == pubReq[c] IN
  /\ q.op = "update"
  /\ LivePub(q.pub) /\ ~Locked(c, q.pub)
  /\ pubs' = [pubs EXCEPT ![q.pub].pricing = IF q.pricing = "keep" THEN @ ELSE q.pricing,
                          ![q.pub].status = IF q.status = "keep" THEN @ ELSE q.status]
  /\ repriced' = IF q.pricing = "keep" THEN repriced ELSE repriced \cup {q.pub}
  /\ PubEnd(c)
  /\ UNCHANGED <<runs, rerun>>

CommitDelete(c) ==
  LET q == pubReq[c] IN
  /\ q.op = "delete"
  /\ ~Locked(c, q.pub)
  /\ pubs' = [pubs EXCEPT ![q.pub].state = "deleted"]
  /\ PubEnd(c)
  /\ UNCHANGED <<runs, pubHistory>>

\* The verdict is written whatever the row says by now.
CommitQualify(c) ==
  LET q == pubReq[c]
      s == SignalsOf(q.loaded, q.page, q.brief)
      price == PricingAfter(q.loaded, s)
  IN
  /\ q.op = "qualify" /\ q.marked
  /\ LivePub(q.pub) /\ ~Locked(c, q.pub)
  /\ pubs' = [pubs EXCEPT ![q.pub].status = Verdict(s),
                          ![q.pub].signals = s,
                          ![q.pub].pricing = IF price = "keep" THEN @ ELSE price]
  /\ repriced' = IF price = "keep" /\ pubs[q.pub].pricing # q.loaded.pricing
                   THEN repriced \cup {q.pub} ELSE repriced \ {q.pub}
  /\ PubEnd(c)
  /\ UNCHANGED <<runs, rerun>>

\* Candidates that are domains; those not known become publishers, once each.
Usable(answer) == {i \in DOMAIN answer : NormalizeDomain(answer[i]) # NotADomain}

Fresh(answer, known) == {NormalizeDomain(answer[i]) : i \in Usable(answer)} \ known

\* Mutant: a candidate that was seen before in the batch counts as created.
Created_PerCandidate(answer, known) ==
  Cardinality({i \in Usable(answer) : NormalizeDomain(answer[i]) \notin known})

\* seen_in_batch
Created(answer, known) == Cardinality(Fresh(answer, known))

\* _materialise and the outcome of execute, in one transaction.
CommitDiscover(c) ==
  LET q == pubReq[c]
      new == Fresh(q.answer, q.known)
  IN
  /\ q.op = "discover"
  /\ \A i \in DOMAIN q.answer : ~PortRaises(q.answer[i])
  /\ UniqueDomain(new)
  /\ \E f \in NextRows(new) :
       pubs' = [p \in PubRows |->
                  IF \E d \in new : f[d] = p
                    THEN NewPublisher(CHOOSE d \in new : f[d] = p, "UNKNOWN", "DISCOVERED", q.run)
                    ELSE pubs[p]]
  /\ runs' = [runs EXCEPT
                ![q.run] = [state |-> "live", status |-> "COMPLETED",
                            created |-> Created(q.answer, q.known),
                            duplicates |-> Cardinality(Usable(q.answer))
                                           - Created(q.answer, q.known)]]
  /\ rerun' = IF runs[q.run].status = "PENDING" THEN rerun ELSE rerun \cup {q.run}
  /\ PubEnd(c)
  /\ UNCHANGED repriced

\* A key is violated, a row is gone, a port raises, or the connection is lost.
PubRollback(c) ==
  /\ pubReq[c] # idle
  /\ PubEnd(c)
  /\ UNCHANGED <<pubs, runs, pubHistory>>

-----------------------------------------------------------------------------
PublishersInit ==
  /\ pubs = [p \in PubRows |-> UnusedPublisher]
  /\ runs = [r \in RunRows |-> [NewRun EXCEPT !.state = "unused"]]
  /\ pubReq = [c \in Clients |-> idle]
  /\ pubServed = 0
  /\ rerun = {} /\ repriced = {}

PubRoute(c) ==
  \/ \E x \in Spellings, e \in Edits : CreatePublisher(c, x, e)
  \/ \E p \in PubRows, e \in Edits : UpdatePublisher(c, p, e)
  \/ \E p \in PubRows : DeletePublisher(c, p)
  \/ \E p \in PubRows, brief \in Briefs : QualifyPublisher(c, p, brief)
  \/ \E r \in RunRows, answer \in CandidateLists : ExecuteRun(c, r, answer)

PubStep(c) ==
  \/ \E page \in Pages \cup {NoPage} : MarkQualifying(c, page)
  \/ CommitCreate(c)
  \/ CommitUpdatePublisher(c)
  \/ CommitDelete(c)
  \/ CommitQualify(c)
  \/ CommitDiscover(c)
  \/ PubRollback(c)

PublishersNext ==
  \/ \E c \in Clients : PubRoute(c)
  \/ \E c \in Clients : PubStep(c)
  \/ \E r \in RunRows : StartRun(r)
  \/ \E r \in RunRows : FailRun(r)

PublishersSpec == PublishersInit /\ [][PublishersNext]_pubVars

-----------------------------------------------------------------------------
\* What core/domains.py promises of the canonical form: x is a way to write d,
\* with dots around it, with "www." before it, in capitals or in Unicode.
SpelledAt(x, d, dots, start) ==
  /\ start + Len(d) <= Len(x.host)
  /\ \A i \in 1..Len(x.host) :
       LET label == Ascii[x.host[i]] IN
       /\ i <= dots \/ i > start + Len(d) => label = ""
       /\ dots < i /\ i <= start => label = "www"
       /\ start < i /\ i <= start + Len(d) => label = d[i - start]

Spells(x, d) == \E start \in 0..Len(x.host) : \E dots \in 0..start : SpelledAt(x, d, dots, start)

\* "the same site cannot be added twice": no way to write a host name is one of
\* two publishers, however they were spelled and whether a person or a
\* discovery brought them in.
OneSite ==
  \A x \in Spellings, p, q \in PubRows :
    /\ LivePub(p) /\ Spells(x, pubs[p].domain)
    /\ LivePub(q) /\ Spells(x, pubs[q].domain)
    => p = q

\* A completed run says how many publishers it has brought in, deleted ones
\* included, unless its job was run a second time.
RunCountsItsPublishers ==
  \A r \in RunRows :
    runs[r].status = "COMPLETED" /\ r \notin rerun =>
      runs[r].created = Cardinality({p \in PubRows : pubs[p].run = r})

\* More evidence in favour of a site never costs it anything: neither for a
\* publisher with the evidence that was recorded for it, nor for any sample
\* site, does the score of publishers/scoring.py fall, or a site that qualifies
\* stop qualifying.
QualifyingIsMonotone ==
  /\ SamplesAreMonotone
  /\ \A p \in PubRows :
       LivePub(p) /\ pubs[p].signals # NoSignals => MonotoneAt(pubs[p].signals)

\* Only FREE publishers may be submitted to: one whose latest evidence says that
\* listings are paid for is FREE only if its pricing was changed behind the
\* qualification that found this out.
FreeIsNotPaid ==
  \A p \in PubRows \ repriced :
    LivePub(p) /\ pubs[p].pricing = "FREE" /\ pubs[p].signals # NoSignals =>
      ~pubs[p].signals.paid
=============================================================================
