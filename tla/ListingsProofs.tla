---------------------------- MODULE ListingsProofs ----------------------------
(***************************************************************************)
(* What TLAPS proves of the publishers and of what refers to them, for     *)
(* every number of rows and requests.                                      *)
(***************************************************************************)
EXTENDS Opportunities, TLAPS, FiniteSetTheorems

-----------------------------------------------------------------------------
(***************************************************************************)
(* Types of the publishers.                                                *)
(***************************************************************************)
Sites == [reachable : BOOLEAN, tls : BOOLEAN, path : BOOLEAN, free : BOOLEAN,
          paid : BOOLEAN, indexable : BOOLEAN, spam : SUBSET SpamSignals,
          linkFarm : BOOLEAN, text : BOOLEAN]

\* A crawl always ends with a verdict on the site, and one that says the site
\* is free has reached it.
LEMMA CrawlShape ==
  ASSUME NEW page \in Pages
  PROVE  Crawl(page) \in Sites /\ (Crawl(page).free => Crawl(page).reachable)
<1>1. /\ page.robots \in BOOLEAN /\ page.answer \in {"page", "challenge", "http_error", "none"}
      /\ page.https \in BOOLEAN /\ page.submitLink \in BOOLEAN /\ page.freePhrase \in BOOLEAN
      /\ page.paidPhrase \in BOOLEAN /\ page.probed \in BOOLEAN /\ page.noindex \in BOOLEAN
      /\ page.spam \in SUBSET SpamSignals /\ page.linkFarm \in BOOLEAN
  BY PublishersAssumption
<1>2. CASE ~page.robots
  <2>1. Crawl(page) = [UnseenSite EXCEPT !.indexable = FALSE]
    BY <1>2 DEF Crawl
  <2> QED BY <2>1 DEF UnseenSite, Sites
<1>3. CASE page.robots /\ page.answer = "none"
  <2>1. Crawl(page) = UnseenSite
    BY <1>3 DEF Crawl
  <2> QED BY <2>1 DEF UnseenSite, Sites
<1>4. CASE page.robots /\ page.answer = "http_error"
  <2>1. Crawl(page) = [UnseenSite EXCEPT !.tls = page.https]
    BY <1>4 DEF Crawl
  <2> QED BY <1>1, <2>1 DEF UnseenSite, Sites
<1>5. CASE page.robots /\ page.answer = "challenge"
  <2>1. Crawl(page) = [UnseenSite EXCEPT !.reachable = TRUE, !.tls = page.https,
                                         !.indexable = ~page.noindex]
    BY <1>5 DEF Crawl
  <2> QED BY <1>1, <2>1 DEF UnseenSite, Sites
<1>6. CASE page.robots /\ page.answer = "page"
  <2>1. Crawl(page) =
          [reachable |-> TRUE, tls |-> page.https, path |-> SubmissionPath(page),
           free |-> page.freePhrase \/ SubmissionPath(page),
           paid |-> page.paidPhrase /\ ~page.freePhrase,
           indexable |-> ~page.noindex, spam |-> page.spam,
           linkFarm |-> page.linkFarm, text |-> TRUE]
    BY <1>6 DEF Crawl
  <2> QED BY <1>1, <2>1 DEF SubmissionPath, Sites
<1> QED BY <1>1, <1>2, <1>3, <1>4, <1>5, <1>6

LEMMA EvidenceShape ==
  ASSUME NEW loaded \in PublisherRows, NEW page \in Pages \cup {NoPage}
  PROVE  Evidence(loaded, page) \in Sites
<1>1. CASE page # NoPage
  BY <1>1, CrawlShape DEF Evidence
<1>2. CASE page = NoPage /\ loaded.signals = NoSignals
  BY <1>2 DEF Evidence, UnseenSite, Sites
<1>3. CASE page = NoPage /\ loaded.signals # NoSignals
  <2> DEFINE s == loaded.signals
  <2>1. s \in Signals
    BY <1>3 DEF PublisherRows
  <2>2. Evidence(loaded, page) =
          [reachable |-> s.reachable, tls |-> s.tls, path |-> s.path, free |-> FALSE,
           paid |-> s.paid, indexable |-> s.indexable, spam |-> s.spam,
           linkFarm |-> s.linkFarm, text |-> FALSE]
    BY <1>3 DEF Evidence
  <2> HIDE DEF s
  <2> QED BY <2>1, <2>2 DEF Signals, Sites
<1> QED BY <1>1, <1>2, <1>3

LEMMA SignalsShape ==
  ASSUME NEW loaded \in PublisherRows, NEW page \in Pages \cup {NoPage}, NEW brief \in Briefs
  PROVE  SignalsOf(loaded, page, brief) \in Signals
<1> DEFINE site == Evidence(loaded, page)
<1>1. site \in Sites
  BY EvidenceShape
<1>2. AuthorityOf(loaded, page) \in {Unmeasured} \cup 0..100
  <2>1. page # NoPage => page.authority \in {Unmeasured} \cup 0..100
    BY PublishersAssumption
  <2>2. loaded.signals # NoSignals => loaded.signals.authority \in {Unmeasured} \cup 0..100
    BY DEF PublisherRows, Signals
  <2> QED BY <2>1, <2>2 DEF AuthorityOf
<1>3. /\ brief.hits \in Nat /\ brief.recorded \in BOOLEAN /\ brief.marker \in BOOLEAN
      /\ brief.country \in BOOLEAN /\ brief.language \in BOOLEAN
  BY PublishersAssumption
<1>4. IsFree(loaded, site) \in BOOLEAN
  BY DEF IsFree
<1> HIDE DEF site
<1>5. SignalsOf(loaded, page, brief) =
        [reachable |-> site.reachable, tls |-> site.tls, path |-> site.path,
         free |-> IsFree(loaded, site), paid |-> site.paid, indexable |-> site.indexable,
         hits |-> IF site.text THEN brief.hits ELSE 0,
         category |-> brief.recorded \/ (site.text /\ brief.marker),
         country |-> brief.country, language |-> brief.language,
         authority |-> AuthorityOf(loaded, page), spam |-> site.spam,
         linkFarm |-> site.linkFarm]
  BY DEF SignalsOf, site
<1>6. (brief.recorded \/ (site.text /\ brief.marker)) \in BOOLEAN
  OBVIOUS
<1>7. (IF site.text THEN brief.hits ELSE 0) \in Nat
  BY <1>3
<1>8. /\ site.reachable \in BOOLEAN /\ site.tls \in BOOLEAN /\ site.path \in BOOLEAN
      /\ site.paid \in BOOLEAN /\ site.indexable \in BOOLEAN
      /\ site.spam \in SUBSET SpamSignals /\ site.linkFarm \in BOOLEAN
  BY <1>1 DEF Sites
<1> QED BY <1>2, <1>3, <1>4, <1>5, <1>6, <1>7, <1>8 DEF Signals

LEMMA PubRequestShape ==
  ASSUME NEW q \in PubRequests
  PROVE  /\ q # idle /\ q.op # "idle"
         /\ q.op = "create" => /\ q.domain \in Domains /\ q.pricing \in PricingTypes
                               /\ q.status \in PublisherStatuses
         /\ q.op = "update" => /\ q.pub \in PubRows /\ q.pricing \in PricingTypes \cup {"keep"}
                               /\ q.status \in PublisherStatuses \cup {"keep"}
         /\ q.op = "delete" => q.pub \in PubRows
         /\ q.op = "qualify" => /\ q.pub \in PubRows /\ q.loaded \in PublisherRows
                                /\ q.brief \in Briefs /\ q.page \in Pages \cup {NoPage}
         /\ q.op = "discover" => /\ q.run \in RunRows /\ q.answer \in CandidateLists
                                 /\ q.known \in SUBSET Domains
  BY DEF PubRequests, idle

LEMMA PubBeginType ==
  ASSUME PublishersTypeOK, NEW c \in Clients, NEW q \in PubRequests, PubBegin(c, q)
  PROVE  PublishersTypeOK'
<1>1. pubServed' \in 0..MaxPubRequests
  BY PublishersAssumption DEF PublishersTypeOK, PubBegin
<1> QED BY <1>1 DEF PublishersTypeOK, PubBegin, pubHistory

-----------------------------------------------------------------------------
(***************************************************************************)
(* Publishers.  A run that has not ended has no publisher, so the ones it  *)
(* then brings in are all it will ever count.                              *)
(***************************************************************************)
BroughtIn(r) == {p \in PubRows : pubs[p].run = r}

RowsSound ==
  \A p \in PubRows : /\ LivePub(p) => pubs[p].domain \in Domains
                     /\ pubs[p].state = "unused" => pubs[p].run = NoRun

\* uq_publishers_tenant_id_normalized_domain, as it leaves the table.
OneDomain ==
  \A p, q \in PubRows :
    LivePub(p) /\ LivePub(q) /\ p # q => pubs[p].domain # pubs[q].domain

PubInv ==
  /\ PublishersTypeOK
  /\ RowsSound
  /\ OneDomain
  /\ FreeIsNotPaid
  /\ \A r \in RunRows :
       runs[r].state = "unused" \/ runs[r].status = "PENDING" => BroughtIn(r) = {}
  /\ RunCountsItsPublishers

\* Nothing that is there is ever undone but by a deletion.
RowsStay == \A p \in PubRows : LivePub(p) => pubs'[p].state \in {"live", "deleted"}

PubStepHolds == PubInv' /\ RowsStay

\* The "www." that go are the ones in front, so none is left in front of a name
\* that is long enough to lose it.
LEMMA WwwDropped ==
  ASSUME NEW host, ValidHost(host)
  PROVE  DropWww(host) \in Domains
<1> DEFINE n == Len(host) - 2
           dropped == {i \in 1..n : \A j \in 1..i : host[j] = "www"}
           k == Cardinality(dropped)
           rest == SubSeq(host, k + 1, Len(host))
<1>0. /\ host \in Seq(ValidLabels) /\ Len(host) \in Nat /\ n \in Nat
      /\ \A i \in 1..Len(host) : host[i] \in ValidLabels
      /\ host[Len(host)] \notin NumericLabels
  BY DEF ValidHost
<1>1. IsFiniteSet(1..n) /\ Cardinality(1..n) = n
  <2>1. n \in Nat
    BY <1>0
  <2> HIDE DEF n
  <2>2. /\ IsFiniteSet(1..n)
        /\ Cardinality(1..n) = IF 1 > n THEN 0 ELSE n - 1 + 1
    BY <2>1, FS_Interval
  <2> QED BY <2>1, <2>2
<1>2. IsFiniteSet(dropped) /\ k \in Nat /\ k <= n
  <2>1. dropped \subseteq 1..n
    OBVIOUS
  <2> HIDE DEF dropped
  <2>2. IsFiniteSet(dropped) /\ Cardinality(dropped) <= Cardinality(1..n)
    BY <1>1, <2>1, FS_Subset
  <2>3. Cardinality(dropped) \in Nat
    BY <2>2, FS_CardinalityType
  <2> QED BY <1>1, <2>2, <2>3
<1>3. k < n => host[k + 1] # "www"
  <2> SUFFICES ASSUME k < n, host[k + 1] = "www" PROVE FALSE
    OBVIOUS
  <2>1. CASE \A j \in 1..k : host[j] = "www"
    <3> HIDE DEF n
    <3>1. 1..(k + 1) \subseteq dropped
      <4> HIDE DEF k
      <4> QED BY <1>0, <1>2, <2>1
    <3>2. IsFiniteSet(1..(k + 1)) /\ Cardinality(1..(k + 1)) = k + 1
      <4> HIDE DEF k
      <4> QED BY <1>2, FS_Interval
    <3> HIDE DEF dropped
    <3>3. Cardinality(1..(k + 1)) <= k
      BY <1>2, <3>1, FS_Subset
    <3> HIDE DEF k
    <3> QED BY <1>2, <3>2, <3>3
  <2>2. CASE \E j \in 1..k : host[j] # "www"
    <3> HIDE DEF n
    <3>1. PICK j \in 1..k : host[j] # "www"
      BY <2>2
    <3> HIDE DEF k
    <3>2. dropped \subseteq 1..(j - 1)
      BY <1>0, <1>2, <3>1
    <3>3. IsFiniteSet(1..(j - 1)) /\ Cardinality(1..(j - 1)) = j - 1
      <4>1. j \in Int /\ j - 1 \in Int /\ 1 <= j
        BY <1>2, <3>1
      <4> QED BY <4>1, FS_Interval
    <3> HIDE DEF dropped
    <3>4. Cardinality(dropped) <= Cardinality(1..(j - 1))
      BY <3>2, <3>3, FS_Subset
    <3> QED BY <1>2, <3>1, <3>3, <3>4 DEF k
  <2> QED BY <2>1, <2>2
<1>4. DropWww(host) = rest
  BY DEF DropWww
<1> HIDE DEF k
<1>5. /\ rest \in Seq(ValidLabels) /\ Len(rest) = Len(host) - k
      /\ \A i \in 1..(Len(host) - k) : rest[i] = host[k + i]
  BY <1>0, <1>2
<1> HIDE DEF rest
<1>6. Len(rest) >= 2 /\ rest[Len(rest)] = host[Len(host)] /\ rest[1] = host[k + 1]
  BY <1>0, <1>2, <1>5
<1>7. Len(rest) > 2 => k < n
  BY <1>0, <1>2, <1>5
<1> HIDE DEF n
<1> QED BY <1>0, <1>3, <1>4, <1>5, <1>6, <1>7 DEF Domains

LEMMA NormalizedIsDomain ==
  ASSUME NEW x \in Spellings, NormalizeDomain(x) # NotADomain
  PROVE  NormalizeDomain(x) \in Domains
  BY WwwDropped DEF NormalizeDomain

LEMMA DomainLength ==
  ASSUME NEW d \in Domains
  PROVE  d \in Seq(ValidLabels) /\ Len(d) \in Nat /\ Len(d) >= 2
<1>1. d \in Seq(ValidLabels) /\ Len(d) >= 2
  BY DEF Domains
<1> QED BY <1>1

LEMMA DomainLabels ==
  ASSUME NEW d \in Domains
  PROVE  /\ \A i \in 1..Len(d) : d[i] # ""
         /\ Len(d) > 2 => d[1] # "www"
<1>1. d \in Seq(ValidLabels) /\ (Len(d) > 2 => d[1] # "www")
  BY DEF Domains
<1>2. \A i \in 1..Len(d) : d[i] \in ValidLabels
  BY <1>1
<1> QED BY <1>1, <1>2, LabelsAssumption

LEMMA SpellingShape ==
  ASSUME NEW x \in Spellings
  PROVE  Len(x.host) \in Nat
  BY PublishersAssumption

\* Where the name starts and ends shows in the spelling itself ...
LEMMA SpelledRange ==
  ASSUME NEW x \in Spellings, NEW d \in Domains, NEW start \in Nat, NEW dots \in 0..start,
         SpelledAt(x, d, dots, start), NEW i \in 1..Len(x.host)
  PROVE  Ascii[x.host[i]] # "" <=> i \in dots + 1..start + Len(d)
<1>0. i \in Nat /\ Len(d) \in Nat /\ dots \in Nat /\ dots <= start
  BY SpellingShape, DomainLength
<1>1. CASE i <= dots \/ i > start + Len(d)
  <2>1. Ascii[x.host[i]] = ""
    BY <1>1 DEF SpelledAt
  <2>2. ~(i \in dots + 1..start + Len(d))
    BY <1>0, <1>1
  <2> QED BY <2>1, <2>2
<1>2. CASE dots < i /\ i <= start
  <2>1. Ascii[x.host[i]] = "www"
    BY <1>2 DEF SpelledAt
  <2>2. i \in dots + 1..start + Len(d)
    BY <1>0, <1>2
  <2> QED BY <2>1, <2>2
<1>3. CASE start < i /\ i <= start + Len(d)
  <2>1. Ascii[x.host[i]] = d[i - start]
    BY <1>3 DEF SpelledAt
  <2>2. i - start \in 1..Len(d)
    BY <1>0, <1>3
  <2>3. d[i - start] # ""
    BY <2>2, DomainLabels
  <2>4. i \in dots + 1..start + Len(d)
    BY <1>0, <1>3
  <2> QED BY <2>1, <2>3, <2>4
<1>4. \/ i <= dots \/ i > start + Len(d)
      \/ dots < i /\ i <= start
      \/ start < i /\ i <= start + Len(d)
  BY <1>0
<1> QED BY <1>1, <1>2, <1>3, <1>4

\* ... and the longer of two readings would start with a "www." to be dropped.
LEMMA SpelledLonger ==
  ASSUME NEW x \in Spellings, NEW d \in Domains, NEW e \in Domains,
         NEW start \in Nat, NEW later \in Nat, NEW dots \in 0..start, start < later,
         SpelledAt(x, d, dots, start), SpelledAt(x, e, dots, later),
         start + Len(d) = later + Len(e)
  PROVE  FALSE
<1>1. Len(d) \in Nat /\ Len(e) \in Nat /\ Len(e) >= 2 /\ Len(x.host) \in Nat
  BY SpellingShape, DomainLength
<1>2. start + Len(d) <= Len(x.host)
  BY DEF SpelledAt
<1> DEFINE i == start + 1
<1>3. i \in 1..Len(x.host) /\ dots < i /\ i <= later /\ start < i /\ i <= start + Len(d)
      /\ i - start = 1 /\ Len(d) > 2
  BY <1>1, <1>2
<1> HIDE DEF i
<1>4. Ascii[x.host[i]] = "www"
  BY <1>3 DEF SpelledAt
<1>5. Ascii[x.host[i]] = d[i - start]
  BY <1>3 DEF SpelledAt
<1>6. d[1] # "www"
  BY <1>3, DomainLabels
<1> QED BY <1>3, <1>4, <1>5, <1>6

\* What is written names one canonical domain at most.
LEMMA SpelledOnce ==
  ASSUME NEW x \in Spellings, NEW d \in Domains, NEW e \in Domains, Spells(x, d), Spells(x, e)
  PROVE  d = e
<1> DEFINE n == Len(x.host)
<1>1. PICK s \in 0..n : \E a \in 0..s : SpelledAt(x, d, a, s)
  BY DEF Spells
<1>2. PICK a \in 0..s : SpelledAt(x, d, a, s)
  BY <1>1
<1>3. PICK t \in 0..n : \E b \in 0..t : SpelledAt(x, e, b, t)
  BY DEF Spells
<1>4. PICK b \in 0..t : SpelledAt(x, e, b, t)
  BY <1>3
<1>5. /\ Len(d) \in Nat /\ Len(d) >= 2 /\ Len(e) \in Nat /\ Len(e) >= 2 /\ n \in Nat
      /\ s \in Nat /\ t \in Nat /\ a \in Nat /\ b \in Nat /\ a <= s /\ b <= t
  BY SpellingShape, DomainLength
<1>6. s + Len(d) <= n /\ t + Len(e) <= n
  BY <1>2, <1>4 DEF SpelledAt
<1>7. \A i \in 1..n : i \in a + 1..s + Len(d) <=> i \in b + 1..t + Len(e)
  BY <1>2, <1>4, <1>5, SpelledRange
<1> HIDE DEF n
<1>8. a = b
  <2>1. a + 1 \in 1..n /\ a + 1 \in a + 1..s + Len(d)
    BY <1>5, <1>6
  <2>2. b + 1 \in 1..n /\ b + 1 \in b + 1..t + Len(e)
    BY <1>5, <1>6
  <2>3. a + 1 \in b + 1..t + Len(e) /\ b + 1 \in a + 1..s + Len(d)
    BY <1>7, <2>1, <2>2
  <2> QED BY <1>5, <2>3
<1>9. s + Len(d) = t + Len(e)
  <2>1. s + Len(d) \in 1..n /\ s + Len(d) \in a + 1..s + Len(d)
    BY <1>5, <1>6
  <2>2. t + Len(e) \in 1..n /\ t + Len(e) \in b + 1..t + Len(e)
    BY <1>5, <1>6
  <2>3. s + Len(d) \in b + 1..t + Len(e) /\ t + Len(e) \in a + 1..s + Len(d)
    BY <1>7, <2>1, <2>2
  <2> QED BY <1>5, <2>3
<1>10. s = t
  <2>1. ~(s < t)
    BY <1>2, <1>4, <1>5, <1>8, <1>9, SpelledLonger
  <2>2. ~(t < s)
    BY <1>2, <1>4, <1>5, <1>8, <1>9, SpelledLonger
  <2> QED BY <1>5, <2>1, <2>2
<1>11. Len(d) = Len(e)
  BY <1>5, <1>9, <1>10
<1>12. ASSUME NEW i \in 1..Len(d) PROVE d[i] = e[i]
  <2> DEFINE j == s + i
  <2>1. j \in 1..n /\ s < j /\ j <= s + Len(d) /\ j - s = i
    BY <1>5, <1>6
  <2> HIDE DEF j
  <2>2. Ascii[x.host[j]] = d[i]
    BY <1>2, <2>1 DEF SpelledAt, n
  <2>3. Ascii[x.host[j]] = e[i]
    BY <1>4, <1>10, <1>11, <2>1 DEF SpelledAt, n
  <2> QED BY <2>2, <2>3
<1>13. d \in Seq(ValidLabels) /\ e \in Seq(ValidLabels)
  BY DomainLength
<1> QED BY <1>11, <1>12, <1>13

LEMMA FreshAreDomains ==
  ASSUME NEW answer \in CandidateLists, NEW known
  PROVE  Fresh(answer, known) \subseteq Domains
<1>1. \A i \in DOMAIN answer : answer[i] \in Spellings
  BY PublishersAssumption
<1>2. \A i \in Usable(answer) : NormalizeDomain(answer[i]) \in Domains
  BY <1>1, NormalizedIsDomain DEF Usable
<1> QED BY <1>2 DEF Fresh

LEMMA PubRouteBegins ==
  ASSUME PubInv, NEW c \in Clients, PubRoute(c)
  PROVE  \E q \in PubRequests : PubBegin(c, q)
<1>0. PublishersTypeOK /\ \A p \in PubRows : LivePub(p) => pubs[p].domain \in Domains
  BY DEF PubInv, RowsSound
<1>1. ASSUME NEW x \in Spellings, NEW e \in Edits, CreatePublisher(c, x, e)
      PROVE  \E q \in PubRequests : PubBegin(c, q)
  <2> DEFINE q == [op |-> "create", domain |-> NormalizeDomain(x), pricing |-> e.pricing,
                   status |-> e.status]
  <2>1. NormalizeDomain(x) \in Domains
    BY <1>1, NormalizedIsDomain DEF CreatePublisher
  <2>2. q \in PubRequests
    BY <2>1, PublishersAssumption DEF PubRequests
  <2>3. PubBegin(c, q)
    BY <1>1 DEF CreatePublisher
  <2> QED BY <2>2, <2>3
<1>2. ASSUME NEW p \in PubRows, NEW e \in Edits, UpdatePublisher(c, p, e)
      PROVE  \E q \in PubRequests : PubBegin(c, q)
  <2> DEFINE q == [op |-> "update", pub |-> p,
                   pricing |-> IF e.pricing = pubs[p].pricing THEN "keep" ELSE e.pricing,
                   status |-> IF e.status = pubs[p].status THEN "keep" ELSE e.status]
  <2>1. q \in PubRequests
    BY PublishersAssumption DEF PubRequests
  <2>2. PubBegin(c, q)
    BY <1>2 DEF UpdatePublisher
  <2> QED BY <2>1, <2>2
<1>3. ASSUME NEW p \in PubRows, DeletePublisher(c, p)
      PROVE  \E q \in PubRequests : PubBegin(c, q)
  <2> DEFINE q == [op |-> "delete", pub |-> p]
  <2>1. q \in PubRequests
    BY DEF PubRequests
  <2>2. PubBegin(c, q)
    BY <1>3 DEF DeletePublisher
  <2> QED BY <2>1, <2>2
<1>4. ASSUME NEW p \in PubRows, NEW brief \in Briefs, QualifyPublisher(c, p, brief)
      PROVE  \E q \in PubRequests : PubBegin(c, q)
  <2> DEFINE q == [op |-> "qualify", pub |-> p, loaded |-> pubs[p], locked |-> FALSE,
                   marked |-> FALSE, brief |-> brief, page |-> NoPage]
  <2>1. pubs[p] \in PublisherRows
    BY <1>0 DEF PublishersTypeOK
  <2>2. q \in PubRequests
    BY <2>1 DEF PubRequests
  <2>3. PubBegin(c, q)
    BY <1>4 DEF QualifyPublisher
  <2> QED BY <2>2, <2>3
<1>5. ASSUME NEW r \in RunRows, NEW answer \in CandidateLists, ExecuteRun(c, r, answer)
      PROVE  \E q \in PubRequests : PubBegin(c, q)
  <2> DEFINE q == [op |-> "discover", run |-> r, answer |-> answer, known |-> Known]
  <2>1. Known \in SUBSET Domains
    BY <1>0 DEF Known
  <2>2. q \in PubRequests
    BY <2>1 DEF PubRequests
  <2>3. PubBegin(c, q)
    BY <1>5 DEF ExecuteRun
  <2> QED BY <2>2, <2>3
<1> QED BY <1>1, <1>2, <1>3, <1>4, <1>5 DEF PubRoute

\* Steps that leave the publishers and the runs alone.
LEMMA PubTablesKept ==
  ASSUME PubInv, PublishersTypeOK', UNCHANGED <<pubs, runs, repriced>>, rerun \subseteq rerun'
  PROVE  PubStepHolds
<1>1. PubInv'
  BY DEF PubInv, RowsSound, LivePub, OneDomain, FreeIsNotPaid, BroughtIn,
         RunCountsItsPublishers
<1> QED BY <1>1 DEF PubStepHolds, RowsStay, LivePub

LEMMA RunStarted ==
  ASSUME PubInv, NEW r \in RunRows, StartRun(r) \/ FailRun(r)
  PROVE  PubStepHolds
<1>1. /\ UNCHANGED <<pubs, pubReq, pubServed>>
      /\ \A s \in RunRows \ {r} : runs'[s] = runs[s]
      /\ rerun \subseteq rerun' /\ rerun' \subseteq RunRows /\ UNCHANGED repriced
      /\ runs' \in [RunRows -> DiscoveryRuns]
      /\ runs'[r].status # "COMPLETED"
      /\ runs'[r].status = "PENDING" => runs[r].state = "unused"
  <2>0. runs \in [RunRows -> DiscoveryRuns] /\ rerun \subseteq RunRows
    BY DEF PubInv, PublishersTypeOK
  <2>1. CASE StartRun(r)
    BY <2>0, <2>1 DEF StartRun, NewRun, DiscoveryRuns, RunStatuses, pubHistory
  <2>2. CASE FailRun(r)
    BY <2>0, <2>2 DEF FailRun, DiscoveryRuns, RunStatuses
  <2> QED BY <2>1, <2>2
<1>2. PublishersTypeOK'
  BY <1>1 DEF PubInv, PublishersTypeOK
<1>3. OneDomain' /\ RowsSound' /\ FreeIsNotPaid'
  BY <1>1 DEF PubInv, OneDomain, RowsSound, FreeIsNotPaid, LivePub
<1>4. \A s \in RunRows : BroughtIn(s)' = BroughtIn(s)
  BY <1>1 DEF BroughtIn
<1>5. \A s \in RunRows :
        runs'[s].state = "unused" \/ runs'[s].status = "PENDING" => BroughtIn(s)' = {}
  <2>1. runs'[r].state # "unused"
    <3>1. CASE StartRun(r)
      BY <3>1 DEF StartRun, NewRun, PubInv, PublishersTypeOK
    <3>2. CASE FailRun(r)
      <4>1. runs[r] \in DiscoveryRuns /\ runs[r].state = "live"
        BY <3>2 DEF PubInv, PublishersTypeOK, FailRun
      <4>2. runs'[r] = [runs[r] EXCEPT !.status = "FAILED"]
        BY <3>2 DEF FailRun, PubInv, PublishersTypeOK
      <4> QED BY <4>1, <4>2 DEF DiscoveryRuns
    <3> QED BY <3>1, <3>2
  <2> HIDE DEF BroughtIn
  <2> QED BY <1>1, <1>4, <2>1 DEF PubInv
<1>6. RunCountsItsPublishers'
  <2> SUFFICES ASSUME NEW s \in RunRows, runs'[s].status = "COMPLETED", s \notin rerun'
               PROVE  runs'[s].created = Cardinality(BroughtIn(s)')
    BY DEF RunCountsItsPublishers, BroughtIn
  <2>1. runs'[s] = runs[s] /\ s \notin rerun
    BY <1>1
  <2>2. runs[s].created = Cardinality(BroughtIn(s))
    BY <2>1 DEF PubInv, RunCountsItsPublishers, BroughtIn
  <2> HIDE DEF BroughtIn
  <2> QED BY <1>4, <2>1, <2>2
<1> QED BY <1>1, <1>2, <1>3, <1>5, <1>6 DEF PubInv, PubStepHolds, RowsStay, LivePub

\* Steps after which every row has the domain and the run it had, or is gone.
LEMMA RowsRewritten ==
  ASSUME PubInv, PublishersTypeOK', FreeIsNotPaid', UNCHANGED <<runs, rerun>>,
         \A p \in PubRows : /\ pubs'[p].domain = pubs[p].domain /\ pubs'[p].run = pubs[p].run
                            /\ pubs'[p].state \in {pubs[p].state, "deleted"}
  PROVE  PubInv' /\ RowsStay
<1>1. \A r : BroughtIn(r)' = BroughtIn(r)
  BY DEF BroughtIn
<1>2. \A p \in PubRows : LivePub(p)' => LivePub(p)
  BY DEF LivePub
<1>3. RunCountsItsPublishers'
  <2> SUFFICES ASSUME NEW s \in RunRows, runs'[s].status = "COMPLETED", s \notin rerun'
               PROVE  runs'[s].created = Cardinality(BroughtIn(s)')
    BY DEF RunCountsItsPublishers, BroughtIn
  <2>1. runs[s].created = Cardinality(BroughtIn(s))
    BY DEF PubInv, RunCountsItsPublishers, BroughtIn
  <2> HIDE DEF BroughtIn
  <2> QED BY <1>1, <2>1
<1>4. \A s \in RunRows :
        runs'[s].state = "unused" \/ runs'[s].status = "PENDING" => BroughtIn(s)' = {}
  <2> HIDE DEF BroughtIn
  <2> QED BY <1>1 DEF PubInv
<1>5. OneDomain' /\ RowsSound'
  BY <1>2 DEF PubInv, OneDomain, RowsSound
<1> QED BY <1>3, <1>4, <1>5 DEF PubInv, RowsStay, LivePub

\* Every request still under way at a step of c keeps its types.
LEMMA PubEnds ==
  ASSUME PublishersTypeOK, NEW c \in Clients, PubEnd(c),
         pubs' \in [PubRows -> PublisherRows], runs' \in [RunRows -> DiscoveryRuns],
         rerun' \subseteq RunRows, repriced' \subseteq PubRows
  PROVE  PublishersTypeOK'
  BY DEF PubEnd, PublishersTypeOK

LEMMA SiteMarked ==
  ASSUME PubInv, NEW c \in Clients, NEW page \in Pages \cup {NoPage}, MarkQualifying(c, page)
  PROVE  PubStepHolds
<1> DEFINE q == pubReq[c]
           new == [q EXCEPT !.marked = TRUE, !.page = page,
                            !.locked = q.loaded.status # "QUALIFYING"]
<1>1. q \in PubRequests /\ q.op = "qualify"
  BY DEF MarkQualifying, PubInv, PublishersTypeOK, idle
<1>2. new \in PubRequests
  <2>1. q \in [op : {"qualify"}, pub : PubRows, loaded : PublisherRows, locked : BOOLEAN,
               marked : BOOLEAN, brief : Briefs, page : Pages \cup {NoPage}]
    BY <1>1 DEF PubRequests
  <2> HIDE DEF q
  <2>2. new \in [op : {"qualify"}, pub : PubRows, loaded : PublisherRows, locked : BOOLEAN,
                 marked : BOOLEAN, brief : Briefs, page : Pages \cup {NoPage}]
    BY <2>1
  <2> QED BY <2>2 DEF PubRequests
<1>3. pubReq' = [pubReq EXCEPT ![c] = new] /\ UNCHANGED <<pubs, runs, pubServed, rerun, repriced>>
  BY DEF MarkQualifying, PubInv, PublishersTypeOK, pubHistory
<1> HIDE DEF new
<1>4. PublishersTypeOK'
  BY <1>2, <1>3 DEF PubInv, PublishersTypeOK
<1> QED BY <1>3, <1>4, PubTablesKept

\* A paid signal makes of the row that was loaded a PAID one.
LEMMA PaidIsPaid ==
  ASSUME NEW loaded \in PublisherRows, NEW s, s.paid
  PROVE  PricingAfter(loaded, s) = IF loaded.pricing = "PAID" THEN "keep" ELSE "PAID"
  BY DEF PricingAfter

LEMMA PricingAfterShape ==
  ASSUME NEW loaded \in PublisherRows, NEW s
  PROVE  PricingAfter(loaded, s) \in PricingTypes \cup {"keep"}
  BY DEF PricingAfter, PublisherRows, PricingTypes

LEMMA SiteJudged ==
  ASSUME PubInv, NEW c \in Clients, CommitQualify(c)
  PROVE  PubStepHolds
<1> DEFINE q == pubReq[c]
           s == SignalsOf(q.loaded, q.page, q.brief)
           price == PricingAfter(q.loaded, s)
<1>0. /\ pubs \in [PubRows -> PublisherRows] /\ runs \in [RunRows -> DiscoveryRuns]
      /\ rerun \subseteq RunRows /\ pubReq \in [Clients -> PubRequests \cup {idle}]
  BY DEF PubInv, PublishersTypeOK
<1>1. /\ q.pub \in PubRows /\ q.loaded \in PublisherRows /\ q.brief \in Briefs
      /\ q.page \in Pages \cup {NoPage} /\ q # idle
  BY <1>0, PubRequestShape DEF CommitQualify, idle
<1>2. s \in Signals /\ price \in PricingTypes \cup {"keep"}
  BY <1>1, SignalsShape, PricingAfterShape
<1>3. Verdict(s) \in PublisherStatuses
  BY DEF Verdict, PublisherStatuses
<1>4. s.paid => price = IF q.loaded.pricing = "PAID" THEN "keep" ELSE "PAID"
  BY <1>1, PaidIsPaid
<1>5. /\ pubs' = [pubs EXCEPT ![q.pub].status = Verdict(s), ![q.pub].signals = s,
                              ![q.pub].pricing = IF price = "keep" THEN @ ELSE price]
      /\ PubEnd(c) /\ UNCHANGED <<runs, rerun>> /\ q.op = "qualify"
      /\ repriced' = IF price = "keep" /\ pubs[q.pub].pricing # q.loaded.pricing
                       THEN repriced \cup {q.pub} ELSE repriced \ {q.pub}
  BY DEF CommitQualify
<1> HIDE DEF price, s
<1>6. pubs[q.pub] \in PublisherRows
  BY <1>0, <1>1
<1>7. /\ \A p \in PubRows \ {q.pub} : pubs'[p] = pubs[p]
      /\ pubs'[q.pub] = [pubs[q.pub] EXCEPT !.status = Verdict(s), !.signals = s,
                           !.pricing = IF price = "keep" THEN @ ELSE price]
      /\ DOMAIN pubs' = PubRows
  <2> HIDE DEF q
  <2> QED BY <1>0, <1>1, <1>5
<1>8. /\ pubs'[q.pub] \in PublisherRows
      /\ pubs'[q.pub].domain = pubs[q.pub].domain /\ pubs'[q.pub].run = pubs[q.pub].run
      /\ pubs'[q.pub].state = pubs[q.pub].state
      /\ pubs'[q.pub].pricing = (IF price = "keep" THEN pubs[q.pub].pricing ELSE price)
      /\ pubs'[q.pub].signals = s
  <2> HIDE DEF q
  <2> QED BY <1>2, <1>3, <1>6, <1>7 DEF PublisherRows
<1>9. pubs' \in [PubRows -> PublisherRows]
  <2> HIDE DEF q
  <2>1. \A p \in PubRows : pubs'[p] \in PublisherRows
    BY <1>0, <1>7, <1>8
  <2>2. pubs' = [p \in PubRows |-> pubs'[p]]
    BY <1>0, <1>5
  <2> QED BY <2>1, <2>2
<1>10. PublishersTypeOK'
  <2>1. repriced' \subseteq PubRows
    BY <1>1, <1>5 DEF PubInv, PublishersTypeOK
  <2> QED BY <1>0, <1>5, <1>9, <2>1, PubEnds DEF PubInv
<1>11. \A p \in PubRows : /\ pubs'[p].domain = pubs[p].domain /\ pubs'[p].run = pubs[p].run
                          /\ pubs'[p].state \in {pubs[p].state, "deleted"}
  BY <1>7, <1>8
<1>12. ASSUME NEW p \in PubRows \ repriced', LivePub(p)', pubs'[p].pricing = "FREE",
              pubs'[p].signals # NoSignals
       PROVE  ~pubs'[p].signals.paid
  <2>1. CASE p = q.pub
    <3>1. ~(price = "keep" /\ pubs[p].pricing # q.loaded.pricing)
      BY <1>5, <2>1
    <3>2. pubs'[p].pricing = (IF price = "keep" THEN q.loaded.pricing ELSE price)
      BY <1>8, <2>1, <3>1
    <3> HIDE DEF q
    <3>3. ~s.paid
      BY <1>4, <1>12, <3>2
    <3> QED BY <1>8, <2>1, <3>3
  <2>2. CASE p # q.pub
    <3>1. pubs'[p] = pubs[p] /\ p \notin repriced
      BY <1>5, <1>7, <2>2
    <3> QED BY <1>12, <3>1 DEF PubInv, FreeIsNotPaid, LivePub
  <2> QED BY <2>1, <2>2
<1>13. FreeIsNotPaid'
  <2> HIDE DEF q
  <2> QED BY <1>12 DEF FreeIsNotPaid
<1>14. PubInv' /\ RowsStay
  BY <1>5, <1>10, <1>11, <1>13, RowsRewritten
<1> QED BY <1>14 DEF PubStepHolds

LEMMA RowUpdated ==
  ASSUME PubInv, NEW c \in Clients, CommitUpdatePublisher(c)
  PROVE  PubStepHolds
<1> DEFINE q == pubReq[c]
<1>0. /\ pubs \in [PubRows -> PublisherRows] /\ runs \in [RunRows -> DiscoveryRuns]
      /\ rerun \subseteq RunRows /\ pubReq \in [Clients -> PubRequests \cup {idle}]
  BY DEF PubInv, PublishersTypeOK
<1>1. /\ q.pub \in PubRows /\ q.pricing \in PricingTypes \cup {"keep"} /\ q # idle
      /\ q.status \in PublisherStatuses \cup {"keep"} /\ q.op = "update"
  BY <1>0, PubRequestShape DEF CommitUpdatePublisher, idle
<1>2. /\ pubs' = [pubs EXCEPT ![q.pub].pricing = IF q.pricing = "keep" THEN @ ELSE q.pricing,
                              ![q.pub].status = IF q.status = "keep" THEN @ ELSE q.status]
      /\ PubEnd(c) /\ UNCHANGED <<runs, rerun>>
      /\ repriced' = IF q.pricing = "keep" THEN repriced ELSE repriced \cup {q.pub}
  BY DEF CommitUpdatePublisher
<1> HIDE DEF q
<1>3. pubs[q.pub] \in PublisherRows
  BY <1>0, <1>1
<1>4. /\ \A p \in PubRows \ {q.pub} : pubs'[p] = pubs[p]
      /\ pubs'[q.pub] = [pubs[q.pub] EXCEPT
                           !.pricing = IF q.pricing = "keep" THEN @ ELSE q.pricing,
                           !.status = IF q.status = "keep" THEN @ ELSE q.status]
      /\ DOMAIN pubs' = PubRows
  BY <1>0, <1>1, <1>2
<1>5. /\ pubs'[q.pub] \in PublisherRows
      /\ pubs'[q.pub].domain = pubs[q.pub].domain /\ pubs'[q.pub].run = pubs[q.pub].run
      /\ pubs'[q.pub].state = pubs[q.pub].state
      /\ pubs'[q.pub].pricing = (IF q.pricing = "keep" THEN pubs[q.pub].pricing ELSE q.pricing)
      /\ pubs'[q.pub].signals = pubs[q.pub].signals
  BY <1>1, <1>3, <1>4 DEF PublisherRows
<1>6. pubs' \in [PubRows -> PublisherRows]
  <2>1. \A p \in PubRows : pubs'[p] \in PublisherRows
    BY <1>0, <1>4, <1>5
  <2>2. pubs' = [p \in PubRows |-> pubs'[p]]
    BY <1>0, <1>2
  <2> QED BY <2>1, <2>2
<1>7. PublishersTypeOK'
  <2>1. repriced' \subseteq PubRows
    BY <1>1, <1>2 DEF PubInv, PublishersTypeOK
  <2> QED BY <1>0, <1>2, <1>6, <2>1, PubEnds DEF PubInv
<1>8. \A p \in PubRows : /\ pubs'[p].domain = pubs[p].domain /\ pubs'[p].run = pubs[p].run
                         /\ pubs'[p].state \in {pubs[p].state, "deleted"}
  BY <1>4, <1>5
<1>9. FreeIsNotPaid'
  <2> SUFFICES ASSUME NEW p \in PubRows \ repriced', LivePub(p)', pubs'[p].pricing = "FREE",
                      pubs'[p].signals # NoSignals
               PROVE  ~pubs'[p].signals.paid
    BY DEF FreeIsNotPaid
  <2>1. /\ p \notin repriced /\ pubs'[p].pricing = pubs[p].pricing
        /\ pubs'[p].signals = pubs[p].signals /\ pubs'[p].state = pubs[p].state
    BY <1>2, <1>4, <1>5
  <2> QED BY <2>1 DEF PubInv, FreeIsNotPaid, LivePub
<1>10. PubInv' /\ RowsStay
  BY <1>2, <1>7, <1>8, <1>9, RowsRewritten
<1> QED BY <1>10 DEF PubStepHolds

LEMMA RowDeleted ==
  ASSUME PubInv, NEW c \in Clients, CommitDelete(c)
  PROVE  PubStepHolds
<1> DEFINE q == pubReq[c]
<1>0. /\ pubs \in [PubRows -> PublisherRows] /\ runs \in [RunRows -> DiscoveryRuns]
      /\ rerun \subseteq RunRows /\ pubReq \in [Clients -> PubRequests \cup {idle}]
  BY DEF PubInv, PublishersTypeOK
<1>1. q.pub \in PubRows
  BY <1>0, PubRequestShape DEF CommitDelete, idle
<1>2. /\ pubs' = [pubs EXCEPT ![q.pub].state = "deleted"]
      /\ PubEnd(c) /\ UNCHANGED <<runs, rerun, repriced>>
  BY DEF CommitDelete, pubHistory
<1> HIDE DEF q
<1>3. pubs[q.pub] \in PublisherRows
  BY <1>0, <1>1
<1>4. \A p \in PubRows : /\ pubs'[p] \in PublisherRows
                         /\ pubs'[p].domain = pubs[p].domain /\ pubs'[p].run = pubs[p].run
                         /\ pubs'[p].pricing = pubs[p].pricing /\ pubs'[p].signals = pubs[p].signals
                         /\ pubs'[p].state \in {pubs[p].state, "deleted"}
  <2> SUFFICES ASSUME NEW p \in PubRows
               PROVE  /\ pubs'[p] \in PublisherRows
                      /\ pubs'[p].domain = pubs[p].domain /\ pubs'[p].run = pubs[p].run
                      /\ pubs'[p].pricing = pubs[p].pricing /\ pubs'[p].signals = pubs[p].signals
                      /\ pubs'[p].state \in {pubs[p].state, "deleted"}
    OBVIOUS
  <2>1. CASE p = q.pub
    <3>1. pubs'[p] = [pubs[p] EXCEPT !.state = "deleted"]
      BY <1>0, <1>2, <2>1
    <3> QED BY <1>3, <2>1, <3>1 DEF PublisherRows
  <2>2. CASE p # q.pub
    BY <1>0, <1>2, <2>2
  <2> QED BY <2>1, <2>2
<1>5. pubs' \in [PubRows -> PublisherRows]
  <2>1. pubs' = [p \in PubRows |-> pubs'[p]]
    BY <1>0, <1>2
  <2> QED BY <1>4, <2>1
<1>6. PublishersTypeOK'
  BY <1>0, <1>2, <1>5, PubEnds DEF PubInv, PublishersTypeOK
<1>7. FreeIsNotPaid'
  BY <1>2, <1>4 DEF PubInv, FreeIsNotPaid, LivePub
<1>8. PubInv' /\ RowsStay
  BY <1>2, <1>4, <1>6, <1>7, RowsRewritten
<1> QED BY <1>8 DEF PubStepHolds

\* Steps that insert a row for each domain in ds, all of them for run r.
LEMMA RowsInserted ==
  ASSUME PubInv, NEW ds \in SUBSET Domains, UniqueDomain(ds), NEW f \in NextRows(ds),
         NEW r \in RunRows \cup {NoRun},
         \A d \in ds : /\ pubs'[f[d]].state = "live" /\ pubs'[f[d]].domain = d
                       /\ pubs'[f[d]].run = r /\ pubs'[f[d]].signals = NoSignals,
         \A p \in PubRows : (\A d \in ds : f[d] # p) => pubs'[p] = pubs[p],
         UNCHANGED repriced
  PROVE  /\ RowsSound' /\ OneDomain' /\ FreeIsNotPaid' /\ RowsStay
         /\ \A s \in RunRows : BroughtIn(s)' = IF s = r THEN BroughtIn(s) \cup {f[d] : d \in ds}
                                               ELSE BroughtIn(s)
<1>0. \A d \in ds : f[d] \in PubRows /\ pubs[f[d]].state = "unused" /\ ~LivePub(f[d])
  BY DEF NextRows, LivePub
<1>1. \A p \in PubRows : LivePub(p) => pubs'[p] = pubs[p] /\ LivePub(p)'
  BY <1>0 DEF LivePub
<1>2. \A p \in PubRows : LivePub(p)' =>
        \/ LivePub(p) /\ pubs'[p] = pubs[p]
        \/ \E d \in ds : f[d] = p /\ pubs'[p].domain = d /\ pubs'[p].signals = NoSignals
  BY DEF LivePub
<1>3. RowsSound'
  <2>1. \A p \in PubRows : LivePub(p)' => pubs'[p].domain \in Domains
    BY <1>2 DEF PubInv, RowsSound
  <2>2. \A p \in PubRows : pubs'[p].state = "unused" => pubs'[p].run = NoRun
    BY DEF PubInv, RowsSound
  <2> QED BY <2>1, <2>2 DEF RowsSound
<1>4. OneDomain'
  <2> SUFFICES ASSUME NEW p \in PubRows, NEW q \in PubRows, LivePub(p)', LivePub(q)', p # q
               PROVE  pubs'[p].domain # pubs'[q].domain
    BY DEF OneDomain
  <2>1. \A x \in PubRows : LivePub(x) => pubs[x].domain \notin ds
    BY DEF UniqueDomain, Known
  <2>2. CASE LivePub(p) /\ LivePub(q)
    BY <1>1, <2>2 DEF PubInv, OneDomain
  <2>3. CASE LivePub(p) /\ ~LivePub(q)
    BY <1>1, <1>2, <2>1, <2>3
  <2>4. CASE ~LivePub(p) /\ LivePub(q)
    BY <1>1, <1>2, <2>1, <2>4
  <2>5. CASE ~LivePub(p) /\ ~LivePub(q)
    BY <1>2, <2>5
  <2> QED BY <2>2, <2>3, <2>4, <2>5
<1>5. RowsStay /\ FreeIsNotPaid'
  <2>1. RowsStay
    BY <1>1 DEF RowsStay, LivePub
  <2>2. FreeIsNotPaid'
    BY <1>2 DEF PubInv, FreeIsNotPaid
  <2> QED BY <2>1, <2>2
<1>6. ASSUME NEW s \in RunRows
      PROVE  BroughtIn(s)' = IF s = r THEN BroughtIn(s) \cup {f[d] : d \in ds} ELSE BroughtIn(s)
  <2>1. \A d \in ds : pubs[f[d]].run # s
    BY <1>0 DEF PubInv, RowsSound, RunRows, NoRun
  <2>2. CASE s = r
    BY <1>0, <2>2 DEF BroughtIn
  <2>3. CASE s # r
    BY <1>0, <2>1, <2>3 DEF BroughtIn
  <2> QED BY <2>2, <2>3
<1> QED BY <1>3, <1>4, <1>5, <1>6

LEMMA RowCreated ==
  ASSUME PubInv, NEW c \in Clients, CommitCreate(c)
  PROVE  PubStepHolds
<1> DEFINE q == pubReq[c]
<1>0. /\ pubs \in [PubRows -> PublisherRows] /\ runs \in [RunRows -> DiscoveryRuns]
      /\ rerun \subseteq RunRows /\ pubReq \in [Clients -> PubRequests \cup {idle}]
  BY DEF PubInv, PublishersTypeOK
<1>1. /\ q.domain \in Domains /\ q.pricing \in PricingTypes /\ q.status \in PublisherStatuses
      /\ UniqueDomain({q.domain}) /\ PubEnd(c)
      /\ UNCHANGED <<runs, rerun, repriced>>
  BY <1>0, PubRequestShape DEF CommitCreate, idle, pubHistory
<1>2. PICK f \in NextRows({q.domain}) :
        pubs' = [pubs EXCEPT ![f[q.domain]] = NewPublisher(q.domain, q.pricing, q.status, NoRun)]
  BY DEF CommitCreate
<1> HIDE DEF q
<1> DEFINE new == NewPublisher(q.domain, q.pricing, q.status, NoRun)
<1>3. /\ new \in PublisherRows /\ new.state = "live" /\ new.domain = q.domain
      /\ new.run = NoRun /\ new.signals = NoSignals
  BY <1>1 DEF NewPublisher, PublisherRows
<1>4. f[q.domain] \in PubRows
  BY DEF NextRows
<1> HIDE DEF new
<1>5. pubs' \in [PubRows -> PublisherRows]
  BY <1>0, <1>2, <1>3, <1>4 DEF new
<1>6. pubs'[f[q.domain]] = new /\ \A p \in PubRows : p # f[q.domain] => pubs'[p] = pubs[p]
  BY <1>0, <1>2, <1>4 DEF new
<1>7. PublishersTypeOK'
  BY <1>0, <1>1, <1>5, PubEnds DEF PubInv, PublishersTypeOK
<1>8. /\ RowsSound' /\ OneDomain' /\ FreeIsNotPaid' /\ RowsStay
      /\ \A s \in RunRows : BroughtIn(s)' = BroughtIn(s)
  <2>1. NoRun \in RunRows \cup {NoRun} /\ \A s \in RunRows : s # NoRun
    BY DEF RunRows, NoRun
  <2>2. \A d \in {q.domain} : /\ pubs'[f[d]].state = "live" /\ pubs'[f[d]].domain = d
                              /\ pubs'[f[d]].run = NoRun /\ pubs'[f[d]].signals = NoSignals
    BY <1>3, <1>6
  <2>3. \A p \in PubRows : (\A d \in {q.domain} : f[d] # p) => pubs'[p] = pubs[p]
    BY <1>6
  <2>4. {q.domain} \in SUBSET Domains
    BY <1>1
  <2> QED BY <1>1, <2>1, <2>2, <2>3, <2>4, RowsInserted
<1>9. RunCountsItsPublishers'
  <2> SUFFICES ASSUME NEW s \in RunRows, runs'[s].status = "COMPLETED", s \notin rerun'
               PROVE  runs'[s].created = Cardinality(BroughtIn(s)')
    BY DEF RunCountsItsPublishers, BroughtIn
  <2>1. runs[s].created = Cardinality(BroughtIn(s))
    BY <1>1 DEF PubInv, RunCountsItsPublishers, BroughtIn
  <2> HIDE DEF BroughtIn
  <2> QED BY <1>1, <1>8, <2>1
<1>10. \A s \in RunRows :
         runs'[s].state = "unused" \/ runs'[s].status = "PENDING" => BroughtIn(s)' = {}
  <2> HIDE DEF BroughtIn
  <2> QED BY <1>1, <1>8 DEF PubInv
<1> QED BY <1>7, <1>8, <1>9, <1>10 DEF PubInv, PubStepHolds

LEMMA CandidatesFinite ==
  ASSUME NEW answer \in CandidateLists, NEW known
  PROVE  /\ IsFiniteSet(Usable(answer)) /\ IsFiniteSet(Fresh(answer, known))
         /\ Created(answer, known) \in Nat
         /\ Cardinality(Usable(answer)) - Created(answer, known) \in Nat
<1>1. answer \in Seq(Spellings)
  BY PublishersAssumption
<1>2. IsFiniteSet(Usable(answer))
  <2>1. IsFiniteSet(1..Len(answer))
    BY <1>1, FS_Interval
  <2> QED BY <1>1, <2>1, FS_Subset DEF Usable
<1> DEFINE images == {NormalizeDomain(answer[i]) : i \in Usable(answer)}
<1>3. IsFiniteSet(images) /\ Cardinality(images) <= Cardinality(Usable(answer))
  <2> DEFINE g == [i \in Usable(answer) |-> NormalizeDomain(answer[i])]
  <2>1. g \in Surjection(Usable(answer), images)
    BY DEF Surjection
  <2> HIDE DEF g, images
  <2> QED BY <1>2, <2>1, FS_Surjection
<1>4. Fresh(answer, known) \subseteq images
  BY DEF Fresh
<1>5. IsFiniteSet(Fresh(answer, known)) /\ Cardinality(Fresh(answer, known)) <= Cardinality(images)
  <2> HIDE DEF images
  <2> QED BY <1>3, <1>4, FS_Subset
<1> HIDE DEF images
<1>6. /\ Cardinality(Fresh(answer, known)) \in Nat /\ Cardinality(Usable(answer)) \in Nat
      /\ Cardinality(images) \in Nat
  BY <1>2, <1>3, <1>5, FS_CardinalityType
<1> QED BY <1>2, <1>3, <1>5, <1>6 DEF Created

LEMMA RunCompleted ==
  ASSUME PubInv, NEW c \in Clients, CommitDiscover(c)
  PROVE  PubStepHolds
<1> DEFINE q == pubReq[c]
           new == Fresh(q.answer, q.known)
           done == [state |-> "live", status |-> "COMPLETED",
                    created |-> Created(q.answer, q.known),
                    duplicates |-> Cardinality(Usable(q.answer)) - Created(q.answer, q.known)]
<1>0. /\ pubs \in [PubRows -> PublisherRows] /\ runs \in [RunRows -> DiscoveryRuns]
      /\ rerun \subseteq RunRows /\ pubReq \in [Clients -> PubRequests \cup {idle}]
  BY DEF PubInv, PublishersTypeOK
<1>1. q.run \in RunRows /\ q.answer \in CandidateLists
  BY <1>0, PubRequestShape DEF CommitDiscover, idle
<1>2. /\ UniqueDomain(new) /\ PubEnd(c) /\ runs' = [runs EXCEPT ![q.run] = done]
      /\ rerun' = IF runs[q.run].status = "PENDING" THEN rerun ELSE rerun \cup {q.run}
      /\ UNCHANGED repriced
  BY DEF CommitDiscover
<1>3. PICK f \in NextRows(new) :
        pubs' = [p \in PubRows |->
                   IF \E d \in new : f[d] = p
                     THEN NewPublisher(CHOOSE d \in new : f[d] = p, "UNKNOWN", "DISCOVERED", q.run)
                     ELSE pubs[p]]
  BY DEF CommitDiscover
<1>4. /\ new \in SUBSET Domains /\ IsFiniteSet(new) /\ Cardinality(new) = done.created
  BY <1>1, FreshAreDomains, CandidatesFinite DEF Created
<1>5. done \in DiscoveryRuns
  BY <1>1, CandidatesFinite DEF DiscoveryRuns, RunStatuses
<1>6. done.status = "COMPLETED" /\ done.state = "live"
  OBVIOUS
<1> HIDE DEF q, new, done
<1>7. /\ f \in [new -> PubRows] /\ \A d, e \in new : d # e => f[d] # f[e]
  BY DEF NextRows
<1>8. ASSUME NEW d \in Domains
      PROVE  /\ NewPublisher(d, "UNKNOWN", "DISCOVERED", q.run) \in PublisherRows
             /\ NewPublisher(d, "UNKNOWN", "DISCOVERED", q.run).state = "live"
             /\ NewPublisher(d, "UNKNOWN", "DISCOVERED", q.run).domain = d
             /\ NewPublisher(d, "UNKNOWN", "DISCOVERED", q.run).run = q.run
             /\ NewPublisher(d, "UNKNOWN", "DISCOVERED", q.run).signals = NoSignals
  BY <1>1 DEF NewPublisher, PublisherRows, PricingTypes, PublisherStatuses
<1>9. \A d \in new : pubs'[f[d]] = NewPublisher(d, "UNKNOWN", "DISCOVERED", q.run)
  <2> SUFFICES ASSUME NEW d \in new
               PROVE  pubs'[f[d]] = NewPublisher(d, "UNKNOWN", "DISCOVERED", q.run)
    OBVIOUS
  <2>1. (CHOOSE e \in new : f[e] = f[d]) = d
    BY <1>7
  <2> QED BY <1>3, <1>7, <2>1
<1>10. \A p \in PubRows : (\A d \in new : f[d] # p) => pubs'[p] = pubs[p]
  BY <1>3
<1>11. pubs' \in [PubRows -> PublisherRows]
  <2>1. \A p \in PubRows : pubs'[p] \in PublisherRows
    BY <1>0, <1>4, <1>8, <1>9, <1>10
  <2>2. pubs' = [p \in PubRows |-> pubs'[p]]
    BY <1>3
  <2> QED BY <2>1, <2>2
<1>12. /\ runs' \in [RunRows -> DiscoveryRuns] /\ rerun' \subseteq RunRows
       /\ runs'[q.run] = done /\ \A s \in RunRows \ {q.run} : runs'[s] = runs[s]
  BY <1>0, <1>1, <1>2, <1>5
<1>13. PublishersTypeOK'
  BY <1>2, <1>11, <1>12, PubEnds DEF PubInv, PublishersTypeOK
<1>14. /\ RowsSound' /\ OneDomain' /\ FreeIsNotPaid' /\ RowsStay
       /\ \A s \in RunRows : BroughtIn(s)' = IF s = q.run THEN BroughtIn(s) \cup {f[d] : d \in new}
                                             ELSE BroughtIn(s)
  <2>1. \A d \in new : /\ pubs'[f[d]].state = "live" /\ pubs'[f[d]].domain = d
                       /\ pubs'[f[d]].run = q.run /\ pubs'[f[d]].signals = NoSignals
    BY <1>4, <1>8, <1>9
  <2>2. q.run \in RunRows \cup {NoRun}
    BY <1>1
  <2> QED BY <1>2, <1>3, <1>4, <1>10, <2>1, <2>2, RowsInserted
<1>15. Cardinality({f[d] : d \in new}) = Cardinality(new)
  <2> DEFINE images == {f[d] : d \in new}
  <2>1. f \in Surjection(new, images)
    BY <1>7 DEF Surjection
  <2>2. f \in Injection(new, images)
    BY <1>7 DEF Injection, IsInjective
  <2> HIDE DEF images
  <2>3. Cardinality(images) = Cardinality(new)
    BY <1>4, <2>1, <2>2, FS_Surjection
  <2> QED BY <2>3 DEF images
<1>16. RunCountsItsPublishers'
  <2> SUFFICES ASSUME NEW s \in RunRows, runs'[s].status = "COMPLETED", s \notin rerun'
               PROVE  runs'[s].created = Cardinality(BroughtIn(s)')
    BY DEF RunCountsItsPublishers, BroughtIn
  <2>1. CASE s = q.run
    <3>1. runs[s].status = "PENDING"
      BY <1>2, <2>1
    <3>2. BroughtIn(s) = {}
      BY <3>1 DEF PubInv
    <3>3. BroughtIn(s)' = {f[d] : d \in new}
      <4> HIDE DEF BroughtIn
      <4> QED BY <1>14, <2>1, <3>2
    <3> HIDE DEF BroughtIn
    <3> QED BY <1>4, <1>12, <1>15, <2>1, <3>3
  <2>2. CASE s # q.run
    <3>1. runs'[s] = runs[s] /\ s \notin rerun
      BY <1>2, <1>12, <2>2
    <3>2. runs[s].created = Cardinality(BroughtIn(s))
      BY <3>1 DEF PubInv, RunCountsItsPublishers, BroughtIn
    <3> HIDE DEF BroughtIn
    <3> QED BY <1>14, <2>2, <3>1, <3>2
  <2> QED BY <2>1, <2>2
<1>17. \A s \in RunRows :
         runs'[s].state = "unused" \/ runs'[s].status = "PENDING" => BroughtIn(s)' = {}
  <2> SUFFICES ASSUME NEW s \in RunRows, runs'[s].state = "unused" \/ runs'[s].status = "PENDING"
               PROVE  BroughtIn(s)' = {}
    OBVIOUS
  <2>1. s # q.run /\ runs'[s] = runs[s]
    BY <1>6, <1>12
  <2> HIDE DEF BroughtIn
  <2> QED BY <1>14, <2>1 DEF PubInv
<1> QED BY <1>13, <1>14, <1>16, <1>17 DEF PubInv, PubStepHolds

LEMMA PubInvStep == PubInv /\ PublishersNext => PubStepHolds
<1> SUFFICES ASSUME PubInv, PublishersNext PROVE PubStepHolds
  OBVIOUS
<1>1. ASSUME NEW c \in Clients, PubRoute(c) PROVE PubStepHolds
  <2>1. PICK q \in PubRequests : PubBegin(c, q)
    BY <1>1, PubRouteBegins
  <2>2. PublishersTypeOK'
    BY <2>1, PubBeginType DEF PubInv
  <2> QED BY <2>1, <2>2, PubTablesKept DEF PubBegin, pubHistory
<1>2. ASSUME NEW c \in Clients, PubStep(c) PROVE PubStepHolds
  <2>1. ASSUME NEW page \in Pages \cup {NoPage}, MarkQualifying(c, page) PROVE PubStepHolds
    BY <2>1, SiteMarked
  <2>2. ASSUME PubRollback(c) PROVE PubStepHolds
    <3>1. PublishersTypeOK'
      BY <2>2, PubEnds DEF PubRollback, PubInv, PublishersTypeOK, pubHistory
    <3> QED BY <2>2, <3>1, PubTablesKept DEF PubRollback, pubHistory
  <2> QED BY <1>2, <2>1, <2>2, RowCreated, RowUpdated, RowDeleted, SiteJudged, RunCompleted
          DEF PubStep
<1>3. ASSUME NEW r \in RunRows, StartRun(r) \/ FailRun(r) PROVE PubStepHolds
  BY <1>3, RunStarted
<1> QED BY <1>1, <1>2, <1>3 DEF PublishersNext

LEMMA PubInvStutters == PubInv /\ UNCHANGED pubVars => PubInv' /\ RowsStay
<1> SUFFICES ASSUME PubInv, UNCHANGED pubVars PROVE PubStepHolds
  BY DEF PubStepHolds
<1>1. PublishersTypeOK'
  BY DEF PubInv, PublishersTypeOK, pubVars, pubHistory
<1> QED BY <1>1, PubTablesKept DEF pubVars, pubHistory

LEMMA PubInvInit == PublishersInit => PubInv
<1> SUFFICES ASSUME PublishersInit PROVE PubInv
  OBVIOUS
<1>1. UnusedPublisher \in PublisherRows
  BY DEF UnusedPublisher, PublisherRows, PricingTypes, PublisherStatuses
<1>2. /\ [NewRun EXCEPT !.state = "unused"] \in DiscoveryRuns
      /\ [NewRun EXCEPT !.state = "unused"].state = "unused"
      /\ [NewRun EXCEPT !.state = "unused"].status = "PENDING"
  BY DEF NewRun, DiscoveryRuns, RunStatuses
<1>3. PublishersTypeOK
  BY <1>1, <1>2, PublishersAssumption DEF PublishersInit, PublishersTypeOK
<1>4. \A p \in PubRows : pubs[p] = UnusedPublisher
  BY DEF PublishersInit
<1>5. RowsSound /\ OneDomain /\ FreeIsNotPaid
  BY <1>4 DEF RowsSound, OneDomain, FreeIsNotPaid, LivePub, UnusedPublisher
<1>6. \A r \in RunRows : BroughtIn(r) = {}
  BY <1>4 DEF BroughtIn, UnusedPublisher, RunRows, NoRun
<1>7. RunCountsItsPublishers
  BY <1>2 DEF RunCountsItsPublishers, PublishersInit
<1> QED BY <1>3, <1>5, <1>6, <1>7 DEF PubInv

-----------------------------------------------------------------------------
(***************************************************************************)
(* The theorems about publishers, for the publishers alone.                *)
(***************************************************************************)

\* "the same site cannot be added twice": OneSite, for every set of labels and
\* of spellings, whatever create requests and discoveries overlap.  The unique
\* constraint keeps canonical forms apart, and no host name is written for two
\* of them (core/domains.py, publishers/service.py, publishers/discovery.py).
THEOREM SitesAreListedOnce == PublishersSpec => []OneSite
<1>1. PubInv => OneSite
  BY SpelledOnce DEF PubInv, RowsSound, OneDomain, OneSite
<1>2. PubInv /\ [PublishersNext]_pubVars => PubInv'
  BY PubInvStep, PubInvStutters DEF PubStepHolds
<1> QED BY <1>1, <1>2, PubInvInit, PTL DEF PublishersSpec

\* A completed run counts the publishers it has brought in:
\* RunCountsItsPublishers, for every answer of the provider
\* (publishers/discovery.py).
THEOREM RunsCountTheirPublishers == PublishersSpec => []RunCountsItsPublishers
<1>1. PubInv => RunCountsItsPublishers
  BY DEF PubInv
<1>2. PubInv /\ [PublishersNext]_pubVars => PubInv'
  BY PubInvStep, PubInvStutters DEF PubStepHolds
<1> QED BY <1>1, <1>2, PubInvInit, PTL DEF PublishersSpec

\* A publisher whose latest evidence is that listings are paid for is not FREE,
\* unless it was repriced behind the qualification: FreeIsNotPaid, for every
\* page that a crawl may meet (publishers/qualification.py).
THEOREM PaidSitesAreNotFree == PublishersSpec => []FreeIsNotPaid
<1>1. PubInv => FreeIsNotPaid
  BY DEF PubInv
<1>2. PubInv /\ [PublishersNext]_pubVars => PubInv'
  BY PubInvStep, PubInvStutters DEF PubStepHolds
<1> QED BY <1>1, <1>2, PubInvInit, PTL DEF PublishersSpec

\* What refers to the publishers leaves them alone: a workspace with campaigns
\* and opportunities runs its publishers as Publishers says, so the three
\* theorems above hold of it.
THEOREM PublishersUndisturbed == OpportunitiesSpec => PublishersSpec
<1>1. OpportunitiesInit => PublishersInit
  BY DEF OpportunitiesInit
<1>2. [OpportunitiesNext]_oppVars => [PublishersNext]_pubVars
  BY DEF OpportunitiesNext, PublisherStep, ListingStep, oppVars
<1> QED BY <1>1, <1>2, PTL DEF OpportunitiesSpec, PublishersSpec

-----------------------------------------------------------------------------
(***************************************************************************)
(* What refers to publishers.  References stay in range and alive; while a *)
(* draft is decided nobody is about to write it; and a generation that has *)
(* its answer has listed every draft still to be reviewed, each time up to *)
(* the overlaps that the history remembers.                                *)
(***************************************************************************)
AllRequests == WebsiteRequests \cup CampaignRequests \cup OppRequests

TablesOK ==
  /\ webs \in [WebRows -> Websites]
  /\ camps \in [CampRows -> Campaigns]
  /\ opps \in [OppRows -> OpportunityRows]
  /\ drafts \in [DraftRows -> Drafts]

RequestsOK ==
  /\ oppReq \in [Clients -> AllRequests \cup {idle}]
  /\ oppServed \in 0..MaxOppRequests
  /\ overlapped \subseteq ({"draft"} \X DraftRows) \cup ({"opportunity"} \X OppRows)

RefsInv ==
  /\ \A k \in CampRows : LiveCamp(k) => camps[k].web \in WebRows /\ LiveWeb(camps[k].web)
  /\ \A o \in OppRows : LiveOpp(o) => /\ opps[o].camp \in CampRows /\ LiveCamp(opps[o].camp)
                                      /\ opps[o].pub \in PubRows /\ LivePub(opps[o].pub)
  /\ \A d \in DraftRows : LiveDraft(d) => drafts[d].opp \in OppRows /\ LiveOpp(drafts[d].opp)

WritesDraft(r, d) ==
  \/ r.op = "review" /\ r.draft = d
  \/ r.op = "generate" /\ d \in r.old

WritersInv ==
  \A d \in DraftRows :
    LiveDraft(d) /\ drafts[d].status \in Decided /\ <<"draft", d>> \notin overlapped =>
      \A c \in Clients : ~WritesDraft(oppReq[c], d)

Pending(o) == {d \in DraftRows : /\ LiveDraft(d) /\ drafts[d].opp = o
                                 /\ drafts[d].status = "PENDING_REVIEW"}

Answered(r, o) == r.op = "generate" /\ r.opp = o /\ r.answered

PendingInv ==
  \A o \in OppRows : <<"opportunity", o>> \notin overlapped =>
    /\ \A d, e \in Pending(o) : d = e
    /\ \A c \in Clients : Answered(oppReq[c], o) => Pending(o) \subseteq oppReq[c].old

\* DecisionStands, as one step must satisfy it.
DecisionStep ==
  \A d \in DraftRows :
    /\ LiveDraft(d) /\ drafts[d].status \in Decided
    /\ <<"draft", d>> \notin overlapped
    => drafts'[d].status = drafts[d].status

ListingInv == TablesOK /\ RequestsOK /\ RefsInv /\ WritersInv /\ PendingInv

ListingHolds == ListingInv' /\ DecisionStep

LEMMA OppRequestShape ==
  ASSUME NEW q \in AllRequests
  PROVE  /\ q # idle /\ q.op # "idle"
         /\ q.op = "createWebsite" => q.site \in Domains
         /\ q.op = "createCampaign" => q.web \in WebRows /\ q.name \in Names
         /\ q.op = "renameCampaign" => q.camp \in CampRows /\ q.name \in Names
         /\ q.op = "create" => q.camp \in CampRows /\ q.pub \in PubRows /\ q.url \in TargetUrls
         /\ q.op = "move" => q.opp \in OppRows /\ q.status \in OpportunityStatuses \cup {"keep"}
         /\ q.op = "generate" => /\ q.opp \in OppRows /\ q.answered \in BOOLEAN
                                 /\ q.old \in SUBSET DraftRows
         /\ q.op = "review" => q.draft \in DraftRows /\ q.decision \in Decided
  BY DEF AllRequests, WebsiteRequests, CampaignRequests, OppRequests, idle

\* A request that is not about to write any draft that is there.
Harmless(r) == r.op # "review" /\ (r.op = "generate" => ~r.answered /\ r.old = {})

\* Steps that add no draft, change none but by deleting it, and put no draft in
\* danger keep what is known of the drafts.
LEMMA DraftsKept ==
  ASSUME ListingInv, UNCHANGED overlapped,
         \A d \in DraftRows : /\ LiveDraft(d)' => LiveDraft(d)
                              /\ drafts'[d].opp = drafts[d].opp
                              /\ drafts'[d].status = drafts[d].status,
         \A c \in Clients : oppReq'[c] = oppReq[c] \/ Harmless(oppReq'[c])
  PROVE  WritersInv' /\ PendingInv' /\ DecisionStep
<1>1. WritersInv'
  BY DEF ListingInv, WritersInv, WritesDraft, Harmless
<1>2. \A o : Pending(o)' \subseteq Pending(o)
  BY DEF Pending
<1>3. PendingInv'
  <2> HIDE DEF Pending
  <2> QED BY <1>2 DEF ListingInv, PendingInv, Answered, Harmless
<1>4. DecisionStep
  BY DEF DecisionStep
<1> QED BY <1>1, <1>3, <1>4

LEMMA OppBegins ==
  ASSUME RequestsOK, NEW c \in Clients, NEW q \in AllRequests, OppBegin(c, q)
  PROVE  /\ RequestsOK' /\ UNCHANGED <<webs, camps, opps, drafts, overlapped>>
         /\ \A e \in Clients : oppReq'[e] = IF e = c THEN q ELSE oppReq[e]
<1>1. oppServed' \in 0..MaxOppRequests
  BY OpportunitiesAssumption DEF RequestsOK, OppBegin
<1> QED BY <1>1 DEF RequestsOK, OppBegin

LEMMA OppEnds ==
  ASSUME RequestsOK, NEW c \in Clients, OppEnd(c)
  PROVE  /\ oppReq' \in [Clients -> AllRequests \cup {idle}] /\ UNCHANGED oppServed
         /\ \A e \in Clients : oppReq'[e] = IF e = c THEN idle ELSE oppReq[e]
         /\ \A e \in Clients : oppReq'[e] = oppReq[e] \/ Harmless(oppReq'[e])
  BY DEF RequestsOK, OppEnd, Harmless, idle

\* Steps that leave the tables alone, except for the publishers that stay.
LEMMA TablesKept ==
  ASSUME ListingInv, UNCHANGED <<webs, camps, opps, drafts, pubs, overlapped>>, RequestsOK',
         WritersInv', PendingInv'
  PROVE  ListingHolds
<1>1. TablesOK'
  BY DEF ListingInv, TablesOK
<1>2. RefsInv'
  BY DEF ListingInv, RefsInv, LiveCamp, LiveWeb, LiveOpp, LivePub, LiveDraft
<1>3. DecisionStep
  BY DEF DecisionStep
<1> QED BY <1>1, <1>2, <1>3 DEF ListingInv, ListingHolds

LEMMA HarmlessBegins ==
  ASSUME ListingInv, UNCHANGED pubs, NEW c \in Clients, NEW q \in AllRequests, Harmless(q),
         OppBegin(c, q)
  PROVE  ListingHolds
<1>1. /\ RequestsOK' /\ UNCHANGED <<webs, camps, opps, drafts, overlapped>>
      /\ \A e \in Clients : oppReq'[e] = IF e = c THEN q ELSE oppReq[e]
  BY OppBegins DEF ListingInv
<1>2. WritersInv' /\ PendingInv'
  BY <1>1, DraftsKept DEF LiveDraft
<1> QED BY <1>1, <1>2, TablesKept

LEMMA RoutesBegin ==
  ASSUME PubInv, ListingInv, UNCHANGED pubs, NEW c \in Clients,
         WebsiteRoute(c) \/ CampaignRoute(c) \/ OpportunityRoute(c)
  PROVE  ListingHolds
<1>1. ASSUME NEW x \in SiteSpellings, CreateWebsite(c, x) PROVE ListingHolds
  <2> DEFINE q == [op |-> "createWebsite", site |-> NormalizeDomain(x)]
  <2>1. NormalizeDomain(x) \in Domains
    BY <1>1, OpportunitiesAssumption, NormalizedIsDomain DEF CreateWebsite
  <2>2. q \in AllRequests /\ Harmless(q)
    BY <2>1 DEF AllRequests, WebsiteRequests, Harmless
  <2>3. OppBegin(c, q)
    BY <1>1 DEF CreateWebsite
  <2> QED BY <2>2, <2>3, HarmlessBegins
<1>2. ASSUME NEW w \in WebRows, DeleteWebsite(c, w) PROVE ListingHolds
  <2> DEFINE q == [op |-> "deleteWebsite", web |-> w]
  <2>1. q \in AllRequests /\ Harmless(q)
    BY DEF AllRequests, WebsiteRequests, Harmless
  <2>2. OppBegin(c, q)
    BY <1>2 DEF DeleteWebsite
  <2> QED BY <2>1, <2>2, HarmlessBegins
<1>3. ASSUME NEW w \in WebRows, NEW name \in Names, CreateCampaign(c, w, name)
      PROVE  ListingHolds
  <2> DEFINE q == [op |-> "createCampaign", web |-> w, name |-> name]
  <2>1. q \in AllRequests /\ Harmless(q)
    BY DEF AllRequests, CampaignRequests, Harmless
  <2>2. OppBegin(c, q)
    BY <1>3 DEF CreateCampaign
  <2> QED BY <2>1, <2>2, HarmlessBegins
<1>4. ASSUME NEW k \in CampRows, NEW name \in Names, RenameCampaign(c, k, name)
      PROVE  ListingHolds
  <2> DEFINE q == [op |-> "renameCampaign", camp |-> k, name |-> name]
  <2>1. q \in AllRequests /\ Harmless(q)
    BY DEF AllRequests, CampaignRequests, Harmless
  <2>2. OppBegin(c, q)
    BY <1>4 DEF RenameCampaign
  <2> QED BY <2>1, <2>2, HarmlessBegins
<1>5. ASSUME NEW k \in CampRows, DeleteCampaign(c, k) PROVE ListingHolds
  <2> DEFINE q == [op |-> "deleteCampaign", camp |-> k]
  <2>1. q \in AllRequests /\ Harmless(q)
    BY DEF AllRequests, CampaignRequests, Harmless
  <2>2. OppBegin(c, q)
    BY <1>5 DEF DeleteCampaign
  <2> QED BY <2>1, <2>2, HarmlessBegins
<1>6. ASSUME NEW k \in CampRows, NEW p \in PubRows, NEW url \in TargetUrls,
             CreateOpportunity(c, k, p, url)
      PROVE  ListingHolds
  <2> DEFINE q == [op |-> "create", camp |-> k, pub |-> p, url |-> url]
  <2>1. q \in AllRequests /\ Harmless(q)
    BY DEF AllRequests, OppRequests, Harmless
  <2>2. OppBegin(c, q)
    BY <1>6 DEF CreateOpportunity
  <2> QED BY <2>1, <2>2, HarmlessBegins
<1>7. ASSUME NEW o \in OppRows, NEW status \in OpportunityStatuses,
             TransitionOpportunity(c, o, status)
      PROVE  ListingHolds
  <2> DEFINE q == [op |-> "move", opp |-> o, status |-> status]
  <2>1. q \in AllRequests /\ Harmless(q)
    BY DEF AllRequests, OppRequests, Harmless
  <2>2. OppBegin(c, q)
    BY <1>7 DEF TransitionOpportunity
  <2> QED BY <2>1, <2>2, HarmlessBegins
<1>8. ASSUME NEW o \in OppRows, QualifyOpportunity(c, o) PROVE ListingHolds
  <2> DEFINE p == pubs[opps[o].pub]
             verdict == IF p.pricing = "FREE" /\ p.status = "QUALIFIED"
                          THEN "QUALIFIED" ELSE "REJECTED"
             q == [op |-> "move", opp |-> o,
                   status |-> IF verdict = opps[o].status THEN "keep" ELSE verdict]
  <2>1. verdict \in OpportunityStatuses
    BY DEF OpportunityStatuses, OpportunityTransitions
  <2>2. OppBegin(c, q)
    BY <1>8 DEF QualifyOpportunity
  <2> HIDE DEF verdict
  <2>3. q \in AllRequests /\ Harmless(q)
    BY <2>1 DEF AllRequests, OppRequests, Harmless
  <2> HIDE DEF q
  <2> QED BY <2>2, <2>3, HarmlessBegins
<1>9. ASSUME NEW o \in OppRows, DeleteOpportunity(c, o) PROVE ListingHolds
  <2> DEFINE q == [op |-> "delete", opp |-> o]
  <2>1. q \in AllRequests /\ Harmless(q)
    BY DEF AllRequests, OppRequests, Harmless
  <2>2. OppBegin(c, q)
    BY <1>9 DEF DeleteOpportunity
  <2> QED BY <2>1, <2>2, HarmlessBegins
<1>10. ASSUME NEW o \in OppRows, NEW regenerate \in BOOLEAN, GenerateContent(c, o, regenerate)
       PROVE  ListingHolds
  <2> DEFINE q == [op |-> "generate", opp |-> o, answered |-> FALSE, old |-> {}]
  <2>1. q \in AllRequests /\ Harmless(q)
    BY DEF AllRequests, OppRequests, Harmless
  <2>2. OppBegin(c, q)
    BY <1>10 DEF GenerateContent
  <2> QED BY <2>1, <2>2, HarmlessBegins
<1>11. ASSUME NEW d \in DraftRows, NEW decision \in Decided, ReviewContent(c, d, decision)
       PROVE  ListingHolds
  <2> DEFINE q == [op |-> "review", draft |-> d, decision |-> decision]
  <2>1. q \in AllRequests /\ q.op = "review" /\ q.draft = d
    BY DEF AllRequests, OppRequests
  <2>2. OppBegin(c, q) /\ drafts[d].status \notin Decided
    BY <1>11 DEF ReviewContent, Reviewable
  <2> HIDE DEF q
  <2>3. /\ RequestsOK' /\ UNCHANGED <<webs, camps, opps, drafts, overlapped>>
        /\ \A e \in Clients : oppReq'[e] = IF e = c THEN q ELSE oppReq[e]
    BY <2>1, <2>2, OppBegins DEF ListingInv
  <2>4. WritersInv'
    BY <2>1, <2>2, <2>3 DEF ListingInv, WritersInv, WritesDraft, LiveDraft
  <2>5. \A o : Pending(o)' = Pending(o)
    BY <2>3 DEF Pending, LiveDraft
  <2>6. PendingInv'
    <3> HIDE DEF Pending
    <3> QED BY <2>1, <2>3, <2>5 DEF ListingInv, PendingInv, Answered
  <2> QED BY <2>3, <2>4, <2>6, TablesKept
<1> QED BY <1>1, <1>2, <1>3, <1>4, <1>5, <1>6, <1>7, <1>8, <1>9, <1>10, <1>11
        DEF WebsiteRoute, CampaignRoute, OpportunityRoute

LEMMA ContentReceived ==
  ASSUME ListingInv, UNCHANGED pubs, NEW c \in Clients, ReceiveContent(c)
  PROVE  ListingHolds
<1> DEFINE q == oppReq[c]
           new == [q EXCEPT !.answered = TRUE, !.old = Superseded(q.opp)]
<1>0. oppReq \in [Clients -> AllRequests \cup {idle}] /\ q.op = "generate"
  BY DEF ListingInv, RequestsOK, ReceiveContent
<1>1. q \in [op : {"generate"}, opp : OppRows, answered : BOOLEAN, old : SUBSET DraftRows]
  BY <1>0 DEF AllRequests, WebsiteRequests, CampaignRequests, OppRequests, idle
<1>2. Superseded(q.opp) \in SUBSET DraftRows
  BY DEF Superseded, DraftsOf
<1>3. oppReq' = [oppReq EXCEPT ![c] = new]
      /\ UNCHANGED <<webs, camps, opps, drafts, oppServed, overlapped>>
  BY <1>0 DEF ReceiveContent
<1>4. /\ new \in [op : {"generate"}, opp : OppRows, answered : BOOLEAN, old : SUBSET DraftRows]
      /\ new.op = "generate" /\ new.opp = q.opp /\ new.old = Superseded(q.opp)
  <2> HIDE DEF q
  <2> QED BY <1>1, <1>2
<1> HIDE DEF new, q
<1>5. new \in AllRequests
  BY <1>4 DEF AllRequests, OppRequests
<1>6. RequestsOK' /\ \A e \in Clients : oppReq'[e] = IF e = c THEN new ELSE oppReq[e]
  <2>1. oppReq' \in [Clients -> AllRequests \cup {idle}]
    BY <1>0, <1>3, <1>5
  <2>2. oppServed' \in 0..MaxOppRequests
    BY <1>3 DEF ListingInv, RequestsOK
  <2>3. \A e \in Clients : oppReq'[e] = IF e = c THEN new ELSE oppReq[e]
    BY <1>0, <1>3
  <2> QED BY <1>3, <2>1, <2>2, <2>3 DEF ListingInv, RequestsOK
<1>7. WritersInv'
  <2>1. \A d \in Superseded(q.opp) : drafts[d].status \notin Decided
    BY DEF Superseded, Decided
  <2> QED BY <1>3, <1>4, <1>6, <2>1 DEF ListingInv, WritersInv, WritesDraft, LiveDraft
<1>8. Pending(q.opp) \subseteq Superseded(q.opp)
  BY DEF Pending, Superseded, DraftsOf
<1>9. \A o : Pending(o)' = Pending(o)
  BY <1>3 DEF Pending, LiveDraft
<1>10. PendingInv'
  <2> HIDE DEF Pending
  <2> QED BY <1>3, <1>4, <1>6, <1>8, <1>9 DEF ListingInv, PendingInv, Answered
<1> QED BY <1>3, <1>6, <1>7, <1>10, TablesKept

LEMMA WebsiteAdded ==
  ASSUME ListingInv, UNCHANGED pubs, NEW c \in Clients, CommitCreateWebsite(c)
  PROVE  ListingHolds
<1> DEFINE q == oppReq[c]
<1>1. q.site \in Domains /\ OppEnd(c) /\ UNCHANGED <<camps, opps, drafts, overlapped>>
  BY OppRequestShape DEF ListingInv, RequestsOK, CommitCreateWebsite, idle
<1>2. PICK w \in WebRows : /\ webs[w].state = "unused"
                           /\ webs' = [webs EXCEPT ![w] = [state |-> "live", site |-> q.site]]
  BY DEF CommitCreateWebsite, NextIn
<1> HIDE DEF q
<1>3. webs' \in [WebRows -> Websites]
  BY <1>1, <1>2 DEF ListingInv, TablesOK, Websites, States
<1>4. \A v \in WebRows : LiveWeb(v) => LiveWeb(v)'
  BY <1>2 DEF ListingInv, TablesOK, LiveWeb
<1>5. RefsInv'
  BY <1>1, <1>4 DEF ListingInv, RefsInv, LiveCamp, LiveOpp, LivePub, LiveDraft
<1>6. RequestsOK'
  BY <1>1, OppEnds DEF ListingInv, RequestsOK
<1>7. WritersInv' /\ PendingInv' /\ DecisionStep
  <2>1. \A e \in Clients : oppReq'[e] = oppReq[e] \/ Harmless(oppReq'[e])
    BY <1>1, OppEnds DEF ListingInv
  <2> QED BY <1>1, <2>1, DraftsKept DEF LiveDraft
<1> QED BY <1>1, <1>3, <1>5, <1>6, <1>7 DEF ListingInv, ListingHolds, TablesOK

LEMMA CampaignAdded ==
  ASSUME ListingInv, UNCHANGED pubs, NEW c \in Clients, CommitCreateCampaign(c)
  PROVE  ListingHolds
<1> DEFINE q == oppReq[c]
<1>1. /\ q.web \in WebRows /\ q.name \in Names /\ LiveWeb(q.web) /\ OppEnd(c)
      /\ UNCHANGED <<webs, opps, drafts, overlapped>>
  BY OppRequestShape DEF ListingInv, RequestsOK, CommitCreateCampaign, idle
<1>2. PICK k \in CampRows :
        /\ camps[k].state = "unused"
        /\ camps' = [camps EXCEPT ![k] = [state |-> "live", web |-> q.web, name |-> q.name]]
  BY DEF CommitCreateCampaign, NextIn
<1> HIDE DEF q
<1>3. camps' \in [CampRows -> Campaigns]
  <2>1. [state |-> "live", web |-> q.web, name |-> q.name] \in Campaigns
    BY <1>1 DEF Campaigns, States
  <2> QED BY <1>2, <2>1 DEF ListingInv, TablesOK
<1>4. \A v \in CampRows : IF v = k THEN LiveCamp(v)' /\ camps'[v].web = q.web /\ ~LiveCamp(v)
                          ELSE camps'[v] = camps[v]
  BY <1>2 DEF ListingInv, TablesOK, LiveCamp
<1>5. RefsInv'
  BY <1>1, <1>4 DEF ListingInv, RefsInv, LiveCamp, LiveWeb, LiveOpp, LivePub, LiveDraft
<1>6. RequestsOK'
  BY <1>1, OppEnds DEF ListingInv, RequestsOK
<1>7. WritersInv' /\ PendingInv' /\ DecisionStep
  <2>1. \A e \in Clients : oppReq'[e] = oppReq[e] \/ Harmless(oppReq'[e])
    BY <1>1, OppEnds DEF ListingInv
  <2> QED BY <1>1, <2>1, DraftsKept DEF LiveDraft
<1> QED BY <1>1, <1>3, <1>5, <1>6, <1>7 DEF ListingInv, ListingHolds, TablesOK

LEMMA CampaignRenamed ==
  ASSUME ListingInv, UNCHANGED pubs, NEW c \in Clients, CommitRenameCampaign(c)
  PROVE  ListingHolds
<1> DEFINE q == oppReq[c]
<1>1. /\ q.camp \in CampRows /\ q.name \in Names /\ OppEnd(c)
      /\ camps' = [camps EXCEPT ![q.camp].name = q.name]
      /\ UNCHANGED <<webs, opps, drafts, overlapped>>
  BY OppRequestShape DEF ListingInv, RequestsOK, CommitRenameCampaign, idle
<1> HIDE DEF q
<1>2. camps[q.camp] \in Campaigns /\ camps \in [CampRows -> Campaigns]
  BY <1>1 DEF ListingInv, TablesOK
<1>3. camps'[q.camp] = [camps[q.camp] EXCEPT !.name = q.name]
  BY <1>1, <1>2
<1>4. /\ camps'[q.camp] \in Campaigns /\ camps'[q.camp].state = camps[q.camp].state
      /\ camps'[q.camp].web = camps[q.camp].web
  BY <1>1, <1>2, <1>3 DEF Campaigns
<1>5. \A k \in CampRows : k # q.camp => camps'[k] = camps[k]
  BY <1>1, <1>2
<1>6. camps' \in [CampRows -> Campaigns]
  <2>1. camps' = [k \in CampRows |-> camps'[k]]
    BY <1>1, <1>2
  <2>2. \A k \in CampRows : camps'[k] \in Campaigns
    BY <1>2, <1>4, <1>5
  <2> QED BY <2>1, <2>2
<1>7. \A k \in CampRows : camps'[k].state = camps[k].state /\ camps'[k].web = camps[k].web
  BY <1>4, <1>5
<1>8. RefsInv'
  BY <1>1, <1>7 DEF ListingInv, RefsInv, LiveCamp, LiveWeb, LiveOpp, LivePub, LiveDraft
<1>9. RequestsOK'
  BY <1>1, OppEnds DEF ListingInv, RequestsOK
<1>10. WritersInv' /\ PendingInv' /\ DecisionStep
  <2>1. \A e \in Clients : oppReq'[e] = oppReq[e] \/ Harmless(oppReq'[e])
    BY <1>1, OppEnds DEF ListingInv
  <2> QED BY <1>1, <2>1, DraftsKept DEF LiveDraft
<1> QED BY <1>1, <1>6, <1>8, <1>9, <1>10 DEF ListingInv, ListingHolds, TablesOK

LEMMA OpportunityAdded ==
  ASSUME ListingInv, UNCHANGED pubs, NEW c \in Clients, CommitCreateOpportunity(c)
  PROVE  ListingHolds
<1> DEFINE q == oppReq[c]
           new == [state |-> "live", camp |-> q.camp, pub |-> q.pub, url |-> q.url,
                   status |-> "DISCOVERED"]
<1>1. /\ q.camp \in CampRows /\ q.pub \in PubRows /\ q.url \in TargetUrls
      /\ LiveCamp(q.camp) /\ LivePub(q.pub) /\ OppEnd(c)
      /\ UNCHANGED <<webs, camps, drafts, overlapped>>
  BY OppRequestShape DEF ListingInv, RequestsOK, CommitCreateOpportunity, ReferencesExist, idle
<1>2. PICK o \in OppRows : opps[o].state = "unused" /\ opps' = [opps EXCEPT ![o] = new]
  BY DEF CommitCreateOpportunity, NextIn
<1> HIDE DEF q
<1>3. new \in OpportunityRows
  BY <1>1 DEF OpportunityRows, States, OpportunityStatuses, OpportunityTransitions
<1>4. new.state = "live" /\ new.camp = q.camp /\ new.pub = q.pub
  OBVIOUS
<1> HIDE DEF new
<1>5. opps' \in [OppRows -> OpportunityRows]
  BY <1>2, <1>3 DEF ListingInv, TablesOK
<1>6. \A v \in OppRows : IF v = o THEN opps'[v] = new /\ ~LiveOpp(v) ELSE opps'[v] = opps[v]
  BY <1>2 DEF ListingInv, TablesOK, LiveOpp
<1>7. RefsInv'
  <2>1. \A k \in CampRows : LiveCamp(k)' => camps'[k].web \in WebRows /\ LiveWeb(camps[k].web)'
    BY <1>1 DEF ListingInv, RefsInv, LiveCamp, LiveWeb
  <2>2. \A v \in OppRows : LiveOpp(v)' => /\ opps'[v].camp \in CampRows /\ LiveCamp(opps[v].camp)'
                                          /\ opps'[v].pub \in PubRows /\ LivePub(opps[v].pub)'
    BY <1>1, <1>4, <1>6 DEF ListingInv, RefsInv, LiveOpp, LiveCamp, LivePub
  <2>3. \A d \in DraftRows : LiveDraft(d)' => drafts'[d].opp \in OppRows /\ LiveOpp(drafts[d].opp)'
    BY <1>1, <1>4, <1>6 DEF ListingInv, RefsInv, LiveOpp, LiveDraft
  <2> QED BY <2>1, <2>2, <2>3 DEF RefsInv
<1>8. RequestsOK'
  BY <1>1, OppEnds DEF ListingInv, RequestsOK
<1>9. WritersInv' /\ PendingInv' /\ DecisionStep
  <2>1. \A e \in Clients : oppReq'[e] = oppReq[e] \/ Harmless(oppReq'[e])
    BY <1>1, OppEnds DEF ListingInv
  <2> QED BY <1>1, <2>1, DraftsKept DEF LiveDraft
<1> QED BY <1>1, <1>5, <1>7, <1>8, <1>9 DEF ListingInv, ListingHolds, TablesOK

LEMMA OpportunityMoved ==
  ASSUME ListingInv, UNCHANGED pubs, NEW c \in Clients, CommitMove(c)
  PROVE  ListingHolds
<1> DEFINE q == oppReq[c]
<1>1. /\ q.opp \in OppRows /\ q.status \in OpportunityStatuses \cup {"keep"} /\ OppEnd(c)
      /\ opps' = [opps EXCEPT ![q.opp].status = IF q.status = "keep" THEN @ ELSE q.status]
      /\ UNCHANGED <<webs, camps, drafts, overlapped>>
  BY OppRequestShape DEF ListingInv, RequestsOK, CommitMove, idle
<1> HIDE DEF q
<1>2. opps[q.opp] \in OpportunityRows /\ opps \in [OppRows -> OpportunityRows]
  BY <1>1 DEF ListingInv, TablesOK
<1>3. opps'[q.opp] = [opps[q.opp] EXCEPT !.status = IF q.status = "keep" THEN @ ELSE q.status]
  BY <1>1, <1>2
<1>4. /\ opps'[q.opp] \in OpportunityRows /\ opps'[q.opp].state = opps[q.opp].state
      /\ opps'[q.opp].camp = opps[q.opp].camp /\ opps'[q.opp].pub = opps[q.opp].pub
  <2> HIDE DEF OpportunityStatuses
  <2> QED BY <1>1, <1>2, <1>3 DEF OpportunityRows
<1>5. \A o \in OppRows : o # q.opp => opps'[o] = opps[o]
  BY <1>1, <1>2
<1>6. opps' \in [OppRows -> OpportunityRows]
  <2>1. opps' = [o \in OppRows |-> opps'[o]]
    BY <1>1, <1>2
  <2>2. \A o \in OppRows : opps'[o] \in OpportunityRows
    BY <1>2, <1>4, <1>5
  <2> QED BY <2>1, <2>2
<1>7. \A o \in OppRows : /\ opps'[o].state = opps[o].state /\ opps'[o].camp = opps[o].camp
                         /\ opps'[o].pub = opps[o].pub
  BY <1>4, <1>5
<1>8. RefsInv'
  BY <1>1, <1>7 DEF ListingInv, RefsInv, LiveCamp, LiveWeb, LiveOpp, LivePub, LiveDraft
<1>9. RequestsOK'
  BY <1>1, OppEnds DEF ListingInv, RequestsOK
<1>10. WritersInv' /\ PendingInv' /\ DecisionStep
  <2>1. \A e \in Clients : oppReq'[e] = oppReq[e] \/ Harmless(oppReq'[e])
    BY <1>1, OppEnds DEF ListingInv
  <2> QED BY <1>1, <2>1, DraftsKept DEF LiveDraft
<1> QED BY <1>1, <1>6, <1>8, <1>9, <1>10 DEF ListingInv, ListingHolds, TablesOK

\* What the cascade deletes of a row, a campaign and a publisher leaves nothing
\* that refers to them.
LEMMA RowsCascade ==
  ASSUME ListingInv, NEW ws, NEW ks, NEW ps, NEW os, DeleteRows(ws, ks, ps, os),
         \A p \in PubRows : LivePub(p) => LivePub(p)' \/ p \in ps
  PROVE  /\ TablesOK' /\ RefsInv'
         /\ \A d \in DraftRows : /\ LiveDraft(d)' => LiveDraft(d)
                                 /\ drafts'[d].opp = drafts[d].opp
                                 /\ drafts'[d].status = drafts[d].status
<1> DEFINE camps_ == ks \cup {k \in CampRows : LiveCamp(k) /\ camps[k].web \in ws}
           opps_ == os \cup {o \in OppRows : LiveOpp(o) /\ \/ opps[o].camp \in camps_
                                                           \/ opps[o].pub \in ps}
           drafts_ == {d \in DraftRows : LiveDraft(d) /\ drafts[d].opp \in opps_}
<1>1. /\ webs' = Drop(webs, ws) /\ camps' = Drop(camps, camps_)
      /\ opps' = Drop(opps, opps_) /\ drafts' = Drop(drafts, drafts_)
  BY DEF DeleteRows
<1>2. /\ \A k \in CampRows : LiveCamp(k) /\ camps[k].web \in ws => k \in camps_
      /\ \A o \in OppRows : LiveOpp(o) /\ (opps[o].camp \in camps_ \/ opps[o].pub \in ps)
                              => o \in opps_
      /\ \A d \in DraftRows : LiveDraft(d) /\ drafts[d].opp \in opps_ => d \in drafts_
  OBVIOUS
<1> HIDE DEF camps_, opps_, drafts_
<1>3. /\ webs' \in [WebRows -> Websites]
      /\ \A w \in WebRows : LiveWeb(w)' <=> LiveWeb(w) /\ w \notin ws
  <2>1. webs \in [WebRows -> Websites]
    BY DEF ListingInv, TablesOK
  <2>2. webs' = [w \in WebRows |-> IF w \in ws THEN [webs[w] EXCEPT !.state = "deleted"]
                                   ELSE webs[w]]
    BY <1>1, <2>1 DEF Drop
  <2>3. \A x \in Websites : /\ [x EXCEPT !.state = "deleted"] \in Websites
                            /\ [x EXCEPT !.state = "deleted"].state = "deleted"
    BY DEF Websites, States
  <2>4. \A w \in WebRows : webs'[w] \in Websites
    BY <2>1, <2>2, <2>3
  <2> QED BY <2>1, <2>2, <2>3, <2>4 DEF LiveWeb
<1>4. /\ camps' \in [CampRows -> Campaigns]
      /\ \A k \in CampRows : /\ LiveCamp(k)' <=> LiveCamp(k) /\ k \notin camps_
                             /\ camps'[k].web = camps[k].web
  <2>1. camps \in [CampRows -> Campaigns]
    BY DEF ListingInv, TablesOK
  <2>2. camps' = [k \in CampRows |-> IF k \in camps_ THEN [camps[k] EXCEPT !.state = "deleted"]
                                     ELSE camps[k]]
    BY <1>1, <2>1 DEF Drop
  <2>3. \A x \in Campaigns : /\ [x EXCEPT !.state = "deleted"] \in Campaigns
                             /\ [x EXCEPT !.state = "deleted"].state = "deleted"
                             /\ [x EXCEPT !.state = "deleted"].web = x.web
    BY DEF Campaigns, States
  <2>4. \A k \in CampRows : camps'[k] \in Campaigns
    BY <2>1, <2>2, <2>3
  <2> QED BY <2>1, <2>2, <2>3, <2>4 DEF LiveCamp
<1>5. /\ opps' \in [OppRows -> OpportunityRows]
      /\ \A o \in OppRows : /\ LiveOpp(o)' <=> LiveOpp(o) /\ o \notin opps_
                            /\ opps'[o].camp = opps[o].camp /\ opps'[o].pub = opps[o].pub
  <2>1. opps \in [OppRows -> OpportunityRows]
    BY DEF ListingInv, TablesOK
  <2>2. opps' = [o \in OppRows |-> IF o \in opps_ THEN [opps[o] EXCEPT !.state = "deleted"]
                                   ELSE opps[o]]
    BY <1>1, <2>1 DEF Drop
  <2>3. \A x \in OpportunityRows : /\ [x EXCEPT !.state = "deleted"] \in OpportunityRows
                                   /\ [x EXCEPT !.state = "deleted"].state = "deleted"
                                   /\ [x EXCEPT !.state = "deleted"].camp = x.camp
                                   /\ [x EXCEPT !.state = "deleted"].pub = x.pub
    BY DEF OpportunityRows, States
  <2>4. \A o \in OppRows : opps'[o] \in OpportunityRows
    BY <2>1, <2>2, <2>3
  <2> QED BY <2>1, <2>2, <2>3, <2>4 DEF LiveOpp
<1>6. /\ drafts' \in [DraftRows -> Drafts]
      /\ \A d \in DraftRows : /\ LiveDraft(d)' <=> LiveDraft(d) /\ d \notin drafts_
                              /\ drafts'[d].opp = drafts[d].opp
                              /\ drafts'[d].status = drafts[d].status
  <2>1. drafts \in [DraftRows -> Drafts]
    BY DEF ListingInv, TablesOK
  <2>2. drafts' = [d \in DraftRows |-> IF d \in drafts_ THEN [drafts[d] EXCEPT !.state = "deleted"]
                                       ELSE drafts[d]]
    BY <1>1, <2>1 DEF Drop
  <2>3. \A x \in Drafts : /\ [x EXCEPT !.state = "deleted"] \in Drafts
                          /\ [x EXCEPT !.state = "deleted"].state = "deleted"
                          /\ [x EXCEPT !.state = "deleted"].opp = x.opp
                          /\ [x EXCEPT !.state = "deleted"].status = x.status
    BY DEF Drafts, States
  <2>4. \A d \in DraftRows : drafts'[d] \in Drafts
    BY <2>1, <2>2, <2>3
  <2> QED BY <2>1, <2>2, <2>3, <2>4 DEF LiveDraft
<1>7. RefsInv'
  <2>1. \A k \in CampRows : LiveCamp(k)' => /\ camps'[k].web \in WebRows
                                            /\ webs'[camps'[k].web].state = "live"
    <3> SUFFICES ASSUME NEW k \in CampRows, LiveCamp(k)'
                 PROVE  camps'[k].web \in WebRows /\ webs'[camps'[k].web].state = "live"
      OBVIOUS
    <3> DEFINE w == camps[k].web
    <3>1. camps'[k].web = w /\ LiveCamp(k) /\ k \notin camps_
      BY <1>4
    <3>2. w \in WebRows /\ LiveWeb(w) /\ w \notin ws
      BY <1>2, <3>1 DEF ListingInv, RefsInv
    <3>3. webs'[w].state = "live"
      <4> HIDE DEF w
      <4> QED BY <1>3, <3>2 DEF LiveWeb
    <3> QED BY <3>1, <3>2, <3>3
  <2>2. \A o \in OppRows : LiveOpp(o)' => /\ opps'[o].camp \in CampRows
                                          /\ camps'[opps'[o].camp].state = "live"
                                          /\ opps'[o].pub \in PubRows
                                          /\ pubs'[opps'[o].pub].state = "live"
    <3> SUFFICES ASSUME NEW o \in OppRows, LiveOpp(o)'
                 PROVE  /\ opps'[o].camp \in CampRows /\ camps'[opps'[o].camp].state = "live"
                        /\ opps'[o].pub \in PubRows /\ pubs'[opps'[o].pub].state = "live"
      OBVIOUS
    <3> DEFINE k == opps[o].camp
               p == opps[o].pub
    <3>1. opps'[o].camp = k /\ opps'[o].pub = p /\ LiveOpp(o) /\ o \notin opps_
      BY <1>5
    <3>2. /\ k \in CampRows /\ LiveCamp(k) /\ k \notin camps_
          /\ p \in PubRows /\ LivePub(p) /\ p \notin ps
      BY <1>2, <3>1 DEF ListingInv, RefsInv
    <3>3. camps'[k].state = "live" /\ pubs'[p].state = "live"
      <4> HIDE DEF k, p
      <4> QED BY <1>4, <3>2 DEF LiveCamp, LivePub
    <3> QED BY <3>1, <3>2, <3>3
  <2>3. \A d \in DraftRows : LiveDraft(d)' => /\ drafts'[d].opp \in OppRows
                                              /\ opps'[drafts'[d].opp].state = "live"
    <3> SUFFICES ASSUME NEW d \in DraftRows, LiveDraft(d)'
                 PROVE  drafts'[d].opp \in OppRows /\ opps'[drafts'[d].opp].state = "live"
      OBVIOUS
    <3> DEFINE o == drafts[d].opp
    <3>1. drafts'[d].opp = o /\ LiveDraft(d) /\ d \notin drafts_
      BY <1>6
    <3>2. o \in OppRows /\ LiveOpp(o) /\ o \notin opps_
      BY <1>2, <3>1 DEF ListingInv, RefsInv
    <3>3. opps'[o].state = "live"
      <4> HIDE DEF o
      <4> QED BY <1>5, <3>2 DEF LiveOpp
    <3> QED BY <3>1, <3>2, <3>3
  <2> QED BY <2>1, <2>2, <2>3 DEF RefsInv, LiveCamp, LiveWeb, LiveOpp, LivePub, LiveDraft
<1> QED BY <1>3, <1>4, <1>5, <1>6, <1>7 DEF TablesOK

LEMMA ListingDeleted ==
  ASSUME ListingInv, UNCHANGED pubs, NEW c \in Clients, CommitDeleteListing(c)
  PROVE  ListingHolds
<1>1. OppEnd(c) /\ UNCHANGED overlapped
      /\ \E ws, ks, os : DeleteRows(ws, ks, {}, os)
  BY DEF CommitDeleteListing
<1>2. PICK ws, ks, os : DeleteRows(ws, ks, {}, os)
  BY <1>1
<1>3. \A p \in PubRows : LivePub(p) => LivePub(p)' \/ p \in {}
  BY DEF LivePub
<1>4. /\ TablesOK' /\ RefsInv'
      /\ \A d \in DraftRows : /\ LiveDraft(d)' => LiveDraft(d)
                              /\ drafts'[d].opp = drafts[d].opp
                              /\ drafts'[d].status = drafts[d].status
  BY <1>2, <1>3, RowsCascade
<1>5. RequestsOK' /\ \A e \in Clients : oppReq'[e] = oppReq[e] \/ Harmless(oppReq'[e])
  BY <1>1, OppEnds DEF ListingInv, RequestsOK
<1> QED BY <1>1, <1>4, <1>5, DraftsKept DEF ListingInv, ListingHolds

LEMMA PublishersChanged ==
  ASSUME PubInv, ListingInv, PublisherStep
  PROVE  ListingHolds
<1>1. RowsStay
  BY PubInvStep DEF PublisherStep, PubStepHolds
<1>2. \A p \in PubRows : LivePub(p) => LivePub(p)' \/ p \in DeletedPublishers
  BY <1>1 DEF RowsStay, LivePub, DeletedPublishers
<1>3. DeleteRows({}, {}, DeletedPublishers, {}) /\ UNCHANGED <<oppReq, oppServed, overlapped>>
  BY DEF PublisherStep
<1>4. /\ TablesOK' /\ RefsInv'
      /\ \A d \in DraftRows : /\ LiveDraft(d)' => LiveDraft(d)
                              /\ drafts'[d].opp = drafts[d].opp
                              /\ drafts'[d].status = drafts[d].status
  BY <1>2, <1>3, RowsCascade
<1>5. RequestsOK'
  BY <1>3 DEF ListingInv, RequestsOK
<1> QED BY <1>3, <1>4, <1>5, DraftsKept DEF ListingInv, ListingHolds

LEMMA DraftReviewed ==
  ASSUME ListingInv, UNCHANGED pubs, NEW c \in Clients, CommitReview(c)
  PROVE  ListingHolds
<1> DEFINE q == oppReq[c]
<1>1. /\ q.op = "review" /\ q.draft \in DraftRows /\ q.decision \in Decided /\ OppEnd(c)
      /\ drafts' = [drafts EXCEPT ![q.draft].status = q.decision]
      /\ overlapped' = IF WritersOf(c, q.draft) = {} THEN overlapped
                       ELSE overlapped \cup {<<"draft", q.draft>>}
      /\ UNCHANGED <<webs, camps, opps>>
  BY OppRequestShape DEF ListingInv, RequestsOK, CommitReview, idle
<1>2. WritesDraft(oppReq[c], q.draft)
  BY <1>1 DEF WritesDraft
<1>3. \A e \in Clients : WritesDraft(oppReq[e], q.draft) /\ e # c => e \in WritersOf(c, q.draft)
  BY DEF WritesDraft, WritersOf
<1> HIDE DEF q
<1>4. drafts[q.draft] \in Drafts /\ drafts \in [DraftRows -> Drafts]
  BY <1>1 DEF ListingInv, TablesOK
<1>5. drafts'[q.draft] = [drafts[q.draft] EXCEPT !.status = q.decision]
  BY <1>1, <1>4
<1>6. /\ drafts'[q.draft] \in Drafts /\ drafts'[q.draft].state = drafts[q.draft].state
      /\ drafts'[q.draft].opp = drafts[q.draft].opp /\ drafts'[q.draft].status = q.decision
  BY <1>1, <1>4, <1>5 DEF Drafts, ContentStatuses, Decided
<1>7. \A d \in DraftRows : d # q.draft => drafts'[d] = drafts[d]
  BY <1>1, <1>4
<1>8. TablesOK'
  <2>1. drafts' = [d \in DraftRows |-> drafts'[d]]
    BY <1>1, <1>4
  <2>2. \A d \in DraftRows : drafts'[d] \in Drafts
    BY <1>4, <1>6, <1>7
  <2>3. drafts' \in [DraftRows -> Drafts]
    BY <2>1, <2>2
  <2> QED BY <1>1, <2>3 DEF ListingInv, TablesOK
<1>9. \A d \in DraftRows : drafts'[d].state = drafts[d].state /\ drafts'[d].opp = drafts[d].opp
  BY <1>6, <1>7
<1>10. RefsInv'
  BY <1>1, <1>9 DEF ListingInv, RefsInv, LiveCamp, LiveWeb, LiveOpp, LivePub, LiveDraft
<1>11. /\ oppReq' \in [Clients -> AllRequests \cup {idle}] /\ UNCHANGED oppServed
       /\ \A e \in Clients : oppReq'[e] = IF e = c THEN idle ELSE oppReq[e]
  BY <1>1, OppEnds DEF ListingInv
<1>12. /\ overlapped \subseteq overlapped'
       /\ \A o : <<"opportunity", o>> \in overlapped' <=> <<"opportunity", o>> \in overlapped
       /\ overlapped' \subseteq ({"draft"} \X DraftRows) \cup ({"opportunity"} \X OppRows)
  BY <1>1 DEF ListingInv, RequestsOK
<1>13. RequestsOK'
  BY <1>11, <1>12 DEF ListingInv, RequestsOK
<1>14. \A d : ~WritesDraft(idle, d)
  BY DEF WritesDraft, idle
<1>15. WritersInv'
  <2> SUFFICES ASSUME NEW d \in DraftRows, LiveDraft(d)', drafts'[d].status \in Decided,
                      <<"draft", d>> \notin overlapped', NEW e \in Clients
               PROVE  ~WritesDraft(oppReq'[e], d)
    BY DEF WritersInv, WritesDraft
  <2>1. CASE e = c
    BY <1>11, <1>14, <2>1
  <2>2. CASE e # c /\ d = q.draft
    <3>1. WritersOf(c, q.draft) = {}
      BY <1>1, <2>2
    <3>2. oppReq'[e] = oppReq[e]
      BY <1>11, <2>2
    <3> QED BY <1>3, <2>2, <3>1, <3>2
  <2>3. CASE e # c /\ d # q.draft
    <3>1. drafts'[d] = drafts[d] /\ LiveDraft(d) /\ oppReq'[e] = oppReq[e]
      BY <1>7, <1>11, <2>3 DEF LiveDraft
    <3> QED BY <1>12, <3>1 DEF ListingInv, WritersInv
  <2> QED BY <2>1, <2>2, <2>3
<1>16. \A o : Pending(o)' \subseteq Pending(o)
  BY <1>1, <1>6, <1>7 DEF Pending, LiveDraft, Decided
<1>17. PendingInv'
  <2> HIDE DEF Pending
  <2>1. \A o : ~Answered(idle, o)
    BY DEF Answered, idle
  <2> SUFFICES ASSUME NEW o \in OppRows, <<"opportunity", o>> \notin overlapped'
               PROVE  /\ \A d, e \in Pending(o)' : d = e
                      /\ \A e \in Clients : Answered(oppReq'[e], o) =>
                           Pending(o)' \subseteq oppReq'[e].old
    BY DEF PendingInv, Answered
  <2>2. /\ \A d, e \in Pending(o) : d = e
        /\ \A e \in Clients : Answered(oppReq[e], o) => Pending(o) \subseteq oppReq[e].old
    BY <1>12 DEF ListingInv, PendingInv
  <2> QED BY <1>11, <1>16, <2>1, <2>2
<1>18. DecisionStep
  <2> SUFFICES ASSUME NEW d \in DraftRows, LiveDraft(d), drafts[d].status \in Decided,
                      <<"draft", d>> \notin overlapped
               PROVE  drafts'[d].status = drafts[d].status
    BY DEF DecisionStep
  <2>1. d # q.draft
    BY <1>2 DEF ListingInv, WritersInv
  <2> QED BY <1>7, <2>1
<1> QED BY <1>8, <1>10, <1>13, <1>15, <1>17, <1>18 DEF ListingInv, ListingHolds

LEMMA DraftStored ==
  ASSUME ListingInv, UNCHANGED pubs, NEW c \in Clients, CommitGenerate(c)
  PROVE  ListingHolds
<1> DEFINE q == oppReq[c]
           new == [state |-> "live", opp |-> q.opp, status |-> "PENDING_REVIEW"]
<1>1. /\ q.op = "generate" /\ q.answered /\ q.opp \in OppRows /\ q.old \in SUBSET DraftRows
      /\ LiveOpp(q.opp) /\ OppEnd(c)
      /\ overlapped' = IF Generating(c, q.opp) = {} THEN overlapped
                       ELSE overlapped \cup {<<"opportunity", q.opp>>}
      /\ UNCHANGED <<webs, camps, opps>>
  BY OppRequestShape DEF ListingInv, RequestsOK, CommitGenerate, idle
<1>2. PICK n \in DraftRows :
        /\ drafts[n].state = "unused"
        /\ drafts' = [e \in DraftRows |->
                        IF e = n THEN new
                        ELSE IF e \in q.old THEN [drafts[e] EXCEPT !.status = "SUPERSEDED"]
                        ELSE drafts[e]]
  BY DEF CommitGenerate, NextIn
<1>3. \A e \in Clients : Answered(oppReq[e], q.opp) /\ e # c => e \in Generating(c, q.opp)
  BY DEF Answered, Generating
<1>4. Answered(oppReq[c], q.opp) /\ \A d \in q.old : WritesDraft(oppReq[c], d)
  BY <1>1 DEF Answered, WritesDraft
<1> HIDE DEF q
<1>5. /\ new \in Drafts /\ new.state = "live" /\ new.opp = q.opp
      /\ new.status = "PENDING_REVIEW"
  BY <1>1 DEF Drafts, States, ContentStatuses
<1> HIDE DEF new
<1>6. drafts \in [DraftRows -> Drafts]
  BY DEF ListingInv, TablesOK
<1>7. \A x \in Drafts : /\ [x EXCEPT !.status = "SUPERSEDED"] \in Drafts
                        /\ [x EXCEPT !.status = "SUPERSEDED"].state = x.state
                        /\ [x EXCEPT !.status = "SUPERSEDED"].opp = x.opp
                        /\ [x EXCEPT !.status = "SUPERSEDED"].status = "SUPERSEDED"
  BY DEF Drafts, ContentStatuses
<1>8. /\ drafts'[n] = new /\ ~LiveDraft(n)
      /\ \A d \in DraftRows \ {n} :
           /\ drafts'[d] \in Drafts /\ drafts'[d].state = drafts[d].state
           /\ drafts'[d].opp = drafts[d].opp
           /\ drafts'[d].status = IF d \in q.old THEN "SUPERSEDED" ELSE drafts[d].status
  BY <1>2, <1>6, <1>7 DEF LiveDraft
<1>9. TablesOK'
  <2>1. \A d \in DraftRows : drafts'[d] \in Drafts
    BY <1>5, <1>8
  <2>2. drafts' \in [DraftRows -> Drafts]
    BY <1>2, <2>1
  <2> QED BY <1>1, <2>2 DEF ListingInv, TablesOK
<1>10. RefsInv'
  <2>1. \A d \in DraftRows : LiveDraft(d)' => drafts'[d].opp \in OppRows /\ LiveOpp(drafts'[d].opp)
    BY <1>1, <1>5, <1>8 DEF ListingInv, RefsInv, LiveDraft
  <2> QED BY <1>1, <2>1 DEF ListingInv, RefsInv, LiveCamp, LiveWeb, LiveOpp, LivePub, LiveDraft
<1>11. /\ oppReq' \in [Clients -> AllRequests \cup {idle}] /\ UNCHANGED oppServed
       /\ \A e \in Clients : oppReq'[e] = IF e = c THEN idle ELSE oppReq[e]
  BY <1>1, OppEnds DEF ListingInv
<1>12. /\ overlapped \subseteq overlapped'
       /\ \A d : <<"draft", d>> \in overlapped' <=> <<"draft", d>> \in overlapped
       /\ overlapped' \subseteq ({"draft"} \X DraftRows) \cup ({"opportunity"} \X OppRows)
  BY <1>1 DEF ListingInv, RequestsOK
<1>13. RequestsOK'
  BY <1>11, <1>12 DEF ListingInv, RequestsOK
<1>14. WritersInv'
  <2>1. \A d : ~WritesDraft(idle, d)
    BY DEF WritesDraft, idle
  <2> SUFFICES ASSUME NEW d \in DraftRows, LiveDraft(d)', drafts'[d].status \in Decided,
                      <<"draft", d>> \notin overlapped', NEW e \in Clients
               PROVE  ~WritesDraft(oppReq'[e], d)
    BY DEF WritersInv, WritesDraft
  <2>2. d # n /\ d \notin q.old
    BY <1>5, <1>8 DEF Decided
  <2>3. LiveDraft(d) /\ drafts[d].status \in Decided
    BY <1>8, <2>2 DEF LiveDraft
  <2>4. ~WritesDraft(oppReq[e], d)
    BY <1>12, <2>3 DEF ListingInv, WritersInv
  <2> QED BY <1>11, <2>1, <2>4
<1>15. \A o : Pending(o)' \subseteq IF o = q.opp THEN (Pending(o) \ q.old) \cup {n} ELSE Pending(o)
  BY <1>5, <1>8 DEF Pending, LiveDraft
<1>16. PendingInv'
  <2> HIDE DEF Pending
  <2>1. \A o : ~Answered(idle, o)
    BY DEF Answered, idle
  <2> SUFFICES ASSUME NEW o \in OppRows, <<"opportunity", o>> \notin overlapped'
               PROVE  /\ \A d, e \in Pending(o)' : d = e
                      /\ \A e \in Clients : Answered(oppReq'[e], o) =>
                           Pending(o)' \subseteq oppReq'[e].old
    BY DEF PendingInv, Answered
  <2>2. /\ \A d, e \in Pending(o) : d = e
        /\ \A e \in Clients : Answered(oppReq[e], o) => Pending(o) \subseteq oppReq[e].old
    BY <1>12 DEF ListingInv, PendingInv
  <2>3. CASE o = q.opp
    <3>1. Pending(o) \subseteq q.old
      BY <1>4, <2>2, <2>3 DEF q
    <3>2. Pending(o)' \subseteq {n}
      BY <1>15, <2>3, <3>1
    <3>3. Generating(c, q.opp) = {}
      BY <1>1, <2>3
    <3>4. \A e \in Clients : ~Answered(oppReq'[e], o)
      BY <1>3, <1>11, <2>1, <2>3, <3>3
    <3> QED BY <3>2, <3>4
  <2>4. CASE o # q.opp
    BY <1>11, <1>15, <2>1, <2>2, <2>4
  <2> QED BY <2>3, <2>4
<1>17. DecisionStep
  <2> SUFFICES ASSUME NEW d \in DraftRows, LiveDraft(d), drafts[d].status \in Decided,
                      <<"draft", d>> \notin overlapped
               PROVE  drafts'[d].status = drafts[d].status
    BY DEF DecisionStep
  <2>1. d \notin q.old
    BY <1>4 DEF ListingInv, WritersInv
  <2>2. d # n
    BY <1>8
  <2> QED BY <1>8, <2>1, <2>2
<1> QED BY <1>9, <1>10, <1>13, <1>14, <1>16, <1>17 DEF ListingInv, ListingHolds

LEMMA ListingInvStep ==
  PubInv /\ ListingInv /\ [OpportunitiesNext]_oppVars => PubInv' /\ ListingHolds
<1> SUFFICES ASSUME PubInv, ListingInv, [OpportunitiesNext]_oppVars
             PROVE  PubInv' /\ ListingHolds
  OBVIOUS
<1>1. PubInv'
  BY PubInvStep, PubInvStutters
     DEF OpportunitiesNext, PublisherStep, ListingStep, PubStepHolds, oppVars
<1>2. CASE PublisherStep
  BY <1>1, <1>2, PublishersChanged
<1>3. ASSUME NEW c \in Clients, OppRollback(c), UNCHANGED pubs PROVE ListingHolds
  <2>1. /\ OppEnd(c) /\ UNCHANGED <<webs, camps, opps, drafts, overlapped>>
    BY <1>3 DEF OppRollback
  <2>2. RequestsOK' /\ \A e \in Clients : oppReq'[e] = oppReq[e] \/ Harmless(oppReq'[e])
    BY <2>1, OppEnds DEF ListingInv, RequestsOK
  <2>3. WritersInv' /\ PendingInv'
    BY <2>1, <2>2, DraftsKept DEF LiveDraft
  <2> QED BY <1>3, <2>1, <2>2, <2>3, TablesKept
<1>4. CASE ListingStep
  <2>1. PICK c \in Clients :
          WebsiteRoute(c) \/ CampaignRoute(c) \/ OpportunityRoute(c) \/ OppCommit(c)
    BY <1>4 DEF ListingStep
  <2>2. UNCHANGED pubs
    BY <1>4 DEF ListingStep, pubVars
  <2>3. CASE WebsiteRoute(c) \/ CampaignRoute(c) \/ OpportunityRoute(c)
    BY <1>1, <2>2, <2>3, RoutesBegin
  <2>4. CASE OppCommit(c)
    BY <1>1, <1>3, <2>2, <2>4, ContentReceived, WebsiteAdded, CampaignAdded, CampaignRenamed,
       OpportunityAdded, OpportunityMoved, ListingDeleted, DraftStored, DraftReviewed
       DEF OppCommit
  <2> QED BY <2>1, <2>3, <2>4
<1>5. CASE UNCHANGED oppVars
  <2>1. /\ UNCHANGED <<webs, camps, opps, drafts, oppReq, oppServed, overlapped, pubs>>
    BY <1>5 DEF oppVars, oppOwn, pubVars
  <2>2. RequestsOK'
    BY <2>1 DEF ListingInv, RequestsOK
  <2>3. WritersInv' /\ PendingInv'
    BY <2>1, DraftsKept DEF LiveDraft
  <2> QED BY <1>1, <2>1, <2>2, <2>3, TablesKept
<1> QED BY <1>1, <1>2, <1>4, <1>5 DEF OpportunitiesNext

LEMMA ListingInvInit == OpportunitiesInit => PubInv /\ ListingInv
<1> SUFFICES ASSUME OpportunitiesInit PROVE PubInv /\ ListingInv
  OBVIOUS
<1>1. PubInv
  BY PubInvInit DEF OpportunitiesInit
<1>2. OppOwnInit
  BY DEF OpportunitiesInit
<1>3. TablesOK
  <2>1. webs \in [WebRows -> Websites]
    BY <1>2 DEF OppOwnInit, Websites, States
  <2>2. camps \in [CampRows -> Campaigns]
    BY <1>2 DEF OppOwnInit, Campaigns, States
  <2>3. opps \in [OppRows -> OpportunityRows]
    BY <1>2 DEF OppOwnInit, OpportunityRows, States, OpportunityStatuses, OpportunityTransitions
  <2>4. drafts \in [DraftRows -> Drafts]
    BY <1>2 DEF OppOwnInit, Drafts, States, ContentStatuses
  <2> QED BY <2>1, <2>2, <2>3, <2>4 DEF TablesOK
<1>4. RequestsOK
  BY <1>2, OpportunitiesAssumption DEF OppOwnInit, RequestsOK
<1>5. RefsInv
  BY <1>2 DEF OppOwnInit, RefsInv, LiveCamp, LiveOpp, LiveDraft
<1>6. WritersInv
  BY <1>2 DEF OppOwnInit, WritersInv, LiveDraft
<1>7. \A o : Pending(o) = {}
  BY <1>2 DEF OppOwnInit, Pending, LiveDraft
<1>8. PendingInv
  <2> HIDE DEF Pending
  <2> QED BY <1>7 DEF PendingInv
<1> QED BY <1>1, <1>3, <1>4, <1>5, <1>6, <1>8 DEF ListingInv

-----------------------------------------------------------------------------
(***************************************************************************)
(* The theorems about campaigns, opportunities and drafts.                 *)
(***************************************************************************)

\* Deletions cascade, also past the requests that have just read a row:
\* NoOrphans holds in every reachable state (the foreign keys of
\* campaigns/models.py and opportunities/models.py).
THEOREM NothingIsOrphaned == OpportunitiesSpec => []NoOrphans
<1>1. ListingInv => NoOrphans
  BY DEF ListingInv, RefsInv, NoOrphans
<1>2. PubInv /\ ListingInv /\ [OpportunitiesNext]_oppVars => PubInv' /\ ListingInv'
  BY ListingInvStep DEF ListingHolds
<1> QED BY <1>1, <1>2, ListingInvInit, PTL DEF OpportunitiesSpec

\* A decision of a reviewer stands unless somebody was about to write the draft
\* when it was taken: DecisionStands (opportunities/content.py).
THEOREM DecisionsStand == OpportunitiesSpec => DecisionStands
<1>1. PubInv /\ ListingInv /\ [OpportunitiesNext]_oppVars
        => PubInv' /\ ListingInv' /\ [DecisionStep]_oppVars
  BY ListingInvStep DEF ListingHolds
<1>2. OpportunitiesSpec => [][DecisionStep]_oppVars
  BY <1>1, ListingInvInit, PTL DEF OpportunitiesSpec
<1> QED BY <1>2, PTL DEF DecisionStands, DecisionStep

\* A person is asked about one draft of an opportunity at a time, unless two
\* generations overlapped: OnePendingDraft (opportunities/content.py).
THEOREM OneDraftIsPending == OpportunitiesSpec => []OnePendingDraft
<1>1. ListingInv => OnePendingDraft
  <2> SUFFICES ASSUME ListingInv, NEW o \in OppRows, <<"opportunity", o>> \notin overlapped
               PROVE  Cardinality(Pending(o)) <= 1
    BY DEF OnePendingDraft, Pending, DraftsOf
  <2>1. \A d, e \in Pending(o) : d = e
    BY DEF ListingInv, PendingInv
  <2> HIDE DEF Pending
  <2>2. CASE Pending(o) = {}
    BY <2>2, FS_EmptySet
  <2>3. CASE Pending(o) # {}
    <3>1. PICK d : Pending(o) = {d}
      BY <2>1, <2>3
    <3> QED BY <3>1, FS_Singleton
  <2> QED BY <2>2, <2>3
<1>2. PubInv /\ ListingInv /\ [OpportunitiesNext]_oppVars => PubInv' /\ ListingInv'
  BY ListingInvStep DEF ListingHolds
<1> QED BY <1>1, <1>2, ListingInvInit, PTL DEF OpportunitiesSpec

\* Taken one at a time, requests leave no exception to either: a decision
\* always stands, and a person is always asked about one draft at most
\* (opportunities/content.py).
THEOREM SerialDrafts ==
  ASSUME \A c, d \in Clients : c = d
  PROVE  OpportunitiesSpec =>
           /\ [](\A o \in OppRows :
                   Cardinality({d \in DraftsOf(o) : drafts[d].status = "PENDING_REVIEW"}) <= 1)
           /\ [][\A d \in DraftRows :
                   LiveDraft(d) /\ drafts[d].status \in Decided =>
                     drafts'[d].status = drafts[d].status]_oppVars
<1> DEFINE Serial == overlapped = {}
           Asked == \A o \in OppRows :
                      Cardinality({d \in DraftsOf(o) : drafts[d].status = "PENDING_REVIEW"}) <= 1
           Stands == \A d \in DraftRows :
                       LiveDraft(d) /\ drafts[d].status \in Decided =>
                         drafts'[d].status = drafts[d].status
<1>1. OpportunitiesInit => Serial
  BY DEF OpportunitiesInit, OppOwnInit
<1>2. Serial /\ [OpportunitiesNext]_oppVars => Serial'
  <2> SUFFICES ASSUME Serial, [OpportunitiesNext]_oppVars
               PROVE  overlapped' = {}
    OBVIOUS
  <2>1. ASSUME NEW c \in Clients, CommitGenerate(c)
        PROVE  overlapped' = {}
    <3>1. Generating(c, oppReq[c].opp) = {}
      BY DEF Generating
    <3> QED BY <2>1, <3>1 DEF CommitGenerate
  <2>2. ASSUME NEW c \in Clients, CommitReview(c)
        PROVE  overlapped' = {}
    <3>1. WritersOf(c, oppReq[c].draft) = {}
      BY DEF WritersOf
    <3> QED BY <2>2, <3>1 DEF CommitReview
  <2>3. ASSUME NEW c \in Clients, WebsiteRoute(c) \/ CampaignRoute(c) \/ OpportunityRoute(c)
        PROVE  overlapped' = {}
    BY <2>3 DEF WebsiteRoute, CampaignRoute, OpportunityRoute, CreateWebsite, DeleteWebsite,
                CreateCampaign, RenameCampaign, DeleteCampaign, CreateOpportunity,
                TransitionOpportunity, QualifyOpportunity, DeleteOpportunity, GenerateContent,
                ReviewContent, OppBegin
  <2>4. ASSUME NEW c \in Clients, OppCommit(c)
        PROVE  overlapped' = {}
    BY <2>1, <2>2, <2>4
       DEF OppCommit, ReceiveContent, CommitCreateWebsite, CommitCreateCampaign,
           CommitRenameCampaign, CommitCreateOpportunity, CommitMove, CommitDeleteListing,
           OppRollback
  <2>5. CASE PublisherStep
    BY <2>5 DEF PublisherStep
  <2>6. CASE UNCHANGED oppVars
    BY <2>6 DEF oppVars, oppOwn
  <2> QED BY <2>3, <2>4, <2>5, <2>6 DEF OpportunitiesNext, ListingStep
<1>3. OnePendingDraft /\ Serial => Asked
  BY DEF OnePendingDraft
<1>4. Serial /\ [DecisionStep]_oppVars => [Stands]_oppVars
  BY DEF DecisionStep
<1>5. OpportunitiesSpec => [][DecisionStep]_oppVars
  BY DecisionsStand, PTL DEF DecisionStands, DecisionStep
<1> QED
  BY <1>1, <1>2, <1>3, <1>4, <1>5, OneDraftIsPending, PTL DEF OpportunitiesSpec

-----------------------------------------------------------------------------
(***************************************************************************)
(* The scoring model: the scores as functions of the evidence.             *)
(***************************************************************************)
\* x has all that speaks for s, and nothing else that speaks against it.
AsGood(s, x) ==
  /\ s.reachable => x.reachable
  /\ s.tls => x.tls
  /\ s.path => x.path
  /\ s.free => x.free
  /\ x.paid => s.paid
  /\ s.indexable => x.indexable
  /\ s.hits =< x.hits
  /\ s.category => x.category
  /\ s.country => x.country
  /\ s.language => x.language
  /\ s.authority = x.authority \/ (s.authority # Unmeasured /\ s.authority =< x.authority)
  /\ x.spam \subseteq s.spam
  /\ x.linkFarm => s.linkFarm

Findings == {"reachable", "tls", "path", "free", "paid", "indexable", "hits", "category",
             "country", "language", "authority", "spam", "linkFarm"}

\* Each improvement is one.
LEMMA ImprovementsAreGood ==
  ASSUME NEW s \in Signals, NEW x \in Improvements(s)
  PROVE  x \in Signals /\ AsGood(s, x)
<1>t. /\ s.hits \in Nat /\ s.hits + 1 \in Nat /\ s.hits =< s.hits + 1
      /\ s.authority \in {Unmeasured} \cup 0..100 /\ s.spam \in SUBSET SpamSignals
  BY DEF Signals
<1>1. CASE x = [s EXCEPT !.reachable = TRUE]
  <2>1. x \in Signals
    BY <1>1, <1>t DEF Signals, Unmeasured
  <2>2. /\ \A f \in DOMAIN s \ {"reachable"} : x[f] = s[f]
        /\ x.reachable = (TRUE)
    BY <1>1 DEF Signals
  <2>3. DOMAIN s = Findings
    BY DEF Signals, Findings
  <2> QED BY <2>1, <2>2, <2>3, <1>t DEF AsGood, Findings, Unmeasured
<1>2. CASE x = [s EXCEPT !.tls = TRUE]
  <2>1. x \in Signals
    BY <1>2, <1>t DEF Signals, Unmeasured
  <2>2. /\ \A f \in DOMAIN s \ {"tls"} : x[f] = s[f]
        /\ x.tls = (TRUE)
    BY <1>2 DEF Signals
  <2>3. DOMAIN s = Findings
    BY DEF Signals, Findings
  <2> QED BY <2>1, <2>2, <2>3, <1>t DEF AsGood, Findings, Unmeasured
<1>3. CASE x = [s EXCEPT !.path = TRUE]
  <2>1. x \in Signals
    BY <1>3, <1>t DEF Signals, Unmeasured
  <2>2. /\ \A f \in DOMAIN s \ {"path"} : x[f] = s[f]
        /\ x.path = (TRUE)
    BY <1>3 DEF Signals
  <2>3. DOMAIN s = Findings
    BY DEF Signals, Findings
  <2> QED BY <2>1, <2>2, <2>3, <1>t DEF AsGood, Findings, Unmeasured
<1>4. CASE x = [s EXCEPT !.free = @ \/ ~s.paid]
  <2>1. x \in Signals
    BY <1>4, <1>t DEF Signals, Unmeasured
  <2>2. /\ \A f \in DOMAIN s \ {"free"} : x[f] = s[f]
        /\ s.free => x.free
    BY <1>4 DEF Signals
  <2>3. DOMAIN s = Findings
    BY DEF Signals, Findings
  <2> QED BY <2>1, <2>2, <2>3, <1>t DEF AsGood, Findings, Unmeasured
<1>5. CASE x = [s EXCEPT !.paid = FALSE]
  <2>1. x \in Signals
    BY <1>5, <1>t DEF Signals, Unmeasured
  <2>2. /\ \A f \in DOMAIN s \ {"paid"} : x[f] = s[f]
        /\ x.paid = (FALSE)
    BY <1>5 DEF Signals
  <2>3. DOMAIN s = Findings
    BY DEF Signals, Findings
  <2> QED BY <2>1, <2>2, <2>3, <1>t DEF AsGood, Findings, Unmeasured
<1>6. CASE x = [s EXCEPT !.indexable = TRUE]
  <2>1. x \in Signals
    BY <1>6, <1>t DEF Signals, Unmeasured
  <2>2. /\ \A f \in DOMAIN s \ {"indexable"} : x[f] = s[f]
        /\ x.indexable = (TRUE)
    BY <1>6 DEF Signals
  <2>3. DOMAIN s = Findings
    BY DEF Signals, Findings
  <2> QED BY <2>1, <2>2, <2>3, <1>t DEF AsGood, Findings, Unmeasured
<1>7. CASE x = [s EXCEPT !.hits = @ + 1]
  <2>1. x \in Signals
    BY <1>7, <1>t DEF Signals, Unmeasured
  <2>2. /\ \A f \in DOMAIN s \ {"hits"} : x[f] = s[f]
        /\ x.hits = (s.hits + 1)
    BY <1>7 DEF Signals
  <2>3. DOMAIN s = Findings
    BY DEF Signals, Findings
  <2> QED BY <2>1, <2>2, <2>3, <1>t DEF AsGood, Findings, Unmeasured
<1>8. CASE x = [s EXCEPT !.category = TRUE]
  <2>1. x \in Signals
    BY <1>8, <1>t DEF Signals, Unmeasured
  <2>2. /\ \A f \in DOMAIN s \ {"category"} : x[f] = s[f]
        /\ x.category = (TRUE)
    BY <1>8 DEF Signals
  <2>3. DOMAIN s = Findings
    BY DEF Signals, Findings
  <2> QED BY <2>1, <2>2, <2>3, <1>t DEF AsGood, Findings, Unmeasured
<1>9. CASE x = [s EXCEPT !.country = TRUE]
  <2>1. x \in Signals
    BY <1>9, <1>t DEF Signals, Unmeasured
  <2>2. /\ \A f \in DOMAIN s \ {"country"} : x[f] = s[f]
        /\ x.country = (TRUE)
    BY <1>9 DEF Signals
  <2>3. DOMAIN s = Findings
    BY DEF Signals, Findings
  <2> QED BY <2>1, <2>2, <2>3, <1>t DEF AsGood, Findings, Unmeasured
<1>10. CASE x = [s EXCEPT !.language = TRUE]
  <2>1. x \in Signals
    BY <1>10, <1>t DEF Signals, Unmeasured
  <2>2. /\ \A f \in DOMAIN s \ {"language"} : x[f] = s[f]
        /\ x.language = (TRUE)
    BY <1>10 DEF Signals
  <2>3. DOMAIN s = Findings
    BY DEF Signals, Findings
  <2> QED BY <2>1, <2>2, <2>3, <1>t DEF AsGood, Findings, Unmeasured
<1>11. CASE x = [s EXCEPT !.linkFarm = FALSE]
  <2>1. x \in Signals
    BY <1>11, <1>t DEF Signals, Unmeasured
  <2>2. /\ \A f \in DOMAIN s \ {"linkFarm"} : x[f] = s[f]
        /\ x.linkFarm = (FALSE)
    BY <1>11 DEF Signals
  <2>3. DOMAIN s = Findings
    BY DEF Signals, Findings
  <2> QED BY <2>1, <2>2, <2>3, <1>t DEF AsGood, Findings, Unmeasured
<1>12. CASE x = [s EXCEPT !.authority = IF @ \in 0..99 THEN @ + 1 ELSE @]
  <2>1. x \in Signals
    BY <1>12, <1>t DEF Signals, Unmeasured
  <2>2. /\ \A f \in DOMAIN s \ {"authority"} : x[f] = s[f]
        /\ x.authority = (IF s.authority \in 0..99 THEN s.authority + 1 ELSE s.authority)
    BY <1>12 DEF Signals
  <2>3. DOMAIN s = Findings
    BY DEF Signals, Findings
  <2> QED BY <2>1, <2>2, <2>3, <1>t DEF AsGood, Findings, Unmeasured
<1>13. ASSUME NEW y \in SpamSignals, x = [s EXCEPT !.spam = @ \ {y}]
       PROVE  x \in Signals /\ AsGood(s, x)
  <2>1. x \in Signals
    BY <1>13, <1>t DEF Signals, Unmeasured
  <2>2. /\ \A f \in DOMAIN s \ {"spam"} : x[f] = s[f]
        /\ x.spam = (s.spam \ {y})
    BY <1>13 DEF Signals
  <2>3. DOMAIN s = Findings
    BY DEF Signals, Findings
  <2> QED BY <2>1, <2>2, <2>3, <1>t DEF AsGood, Findings, Unmeasured
<1> QED
  BY <1>1, <1>2, <1>3, <1>4, <1>5, <1>6, <1>7, <1>8, <1>9, <1>10, <1>11, <1>12, <1>13
  DEF Improvements

\* A clamped number is within its bounds, and clamping keeps the order.
LEMMA ClampKeepsOrder ==
  ASSUME NEW a \in Int, NEW b \in Int, NEW top \in Nat, a =< b
  PROVE  /\ Clamp(a, top) \in 0..top /\ Clamp(b, top) \in 0..top
         /\ Clamp(a, top) =< Clamp(b, top)
BY DEF Clamp
LEMMA DivisionKeepsOrder ==
  ASSUME NEW a \in Int, NEW b \in Int, a =< b
  PROVE  a \div 170 \in Int /\ b \div 170 \in Int /\ a \div 170 =< b \div 170
OBVIOUS

\* The components move with the evidence.
LEMMA ComponentsKeepOrder ==
  ASSUME NEW s \in Signals, NEW x \in Signals, AsGood(s, x)
  PROVE  LET w == DefaultWeights IN
         /\ ScoreQuality(s, w) \in 0..100 /\ ScoreQuality(x, w) \in 0..100
         /\ ScoreQuality(s, w) =< ScoreQuality(x, w)
         /\ ScoreRelevance(s, w) \in 0..100 /\ ScoreRelevance(x, w) \in 0..100
         /\ ScoreRelevance(s, w) =< ScoreRelevance(x, w)
         /\ ScoreAuthority(s, w) \in 0..100 /\ ScoreAuthority(x, w) \in 0..100
         /\ ScoreAuthority(s, w) =< ScoreAuthority(x, w)
         /\ ScoreSpam(s, w) \in 0..100 /\ ScoreSpam(x, w) \in 0..100
         /\ ScoreSpam(x, w) =< ScoreSpam(s, w)
         /\ HardRejections(x) \subseteq HardRejections(s)
<1> DEFINE w == DefaultWeights
<1>t. /\ s.reachable \in BOOLEAN /\ s.tls \in BOOLEAN /\ s.path \in BOOLEAN
      /\ s.free \in BOOLEAN /\ s.indexable \in BOOLEAN /\ s.hits \in Nat
      /\ s.category \in BOOLEAN /\ s.country \in BOOLEAN /\ s.language \in BOOLEAN
      /\ s.authority \in {Unmeasured} \cup 0..100 /\ s.spam \in SUBSET SpamSignals
      /\ s.linkFarm \in BOOLEAN
      /\ x.reachable \in BOOLEAN /\ x.tls \in BOOLEAN /\ x.path \in BOOLEAN
      /\ x.free \in BOOLEAN /\ x.indexable \in BOOLEAN /\ x.hits \in Nat
      /\ x.category \in BOOLEAN /\ x.country \in BOOLEAN /\ x.language \in BOOLEAN
      /\ x.authority \in {Unmeasured} \cup 0..100 /\ x.spam \in SUBSET SpamSignals
      /\ x.linkFarm \in BOOLEAN
  BY DEF Signals
<1>g. /\ s.reachable => x.reachable
      /\ s.tls => x.tls
      /\ s.path => x.path
      /\ s.free => x.free
      /\ x.paid => s.paid
      /\ s.indexable => x.indexable
      /\ s.hits =< x.hits
      /\ s.category => x.category
      /\ s.country => x.country
      /\ s.language => x.language
      /\ s.authority = x.authority \/ (s.authority # Unmeasured /\ s.authority =< x.authority)
      /\ x.spam \subseteq s.spam
      /\ x.linkFarm => s.linkFarm
  BY DEF AsGood
<1>w. /\ w.reachable = 30 /\ w.tls = 10 /\ w.path = 25 /\ w.free = 20 /\ w.indexable = 15
      /\ w.keyword = 12 /\ w.maxKeyword = 60 /\ w.category = 20 /\ w.country = 12
      /\ w.language = 8 /\ w.spamSignal = 22 /\ w.outbound = 18 /\ w.defaultAuthority = 50
  BY DEF DefaultWeights
<1> HIDE DEF w
<1>1. /\ ScoreQuality(s, w) \in 0..100 /\ ScoreQuality(x, w) \in 0..100
      /\ ScoreQuality(s, w) =< ScoreQuality(x, w)
  BY <1>t, <1>g, <1>w DEF ScoreQuality, Clamp, Points
<1>2. /\ ScoreRelevance(s, w) \in 0..100 /\ ScoreRelevance(x, w) \in 0..100
      /\ ScoreRelevance(s, w) =< ScoreRelevance(x, w)
  <2>1. /\ s.hits * w.keyword = 12 * s.hits /\ x.hits * w.keyword = 12 * x.hits
        /\ 12 * s.hits \in Nat /\ 12 * x.hits \in Nat /\ 12 * s.hits =< 12 * x.hits
    BY <1>t, <1>g, <1>w
  <2> DEFINE Earned(n) == IF n < 60 THEN n ELSE 60
             Rest(y) == Points(y.category, 20) + Points(y.country, 12) + Points(y.language, 8)
  <2>2. /\ Earned(12 * s.hits) \in Nat /\ Earned(12 * x.hits) \in Nat
        /\ Earned(12 * s.hits) =< Earned(12 * x.hits)
    BY <2>1
  <2>3. Rest(s) \in Nat /\ Rest(x) \in Nat /\ Rest(s) =< Rest(x)
    BY <1>t, <1>g DEF Points
  <2>4. /\ ScoreRelevance(s, w) = Clamp(Earned(12 * s.hits) + Rest(s), 100)
        /\ ScoreRelevance(x, w) = Clamp(Earned(12 * x.hits) + Rest(x), 100)
    BY <1>t, <1>w, <2>1 DEF ScoreRelevance, Points
  <2> HIDE DEF Earned, Rest
  <2>5. /\ Earned(12 * s.hits) + Rest(s) \in Int /\ Earned(12 * x.hits) + Rest(x) \in Int
        /\ Earned(12 * s.hits) + Rest(s) =< Earned(12 * x.hits) + Rest(x)
    BY <2>2, <2>3
  <2>6. /\ Clamp(Earned(12 * s.hits) + Rest(s), 100) \in 0..100
        /\ Clamp(Earned(12 * x.hits) + Rest(x), 100) \in 0..100
        /\ Clamp(Earned(12 * s.hits) + Rest(s), 100) =< Clamp(Earned(12 * x.hits) + Rest(x), 100)
    BY <2>5, ClampKeepsOrder
  <2> QED BY <2>4, <2>6
<1>3. /\ ScoreAuthority(s, w) \in 0..100 /\ ScoreAuthority(x, w) \in 0..100
      /\ ScoreAuthority(s, w) =< ScoreAuthority(x, w)
  BY <1>t, <1>g, <1>w DEF ScoreAuthority, Clamp, Unmeasured
<1>4. /\ ScoreSpam(s, w) \in 0..100 /\ ScoreSpam(x, w) \in 0..100
      /\ ScoreSpam(x, w) =< ScoreSpam(s, w)
  <2>1. IsFiniteSet(SpamSignals)
    <3>1. SpamSignals = (((({"paid_links_offered"} \cup {"link_scheme"}) \cup {"pbn_footprint"})
                         \cup {"adult_content"}) \cup {"gambling_content"})
                         \cup {"vendor_spam_score_high"}
      BY DEF SpamSignals, LinkSchemes
    <3> QED BY <3>1, FS_Singleton, FS_Union
  <2>2. IsFiniteSet(s.spam) /\ IsFiniteSet(x.spam)
    BY <1>t, <2>1, FS_Subset
  <2>3. /\ Cardinality(s.spam) \in Nat /\ Cardinality(x.spam) \in Nat
        /\ Cardinality(x.spam) =< Cardinality(s.spam)
    BY <1>g, <2>2, FS_Subset, FS_CardinalityType
  <2> DEFINE Penalty(y) == Cardinality(y.spam) * 22 + Points(y.linkFarm, 18)
  <2>4. ScoreSpam(s, w) = Clamp(Penalty(s), 100) /\ ScoreSpam(x, w) = Clamp(Penalty(x), 100)
    BY <1>w DEF ScoreSpam
  <2>5. Penalty(s) \in Int /\ Penalty(x) \in Int /\ Penalty(x) =< Penalty(s)
    BY <1>t, <1>g, <2>3 DEF Points
  <2> HIDE DEF Penalty
  <2>6. /\ Clamp(Penalty(s), 100) \in 0..100 /\ Clamp(Penalty(x), 100) \in 0..100
        /\ Clamp(Penalty(x), 100) =< Clamp(Penalty(s), 100)
    BY <2>5, ClampKeepsOrder
  <2> QED BY <2>4, <2>6
<1>5. HardRejections(x) \subseteq HardRejections(s)
  BY <1>g DEF HardRejections
<1> QED BY <1>1, <1>2, <1>3, <1>4, <1>5 DEF w

\* The combined score moves with its components.
LEMMA OpportunityScoreKeepsOrder ==
  ASSUME NEW s \in Signals, NEW x \in Signals, AsGood(s, x)
  PROVE  /\ OpportunityScore(s, DefaultWeights) \in Nat
         /\ OpportunityScore(x, DefaultWeights) \in Nat
         /\ OpportunityScore(s, DefaultWeights) =< OpportunityScore(x, DefaultWeights)
<1> DEFINE w == DefaultWeights
           Scaled(q, r, a, p) == 100 * (q * 35 + r * 30 + a * 20) - p * 15 * 85
           Score(q, r, a, p) == Clamp((2 * Scaled(q, r, a, p) + 85) \div 170, 10000)
<1>1. /\ w.qualityWeight = 35 /\ w.relevanceWeight = 30 /\ w.authorityWeight = 20
      /\ w.spamWeight = 15 /\ PositiveMass(w) = 85
  BY DEF DefaultWeights, PositiveMass
<1>2. \A y : OpportunityScore(y, w) = Score(ScoreQuality(y, w), ScoreRelevance(y, w),
                                            ScoreAuthority(y, w), ScoreSpam(y, w))
  BY <1>1 DEF OpportunityScore
<1>3. ASSUME NEW q \in 0..100, NEW r \in 0..100, NEW a \in 0..100, NEW p \in 0..100,
             NEW qq \in 0..100, NEW rr \in 0..100, NEW aa \in 0..100, NEW pp \in 0..100,
             q =< qq, r =< rr, a =< aa, pp =< p
      PROVE  /\ Score(q, r, a, p) \in Nat /\ Score(qq, rr, aa, pp) \in Nat
             /\ Score(q, r, a, p) =< Score(qq, rr, aa, pp)
  <2> DEFINE m == 2 * Scaled(q, r, a, p) + 85
             n == 2 * Scaled(qq, rr, aa, pp) + 85
  <2>1. m \in Int /\ n \in Int /\ m =< n
    BY <1>3
  <2>2. Score(q, r, a, p) = Clamp(m \div 170, 10000) /\ Score(qq, rr, aa, pp) = Clamp(n \div 170, 10000)
    OBVIOUS
  <2> HIDE DEF m, n, Score
  <2>3. m \div 170 \in Int /\ n \div 170 \in Int /\ m \div 170 =< n \div 170
    BY <2>1, DivisionKeepsOrder
  <2>4. PICK i \in Int, j \in Int : i = m \div 170 /\ j = n \div 170 /\ i =< j
    BY <2>3
  <2>5. /\ Clamp(i, 10000) \in Nat /\ Clamp(j, 10000) \in Nat
        /\ Clamp(i, 10000) =< Clamp(j, 10000)
    BY <2>4 DEF Clamp
  <2>6. Score(q, r, a, p) = Clamp(i, 10000) /\ Score(qq, rr, aa, pp) = Clamp(j, 10000)
    BY <2>2, <2>4
  <2> QED BY <2>5, <2>6
<1> HIDE DEF w, Score
<1>4. /\ ScoreQuality(s, w) \in 0..100 /\ ScoreQuality(x, w) \in 0..100
      /\ ScoreQuality(s, w) =< ScoreQuality(x, w)
      /\ ScoreRelevance(s, w) \in 0..100 /\ ScoreRelevance(x, w) \in 0..100
      /\ ScoreRelevance(s, w) =< ScoreRelevance(x, w)
      /\ ScoreAuthority(s, w) \in 0..100 /\ ScoreAuthority(x, w) \in 0..100
      /\ ScoreAuthority(s, w) =< ScoreAuthority(x, w)
      /\ ScoreSpam(s, w) \in 0..100 /\ ScoreSpam(x, w) \in 0..100
      /\ ScoreSpam(x, w) =< ScoreSpam(s, w)
  BY ComponentsKeepOrder DEF w
<1>5. /\ OpportunityScore(s, w) \in Nat /\ OpportunityScore(x, w) \in Nat
      /\ OpportunityScore(s, w) =< OpportunityScore(x, w)
  <2>1. LET S == Score(ScoreQuality(s, w), ScoreRelevance(s, w), ScoreAuthority(s, w),
                       ScoreSpam(s, w))
            X == Score(ScoreQuality(x, w), ScoreRelevance(x, w), ScoreAuthority(x, w),
                       ScoreSpam(x, w))
        IN S \in Nat /\ X \in Nat /\ S =< X
    BY <1>3, <1>4, ZenonT(60)
  <2> QED BY <1>2, <2>1
<1> QED BY <1>5 DEF w

LEMMA MonotoneEverywhere ==
  ASSUME NEW s \in Signals
  PROVE  MonotoneAt(s)
<1> SUFFICES ASSUME NEW x \in Improvements(s)
             PROVE  /\ OpportunityScore(x, DefaultWeights) >= OpportunityScore(s, DefaultWeights)
                    /\ MeetsThresholds(s, DefaultWeights) => MeetsThresholds(x, DefaultWeights)
  BY DEF MonotoneAt
<1>2. x \in Signals /\ AsGood(s, x)
  BY ImprovementsAreGood
<1>3. /\ OpportunityScore(s, DefaultWeights) \in Nat
      /\ OpportunityScore(x, DefaultWeights) \in Nat
      /\ OpportunityScore(s, DefaultWeights) =< OpportunityScore(x, DefaultWeights)
  BY <1>2, OpportunityScoreKeepsOrder
<1>4. DefaultWeights.minQuality \in Nat /\ DefaultWeights.maxSpam \in Nat
      /\ 100 * DefaultWeights.minOpportunity \in Nat
  BY DEF DefaultWeights
<1>5. MeetsThresholds(s, DefaultWeights) => MeetsThresholds(x, DefaultWeights)
  <2> HIDE DEF DefaultWeights
  <2> QED BY <1>2, <1>3, <1>4, ComponentsKeepOrder DEF MeetsThresholds
<1> QED BY <1>3, <1>5

\* Whatever the evidence, one more finding in favour of a site neither lowers
\* its score nor costs it its qualification: QualifyingIsMonotone, for any set
\* of sample sites and whatever was recorded of a publisher
\* (publishers/scoring.py).
THEOREM QualifyingMonotone == PublishersSpec => []QualifyingIsMonotone
<1>1. SamplesAreMonotone
  BY MonotoneEverywhere, ScoringAssumption DEF SamplesAreMonotone
<1>2. ASSUME PubInv PROVE QualifyingIsMonotone
  <2> SUFFICES ASSUME NEW p \in PubRows, pubs[p].signals # NoSignals
               PROVE  MonotoneAt(pubs[p].signals)
    BY <1>1 DEF QualifyingIsMonotone
  <2>1. pubs[p] \in PublisherRows
    BY <1>2 DEF PubInv, PublishersTypeOK
  <2>2. pubs[p].signals \in Signals
    BY <2>1 DEF PublisherRows
  <2> QED BY <2>2, MonotoneEverywhere
<1>3. PubInv /\ [PublishersNext]_pubVars => PubInv'
  BY PubInvStep, PubInvStutters DEF PubStepHolds
<1> QED BY <1>2, <1>3, PubInvInit, PTL DEF PublishersSpec
=============================================================================
