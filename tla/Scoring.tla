------------------------------- MODULE Scoring -------------------------------
(***************************************************************************)
(* The scoring model of publishers/scoring.py: pure functions over the     *)
(* evidence about one site.  Component scores are in points, the combined  *)
(* score in hundredths of a point; component weights are in hundredths.    *)
(***************************************************************************)
EXTENDS Integers, FiniteSets

CONSTANT SampleSites \* evidence about sites, to compare their scores

\* ScoringWeights: the defaults.
DefaultWeights ==
  [qualityWeight |-> 35, relevanceWeight |-> 30, authorityWeight |-> 20, spamWeight |-> 15,
   reachable |-> 30, tls |-> 10, path |-> 25, free |-> 20, indexable |-> 15,
   keyword |-> 12, maxKeyword |-> 60, category |-> 20, country |-> 12, language |-> 8,
   spamSignal |-> 22, outbound |-> 18,
   minQuality |-> 45, maxSpam |-> 50, minOpportunity |-> 40, defaultAuthority |-> 50]

\* No metrics provider is configured.
Unmeasured == -1

LinkSchemes == {"paid_links_offered", "link_scheme", "pbn_footprint"}
SpamSignals == LinkSchemes \cup {"adult_content", "gambling_content", "vendor_spam_score_high"}

\* PublisherSignals, without what no score looks at.
Signals ==
  [reachable : BOOLEAN, tls : BOOLEAN, path : BOOLEAN, free : BOOLEAN, paid : BOOLEAN,
   indexable : BOOLEAN, hits : Nat, category : BOOLEAN, country : BOOLEAN,
   language : BOOLEAN, authority : {Unmeasured} \cup 0..100, spam : SUBSET SpamSignals,
   linkFarm : BOOLEAN]

ASSUME ScoringAssumption == SampleSites \subseteq Signals

Clamp(x, top) == IF x < 0 THEN 0 ELSE IF x > top THEN top ELSE x
Points(holds, points) == IF holds THEN points ELSE 0

ScoreQuality(s, w) ==
  Clamp(Points(s.reachable, w.reachable) + Points(s.tls, w.tls) + Points(s.path, w.path)
        + Points(s.free, w.free) + Points(s.indexable, w.indexable), 100)

ScoreRelevance(s, w) ==
  LET earned == s.hits * w.keyword IN
  Clamp((IF earned < w.maxKeyword THEN earned ELSE w.maxKeyword)
        + Points(s.category, w.category) + Points(s.country, w.country)
        + Points(s.language, w.language), 100)

ScoreSpam(s, w) ==
  Clamp(Cardinality(s.spam) * w.spamSignal + Points(s.linkFarm, w.outbound), 100)

ScoreAuthority(s, w) ==
  Clamp(IF s.authority = Unmeasured THEN w.defaultAuthority ELSE s.authority, 100)

HardRejections(s) ==
  {r \in {"unreachable", "paid_only", "no_submission_path", "link_scheme_detected"} :
     \/ r = "unreachable" /\ ~s.reachable
     \/ r = "paid_only" /\ s.paid
     \/ r = "no_submission_path" /\ ~s.path
     \/ r = "link_scheme_detected" /\ s.spam \cap LinkSchemes # {}}

PositiveMass(w) == w.qualityWeight + w.relevanceWeight + w.authorityWeight

\* Mutant: the penalty is added.
OpportunityScore_Rewarded(s, w) ==
  LET weighted == ScoreQuality(s, w) * w.qualityWeight
                  + ScoreRelevance(s, w) * w.relevanceWeight
                  + ScoreAuthority(s, w) * w.authorityWeight
      scaled == 100 * weighted + ScoreSpam(s, w) * w.spamWeight * PositiveMass(w)
  IN Clamp((2 * scaled + PositiveMass(w)) \div (2 * PositiveMass(w)), 10000)

\* The three positive components averaged by their own mass, less the spam
\* penalty, rounded to hundredths.
OpportunityScore(s, w) ==
  LET weighted == ScoreQuality(s, w) * w.qualityWeight
                  + ScoreRelevance(s, w) * w.relevanceWeight
                  + ScoreAuthority(s, w) * w.authorityWeight
      scaled == 100 * weighted - ScoreSpam(s, w) * w.spamWeight * PositiveMass(w)
  IN Clamp((2 * scaled + PositiveMass(w)) \div (2 * PositiveMass(w)), 10000)

MeetsThresholds(s, w) ==
  /\ HardRejections(s) = {}
  /\ ScoreQuality(s, w) >= w.minQuality
  /\ ScoreSpam(s, w) <= w.maxSpam
  /\ OpportunityScore(s, w) >= 100 * w.minOpportunity

-----------------------------------------------------------------------------
\* s with one more finding in its favour.
Improvements(s) ==
  {[s EXCEPT !.reachable = TRUE], [s EXCEPT !.tls = TRUE], [s EXCEPT !.path = TRUE],
   [s EXCEPT !.free = @ \/ ~s.paid], [s EXCEPT !.paid = FALSE], [s EXCEPT !.indexable = TRUE],
   [s EXCEPT !.hits = @ + 1], [s EXCEPT !.category = TRUE], [s EXCEPT !.country = TRUE],
   [s EXCEPT !.language = TRUE], [s EXCEPT !.linkFarm = FALSE],
   [s EXCEPT !.authority = IF @ \in 0..99 THEN @ + 1 ELSE @]}
  \cup {[s EXCEPT !.spam = @ \ {x}] : x \in SpamSignals}

\* Nothing in Improvements lowers the score of s, or makes it stop qualifying.
MonotoneAt(s) ==
  \A x \in Improvements(s) :
    /\ OpportunityScore(x, DefaultWeights) >= OpportunityScore(s, DefaultWeights)
    /\ MeetsThresholds(s, DefaultWeights) => MeetsThresholds(x, DefaultWeights)

SamplesAreMonotone == \A s \in SampleSites : MonotoneAt(s)
=============================================================================
