---------------------------- MODULE MCEnrichment ----------------------------
(* Small instances of Enrichment for TLC. *)
EXTENDS Enrichment, TLC

CONSTANTS r1, r2, t1, p1, p2

TwoReports == {r1, r2}
OneReport  == {r1}
OneText    == {t1}
OnePoller  == {p1}
TwoPollers == {p1, p2}

\* Both messages read the same; one of them has no letters or digits.
SameText == [r \in Reports |-> t1]
TextLess == [r \in Reports |-> IF r = r1 THEN t1 ELSE NoText]

Rule    == [enrich |-> "pending", method |-> "rule"]
Keyword == [enrich |-> "pending", method |-> "keyword"]
Noise   == [enrich |-> "none", method |-> "rule"]

AllRule     == [r \in Reports |-> Rule]
RuleKeyword == [r \in Reports |-> IF r = r1 THEN Rule ELSE Keyword]
NoiseRule   == [r \in Reports |-> IF r = r1 THEN Noise ELSE Rule]

ReportSymmetry == Permutations(Reports)
PollerSymmetry == Permutations(Pollers)
=============================================================================
