---------------------------- MODULE MCComparison ----------------------------
(***************************************************************************)
(* A small instance for TLC: one flaw twice in one file, the copy of it in *)
(* another component, one whose message holds the commit, one excused, one *)
(* of a low band and one in no repository, in every scan of up to four.    *)
(***************************************************************************)
EXTENDS Comparison

CONSTANTS web, api, flaw, image, words, commit, x, y, repo, MaxLen

Finding(spot, component, message, hash, line, band) ==
  [spot |-> spot, repo |-> IF spot = image THEN NoRepo ELSE repo, component |-> component,
   message |-> message, hash |-> hash, line |-> line, band |-> band, severity |-> band,
   suppressed |-> FALSE, correlated |-> FALSE]

First    == Finding(flaw, web, words, x, 1, 4)
Second   == Finding(flaw, web, words, y, 2, 4)
Elsewhere == Finding(flaw, api, words, x, 1, 2)
Restated == Finding(flaw, web, commit, y, 2, 4)
Excused  == [Finding(flaw, web, words, x, 5, 4) EXCEPT !.suppressed = TRUE]
Minor    == Finding(image, web, words, NoHash, 3, 2)
Copied   == [Finding(image, web, commit, NoHash, 3, 4) EXCEPT !.correlated = TRUE]
Pool     == <<Excused, Second, Elsewhere, Restated, First, Minor, Copied>>

\* The findings of Pool whose numbers are in S, in that order.
Ordered(S) ==
  LET Nth[n \in 1..Cardinality(S)] ==
        CHOOSE i \in S : Cardinality({j \in S : j < i}) = n - 1
  IN  [n \in 1..Cardinality(S) |-> Pool[Nth[n]]]

MCScans ==
  {Ordered(S) : S \in {T \in SUBSET DOMAIN Pool : Cardinality(T) <= MaxLen}}
    \union {<<First, First>>, <<Minor, Minor, Second>>}

Plain ==
  [noBase |-> FALSE, baseScope |-> {web, api}, headScope |-> {web, api},
   baseBand |-> 0, headBand |-> 0, minBand |-> 0, repo |-> NoRepo, failOn |-> 0, failBand |-> 0]
MCAsks ==
  {[Plain EXCEPT !.failBand = 4],
   [Plain EXCEPT !.failOn = 2, !.repo = repo],
   [Plain EXCEPT !.noBase = TRUE, !.failBand = 2],
   [Plain EXCEPT !.baseBand = 3, !.minBand = 3, !.failBand = 2],
   [Plain EXCEPT !.baseBand = 3, !.headBand = 3, !.failBand = 4],
   [Plain EXCEPT !.baseBand = 1, !.headBand = 0, !.failOn = 2],
   [Plain EXCEPT !.headBand = 3],
   [Plain EXCEPT !.baseBand = 3, !.failBand = 1],
   [Plain EXCEPT !.headScope = {web}, !.failBand = 1]}
=============================================================================
