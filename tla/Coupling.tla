-------------------------------- MODULE Coupling --------------------------------
(***************************************************************************)
(* Which files change together over the commits base..head                 *)
(* (cgx-diff/src/coupling.rs): a walk of the history that counts, for each *)
(* pair of files, the commits that changed both.                           *)
(*                                                                         *)
(* A history gives each commit its parents and the files it changes        *)
(* against the first of them, and says which commits are there to be read  *)
(* and whether it is that of a shallow clone.  Files are numbers, ordered  *)
(* as the bytes of their paths are; a pair is <<smaller, larger>>.         *)
(***************************************************************************)
EXTENDS Integers, Sequences, FiniteSets, SequencesExt

CONSTANTS
  Histories,
  RangesAsked  \* [base, head, maxFiles, minCochanges, limit]

(* There are finitely many commits, each changes finitely many files, and  *)
(* both ends of a range have been resolved to one.                         *)
ASSUME HistoriesAssumption ==
  \A h \in Histories :
    /\ IsFiniteSet(DOMAIN h.parents) /\ h.present \subseteq DOMAIN h.parents
    /\ \A c \in DOMAIN h.parents : h.parents[c] \in Seq(DOMAIN h.parents)
    /\ \A c \in h.present : h.touched[c] \subseteq Int /\ IsFiniteSet(h.touched[c])
    /\ \A r \in RangesAsked : {r.base, r.head} \subseteq DOMAIN h.parents
ASSUME RangesAssumption ==
  \A r \in RangesAsked : {r.maxFiles, r.minCochanges, r.limit} \subseteq Nat

VARIABLES
  history,
  range,      \* what is asked
  counting,   \* "begin", "walk", "report" or "done"
  queued,     \* the commits the walk is still to visit
  queuedOnce, \* the commits it has ever queued
  perFile,    \* counts by file
  perPair,    \* counts by pair
  tally,      \* commits considered and excluded
  truncated,  \* the walk met the end of the history there is
  coupled     \* the report

couplingVars == <<history, range, counting, queued, queuedOnce, perFile, perPair,
                  tally, truncated, coupled>>

NoTally == [considered |-> 0, merge |-> 0, root |-> 0, large |-> 0]
NoReport == [outcome |-> "none"]
(* The members of a finite set in order: below[x] are those before x. *)
ByRank(S, below) ==
  [i \in 1 .. Cardinality(S) |-> CHOOSE x \in S : Cardinality(below[x]) = i - 1]

CountOf(counts, k) == IF k \in DOMAIN counts THEN counts[k] ELSE 0

CouplingInit ==
  /\ history \in Histories
  /\ range \in RangesAsked
  /\ counting = "begin"
  /\ queued = <<>> /\ queuedOnce = {}
  /\ perFile = <<>> /\ perPair = <<>>
  /\ tally = NoTally
  /\ truncated = FALSE
  /\ coupled = NoReport

-------------------------------------------------------------------------------
(* A commit and what it descends from, as far as parents are recorded. *)
AncestorsOf(h, c) ==
  LET rounds == Cardinality(DOMAIN h.parents)
      grown[k \in 0 .. rounds] ==
        IF k = 0 THEN {c}
        ELSE grown[k - 1] \cup UNION {Range(h.parents[d]) : d \in grown[k - 1] \cap h.present}
  IN  grown[rounds]

(* Mutant: what the base descends from is not hidden with it. *)
HiddenBy_BaseAlone(h, base) == {base}

(* with_hidden paints the ancestry of the base before the first item. *)
HiddenBy(h, base) == AncestorsOf(h, base)

(* The ancestry of the base ends where the clone does: nothing is walked. *)
BeginCoupling ==
  /\ counting = "begin"
  /\ IF HiddenBy(history, range.base) \subseteq history.present
     THEN /\ counting' = "walk"
          /\ queued' = IF range.head \in HiddenBy(history, range.base) THEN <<>> ELSE <<range.head>>
          /\ UNCHANGED truncated
     ELSE /\ counting' = "report"
          /\ truncated' = TRUE
          /\ UNCHANGED queued
  /\ queuedOnce' = {range.head}
  /\ UNCHANGED <<history, range, perFile, perPair, tally, coupled>>

PairsOf(files) == {p \in files \X files : p[1] < p[2]}
CountedOnce(counts, ks) == [k \in ks \cup DOMAIN counts |-> CountOf(counts, k) + (IF k \in ks THEN 1 ELSE 0)]

(* A commit is excluded, counted, or of a parent that cannot be read. *)
Consider(c) ==
  LET parents == history.parents[c]
      files == history.touched[c]
      large == range.maxFiles > 0 /\ Cardinality(files) > range.maxFiles
      excluded(why) == tally' = [tally EXCEPT ![why] = @ + 1] /\ UNCHANGED <<perFile, perPair, counting, coupled>>
  IN  \/ Len(parents) > 1 /\ excluded("merge")
      \/ Len(parents) = 0 /\ excluded("root")
      \/ /\ Len(parents) = 1 /\ parents[1] \notin history.present
         /\ counting' = "done" /\ coupled' = [outcome |-> "error"]
         /\ UNCHANGED <<perFile, perPair, tally>>
      \/ Len(parents) = 1 /\ parents[1] \in history.present /\ large /\ excluded("large")
      \/ /\ Len(parents) = 1 /\ parents[1] \in history.present /\ ~large
         /\ tally' = [tally EXCEPT !.considered = @ + 1]
         /\ perFile' = CountedOnce(perFile, files)
         /\ perPair' = CountedOnce(perPair, PairsOf(files))
         /\ UNCHANGED <<counting, coupled>>

(* The parents not met before, in their order, one named twice but once.   *)
FreshParents(c) ==
  LET parents == history.parents[c]
      known == queuedOnce \cup HiddenBy(history, range.base)
      first == {i \in DOMAIN parents : parents[i] \notin known /\ \A j \in 1 .. i - 1 : parents[j] # parents[i]}
      at == ByRank(first, [i \in first |-> {j \in first : j < i}])
  IN  [k \in DOMAIN at |-> parents[at[k]]]

VisitCommit ==
  /\ counting = "walk" /\ queued # <<>>
  /\ LET c == Head(queued)
         fresh == FreshParents(c)
     IN  IF c \in history.present
         THEN /\ queued' = Tail(queued) \o fresh
              /\ queuedOnce' = queuedOnce \cup Range(fresh)
              /\ UNCHANGED truncated
              /\ Consider(c)
         ELSE /\ truncated' = TRUE /\ counting' = "report"
              /\ UNCHANGED <<queued, queuedOnce, perFile, perPair, tally, coupled>>
  /\ UNCHANGED <<history, range>>

-------------------------------------------------------------------------------
PairBefore(x, y) ==
  \/ x.cochanges > y.cochanges
  \/ x.cochanges = y.cochanges /\ x.a < y.a
  \/ x.cochanges = y.cochanges /\ x.a = y.a /\ x.b < y.b

Reported == {p \in DOMAIN perPair : perPair[p] >= range.minCochanges}

SortedPairs ==
  LET rows == {[a |-> p[1], b |-> p[2], cochanges |-> perPair[p],
                changesA |-> perFile[p[1]], changesB |-> perFile[p[2]]] : p \in Reported}
  IN  ByRank(rows, [x \in rows |-> {y \in rows : PairBefore(y, x)}])

(* coupling_contract: what may be missing from the pairs. *)
HistoryCodes(pairs, total) ==
  {c \in {"bounded-rev-range", "merge-commits-excluded", "root-commits-excluded",
          "large-commit-excluded", "cochange-threshold", "result-limit",
          "shallow-repository", "history-boundary", "empty-rev-range"} :
     CASE c = "bounded-rev-range"      -> TRUE
       [] c = "merge-commits-excluded" -> tally.merge > 0
       [] c = "root-commits-excluded"  -> tally.root > 0
       [] c = "large-commit-excluded"  -> tally.large > 0
       [] c = "cochange-threshold"     -> range.minCochanges > 1
       [] c = "result-limit"           -> Len(pairs) < total
       [] c = "shallow-repository"     -> history.shallow
       [] c = "history-boundary"       -> truncated
       [] c = "empty-rev-range"        -> tally = NoTally /\ ~truncated}

ReportPairs ==
  /\ counting = "report" \/ (counting = "walk" /\ queued = <<>>)
  /\ LET all == SortedPairs
         pairs == IF range.limit > 0 /\ Len(all) > range.limit
                  THEN SubSeq(all, 1, range.limit) ELSE all
     IN  coupled' = [outcome |-> "report", pairs |-> pairs, total |-> Len(all),
                     under |-> HistoryCodes(pairs, Len(all))]
  /\ counting' = "done"
  /\ UNCHANGED <<history, range, queued, queuedOnce, perFile, perPair, tally, truncated>>

CouplingNext == BeginCoupling \/ VisitCommit \/ ReportPairs

CouplingSpec == CouplingInit /\ [][CouplingNext]_couplingVars

-------------------------------------------------------------------------------
(* The commits git log base..head lists, of the commits there are. *)
InRange(h, r) == AncestorsOf(h, r.head) \ AncestorsOf(h, r.base)

Countable(h, r) ==
  {c \in InRange(h, r) \cap h.present :
     Len(h.parents[c]) = 1 /\ (r.maxFiles > 0 => Cardinality(h.touched[c]) <= r.maxFiles)}

ChangedIn(h, cs, files) == Cardinality({c \in cs : files \subseteq h.touched[c]})

(* The report counts the commits of the range and no others, each once, in *)
(* whatever order merges have the walk meet them (the module's claim that  *)
(* walk order is irrelevant); it keeps the pairs that changed together     *)
(* most; and whatever commit or pair it leaves out there is a reason for   *)
(* in its contract.  Only a history with a hole in it is an error.         *)
CouplingCountsTheRange ==
  counting = "done" =>
    LET whole == AncestorsOf(history, range.head) \cup AncestorsOf(history, range.base)
                   \subseteq history.present
        counted == Countable(history, range)
        files == UNION {history.touched[c] : c \in counted}
        said(codes) == codes \cap coupled.under # {}
        of(p) == ChangedIn(history, counted, {p[1], p[2]})
    IN  /\ whole => coupled.outcome = "report" /\ ~truncated
        /\ coupled.outcome = "report" =>
             /\ \A i \in DOMAIN coupled.pairs :
                  LET p == coupled.pairs[i] IN
                  IF truncated THEN p.cochanges <= of(<<p.a, p.b>>)
                  ELSE /\ p.cochanges = of(<<p.a, p.b>>)
                       /\ p.changesA = ChangedIn(history, counted, {p.a})
                       /\ p.changesB = ChangedIn(history, counted, {p.b})
             /\ \A p \in PairsOf(files) :
                  \/ \E i \in DOMAIN coupled.pairs :
                       coupled.pairs[i].a = p[1] /\ coupled.pairs[i].b = p[2]
                  \/ of(p) = 0
                  \/ said({"history-boundary"})
                  \/ of(p) < range.minCochanges /\ said({"cochange-threshold"})
                  \/ /\ \A i \in DOMAIN coupled.pairs : coupled.pairs[i].cochanges >= of(p)
                     /\ said({"result-limit"})
             /\ counted # InRange(history, range) =>
                  said({"merge-commits-excluded", "root-commits-excluded",
                        "large-commit-excluded", "history-boundary"})
===============================================================================
