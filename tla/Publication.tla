----------------------------- MODULE Publication ------------------------------
(***************************************************************************)
(* What the public sees of the results that ReleaseCycle indexes.          *)
(* aggregate_version.py writes, one file after the other, a version's      *)
(* summary and leaderboard, the site's current table and the index of the  *)
(* versions; package_benchmark_release.py packs the runs that the manifest *)
(* selected.  Both are run by hand at any time and may be interrupted.     *)
(*                                                                         *)
(* The entries of the other models are constants: only the entry of the    *)
(* model of ReleaseCycle changes.                                          *)
(***************************************************************************)
EXTENDS ReleaseCycle

CONSTANTS
  Rivals,   \* the summary rows of the other models
  Own,      \* the source and public id of the model of ReleaseCycle
  PageMax,  \* bound: aggregations and packages
  Printed   \* bound: the artifacts of the runs of a version that is published

\* What model_summary keeps of an entry; "public" is the id that model_identity
\* gives to the source id, which several sources may share.
SummaryRow == [source : Nat, public : Nat, status : {"complete", "partial", "invalid"},
               passed : Nat, tasks : Nat, tokens : Nat]

ASSUME PublicationAssumption ==
  /\ Own \in [source : Nat, public : Nat]
  /\ Rivals \subseteq SummaryRow /\ IsFiniteSet(Rivals)
  /\ \A r \in Rivals : r.source # Own.source
  /\ \A r, s \in Rivals : r.source = s.source => r = s
  /\ PageMax \in Nat
  /\ Printed \subseteq Outcomes

VARIABLES
  summary,  \* results/summaries/: the rows of each version
  leader,   \* results/leaderboards/: the rows each was made from
  site,     \* results.json and results/index.json
  archive,  \* dist/archives: the runs packed for each version
  ledger,   \* the artifacts manifest of each version
  pages     \* history: how many there were, what was interrupted, what is not packed

pageVars == <<summary, leader, site, archive, ledger, pages>>

allVars == <<vars, pageVars>>

\* A file that is not there, one that a kill left half written, and one of rows.
NoFile == [state |-> "absent", rows |-> {}]
Torn == [state |-> "torn", rows |-> {}]
Whole(rows) == [state |-> "whole", rows |-> rows]

PageInit ==
  /\ Init
  /\ summary = [v \in 1 .. VersionMax |-> NoFile]
  /\ leader = [v \in 1 .. VersionMax |-> NoFile]
  /\ site = [rows |-> NoFile, latest |-> 0, listed |-> {}]
  /\ archive = [v \in 1 .. VersionMax |-> {}]
  /\ ledger = [v \in 1 .. VersionMax |-> [runs |-> {}, passed |-> 0]]
  /\ pages = [made |-> 0, whole |-> TRUE, cut |-> {},
              unpacked |-> 1 .. VersionMax]

-----------------------------------------------------------------------------
(* scripts/aggregate_version.py                                            *)

\* model_summary of the model's entry
OwnRow(v) ==
  LET m == manifest[v] IN
    [source |-> Own.source, public |-> Own.public, status |-> m.status,
     passed |-> m.passed, tasks |-> Cardinality(DOMAIN m.rows),
     tokens |-> Cardinality({t \in DOMAIN m.rows : m.rows[t].tokens})]

\* aggregate
SummaryOf(v) == Rivals \cup IF manifest[v] = NoEntry THEN {} ELSE {OwnRow(v)}

Complete(rows) == {r \in rows : r.status = "complete"}

\* pass_rate, in thousandths: it is rounded to three places, here with the exact
\* half upwards.
PassRate(r) ==
  IF r.tasks = 0 THEN 0 ELSE (2000 * r.passed + r.tasks) \div (2 * r.tasks)

\* Sorted by falling pass rate, rising tokens and public id; the sort is stable
\* over a manifest in the order of the source ids.
Before(r, s) ==
  \/ PassRate(r) > PassRate(s)
  \/ /\ PassRate(r) = PassRate(s)
     /\ Below(<<r.tokens, r.public, r.source>>, <<s.tokens, s.public, s.source>>)

Place(rows, r) == 1 + Cardinality({s \in rows : Before(s, r)})

RankMutant(rows, r) == Place(rows, r)

\* complete_rank: the rank of a public id, which is its last place; 0 for none.
Rank(rows, r) ==
  LET namesakes == {s \in Complete(rows) : s.public = r.public} IN
    IF namesakes = {} THEN 0 ELSE Max({Place(Complete(rows), s) : s \in namesakes})

Readable(file) == file.state = "whole"

\* build_version_index: a summary that is no JSON is skipped.
Listed(v, files) == {w \in DOMAIN files : Readable(files[w])} \cup {v}

\* The summary, the leaderboard, results.json and the index in the order they are
\* written; an interrupted call writes "done" of them and breaks off in the next.
Aggregate(v) ==
  /\ v \in DOMAIN versions /\ pages.made < PageMax
  /\ \E done \in 0 .. 4 :
       LET whole == Whole(SummaryOf(v))
           write(file, n) == IF done > n THEN whole ELSE IF done = n THEN Torn ELSE file
           files == [summary EXCEPT ![v] = write(@, 0)]
       IN /\ summary' = files
          /\ leader' = [leader EXCEPT ![v] = write(@, 1)]
          /\ site' = [site EXCEPT !.rows = write(@, 2),
                        !.latest = IF done = 4 THEN v ELSE @,
                        !.listed = IF done = 4 THEN Listed(v, files) ELSE IF done = 3 THEN {} ELSE @]
          /\ pages' = [pages EXCEPT !.made = @ + 1, !.whole = done = 4,
                         !.cut = IF done < 2 THEN @ \cup {v} ELSE @ \ {v}]
  /\ UNCHANGED <<vars, archive, ledger>>

-----------------------------------------------------------------------------
(* scripts/package_benchmark_release.py                                    *)

\* selected_run_ids_by_model
SelectedRuns(v) == {manifest[v].rows[t].run : t \in DOMAIN manifest[v].rows}

MissingMutant(v, dirs) == {}

\* filter_dirs_by_result_manifest
Missing(v, dirs) == SelectedRuns(v) \ dirs

\* The runs directory may lack runs that the index was made from.  Nothing is
\* written when a selected run is missing; the archive comes before its manifest.
Package(v) ==
  /\ v \in DOMAIN versions /\ manifest[v] # NoEntry /\ pages.made < PageMax
  /\ \E dirs \in SUBSET DOMAIN runs, interrupted \in BOOLEAN :
       /\ Missing(v, dirs) = {}
       /\ LET packed == SelectedRuns(v) \cap dirs IN
            /\ archive' = [archive EXCEPT ![v] = packed]
            /\ ledger' = IF interrupted THEN ledger
                 ELSE [ledger EXCEPT ![v] =
                        [runs |-> packed,
                         passed |-> Cardinality({i \in packed : IsPass(runs[i].left)})]]
            /\ pages' = [pages EXCEPT !.made = @ + 1,
                           !.unpacked = IF interrupted THEN @ \cup {v} ELSE @ \ {v}]
  /\ UNCHANGED <<vars, summary, leader, site>>

Published == pages.made > 0

\* The versions whose entry a step makes again.
Reindexed == {v \in 1 .. VersionMax : manifest'[v] # manifest[v]}

AllPrinted == \A i \in DOMAIN runs : runs[i].left \in Printed

\* Bound: a repository that publishes versions has no other changes, no benchmark
\* workflow besides and no other artifacts than the printed ones.
PageNext ==
  \/ /\ Next
     /\ Published => repo' = repo /\ board' = board /\ fresh' = fresh /\ AllPrinted'
     /\ pages' = [pages EXCEPT !.unpacked = @ \cup Reindexed]
     /\ UNCHANGED <<summary, leader, site, archive, ledger>>
  \/ fresh = 0 /\ edits = 0 /\ AllPrinted /\ \E v \in 1 .. VersionMax : Aggregate(v) \/ Package(v)

PageSpec == PageInit /\ [][PageNext]_allVars

-----------------------------------------------------------------------------
(* Properties.                                                             *)

\* The task has a run that solved it or gave the model its turn.
Decided(t) ==
  \E i \in RunsOf(t) :
    LET a == runs[i].left IN
      \/ IsPass(a)
      \/ a.tokens /\ (a.work \/ a.row # "request_failed" \/ a.verdict \in GenuineVerdicts)

\* "complete rows ranked by pass_rate desc, completion_tokens asc, model_id asc;
\* partial/invalid rows have null rank": on every leaderboard that was ever
\* written, among models with a public id of their own, exactly the complete rows
\* have a rank, in that order, and the rank of a model whose runs come and go
\* rests on a verdict for each task of the version (leaderboard_json).
RanksAreEarned ==
  \A v \in DOMAIN versions : Readable(leader[v]) =>
    LET rows == leader[v].rows
        alone == {r \in rows : \A s \in rows \ {r} : s.public # r.public}
    IN /\ \A r \in alone : Rank(rows, r) \in
            IF r.status = "complete" THEN 1 .. Cardinality(Complete(rows)) ELSE {0}
       /\ \A r, s \in Complete(alone) : Before(r, s) => Rank(rows, r) < Rank(rows, s)
       /\ \A r \in alone : r.source = Own.source /\ Rank(rows, r) # 0 =>
            \A t \in versions[v].suite : Decided(t)

\* "It is derived from the summary file, not a separate source of truth": unless
\* its last aggregation was interrupted the leaderboard of a version is that of
\* its summary; a call that came to its end leaves an index that leads to every
\* version that can be read, and the current table is the latest version's.
PagesAgree ==
  /\ \A v \in DOMAIN versions \ pages.cut : leader[v] = summary[v]
  /\ site.latest # 0 /\ pages.whole =>
       /\ site.listed = {v \in DOMAIN summary : Readable(summary[v])}
       /\ site.latest \in site.listed
       /\ site.rows = summary[site.latest]

\* "the release/archive manifest must include that exact run directory": a
\* package that was completed since the version was indexed holds the runs that
\* the index selected, names them, and counts the tasks solved as the index does,
\* whatever was missing from the directory it was made from.
ArchiveIsWhole ==
  \A v \in DOMAIN versions \ pages.unpacked :
    /\ archive[v] = SelectedRuns(v)
    /\ ledger[v] = [runs |-> archive[v], passed |-> manifest[v].passed]

\* The pages that a version is published by are true to each other and to what
\* was indexed, whichever calls were interrupted (aggregate_version.py,
\* package_benchmark_release.py, aggregate_runs.py).
PublishedAgrees == BoardIsAggregate /\ PagesAgree /\ ArchiveIsWhole
=============================================================================
