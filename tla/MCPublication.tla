---------------------------- MODULE MCPublication -----------------------------
(* Publication with two tasks, two runs, two versions and four rivals, of    *)
(* which two share a public id and one is partial.                           *)
EXTENDS Publication, TLC

CONSTANTS t1, t2

MCTask == {t1, t2}

Left(harness, row, verdict, work, requests, tokens, unrouted) ==
  [harness |-> harness, row |-> row, verdict |-> verdict, work |-> work,
   requests |-> requests, tokens |-> tokens, unrouted |-> unrouted,
   terminal |-> harness = "completed" /\ row = "request_failed"]

MCOutcomes ==
  {Left("completed", "lean_passed", "passed", TRUE, TRUE, TRUE, FALSE),
   Left("completed", "lean_passed", "passed", TRUE, TRUE, FALSE, FALSE),
   Left("completed", "request_failed", "forbidden_placeholder", FALSE, TRUE, TRUE, TRUE),
   Left("completed", "request_failed", "verifier_infra_error", FALSE, TRUE, TRUE, FALSE),
   Left("harness_error", "none", "passed", FALSE, FALSE, FALSE, FALSE)}

\* What a version that is published holds: a solved task and an outage.
MCPrinted ==
  {Left("completed", "lean_passed", "passed", TRUE, TRUE, TRUE, FALSE),
   Left("completed", "request_failed", "verifier_infra_error", FALSE, TRUE, TRUE, FALSE)}

MCOwn == [source |-> 2, public |-> 2]

Rival(source, public, status, passed) ==
  [source |-> source, public |-> public, status |-> status, passed |-> passed,
   tasks |-> 2, tokens |-> 2]

MCRivals ==
  {Rival(1, 1, "complete", 1), Rival(3, 1, "complete", 2), Rival(4, 4, "partial", 2),
   Rival(5, 5, "complete", 2)}

TaskSymmetry == Permutations(MCTask)
=============================================================================
