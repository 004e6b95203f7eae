------------------------------ MODULE MCRunGroup ------------------------------
(* Instances of RunGroup for TLC. *)
EXTENDS RunGroup

Base == [wire |-> "chat", keys |-> {"api"}, local |-> {}, prover |-> FALSE,
         native |-> TRUE, dry |-> FALSE]

\* No endpoint accepts streaming, or the driver's does.
Endpoints == {[driver |-> FALSE, prover |-> FALSE], [driver |-> TRUE, prover |-> FALSE]}

\* The two conditions on credentials disagree: the wrong key, and a local URL of either wire.
Keyed(w, k, l) == [Base EXCEPT !.wire = w, !.keys = k, !.local = l]

Disputed ==
  {Keyed("chat", {"responses"}, {}), Keyed("responses", {}, {"chat"}),
   Keyed("responses", {}, {"responses"})}

\* Both wires, a prover, a refused preflight, a dry run, no key, a local endpoint
\* of both wires, and the disputed ones.
AllConfigs ==
  {Base, [Base EXCEPT !.prover = TRUE], [Base EXCEPT !.wire = "responses", !.prover = TRUE],
   [Base EXCEPT !.wire = "responses", !.native = FALSE],
   [Base EXCEPT !.dry = TRUE], [Base EXCEPT !.keys = {}],
   Keyed("chat", {}, {"chat"}), Keyed("responses", {}, {"chat", "responses"})}
    \cup Disputed
=============================================================================
