----------------------------- MODULE MCTranscript -----------------------------
(***************************************************************************)
(* Instances of Transcript for TLC: the settings that differ in how the    *)
(* transcript is replaced, with a cap that three messages exceed.          *)
(***************************************************************************)
EXTENDS Transcript

Conf(w, n, m, c) == [wire |-> w, native |-> n, mode |-> m, cap |-> c]

MCConfigs ==
  {Conf("chat", TRUE, "plain", 5), Conf("chat", FALSE, "strict", 0),
   Conf("chat", TRUE, "diagnostic", 0), Conf("responses", TRUE, "strict", 5),
   Conf("responses", FALSE, "diagnostic", 4)}
=============================================================================
