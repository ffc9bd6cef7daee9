----------------------- MODULE MCCandidateEvaluation -----------------------
(***************************************************************************)
(* Model values for the runs of CandidateEvaluation: one or two sources,   *)
(* of which the second says the claim again but alone poses a question no  *)
(* verdict could promote the claim on.                                     *)
(***************************************************************************)
EXTENDS CandidateEvaluation, TLC

CONSTANTS s1, s2

One == {s1}
Sources == {s1, s2}
TheSecond == {s2}
OneAlone == {One}
None == {}
=============================================================================
