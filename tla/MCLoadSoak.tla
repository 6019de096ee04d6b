----------------------------- MODULE MCLoadSoak -----------------------------
(***************************************************************************)
(* The instance of LoadSoak for TLC: a phase with one worker and one with  *)
(* two, as the code's own list of phases begins.                           *)
(***************************************************************************)
EXTENDS LoadSoak

CONSTANTS w1, w2

MCWorker == {w1, w2}
MCConc(p) == IF p = 1 THEN {w1} ELSE MCWorker
=============================================================================
