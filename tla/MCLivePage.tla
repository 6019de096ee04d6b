---------------------------- MODULE MCLivePage ----------------------------
(***************************************************************************)
(* The instance of LivePage for TLC: two threads of the web server ask for *)
(* one window.  Windows share no entry of a cache; that one is never filed *)
(* under another is left to LivePageProofs.                                *)
(***************************************************************************)
EXTENDS LivePage, TLC

\* Threads are interchangeable.
Symmetry == Permutations(Thread)
=============================================================================
