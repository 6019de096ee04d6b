---------------------------- MODULE MCDispatcher ----------------------------
(***************************************************************************)
(* Instances of Dispatcher for TLC.  Three engines are enough for a job to *)
(* find the box on an engine that is neither the baseline nor the one it   *)
(* asks for, and two jobs for one to find what another left behind.        *)
(***************************************************************************)
EXTENDS DispatcherBoard, TLC

\* Every shape of job the console posts, with one engine to switch to.
MCRequests ==
  {[action |-> "eval", engine |-> "cruz"],
   [action |-> "download", engine |-> "current"],
   [action |-> "serve", engine |-> "cruz"],
   [action |-> "serve", engine |-> Baseline]}

\* Without downloads, whose second validation may refuse them.
MCNoDownloads == {r \in MCRequests : r.action # "download"}

\* Evaluations that have to switch.
MCSwitchingEvals == {[action |-> "eval", engine |-> "cruz"]}

MCEvals == {[action |-> "eval", engine |-> "cruz"],
            [action |-> "eval", engine |-> "current"]}

\* The jobs that may meet a measurement outside the queue.
MCDeferred == {[action |-> "eval", engine |-> "cruz"],
               [action |-> "download", engine |-> "current"],
               [action |-> "serve", engine |-> "cruz"]}

\* Dispatcher processes are interchangeable.
Symmetry == Permutations(Tick)
=============================================================================
