-------------------------- MODULE DispatcherBoard --------------------------
(***************************************************************************)
(* The refinement mapping from the dispatcher's files and processes to the *)
(* operator's view of them in JobBoard.                                    *)
(***************************************************************************)
EXTENDS Dispatcher

\* A job is off the tick's hands once finish() has written the history.
Closing(t) == pc[t] \in {"publish", "archive"}

BoardHeld == {job[t] : t \in {s \in Tick : job[s] # NoJob /\ ~Closing(s)}}

BoardClosing == {job[t] : t \in {s \in Tick : Closing(s)}}

\* A file whose job a tick holds, or has settled and is about to archive, is
\* no longer waiting; left behind by a kill or a failed rename, it is again.
BoardWaiting == {i \in Id : Queued(i)} \ (BoardHeld \cup BoardClosing)

BoardSettled == {i \in Id : Settled(i)}

Board == INSTANCE JobBoard WITH
  Job <- Id, Box <- Serving, Dead <- None,
  MayResurface <- MaxCrashes + MaxFaults > 0,
  waiting <- BoardWaiting, held <- BoardHeld,
  settled <- BoardSettled, engine <- engine, behind <- behind

\* README rules 1, 3 and 4 as one specification: the queue, the lock and the
\* tick of live_server.py and dispatcher.py implement the operator's board.
ImplementsBoard == Board!Spec
=============================================================================
