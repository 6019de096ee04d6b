------------------------------ MODULE JobBoard ------------------------------
(***************************************************************************)
(* What the run board promises its operator, with no files, locks, ticks   *)
(* or phases in sight: jobs wait, one at a time owns the box, and a job    *)
(* that was accepted stays accounted for until it is settled.  The engine  *)
(* in service is changed only by a job that owns the box; otherwise it can *)
(* die, and what died or was left behind can come back.  Dispatcher        *)
(* implements this (see DispatcherBoard).                                  *)
(***************************************************************************)
CONSTANTS
  Job,            \* the jobs that may be submitted
  Box,            \* what may be in service
  Dead,           \* nothing in service
  MayResurface    \* TRUE: a settled job may come back (at least once)

VARIABLES
  waiting,        \* jobs in the queue
  held,           \* the job that owns the box, if any
  settled,        \* jobs with a verdict
  engine,         \* what is in service
  behind          \* what may come into service by itself

box == <<engine, behind>>
vars == <<waiting, held, settled, box>>

Init ==
  /\ waiting = {} /\ held = {} /\ settled = {}
  /\ engine \in Box /\ behind = {}

Submit(i) ==
  /\ i \notin waiting \cup held \cup settled
  /\ waiting' = waiting \cup {i}
  /\ UNCHANGED <<held, settled, box>>

Begin(i) ==
  /\ held = {} /\ i \in waiting
  /\ held' = {i}
  /\ waiting' = waiting \ {i}
  /\ UNCHANGED <<settled, box>>

\* The owner switches the engine, for its run or back to the baseline.
Switch ==
  /\ held # {}
  /\ engine' \in Box /\ behind' \subseteq Box
  /\ UNCHANGED <<waiting, held, settled>>

\* The job was deferred, or its dispatcher was killed, perhaps mid-switch.
GiveBack(i) ==
  /\ held = {i}
  /\ held' = {}
  /\ waiting' = waiting \cup {i}
  /\ engine' \in Box /\ behind' \subseteq Box
  /\ UNCHANGED settled

Settle(i) ==
  /\ held = {i}
  /\ held' = {}
  /\ settled' = settled \cup {i}
  /\ UNCHANGED <<waiting, box>>

Resurface(i) ==
  /\ MayResurface
  /\ i \in settled
  /\ waiting' = waiting \cup {i}
  /\ UNCHANGED <<held, settled, box>>

\* The engine in service dies, or another comes back.
Drift ==
  /\ engine' \in {Dead} \cup behind
  /\ behind' \subseteq behind \cup {engine}
  /\ UNCHANGED <<waiting, held, settled>>

Next ==
  \/ \E i \in Job : Submit(i) \/ Begin(i) \/ GiveBack(i) \/ Settle(i) \/ Resurface(i)
  \/ Switch
  \/ Drift

Spec == Init /\ [][Next]_vars
=============================================================================
