--------------------------- MODULE ServeContract ---------------------------
(***************************************************************************)
(* What one invocation of scripts/serve.sh means to its callers: an exit   *)
(* status, and the box it leaves behind.  The box is what a caller cannot  *)
(* see at one glance: `after`, the unit registry.live_engine reports as    *)
(* active; `port`, the engine that answers on :18300, which is all a probe *)
(* can reach; `behind`, the engines live_engine will report later on with  *)
(* nobody asking, because their unit is active too or because systemd will *)
(* start it again.                                                         *)
(*                                                                         *)
(* dispatcher.py cannot see inside the script, so the dispatcher's model   *)
(* is written against this contract.  ServeFaithful separates the two      *)
(* readings of exit status 0 that the source itself discusses              *)
(* (dispatcher.py:240-248): "the engine that was asked for is serving",    *)
(* and "the target unit was spawned and something answered /v1/models".    *)
(* ServeSwitch models the script itself and says when the first reading is *)
(* the right one.                                                          *)
(***************************************************************************)
CONSTANTS
  Engine,         \* the engines serve.sh can put on :18300, by switch token
  Baseline,       \* the switch token of console_core.BASELINE
  None,           \* live_engine's "none": no engine unit is active
  Returning,      \* the engines that may come to serve with nobody asking
  Apart,          \* TRUE: another engine than the active unit may have the port
  ServeFaithful   \* TRUE: exit status 0 implies the target is serving

ASSUME BaselineAssumption == Baseline \in Engine
ASSUME NoneAssumption == None \notin Engine
ASSUME ReturningAssumption == Returning \subseteq Engine
ASSUME ApartAssumption == Apart \in BOOLEAN
ASSUME FaithfulAssumption == ServeFaithful \in BOOLEAN

Serving == Engine \cup {None}

Boxes == {b \in [after : Serving, port : Serving, behind : SUBSET Returning] :
            b.after \notin b.behind /\ (Apart \/ b.port = b.after)}

\* The target is up, it answers, and nothing else is or will be.
Switched(target) == [after |-> target, port |-> target, behind |-> {}]

\* Exit status 0.  The script switched; or it found the target reported as
\* serving and touched nothing.  When it is not faithful, any unit may be
\* active, the target having died after the last probe, and what answers is
\* what answered before, or the target, or an engine that came back, or nothing.
ServeSucceeds(target, before) ==
  IF ServeFaithful
    THEN {Switched(target)} \cup {b \in {before} : b.after = target}
    ELSE {b \in Boxes :
            Apart => b.port \in {target, before.port, None} \cup before.behind}

\* A non-zero exit status (4 or 5, or 124 when the dispatcher's run() gave up
\* after 2700 s), or none at all, the script having been killed: the previous
\* engine was restarted, or the target is still loading and counts as active,
\* or both and an earlier failed target besides, or nothing is active.
ServeFails == Boxes

\* What a caller of `serve.sh target` gets, who called it on the box `before`.
ServeOutcomes(target, before) ==
  [rc : {"zero"}, box : ServeSucceeds(target, before)]
    \cup [rc : {"nonzero"}, box : ServeFails]
=============================================================================
