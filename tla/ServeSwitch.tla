---------------------------- MODULE ServeSwitch ----------------------------
(***************************************************************************)
(* scripts/serve.sh, the script behind every engine switch: one invocation *)
(* after another against the units and containers that can hold :18300,    *)
(* which load, die, restart and release the port in their own time.        *)
(*                                                                         *)
(* An engine is named by its switch token.  "active" is what systemctl     *)
(* is-active and docker inspect report, which is all current() and         *)
(* registry.live_engine look at; "holder" is the listener on :18300, which *)
(* is all health() can see.                                                *)
(***************************************************************************)
EXTENDS Naturals, Sequences, FiniteSets

CONSTANTS
  MaxCalls,       \* bound: invocations
  MaxDeaths       \* bound: engines that die of their own accord

None == "none"
Baseline == "glm53"
Engine == {"cruz", "vllm-cruz", "exl3", "tensorfold", "vllm", "glm53"}

ASSUME SwitchBounds == MaxCalls \in Nat /\ MaxDeaths \in Nat

\* Units with a Restart= of their own.
Restarting == {"cruz", "exl3", "tensorfold"}

\* Conflicts= in the two exllamav3 units: starting one stops the other.
Conflicts(e) == CASE e = "cruz" -> {"exl3"} [] e = "exl3" -> {"cruz"} [] OTHER -> {}

VARIABLES
  active,     \* units that are active, containers that are running
  looping,    \* units that died and that systemd will start again in 30 s
  holder,     \* the engine whose process listens on :18300
  pc,         \* where the script is
  target,     \* $1
  RESTORE,    \* what current() printed when the arm was entered
  left,       \* the stop helpers the arm has yet to call
  out,        \* how the last invocation ended
  clean,      \* ghost: every stop of this call worked, every poll was answered
  spent       \* how much of each bound has been used

box == <<active, looping, holder>>
vars == <<active, looping, holder, pc, target, RESTORE, left, out, clean, spent>>

-----------------------------------------------------------------------------
(* Which engine "is serving", in the script and in the registry.           *)

FirstOf(order, A) ==
  IF \E i \in DOMAIN order : order[i] \in A
    THEN order[CHOOSE i \in DOMAIN order :
                 order[i] \in A /\ \A j \in 1..(i - 1) : order[j] \notin A]
    ELSE None

\* Variant: the containers are asked first.
CurrentContainersFirst(A) ==
  FirstOf(<<"vllm", "glm53", "tensorfold", "vllm-cruz", "cruz", "exl3">>, A)

current(A) == FirstOf(<<"tensorfold", "vllm-cruz", "cruz", "exl3", "vllm", "glm53">>, A)

\* The units in catalogue order, and only then the containers.
live_engine(A) ==
  FirstOf(<<"cruz", "vllm-cruz", "exl3", "tensorfold", "vllm", "glm53">>, A)

\* What each stop helper stops, and the helpers that poll the port afterwards.
Stops == [stop_vllm |-> {"vllm"}, stop_exl3 |-> {"cruz", "exl3"},
          stop_tensorfold |-> {"tensorfold"}, stop_vllm_cruz |-> {"vllm-cruz"},
          stop_glm |-> {"glm53"}]
PollsPort == {"stop_vllm_cruz", "stop_glm"}

\* Variant: the arms of 2026-09-30, when nothing stopped vllm-exl3-cruz.
ArmForgets(e) ==
  SelectSeq(<<"stop_vllm", "stop_exl3", "stop_tensorfold", "stop_glm">>,
            LAMBDA h : Stops[h] # {e})

\* The helpers an arm calls, in order.
Arm(e) ==
  CASE e = "vllm-cruz" -> <<"stop_vllm", "stop_exl3", "stop_tensorfold", "stop_glm">>
    [] e = "vllm" -> <<"stop_exl3", "stop_tensorfold", "stop_vllm_cruz", "stop_glm">>
    [] e = "glm53" -> <<"stop_vllm", "stop_exl3", "stop_tensorfold", "stop_vllm_cruz">>
    [] OTHER -> <<"stop_vllm", "stop_exl3", "stop_tensorfold", "stop_vllm_cruz",
                  "stop_glm">>

\* systemctl start or docker start: nothing happens to an engine that is up.
StartEngine(e) ==
  /\ active' = (active \ Conflicts(e)) \cup {e}
  /\ looping' = looping \ (Conflicts(e) \cup {e})

-----------------------------------------------------------------------------
(* The engines.                                                            *)

\* The weights are loaded and the server listens.
Binds(e) ==
  /\ e \in active /\ holder = None
  /\ holder' = e
  /\ UNCHANGED <<active, looping, pc, target, RESTORE, left, out, clean, spent>>

\* Variant: everything that dies is started again.
FallAndLoop(e) ==
  /\ active' = active \ {e}
  /\ looping' = looping \cup {e}

\* A unit with Restart= waits for its next start; everything else stays down.
Fall(e) ==
  /\ active' = active \ {e}
  /\ looping' = looping \cup ({e} \cap Restarting)

\* "port 18300 is already in use".
PortInUse(e) ==
  /\ e \in active /\ holder \notin {None, e}
  /\ Fall(e)
  /\ UNCHANGED <<holder, pc, target, RESTORE, left, out, clean, spent>>

Dies(e) ==
  /\ e \in active /\ spent.death < MaxDeaths
  /\ Fall(e)
  /\ holder' = IF holder = e THEN None ELSE holder
  /\ spent' = [spent EXCEPT !.death = @ + 1]
  /\ UNCHANGED <<pc, target, RESTORE, left, out, clean>>

\* Restart=always, on-failure.
UnitRestarts(e) ==
  /\ e \in looping
  /\ StartEngine(e)
  /\ UNCHANGED <<holder, pc, target, RESTORE, left, out, clean, spent>>

\* A stopped engine lets go of the port: "releasing ~85 GB of weights takes as
\* long as it takes".
PortFreed ==
  /\ holder # None /\ holder \notin active
  /\ holder' = None
  /\ UNCHANGED <<active, looping, pc, target, RESTORE, left, out, clean, spent>>

-----------------------------------------------------------------------------
(* The script.                                                             *)

Exit(how, rc) ==
  /\ pc' = "idle"
  /\ out' = [how |-> how, rc |-> rc]

Call(e) ==
  /\ pc = "idle" /\ spent.call < MaxCalls
  /\ spent' = [spent EXCEPT !.call = @ + 1]
  /\ target' = e
  /\ RESTORE' = current(active)
  /\ \/ current(active) = e /\ Exit("already", "zero") /\ left' = <<>>
     \/ current(active) # e /\ pc' = "stop" /\ left' = Arm(e) /\ UNCHANGED out
  /\ clean' = TRUE
  /\ UNCHANGED box

\* One stop helper.  Every stop is "|| true": one that fails goes unnoticed.
Stop ==
  /\ pc = "stop" /\ left # <<>>
  /\ \/ /\ active' = active \ Stops[Head(left)]
        /\ looping' = looping \ Stops[Head(left)]
        /\ UNCHANGED clean
     \/ clean' = FALSE /\ UNCHANGED <<active, looping>>
  /\ left' = Tail(left)
  /\ pc' = IF Head(left) \in PollsPort THEN "poll" ELSE "stop"
  /\ UNCHANGED <<holder, target, RESTORE, out, spent>>

\* The poll ends when the port is free, or when 30 looks have found it held: by
\* an engine that is up, or by one that takes longer than that to let go.
PollEnds ==
  /\ pc = "poll"
  /\ clean' = (clean /\ holder \in active \cup {None})
  /\ pc' = "stop"
  /\ UNCHANGED <<box, target, RESTORE, left, out, spent>>

StartTarget ==
  /\ pc = "stop" /\ left = <<>>
  /\ \/ StartEngine(target) /\ pc' = "health" /\ UNCHANGED out
     \/ pc' = "restore" /\ out' = [how |-> "start", rc |-> "nonzero"]
        /\ UNCHANGED <<active, looping>>
  /\ UNCHANGED <<holder, target, RESTORE, left, clean, spent>>

\* curl /v1/models: any listener will do.
Healthy ==
  /\ pc = "health"
  /\ holder # None
  /\ Exit("switched", "zero")
  /\ UNCHANGED <<box, target, RESTORE, left, clean, spent>>

\* Variant: the health gate has no budget.
NeverGivesUp ==
  /\ pc = "health"
  /\ holder = None /\ target = "tensorfold" /\ target \notin active
  /\ pc' = "restore"
  /\ out' = [how |-> "health", rc |-> "nonzero"]
  /\ UNCHANGED <<box, target, RESTORE, left, clean, spent>>

\* The budget passes, or the unit is found dead, without one good answer.
GivesUp ==
  /\ pc = "health"
  /\ pc' = "restore"
  /\ out' = [how |-> "health", rc |-> "nonzero"]
  /\ UNCHANGED <<box, target, RESTORE, left, clean, spent>>

\* restore_on_failure starts what was serving; it stops nothing.
Restore ==
  /\ pc = "restore"
  /\ \/ RESTORE # None /\ StartEngine(RESTORE)
     \/ UNCHANGED <<active, looping>>
  /\ pc' = "rehealth"
  /\ UNCHANGED <<holder, target, RESTORE, left, out, clean, spent>>

\* Whether or not the previous engine answers in time, the exit status is 4 or 5.
RestoreEnds ==
  /\ pc = "rehealth"
  /\ pc' = "idle"
  /\ UNCHANGED <<box, target, RESTORE, left, out, clean, spent>>

\* The caller's 2700 s are over, or the caller is killed.
Killed ==
  /\ pc # "idle"
  /\ Exit("killed", "nonzero")
  /\ UNCHANGED <<box, target, RESTORE, left, clean, spent>>

-----------------------------------------------------------------------------

\* One engine has been serving since before the first call, or none.
Init ==
  /\ \E e \in Engine \cup {None} : active = {e} \ {None} /\ holder = e
  /\ looping = {}
  /\ pc = "idle" /\ target = None /\ RESTORE = None /\ left = <<>>
  /\ out = [how |-> "none", rc |-> "zero"]
  /\ clean = TRUE
  /\ spent = [call |-> 0, death |-> 0]

Script == Stop \/ PollEnds \/ StartTarget \/ Healthy \/ GivesUp \/ Restore \/ RestoreEnds

World ==
  \/ \E e \in Engine : Binds(e) \/ PortInUse(e) \/ Dies(e) \/ UnitRestarts(e)
  \/ PortFreed

Next ==
  \/ \E e \in Engine : Call(e)
  \/ Script
  \/ Killed
  \/ World

Spec == Init /\ [][Next]_vars

\* The script runs, and a stopped engine's process does end.
FairSpec == Spec /\ WF_vars(Script) /\ WF_vars(PortFreed)

-----------------------------------------------------------------------------
(* Properties.                                                             *)

\* Every variable stays within what the script and the box can hold.
TypeOK ==
  /\ active \subseteq Engine /\ looping \subseteq Restarting
  /\ holder \in Engine \cup {None}
  /\ pc \in {"idle", "stop", "poll", "health", "restore", "rehealth"}
  /\ target \in Engine \cup {None} /\ RESTORE \in Engine \cup {None}
  /\ \E e \in Engine : \E i \in 1..6 : left = SubSeq(Arm(e), i, Len(Arm(e)))
  /\ out \in [how : {"none", "already", "switched", "start", "health", "killed"},
              rc : {"zero", "nonzero"}]
  /\ clean \in BOOLEAN
  /\ spent \in [call : 0..MaxCalls, death : 0..MaxDeaths]

\* tests/test_serve_sh_switching.py and serve.sh:12-14, "the engines cannot
\* coexist": from the moment an arm comes to start its engine until a missed
\* health gate makes restore_on_failure start the one before beside it, no other
\* engine is active or about to be, and nobody else holds the port, whatever
\* the calls before it, failed or killed, have left behind, as long as its own
\* stops worked.
ArmClears ==
  clean /\ (pc \in {"health", "restore"} \/ (pc = "stop" /\ left = <<>>)) =>
    active \cup looping \subseteq {target} /\ holder \in {None, target}

Contract(faithful) ==
  INSTANCE ServeContract WITH ServeFaithful <- faithful, Returning <- Engine, Apart <- TRUE

\* The box as the contract sees it.
Box == [after |-> live_engine(active), port |-> holder,
        behind |-> (active \cup looping) \ {live_engine(active)}]

\* The box when an arm has stopped all it found.
Cleared == [after |-> None, port |-> None, behind |-> {}]

\* The contract dispatcher.py is modelled against: exit status 0 of a switch
\* whose stops worked means that the target is active and answers, and that
\* nothing else is or will be; exit status 0 without a switch, for the baseline
\* on which the receipt rests, that live_engine reported it already.
KeepsContract ==
  [][/\ pc' = "idle" /\ (pc # "idle" \/ spent'.call > spent.call)
     /\ clean'
     /\ out'.how = "already" => target' = Baseline
     => LET before == IF out'.how = "already" THEN Box ELSE Cleared
        IN  [rc |-> out'.rc, box |-> Box] \in Contract(TRUE)!ServeOutcomes(target', before)]_vars

\* Every wait of the script has a budget.
EveryCallEnds == pc # "idle" ~> pc = "idle"
=============================================================================
