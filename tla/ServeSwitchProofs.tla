------------------------- MODULE ServeSwitchProofs -------------------------
(***************************************************************************)
(* Theorems about scripts/serve.sh, for any number of invocations and of   *)
(* engines that die: each arm clears the box, and exit status 0 of a clean *)
(* switch means what the dispatcher takes it to mean.                      *)
(***************************************************************************)
EXTENDS ServeSwitch, SequenceTheorems, WellFoundedInduction, TLAPS

\* Engines that only a helper still to be called, from the k-th on, can stop.
Covered(k) ==
  {x \in Engine : \E j \in k..Len(Arm(target)) : x \in Stops[Arm(target)[j]]}

\* While the arm runs, what may be up is the target and what the helpers still
\* to be called will stop.
ArmInv ==
  pc \in {"stop", "poll"} =>
    /\ target \in Engine
    /\ \E k \in 1..(Len(Arm(target)) + 1) :
         /\ left = SubSeq(Arm(target), k, Len(Arm(target)))
         /\ clean => active \cup looping \subseteq {target} \cup Covered(k)

\* From the last poll to the end of the health gate the box is the target's.
ClearInv ==
  clean /\ (pc \in {"health", "restore"} \/ (pc = "stop" /\ left = <<>>)) =>
    active \cup looping \subseteq {target} /\ holder \in active \cup {None}

\* The way back from a failure is never taken with exit status 0.
FailInv == pc \in {"restore", "rehealth"} => out.rc = "nonzero"

SwitchInv == TypeOK /\ ArmInv /\ ClearInv /\ FailInv

-----------------------------------------------------------------------------
(* Which engine is named.                                                  *)

\* The first name of the order that is in the set, if there is one.
LEMMA FirstOfIs ==
  ASSUME NEW order \in Seq(Engine), NEW A
  PROVE  \/ /\ FirstOf(order, A) = None
            /\ \A i \in 1..Len(order) : order[i] \notin A
         \/ \E i \in 1..Len(order) :
              /\ FirstOf(order, A) = order[i] /\ order[i] \in A
              /\ \A j \in 1..(i - 1) : order[j] \notin A
<1>0. DOMAIN order = 1..Len(order) /\ Len(order) \in Nat
  OBVIOUS
<1> DEFINE T == {i \in 1..Len(order) : order[i] \in A}
<1>1. CASE T = {}
  BY <1>0, <1>1 DEF FirstOf
<1>2. CASE T # {}
  <2>1. T \subseteq Nat
    BY <1>0
  <2>2. PICK i \in T : \A j \in T : ~(<<j, i>> \in OpToRel(<, Nat))
    BY <1>2, <2>1, NatLessThanWellFounded, WFMin
  <2>3. \A j \in T : ~(j < i)
    BY <2>1, <2>2 DEF OpToRel
  <2>4. \A j \in 1..(i - 1) : order[j] \notin A
    BY <1>0, <2>3
  <2> DEFINE P(k) == order[k] \in A /\ \A j \in 1..(k - 1) : order[j] \notin A
             c == CHOOSE k \in DOMAIN order : P(k)
  <2>5. c \in DOMAIN order /\ P(c)
    BY <1>0, <2>4
  <2>6. FirstOf(order, A) = order[c]
    BY <1>0 DEF FirstOf
  <2> QED
    BY <1>0, <2>5, <2>6
<1> QED
  BY <1>1, <1>2

\* The script's order and the registry's name an engine, or none.
LEMMA NamesType ==
  ASSUME NEW A
  PROVE  current(A) \in Engine \cup {None} /\ live_engine(A) \in Engine \cup {None}
<1>1. /\ <<"tensorfold", "vllm-cruz", "cruz", "exl3", "vllm", "glm53">> \in Seq(Engine)
      /\ <<"cruz", "vllm-cruz", "exl3", "tensorfold", "vllm", "glm53">> \in Seq(Engine)
  BY DEF Engine
<1>2. \A order \in Seq(Engine) : FirstOf(order, A) \in Engine \cup {None}
  BY FirstOfIs
<1> QED
  BY <1>1, <1>2 DEF current, live_engine

\* When one engine alone is active, it is the one that is named.
LEMMA NamesAlone ==
  ASSUME NEW e \in Engine
  PROVE  live_engine({e}) = e
<1> DEFINE order == <<"cruz", "vllm-cruz", "exl3", "tensorfold", "vllm", "glm53">>
<1>1. order \in Seq(Engine) /\ Len(order) = 6 /\ \E i \in 1..6 : order[i] = e
  BY DEF Engine
<1> HIDE DEF order
<1>2. FirstOf(order, {e}) = e
  BY <1>1, FirstOfIs
<1> QED
  BY <1>2 DEF live_engine, order

\* The baseline is the last of the script's order: named, it is alone.
LEMMA NamesBaseline ==
  ASSUME NEW A \in SUBSET Engine, current(A) = Baseline
  PROVE  A = {Baseline}
<1> DEFINE order == <<"tensorfold", "vllm-cruz", "cruz", "exl3", "vllm", "glm53">>
<1>1. /\ order \in Seq(Engine) /\ Len(order) = 6
      /\ \A i \in 1..6 : order[i] = Baseline => i = 6
      /\ \A e \in Engine \ {Baseline} : \E i \in 1..5 : order[i] = e
      /\ Baseline # None
  BY DEF Engine, Baseline, None
<1>2. FirstOf(order, A) = Baseline
  BY DEF current
<1> HIDE DEF order
<1>3. Baseline \in A /\ \A j \in 1..5 : order[j] \notin A
  <2>1. PICK i \in 1..6 : /\ FirstOf(order, A) = order[i] /\ order[i] \in A
                          /\ \A j \in 1..(i - 1) : order[j] \notin A
    BY <1>1, <1>2, FirstOfIs
  <2>2. i = 6
    BY <1>1, <1>2, <2>1
  <2> QED
    BY <1>2, <2>1, <2>2
<1> QED
  BY <1>1, <1>3

-----------------------------------------------------------------------------
(* The arms.                                                               *)

\* A sequence that is not empty is told so by its length.
LEMMA LongNotEmpty == ASSUME NEW s, Len(s) # 0 PROVE s # << >>
<1>1. Len(<< >>) = 0
  OBVIOUS
<1> QED
  BY <1>1, Zenon

\* Every arm names a helper for each of the other engines, and ends in one
\* that polls the port.
LEMMA ArmFacts ==
  ASSUME NEW e \in Engine
  PROVE  /\ Arm(e) \in Seq(DOMAIN Stops) /\ Len(Arm(e)) \in 4..5
         /\ Arm(e)[Len(Arm(e))] \in PollsPort
         /\ \A x \in Engine \ {e} : \E j \in 1..Len(Arm(e)) : x \in Stops[Arm(e)[j]]
<1>1. CASE e = "vllm-cruz"
  BY <1>1 DEF Arm, Stops, PollsPort, Engine
<1>2. CASE e = "vllm"
  BY <1>2 DEF Arm, Stops, PollsPort, Engine
<1>3. CASE e = "glm53"
  BY <1>3 DEF Arm, Stops, PollsPort, Engine
<1>4. CASE e \notin {"vllm-cruz", "vllm", "glm53"}
  <2>1. Arm(e) = <<"stop_vllm", "stop_exl3", "stop_tensorfold", "stop_vllm_cruz",
                   "stop_glm">>
    BY <1>4 DEF Arm
  <2>2. /\ Arm(e) \in Seq(DOMAIN Stops) /\ Len(Arm(e)) = 5
        /\ Arm(e)[5] \in PollsPort
    BY <2>1 DEF Stops, PollsPort
  <2>3. ASSUME NEW x \in Engine
        PROVE  \E j \in 1..5 : x \in Stops[Arm(e)[j]]
    BY <2>1 DEF Stops, Engine
  <2> QED
    BY <2>2, <2>3
<1> QED
  BY <1>1, <1>2, <1>3, <1>4

\* An engine's own unit does not stop it.
LEMMA ConflictsFacts ==
  \A e \in Engine : Conflicts(e) \subseteq Engine /\ e \notin Conflicts(e)
BY DEF Conflicts, Engine

-----------------------------------------------------------------------------
(* The engines' own steps.                                                 *)

\* What may be up stays within what it was, but for an engine that the step
\* itself starts.
LEMMA BoxMoves ==
  ASSUME SwitchInv, World
  PROVE  /\ active' \subseteq Engine /\ looping' \subseteq Restarting
         /\ active' \cup looping' \subseteq active \cup looping
         /\ holder' \in Engine \cup {None}
         /\ UNCHANGED <<pc, target, RESTORE, left, out, clean>>
         /\ spent'.call = spent.call /\ spent' \in [call : 0..MaxCalls, death : 0..MaxDeaths]
<1>0. /\ active \subseteq Engine /\ looping \subseteq Restarting
      /\ holder \in Engine \cup {None} /\ Restarting \subseteq Engine
      /\ spent \in [call : 0..MaxCalls, death : 0..MaxDeaths]
      /\ MaxDeaths \in Nat
  BY SwitchBounds DEF SwitchInv, TypeOK, Restarting, Engine
<1>1. ASSUME NEW e \in Engine, Binds(e)
      PROVE  UNCHANGED <<active, looping, pc, target, RESTORE, left, out, clean, spent>>
             /\ holder' \in Engine \cup {None}
  BY <1>1 DEF Binds
<1>2. ASSUME NEW e \in Engine, PortInUse(e) \/ Dies(e)
      PROVE  /\ e \in active /\ Fall(e) /\ holder' \in Engine \cup {None}
             /\ UNCHANGED <<pc, target, RESTORE, left, out, clean>>
             /\ spent'.call = spent.call
             /\ spent' \in [call : 0..MaxCalls, death : 0..MaxDeaths]
  BY <1>0, <1>2 DEF PortInUse, Dies
<1>3. ASSUME NEW e \in Engine, UnitRestarts(e)
      PROVE  /\ e \in looping /\ StartEngine(e)
             /\ UNCHANGED <<holder, pc, target, RESTORE, left, out, clean, spent>>
  BY <1>3 DEF UnitRestarts
<1>4. ASSUME PortFreed
      PROVE  UNCHANGED <<active, looping, pc, target, RESTORE, left, out, clean, spent>>
             /\ holder' \in Engine \cup {None}
  BY <1>4 DEF PortFreed
<1>5. \A e : Fall(e) /\ e \in active =>
        /\ active' \subseteq active /\ looping' \subseteq Restarting
        /\ active' \cup looping' \subseteq active \cup looping
  BY <1>0 DEF Fall
<1>6. \A e : StartEngine(e) /\ e \in looping =>
        /\ active' \subseteq Engine /\ looping' \subseteq looping
        /\ active' \cup looping' \subseteq active \cup looping
  BY <1>0 DEF StartEngine
<1> QED
  BY <1>0, <1>1, <1>2, <1>3, <1>4, <1>5, <1>6 DEF World

\* A box that is the target's stays so: the target may bind, die and restart.
LEMMA BoxStaysClear ==
  ASSUME SwitchInv, World,
         active \cup looping \subseteq {target}, holder \in active \cup {None}
  PROVE  active' \cup looping' \subseteq {target} /\ holder' \in active' \cup {None}
<1>1. active' \cup looping' \subseteq {target}
  BY BoxMoves
<1>2. ASSUME NEW e \in Engine, Binds(e) \/ UnitRestarts(e) PROVE holder' \in active' \cup {None}
  <2>1. CASE Binds(e)
    BY <2>1 DEF Binds
  <2>2. CASE UnitRestarts(e)
    <3>1. e = target /\ holder' = holder
      BY <2>2 DEF UnitRestarts
    <3> QED
      BY <2>2, <3>1 DEF UnitRestarts, StartEngine
  <2> QED
    BY <1>2, <2>1, <2>2
<1>3. ASSUME NEW e \in Engine, PortInUse(e) \/ Dies(e) PROVE holder' \in active' \cup {None}
  BY <1>3 DEF PortInUse, Dies, Fall
<1>4. ASSUME PortFreed PROVE holder' \in active' \cup {None}
  BY <1>4 DEF PortFreed
<1> QED
  BY <1>1, <1>2, <1>3, <1>4 DEF World

LEMMA WorldStep == ASSUME SwitchInv, World PROVE SwitchInv'
<1>1. /\ active' \subseteq Engine /\ looping' \subseteq Restarting
      /\ active' \cup looping' \subseteq active \cup looping
      /\ holder' \in Engine \cup {None}
      /\ UNCHANGED <<pc, target, RESTORE, left, out, clean>>
      /\ spent' \in [call : 0..MaxCalls, death : 0..MaxDeaths]
  BY BoxMoves
<1>2. TypeOK'
  BY <1>1 DEF SwitchInv, TypeOK
<1>3. ArmInv'
  BY <1>1 DEF SwitchInv, ArmInv, Covered
<1>4. ClearInv'
  BY <1>1, BoxStaysClear DEF SwitchInv, ClearInv
<1>5. FailInv'
  BY <1>1 DEF SwitchInv, FailInv
<1> QED
  BY <1>2, <1>3, <1>4, <1>5 DEF SwitchInv

-----------------------------------------------------------------------------
(* The script's steps.                                                     *)

\* A call that is not answered at once starts at the head of its arm.
LEMMA CallStep == ASSUME SwitchInv, NEW e \in Engine, Call(e) PROVE SwitchInv'
<1>0. /\ Arm(e) \in Seq(DOMAIN Stops) /\ Len(Arm(e)) \in 4..5
      /\ \A x \in Engine \ {e} : \E j \in 1..Len(Arm(e)) : x \in Stops[Arm(e)[j]]
  BY ArmFacts
<1>1. /\ UNCHANGED <<active, looping, holder>> /\ target' = e
      /\ RESTORE' \in Engine \cup {None}
      /\ clean' = TRUE
      /\ spent' \in [call : 0..MaxCalls, death : 0..MaxDeaths]
      /\ \/ pc' = "idle" /\ out' = [how |-> "already", rc |-> "zero"] /\ left' = << >>
         \/ pc' = "stop" /\ left' = Arm(e) /\ out' = out
  BY NamesType, SwitchBounds DEF Call, Exit, box, SwitchInv, TypeOK
<1> DEFINE n == Len(Arm(e))
<1>6. n \in 4..5
  BY <1>0
<1> HIDE DEF n
<1>7. n \in Int /\ n < 6 /\ n # 0
  BY <1>6
<1>2. /\ SubSeq(Arm(e), 1, Len(Arm(e))) = Arm(e)
      /\ SubSeq(Arm(e), 6, Len(Arm(e))) = << >>
      /\ Arm(e) # << >>
  <2>1. SubSeq(Arm(e), 1, Len(Arm(e))) = Arm(e)
    BY <1>0, SubSeqFull
  <2>2. SubSeq(Arm(e), 6, Len(Arm(e))) = << >>
    <3>1. 6 \in Int
      OBVIOUS
    <3> QED
      BY <1>7, <3>1, SubSeqEmpty, Zenon DEF n
  <2>3. Arm(e) # << >>
    BY <1>7, LongNotEmpty, Zenon DEF n
  <2> QED
    BY <2>1, <2>2, <2>3
<1>3. \E i \in 1..6 : left' = SubSeq(Arm(e), i, Len(Arm(e)))
  <2>1. 1 \in 1..6 /\ 6 \in 1..6
    OBVIOUS
  <2> QED
    BY <1>1, <1>2, <2>1
<1>4. TypeOK'
  <2>1. active' \subseteq Engine /\ looping' \subseteq Restarting /\ holder' \in Engine \cup {None}
    BY <1>1 DEF SwitchInv, TypeOK
  <2>2. /\ pc' \in {"idle", "stop"} /\ clean' \in BOOLEAN /\ target' \in Engine
        /\ out' \in [how : {"none", "already", "switched", "start", "health", "killed"},
                     rc : {"zero", "nonzero"}]
    BY <1>1 DEF SwitchInv, TypeOK
  <2> QED
    BY <1>1, <1>3, <2>1, <2>2 DEF TypeOK
<1>5. ArmInv'
  <2>1. pc' = "stop" => active' \cup looping' \subseteq {e} \cup Covered(1)'
    BY <1>0, <1>1 DEF SwitchInv, TypeOK, Covered, Restarting, Engine
  <2>2. 1 \in 1..(Len(Arm(e)) + 1)
    BY <1>0
  <2> QED
    BY <1>1, <1>2, <2>1, <2>2 DEF ArmInv
<1> QED
  BY <1>1, <1>2, <1>4, <1>5 DEF SwitchInv, ClearInv, FailInv

\* A helper that worked leaves the rest of the arm to stop what is left; the
\* last one of an arm goes on to look at the port.
LEMMA StopStep == ASSUME SwitchInv, Stop PROVE SwitchInv'
<1>0. pc = "stop" /\ left # << >> /\ target \in Engine
  BY DEF Stop, SwitchInv, ArmInv
<1> DEFINE A == Arm(target)
           n == Len(A)
<1>1. /\ A \in Seq(DOMAIN Stops) /\ n \in 4..5 /\ A[n] \in PollsPort
  BY <1>0, ArmFacts
<1>2. PICK k \in 1..(n + 1) :
        /\ left = SubSeq(A, k, n)
        /\ clean => active \cup looping \subseteq {target} \cup Covered(k)
  BY <1>0 DEF SwitchInv, ArmInv
<1> HIDE DEF A, n
<1>3. k \in 1..n
  <2>1. k = n + 1 => SubSeq(A, k, n) = << >>
    BY <1>1, SubSeqEmpty
  <2> QED
    BY <1>0, <1>1, <1>2, <2>1
<1>4. Head(left) = A[k] /\ Tail(left) = SubSeq(A, k + 1, n)
  BY <1>1, <1>2, <1>3, HeadTailOfSubSeq DEF n
<1>5. /\ UNCHANGED <<holder, target, RESTORE, out, spent>>
      /\ left' = SubSeq(A, k + 1, n)
      /\ pc' = IF A[k] \in PollsPort THEN "poll" ELSE "stop"
      /\ \/ /\ active' = active \ Stops[A[k]] /\ looping' = looping \ Stops[A[k]]
            /\ clean' = clean
         \/ clean' = FALSE /\ active' = active /\ looping' = looping
  BY <1>4 DEF Stop
<1>6. k + 1 \in 1..6 /\ k + 1 \in 1..(n + 1)
  BY <1>1, <1>3
<1>7. TypeOK'
  <2>1. \E i \in 1..6 : left' = SubSeq(Arm(target), i, Len(Arm(target)))
    BY <1>5, <1>6 DEF A, n
  <2> QED
    BY <1>0, <1>5, <2>1 DEF SwitchInv, TypeOK
<1>8. clean' => active' \cup looping' \subseteq {target} \cup Covered(k + 1)
  <2> SUFFICES ASSUME clean', NEW x \in active' \cup looping', x # target
               PROVE  x \in Covered(k + 1)
    OBVIOUS
  <2>1. x \in Covered(k) /\ x \notin Stops[A[k]]
    BY <1>2, <1>5
  <2>2. PICK j \in k..n : x \in Stops[A[j]]
    BY <2>1 DEF Covered, A, n
  <2>3. j \in (k + 1)..n
    BY <1>1, <1>3, <2>1, <2>2
  <2> QED
    BY <2>1, <2>2, <2>3 DEF Covered, A, n
<1>9. ArmInv'
  BY <1>0, <1>5, <1>6, <1>8 DEF ArmInv, Covered, A, n
<1>10. ClearInv'
  <2>1. SubSeq(A, k + 1, n) = << >> => k = n
    <3>1. k < n => Len(SubSeq(A, k + 1, n)) = n - k
      <4>1. \A i \in (k + 1)..n : A[i] \in DOMAIN Stops
        BY <1>1, <1>3 DEF n
      <4> QED
        BY <1>1, <1>3, <4>1, SubSeqProperties
    <3>2. k < n => n - k # 0
      BY <1>1, <1>3
    <3>3. k < n => SubSeq(A, k + 1, n) # << >>
      BY <3>1, <3>2, LongNotEmpty, Zenon
    <3> QED
      BY <1>1, <1>3, <3>3
  <2> QED
    BY <1>1, <1>5, <2>1 DEF ClearInv
<1> QED
  BY <1>5, <1>7, <1>9, <1>10 DEF SwitchInv, FailInv

\* With no helper left, only the target may be up.
LEMMA ArmDone ==
  ASSUME SwitchInv, pc \in {"stop", "poll"}, left = << >>, clean
  PROVE  active \cup looping \subseteq {target}
<1> DEFINE n == Len(Arm(target))
<1>1. target \in Engine
  BY DEF SwitchInv, ArmInv
<1>2. Arm(target) \in Seq(DOMAIN Stops) /\ n \in 4..5
  BY <1>1, ArmFacts
<1>3. PICK k \in 1..(n + 1) :
        /\ left = SubSeq(Arm(target), k, n)
        /\ active \cup looping \subseteq {target} \cup Covered(k)
  BY DEF SwitchInv, ArmInv
<1>4. k = n + 1
  <2>1. \A i \in k..n : Arm(target)[i] \in DOMAIN Stops
    BY <1>2
  <2>2. k <= n => Len(SubSeq(Arm(target), k, n)) = n - k + 1
    BY <1>2, <2>1, SubSeqProperties
  <2>3. k <= n => n - k + 1 # 0
    BY <1>2, <1>3
  <2>4. ~(k <= n)
    BY <1>3, <2>2, <2>3, LongNotEmpty, Zenon
  <2> QED
    BY <1>2, <2>4
<1>5. Covered(k) = {}
  BY <1>2, <1>4 DEF Covered
<1> QED
  BY <1>3, <1>5

\* After the last poll of an arm whose stops worked only the target may be up,
\* and the port is its own or free.
LEMMA PollStep == ASSUME SwitchInv, PollEnds PROVE SwitchInv'
<1>1. /\ pc = "poll" /\ pc' = "stop"
      /\ UNCHANGED <<active, looping, holder, target, RESTORE, left, out, spent>>
      /\ clean' = (clean /\ holder \in active \cup {None})
  BY DEF PollEnds, box
<1>2. TypeOK' /\ ArmInv' /\ FailInv'
  BY <1>1 DEF SwitchInv, TypeOK, ArmInv, FailInv, Covered
<1>3. ASSUME left = << >>, clean PROVE active \cup looping \subseteq {target}
  BY <1>1, <1>3, ArmDone
<1> QED
  BY <1>1, <1>2, <1>3 DEF SwitchInv, ClearInv

\* The target's unit is started, next to nothing else when the stops worked;
\* starting it stops nothing that it would need.
LEMMA StartStep == ASSUME SwitchInv, StartTarget PROVE SwitchInv'
<1>1. /\ pc = "stop" /\ left = << >> /\ target \in Engine
      /\ UNCHANGED <<holder, target, RESTORE, left, clean, spent>>
  BY DEF StartTarget, SwitchInv, ArmInv
<1>2. CASE StartEngine(target) /\ pc' = "health" /\ UNCHANGED out
  <2>1. /\ active' = (active \ Conflicts(target)) \cup {target}
        /\ looping' = looping \ (Conflicts(target) \cup {target})
        /\ target \notin Conflicts(target)
    BY <1>1, <1>2, ConflictsFacts DEF StartEngine
  <2>2. TypeOK'
    BY <1>1, <1>2, <2>1 DEF SwitchInv, TypeOK
  <2>3. ClearInv'
    BY <1>1, <2>1 DEF SwitchInv, ClearInv
  <2> QED
    BY <1>2, <2>2, <2>3 DEF SwitchInv, ArmInv, FailInv
<1>3. CASE /\ pc' = "restore" /\ out' = [how |-> "start", rc |-> "nonzero"]
           /\ UNCHANGED <<active, looping>>
  BY <1>1, <1>3 DEF SwitchInv, TypeOK, ArmInv, ClearInv, FailInv
<1> QED
  BY <1>2, <1>3 DEF StartTarget

\* What is left of an invocation after its target was started, and its end.
LEMMA RestStep ==
  ASSUME SwitchInv, Healthy \/ GivesUp \/ Restore \/ RestoreEnds \/ Killed
  PROVE  SwitchInv'
<1>0. UNCHANGED <<holder, target, RESTORE, left, clean, spent>>
  BY DEF Healthy, GivesUp, Restore, RestoreEnds, Killed, box
<1>1. CASE Restore
  <2>1. /\ pc' = "rehealth" /\ pc = "restore" /\ out' = out
        /\ active' \subseteq Engine /\ looping' \subseteq Restarting
    BY <1>1 DEF Restore, StartEngine, SwitchInv, TypeOK
  <2> QED
    BY <1>0, <2>1 DEF SwitchInv, TypeOK, ArmInv, ClearInv, FailInv
<1>2. CASE Healthy \/ GivesUp \/ RestoreEnds \/ Killed
  <2>1. /\ UNCHANGED <<active, looping>> /\ pc' \in {"idle", "restore"}
        /\ pc' = "restore" => pc = "health" /\ out'.rc = "nonzero"
        /\ out' \in [how : {"none", "already", "switched", "start", "health", "killed"},
                     rc : {"zero", "nonzero"}]
    BY <1>2 DEF Healthy, GivesUp, RestoreEnds, Killed, Exit, box, SwitchInv, TypeOK
  <2> QED
    BY <1>0, <2>1 DEF SwitchInv, TypeOK, ArmInv, ClearInv, FailInv
<1> QED
  BY <1>1, <1>2

LEMMA SwitchStep == SwitchInv /\ [Next]_vars => SwitchInv'
<1> SUFFICES ASSUME SwitchInv, [Next]_vars PROVE SwitchInv'
  OBVIOUS
<1>1. CASE UNCHANGED vars
  <2>1. UNCHANGED <<active, looping, holder, pc, target, RESTORE, left, out, clean, spent>>
    BY <1>1 DEF vars, box
  <2>2. TypeOK'
    BY <2>1 DEF SwitchInv, TypeOK
  <2>3. ArmInv'
    BY <2>1 DEF SwitchInv, ArmInv, Covered
  <2>4. ClearInv' /\ FailInv'
    BY <2>1 DEF SwitchInv, ClearInv, FailInv
  <2> QED
    BY <2>2, <2>3, <2>4 DEF SwitchInv
<1> QED
  BY <1>1, CallStep, StopStep, PollStep, StartStep, RestStep, WorldStep DEF Next, Script

LEMMA SwitchInvariant == Spec => []SwitchInv
<1>1. ASSUME Init PROVE SwitchInv
  <2>1. /\ active \subseteq Engine /\ holder \in Engine \cup {None}
        /\ looping = {} /\ pc = "idle" /\ target = None /\ RESTORE = None
        /\ left = << >> /\ out = [how |-> "none", rc |-> "zero"] /\ clean = TRUE
        /\ spent = [call |-> 0, death |-> 0]
    BY <1>1 DEF Init
  <2>2. \E e \in Engine : \E i \in 1..6 : left = SubSeq(Arm(e), i, Len(Arm(e)))
    <3> DEFINE n == Len(Arm(Baseline))
    <3>1. n \in 4..5
      BY ArmFacts DEF Baseline, Engine
    <3> HIDE DEF n
    <3>2. n \in Int /\ n < 6 /\ 6 \in Int /\ 6 \in 1..6
      BY <3>1
    <3>3. SubSeq(Arm(Baseline), 6, n) = << >>
      BY <3>2, SubSeqEmpty, Zenon
    <3>4. Baseline \in Engine
      BY DEF Baseline, Engine
    <3> QED
      BY <2>1, <3>2, <3>3, <3>4, Zenon DEF n
  <2>3. TypeOK
    <3>1. spent \in [call : 0..MaxCalls, death : 0..MaxDeaths]
      BY <2>1, SwitchBounds
    <3> QED
      BY <2>1, <2>2, <3>1 DEF TypeOK
  <2> QED
    BY <2>1, <2>3 DEF SwitchInv, ArmInv, ClearInv, FailInv
<1> QED
  BY <1>1, SwitchStep, PTL DEF Spec

-----------------------------------------------------------------------------
(* The theorems.                                                           *)

\* scripts/serve.sh: what the script, the units and the port hold keeps its type
\* over any number of invocations; the helpers left are always the rest of an arm.
THEOREM SwitchTypeCorrect == Spec => []TypeOK
<1>1. SwitchInv => TypeOK
  BY DEF SwitchInv
<1> QED
  BY <1>1, SwitchInvariant, PTL

\* serve.sh:118-131, 145-245: from the moment an arm comes to start its engine
\* until a failed start or a missed health gate brings the one before back, and
\* as long as its own stops worked, every other engine is down, waits for no
\* restart and holds no port, whatever all the calls before it have left behind.
THEOREM ArmAlwaysClears == Spec => []ArmClears
<1>1. SwitchInv => ArmClears
  <2> SUFFICES ASSUME SwitchInv, clean,
                      pc \in {"health", "restore"} \/ (pc = "stop" /\ left = << >>)
               PROVE  active \cup looping \subseteq {target} /\ holder \in {None, target}
    BY DEF ArmClears
  <2> QED
    BY DEF SwitchInv, ClearInv
<1> QED
  BY <1>1, SwitchInvariant, PTL

\* The box is one the contract can speak of.
LEMMA BoxType == ASSUME TypeOK PROVE Box \in Contract(TRUE)!Boxes
<1>1. live_engine(active) \in Engine \cup {None}
  BY NamesType
<1>2. (active \cup looping) \ {live_engine(active)} \in SUBSET Engine
  BY DEF TypeOK, Restarting, Engine
<1> QED
  BY <1>1, <1>2 DEF TypeOK, Box, Contract!Boxes, Contract!Serving

\* What the contract allows.
LEMMA Outcomes ==
  /\ \A t, b, c : b = Contract(TRUE)!Switched(t) =>
       [rc |-> "zero", box |-> b] \in Contract(TRUE)!ServeOutcomes(t, c)
  /\ \A t, b : b.after = t =>
       [rc |-> "zero", box |-> b] \in Contract(TRUE)!ServeOutcomes(t, b)
  /\ \A t, b, c : b \in Contract(TRUE)!Boxes =>
       [rc |-> "nonzero", box |-> b] \in Contract(TRUE)!ServeOutcomes(t, c)
BY DEF Contract!ServeOutcomes, Contract!ServeSucceeds, Contract!ServeFails

\* serve.sh:118-135, 145-245: exit status 0 of a switch whose stops worked means
\* that the target is active and answers on the port and that nothing else is up
\* or will come up; of a call for a baseline found serving, that live_engine
\* reports it.  This is the contract (ServeContract) dispatcher.py is modelled
\* against.
THEOREM ContractAlwaysKept == Spec => KeepsContract
<1> DEFINE Ending == pc' = "idle" /\ (pc # "idle" \/ spent'.call > spent.call)
           Told == [rc |-> out'.rc, box |-> Box]
           Meant == out'.how = "already" => target' = Baseline
           Before == IF out'.how = "already" THEN Box ELSE Cleared
           Kept == Told \in Contract(TRUE)!ServeOutcomes(target', Before)
<1>1. ASSUME SwitchInv, Next, Ending, clean', Meant
      PROVE  Kept
  <2>1. ASSUME NEW e \in Engine, Call(e)
        PROVE  Kept
    <3>1. /\ current(active) = e /\ target' = e /\ out'.how = "already"
          /\ out'.rc = "zero"
      BY <1>1, <2>1 DEF Call, Exit
    <3>2. e = Baseline /\ active = {Baseline}
      BY <1>1, <3>1, NamesBaseline DEF SwitchInv, TypeOK
    <3>3. live_engine(active) = target'
      BY <3>1, <3>2, NamesAlone
    <3>4. Box.after = target'
      BY <3>3 DEF Box
    <3> QED
      BY <3>1, <3>4, Outcomes
  <2>2. CASE Healthy
    <3>1. /\ pc = "health" /\ holder # None /\ clean /\ target' = target
          /\ out'.rc = "zero"
      BY <1>1, <2>2 DEF Healthy, Exit
    <3>2. active = {target} /\ active \cup looping = {target} /\ holder = target
          /\ target \in Engine
      BY <1>1, <3>1 DEF SwitchInv, TypeOK, ClearInv
    <3>3. live_engine(active) = target
      BY <3>1, <3>2, NamesAlone
    <3>4. Box = Contract(TRUE)!Switched(target)
      BY <3>2, <3>3 DEF Box, Contract!Switched
    <3> QED
      BY <3>1, <3>4, Outcomes
  <2>3. CASE RestoreEnds \/ Killed
    <3>1. out'.rc = "nonzero"
      <4>1. CASE RestoreEnds
        BY <1>1, <4>1 DEF RestoreEnds, SwitchInv, FailInv
      <4>2. CASE Killed
        BY <4>2 DEF Killed, Exit
      <4> QED
        BY <2>3, <4>1, <4>2
    <3>2. Box \in Contract(TRUE)!Boxes
      BY <1>1, BoxType DEF SwitchInv
    <3> QED
      BY <3>1, <3>2, Outcomes
  <2>4. CASE Stop \/ PollEnds \/ StartTarget \/ GivesUp \/ Restore
    BY <1>1, <2>4 DEF Stop, PollEnds, StartTarget, GivesUp, Restore
  <2>5. CASE World
    <3>1. pc' = pc /\ spent'.call = spent.call /\ spent.call \in Nat
      <4>1. spent.call \in 0..MaxCalls
        BY <1>1 DEF SwitchInv, TypeOK
      <4> QED
        BY <1>1, <2>5, <4>1, BoxMoves, SwitchBounds
    <3> QED
      BY <1>1, <3>1
  <2> QED
    BY <1>1, <2>1, <2>2, <2>3, <2>4, <2>5 DEF Next, Script
<1>2. SwitchInv /\ [Next]_vars =>
        [Ending /\ clean' /\ Meant => Kept]_vars
  BY <1>1
<1> QED
  BY <1>2, SwitchInvariant, PTL DEF Spec, KeepsContract
==============================================================================
