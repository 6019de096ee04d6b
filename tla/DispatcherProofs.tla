-------------------------- MODULE DispatcherProofs --------------------------
(***************************************************************************)
(* Types, one tick at a time, and what follows from it: the engine named   *)
(* while a job measures, and the receipt in status.json.                   *)
(***************************************************************************)
EXTENDS Dispatcher, SequenceTheorems, TLAPS

-----------------------------------------------------------------------------
(* What the document helpers return.                                       *)

\* hist["jobs"][-200:] of a list of entries is a list of entries.
LEMMA LastEntriesType ==
  ASSUME NEW s \in Seq(Entry)
  PROVE  LastEntries(s) \in Seq(Entry)
<1>1. CASE Len(s) > HistoryCap
  <2>1. HistoryCap \in Nat /\ Len(s) \in Nat
    BY BoundsAssumption
  <2>2. \A i \in (Len(s) - HistoryCap + 1) .. Len(s) : s[i] \in Entry
    BY <1>1, <2>1
  <2>3. SubSeq(s, Len(s) - HistoryCap + 1, Len(s)) \in Seq(Entry)
    BY <2>1, <2>2, SubSeqProperties
  <2> QED
    BY <1>1, <2>3 DEF LastEntries
<1>2. CASE ~(Len(s) > HistoryCap)
  BY <1>2 DEF LastEntries
<1> QED
  BY <1>1, <1>2

\* finish()'s verdict is one of the two states a finished job can have.
LEMMA FinalStateType == \A r : FinalState(r) \in {"done", "failed"}
BY DEF FinalState

\* The numbers that stand for an empty name and for an unreadable document.
LEMMA ContentType ==
  /\ NoFile \in Content /\ Torn \in Content
  /\ \A i \in Id : i \in Content
  /\ \A i \in Content : i = NoFile \/ i = Torn \/ i \in Id
BY BoundsAssumption DEF NoFile, Torn, Content, Id

-----------------------------------------------------------------------------
(* The process part of the type invariant.                                 *)

\* A process that ends leaves well-typed locals and a smaller lock.
LEMMA ReturnType ==
  ASSUME ProcessOK, NEW t \in Tick, Return(t)
  PROVE  ProcessOK'
BY DEF ProcessOK, Return, PC, Result

\* A step within the part of main that knows its job.
LEMMA GotoType ==
  ASSUME ProcessOK, NEW t \in Tick, NEW l \in PC, Goto(t, l),
         l \notin {"off", "pick", "read"},
         pc[t] \notin {"off", "pick", "read"},
         res' \in [Tick -> Result],
         UNCHANGED <<lock, path, job>>
  PROVE  ProcessOK'
BY DEF ProcessOK, Goto

\* The same, when no result is set.
LEMMA GotoOnlyType ==
  ASSUME ProcessOK, NEW t \in Tick, NEW l \in PC, Goto(t, l),
         l \notin {"off", "pick", "read"},
         pc[t] \notin {"off", "pick", "read"},
         UNCHANGED <<lock, locals>>
  PROVE  ProcessOK'
BY GotoType DEF ProcessOK, locals

\* A result is set.
LEMMA ResultType ==
  ASSUME ProcessOK, NEW t \in Tick, NEW r \in Result,
         res' = [res EXCEPT ![t] = r]
  PROVE  res' \in [Tick -> Result]
BY DEF ProcessOK

\* An exception in the try block.
LEMMA RaiseType ==
  ASSUME ProcessOK, NEW t \in Tick, Raise(t),
         pc[t] \notin {"off", "pick", "read"},
         UNCHANGED <<lock, path, job>>
  PROVE  ProcessOK'
<1>1. res' \in [Tick -> Result]
  BY ResultType DEF Raise, Result
<1>2. Goto(t, "restore") /\ "restore" \in PC
  BY DEF Raise, PC
<1> QED
  BY <1>1, <1>2, GotoType

\* Every step of a tick, and every fault, keeps the locals well typed.
LEMMA ProcessStep ==
  ASSUME ProcessOK, NEW t \in Tick, Step(t) \/ Fault(t)
  PROVE  ProcessOK'
<1>1. CASE Start(t)
  BY <1>1 DEF ProcessOK, Start, Goto, PC, locals
<1>2. CASE Pick(t)
  BY <1>2 DEF ProcessOK, Pick, Goto, PC
<1>3. CASE Read(t)
  <2>1. /\ pc' = [pc EXCEPT ![t] = "take"]
        /\ job' = [job EXCEPT ![t] = queue[path[t]]]
        /\ queue[path[t]] \in Id
        /\ pc[t] = "read"
        /\ UNCHANGED <<lock, path, res>>
    BY <1>3 DEF Read, Goto
  <2> QED
    BY <2>1 DEF ProcessOK, PC
<1>4. CASE IdleTick(t) \/ ReadUnreadable(t) \/ Fill(t) \/ Archive(t)
           \/ RequeueRaises(t) \/ ArchiveRaises(t) \/ Crash(t)
  BY <1>4, ReturnType
  DEF IdleTick, ReadUnreadable, Fill, Archive, RequeueRaises, ArchiveRaises, Crash
<1>5. CASE Validate(t)
  <2>1. pc[t] = "validate" /\ UNCHANGED <<lock, path, job>>
    BY <1>5 DEF Validate
  <2>2. \/ Goto(t, "busy") /\ UNCHANGED res
        \/ Goto(t, "record") /\ res' = [res EXCEPT ![t] = "invalid"]
    BY <1>5 DEF Validate
  <2>3. res' \in [Tick -> Result]
    BY <2>2, ResultType DEF ProcessOK, Result
  <2> QED
    BY <2>1, <2>2, <2>3, GotoType DEF PC
<1>6. CASE Take(t) \/ NotBusy(t) \/ Defer(t) \/ Unlink(t) \/ Rewrite(t)
  <2>1. /\ pc[t] \in {"take", "busy", "unlink", "rewrite"}
        /\ UNCHANGED <<lock, locals>>
        /\ \E l \in {"validate", "look", "unlink", "rewrite", "fill"} : Goto(t, l)
    BY <1>6 DEF Take, NotBusy, Defer, Unlink, Rewrite
  <2> QED
    BY <2>1, GotoOnlyType DEF PC
<1>7. CASE StartServe(t) \/ NoSwitch(t)
  <2>1. /\ pc[t] = "look" /\ UNCHANGED <<lock, locals>>
        /\ \E l \in {"switching", "run"} : Goto(t, l)
    BY <1>7 DEF StartServe, NoSwitch
  <2> QED
    BY <2>1, GotoOnlyType DEF PC
<1>8. CASE ServeReturns(t) \/ AssertTook(t)
  <2>1. pc[t] \in {"switching", "assert"} /\ UNCHANGED <<lock, path, job>>
    BY <1>8 DEF ServeReturns, AssertTook
  <2>2. \/ Raise(t)
        \/ /\ UNCHANGED res
           /\ \E l \in {"probe", "assert"} : Goto(t, l)
    BY <1>8 DEF ServeReturns, AssertTook
  <2>3. UNCHANGED res => res' \in [Tick -> Result]
    BY DEF ProcessOK
  <2> QED
    BY <2>1, <2>2, <2>3, RaiseType, GotoType DEF PC
<1>9. CASE Probe(t)
  <2>1. pc[t] = "probe" /\ UNCHANGED <<lock, path, job>>
    BY <1>9 DEF Probe
  <2>2. \/ Raise(t)
        \/ Goto(t, "run") /\ UNCHANGED res
        \/ Goto(t, "restore") /\ res' = [res EXCEPT ![t] = "ok"]
    BY <1>9 DEF Probe
  <2>3. Raise(t) \/ res' \in [Tick -> Result]
    BY <2>2, ResultType DEF ProcessOK, Result
  <2> QED
    BY <2>1, <2>2, <2>3, RaiseType, GotoType DEF PC
<1>10. CASE StartRun(t)
  <2>1. pc[t] = "run" /\ UNCHANGED <<lock, path, job>>
    BY <1>10 DEF StartRun
  <2>2. Raise(t) \/ (Goto(t, "running") /\ UNCHANGED res)
    BY <1>10 DEF StartRun
  <2>3. UNCHANGED res => res' \in [Tick -> Result]
    BY DEF ProcessOK
  <2> QED
    BY <2>1, <2>2, <2>3, RaiseType, GotoType DEF PC
<1>11. CASE EvalEnds(t) \/ DownloadEnds(t)
  <2>1. pc[t] = "running" /\ UNCHANGED <<lock, path, job>>
    BY <1>11 DEF EvalEnds, DownloadEnds
  <2>2. \/ Raise(t)
        \/ /\ Goto(t, "restore")
           /\ \E r \in Result : res' = [res EXCEPT ![t] = r]
    BY <1>11 DEF EvalEnds, DownloadEnds, Result
  <2>3. Raise(t) \/ res' \in [Tick -> Result]
    BY <2>2, ResultType
  <2> QED
    BY <2>1, <2>2, <2>3, RaiseType, GotoType DEF PC
<1>12. CASE BringBack(t) \/ RestoreRaises(t)
  <2>1. /\ pc[t] \in {"restore", "restoring"} /\ UNCHANGED <<lock, locals>>
        /\ \E l \in {"restoring", "record"} : Goto(t, l)
    BY <1>12 DEF BringBack, RestoreRaises, LeaveExplicit, AlreadyBaseline,
                 StartRestore, RestoreReturns
  <2> QED
    BY <2>1, GotoOnlyType DEF PC
<1>13. CASE Record(t) \/ Publish(t)
  <2>1. /\ pc[t] \in {"record", "publish"} /\ UNCHANGED <<lock, locals>>
        /\ \E l \in {"publish", "archive"} : Goto(t, l)
    BY <1>13 DEF Record, Publish
  <2> QED
    BY <2>1, GotoOnlyType DEF PC
<1> QED
  BY <1>1, <1>2, <1>3, <1>4, <1>5, <1>6, <1>7, <1>8, <1>9, <1>10, <1>11,
     <1>12, <1>13
  DEF Step, Fault, PickUp, PutBack, Execute, Finish

-----------------------------------------------------------------------------
(* The files part.                                                         *)

\* Every step of a tick writes well-typed documents into well-typed files.
LEMMA FilesStep ==
  ASSUME FilesOK, ProcessOK, NEW t \in Tick, Step(t) \/ Fault(t)
  PROVE  FilesOK'
<1>1. CASE UNCHANGED <<web, queue, done, status, history>>
  BY <1>1 DEF FilesOK, web
<1>2. CASE IdleTick(t)
  <2>1. status' \in Status
    BY <1>2 DEF FilesOK, IdleTick, Status, NoJob
  <2> QED
    BY <1>2, <2>1 DEF FilesOK, IdleTick, web
<1>3. CASE ReadUnreadable(t)
  <2>1. status' \in Status
    BY <1>3 DEF FilesOK, ReadUnreadable, Status
  <2>2. queue' \in [Name -> Content] /\ done' \in [Name -> Content]
    BY <1>3, ContentType DEF FilesOK, ReadUnreadable
  <2> QED
    BY <1>3, <2>1, <2>2 DEF FilesOK, ReadUnreadable, web
<1>4. CASE Read(t)
  <2>1. status' \in Status
    BY <1>4 DEF FilesOK, Read, Status, default_doc, Flag
  <2> QED
    BY <1>4, <2>1 DEF FilesOK, Read, web
<1>5. CASE Take(t) \/ Defer(t)
  <2>1. Take(t) => job[t] \in Id
    BY DEF ProcessOK, Take
  <2>2. status' \in Status
    BY <1>5, <2>1 DEF FilesOK, Take, Defer, Status
  <2> QED
    BY <1>5, <2>2 DEF FilesOK, Take, Defer, web
<1>6. CASE Unlink(t) \/ Rewrite(t) \/ Fill(t)
  <2>1. pc[t] = "fill" => job[t] \in Content
    BY ContentType DEF ProcessOK
  <2>2. queue' \in [Name -> Content]
    BY <1>6, <2>1, ContentType DEF FilesOK, Unlink, Rewrite, Fill
  <2> QED
    BY <1>6, <2>2 DEF FilesOK, Unlink, Rewrite, Fill, web
<1>7. CASE StartServe(t)
  <2>1. status' \in Status
    BY <1>7 DEF FilesOK, StartServe, Status
  <2> QED
    BY <1>7, <2>1 DEF FilesOK, StartServe, web
<1>8. CASE StartRun(t)
  <2>1. CASE UNCHANGED status
    BY <1>8, <2>1 DEF FilesOK, StartRun, web
  <2>2. CASE status' = [status EXCEPT !.phase = ask[job[t]].action]
    <3>1. job[t] \in Id
      BY <1>8 DEF ProcessOK, StartRun
    <3>2. ask[job[t]].action \in {"eval", "download", "serve"}
      BY <3>1, RequestsAssumption DEF FilesOK, Request, Action
    <3>3. status' \in Status
      BY <2>2, <3>2 DEF FilesOK, Status
    <3> QED
      BY <1>8, <3>3 DEF FilesOK, StartRun, web
  <2> QED
    BY <1>8, <2>1, <2>2 DEF StartRun
<1>9. CASE LeaveExplicit(t) \/ AlreadyBaseline(t) \/ StartRestore(t)
           \/ RestoreReturns(t) \/ RestoreRaises(t)
  <2>1. status' \in Status
    BY <1>9 DEF FilesOK, LeaveExplicit, AlreadyBaseline, StartRestore,
                RestoreReturns, RestoreRaises, Status, Flag
  <2> QED
    BY <1>9, <2>1 DEF FilesOK, LeaveExplicit, AlreadyBaseline, StartRestore,
                      RestoreReturns, RestoreRaises, web
<1>10. CASE Record(t)
  <2> DEFINE e == [id |-> job[t], state |-> FinalState(res[t]), result |-> res[t]]
  <2>1. e \in Entry
    BY <1>10, FinalStateType DEF ProcessOK, Record, Entry
  <2>2. Append(history, e) \in Seq(Entry)
    BY <2>1 DEF FilesOK
  <2>3. history' \in Seq(Entry)
    BY <1>10, <2>2, LastEntriesType DEF Record
  <2> QED
    BY <1>10, <2>3 DEF FilesOK, Record, web
<1>11. CASE Publish(t)
  <2>1. job[t] \in Id /\ FinalState(res[t]) \in {"done", "failed"}
    BY <1>11, FinalStateType DEF ProcessOK, Publish
  <2>2. status' \in Status
    BY <1>11, <2>1 DEF FilesOK, Publish, Status
  <2> QED
    BY <1>11, <2>2 DEF FilesOK, Publish, web
<1>12. CASE Archive(t)
  <2>1. path[t] \in Name
    BY <1>12 DEF ProcessOK, Archive
  <2>2. queue' \in [Name -> Content] /\ done' \in [Name -> Content]
    BY <1>12, <2>1, ContentType DEF FilesOK, Archive
  <2> QED
    BY <1>12, <2>2 DEF FilesOK, Archive, web
<1> QED
  BY <1>1, <1>2, <1>3, <1>4, <1>5, <1>6, <1>7, <1>8, <1>9, <1>10, <1>11, <1>12
  DEF Step, Fault, PickUp, PutBack, Execute, BringBack, Finish, Start, Pick,
      Validate, NotBusy, NoSwitch, ServeReturns, AssertTook, Probe, EvalEnds,
      DownloadEnds, RequeueRaises, ArchiveRaises, Crash

-----------------------------------------------------------------------------
(* The world part, and the whole.                                          *)

\* Using up a bound that is not yet used up.
LEMMA SpendType ==
  ASSUME WorldOK, NEW k \in {"crash", "drift", "outside", "fault"}, Spend(k),
         spent[k] < [crash |-> MaxCrashes, drift |-> MaxDrifts,
                     outside |-> MaxOutside, fault |-> MaxFaults][k]
  PROVE  spent' \in [crash : 0..MaxCrashes, drift : 0..MaxDrifts,
                     outside : 0..MaxOutside, fault : 0..MaxFaults]
BY BoundsAssumption DEF WorldOK, Spend

\* serve.sh, whatever becomes of it, leaves a box behind.
LEMMA ServeType ==
  ASSUME NEW target \in Engine, NEW before \in Boxes
  PROVE  \A o \in ServeOutcomes(target, before) : o.box \in Boxes
<1>1. Switched(target) \in Boxes
  BY DEF Switched, Boxes, Serving
<1> QED
  BY <1>1 DEF ServeOutcomes, ServeSucceeds, ServeFails

\* The box a step leaves behind is the one its next state holds.
LEMMA BecomesType ==
  ASSUME NEW b \in Boxes, Becomes(b)
  PROVE  Here' \in Boxes
<1>1. b = [after |-> b.after, port |-> b.port, behind |-> b.behind]
  BY DEF Boxes
<1> QED
  BY <1>1 DEF Becomes, Here

\* While serve.sh runs for a job, or its outcome is being checked, the job has
\* named an engine: do_switch is not entered for "current".
SwitchOK ==
  \A t \in Tick : pc[t] \in {"switching", "assert"} => Wanted(t) \in Engine

TypeInv == TypeOK /\ SwitchOK

\* What a job of the queue can want.
LEMMA WantedType ==
  ASSUME FilesOK, ProcessOK, NEW t \in Tick, job[t] \in Id
  PROVE  /\ Wanted(t) \in Engine \cup {"current"}
         /\ Explicit(t) => Wanted(t) \in Engine
<1>1. ask[job[t]] \in Requests
  BY DEF FilesOK
<1>2. /\ ask[job[t]].engine \in Engine \cup {"current"}
      /\ ask[job[t]].action = "serve" => ask[job[t]].engine # "current"
  BY <1>1, RequestsAssumption DEF Request
<1> QED
  BY <1>2 DEF Wanted, Explicit

\* Only the step that starts serve.sh for a job enters "switching", and it
\* knows which engine it asks for.
LEMMA SwitchStep ==
  ASSUME FilesOK, ProcessOK, SwitchOK, NEW t \in Tick, Step(t) \/ Fault(t)
  PROVE  SwitchOK'
<1> SUFFICES ASSUME NEW s \in Tick, pc'[s] \in {"switching", "assert"}
             PROVE  Wanted(s)' \in Engine
  BY DEF SwitchOK
<1>1. CASE StartServe(t)
  <2>1. /\ UNCHANGED <<ask, job>>
        /\ pc' = [pc EXCEPT ![t] = "switching"]
        /\ pc[t] = "look"
        /\ Explicit(t) \/ Wanted(t) # "current"
    BY <1>1 DEF StartServe, Goto, web, locals
  <2>2. CASE s = t
    <3>1. Wanted(t) \in Engine
      BY <2>1, WantedType DEF ProcessOK
    <3> QED
      BY <2>1, <2>2, <3>1 DEF Wanted
  <2>3. CASE s # t
    <3>1. pc[s] \in {"switching", "assert"}
      BY <2>1, <2>3 DEF ProcessOK
    <3> QED
      BY <2>1, <3>1 DEF SwitchOK, Wanted
  <2> QED
    BY <2>2, <2>3
<1>2. CASE ServeReturns(t)
  <2>1. /\ UNCHANGED <<ask, job>> /\ pc[t] = "switching"
        /\ \E l \in {"restore", "probe", "assert"} : pc' = [pc EXCEPT ![t] = l]
    BY <1>2 DEF ServeReturns, Raise, Goto, web
  <2>2. pc[s] \in {"switching", "assert"}
    BY <2>1 DEF ProcessOK
  <2> QED
    BY <2>1, <2>2 DEF SwitchOK, Wanted
<1>3. CASE Read(t)
  <2>1. /\ UNCHANGED ask
        /\ pc' = [pc EXCEPT ![t] = "take"]
        /\ job' = [job EXCEPT ![t] = queue[path[t]]]
    BY <1>3 DEF Read, Goto, web
  <2>2. s # t /\ pc[s] \in {"switching", "assert"} /\ job'[s] = job[s]
    BY <2>1 DEF ProcessOK
  <2> QED
    BY <2>1, <2>2 DEF SwitchOK, Wanted
<1>4. CASE /\ UNCHANGED <<ask, job>>
           /\ \E l \in PC \ {"switching", "assert"} : pc' = [pc EXCEPT ![t] = l]
  <2>1. pc[s] \in {"switching", "assert"}
    BY <1>4 DEF ProcessOK
  <2> QED
    BY <1>4, <2>1 DEF SwitchOK, Wanted
<1>5. CASE UNCHANGED ask /\ Return(t)
  <2>1. s # t /\ pc[s] \in {"switching", "assert"} /\ job'[s] = job[s]
    BY <1>5 DEF ProcessOK, Return
  <2> QED
    BY <1>5, <2>1 DEF SwitchOK, Wanted
<1>6. CASE Start(t) \/ Pick(t) \/ Take(t) \/ Validate(t) \/ NotBusy(t) \/ Defer(t)
           \/ Unlink(t) \/ Rewrite(t) \/ NoSwitch(t)
  BY <1>4, <1>6 DEF Start, Pick, Take, Validate, NotBusy, Defer, Unlink, Rewrite,
     NoSwitch, Goto, web, locals, PC
<1>7. CASE AssertTook(t) \/ Probe(t) \/ StartRun(t) \/ EvalEnds(t) \/ DownloadEnds(t)
  BY <1>4, <1>7 DEF AssertTook, Probe, StartRun, EvalEnds, DownloadEnds, Raise,
     Goto, web, locals, PC
<1>8. CASE BringBack(t) \/ RestoreRaises(t) \/ Record(t) \/ Publish(t)
  BY <1>4, <1>8 DEF BringBack, LeaveExplicit, AlreadyBaseline, StartRestore,
     RestoreReturns, RestoreRaises, Record, Publish, Goto, web, locals, PC
<1>9. CASE IdleTick(t) \/ ReadUnreadable(t) \/ Fill(t) \/ Archive(t)
           \/ RequeueRaises(t) \/ ArchiveRaises(t) \/ Crash(t)
  BY <1>5, <1>9
  DEF IdleTick, ReadUnreadable, Fill, Archive, RequeueRaises, ArchiveRaises, Crash, web
<1> QED
  BY <1>1, <1>2, <1>3, <1>6, <1>7, <1>8, <1>9
  DEF Step, Fault, PickUp, PutBack, Execute, Finish

\* The tick moves the engine only through serve.sh, and no fault happens once
\* its bound is used up.
LEMMA WorldStep ==
  ASSUME TypeInv, NEW t \in Tick, Step(t) \/ Fault(t)
  PROVE  WorldOK'
<1> USE DEF TypeInv, TypeOK
<1>1. CASE ServeReturns(t)
  <2>1. Wanted(t) \in Engine
    BY <1>1 DEF SwitchOK, ServeReturns
  <2>2. PICK o \in ServeOutcomes(Wanted(t), Here) : Becomes(o.box)
    BY <1>1 DEF ServeReturns
  <2>3. Here' \in Boxes
    BY <2>1, <2>2, ServeType, BecomesType DEF WorldOK
  <2> QED
    BY <1>1, <2>3 DEF WorldOK, ServeReturns
<1>2. CASE RestoreReturns(t)
  <2>1. PICK o \in ServeOutcomes(Baseline, Here) : Becomes(o.box)
    BY <1>2 DEF RestoreReturns
  <2>2. Here' \in Boxes
    BY <2>1, ServeType, BecomesType, BaselineAssumption DEF WorldOK
  <2> QED
    BY <1>2, <2>2 DEF WorldOK, RestoreReturns
<1>3. CASE RequeueRaises(t) \/ RestoreRaises(t) \/ ArchiveRaises(t)
  <2>1. Spend("fault") /\ spent["fault"] < MaxFaults /\ UNCHANGED world
    BY <1>3 DEF RequeueRaises, RestoreRaises, ArchiveRaises
  <2>2. spent' \in [crash : 0..MaxCrashes, drift : 0..MaxDrifts,
                    outside : 0..MaxOutside, fault : 0..MaxFaults]
    BY <2>1, SpendType
  <2> QED
    BY <2>1, <2>2 DEF WorldOK, world, box, Here
<1>4. CASE Crash(t)
  <2>1. Spend("crash") /\ spent["crash"] < MaxCrashes /\ UNCHANGED outside
    BY <1>4 DEF Crash
  <2>2. spent' \in [crash : 0..MaxCrashes, drift : 0..MaxDrifts,
                    outside : 0..MaxOutside, fault : 0..MaxFaults]
    BY <2>1, SpendType
  <2>3. \E b \in Boxes : Becomes(b)
    BY <1>4 DEF Crash, ServeFails, WorldOK
  <2>4. Here' \in Boxes
    BY <2>3, BecomesType
  <2> QED
    BY <2>1, <2>2, <2>4 DEF WorldOK
<1>5. CASE UNCHANGED <<world, spent>>
  BY <1>5 DEF WorldOK, world, box, Here
<1> QED
  BY <1>1, <1>2, <1>3, <1>4, <1>5
  DEF Step, Fault, PickUp, PutBack, Execute, BringBack, Finish, Start, IdleTick,
      Pick, ReadUnreadable, Read, Take, Validate, NotBusy, Defer, Unlink, Rewrite,
      Fill, StartServe, NoSwitch, AssertTook, Probe, StartRun, EvalEnds, DownloadEnds,
      LeaveExplicit, AlreadyBaseline, StartRestore, Record, Publish, Archive

\* The web server writes a job number under a queue name.
LEMMA PostType ==
  ASSUME TypeInv, NEW n \in Name, Post(n)
  PROVE  TypeInv'
<1> USE DEF TypeInv, TypeOK
<1>1. posted + 1 \in Id /\ posted' \in 0..MaxPosts
  BY BoundsAssumption DEF Post, FilesOK, Id
<1>2. queue' \in [Name -> Content]
  BY <1>1, ContentType DEF Post, FilesOK
<1>3. FilesOK'
  BY <1>1, <1>2 DEF Post, FilesOK
<1>4. ProcessOK' /\ WorldOK' /\ SwitchOK'
  BY DEF Post, ProcessOK, WorldOK, SwitchOK, Wanted, locals, world, box, Here
<1> QED
  BY <1>3, <1>4

\* What moves on the box with nobody asking stays within the box.
LEMMA DriftType ==
  ASSUME WorldOK, EngineDies \/ PortMoves \/ \E e \in Engine : EngineReturns(e)
  PROVE  Here' \in Boxes
<1>1. /\ engine \in Serving /\ port \in Serving /\ behind \in SUBSET Returning
      /\ engine \notin behind /\ (Apart \/ port = engine)
  BY DEF WorldOK, Here, Boxes
<1>2. /\ engine' \in Serving /\ port' \in Serving /\ behind' \in SUBSET Returning
      /\ engine' \notin behind' /\ (Apart \/ port' = engine')
  <2>1. CASE EngineDies
    BY <1>1, <2>1, NoneAssumption, ReturningAssumption DEF EngineDies, Serving
  <2>2. CASE PortMoves
    BY <1>1, <2>2 DEF PortMoves, Serving
  <2>3. ASSUME NEW e \in Engine, EngineReturns(e)
        PROVE  /\ engine' \in Serving /\ port' \in Serving /\ behind' \in SUBSET Returning
               /\ engine' \notin behind' /\ (Apart \/ port' = engine')
    BY <1>1, <2>3 DEF EngineReturns, Serving
  <2> QED
    BY <2>1, <2>2, <2>3
<1> QED
  BY <1>2 DEF Here, Boxes

\* The outside world starts, stops, kills and revives within its bounds.
LEMMA WorldType ==
  ASSUME TypeInv, World
  PROVE  TypeInv'
<1> USE DEF TypeInv, TypeOK
<1>1. UNCHANGED <<web, queue, done, status, history, lock, pc, locals>>
  BY DEF World, OutsideStarts, OutsideEnds, EngineDies, PortMoves, EngineReturns
<1>2. FilesOK' /\ ProcessOK' /\ SwitchOK'
  BY <1>1 DEF FilesOK, ProcessOK, SwitchOK, Wanted, web, locals
<1>3. Here' \in Boxes /\ outside' \in BOOLEAN
  <2>1. CASE OutsideStarts \/ OutsideEnds
    BY <2>1 DEF OutsideStarts, OutsideEnds, WorldOK, Here, box
  <2>2. CASE EngineDies \/ PortMoves \/ \E e \in Engine : EngineReturns(e)
    <3>1. outside' = outside
      BY <2>2 DEF EngineDies, PortMoves, EngineReturns
    <3> QED
      BY <2>2, <3>1, DriftType DEF WorldOK
  <2> QED
    BY <2>1, <2>2 DEF World
<1>4. \/ UNCHANGED spent
      \/ Spend("outside") /\ spent["outside"] < MaxOutside
      \/ Spend("drift") /\ spent["drift"] < MaxDrifts
  BY DEF World, OutsideStarts, OutsideEnds, EngineDies, PortMoves, EngineReturns
<1>5. spent' \in [crash : 0..MaxCrashes, drift : 0..MaxDrifts,
                  outside : 0..MaxOutside, fault : 0..MaxFaults]
  BY <1>4, SpendType DEF WorldOK
<1> QED
  BY <1>2, <1>3, <1>5 DEF WorldOK

\* What the world does to the engine: it dies, or another comes to serve.
LEMMA WorldMoves ==
  ASSUME World
  PROVE  /\ UNCHANGED <<ask, posted, queue, done, status, history, lock, pc, path, job, res>>
         /\ engine' \in {engine, None} \cup behind
BY DEF World, OutsideStarts, OutsideEnds, EngineDies, PortMoves, EngineReturns, web,
   locals, box

\* An empty queue, a default status.json and an engine on :18300.
LEMMA InitType == Init => TypeInv
<1> SUFFICES ASSUME Init PROVE TypeInv
  OBVIOUS
<1>1. status \in Status
  BY DEF Init, default_doc, Status, Flag, NoJob
<1>2. queue \in [Name -> Content] /\ done \in [Name -> Content]
  BY ContentType DEF Init
<1>3. FilesOK
  <2>1. history \in Seq(Entry)
    BY DEF Init
  <2>2. ask \in [Id -> Requests] /\ posted \in 0..MaxPosts
    BY BoundsAssumption DEF Init
  <2> QED
    BY <1>1, <1>2, <2>1, <2>2 DEF FilesOK
<1>4. ProcessOK
  BY DEF Init, ProcessOK, PC, Result, NoName, NoJob
<1>5. WorldOK
  <2>1. /\ 0 \in 0..MaxCrashes /\ 0 \in 0..MaxDrifts
        /\ 0 \in 0..MaxOutside /\ 0 \in 0..MaxFaults
    BY BoundsAssumption
  <2>2. spent = [crash |-> 0, drift |-> 0, outside |-> 0, fault |-> 0]
    BY DEF Init
  <2>3. spent \in [crash : 0..MaxCrashes, drift : 0..MaxDrifts,
                   outside : 0..MaxOutside, fault : 0..MaxFaults]
    BY <2>1, <2>2
  <2>4. Here \in Boxes
    BY NoneAssumption, ReturningAssumption DEF Init, Here, Boxes
  <2> QED
    BY <2>3, <2>4 DEF Init, WorldOK
<1>6. SwitchOK
  BY DEF Init, SwitchOK
<1> QED
  BY <1>3, <1>4, <1>5, <1>6 DEF TypeInv, TypeOK

\* Every step of the system keeps the documents, the locals of main and the
\* bounds well typed.
LEMMA TypeStep == TypeInv /\ [Next]_vars => TypeInv'
<1> SUFFICES ASSUME TypeInv, [Next]_vars PROVE TypeInv'
  OBVIOUS
<1>1. ASSUME NEW n \in Name, Post(n) PROVE TypeInv'
  BY <1>1, PostType
<1>2. ASSUME NEW t \in Tick, Step(t) \/ Fault(t) PROVE TypeInv'
  BY <1>2, FilesStep, ProcessStep, WorldStep, SwitchStep DEF TypeInv, TypeOK
<1>3. CASE World
  BY <1>3, WorldType
<1>4. CASE UNCHANGED vars
  BY <1>4 DEF vars, TypeInv, TypeOK, FilesOK, ProcessOK, WorldOK, SwitchOK, Wanted, Here
<1> QED
  BY <1>1, <1>2, <1>3, <1>4 DEF Next

\* The whole invariant, for the theorems below.
LEMMA TypeInvariant == Spec => []TypeInv
BY InitType, TypeStep, PTL DEF Spec

\* status.json, the queue and archive files, the history and main's locals
\* keep their shape, however ticks, posts, faults and crashes interleave.
THEOREM TypeCorrect == Spec => []TypeOK
<1>1. TypeInv => TypeOK
  BY DEF TypeInv
<1> QED
  BY <1>1, TypeInvariant, PTL

-----------------------------------------------------------------------------
(* Mutual exclusion.                                                       *)

\* Exactly the living processes hold the flock, and there is at most one.
LockInv == lock = {t \in Tick : Alive(t)} /\ OneTick

\* What a step of a tick does to the lock and to the set of living processes.
LEMMA LockMoves ==
  ASSUME NEW t \in Tick, Step(t) \/ Fault(t)
  PROVE  \/ /\ pc[t] = "off" /\ lock = {} /\ lock' = lock \cup {t}
            /\ pc' = [pc EXCEPT ![t] = "pick"]
         \/ pc[t] # "off" /\ Return(t)
         \/ /\ pc[t] # "off" /\ UNCHANGED lock
            /\ \E l \in PC \ {"off"} : pc' = [pc EXCEPT ![t] = l]
<1>1. CASE PickUp(t) \/ PutBack(t)
  BY <1>1 DEF PickUp, PutBack, Start, IdleTick, Pick, ReadUnreadable, Read,
     Take, Validate, NotBusy, Defer, Unlink, Rewrite, Fill, Goto, PC
<1>2. CASE Execute(t)
  BY <1>2 DEF Execute, StartServe, NoSwitch, ServeReturns, AssertTook, Probe,
     StartRun, EvalEnds, DownloadEnds, Raise, Goto, PC
<1>3. CASE BringBack(t) \/ Finish(t)
  BY <1>3 DEF BringBack, Finish, LeaveExplicit, AlreadyBaseline, StartRestore,
     RestoreReturns, Record, Publish, Archive, Goto, PC
<1>4. CASE Fault(t)
  BY <1>4 DEF Fault, RequeueRaises, RestoreRaises, ArchiveRaises, Crash, Goto, PC
<1> QED
  BY <1>1, <1>2, <1>3, <1>4 DEF Step

\* The flock keeps the second process out, and a process that ends, of its own
\* accord or not, gives it back.
LEMMA LockStep == TypeInv /\ LockInv /\ [Next]_vars => LockInv'
<1> SUFFICES ASSUME TypeInv, LockInv, [Next]_vars PROVE LockInv'
  OBVIOUS
<1>0. pc \in [Tick -> PC]
  BY DEF TypeInv, TypeOK, ProcessOK
<1>1. CASE UNCHANGED <<lock, pc>>
  BY <1>1 DEF LockInv, OneTick, Alive
<1>2. ASSUME NEW t \in Tick, Step(t) \/ Fault(t) PROVE LockInv'
  <2>1. CASE /\ pc[t] = "off" /\ lock = {} /\ lock' = lock \cup {t}
             /\ pc' = [pc EXCEPT ![t] = "pick"]
    BY <1>0, <2>1 DEF LockInv, OneTick, Alive
  <2>2. CASE Return(t)
    BY <1>0, <2>2 DEF LockInv, OneTick, Alive, Return
  <2>3. CASE /\ pc[t] # "off" /\ UNCHANGED lock
             /\ \E l \in PC \ {"off"} : pc' = [pc EXCEPT ![t] = l]
    <3>1. \A s \in Tick : Alive(s)' <=> Alive(s)
      BY <1>0, <2>3 DEF Alive
    <3> QED
      BY <2>3, <3>1 DEF LockInv, OneTick
  <2> QED
    BY <1>2, <2>1, <2>2, <2>3, LockMoves
<1>3. CASE UNCHANGED vars \/ World \/ \E n \in Name : Post(n)
  BY <1>1, <1>3, WorldMoves DEF vars, Post
<1> QED
  BY <1>2, <1>3 DEF Next

\* README rule 3: at most one dispatcher process is past the flock, for any
\* number of processes, crashes and faults.
THEOREM MutualExclusion == Spec => []OneTick
<1>1. Init => LockInv
  BY DEF Init, LockInv, OneTick, Alive
<1>2. LockInv => OneTick
  BY DEF LockInv
<1> QED
  BY <1>1, <1>2, LockStep, TypeInvariant, PTL DEF Spec

\* The typing and locking invariants together, on which the rest is built.
BaseInv == TypeInv /\ LockInv

LEMMA BaseInvariant == Spec => []BaseInv
<1>1. Init => LockInv
  BY DEF Init, LockInv, OneTick, Alive
<1> QED
  BY <1>1, LockStep, TypeInvariant, PTL DEF Spec, BaseInv

\* A tick in the middle of its work moves alone: nobody else is past the flock,
\* so whatever step a tick takes, no other one is at work after it.
LEMMA OnlyOne ==
  ASSUME BaseInv, NEW s \in Tick, NEW t \in Tick, Step(t) \/ Fault(t),
         pc[s] # "off" \/ pc'[s] # "off"
  PROVE  s = t
<1> SUFFICES ASSUME s # t PROVE FALSE
  OBVIOUS
<1>0. pc \in [Tick -> PC]
  BY DEF BaseInv, TypeInv, TypeOK, ProcessOK
<1>1. pc'[s] = pc[s]
  BY <1>0, LockMoves DEF Return
<1>2. pc[t] = "off" => lock = {}
  BY LockMoves
<1>3. s \in lock
  BY <1>1 DEF BaseInv, LockInv, Alive
<1> QED
  BY <1>1, <1>2, <1>3 DEF BaseInv, LockInv, OneTick, Alive

-----------------------------------------------------------------------------
(* The engine named while a job measures.                                  *)

\* dispatcher.py:240-253: whatever serve.sh's exit status is worth (ServeFaithful
\* is free), no job comes to measure while live_engine names another engine than
\* the one it named, and only an engine that nobody asked for can change that
\* afterwards.
THEOREM NamedWhileMeasuredAlways == Spec => NamedWhileMeasured
<1> DEFINE Named(s) == \/ engine' \in {Wanted(s)', None} \cup behind
                       \/ Measuring(s) /\ engine' = engine
<1>1. ASSUME BaseInv, [Next]_vars, NEW s \in Tick, Measuring(s)'
      PROVE  Named(s)
  <2>0. pc \in [Tick -> PC]
    BY <1>1 DEF BaseInv, TypeInv, TypeOK, ProcessOK
  <2>1. CASE UNCHANGED <<ask, job, pc>> /\ engine' \in {engine, None} \cup behind
    BY <1>1, <2>1 DEF Measuring, Wanted, Explicit
  <2>2. ASSUME NEW t \in Tick, Step(t) \/ Fault(t) PROVE Named(s)
    <3>1. s = t /\ pc'[t] \in {"probe", "run", "running"} /\ ~Explicit(t)'
          /\ Wanted(t)' # "current"
      BY <1>1, <2>2, OnlyOne DEF Measuring
    <3>2. CASE ServeReturns(t)
      <4>1. /\ UNCHANGED <<ask, job>>
            /\ \/ pc'[t] \in {"restore", "assert"}
               \/ pc'[t] = "probe" /\ Explicit(t)
        BY <2>0, <3>2 DEF ServeReturns, Raise, Goto, web
      <4> QED
        BY <3>1, <4>1 DEF Explicit
    <3>3. CASE NoSwitch(t)
      BY <2>0, <3>1, <3>3 DEF NoSwitch, Goto, web, locals, world, box, Wanted
    <3>4. CASE AssertTook(t)
      BY <2>0, <3>1, <3>4 DEF AssertTook, Raise, Goto, web, world, box, Wanted
    <3>5. CASE Probe(t) \/ StartRun(t)
      <4>1. UNCHANGED <<ask, job, engine>> /\ pc[t] \in {"probe", "run"}
        BY <3>5 DEF Probe, StartRun, web, world, box
      <4> QED
        BY <3>1, <4>1 DEF Measuring, Wanted, Explicit
    <3>6. CASE PickUp(t) \/ PutBack(t) \/ StartServe(t)
      <4>1. pc'[t] \notin {"run", "running", "probe"}
        BY <2>0, <3>6 DEF PickUp, PutBack, Start, IdleTick, Pick, ReadUnreadable, Read,
           Take, Validate, NotBusy, Defer, Unlink, Rewrite, Fill, StartServe, Goto, Return
      <4> QED
        BY <3>1, <4>1
    <3>7. CASE EvalEnds(t) \/ DownloadEnds(t) \/ BringBack(t) \/ Finish(t)
      <4>1. pc'[t] \notin {"run", "running", "probe"}
        BY <2>0, <3>7 DEF EvalEnds, DownloadEnds, BringBack, Finish, LeaveExplicit,
           AlreadyBaseline, StartRestore, RestoreReturns, Record, Publish, Archive,
           Raise, Goto, Return
      <4> QED
        BY <3>1, <4>1
    <3>8. CASE Fault(t)
      <4>1. pc'[t] \notin {"run", "running", "probe"}
        BY <2>0, <3>8 DEF Fault, RequeueRaises, RestoreRaises, ArchiveRaises, Crash,
           Goto, Return
      <4> QED
        BY <3>1, <4>1
    <3> QED
      BY <2>2, <3>2, <3>3, <3>4, <3>5, <3>6, <3>7, <3>8 DEF Step, Execute
  <2>3. CASE UNCHANGED vars
    BY <2>1, <2>3 DEF vars
  <2>4. CASE World
    BY <2>1, <2>4, WorldMoves
  <2>5. CASE \E n \in Name : Post(n)
    <3>1. UNCHANGED <<ask, job, pc, engine>>
      BY <2>5 DEF Post, locals, world, box
    <3> QED
      BY <2>1, <3>1
  <2> QED
    BY <1>1, <2>2, <2>3, <2>4, <2>5 DEF Next
<1>2. BaseInv /\ [Next]_vars =>
        [\A t \in Tick : Measuring(t)' =>
           \/ engine' \in {Wanted(t)', None} \cup behind
           \/ Measuring(t) /\ engine' = engine]_vars
  BY <1>1
<1> QED
  BY <1>2, BaseInvariant, PTL DEF Spec, NamedWhileMeasured

-----------------------------------------------------------------------------
(* The receipt.                                                            *)

\* From reading a job to the end of the finally clause.
AtWork == PC \ {"off", "pick", "read", "record", "publish", "archive"}

\* off_baseline stays null from the Status() of a job to its finally clause.
ReceiptInv == \A t \in Tick : pc[t] \in AtWork => status.off = "null"

\* How a step of a tick can touch the receipt and the engine: it takes up a
\* job, it leaves both, it runs serve.sh, or it ends the finally clause.
LEMMA ReceiptMoves ==
  ASSUME BaseInv, NEW t \in Tick, Step(t) \/ Fault(t)
  PROVE  \/ Read(t)
         \/ /\ status'.off = status.off /\ UNCHANGED engine
            /\ pc'[t] \in AtWork => pc[t] \in AtWork
         \/ /\ status'.off = status.off
            /\ pc[t] \in {"switching", "restoring"}
         \/ /\ pc'[t] = "record" /\ status'.off # "null"
            /\ ServeFaithful /\ status'.off = "no" => engine' = Baseline
<1>0. pc \in [Tick -> PC] /\ status \in Status
  BY DEF BaseInv, TypeInv, TypeOK, ProcessOK, FilesOK
<1>1. CASE Read(t)
  BY <1>1
<1>2. CASE Start(t) \/ IdleTick(t) \/ Pick(t) \/ ReadUnreadable(t) \/ Take(t)
           \/ Validate(t) \/ NotBusy(t)
  <2>1. UNCHANGED engine /\ (pc'[t] \in AtWork => pc[t] \in AtWork)
    BY <1>0, <1>2 DEF Start, IdleTick, Pick, ReadUnreadable, Take, Validate, NotBusy, Goto,
       Return, world, box, AtWork, PC
  <2>2. status'.off = status.off
    BY <1>0, <1>2 DEF Start, IdleTick, Pick, ReadUnreadable, Take, Validate, NotBusy, Status
  <2> QED
    BY <2>1, <2>2
<1>3. CASE PutBack(t)
  <2>1. UNCHANGED engine /\ pc[t] \in AtWork
    BY <1>3 DEF PutBack, Defer, Unlink, Rewrite, Fill, world, box, AtWork, PC
  <2>2. status'.off = status.off
    BY <1>0, <1>3 DEF PutBack, Defer, Unlink, Rewrite, Fill, Status
  <2> QED
    BY <2>1, <2>2
<1>4. CASE ServeReturns(t)
  BY <1>4 DEF ServeReturns
<1>5. CASE StartServe(t) \/ NoSwitch(t) \/ AssertTook(t) \/ Probe(t) \/ StartRun(t)
           \/ EvalEnds(t) \/ DownloadEnds(t)
  <2>1. UNCHANGED engine /\ pc[t] \in AtWork
    BY <1>5 DEF StartServe, NoSwitch, AssertTook, Probe, StartRun, EvalEnds,
       DownloadEnds, world, box, AtWork, PC
  <2>2. status'.off = status.off
    BY <1>0, <1>5 DEF StartServe, NoSwitch, AssertTook, Probe, StartRun, EvalEnds,
       DownloadEnds, Status
  <2> QED
    BY <2>1, <2>2
<1>6. CASE StartRestore(t)
  <2>1. UNCHANGED engine /\ pc[t] \in AtWork
    BY <1>6 DEF StartRestore, world, box, AtWork, PC
  <2>2. status'.off = status.off
    BY <1>0, <1>6 DEF StartRestore, Status
  <2> QED
    BY <2>1, <2>2
<1>7. CASE LeaveExplicit(t) \/ AlreadyBaseline(t) \/ RestoreRaises(t)
  <2>1. UNCHANGED engine /\ pc'[t] = "record"
    BY <1>0, <1>7 DEF LeaveExplicit, AlreadyBaseline, RestoreRaises, Goto, world, box
  <2>2. status'.off # "null" /\ (status'.off = "no" => engine = Baseline)
    BY <1>0, <1>7 DEF LeaveExplicit, AlreadyBaseline, RestoreRaises, Status
  <2> QED
    BY <2>1, <2>2
<1>8. CASE RestoreReturns(t)
  <2>1. pc'[t] = "record"
    BY <1>0, <1>8 DEF RestoreReturns, Goto
  <2>2. PICK o \in ServeOutcomes(Baseline, Here) :
          /\ Becomes(o.box)
          /\ status' = [status EXCEPT
                          !.restored = IF o.rc = "zero" THEN "yes" ELSE "no",
                          !.off = IF o.rc = "zero" THEN "no" ELSE "yes"]
    BY <1>8 DEF RestoreReturns
  <2>3. status'.off # "null" /\ (status'.off = "no" => o.rc = "zero")
    BY <1>0, <2>2 DEF Status
  <2>4. ServeFaithful /\ o.rc = "zero" => o.box.after = Baseline
    BY DEF ServeOutcomes, ServeSucceeds, ServeFails, Switched
  <2> QED
    BY <2>1, <2>2, <2>3, <2>4 DEF Becomes
<1>9. CASE Finish(t)
  <2>1. UNCHANGED engine /\ pc'[t] \notin AtWork
    BY <1>0, <1>9 DEF Finish, Record, Publish, Archive, Goto, Return, world, box, AtWork, PC
  <2>2. status'.off = status.off
    BY <1>0, <1>9 DEF Finish, Record, Publish, Archive, Status
  <2> QED
    BY <2>1, <2>2
<1>10. CASE RequeueRaises(t) \/ ArchiveRaises(t) \/ Crash(t)
  <2>1. UNCHANGED status /\ pc'[t] \notin AtWork
    BY <1>0, <1>10 DEF RequeueRaises, ArchiveRaises, Crash, Return, AtWork, PC
  <2>2. pc[t] \in {"switching", "restoring"} \/ UNCHANGED engine
    BY <1>10 DEF RequeueRaises, ArchiveRaises, Crash, world, box, Becomes, Here
  <2> QED
    BY <2>1, <2>2
<1> QED
  BY <1>1, <1>2, <1>3, <1>4, <1>5, <1>6, <1>7, <1>8, <1>9, <1>10
  DEF Step, Fault, PickUp, Execute, BringBack

\* A job's document starts with a null receipt, and only the end of the finally
\* clause fills it in.
LEMMA ReceiptStep == BaseInv /\ ReceiptInv /\ [Next]_vars => ReceiptInv'
<1> SUFFICES ASSUME BaseInv, ReceiptInv, [Next]_vars PROVE ReceiptInv'
  OBVIOUS
<1>1. CASE UNCHANGED <<status, pc>>
  BY <1>1 DEF ReceiptInv
<1>2. ASSUME NEW t \in Tick, Step(t) \/ Fault(t) PROVE ReceiptInv'
  <2>1. \A s \in Tick : pc'[s] \in AtWork => s = t
    BY <1>2, OnlyOne DEF AtWork
  <2>2. CASE Read(t)
    BY <2>2 DEF Read, default_doc, ReceiptInv
  <2>3. CASE /\ status'.off = status.off
             /\ pc'[t] \in AtWork => pc[t] \in AtWork
    BY <2>1, <2>3 DEF ReceiptInv
  <2>4. CASE status'.off = status.off /\ pc[t] \in {"switching", "restoring"}
    BY <2>3, <2>4 DEF AtWork, PC
  <2>5. CASE pc'[t] = "record"
    BY <2>1, <2>5 DEF ReceiptInv, AtWork
  <2> QED
    BY <1>2, <2>2, <2>3, <2>4, <2>5, ReceiptMoves
<1>3. CASE UNCHANGED vars \/ World \/ \E n \in Name : Post(n)
  BY <1>1, <1>3, WorldMoves DEF vars, Post
<1> QED
  BY <1>2, <1>3 DEF Next

LEMMA ReceiptInvariant == Spec => []ReceiptInv
<1>1. Init => ReceiptInv
  BY DEF Init, ReceiptInv, AtWork
<1> QED
  BY <1>1, ReceiptStep, BaseInvariant, PTL DEF Spec

\* README rule 5: as long as exit status 0 of serve.sh means what the restore
\* takes it to mean, the receipt never calls home a box that is not, and once it
\* does, no step of a tick, a crash or a restart takes the box away from home
\* under it: only an engine that dies or comes back by itself can.
THEOREM ReceiptAlwaysTruthful ==
  ASSUME ServeFaithful
  PROVE  Spec => ReceiptTruthful
<1> DEFINE True == \/ engine' = Baseline
                   \/ status.off = "no" /\ engine' \in {engine, None} \cup behind
<1>1. ASSUME BaseInv, ReceiptInv, [Next]_vars, status'.off = "no" PROVE True
  <2>1. CASE UNCHANGED status /\ engine' \in {engine, None} \cup behind
    BY <1>1, <2>1
  <2>2. ASSUME NEW t \in Tick, Step(t) \/ Fault(t) PROVE True
    <3>1. ~Read(t)
      BY <1>1 DEF Read, default_doc
    <3>2. CASE status'.off = status.off /\ UNCHANGED engine
      BY <1>1, <3>2
    <3>3. CASE status'.off = status.off /\ pc[t] \in {"switching", "restoring"}
      BY <1>1, <3>3 DEF ReceiptInv, AtWork, PC
    <3>4. CASE ServeFaithful /\ status'.off = "no" => engine' = Baseline
      BY <1>1, <3>4
    <3> QED
      BY <1>1, <2>2, <3>1, <3>2, <3>3, <3>4, ReceiptMoves
  <2>3. CASE UNCHANGED vars \/ World \/ \E n \in Name : Post(n)
    BY <2>1, <2>3, WorldMoves DEF vars, Post, world, box
  <2> QED
    BY <1>1, <2>2, <2>3 DEF Next
<1>2. BaseInv /\ ReceiptInv /\ [Next]_vars => [status'.off = "no" => True]_vars
  BY <1>1
<1> QED
  BY <1>2, BaseInvariant, ReceiptInvariant, PTL DEF Spec, ReceiptTruthful

\* Status.resume: the receipt is blanked by a tick that has read the next job,
\* and whose file is still in the queue, and by nothing else.
THEOREM ReceiptAlwaysKept == Spec => ReceiptKept
<1>1. ASSUME BaseInv, [Next]_vars, status.off # "null", status'.off = "null"
      PROVE  \E t \in Tick : JustRead(t)'
  <2>1. PICK t \in Tick : Step(t) \/ Fault(t)
    BY <1>1, WorldMoves DEF Next, vars, Post
  <2>2. Read(t)
    BY <1>1, <2>1, ReceiptMoves
  <2>3. /\ path[t] \in Name /\ queue'[path[t]] = queue[path[t]]
        /\ pc'[t] = "take" /\ job'[t] = queue[path[t]]
    BY <1>1, <2>2 DEF Read, Goto, BaseInv, TypeInv, TypeOK, ProcessOK
  <2> QED
    BY <2>3 DEF JustRead, Queued
<1>2. BaseInv /\ [Next]_vars =>
        [status.off # "null" /\ status'.off = "null" =>
           \E t \in Tick : JustRead(t)']_vars
  BY <1>1
<1> QED
  BY <1>2, BaseInvariant, PTL DEF Spec, ReceiptKept

-----------------------------------------------------------------------------
(* Every verdict is accounted for.                                         *)

\* A job on its way to "done" has been through the finally clause.
DoneInv ==
  /\ DoneIsAccountedFor
  /\ \A t \in Tick :
       pc[t] \in {"record", "publish"} /\ FinalState(res[t]) = "done" =>
         status.off # "null"

\* How a step of a tick can come to a verdict.
LEMMA DoneMoves ==
  ASSUME BaseInv, NEW t \in Tick, Step(t) \/ Fault(t)
  PROVE  \/ /\ status'.state \in {status.state, "idle", "running", "queued", "failed"}
            /\ pc'[t] \notin {"record", "publish"}
         \/ pc'[t] = "record" /\ UNCHANGED status /\ FinalState(res'[t]) = "failed"
         \/ pc'[t] = "record" /\ status'.off # "null"
         \/ pc[t] = "record" /\ pc'[t] = "publish" /\ UNCHANGED <<status, res>>
         \/ /\ pc[t] = "publish" /\ pc'[t] = "archive"
            /\ status'.state = FinalState(res[t])
<1>0. pc \in [Tick -> PC] /\ status \in Status /\ res \in [Tick -> Result]
  BY DEF BaseInv, TypeInv, TypeOK, ProcessOK, FilesOK
<1>1. CASE Validate(t) /\ pc'[t] # "busy"
  BY <1>0, <1>1 DEF Validate, Goto, FinalState
<1>2. CASE LeaveExplicit(t) \/ AlreadyBaseline(t) \/ RestoreReturns(t) \/ RestoreRaises(t)
  <2>1. pc'[t] = "record" /\ pc[t] # "read"
    BY <1>0, <1>2 DEF LeaveExplicit, AlreadyBaseline, RestoreReturns, RestoreRaises, Goto
  <2>2. status'.off # "null"
    BY <1>0, <1>2 DEF LeaveExplicit, AlreadyBaseline, RestoreReturns, RestoreRaises, Status
  <2> QED
    BY <2>1, <2>2
<1>3. CASE Record(t)
  BY <1>0, <1>3 DEF Record, Goto, locals
<1>4. CASE Publish(t)
  BY <1>0, <1>4 DEF Publish, Goto, Status
<1>5. CASE IdleTick(t) \/ ReadUnreadable(t) \/ Read(t) \/ Defer(t) \/ StartServe(t)
           \/ StartRun(t) \/ StartRestore(t)
  <2>1. status'.state \in {status.state, "idle", "running", "queued", "failed"}
    <3>1. CASE Read(t)
      BY <3>1 DEF Read, default_doc
    <3>2. CASE IdleTick(t) \/ ReadUnreadable(t) \/ Defer(t)
      BY <1>0, <3>2 DEF IdleTick, ReadUnreadable, Defer, Status
    <3>3. CASE StartServe(t) \/ StartRun(t) \/ StartRestore(t)
      BY <1>0, <3>3 DEF StartServe, StartRun, StartRestore, Status
    <3> QED
      BY <1>5, <3>1, <3>2, <3>3
  <2>2. pc'[t] \notin {"record", "publish"}
    BY <1>0, <1>5 DEF IdleTick, ReadUnreadable, Read, Defer, StartServe, StartRun,
       StartRestore, Raise, Goto, Return
  <2> QED
    BY <2>1, <2>2
<1>6. CASE UNCHANGED status /\ pc'[t] \notin {"record", "publish"}
  BY <1>6
<1>7. CASE Start(t) \/ Pick(t) \/ NotBusy(t) \/ Unlink(t) \/ Rewrite(t) \/ Fill(t)
           \/ NoSwitch(t) \/ ServeReturns(t) \/ AssertTook(t) \/ Probe(t)
           \/ EvalEnds(t) \/ DownloadEnds(t) \/ Archive(t)
  BY <1>0, <1>6, <1>7 DEF Start, Pick, NotBusy, Unlink, Rewrite, Fill, NoSwitch,
     ServeReturns, AssertTook, Probe, EvalEnds, DownloadEnds, Archive, Raise, Goto, Return
<1>8. CASE Validate(t) /\ pc'[t] = "busy"
  BY <1>6, <1>8 DEF Validate
<1>9. CASE RequeueRaises(t) \/ ArchiveRaises(t) \/ Crash(t)
  BY <1>0, <1>6, <1>9 DEF RequeueRaises, ArchiveRaises, Crash, Return
<1>10. CASE Take(t)
  <2>1. status'.state = "running"
    BY <1>0, <1>10 DEF Take, Status
  <2>2. pc'[t] = "validate"
    BY <1>0, <1>10 DEF Take, Goto
  <2> QED
    BY <2>1, <2>2
<1> QED
  BY <1>1, <1>2, <1>3, <1>4, <1>5, <1>7, <1>8, <1>9, <1>10
  DEF Step, Fault, PickUp, PutBack, Execute, BringBack, Finish

\* A verdict of "done" is published over a receipt that has been filled in, and
\* the receipt is blanked only together with the verdict.
LEMMA DoneStep == BaseInv /\ DoneInv /\ [Next]_vars => DoneInv'
<1> SUFFICES ASSUME BaseInv, DoneInv, [Next]_vars PROVE DoneInv'
  OBVIOUS
<1>1. CASE UNCHANGED <<status, pc, res>>
  BY <1>1 DEF DoneInv, DoneIsAccountedFor, FinalState
<1>2. ASSUME NEW t \in Tick, Step(t) \/ Fault(t) PROVE DoneInv'
  <2>1. \A s \in Tick : pc'[s] \in {"record", "publish"} => s = t
    BY <1>2, OnlyOne
  <2>2. status'.off # "null" \/ status.off = "null" \/ status'.state # "done"
    BY <1>2, ReceiptMoves DEF Read, default_doc
  <2>3. CASE /\ status'.state \in {status.state, "idle", "running", "queued", "failed"}
             /\ pc'[t] \notin {"record", "publish"}
    BY <2>1, <2>2, <2>3 DEF DoneInv, DoneIsAccountedFor
  <2>4. CASE pc'[t] = "record" /\ UNCHANGED status /\ FinalState(res'[t]) = "failed"
    BY <2>1, <2>4 DEF DoneInv, DoneIsAccountedFor, FinalState
  <2>5. CASE pc'[t] = "record" /\ status'.off # "null"
    BY <2>1, <2>5 DEF DoneInv, DoneIsAccountedFor
  <2>6. CASE pc[t] = "record" /\ pc'[t] = "publish" /\ UNCHANGED <<status, res>>
    BY <2>1, <2>6 DEF DoneInv, DoneIsAccountedFor, FinalState
  <2>7. CASE /\ pc[t] = "publish" /\ pc'[t] = "archive"
             /\ status'.state = FinalState(res[t])
    BY <2>1, <2>2, <2>7 DEF DoneInv, DoneIsAccountedFor
  <2> QED
    BY <1>2, <2>3, <2>4, <2>5, <2>6, <2>7, DoneMoves
<1>3. CASE UNCHANGED vars \/ World \/ \E n \in Name : Post(n)
  BY <1>1, <1>3, WorldMoves DEF vars, Post, locals
<1> QED
  BY <1>2, <1>3 DEF Next

\* README rules 4 and 5: no job is published as done with the question of where
\* the box was left unanswered, whatever its run, its switch or a fault did.
THEOREM DoneAlwaysAccountedFor == Spec => []DoneIsAccountedFor
<1>1. Init => DoneInv
  BY DEF Init, default_doc, DoneInv, DoneIsAccountedFor
<1>2. DoneInv => DoneIsAccountedFor
  BY DEF DoneInv
<1> QED
  BY <1>1, <1>2, DoneStep, BaseInvariant, PTL DEF Spec
=============================================================================
