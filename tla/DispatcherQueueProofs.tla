------------------------ MODULE DispatcherQueueProofs ------------------------
(***************************************************************************)
(* What becomes of the jobs: the numbers behind the queue's files, how     *)
(* often a job can be finished, and how long the history gets.             *)
(***************************************************************************)
EXTENDS DispatcherBoard, DispatcherProofs, FiniteSetTheorems, FunctionTheorems

-----------------------------------------------------------------------------
(* The queue's files.                                                      *)

\* main has no job until it has read one, and none once it has returned.
JobLater == \A t \in Tick : pc[t] \in {"off", "pick", "read"} => job[t] = NoJob

\* Only jobs that were posted are in a file, in hand or in the history.
Numbered ==
  /\ \A n \in Name : queue[n] \in Id => queue[n] <= posted
  /\ \A t \in Tick : job[t] <= posted
  /\ \A i \in 1..Len(history) : history[i].id <= posted

\* No job is in two files, and the one in hand is in no other than its own.
OneFile ==
  /\ \A m, n \in Name : queue[m] \in Id /\ queue[m] = queue[n] => m = n
  /\ \A t \in Tick, n \in Name : job[t] # NoJob /\ queue[n] = job[t] => n = path[t]

\* A verdict is in the history from finish()'s first step to its last.
ClosingSettled == \A t \in Tick : Closing(t) => Settled(job[t])

FileInv == JobLater /\ Numbered /\ OneFile /\ ClosingSettled

\* The steps of a put-back at which the job is in no file.
Bare == {"rewrite", "fill"}

\* The steps that leave every job where it is.
Quiet(t) ==
  /\ UNCHANGED <<ask, posted, queue, job, history, outside>>
  /\ \E l \in PC : pc' = [pc EXCEPT ![t] = l]
  /\ pc[t] \notin Bare /\ pc'[t] \notin Bare
  /\ pc'[t] = "unlink" => outside
  /\ Closing(t)' <=> Closing(t)
  /\ pc'[t] \in {"off", "pick", "read"} => job[t] = NoJob
  /\ path' # path => job[t] = NoJob
  /\ UNCHANGED box \/ pc[t] \in {"switching", "restoring"}
  /\ UNCHANGED spent \/ (spent.fault < MaxFaults /\ Spend("fault"))

-----------------------------------------------------------------------------
(* How often a job is finished.                                            *)

\* Jobs that a tick may yet finish: in a file, or in hand and not finished.
Pending == BoardWaiting \cup BoardHeld

Failures == spent.crash + spent.fault

Verdicts(id) == {i \in 1..Len(history) : history[i].id = id}

\* A job that may yet be finished has used up one failure for each verdict.
RunsInv ==
  \A id \in Id :
    Cardinality(Verdicts(id)) + (IF id \in Pending THEN 1 ELSE 0) <= 1 + Failures

\* Jobs that were posted and that nothing but a failure brings back.
Spare == (1..posted) \ Pending

\* All the verdicts together.
HistoryInv == Len(history) <= Cardinality(Spare) + Failures

-----------------------------------------------------------------------------
(* A step of a tick, as far as the jobs are concerned.                     *)

\* Every step of a tick leaves the jobs where they are, or is one of the ten
\* that do not.
LEMMA QueueMoves ==
  ASSUME BaseInv, JobLater, NEW t \in Tick, Step(t) \/ Fault(t)
  PROVE  \/ Quiet(t)
         \/ ReadUnreadable(t) \/ Read(t) \/ Unlink(t) \/ Rewrite(t) \/ Fill(t)
         \/ Record(t) \/ Archive(t)
         \/ RequeueRaises(t) \/ ArchiveRaises(t) \/ Crash(t)
<1>0. /\ pc \in [Tick -> PC] /\ job \in [Tick -> Id \cup {NoJob}]
      /\ path \in [Tick -> Name \cup {NoName}]
      /\ pc[t] \notin {"off", "pick", "read"} => job[t] \in Id
  BY DEF BaseInv, TypeInv, TypeOK, ProcessOK
<1>1. CASE Start(t) \/ Pick(t)
  <2>1. /\ UNCHANGED <<ask, posted, queue, job, history, box, spent, outside>>
        /\ \E l \in {"pick", "read"} : pc' = [pc EXCEPT ![t] = l]
        /\ pc[t] \in {"off", "pick"}
    BY <1>1 DEF Start, Pick, Goto, web, locals, world
  <2>2. job[t] = NoJob
    BY <2>1 DEF JobLater
  <2> QED
    BY <1>0, <2>1, <2>2 DEF Quiet, Closing, Bare, PC
<1>2. CASE IdleTick(t)
  <2>1. /\ UNCHANGED <<ask, posted, queue, history, box, spent, outside>>
        /\ pc' = [pc EXCEPT ![t] = "off"]
        /\ job' = [job EXCEPT ![t] = NoJob]
        /\ pc[t] = "pick"
    BY <1>2 DEF IdleTick, Return, web, world
  <2>2. job[t] = NoJob /\ job' = job
    BY <1>0, <2>1 DEF JobLater
  <2> QED
    BY <1>0, <2>1, <2>2 DEF Quiet, Closing, Bare, PC
<1>3. CASE /\ UNCHANGED <<ask, posted, queue, job, history, path, outside>>
           /\ UNCHANGED box \/ pc[t] \in {"switching", "restoring"}
           /\ UNCHANGED spent \/ (spent.fault < MaxFaults /\ Spend("fault"))
           /\ pc[t] \notin {"off", "pick", "read"} \cup Bare
           /\ \E l \in PC \ ({"off", "pick", "read"} \cup Bare) :
                /\ pc' = [pc EXCEPT ![t] = l]
                /\ l = "unlink" => outside
                /\ l \in {"publish", "archive"} <=> pc[t] \in {"publish", "archive"}
  BY <1>0, <1>3 DEF Quiet, Closing, Bare
<1>4. CASE Take(t) \/ Validate(t) \/ NotBusy(t) \/ Defer(t) \/ StartServe(t)
           \/ NoSwitch(t)
  BY <1>3, <1>4 DEF Take, Validate, NotBusy, Defer, StartServe, NoSwitch, Goto, web, locals,
     world, PC, Bare
<1>5. CASE ServeReturns(t) \/ AssertTook(t) \/ Probe(t) \/ StartRun(t) \/ EvalEnds(t)
           \/ DownloadEnds(t)
  BY <1>3, <1>5 DEF ServeReturns, AssertTook, Probe, StartRun, EvalEnds, DownloadEnds,
     Raise, Goto, web, world, PC, Bare
<1>6. CASE BringBack(t) \/ RestoreRaises(t)
  BY <1>3, <1>6 DEF BringBack, LeaveExplicit, AlreadyBaseline, StartRestore,
     RestoreReturns, RestoreRaises, Goto, web, locals, world, PC, Bare
<1>7. CASE Publish(t)
  <2>1. /\ UNCHANGED <<ask, posted, queue, job, history, path, outside, box, spent>>
        /\ pc[t] = "publish" /\ pc' = [pc EXCEPT ![t] = "archive"]
    BY <1>7 DEF Publish, Goto, web, locals, world
  <2>2. "archive" \in PC
    BY DEF PC
  <2> QED
    BY <1>0, <2>1, <2>2 DEF Quiet, Closing, Bare
<1> QED
  BY <1>1, <1>2, <1>4, <1>5, <1>6, <1>7
  DEF Step, Fault, PickUp, PutBack, Execute, Finish

\* While one tick is past the flock the board's sets are about that one alone.
InHand ==
  \A t \in Tick :
    (\A s \in Tick : s # t => pc[s] = "off") =>
      /\ BoardHeld = IF job[t] # NoJob /\ ~Closing(t) THEN {job[t]} ELSE {}
      /\ BoardClosing = IF Closing(t) THEN {job[t]} ELSE {}

LEMMA OneInHand == JobLater => InHand
BY DEF JobLater, InHand, BoardHeld, BoardClosing, Closing

\* Both before and after a step of a tick.
LEMMA StepInHand ==
  ASSUME BaseInv, JobLater, JobLater', NEW t \in Tick, Step(t) \/ Fault(t)
  PROVE  /\ BoardHeld = IF job[t] # NoJob /\ ~Closing(t) THEN {job[t]} ELSE {}
         /\ BoardClosing = IF Closing(t) THEN {job[t]} ELSE {}
         /\ BoardHeld' = IF job'[t] # NoJob /\ ~Closing(t)' THEN {job'[t]} ELSE {}
         /\ BoardClosing' = IF Closing(t)' THEN {job'[t]} ELSE {}
<1>1. \A s \in Tick : s # t => pc[s] = "off" /\ pc'[s] = "off"
  BY OnlyOne
<1>2. InHand
  BY OneInHand
<1>3. InHand'
  BY OneInHand, PTL
<1> QED
  BY <1>1, <1>2, <1>3 DEF InHand

-----------------------------------------------------------------------------
(* What finish() does to the history.                                      *)

\* hist["jobs"][-200:] drops some entries at the front, never the last one,
\* and none while the list is short enough.
LEMMA LastEntriesShift ==
  ASSUME NEW s \in Seq(Entry), Len(s) > 0
  PROVE  \E k \in 0..(Len(s) - 1) :
           /\ Len(LastEntries(s)) = Len(s) - k
           /\ \A i \in 1..(Len(s) - k) : LastEntries(s)[i] = s[i + k]
           /\ Len(s) <= HistoryCap => k = 0
<1>0. HistoryCap \in Nat \ {0} /\ Len(s) \in Nat
  BY BoundsAssumption
<1>1. CASE Len(s) > HistoryCap
  <2> DEFINE d == Len(s) - HistoryCap
  <2>1. LastEntries(s) = SubSeq(s, d + 1, Len(s))
    BY <1>0, <1>1 DEF LastEntries
  <2>2. d \in 0..(Len(s) - 1) /\ d + 1 \in 1..Len(s) /\ Len(s) \in 1..Len(s)
    BY <1>0, <1>1
  <2>3. \A i \in (d + 1)..Len(s) : s[i] \in Entry
    BY <1>0, <2>2
  <2>4. /\ Len(SubSeq(s, d + 1, Len(s))) = Len(s) - (d + 1) + 1
        /\ \A i \in 1..(Len(s) - (d + 1) + 1) :
             SubSeq(s, d + 1, Len(s))[i] = s[(d + 1) + i - 1]
    BY <1>0, <1>1, <2>2, <2>3, SubSeqProperties
  <2>5. Len(LastEntries(s)) = Len(s) - d
    BY <1>0, <2>1, <2>2, <2>4
  <2>6. \A i \in 1..(Len(s) - d) : LastEntries(s)[i] = s[i + d]
    BY <1>0, <2>1, <2>2, <2>4
  <2>7. Len(s) <= HistoryCap => d = 0
    BY <1>0, <1>1
  <2> HIDE DEF d
  <2> QED
    BY <2>2, <2>5, <2>6, <2>7
<1>2. CASE ~(Len(s) > HistoryCap)
  BY <1>0, <1>2 DEF LastEntries
<1> QED
  BY <1>1, <1>2

\* Record appends the job's entry; the ids before it may lose their oldest.
LEMMA RecordHistory ==
  ASSUME BaseInv, NEW t \in Tick, Record(t)
  PROVE  \E k \in 0..Len(history) :
           /\ Len(history') = Len(history) + 1 - k
           /\ \A i \in 1..(Len(history) - k) : history'[i].id = history[i + k].id
           /\ history'[Len(history) + 1 - k].id = job[t]
           /\ Len(history) < HistoryCap => k = 0
<1> DEFINE e == [id |-> job[t], state |-> FinalState(res[t]), result |-> res[t]]
           s == Append(history, e)
<1>0. HistoryCap \in Nat /\ history \in Seq(Entry) /\ Len(history) \in Nat
  BY BoundsAssumption DEF BaseInv, TypeInv, TypeOK, FilesOK
<1>1. e \in Entry
  BY FinalStateType DEF BaseInv, TypeInv, TypeOK, ProcessOK, Record, Entry
<1>2. /\ s \in Seq(Entry) /\ Len(s) = Len(history) + 1
      /\ \A i \in 1..Len(history) : s[i] = history[i]
      /\ s[Len(history) + 1] = e
  BY <1>0, <1>1
<1>3. history' = LastEntries(s)
  BY DEF Record
<1>6. Len(s) > 0
  BY <1>0, <1>2
<1> HIDE DEF s
<1>4. PICK k \in 0..(Len(s) - 1) :
        /\ Len(LastEntries(s)) = Len(s) - k
        /\ \A i \in 1..(Len(s) - k) : LastEntries(s)[i] = s[i + k]
        /\ Len(s) <= HistoryCap => k = 0
  BY <1>2, <1>6, LastEntriesShift
<1>5. ASSUME NEW i \in 1..(Len(history) - k) PROVE history'[i] = history[i + k]
  <2>1. i \in 1..(Len(s) - k) /\ i + k \in 1..Len(history)
    BY <1>0, <1>2, <1>4
  <2> QED
    BY <1>2, <1>3, <1>4, <2>1
<1>7. history'[Len(history) + 1 - k] = e
  <2>1. /\ Len(history) + 1 - k \in 1..(Len(s) - k)
        /\ (Len(history) + 1 - k) + k = Len(history) + 1
    BY <1>0, <1>2, <1>4
  <2> QED
    BY <1>2, <1>3, <1>4, <2>1
<1>8. Len(history') = Len(history) + 1 - k /\ k \in 0..Len(history)
  BY <1>0, <1>2, <1>3, <1>4
<1>9. e.id = job[t]
  OBVIOUS
<1>10. Len(history) < HistoryCap => k = 0
  BY <1>0, <1>2, <1>4
<1> HIDE DEF e
<1> QED
  BY <1>5, <1>8, <1>9, <1>10, <1>7

-----------------------------------------------------------------------------
(* The queue's files keep their shape.                                     *)

\* Return, or a step of the part of main that has its job.
LEMMA JobLaterStep ==
  ASSUME BaseInv, JobLater, NEW t \in Tick, Step(t) \/ Fault(t)
  PROVE  JobLater'
<1>0. pc \in [Tick -> PC] /\ job \in [Tick -> Id \cup {NoJob}]
  BY DEF BaseInv, TypeInv, TypeOK, ProcessOK
<1>1. CASE Quiet(t)
  BY <1>0, <1>1 DEF Quiet, JobLater
<1>2. CASE Return(t)
  BY <1>0, <1>2 DEF Return, JobLater
<1>3. CASE /\ \E l \in PC \ {"off", "pick", "read"} : pc' = [pc EXCEPT ![t] = l]
           /\ \E j : job' = [job EXCEPT ![t] = j]
  BY <1>0, <1>3 DEF JobLater
<1>4. CASE Read(t)
  BY <1>3, <1>4 DEF Read, Goto, PC
<1>5. CASE Unlink(t) \/ Rewrite(t) \/ Record(t)
  <2>1. \E l \in PC \ {"off", "pick", "read"} : pc' = [pc EXCEPT ![t] = l]
    BY <1>5 DEF Unlink, Rewrite, Record, Goto, PC
  <2>2. job' = [job EXCEPT ![t] = job[t]]
    BY <1>0, <1>5 DEF Unlink, Rewrite, Record, locals
  <2> QED
    BY <1>3, <2>1, <2>2
<1> QED
  BY <1>1, <1>2, <1>4, <1>5, QueueMoves
  DEF ReadUnreadable, Fill, Archive, RequeueRaises, ArchiveRaises, Crash

\* Jobs are moved about; none is made up.
LEMMA NumberedStep ==
  ASSUME BaseInv, JobLater, Numbered, NEW t \in Tick, Step(t) \/ Fault(t)
  PROVE  Numbered'
<1>0. /\ job \in [Tick -> Id \cup {NoJob}] /\ queue \in [Name -> Content]
      /\ posted \in 0..MaxPosts /\ history \in Seq(Entry)
      /\ pc[t] \notin {"off", "pick"} => path[t] \in Name
  BY DEF BaseInv, TypeInv, TypeOK, ProcessOK, FilesOK
<1>1. posted \in Nat /\ NoJob <= posted /\ NoFile \notin Id /\ Torn \notin Id
  BY <1>0, BoundsAssumption DEF NoJob, NoFile, Torn, Id
<1>2. CASE UNCHANGED <<posted, queue, job, history>>
  BY <1>2 DEF Numbered
<1>3. CASE UNCHANGED <<posted, queue, history>> /\ Return(t)
  BY <1>0, <1>1, <1>3 DEF Numbered, Return
<1>4. CASE Read(t)
  <2>1. /\ UNCHANGED <<posted, queue, history>>
        /\ job' = [job EXCEPT ![t] = queue[path[t]]]
        /\ queue[path[t]] <= posted
    BY <1>0, <1>4 DEF Read, Numbered, web
  <2> QED
    BY <1>0, <2>1 DEF Numbered
<1>5. CASE \/ ReadUnreadable(t) \/ Archive(t) \/ Fill(t)
           \/ Unlink(t) \/ Rewrite(t)
  <2>1. UNCHANGED <<posted, history>>
    BY <1>5 DEF ReadUnreadable, Archive, Fill, Unlink, Rewrite, web
  <2>2. job' = job \/ job' = [job EXCEPT ![t] = NoJob]
    BY <1>5 DEF ReadUnreadable, Archive, Fill, Unlink, Rewrite, Return, locals
  <2>3. \E c \in {NoFile, Torn, job[t]} : queue' = [queue EXCEPT ![path[t]] = c]
    BY <1>5 DEF ReadUnreadable, Archive, Fill, Unlink, Rewrite
  <2> QED
    BY <1>0, <1>1, <2>1, <2>2, <2>3 DEF Numbered
<1>6. CASE Record(t)
  <2>1. UNCHANGED <<posted, queue, job>>
    BY <1>6 DEF Record, web, locals
  <2>2. PICK k \in 0..Len(history) :
          /\ Len(history') = Len(history) + 1 - k
          /\ \A i \in 1..(Len(history) - k) : history'[i].id = history[i + k].id
          /\ history'[Len(history) + 1 - k].id = job[t]
    BY <1>6, RecordHistory
  <2>3. \A i \in 1..Len(history') : history'[i].id <= posted
    BY <1>0, <2>2 DEF Numbered
  <2> QED
    BY <2>1, <2>3 DEF Numbered
<1> QED
  BY <1>2, <1>3, <1>4, <1>5, <1>6, QueueMoves
  DEF Quiet, RequeueRaises, ArchiveRaises, Crash, web

\* A job is written back into the file it was read from, which was taken away.
LEMMA OneFileStep ==
  ASSUME BaseInv, JobLater, OneFile, NEW t \in Tick, Step(t) \/ Fault(t)
  PROVE  OneFile'
<1>0. /\ job \in [Tick -> Id \cup {NoJob}] /\ queue \in [Name -> Content]
      /\ path \in [Tick -> Name \cup {NoName}] /\ pc \in [Tick -> PC]
      /\ pc[t] \notin {"off", "pick"} => path[t] \in Name
      /\ pc[t] \notin {"off", "pick", "read"} => job[t] \in Id
  BY DEF BaseInv, TypeInv, TypeOK, ProcessOK, FilesOK
<1>1. NoJob \notin Id /\ NoFile \notin Id /\ Torn \notin Id /\ NoFile = NoJob
  BY BoundsAssumption DEF NoJob, NoFile, Torn, Id
<1>2. CASE Quiet(t)
  <2>1. UNCHANGED <<queue, job>> /\ (path' = path \/ job[t] = NoJob)
    BY <1>2 DEF Quiet
  <2>2. \A s \in Tick : s # t => job[s] = NoJob
    BY <1>0, OnlyOne DEF JobLater
  <2> QED
    BY <2>1, <2>2 DEF OneFile
<1>3. CASE UNCHANGED queue /\ Return(t)
  BY <1>0, <1>3 DEF OneFile, Return
<1>4. CASE Read(t)
  <2>1. /\ pc[t] = "read" /\ queue[path[t]] \in Id
        /\ job' = [job EXCEPT ![t] = queue[path[t]]]
        /\ UNCHANGED <<queue, path>>
    BY <1>4 DEF Read
  <2> QED
    BY <1>0, <2>1 DEF OneFile
<1>5. CASE ReadUnreadable(t) \/ Archive(t) \/ Unlink(t) \/ Rewrite(t)
  <2>1. /\ pc[t] \notin {"off", "pick"}
        /\ (job' = job /\ path' = path) \/ Return(t)
        /\ \E c \in {NoFile, Torn} : queue' = [queue EXCEPT ![path[t]] = c]
    BY <1>5 DEF ReadUnreadable, Archive, Unlink, Rewrite, locals
  <2>2. \A n \in Name : queue'[n] \in Id => queue'[n] = queue[n]
    BY <1>0, <1>1, <2>1
  <2>3. \A s \in Tick : job'[s] # NoJob => job'[s] = job[s] /\ path'[s] = path[s]
    BY <1>0, <2>1 DEF Return
  <2>4. \A s \in Tick : job[s] # NoJob => job[s] \in Id
    BY <1>0
  <2>5. \A m, n \in Name : queue'[m] \in Id /\ queue'[m] = queue'[n] => m = n
    BY <2>2 DEF OneFile
  <2>6. \A s \in Tick, n \in Name : job'[s] # NoJob /\ queue'[n] = job'[s] => n = path'[s]
    BY <2>2, <2>3, <2>4 DEF OneFile
  <2> QED
    BY <2>5, <2>6 DEF OneFile
<1>6. CASE Fill(t)
  <2>1. /\ pc[t] = "fill" /\ Return(t)
        /\ queue' = [queue EXCEPT ![path[t]] = job[t]]
    BY <1>6 DEF Fill
  <2>2. /\ path[t] \in Name /\ job[t] \in Id
        /\ \A n \in Name : queue[n] = job[t] => n = path[t]
        /\ \A s \in Tick : job'[s] = NoJob
    BY <1>0, <1>1, <2>1, OnlyOne DEF OneFile, JobLater, Return
  <2> QED
    BY <1>0, <2>1, <2>2 DEF OneFile
<1>7. CASE UNCHANGED <<queue, job, path>>
  BY <1>7 DEF OneFile
<1> QED
  BY <1>2, <1>3, <1>4, <1>5, <1>6, <1>7, QueueMoves
  DEF RequeueRaises, ArchiveRaises, Crash, Record, locals

\* finish() writes the history first, and nobody else writes it meanwhile.
LEMMA ClosingStep ==
  ASSUME BaseInv, JobLater, ClosingSettled, NEW t \in Tick, Step(t) \/ Fault(t)
  PROVE  ClosingSettled'
<1>0. /\ pc \in [Tick -> PC] /\ job \in [Tick -> Id \cup {NoJob}]
      /\ history \in Seq(Entry)
  BY DEF BaseInv, TypeInv, TypeOK, ProcessOK, FilesOK
<1>1. \A s \in Tick : Closing(s)' => s = t
  BY OnlyOne DEF Closing
<1>2. CASE Quiet(t)
  <2>1. UNCHANGED <<job, history>> /\ (Closing(t)' <=> Closing(t))
    BY <1>2 DEF Quiet
  <2> QED
    BY <1>1, <2>1 DEF ClosingSettled, Settled
<1>3. CASE Record(t)
  <2>1. PICK k \in 0..Len(history) :
          /\ Len(history') = Len(history) + 1 - k
          /\ history'[Len(history) + 1 - k].id = job[t]
    BY <1>3, RecordHistory
  <2>2. Len(history) + 1 - k \in 1..Len(history') /\ job' = job
    BY <1>0, <1>3, <2>1 DEF Record, locals
  <2>3. Settled(job[t])'
    BY <2>1, <2>2 DEF Settled
  <2> QED
    BY <1>1, <2>2, <2>3 DEF ClosingSettled, Settled
<1>4. CASE ~Closing(t)'
  BY <1>1, <1>4 DEF ClosingSettled
<1>5. CASE Read(t) \/ Unlink(t) \/ Rewrite(t) \/ Return(t)
  BY <1>0, <1>4, <1>5 DEF Read, Unlink, Rewrite, Return, Goto, Closing
<1> QED
  BY <1>2, <1>3, <1>5, QueueMoves
  DEF ReadUnreadable, Fill, Archive, RequeueRaises, ArchiveRaises, Crash

-----------------------------------------------------------------------------
(* A new job, and the world outside.                                       *)

\* do_POST numbers a job that nobody has seen yet.
LEMMA FileInvPost ==
  ASSUME BaseInv, FileInv, NEW n \in Name, Post(n)
  PROVE  FileInv'
<1>0. /\ job \in [Tick -> Id \cup {NoJob}] /\ queue \in [Name -> Content]
      /\ posted \in 0..MaxPosts /\ history \in Seq(Entry)
  BY DEF BaseInv, TypeInv, TypeOK, ProcessOK, FilesOK
<1>1. /\ posted' = posted + 1 /\ queue' = [queue EXCEPT ![n] = posted + 1]
      /\ UNCHANGED <<pc, job, path, history>>
  BY DEF Post, locals
<1>2. posted + 1 # NoJob /\ posted \in Nat
  BY <1>0, BoundsAssumption DEF NoJob
<1>3. Numbered'
  <2>1. \A m \in Name : queue'[m] \in Id => queue'[m] <= posted'
    BY <1>0, <1>1, <1>2 DEF FileInv, Numbered, Id
  <2>2. \A t \in Tick : job'[t] <= posted'
    BY <1>0, <1>1, <1>2, BoundsAssumption DEF FileInv, Numbered, Id, NoJob
  <2>3. \A i \in 1..Len(history') : history'[i].id <= posted'
    <3>1. \A i \in 1..Len(history) : history[i] \in Entry
      BY <1>0
    <3>2. \A i \in 1..Len(history) : history[i].id \in Nat /\ history[i].id <= posted
      BY <3>1 DEF FileInv, Numbered, Entry, Id
    <3> QED
      BY <1>1, <1>2, <3>2
  <2> QED
    BY <2>1, <2>2, <2>3 DEF Numbered
<1>4. \A m \in Name : queue[m] \in Id => queue[m] # posted + 1
  BY <1>2, BoundsAssumption DEF FileInv, Numbered, Id
<1>5. \A t \in Tick : job[t] # posted + 1
  <2>1. \A t \in Tick : job[t] <= posted /\ job[t] \in Nat
    BY <1>0, BoundsAssumption DEF FileInv, Numbered, Id, NoJob
  <2> QED
    BY <1>2, <2>1
<1>6. OneFile'
  BY <1>0, <1>1, <1>4, <1>5 DEF FileInv, OneFile
<1>7. JobLater' /\ ClosingSettled'
  BY <1>1 DEF FileInv, JobLater, ClosingSettled, Closing, Settled
<1> QED
  BY <1>3, <1>6, <1>7 DEF FileInv

\* The files' part of the invariant, with the base it rests on.
JobsInv == BaseInv /\ FileInv

LEMMA FileInvStep == JobsInv /\ [Next]_vars => FileInv'
<1> SUFFICES ASSUME JobsInv, [Next]_vars PROVE FileInv'
  OBVIOUS
<1> USE DEF JobsInv
<1>1. ASSUME NEW t \in Tick, Step(t) \/ Fault(t) PROVE FileInv'
  BY <1>1, JobLaterStep, NumberedStep, OneFileStep, ClosingStep DEF FileInv
<1>2. ASSUME NEW n \in Name, Post(n) PROVE FileInv'
  BY <1>2, FileInvPost
<1>3. CASE World \/ UNCHANGED vars
  <2>1. UNCHANGED <<posted, queue, history, pc, job, path>>
    BY <1>3, WorldMoves DEF vars, web, locals
  <2> QED
    BY <2>1 DEF FileInv, JobLater, Numbered, OneFile, ClosingSettled, Closing, Settled
<1> QED
  BY <1>1, <1>2, <1>3 DEF Next

LEMMA JobsInvariant == Spec => []JobsInv
<1>1. Init => FileInv
  <2> SUFFICES ASSUME Init PROVE FileInv
    OBVIOUS
  <2>1. /\ \A n \in Name : queue[n] = 0
        /\ \A t \in Tick : job[t] = 0 /\ pc[t] = "off"
        /\ posted = 0 /\ history = << >>
    BY DEF Init, NoFile, NoJob
  <2>2. 0 \notin Id
    BY BoundsAssumption DEF Id
  <2> QED
    BY <2>1, <2>2 DEF FileInv, JobLater, Numbered, OneFile, ClosingSettled, Closing, NoJob
<1> QED
  BY <1>1, FileInvStep, BaseInvariant, PTL DEF Spec, JobsInv

-----------------------------------------------------------------------------
(* What may yet be finished, and how it changes.                           *)

LEMMA PendingIs ==
  \A i : i \in Pending <=> \/ i \in BoardHeld
                           \/ i \in Id /\ Queued(i) /\ i \notin BoardClosing
BY DEF Pending, BoardWaiting

\* A failure is counted once.
LEMMA FailuresMove ==
  ASSUME BaseInv
  PROVE  /\ Failures \in Nat
         /\ Spend("crash") \/ Spend("fault") => Failures' = Failures + 1
<1>1. spent \in [crash : Nat, drift : Nat, outside : Nat, fault : Nat]
  BY BoundsAssumption DEF BaseInv, TypeInv, TypeOK, WorldOK
<1>2. Spend("crash") \/ Spend("fault") =>
        \/ spent'.crash = spent.crash + 1 /\ spent'.fault = spent.fault
        \/ spent'.crash = spent.crash /\ spent'.fault = spent.fault + 1
  BY <1>1 DEF Spend
<1> QED
  BY <1>1, <1>2 DEF Failures

\* Nothing makes a tick take up a job again but a post and a failure, and a
\* verdict is given about a pending job only.
LEMMA PendingMoves ==
  ASSUME JobsInv, NEW t \in Tick, Step(t) \/ Fault(t)
  PROVE  /\ UNCHANGED posted
         /\ \/ /\ UNCHANGED history /\ Pending' \subseteq Pending
               /\ Failures' \in {Failures, Failures + 1}
            \/ /\ Record(t) /\ UNCHANGED spent
               /\ job[t] \in Pending /\ Pending' \subseteq Pending \ {job[t]}
            \/ /\ UNCHANGED history /\ Failures' = Failures + 1
               /\ Pending' \subseteq Pending \cup {job[t]}
<1> USE DEF JobsInv
<1>0. /\ job \in [Tick -> Id \cup {NoJob}] /\ queue \in [Name -> Content]
      /\ pc \in [Tick -> PC]
      /\ pc[t] \notin {"off", "pick"} => path[t] \in Name
      /\ pc[t] \notin {"off", "pick", "read"} => job[t] \in Id
      /\ Failures \in Nat
  BY FailuresMove DEF BaseInv, TypeInv, TypeOK, ProcessOK, FilesOK
<1>1. NoJob \notin Id /\ NoFile \notin Id /\ Torn \notin Id
  BY BoundsAssumption DEF NoJob, NoFile, Torn, Id
<1>2. /\ BoardHeld = IF job[t] # NoJob /\ ~Closing(t) THEN {job[t]} ELSE {}
      /\ BoardClosing = IF Closing(t) THEN {job[t]} ELSE {}
      /\ BoardHeld' = IF job'[t] # NoJob /\ ~Closing(t)' THEN {job'[t]} ELSE {}
      /\ BoardClosing' = IF Closing(t)' THEN {job'[t]} ELSE {}
  BY StepInHand, JobLaterStep DEF FileInv
<1>3. /\ \A i : i \in Pending <=> \/ i \in BoardHeld
                                  \/ i \in Id /\ Queued(i) /\ i \notin BoardClosing
      /\ \A i : i \in Pending' <=> \/ i \in BoardHeld'
                                   \/ i \in Id /\ Queued(i)' /\ i \notin BoardClosing'
  BY PendingIs DEF Pending, BoardWaiting
<1>4. UNCHANGED spent => Failures' \in {Failures, Failures + 1}
  BY <1>0 DEF Failures
<1>5. CASE Quiet(t)
  <2>1. Pending' = Pending /\ UNCHANGED <<posted, history>>
    BY <1>2, <1>3, <1>5 DEF Quiet, Queued
  <2>2. Failures' \in {Failures, Failures + 1}
    BY <1>0, <1>4, <1>5, FailuresMove DEF Quiet
  <2> QED
    BY <2>1, <2>2
<1>6. CASE ReadUnreadable(t)
  <2>1. /\ UNCHANGED <<posted, history, spent>> /\ pc[t] = "read" /\ Return(t)
        /\ queue[path[t]] = Torn /\ queue' = [queue EXCEPT ![path[t]] = NoFile]
    BY <1>6 DEF ReadUnreadable, web
  <2>2. BoardHeld' = {} /\ BoardClosing' = {} /\ BoardClosing = {}
    BY <1>0, <1>2, <2>1 DEF Return, Closing
  <2>3. \A i \in Id : Queued(i)' => Queued(i)
    BY <1>0, <1>1, <2>1 DEF Queued
  <2> QED
    BY <1>3, <1>4, <2>1, <2>2, <2>3
<1>7. CASE Read(t)
  <2>1. /\ UNCHANGED <<posted, history, spent, queue>> /\ pc[t] = "read"
        /\ queue[path[t]] \in Id
        /\ job'[t] = queue[path[t]] /\ pc'[t] = "take"
    BY <1>0, <1>7 DEF Read, Goto, web
  <2>2. BoardHeld' = {queue[path[t]]} /\ BoardClosing = {} /\ Queued(queue[path[t]])
    BY <1>0, <1>1, <1>2, <2>1 DEF Closing, Queued
  <2>3. \A i \in Id : Queued(i)' => Queued(i)
    BY <2>1 DEF Queued
  <2>4. Pending' \subseteq Pending
    BY <1>3, <2>1, <2>2, <2>3
  <2> QED
    BY <1>4, <2>1, <2>4
<1>8. CASE Unlink(t) \/ Rewrite(t)
  <2>1. /\ UNCHANGED <<posted, history, spent, job>> /\ pc[t] \in {"unlink", "rewrite"}
        /\ pc'[t] \in {"rewrite", "fill"}
        /\ \E c \in {NoFile, Torn} : queue' = [queue EXCEPT ![path[t]] = c]
    BY <1>0, <1>8 DEF Unlink, Rewrite, Goto, web, locals
  <2>2. BoardHeld' = BoardHeld /\ BoardClosing = {}
    BY <1>2, <2>1 DEF Closing
  <2>3. \A i \in Id : Queued(i)' => Queued(i)
    BY <1>0, <1>1, <2>1 DEF Queued
  <2>4. Pending' \subseteq Pending
    BY <1>3, <2>2, <2>3
  <2> QED
    BY <1>4, <2>1, <2>4
<1>9. CASE Fill(t) \/ RequeueRaises(t)
  <2>1. /\ UNCHANGED <<posted, history>> /\ pc[t] \in {"unlink", "rewrite", "fill"}
        /\ Return(t) /\ (UNCHANGED spent \/ Spend("fault"))
        /\ queue' = queue \/ queue' = [queue EXCEPT ![path[t]] = job[t]]
    BY <1>9 DEF Fill, RequeueRaises, web
  <2>2. BoardHeld' = {} /\ BoardClosing = {} /\ BoardHeld = {job[t]}
    BY <1>0, <1>1, <1>2, <2>1 DEF Closing, Return
  <2>3. \A i \in Id : Queued(i)' => Queued(i) \/ i = job[t]
    BY <1>0, <2>1 DEF Queued
  <2>4. Pending' \subseteq Pending
    BY <1>3, <2>2, <2>3
  <2> QED
    BY <1>0, <1>4, <2>1, <2>4, FailuresMove
<1>10. CASE Record(t)
  <2>1. /\ UNCHANGED <<posted, spent, queue, job>> /\ pc[t] = "record"
        /\ pc'[t] = "publish"
    BY <1>0, <1>10 DEF Record, Goto, web, locals
  <2>2. BoardHeld = {job[t]} /\ BoardHeld' = {} /\ BoardClosing' = {job[t]}
    BY <1>0, <1>1, <1>2, <2>1 DEF Closing
  <2>3. BoardClosing = {} /\ \A i : Queued(i)' <=> Queued(i)
    BY <1>2, <2>1 DEF Closing, Queued
  <2>4. job[t] \in Pending /\ Pending' \subseteq Pending \ {job[t]}
    BY <1>3, <2>2, <2>3
  <2> QED
    BY <1>10, <2>1, <2>4
<1>11. CASE Archive(t)
  <2>1. /\ UNCHANGED <<posted, history, spent>> /\ pc[t] = "archive" /\ Return(t)
        /\ queue' = [queue EXCEPT ![path[t]] = NoFile]
    BY <1>11 DEF Archive, web
  <2>2. BoardHeld' = {} /\ BoardClosing = {job[t]} /\ BoardClosing' = {}
    BY <1>0, <1>2, <2>1 DEF Closing, Return
  <2>3. \A i \in Id : Queued(i)' => Queued(i) /\ i # job[t]
    BY <1>0, <1>1, <2>1 DEF Queued, FileInv, OneFile
  <2> QED
    BY <1>3, <1>4, <2>1, <2>2, <2>3
<1>12. CASE ArchiveRaises(t) \/ Crash(t)
  <2>1. /\ UNCHANGED <<posted, history, queue>> /\ Return(t)
        /\ Spend("crash") \/ Spend("fault")
    BY <1>12 DEF ArchiveRaises, Crash, web
  <2>2. BoardHeld' = {} /\ BoardClosing \subseteq {job[t]}
    BY <1>0, <1>2, <2>1 DEF Return
  <2>3. \A i : Queued(i)' <=> Queued(i)
    BY <2>1 DEF Queued
  <2>4. Pending' \subseteq Pending \cup {job[t]}
    BY <1>3, <2>2, <2>3
  <2> QED
    BY <2>1, <2>4, FailuresMove
<1> QED
  BY <1>5, <1>6, <1>7, <1>8, <1>9, <1>10, <1>11, <1>12, QueueMoves DEF FileInv

-----------------------------------------------------------------------------
(* A job is finished once, and once more for each failure.                 *)

\* A job's verdicts are finitely many, and the history is as long as it says.
LEMMA VerdictsFinite ==
  ASSUME BaseInv
  PROVE  /\ Len(history) \in Nat
         /\ \A id : IsFiniteSet(Verdicts(id)) /\ Cardinality(Verdicts(id)) \in Nat
<1>1. history \in Seq(Entry) /\ Len(history) \in Nat
  BY DEF BaseInv, TypeInv, TypeOK, FilesOK
<1>2. IsFiniteSet(1..Len(history))
  BY <1>1, FS_Interval
<1>3. \A id : Verdicts(id) \in SUBSET (1..Len(history))
  BY DEF Verdicts
<1>4. ASSUME NEW id
      PROVE  IsFiniteSet(Verdicts(id)) /\ Cardinality(Verdicts(id)) \in Nat
  BY <1>2, <1>3, FS_Subset, FS_CardinalityType
<1> QED
  BY <1>1, <1>4

\* finish() adds one verdict, about its own job.
LEMMA RecordVerdicts ==
  ASSUME BaseInv, NEW t \in Tick, Record(t), NEW id
  PROVE  /\ Cardinality(Verdicts(id)') \in Nat
         /\ Cardinality(Verdicts(id)') <=
              Cardinality(Verdicts(id)) + (IF id = job[t] THEN 1 ELSE 0)
<1>0. Len(history) \in Nat /\ IsFiniteSet(Verdicts(id)) /\ Cardinality(Verdicts(id)) \in Nat
  BY VerdictsFinite
<1>1. PICK k \in 0..Len(history) :
        /\ Len(history') = Len(history) + 1 - k
        /\ \A i \in 1..(Len(history) - k) : history'[i].id = history[i + k].id
        /\ history'[Len(history) + 1 - k].id = job[t]
  BY RecordHistory
<1> DEFINE last == Len(history) + 1
           S == IF id = job[t] THEN Verdicts(id) \cup {last} ELSE Verdicts(id)
           f == [i \in Verdicts(id)' |-> i + k]
<1>2. \A i \in Verdicts(id)' : i \in Nat /\ i + k \in S
  <2> SUFFICES ASSUME NEW i \in Verdicts(id)' PROVE i \in Nat /\ i + k \in S
    OBVIOUS
  <2>1. i \in 1..(Len(history) + 1 - k) /\ history'[i].id = id
    BY <1>1 DEF Verdicts
  <2>2. CASE i = Len(history) + 1 - k
    BY <1>0, <1>1, <2>1, <2>2
  <2>3. CASE i # Len(history) + 1 - k
    <3>1. i \in 1..(Len(history) - k) /\ i + k \in 1..Len(history)
      BY <1>0, <1>1, <2>1, <2>3
    <3>2. history[i + k].id = id
      BY <1>1, <2>1, <3>1
    <3>3. i + k \in Verdicts(id)
      BY <3>1, <3>2 DEF Verdicts
    <3> QED
      BY <3>1, <3>3
  <2> QED
    BY <2>2, <2>3
<1>3. f \in Injection(Verdicts(id)', S)
  <2>1. f \in [Verdicts(id)' -> S]
    BY <1>2
  <2>2. \A i, j \in Verdicts(id)' : f[i] = f[j] => i = j
    BY <1>1, <1>2
  <2> QED
    BY <2>1, <2>2, Fun_IsInj
<1>4. last \notin Verdicts(id)
  BY <1>0 DEF Verdicts
<1>5. IsFiniteSet(S) /\ Cardinality(S) = Cardinality(Verdicts(id)) + (IF id = job[t] THEN 1 ELSE 0)
  <2>1. CASE id = job[t]
    <3>1. IsFiniteSet(Verdicts(id) \cup {last})
          /\ Cardinality(Verdicts(id) \cup {last}) = Cardinality(Verdicts(id)) + 1
      BY <1>0, <1>4, FS_AddElement
    <3> QED
      BY <2>1, <3>1
  <2>2. CASE id # job[t]
    BY <1>0, <2>2
  <2> QED
    BY <2>1, <2>2
<1>6. IsFiniteSet(Verdicts(id)') /\ Cardinality(Verdicts(id)') <= Cardinality(S)
  BY <1>3, <1>5, FS_Injection
<1>7. Cardinality(Verdicts(id)') \in Nat
  BY <1>6, FS_CardinalityType
<1> QED
  BY <1>5, <1>6, <1>7

\* A verdict uses the job up, and a failure pays for its return.
LEMMA RunsStep == JobsInv /\ RunsInv /\ [Next]_vars => RunsInv'
<1> SUFFICES ASSUME JobsInv, RunsInv, [Next]_vars, NEW id \in Id
             PROVE  Cardinality(Verdicts(id)') + (IF id \in Pending' THEN 1 ELSE 0)
                      <= 1 + Failures'
  BY DEF RunsInv
<1> USE DEF JobsInv
<1>0. /\ Cardinality(Verdicts(id)) \in Nat /\ Failures \in Nat
      /\ Cardinality(Verdicts(id)) + (IF id \in Pending THEN 1 ELSE 0) <= 1 + Failures
  BY VerdictsFinite, FailuresMove DEF RunsInv
<1>1. CASE UNCHANGED <<history, spent, pc, job, queue>>
  BY <1>0, <1>1 DEF Verdicts, Failures, Pending, BoardWaiting, BoardHeld, BoardClosing,
     Closing, Queued
<1>2. ASSUME NEW t \in Tick, Step(t) \/ Fault(t)
      PROVE  Cardinality(Verdicts(id)') + (IF id \in Pending' THEN 1 ELSE 0)
               <= 1 + Failures'
  <2>1. CASE /\ UNCHANGED history /\ Pending' \subseteq Pending
             /\ Failures' \in {Failures, Failures + 1}
    BY <1>0, <2>1 DEF Verdicts
  <2>2. CASE /\ Record(t) /\ UNCHANGED spent
             /\ job[t] \in Pending /\ Pending' \subseteq Pending \ {job[t]}
    <3>1. /\ Cardinality(Verdicts(id)') \in Nat
          /\ Cardinality(Verdicts(id)') <=
               Cardinality(Verdicts(id)) + (IF id = job[t] THEN 1 ELSE 0)
      BY <2>2, RecordVerdicts
    <3>2. Failures' = Failures
      BY <2>2 DEF Failures
    <3> QED
      BY <1>0, <2>2, <3>1, <3>2
  <2>3. CASE UNCHANGED history /\ Failures' = Failures + 1
             /\ Pending' \subseteq Pending \cup {job[t]}
    BY <1>0, <2>3 DEF Verdicts
  <2> QED
    BY <1>2, <2>1, <2>2, <2>3, PendingMoves
<1>3. ASSUME NEW n \in Name, Post(n)
      PROVE  Cardinality(Verdicts(id)') + (IF id \in Pending' THEN 1 ELSE 0)
               <= 1 + Failures'
  <2>1. /\ UNCHANGED <<history, spent, pc, job>>
        /\ queue' = [queue EXCEPT ![n] = posted + 1]
    BY <1>3 DEF Post, locals
  <2>2. BoardHeld' = BoardHeld /\ BoardClosing' = BoardClosing
    BY <2>1 DEF BoardHeld, BoardClosing, Closing
  <2>3. Queued(id)' => Queued(id) \/ id = posted + 1
    BY <2>1 DEF Queued, BaseInv, TypeInv, TypeOK, FilesOK
  <2>4. Verdicts(id)' = Verdicts(id) /\ Failures' = Failures
    BY <2>1 DEF Verdicts, Failures
  <2>5. CASE id = posted + 1
    <3>1. posted \in Nat /\ history \in Seq(Entry)
      BY DEF BaseInv, TypeInv, TypeOK, FilesOK
    <3>2. Verdicts(id) = {}
      BY <2>5, <3>1 DEF FileInv, Numbered, Verdicts
    <3> QED
      BY <1>0, <2>4, <3>2, FS_EmptySet
  <2>6. CASE id # posted + 1
    <3>1. id \in Pending' => id \in Pending
      BY <2>2, <2>3, <2>6 DEF Pending, BoardWaiting
    <3> QED
      BY <1>0, <2>4, <3>1
  <2> QED
    BY <2>5, <2>6
<1>4. CASE UNCHANGED vars
  BY <1>1, <1>4 DEF vars
<1>5. CASE World
  <2>1. /\ UNCHANGED <<history, pc, job, queue>>
        /\ UNCHANGED spent \/ Spend("outside") \/ Spend("drift")
    BY <1>5, WorldMoves DEF World, OutsideStarts, OutsideEnds, EngineDies, PortMoves,
       EngineReturns
  <2>2. Failures' = Failures
    BY <2>1 DEF Spend, Failures, BaseInv, TypeInv, TypeOK, WorldOK
  <2> QED
    BY <1>0, <2>1, <2>2 DEF Verdicts, Pending, BoardWaiting, BoardHeld, BoardClosing,
       Closing, Queued
<1> QED
  BY <1>2, <1>3, <1>4, <1>5 DEF Next

\* dispatcher.py:489-507: finish() records a job once, and once more only for a
\* process that was killed or an archive that failed, whatever else happens.
THEOREM RunsAlwaysBounded == Spec => []RunsBounded
<1>1. ASSUME Init PROVE RunsInv
  <2>1. /\ \A n \in Name : queue[n] = 0
        /\ \A t \in Tick : job[t] = NoJob
        /\ history = << >> /\ spent.crash = 0 /\ spent.fault = 0
    BY <1>1 DEF Init, NoFile
  <2>2. Pending = {}
    BY <2>1, BoundsAssumption DEF Pending, BoardWaiting, BoardHeld, Queued, Id
  <2>3. \A id : Verdicts(id) = {}
    BY <2>1 DEF Verdicts
  <2>4. \A id : Cardinality(Verdicts(id)) = 0
    BY <2>3, FS_EmptySet
  <2> QED
    BY <2>1, <2>2, <2>4 DEF RunsInv, Failures
<1>2. ASSUME JobsInv, RunsInv PROVE RunsBounded
  <2>1. ASSUME NEW id \in Id
        PROVE  Cardinality(Verdicts(id)) <= 1 + spent.crash + spent.fault
    <3>1. Cardinality(Verdicts(id)) \in Nat
      BY <1>2, VerdictsFinite DEF JobsInv
    <3>2. spent.crash \in Nat /\ spent.fault \in Nat
      BY <1>2, BoundsAssumption DEF JobsInv, BaseInv, TypeInv, TypeOK, WorldOK
    <3> QED
      BY <1>2, <3>1, <3>2 DEF RunsInv, Failures
  <2> QED
    BY <2>1 DEF RunsBounded, Verdicts
<1> QED
  BY <1>1, <1>2, RunsStep, JobsInvariant, PTL DEF Spec

-----------------------------------------------------------------------------
(* The length of the history.                                              *)

LEMMA SpareFinite ==
  ASSUME BaseInv
  PROVE  /\ posted \in Nat /\ posted <= MaxPosts
         /\ \A S \in SUBSET (1..posted) :
              IsFiniteSet(S) /\ Cardinality(S) \in Nat /\ Cardinality(S) <= posted
<1>1. posted \in 0..MaxPosts
  BY DEF BaseInv, TypeInv, TypeOK, FilesOK
<1>2. posted \in Nat /\ posted <= MaxPosts
  BY <1>1, BoundsAssumption
<1>3. IsFiniteSet(1..posted) /\ Cardinality(1..posted) = posted
  BY <1>2, FS_Interval
<1>4. ASSUME NEW S \in SUBSET (1..posted)
      PROVE  IsFiniteSet(S) /\ Cardinality(S) \in Nat /\ Cardinality(S) <= posted
  BY <1>3, FS_Subset, FS_CardinalityType
<1> QED
  BY <1>2, <1>4

\* Every verdict but the first of a job has used up a failure.
LEMMA HistoryStep == JobsInv /\ HistoryInv /\ [Next]_vars => HistoryInv'
<1> SUFFICES ASSUME JobsInv, HistoryInv, [Next]_vars PROVE HistoryInv'
  OBVIOUS
<1> USE DEF JobsInv
<1>0. /\ Len(history) \in Nat /\ Failures \in Nat
      /\ posted \in Nat
      /\ Spare \in SUBSET (1..posted) /\ IsFiniteSet(Spare) /\ Cardinality(Spare) \in Nat
      /\ Len(history) <= Cardinality(Spare) + Failures
  <2>1. Spare \in SUBSET (1..posted)
    BY DEF Spare
  <2> QED
    BY <2>1, VerdictsFinite, FailuresMove, SpareFinite DEF HistoryInv
<1>1. CASE UNCHANGED <<posted, history, pc, job, queue>> /\ Failures' = Failures
  BY <1>0, <1>1 DEF HistoryInv, Spare, Pending, BoardWaiting, BoardHeld, BoardClosing,
     Closing, Queued
<1>2. ASSUME posted' \in {posted, posted + 1}, Spare \subseteq Spare'
      PROVE  Cardinality(Spare') \in Nat /\ Cardinality(Spare) <= Cardinality(Spare')
  <2>1. IsFiniteSet(1..posted')
    BY <1>0, <1>2, FS_Interval
  <2>2. Spare' \in SUBSET (1..posted')
    BY DEF Spare
  <2>3. IsFiniteSet(Spare')
    BY <2>1, <2>2, FS_Subset
  <2> QED
    BY <1>2, <2>3, FS_Subset, FS_CardinalityType
<1>3. ASSUME NEW t \in Tick, Step(t) \/ Fault(t) PROVE HistoryInv'
  <2>1. CASE /\ UNCHANGED <<posted, history>> /\ Pending' \subseteq Pending
             /\ Failures' \in {Failures, Failures + 1}
    <3>1. Spare \subseteq Spare'
      BY <2>1 DEF Spare
    <3> QED
      BY <1>0, <1>2, <2>1, <3>1 DEF HistoryInv
  <2>2. CASE /\ Record(t) /\ UNCHANGED <<posted, spent>>
             /\ job[t] \in Pending /\ Pending' \subseteq Pending \ {job[t]}
    <3>1. pc[t] = "record" /\ job[t] \in Id
      BY <2>2 DEF Record, BaseInv, TypeInv, TypeOK, ProcessOK
    <3>2. job[t] \in 1..posted
      BY <1>0, <3>1 DEF FileInv, Numbered, Id
    <3>3. Spare \cup {job[t]} \in SUBSET Spare' /\ Spare' \in SUBSET (1..posted)
      BY <2>2, <3>2 DEF Spare
    <3>4. IsFiniteSet(Spare') /\ Cardinality(Spare') \in Nat
      BY <3>3, SpareFinite
    <3>5. Cardinality(Spare \cup {job[t]}) <= Cardinality(Spare')
      BY <3>3, <3>4, FS_Subset
    <3>6. Cardinality(Spare \cup {job[t]}) = Cardinality(Spare) + 1
      BY <1>0, <2>2, FS_AddElement DEF Spare
    <3>7. Len(history') \in Nat /\ Len(history') <= Len(history) + 1
      BY <1>0, <2>2, RecordHistory
    <3>8. Failures' = Failures
      BY <2>2 DEF Failures
    <3> QED
      BY <1>0, <3>4, <3>5, <3>6, <3>7, <3>8 DEF HistoryInv
  <2>3. CASE /\ UNCHANGED <<posted, history>> /\ Failures' = Failures + 1
             /\ Pending' \subseteq Pending \cup {job[t]}
    <3>1. Spare \ {job[t]} \subseteq Spare' /\ Spare' \in SUBSET (1..posted)
      BY <2>3 DEF Spare
    <3>2. IsFiniteSet(Spare') /\ Cardinality(Spare') \in Nat
      BY <3>1, SpareFinite
    <3>3. Cardinality(Spare \ {job[t]}) <= Cardinality(Spare')
      BY <3>1, <3>2, FS_Subset
    <3>4. Cardinality(Spare \ {job[t]}) \in {Cardinality(Spare), Cardinality(Spare) - 1}
      BY <1>0, FS_RemoveElement
    <3> QED
      BY <1>0, <2>3, <3>2, <3>3, <3>4 DEF HistoryInv
  <2> QED
    BY <1>3, <2>1, <2>2, <2>3, PendingMoves
<1>4. ASSUME NEW n \in Name, Post(n) PROVE HistoryInv'
  <2>1. /\ UNCHANGED <<history, spent, pc, job>> /\ posted' = posted + 1
        /\ queue' = [queue EXCEPT ![n] = posted + 1]
    BY <1>4 DEF Post, locals
  <2>2. BoardHeld' = BoardHeld /\ BoardClosing' = BoardClosing
    BY <2>1 DEF BoardHeld, BoardClosing, Closing
  <2>3. \A i \in Id : Queued(i)' => Queued(i) \/ i = posted + 1
    BY <2>1 DEF Queued, BaseInv, TypeInv, TypeOK, FilesOK
  <2>4. Pending' \subseteq Pending \cup {posted + 1}
    BY <2>2, <2>3 DEF Pending, BoardWaiting
  <2>5. Spare \subseteq Spare'
    BY <1>0, <2>1, <2>4 DEF Spare
  <2>6. Failures' = Failures
    BY <2>1 DEF Failures
  <2> QED
    BY <1>0, <1>2, <2>1, <2>5, <2>6 DEF HistoryInv
<1>5. CASE UNCHANGED vars \/ World
  <2>1. /\ UNCHANGED <<posted, history, pc, job, queue>>
        /\ UNCHANGED spent \/ Spend("outside") \/ Spend("drift")
    BY <1>5, WorldMoves DEF World, OutsideStarts, OutsideEnds, EngineDies, PortMoves,
       EngineReturns, vars
  <2>2. Failures' = Failures
    BY <2>1 DEF Spend, Failures, BaseInv, TypeInv, TypeOK, WorldOK
  <2> QED
    BY <1>1, <2>1, <2>2
<1> QED
  BY <1>3, <1>4, <1>5 DEF Next

\* With room for every job and every failure, finish() drops nothing.
LEMMA HistoryHolds ==
  ASSUME JobsInv, HistoryInv, HistoryCap >= MaxPosts + MaxCrashes + MaxFaults,
         NEW t \in Tick, Record(t)
  PROVE  Len(history) < HistoryCap
<1> USE DEF JobsInv
<1>1. Len(history) \in Nat /\ posted \in Nat /\ posted <= MaxPosts
  BY VerdictsFinite, SpareFinite
<1>2. Failures \in Nat /\ Failures <= MaxCrashes + MaxFaults
  <2>1. /\ spent.crash \in Nat /\ spent.crash <= MaxCrashes
        /\ spent.fault \in Nat /\ spent.fault <= MaxFaults
    BY BoundsAssumption DEF BaseInv, TypeInv, TypeOK, WorldOK
  <2> QED
    BY <2>1, BoundsAssumption DEF Failures
<1>3. job[t] \in 1..posted
  BY <1>1 DEF Record, BaseInv, TypeInv, TypeOK, ProcessOK, FileInv, Numbered, Id
<1>4. job[t] \in Pending
  <2>1. pc[t] = "record" /\ job[t] \in Id
    BY DEF Record, BaseInv, TypeInv, TypeOK, ProcessOK
  <2>2. job[t] # NoJob /\ ~Closing(t)
    BY <2>1, BoundsAssumption DEF NoJob, Id, Closing
  <2> QED
    BY <2>2 DEF Pending, BoardHeld
<1>5. Spare \cup {job[t]} \in SUBSET (1..posted) /\ job[t] \notin Spare
  BY <1>3, <1>4 DEF Spare
<1>6. IsFiniteSet(Spare) /\ Cardinality(Spare) \in Nat
      /\ Cardinality(Spare \cup {job[t]}) <= posted
  BY <1>5, SpareFinite
<1>7. Cardinality(Spare \cup {job[t]}) = Cardinality(Spare) + 1
  BY <1>5, <1>6, FS_AddElement
<1> QED
  BY <1>1, <1>2, <1>6, <1>7, BoundsAssumption DEF HistoryInv
==============================================================================
