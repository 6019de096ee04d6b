----------------------- MODULE DispatcherBoardProofs -----------------------
(***************************************************************************)
(* Where its queue is safe, the dispatcher loses no job and implements the *)
(* operator's board (JobBoard): every step of a process, a failure or the  *)
(* web server is a step of the board, or none.                             *)
(***************************************************************************)
EXTENDS DispatcherQueueProofs

-----------------------------------------------------------------------------
(* What no job is lost under: names are not reused while they are in use,  *)
(* the history does not overflow, and no put-back can be cut short.        *)

SafeQueue == FreshNames /\ HistoryCap >= MaxPosts + MaxCrashes + MaxFaults

KeepsJobs == SafeQueue /\ (MaxOutside = 0 \/ (MaxCrashes = 0 /\ MaxFaults = 0))

\* What the file a tick took its job from holds meanwhile.
Kept(t) ==
  CASE pc[t] = "rewrite" -> NoFile
    [] pc[t] = "fill" -> Torn
    [] OTHER -> job[t]

FileKept == \A t \in Tick : job[t] # NoJob => queue[path[t]] = Kept(t)

\* Nothing is put back unless something ran outside the queue.
NoPutBack ==
  MaxOutside = 0 => ~outside /\ \A t \in Tick : pc[t] \notin {"unlink"} \cup Bare

\* Every job that was answered 202 is somewhere.
Accounted == 1..posted \subseteq Pending \cup BoardSettled

KeepInv == FileKept /\ NoPutBack /\ Accounted

\* Everything a step of the board rests on.
BoardInv == JobsInv /\ HistoryInv /\ KeepInv

-----------------------------------------------------------------------------
(* The files, and the put-back.                                            *)

\* A tick writes and removes no file but its own, and knows what it holds.
LEMMA FileKeptStep ==
  ASSUME SafeQueue, JobsInv, FileKept, [Next]_vars
  PROVE  FileKept'
<1> USE DEF JobsInv
<1>0. /\ job \in [Tick -> Id \cup {NoJob}] /\ queue \in [Name -> Content]
      /\ path \in [Tick -> Name \cup {NoName}] /\ pc \in [Tick -> PC]
      /\ \A t \in Tick : pc[t] \notin {"off", "pick"} => path[t] \in Name
      /\ \A t \in Tick : pc[t] \notin {"off", "pick", "read"} => job[t] \in Id
      /\ \A t \in Tick : pc[t] \in {"off", "pick", "read"} => job[t] = NoJob
  BY DEF BaseInv, TypeInv, TypeOK, ProcessOK, FilesOK, FileInv, JobLater
<1>1. ASSUME NEW t \in Tick, Step(t) \/ Fault(t) PROVE FileKept'
  <2>1. \A s \in Tick : s # t => job'[s] = NoJob
    BY <1>1, OnlyOne, JobLaterStep DEF FileInv, JobLater
  <2>2. SUFFICES ASSUME job'[t] # NoJob PROVE queue'[path'[t]] = Kept(t)'
    BY <2>1 DEF FileKept
  <2>3. ~Return(t)
    BY <1>0, <2>2 DEF Return
  <2>4. CASE Quiet(t)
    BY <1>0, <2>2, <2>4 DEF Quiet, Bare, FileKept, Kept
  <2>5. CASE Read(t)
    BY <1>0, <2>5 DEF Read, Goto, Kept
  <2>6. CASE Unlink(t) \/ Rewrite(t)
    BY <1>0, <2>6 DEF Unlink, Rewrite, Goto, Kept, locals
  <2>7. CASE Record(t)
    BY <1>0, <2>2, <2>7 DEF Record, Goto, FileKept, Kept, locals
  <2> QED
    BY <1>1, <2>3, <2>4, <2>5, <2>6, <2>7, QueueMoves
    DEF FileInv, ReadUnreadable, Fill, Archive, RequeueRaises, ArchiveRaises, Crash
<1>2. ASSUME NEW n \in Name, Post(n) PROVE FileKept'
  <2>1. /\ UNCHANGED <<pc, job, path>> /\ queue' = [queue EXCEPT ![n] = posted + 1]
        /\ \A t \in Tick : path[t] # n
    BY <1>2 DEF Post, SafeQueue, locals
  <2> QED
    BY <1>0, <2>1 DEF FileKept, Kept
<1>3. CASE World \/ UNCHANGED vars
  <2>1. UNCHANGED <<queue, pc, job, path>>
    BY <1>3, WorldMoves DEF vars, web, locals
  <2> QED
    BY <2>1 DEF FileKept, Kept
<1> QED
  BY <1>1, <1>2, <1>3 DEF Next

\* Only a measurement outside the queue sends a job back to it.
LEMMA NoPutBackStep ==
  ASSUME JobsInv, NoPutBack, [Next]_vars
  PROVE  NoPutBack'
<1> SUFFICES ASSUME MaxOutside = 0
             PROVE  ~outside' /\ \A t \in Tick : pc'[t] \notin {"unlink"} \cup Bare
  BY DEF NoPutBack
<1> USE DEF JobsInv
<1>0. /\ pc \in [Tick -> PC] /\ ~outside /\ spent.outside = 0
      /\ \A t \in Tick : pc[t] \notin {"unlink"} \cup Bare
  BY DEF BaseInv, TypeInv, TypeOK, ProcessOK, WorldOK, NoPutBack
<1>1. ASSUME NEW t \in Tick, Step(t) \/ Fault(t)
      PROVE  ~outside' /\ pc'[t] \notin {"unlink"} \cup Bare
  <2>1. CASE Quiet(t)
    BY <1>0, <2>1 DEF Quiet
  <2>2. CASE ReadUnreadable(t) \/ Read(t) \/ Record(t) \/ Archive(t)
             \/ ArchiveRaises(t) \/ Crash(t) \/ RequeueRaises(t) \/ Fill(t)
    BY <1>0, <2>2 DEF ReadUnreadable, Read, Record, Archive, ArchiveRaises, Crash,
       RequeueRaises, Fill, Return, Goto, world, Bare
  <2> QED
    BY <1>0, <1>1, <2>1, <2>2, QueueMoves DEF FileInv, Unlink, Rewrite, Bare
<1>2. ASSUME NEW t \in Tick, Step(t) \/ Fault(t)
      PROVE  ~outside' /\ \A s \in Tick : pc'[s] \notin {"unlink"} \cup Bare
  BY <1>1, <1>2, OnlyOne DEF Bare
<1>3. CASE (\E n \in Name : Post(n)) \/ World \/ UNCHANGED vars
  <2>1. UNCHANGED pc
    BY <1>3, WorldMoves DEF Post, vars
  <2>2. ~outside'
    BY <1>0, <1>3 DEF Post, World, OutsideStarts, OutsideEnds, EngineDies, EngineReturns,
       PortMoves, vars, world
  <2> QED
    BY <1>0, <2>1, <2>2
<1> QED
  BY <1>2, <1>3 DEF Next

-----------------------------------------------------------------------------
(* The one place where a job can be lost.                                  *)

\* A verdict is never taken back, for the history has room for all of them.
LEMMA SettledMoves ==
  ASSUME SafeQueue, JobsInv, HistoryInv, NEW t \in Tick, Step(t) \/ Fault(t)
  PROVE  /\ ~Record(t) => BoardSettled' = BoardSettled
         /\ Record(t) => BoardSettled' = BoardSettled \cup {job[t]}
<1> USE DEF JobsInv
<1>1. UNCHANGED history => BoardSettled' = BoardSettled
  BY DEF BoardSettled, Settled
<1>2. ~Record(t) => UNCHANGED history
  BY QueueMoves DEF FileInv, Quiet, ReadUnreadable, Read, Unlink, Rewrite, Fill, Archive,
     RequeueRaises, ArchiveRaises, Crash
<1>3. ASSUME Record(t) PROVE BoardSettled' = BoardSettled \cup {job[t]}
  <2>0. history \in Seq(Entry) /\ Len(history) \in Nat /\ job[t] \in Id
    BY <1>3 DEF BaseInv, TypeInv, TypeOK, FilesOK, ProcessOK, Record
  <2>1. Len(history) < HistoryCap
    BY <1>3, HistoryHolds DEF SafeQueue
  <2>2. /\ Len(history') = Len(history) + 1
        /\ \A i \in 1..Len(history) : history'[i].id = history[i].id
        /\ history'[Len(history) + 1].id = job[t]
    <3>1. PICK k \in 0..Len(history) :
            /\ Len(history') = Len(history) + 1 - k
            /\ \A i \in 1..(Len(history) - k) : history'[i].id = history[i + k].id
            /\ history'[Len(history) + 1 - k].id = job[t]
            /\ Len(history) < HistoryCap => k = 0
      BY <1>3, RecordHistory
    <3>2. k = 0
      BY <2>1, <3>1
    <3> QED
      BY <2>0, <3>1, <3>2
  <2>3. \A i : Settled(i)' <=> Settled(i) \/ i = job[t]
    BY <2>0, <2>2 DEF Settled
  <2> QED
    BY <2>0, <2>3 DEF BoardSettled
<1> QED
  BY <1>1, <1>2, <1>3

\* A step of a tick loses a job in a put-back that fails or is killed, or never.
LEMMA KnownMoves ==
  ASSUME SafeQueue, JobsInv, HistoryInv, FileKept, NEW t \in Tick, Step(t) \/ Fault(t),
         NEW id \in Id, Known(id), ~Known(id)'
  PROVE  BeingPutBack(id) /\ (Spend("crash") \/ Spend("fault"))
<1> USE DEF JobsInv
<1>0. /\ job \in [Tick -> Id \cup {NoJob}] /\ queue \in [Name -> Content]
      /\ pc \in [Tick -> PC]
      /\ pc[t] \notin {"off", "pick"} => path[t] \in Name
      /\ pc[t] \notin {"off", "pick", "read"} => job[t] \in Id
      /\ pc[t] \in {"off", "pick", "read"} => job[t] = NoJob
      /\ job[t] # NoJob => queue[path[t]] = Kept(t)
      /\ Closing(t) => Settled(job[t])
  BY DEF BaseInv, TypeInv, TypeOK, ProcessOK, FilesOK, FileInv, JobLater, ClosingSettled,
     FileKept
<1>1. NoJob \notin Id /\ NoFile \notin Id /\ Torn \notin Id
  BY BoundsAssumption DEF NoJob, NoFile, Torn, Id
<1>2. /\ BeingPutBack(id) <=> job[t] = id /\ pc[t] \in Bare
      /\ BeingPutBack(id)' <=> job'[t] = id /\ pc'[t] \in Bare
  BY OnlyOne DEF BeingPutBack, Bare
<1>3. Settled(id) => Settled(id)'
  BY SettledMoves DEF BoardSettled
<1>4. CASE Quiet(t)
  BY <1>2, <1>3, <1>4 DEF Quiet, Known, Queued
<1>5. CASE ReadUnreadable(t)
  <2>1. Queued(id) => Queued(id)'
    BY <1>0, <1>1, <1>5 DEF ReadUnreadable, Queued
  <2> QED
    BY <1>2, <1>3, <1>5, <2>1 DEF ReadUnreadable, Known, Bare
<1>6. CASE Read(t)
  BY <1>2, <1>3, <1>6 DEF Read, Known, Queued, Bare
<1>7. CASE Unlink(t) \/ Rewrite(t)
  <2>1. /\ job' = job /\ pc[t] \in {"unlink", "rewrite"} /\ pc'[t] \in Bare
        /\ \E c \in {NoFile, Torn} : queue' = [queue EXCEPT ![path[t]] = c]
    BY <1>0, <1>7 DEF Unlink, Rewrite, Goto, locals, Bare
  <2>2. Queued(id) => Queued(id)' \/ job[t] = id
    BY <1>0, <1>1, <2>1 DEF Queued, Kept
  <2> QED
    BY <1>2, <1>3, <2>1, <2>2 DEF Known
<1>8. CASE Fill(t)
  <2>1. Queued(id) \/ job[t] = id => Queued(id)'
    BY <1>0, <1>1, <1>8 DEF Fill, Queued, Kept
  <2> QED
    BY <1>2, <1>3, <2>1 DEF Known
<1>9. CASE Record(t)
  BY <1>2, <1>3, <1>9 DEF Record, Known, Queued, Bare
<1>10. CASE Archive(t)
  <2>1. Queued(id) => Queued(id)' \/ Settled(id)
    BY <1>0, <1>1, <1>10 DEF Archive, Queued, Kept, Closing
  <2> QED
    BY <1>2, <1>3, <1>10, <2>1 DEF Archive, Known, Bare
<1>11. CASE RequeueRaises(t) \/ ArchiveRaises(t) \/ Crash(t)
  <2>1. UNCHANGED queue /\ (Spend("crash") \/ Spend("fault"))
    BY <1>11 DEF RequeueRaises, ArchiveRaises, Crash
  <2>2. Queued(id) => Queued(id)'
    BY <2>1 DEF Queued
  <2> QED
    BY <1>3, <2>1, <2>2 DEF Known
<1> QED
  BY <1>4, <1>5, <1>6, <1>7, <1>8, <1>9, <1>10, <1>11, QueueMoves DEF FileInv

\* dispatcher.py:551-564: where names are fresh and the history has room, the
\* only step that loses an accepted job is a failure, or a kill, between the
\* unlink and the end of the write of a put-back.
THEOREM LostOnlyThere == ASSUME SafeQueue PROVE Spec => LostOnlyInPutBack
<1> DEFINE Inv == JobsInv /\ HistoryInv /\ FileKept
<1>1. ASSUME Init PROVE HistoryInv /\ FileKept
  <2>1. /\ history = << >> /\ spent.crash = 0 /\ spent.fault = 0 /\ posted = 0
        /\ \A t \in Tick : job[t] = NoJob
    BY <1>1 DEF Init
  <2>2. Spare = {}
    BY <2>1 DEF Spare
  <2> QED
    BY <2>1, <2>2, FS_EmptySet DEF HistoryInv, Failures, FileKept
<1>2. Inv /\ [Next]_vars => HistoryInv' /\ FileKept'
  BY HistoryStep, FileKeptStep
<1>3. Inv /\ [Next]_vars =>
        [\A id \in 1..posted : Known(id) /\ ~Known(id)' =>
           /\ BeingPutBack(id)
           /\ spent'.crash > spent.crash \/ spent'.fault > spent.fault]_vars
  <2> SUFFICES ASSUME Inv, Next, NEW id \in 1..posted, Known(id), ~Known(id)'
               PROVE  /\ BeingPutBack(id)
                      /\ spent'.crash > spent.crash \/ spent'.fault > spent.fault
    BY DEF vars, Known, BeingPutBack
  <2> USE DEF JobsInv
  <2>1. id \in Id
    BY BoundsAssumption DEF Id, BaseInv, TypeInv, TypeOK, FilesOK
  <2>2. ASSUME NEW t \in Tick, Step(t) \/ Fault(t)
        PROVE  BeingPutBack(id) /\ (Spend("crash") \/ Spend("fault"))
    BY <2>1, <2>2, KnownMoves
  <2>3. ASSUME NEW n \in Name, Post(n) PROVE FALSE
    <3>1. /\ UNCHANGED <<history, pc, job>> /\ queue' = [queue EXCEPT ![n] = posted + 1]
          /\ queue[n] = NoFile /\ queue \in [Name -> Content]
      BY <2>3 DEF Post, SafeQueue, locals, BaseInv, TypeInv, TypeOK, FilesOK
    <3>2. NoFile \notin Id
      BY BoundsAssumption DEF NoFile, Id
    <3>3. Queued(id) => Queued(id)'
      BY <2>1, <3>1, <3>2 DEF Queued
    <3> QED
      BY <3>1, <3>3 DEF Known, BeingPutBack, Settled
  <2>4. ASSUME World PROVE FALSE
    <3>1. UNCHANGED <<history, pc, job, queue>>
      BY <2>4, WorldMoves
    <3> QED
      BY <3>1 DEF Known, Queued, BeingPutBack, Settled
  <2>5. spent.crash \in Nat /\ spent.fault \in Nat
        /\ (Spend("crash") \/ Spend("fault") =>
              spent'.crash > spent.crash \/ spent'.fault > spent.fault)
    BY BoundsAssumption DEF Spend, BaseInv, TypeInv, TypeOK, WorldOK
  <2> QED
    BY <2>2, <2>3, <2>4, <2>5 DEF Next
<1> QED
  BY <1>1, <1>2, <1>3, JobsInvariant, PTL DEF Spec, LostOnlyInPutBack

-----------------------------------------------------------------------------
(* A step of a tick, on the board.                                         *)

\* Every step of a tick is one of the board's, or none of its business.
LEMMA TickOnBoard ==
  ASSUME KeepsJobs, BoardInv, TypeInv', NEW t \in Tick, Step(t) \/ Fault(t)
  PROVE  \/ UNCHANGED <<BoardWaiting, BoardHeld, BoardSettled, engine, behind>>
         \/ Board!Switch
         \/ \E i \in Id : \/ Board!Begin(i) \/ Board!GiveBack(i)
                          \/ Board!Settle(i) \/ Board!Resurface(i)
<1> USE DEF BoardInv, JobsInv
<1>0. /\ job \in [Tick -> Id \cup {NoJob}] /\ queue \in [Name -> Content]
      /\ pc \in [Tick -> PC]
      /\ pc[t] \notin {"off", "pick"} => path[t] \in Name
      /\ pc[t] \notin {"off", "pick", "read"} => job[t] \in Id
      /\ pc[t] \in {"off", "pick", "read"} => job[t] = NoJob
      /\ job[t] # NoJob => queue[path[t]] = Kept(t)
      /\ \A n \in Name : job[t] # NoJob /\ queue[n] = job[t] => n = path[t]
      /\ engine' \in Serving /\ behind' \subseteq Serving
  <2>1. engine' \in Serving /\ behind' \subseteq Serving
    <3>1. Here' \in Boxes
      BY DEF TypeInv, TypeOK, WorldOK
    <3>2. Here' = [after |-> engine', port |-> port', behind |-> behind']
      BY DEF Here
    <3> QED
      BY <3>1, <3>2, ReturningAssumption DEF Boxes, Serving
  <2> QED
    BY <2>1 DEF BaseInv, TypeInv, TypeOK, ProcessOK, FilesOK, FileInv, JobLater, OneFile,
       KeepInv, FileKept
<1>1. NoJob \notin Id /\ NoFile \notin Id /\ Torn \notin Id
  BY BoundsAssumption DEF NoJob, NoFile, Torn, Id
<1>2. /\ BoardHeld = IF job[t] # NoJob /\ ~Closing(t) THEN {job[t]} ELSE {}
      /\ BoardClosing = IF Closing(t) THEN {job[t]} ELSE {}
      /\ BoardHeld' = IF job'[t] # NoJob /\ ~Closing(t)' THEN {job'[t]} ELSE {}
      /\ BoardClosing' = IF Closing(t)' THEN {job'[t]} ELSE {}
  BY StepInHand, JobLaterStep DEF FileInv
<1>3. /\ ~Record(t) => BoardSettled' = BoardSettled
      /\ Record(t) => BoardSettled' = BoardSettled \cup {job[t]}
  BY SettledMoves DEF KeepsJobs
<1>4. /\ BoardWaiting = {i \in Id : Queued(i)} \ (BoardHeld \cup BoardClosing)
      /\ BoardWaiting' = {i \in Id : Queued(i)'} \ (BoardHeld' \cup BoardClosing')
  BY DEF BoardWaiting
<1>5. CASE Quiet(t)
  <2>1. /\ UNCHANGED <<queue, job>> /\ (Closing(t)' <=> Closing(t)) /\ ~Record(t)
        /\ UNCHANGED <<engine, behind>> \/ pc[t] \in {"switching", "restoring"}
    BY <1>0, <1>5 DEF Quiet, Record, Closing, Goto, box
  <2>2. UNCHANGED <<BoardWaiting, BoardHeld, BoardSettled>>
    BY <1>2, <1>3, <1>4, <2>1 DEF Queued
  <2>3. pc[t] \in {"switching", "restoring"} => BoardHeld # {}
    BY <1>0, <1>1, <1>2 DEF Closing
  <2> QED
    BY <1>0, <2>1, <2>2, <2>3 DEF Board!Switch
<1>6. CASE ReadUnreadable(t)
  <2>1. /\ UNCHANGED <<engine, behind>> /\ pc[t] = "read" /\ Return(t) /\ ~Record(t)
        /\ queue[path[t]] = Torn /\ queue' = [queue EXCEPT ![path[t]] = NoFile]
    BY <1>6 DEF ReadUnreadable, Record, world, box
  <2>2. BoardHeld' = {} /\ BoardClosing' = {} /\ BoardHeld = {} /\ BoardClosing = {}
    BY <1>0, <1>2, <2>1 DEF Return, Closing
  <2>3. \A i \in Id : Queued(i)' <=> Queued(i)
    BY <1>0, <1>1, <2>1 DEF Queued
  <2> QED
    BY <1>3, <1>4, <2>1, <2>2, <2>3
<1>7. CASE Read(t)
  <2>1. /\ UNCHANGED <<queue, engine, behind>> /\ pc[t] = "read" /\ ~Record(t)
        /\ queue[path[t]] \in Id
        /\ job'[t] = queue[path[t]] /\ pc'[t] = "take"
    BY <1>0, <1>7 DEF Read, Goto, Record, world, box
  <2>2. BoardHeld = {} /\ BoardClosing = {} /\ BoardClosing' = {}
        /\ BoardHeld' = {queue[path[t]]}
    BY <1>0, <1>1, <1>2, <2>1 DEF Closing
  <2>3. \A i \in Id : Queued(i)' <=> Queued(i)
    BY <2>1 DEF Queued
  <2>4. Queued(queue[path[t]])
    BY <1>0, <2>1 DEF Queued
  <2>5. Board!Begin(queue[path[t]])
    BY <1>3, <1>4, <2>1, <2>2, <2>3, <2>4 DEF Board!Begin, Board!box
  <2> QED
    BY <2>1, <2>5
<1>8. CASE Unlink(t) \/ Rewrite(t)
  <2>1. /\ UNCHANGED <<job, engine, behind>> /\ pc[t] \in {"unlink", "rewrite"} /\ ~Record(t)
        /\ pc'[t] \in {"rewrite", "fill"}
        /\ \E c \in {NoFile, Torn} : queue' = [queue EXCEPT ![path[t]] = c]
    BY <1>0, <1>8 DEF Unlink, Rewrite, Record, Goto, locals, world, box
  <2>2. BoardHeld' = BoardHeld /\ BoardHeld = {job[t]}
        /\ BoardClosing = {} /\ BoardClosing' = {}
    BY <1>0, <1>1, <1>2, <2>1 DEF Closing
  <2>3. \A i \in Id : i # job[t] => (Queued(i)' <=> Queued(i))
    BY <1>0, <1>1, <2>1 DEF Queued, Kept
  <2> QED
    BY <1>3, <1>4, <2>1, <2>2, <2>3
<1>9. ASSUME Return(t), pc[t] \notin {"off", "pick", "read"}, ~Closing(t),
             queue'[path[t]] = job[t],
             \A n \in Name : n # path[t] => queue'[n] = queue[n]
      PROVE  \E i \in Id : Board!GiveBack(i)
  <2>1. BoardHeld' = {} /\ BoardClosing' = {} /\ BoardHeld = {job[t]} /\ BoardClosing = {}
    BY <1>0, <1>1, <1>2, <1>9 DEF Return, Closing
  <2>2. \A i \in Id : Queued(i)' <=> Queued(i) \/ i = job[t]
    BY <1>0, <1>1, <1>9 DEF Queued, Kept
  <2>3. BoardSettled' = BoardSettled
    BY <1>0, <1>3, <1>9 DEF Record, Return, Goto
  <2>4. Board!GiveBack(job[t])
    BY <1>0, <1>4, <1>9, <2>1, <2>2, <2>3 DEF Board!GiveBack
  <2> QED
    BY <1>0, <1>9, <2>4
<1>10. CASE Fill(t)
  BY <1>0, <1>9, <1>10 DEF Fill, Closing
<1>11. CASE RequeueRaises(t)
  <2>1. MaxFaults > 0
    BY <1>11, BoundsAssumption DEF RequeueRaises, BaseInv, TypeInv, TypeOK, WorldOK
  <2>2. FALSE
    BY <1>11, <2>1 DEF RequeueRaises, KeepsJobs, KeepInv, NoPutBack, Bare
  <2> QED
    BY <2>2
<1>12. CASE Record(t)
  <2>1. /\ UNCHANGED <<queue, job, engine, behind>> /\ pc[t] = "record" /\ pc'[t] = "publish"
    BY <1>0, <1>12 DEF Record, Goto, web, locals, world, box
  <2>2. BoardHeld = {job[t]} /\ BoardHeld' = {} /\ BoardClosing' = {job[t]}
        /\ BoardClosing = {}
    BY <1>0, <1>1, <1>2, <2>1 DEF Closing
  <2>3. \A i : Queued(i)' <=> Queued(i)
    BY <2>1 DEF Queued
  <2>4. Board!Settle(job[t])
    BY <1>3, <1>4, <1>12, <2>1, <2>2, <2>3 DEF Board!Settle, Board!box
  <2> QED
    BY <1>0, <2>1, <2>4
<1>13. CASE Archive(t)
  <2>1. /\ UNCHANGED <<engine, behind>> /\ pc[t] = "archive" /\ Return(t) /\ ~Record(t)
        /\ queue' = [queue EXCEPT ![path[t]] = NoFile]
    BY <1>13 DEF Archive, Record, world, box
  <2>2. BoardHeld = {} /\ BoardHeld' = {} /\ BoardClosing = {job[t]} /\ BoardClosing' = {}
    BY <1>0, <1>2, <2>1 DEF Closing, Return
  <2>3. \A i \in Id : Queued(i)' <=> Queued(i) /\ i # job[t]
    BY <1>0, <1>1, <2>1 DEF Queued, Kept
  <2> QED
    BY <1>3, <1>4, <2>1, <2>2, <2>3
<1>14. CASE ArchiveRaises(t) \/ Crash(t)
  <2>1. /\ UNCHANGED queue /\ Return(t)
        /\ MaxCrashes + MaxFaults > 0
        /\ UNCHANGED <<engine, behind>> \/ pc[t] \in {"switching", "restoring"}
    <3>1. CASE Crash(t)
      BY <1>0, <3>1, BoundsAssumption
      DEF Crash, BaseInv, TypeInv, TypeOK, WorldOK, Here, Becomes
    <3>2. CASE ArchiveRaises(t)
      BY <1>0, <3>2, BoundsAssumption
      DEF ArchiveRaises, BaseInv, TypeInv, TypeOK, WorldOK, world, box
    <3> QED
      BY <1>14, <3>1, <3>2
  <2>2. BoardHeld' = {} /\ BoardClosing' = {}
    BY <1>0, <1>2, <2>1 DEF Return, Closing
  <2>3. \A i : Queued(i)' <=> Queued(i)
    BY <2>1 DEF Queued
  <2>4. CASE pc[t] \in {"off", "pick", "read"}
    <3>1. BoardHeld = {} /\ BoardClosing = {} /\ ~Record(t)
      BY <1>0, <1>2, <2>4 DEF Closing, Record
    <3> QED
      BY <1>3, <1>4, <2>1, <2>2, <2>3, <2>4, <3>1
  <2>5. CASE Closing(t)
    <3>1. BoardHeld = {} /\ BoardClosing = {job[t]} /\ job[t] \in Id /\ ~Record(t)
      BY <1>0, <1>2, <2>5 DEF Closing, Record
    <3>2. Queued(job[t]) /\ job[t] \in BoardSettled
      BY <1>0, <1>1, <2>5, <3>1
      DEF Queued, Kept, Closing, FileInv, ClosingSettled, BoardSettled
    <3>3. Board!Resurface(job[t])
      BY <1>3, <1>4, <2>1, <2>2, <2>3, <2>5, <3>1, <3>2 DEF Board!Resurface, Board!box, Closing
    <3> QED
      BY <3>1, <3>3
  <2>6. CASE pc[t] \notin {"off", "pick", "read"} /\ ~Closing(t)
    <3>1. pc[t] \notin Bare
      BY <1>14, <2>1, <2>6, BoundsAssumption DEF KeepsJobs, KeepInv, NoPutBack
    <3>2. queue[path[t]] = job[t]
      BY <1>0, <1>1, <2>6, <3>1 DEF Kept, Bare
    <3> QED
      BY <1>9, <2>1, <2>6, <3>2
  <2> QED
    BY <2>4, <2>5, <2>6
<1> QED
  BY <1>5, <1>6, <1>7, <1>8, <1>10, <1>11, <1>12, <1>13, <1>14, QueueMoves DEF FileInv

-----------------------------------------------------------------------------
(* The web server and the world, on the board.                             *)

\* A 202 is a new job on the board: nobody has seen its number, and no file of
\* anybody's is written over.
LEMMA PostOnBoard ==
  ASSUME KeepsJobs, BoardInv, NEW n \in Name, Post(n)
  PROVE  Board!Submit(posted + 1) /\ posted + 1 \in Id
<1> USE DEF BoardInv, JobsInv
<1>0. /\ job \in [Tick -> Id \cup {NoJob}] /\ queue \in [Name -> Content]
      /\ posted \in Nat /\ posted < MaxPosts /\ history \in Seq(Entry)
  BY BoundsAssumption DEF BaseInv, TypeInv, TypeOK, ProcessOK, FilesOK, Post
<1>1. /\ queue' = [queue EXCEPT ![n] = posted + 1] /\ queue[n] = NoFile
      /\ UNCHANGED <<history, pc, job, engine, behind>>
  BY DEF Post, KeepsJobs, SafeQueue, locals, world, box
<1>2. posted + 1 \in Id /\ posted + 1 # NoJob /\ NoFile \notin Id
  BY <1>0, BoundsAssumption DEF Id, NoJob, NoFile
<1>3. BoardHeld' = BoardHeld /\ BoardClosing' = BoardClosing /\ BoardSettled' = BoardSettled
  BY <1>1 DEF BoardHeld, BoardClosing, BoardSettled, Closing, Settled
<1>4. ~Queued(posted + 1)
  <2>1. \A m \in Name : queue[m] \in Id => queue[m] <= posted
    BY DEF FileInv, Numbered
  <2> QED
    BY <1>0, <1>2, <2>1 DEF Queued
<1>5. \A t \in Tick : job[t] # posted + 1
  <2>1. \A t \in Tick : job[t] <= posted /\ job[t] \in Nat
    BY <1>0, BoundsAssumption DEF FileInv, Numbered, Id, NoJob
  <2> QED
    BY <1>0, <2>1
<1>6. posted + 1 \notin BoardHeld /\ posted + 1 \notin BoardClosing
  BY <1>5 DEF BoardHeld, BoardClosing
<1>7. posted + 1 \notin BoardSettled
  <2>1. \A i \in 1..Len(history) : history[i].id <= posted
    BY DEF FileInv, Numbered
  <2> QED
    BY <1>0, <2>1 DEF BoardSettled, Settled
<1>8. \A i \in Id : Queued(i)' <=> Queued(i) \/ i = posted + 1
  BY <1>0, <1>1, <1>2 DEF Queued
<1>9. BoardWaiting' = BoardWaiting \cup {posted + 1} /\ posted + 1 \notin BoardWaiting
  BY <1>2, <1>3, <1>4, <1>6, <1>8 DEF BoardWaiting
<1> QED
  BY <1>1, <1>2, <1>3, <1>6, <1>7, <1>9 DEF Board!Submit, Board!box

\* Outside the queue nothing happens to a job.
LEMMA WorldOnBoard ==
  ASSUME World \/ UNCHANGED vars
  PROVE  /\ UNCHANGED <<BoardWaiting, BoardHeld, BoardSettled>>
         /\ UNCHANGED <<engine, behind>> \/ Board!Drift
<1>1. /\ UNCHANGED <<queue, history, pc, job>>
      /\ \/ UNCHANGED <<engine, behind>>
         \/ engine' \in {None} \cup behind /\ behind' \subseteq behind \cup {engine}
  <2>1. UNCHANGED <<queue, history, pc, job>>
    BY WorldMoves DEF vars
  <2>2. CASE OutsideStarts \/ OutsideEnds \/ PortMoves
    BY <2>1, <2>2 DEF OutsideStarts, OutsideEnds, PortMoves, box
  <2>4. CASE EngineDies
    <3>1. engine' = None /\ behind' = behind \cup ({engine} \cap Returning)
      BY <2>4 DEF EngineDies
    <3> QED
      BY <2>1, <3>1
  <2>5. ASSUME NEW e \in Engine, EngineReturns(e)
        PROVE  engine' \in {None} \cup behind /\ behind' \subseteq behind \cup {engine}
    <3>1. /\ e \in behind /\ engine' = e
          /\ behind' = (behind \ {e}) \cup ({engine} \cap Returning)
      BY <2>5 DEF EngineReturns
    <3> QED
      BY <3>1
  <2>3. CASE UNCHANGED vars
    BY <2>3 DEF vars
  <2> QED
    BY <2>1, <2>2, <2>3, <2>4, <2>5 DEF World
<1>2. UNCHANGED <<BoardWaiting, BoardHeld, BoardSettled>>
  BY <1>1 DEF BoardWaiting, BoardHeld, BoardClosing, BoardSettled, Closing, Queued, Settled
<1> QED
  BY <1>1, <1>2 DEF Board!Drift

\* Any step at all.
LEMMA StepOnBoard ==
  ASSUME KeepsJobs, BoardInv, TypeInv', [Next]_vars
  PROVE  [Board!Next]_(Board!vars)
<1>1. ASSUME NEW t \in Tick, Step(t) \/ Fault(t) PROVE [Board!Next]_(Board!vars)
  BY <1>1, TickOnBoard DEF Board!Next, Board!vars, Board!box
<1>2. ASSUME NEW n \in Name, Post(n) PROVE [Board!Next]_(Board!vars)
  BY <1>2, PostOnBoard DEF Board!Next
<1>3. CASE World \/ UNCHANGED vars
  BY <1>3, WorldOnBoard DEF Board!Next, Board!vars, Board!box
<1> QED
  BY <1>1, <1>2, <1>3 DEF Next

\* The board forgets nobody it was told of.
LEMMA AccountedStep ==
  ASSUME KeepsJobs, BoardInv, TypeInv', [Next]_vars
  PROVE  Accounted'
<1> USE DEF BoardInv, JobsInv
<1>1. ASSUME [Board!Next]_(Board!vars)
      PROVE  Pending \cup BoardSettled \subseteq Pending' \cup BoardSettled'
  BY <1>1 DEF Pending, Board!Next, Board!vars, Board!Submit, Board!Begin, Board!Switch,
     Board!GiveBack, Board!Settle, Board!Resurface, Board!Drift
<1>2. Pending \cup BoardSettled \subseteq Pending' \cup BoardSettled'
  BY <1>1, StepOnBoard
<1>3. ASSUME NEW n \in Name, Post(n) PROVE Accounted'
  <2>1. posted' = posted + 1 /\ posted \in Nat
    BY <1>3, BoundsAssumption DEF Post, BaseInv, TypeInv, TypeOK, FilesOK
  <2>2. posted + 1 \in Pending'
    BY <1>3, PostOnBoard DEF Board!Submit, Pending
  <2> QED
    BY <1>2, <2>1, <2>2 DEF KeepInv, Accounted
<1>4. CASE UNCHANGED posted
  BY <1>2, <1>4 DEF KeepInv, Accounted
<1>5. ASSUME NEW t \in Tick, Step(t) \/ Fault(t) PROVE UNCHANGED posted
  BY <1>5, PendingMoves
<1>6. World \/ UNCHANGED vars => UNCHANGED posted
  BY WorldMoves DEF vars, web
<1> QED
  BY <1>3, <1>4, <1>5, <1>6 DEF Next

-----------------------------------------------------------------------------
(* The theorems.                                                           *)

LEMMA BoardInvariant == ASSUME KeepsJobs PROVE Spec => []BoardInv
<1>1. ASSUME Init PROVE HistoryInv /\ KeepInv
  <2>1. /\ history = << >> /\ spent.crash = 0 /\ spent.fault = 0 /\ posted = 0
        /\ \A t \in Tick : job[t] = NoJob /\ pc[t] = "off"
        /\ ~outside
    BY <1>1 DEF Init
  <2>2. Spare = {}
    BY <2>1 DEF Spare
  <2>3. HistoryInv
    BY <2>1, <2>2, FS_EmptySet DEF HistoryInv, Failures
  <2>4. 1..posted = {}
    BY <2>1
  <2> QED
    BY <2>1, <2>3, <2>4 DEF KeepInv, FileKept, NoPutBack, Accounted, Bare
<1>2. BoardInv /\ TypeInv' /\ [Next]_vars => HistoryInv' /\ KeepInv'
  BY HistoryStep, FileKeptStep, NoPutBackStep, AccountedStep DEF BoardInv, KeepInv, KeepsJobs
<1>3. BaseInv => TypeInv
  BY DEF BaseInv
<1> QED
  BY <1>1, <1>2, JobsInvariant, TypeInvariant, PTL DEF Spec, BoardInv

\* dispatcher.py:551-564, 489-507: where names are fresh, the history has room
\* and no put-back can be cut short, a job answered 202 is in the queue, on its
\* way back there or in the history, whatever is killed and whatever fails.
THEOREM NoJobEverLost == ASSUME KeepsJobs PROVE Spec => []NoJobLost
<1>1. ASSUME BoardInv PROVE NoJobLost
  <2> SUFFICES ASSUME NEW id \in 1..posted, ~Settled(id)
               PROVE  Queued(id) \/ BeingPutBack(id)
    BY DEF NoJobLost, Known
  <2> USE <1>1 DEF BoardInv, JobsInv
  <2>1. id \in Id
    BY BoundsAssumption DEF Id, BaseInv, TypeInv, TypeOK, FilesOK
  <2>2. id \in BoardWaiting \/ id \in BoardHeld
    BY <2>1 DEF KeepInv, Accounted, Pending, BoardSettled
  <2>3. CASE id \in BoardHeld
    <3>1. PICK t \in Tick : job[t] = id /\ job[t] # NoJob
      BY <2>3 DEF BoardHeld
    <3>2. queue[path[t]] = Kept(t)
      BY <3>1 DEF KeepInv, FileKept
    <3>3. CASE pc[t] \in Bare
      BY <3>1, <3>3 DEF BeingPutBack, Bare
    <3>4. CASE pc[t] \notin Bare
      <4>1. pc[t] \notin {"off", "pick"} /\ path[t] \in Name
        BY <3>1 DEF FileInv, JobLater, BaseInv, TypeInv, TypeOK, ProcessOK
      <4> QED
        BY <3>1, <3>2, <3>4, <4>1 DEF Kept, Bare, Queued
    <3> QED
      BY <3>3, <3>4
  <2> QED
    BY <2>2, <2>3 DEF BoardWaiting
<1> QED
  BY <1>1, BoardInvariant, PTL

\* README rules 1, 3 and 4: under the same conditions the queue, the lock and
\* the tick implement JobBoard, where one job at a time owns the box, the engine
\* is switched only while one does, and a job is settled only by its owner.
THEOREM BoardImplemented == ASSUME KeepsJobs PROVE Spec => ImplementsBoard
<1>1. ASSUME Init PROVE Board!Init
  <2>1. /\ \A n \in Name : queue[n] = NoFile
        /\ \A t \in Tick : job[t] = NoJob /\ pc[t] = "off"
        /\ history = << >> /\ engine \in Serving /\ behind = {}
    BY <1>1 DEF Init
  <2>2. BoardWaiting = {}
    BY <2>1, BoundsAssumption DEF BoardWaiting, Queued, NoFile, Id
  <2>3. BoardHeld = {} /\ BoardSettled = {}
    BY <2>1 DEF BoardHeld, BoardSettled, Settled
  <2> QED
    BY <2>1, <2>2, <2>3 DEF Board!Init
<1>2. BoardInv /\ TypeInv' /\ [Next]_vars => [Board!Next]_(Board!vars)
  BY StepOnBoard
<1> QED
  BY <1>1, <1>2, BoardInvariant, TypeInvariant, PTL
  DEF Spec, ImplementsBoard, Board!Spec
==============================================================================
