----------------------------- MODULE Dispatcher -----------------------------
(***************************************************************************)
(* The run board's core: live_server.do_POST puts job files into a queue   *)
(* directory, and dispatcher.main, one short-lived process per timer tick, *)
(* takes the oldest file under an exclusive flock, switches the engine on  *)
(* :18300, runs the job, brings the baseline engine back, and leaves a     *)
(* receipt (status.json), a history entry and an archived job file.        *)
(*                                                                         *)
(* One action is one step another process, or a crash, can come between:   *)
(* a read or a write of a shared file, the start or the end of a child     *)
(* process.  The web server, the outside world and a crash interleave with *)
(* the tick at every one of them.                                          *)
(***************************************************************************)
EXTENDS Naturals, Sequences, FiniteSets, ServeContract

CONSTANTS
  Tick,          \* dispatcher processes that may be alive at the same time
  Name,          \* queue file names (job ids), ordered as sorted() orders them
  MaxPosts,      \* bound: jobs accepted with 202
  Requests,      \* what a client may ask for
  FreshNames,    \* TRUE: no two accepted jobs share a job_id
  HistoryCap,    \* the last 200 entries kept by finish()
  MaxCrashes,    \* bound: dispatcher processes killed part-way
  MaxDrifts,     \* bound: engines that die, or come back, with nobody asking
  MaxOutside,    \* bound: measurements started outside the queue
  MaxFaults      \* bound: file operations that raise OSError

ASSUME NameAssumption == Name \subseteq Nat \ {0}
ASSUME BoundsAssumption ==
  /\ MaxPosts \in Nat /\ HistoryCap \in Nat \ {0}
  /\ MaxCrashes \in Nat /\ MaxDrifts \in Nat
  /\ MaxOutside \in Nat /\ MaxFaults \in Nat
ASSUME FreshAssumption == FreshNames \in BOOLEAN
ASSUME CurrentAssumption == "current" \notin Engine

Action == {"eval", "download", "serve"}
Request == [action : Action, engine : Engine \cup {"current"}]

\* validate_job lets a serve job through only with a concrete engine.
ASSUME RequestsAssumption ==
  Requests \subseteq {r \in Request : r.action = "serve" => r.engine # "current"}

Id == 1..MaxPosts

\* What a queue file name holds: nothing, a document json.loads rejects (a
\* write_text that was opened and not finished), or a job.
NoFile == 0
Torn == MaxPosts + 1
Content == 0..(MaxPosts + 1)

NoName == 0
NoJob == 0

VARIABLES
  ask,       \* the request behind each accepted job
  posted,    \* jobs 1..posted have been answered 202 "queued": true
  queue,     \* QUEUE: file name -> content
  done,      \* DONE: file name -> content
  status,    \* status.json
  history,   \* dispatch_history.json, oldest entry first
  lock,      \* the processes that hold the flock on C.LOCK
  pc,        \* where each dispatcher process is
  path,      \* main's `path`: the file it picked
  job,       \* main's `job`
  res,       \* main's `result` and `error`
  engine,    \* registry.live_engine()["target"]: the unit that is active
  port,      \* the engine that answers on :18300
  behind,    \* engines live_engine will name next, with nobody asking
  outside,   \* another driver of :18300 is running (pgrep finds it)
  spent      \* how much of each bound has been used

web == <<ask, posted>>
locals == <<path, job, res>>
box == <<engine, port, behind>>
world == <<box, outside>>
vars == <<ask, posted, queue, done, status, history, lock, pc, path, job, res,
          engine, port, behind, outside, spent>>

-----------------------------------------------------------------------------
(* The documents.                                                          *)

PC == {"off", "pick", "read", "take", "validate", "busy", "unlink", "rewrite", "fill",
       "look", "switching", "assert", "probe", "run", "running",
       "restore", "restoring", "record", "publish", "archive"}

\* error "" and result rc 0; a runner's non-zero rc; a runner killed by the
\* timeout, whose returncode nobody collected; a refusal by validate_job; an
\* exception; nothing yet.
Result == {"none", "ok", "rc", "killed", "invalid", "error"}

\* off_baseline and restored_to start as null; resume() keeps them.
Flag == {"null", "yes", "no"}
Status == [state : {"idle", "running", "queued", "failed", "done"},
           phase : {"null", "validate", "waiting", "serve", "switch", "eval",
                    "download", "restore", "done"},
           job : Id \cup {NoJob}, restored : Flag, off : Flag]

default_doc == [state |-> "idle", phase |-> "null", job |-> NoJob,
                restored |-> "null", off |-> "null"]

Entry == [id : Id, state : {"done", "failed"}, result : Result]

-----------------------------------------------------------------------------
(* Helpers.                                                                *)

Files == {n \in Name : queue[n] # NoFile}

\* oldest_job: the first name in sorted order.
oldest_job(n) == n \in Files /\ \A m \in Files : n <= m

Explicit(t) == ask[job[t]].action = "serve"

\* The switch token a job asks for, or "current".
Wanted(t) == ask[job[t]].engine

\* finish()'s verdict, from error and result["rc"]: None is not a failure.
FinalState(r) == IF r \in {"ok", "killed"} THEN "done" ELSE "failed"

\* hist["jobs"][-200:]
LastEntries(s) ==
  IF Len(s) > HistoryCap
    THEN SubSeq(s, Len(s) - HistoryCap + 1, Len(s))
    ELSE s

Spend(k) == spent' = [spent EXCEPT ![k] = @ + 1]

Goto(t, l) == pc' = [pc EXCEPT ![t] = l]

\* main returns: the process ends and the kernel drops its flock.
Return(t) ==
  /\ pc' = [pc EXCEPT ![t] = "off"]
  /\ lock' = lock \ {t}
  /\ path' = [path EXCEPT ![t] = NoName]
  /\ job' = [job EXCEPT ![t] = NoJob]
  /\ res' = [res EXCEPT ![t] = "none"]

-----------------------------------------------------------------------------
(* The web server and the outside world.                                   *)

\* do_POST: an authorised, valid request is written under its job_id with
\* os.replace, over whatever that name held, and answered 202.  The validity
\* of a download depends on the free disk, so a refusal is simply no step.
Post(n) ==
  /\ posted < MaxPosts
  /\ FreshNames => queue[n] = NoFile /\ done[n] = NoFile
                   /\ \A t \in Tick : path[t] # n
  /\ posted' = posted + 1
  /\ queue' = [queue EXCEPT ![n] = posted + 1]
  /\ UNCHANGED <<ask, done, status, history, lock, pc, locals, world, spent>>

\* Someone starts a soak, a campaign lane or a runner by hand; it ends.
OutsideStarts ==
  /\ ~outside /\ spent.outside < MaxOutside
  /\ outside' = TRUE
  /\ Spend("outside")
  /\ UNCHANGED <<web, queue, done, status, history, lock, pc, locals, box>>

OutsideEnds ==
  /\ outside
  /\ outside' = FALSE
  /\ UNCHANGED <<web, queue, done, status, history, lock, pc, locals, box, spent>>

\* The serving engine dies and its unit is no longer active; a unit with a
\* Restart= will be again.
EngineDies ==
  /\ engine # None /\ spent.drift < MaxDrifts
  /\ engine' = None
  /\ port' = IF port = engine THEN None ELSE port
  /\ behind' = behind \cup ({engine} \cap Returning)
  /\ Spend("drift")
  /\ UNCHANGED <<web, queue, done, status, history, lock, pc, locals, outside>>

\* systemd starts a unit again, or what hid an active unit from live_engine is
\* gone.  The engine it takes over from may be named again later.
EngineReturns(e) ==
  /\ e \in behind /\ spent.drift < MaxDrifts
  /\ engine' = e
  /\ port' = IF Apart THEN port ELSE e
  /\ behind' = (behind \ {e}) \cup ({engine} \cap Returning)
  /\ Spend("drift")
  /\ UNCHANGED <<web, queue, done, status, history, lock, pc, locals, outside>>

\* Whoever kept the port lets go of it, and then the active unit binds it.
PortMoves ==
  /\ port # engine
  /\ port' = IF port = None THEN engine ELSE None
  /\ UNCHANGED <<web, queue, done, status, history, lock, pc, locals, engine,
                 behind, outside, spent>>

-----------------------------------------------------------------------------
(* main(), up to the point where the box is touched.                       *)

\* Variant: no flock at all.
StartUnlocked(t) ==
  /\ pc[t] = "off"
  /\ lock' = lock \cup {t}
  /\ Goto(t, "pick")
  /\ UNCHANGED <<web, queue, done, status, history, locals, world, spent>>

\* The timer (or an operator) starts a process.  The one that finds the lock
\* held returns 0 without a trace, which is no step at all.
Start(t) ==
  /\ pc[t] = "off"
  /\ lock = {}
  /\ lock' = lock \cup {t}
  /\ Goto(t, "pick")
  /\ UNCHANGED <<web, queue, done, status, history, locals, world, spent>>

\* Variant: an idle tick publishes a fresh document.
IdleTickBlank(t) ==
  /\ pc[t] = "pick"
  /\ Files = {}
  /\ status' = default_doc
  /\ Return(t)
  /\ UNCHANGED <<web, queue, done, history, world, spent>>

\* Variant: an idle tick puts the baseline back, owning no job.
IdleTickRestores(t) ==
  /\ pc[t] = "pick"
  /\ Files = {}
  /\ engine' = Baseline /\ port' = Baseline
  /\ status' = [status EXCEPT !.state = "idle", !.phase = "null", !.job = NoJob]
  /\ Return(t)
  /\ UNCHANGED <<web, queue, done, history, behind, outside, spent>>

\* Nothing queued: publish an idle status on top of the last job's record.
IdleTick(t) ==
  /\ pc[t] = "pick"
  /\ Files = {}
  /\ status' = [status EXCEPT !.state = "idle", !.phase = "null", !.job = NoJob]
  /\ Return(t)
  /\ UNCHANGED <<web, queue, done, history, world, spent>>

Pick(t) ==
  /\ pc[t] = "pick"
  /\ \E n \in Name : oldest_job(n) /\ path' = [path EXCEPT ![t] = n]
  /\ Goto(t, "read")
  /\ UNCHANGED <<web, queue, done, status, history, lock, job, res, world, spent>>

\* json.loads raised: archive the file, say so, keep the last job's record.
ReadUnreadable(t) ==
  /\ pc[t] = "read"
  /\ queue[path[t]] = Torn
  /\ done' = [done EXCEPT ![path[t]] = Torn]
  /\ queue' = [queue EXCEPT ![path[t]] = NoFile]
  /\ status' = [status EXCEPT !.state = "failed"]
  /\ Return(t)
  /\ UNCHANGED <<web, history, world, spent>>

\* Variant: the file is consumed when it is read, not when the job is finished.
ReadConsumes(t) ==
  /\ pc[t] = "read"
  /\ queue[path[t]] \in Id
  /\ job' = [job EXCEPT ![t] = queue[path[t]]]
  /\ queue' = [queue EXCEPT ![path[t]] = NoFile]
  /\ status' = default_doc
  /\ Goto(t, "take")
  /\ UNCHANGED <<web, done, history, lock, path, res, world, spent>>

\* json.loads gave a job.  A new Status() flushes a blank document.
Read(t) ==
  /\ pc[t] = "read"
  /\ queue[path[t]] \in Id
  /\ job' = [job EXCEPT ![t] = queue[path[t]]]
  /\ status' = default_doc
  /\ Goto(t, "take")
  /\ UNCHANGED <<web, queue, done, history, lock, path, res, world, spent>>

\* The job is published as running.
Take(t) ==
  /\ pc[t] = "take"
  /\ status' = [status EXCEPT !.state = "running", !.phase = "validate",
                              !.job = job[t]]
  /\ Goto(t, "validate")
  /\ UNCHANGED <<web, queue, done, history, lock, locals, world, spent>>

\* Variant: a refusal returns without finish(), dropping the file.
ValidateDrops(t) ==
  /\ pc[t] = "validate"
  /\ \/ /\ Goto(t, "busy")
        /\ UNCHANGED <<queue, lock, locals>>
     \/ /\ ask[job[t]].action = "download"
        /\ queue' = [queue EXCEPT ![path[t]] = NoFile]
        /\ Return(t)
  /\ UNCHANGED <<web, done, status, history, world, spent>>

\* The queue may have sat for hours: only the disk can change the answer
\* do_POST got for the same document.
Validate(t) ==
  /\ pc[t] = "validate"
  /\ \/ Goto(t, "busy") /\ UNCHANGED res
     \/ /\ ask[job[t]].action = "download"
        /\ res' = [res EXCEPT ![t] = "invalid"]
        /\ Goto(t, "record")
  /\ UNCHANGED <<web, queue, done, status, history, lock, path, job, world, spent>>

\* busy_with_something_else: None lets the job go on.
NotBusy(t) ==
  /\ pc[t] = "busy"
  /\ ~outside
  /\ Goto(t, "look")
  /\ UNCHANGED <<web, queue, done, status, history, lock, locals, world, spent>>

\* A measurement in flight owns the model: put the job back.
Defer(t) ==
  /\ pc[t] = "busy"
  /\ outside
  /\ status' = [status EXCEPT !.state = "queued", !.phase = "waiting"]
  /\ Goto(t, "unlink")
  /\ UNCHANGED <<web, queue, done, history, lock, locals, world, spent>>

\* Variant: the put-back forgets to write the file again.
UnlinkOnly(t) ==
  /\ pc[t] = "unlink"
  /\ queue' = [queue EXCEPT ![path[t]] = NoFile]
  /\ Return(t)
  /\ UNCHANGED <<web, done, status, history, world, spent>>

\* Variant: the put-back creates the file and writes nothing into it.
RewriteOnly(t) ==
  /\ pc[t] = "rewrite"
  /\ queue' = [queue EXCEPT ![path[t]] = Torn]
  /\ Return(t)
  /\ UNCHANGED <<web, done, status, history, world, spent>>

\* The put-back is an unlink and a plain write_text: three file operations.
\* An exception in any of them is swallowed and the tick returns 0.
Unlink(t) ==
  /\ pc[t] = "unlink"
  /\ queue' = [queue EXCEPT ![path[t]] = NoFile]
  /\ Goto(t, "rewrite")
  /\ UNCHANGED <<web, done, status, history, lock, locals, world, spent>>

Rewrite(t) ==
  /\ pc[t] = "rewrite"
  /\ queue' = [queue EXCEPT ![path[t]] = Torn]
  /\ Goto(t, "fill")
  /\ UNCHANGED <<web, done, status, history, lock, locals, world, spent>>

Fill(t) ==
  /\ pc[t] = "fill"
  /\ queue' = [queue EXCEPT ![path[t]] = job[t]]
  /\ Return(t)
  /\ UNCHANGED <<web, done, status, history, world, spent>>

RequeueRaises(t) ==
  /\ pc[t] \in {"unlink", "rewrite", "fill"}
  /\ spent.fault < MaxFaults
  /\ Spend("fault")
  /\ Return(t)
  /\ UNCHANGED <<web, queue, done, status, history, world>>

-----------------------------------------------------------------------------
(* main(), the try block: serve, or do_switch and then the run.            *)

\* serve.sh is started for an explicit job whatever is serving, and for the
\* others unless they want the engine that is.
StartServe(t) ==
  /\ pc[t] = "look"
  /\ Explicit(t) \/ Wanted(t) \notin {"current", engine}
  /\ status' = [status EXCEPT !.phase = IF Explicit(t) THEN "serve" ELSE "switch"]
  /\ Goto(t, "switching")
  /\ UNCHANGED <<web, queue, done, history, lock, locals, world, spent>>

NoSwitch(t) ==
  /\ pc[t] = "look"
  /\ ~Explicit(t) /\ Wanted(t) \in {"current", engine}
  /\ Goto(t, "run")
  /\ UNCHANGED <<web, queue, done, status, history, lock, locals, world, spent>>

\* An exception in the try block: remember it, go to the finally clause.
Raise(t) ==
  /\ res' = [res EXCEPT ![t] = "error"]
  /\ Goto(t, "restore")

Here == [after |-> engine, port |-> port, behind |-> behind]

Becomes(b) == engine' = b.after /\ port' = b.port /\ behind' = b.behind

\* The rc of serve.sh.  Only do_switch goes on to ask what is serving now.
ServeReturns(t) ==
  /\ pc[t] = "switching"
  /\ \E o \in ServeOutcomes(Wanted(t), Here) :
       /\ Becomes(o.box)
       /\ \/ o.rc = "nonzero" /\ Raise(t)
          \/ /\ o.rc = "zero"
             /\ Goto(t, IF Explicit(t) THEN "probe" ELSE "assert")
             /\ UNCHANGED res
  /\ UNCHANGED <<web, queue, done, status, history, lock, path, job, outside, spent>>

\* Variant: exit status 0 is believed.
AssertTookTrusting(t) ==
  /\ pc[t] = "assert"
  /\ Goto(t, "probe")
  /\ UNCHANGED <<web, queue, done, status, history, lock, locals, world, spent>>

\* "Assert the engine we asked for is the engine that is now serving, before
\* anything is measured on it."
AssertTook(t) ==
  /\ pc[t] = "assert"
  /\ \/ engine # Wanted(t) /\ Raise(t)
     \/ engine = Wanted(t) /\ Goto(t, "probe") /\ UNCHANGED res
  /\ UNCHANGED <<web, queue, done, status, history, lock, path, job, world, spent>>

\* probe_generation: something on the port generates, or it does not.
Probe(t) ==
  /\ pc[t] = "probe"
  /\ \/ Raise(t)
     \/ /\ port # None /\ ~Explicit(t)
        /\ Goto(t, "run")
        /\ UNCHANGED res
     \/ /\ port # None /\ Explicit(t)
        /\ res' = [res EXCEPT ![t] = "ok"]
        /\ Goto(t, "restore")
  /\ UNCHANGED <<web, queue, done, status, history, lock, path, job, world, spent>>

\* do_eval and do_download up to Popen, either of which may raise first: a
\* download looks at the disk once more, and may find no hf CLI.
StartRun(t) ==
  /\ pc[t] = "run"
  /\ \/ /\ status' = [status EXCEPT !.phase = ask[job[t]].action]
        /\ Goto(t, "running")
        /\ UNCHANGED res
     \/ Raise(t) /\ UNCHANGED status
  /\ UNCHANGED <<web, queue, done, history, lock, path, job, world, spent>>

\* The runner exits, or outlives its timeout: after terminate() its returncode
\* is -15, after kill() nobody polls again and it stays None.  Publishing what
\* the run left on the disk may raise.
EvalEnds(t) ==
  /\ pc[t] = "running"
  /\ ask[job[t]].action = "eval"
  /\ \/ Raise(t)
     \/ /\ \E r \in {"ok", "rc", "killed"} : res' = [res EXCEPT ![t] = r]
        /\ Goto(t, "restore")
  /\ UNCHANGED <<web, queue, done, status, history, lock, path, job, world, spent>>

\* `hf download` exits 0; or it does not, or it passes 4 h: both raise.
DownloadEnds(t) ==
  /\ pc[t] = "running"
  /\ ask[job[t]].action = "download"
  /\ \/ Raise(t)
     \/ res' = [res EXCEPT ![t] = "ok"] /\ Goto(t, "restore")
  /\ UNCHANGED <<web, queue, done, status, history, lock, path, job, world, spent>>

-----------------------------------------------------------------------------
(* main(), the finally clause: the baseline comes back.                    *)

\* Variant: only a drift is recorded.
LeaveExplicitSilent(t) ==
  /\ pc[t] = "restore"
  /\ Explicit(t)
  /\ status' = IF engine # Baseline THEN [status EXCEPT !.off = "yes"] ELSE status
  /\ Goto(t, "record")
  /\ UNCHANGED <<web, queue, done, history, lock, locals, world, spent>>

\* Variant: a switch that did what it was asked to is recorded as no drift.
LeaveExplicitNoDrift(t) ==
  /\ pc[t] = "restore"
  /\ Explicit(t)
  /\ status' = [status EXCEPT !.off = IF engine = Wanted(t) THEN "no" ELSE "yes"]
  /\ Goto(t, "record")
  /\ UNCHANGED <<web, queue, done, history, lock, locals, world, spent>>

\* An explicit switch is left alone; the drift, if any, is recorded.
LeaveExplicit(t) ==
  /\ pc[t] = "restore"
  /\ Explicit(t)
  /\ status' = [status EXCEPT !.off = IF engine # Baseline THEN "yes" ELSE "no"]
  /\ Goto(t, "record")
  /\ UNCHANGED <<web, queue, done, history, lock, locals, world, spent>>

AlreadyBaseline(t) ==
  /\ pc[t] = "restore"
  /\ ~Explicit(t) /\ engine = Baseline
  /\ status' = [status EXCEPT !.off = "no"]
  /\ Goto(t, "record")
  /\ UNCHANGED <<web, queue, done, history, lock, locals, world, spent>>

\* Variant: the baseline comes back only after a run that succeeded.
StartRestoreOnSuccess(t) ==
  /\ pc[t] = "restore"
  /\ ~Explicit(t) /\ engine # Baseline
  /\ \/ /\ res[t] = "ok"
        /\ status' = [status EXCEPT !.phase = "restore"]
        /\ Goto(t, "restoring")
     \/ /\ res[t] # "ok"
        /\ Goto(t, "record")
        /\ UNCHANGED status
  /\ UNCHANGED <<web, queue, done, history, lock, locals, world, spent>>

StartRestore(t) ==
  /\ pc[t] = "restore"
  /\ ~Explicit(t) /\ engine # Baseline
  /\ status' = [status EXCEPT !.phase = "restore"]
  /\ Goto(t, "restoring")
  /\ UNCHANGED <<web, queue, done, history, lock, locals, world, spent>>

\* Variant: the restore is tried until it works.
RestoreRetries(t) ==
  /\ pc[t] = "restoring"
  /\ \E o \in ServeOutcomes(Baseline, Here) :
       /\ Becomes(o.box)
       /\ status' = [status EXCEPT
                       !.restored = IF o.rc = "zero" THEN "yes" ELSE "no",
                       !.off = IF o.rc = "zero" THEN "no" ELSE "yes"]
       /\ Goto(t, IF o.rc = "zero" THEN "record" ELSE "restore")
  /\ UNCHANGED <<web, queue, done, history, lock, locals, outside, spent>>

\* The receipt is written from the exit status of serve.sh alone.
RestoreReturns(t) ==
  /\ pc[t] = "restoring"
  /\ \E o \in ServeOutcomes(Baseline, Here) :
       /\ Becomes(o.box)
       /\ status' = [status EXCEPT
                       !.restored = IF o.rc = "zero" THEN "yes" ELSE "no",
                       !.off = IF o.rc = "zero" THEN "no" ELSE "yes"]
  /\ Goto(t, "record")
  /\ UNCHANGED <<web, queue, done, history, lock, locals, outside, spent>>

\* A restore that raises is recorded as one that failed.
RestoreRaises(t) ==
  /\ pc[t] = "restore"
  /\ spent.fault < MaxFaults
  /\ Spend("fault")
  /\ status' = [status EXCEPT !.restored = "no", !.off = "yes"]
  /\ Goto(t, "record")
  /\ UNCHANGED <<web, queue, done, history, lock, locals, world>>

-----------------------------------------------------------------------------
(* finish(): the history, the receipt, the archive, in that order.         *)

Record(t) ==
  /\ pc[t] = "record"
  /\ history' = LastEntries(Append(history,
                  [id |-> job[t], state |-> FinalState(res[t]), result |-> res[t]]))
  /\ Goto(t, "publish")
  /\ UNCHANGED <<web, queue, done, status, lock, locals, world, spent>>

\* Variant: the verdict is published as the phase, too.
PublishPhase(t) ==
  /\ pc[t] = "publish"
  /\ status' = [status EXCEPT
                  !.state = FinalState(res[t]), !.job = job[t],
                  !.phase = FinalState(res[t])]
  /\ Goto(t, "archive")
  /\ UNCHANGED <<web, queue, done, history, lock, locals, world, spent>>

Publish(t) ==
  /\ pc[t] = "publish"
  /\ status' = [status EXCEPT
                  !.state = FinalState(res[t]), !.job = job[t],
                  !.phase = IF FinalState(res[t]) = "done" THEN "done" ELSE @]
  /\ Goto(t, "archive")
  /\ UNCHANGED <<web, queue, done, history, lock, locals, world, spent>>

\* Variant: the file is copied to the archive, not moved.
ArchiveCopies(t) ==
  /\ pc[t] = "archive"
  /\ done' = [done EXCEPT ![path[t]] = queue[path[t]]]
  /\ Return(t)
  /\ UNCHANGED <<web, queue, status, history, world, spent>>

\* rename moves whatever the queue name holds by now, over an older archive.
Archive(t) ==
  /\ pc[t] = "archive"
  /\ done' = [done EXCEPT ![path[t]] = queue[path[t]]]
  /\ queue' = [queue EXCEPT ![path[t]] = NoFile]
  /\ Return(t)
  /\ UNCHANGED <<web, status, history, world, spent>>

\* A rename that raises is only logged: the file stays where it is.
ArchiveRaises(t) ==
  /\ pc[t] = "archive"
  /\ spent.fault < MaxFaults
  /\ Spend("fault")
  /\ Return(t)
  /\ UNCHANGED <<web, queue, done, status, history, world>>

-----------------------------------------------------------------------------
(* The process is killed: a reboot, an OOM kill, TimeoutStartSec.  systemd *)
(* takes the children with it, and the kernel drops the flock.             *)

Crash(t) ==
  /\ pc[t] # "off" /\ spent.crash < MaxCrashes
  /\ \E b \in IF pc[t] \in {"switching", "restoring"} THEN ServeFails ELSE {Here} :
       Becomes(b)
  /\ Spend("crash")
  /\ Return(t)
  /\ UNCHANGED <<web, queue, done, status, history, outside>>

-----------------------------------------------------------------------------

Init ==
  /\ ask \in [Id -> Requests]
  /\ posted = 0
  /\ queue = [n \in Name |-> NoFile]
  /\ done = [n \in Name |-> NoFile]
  /\ status = default_doc
  /\ history = <<>>
  /\ lock = {}
  /\ pc = [t \in Tick |-> "off"]
  /\ path = [t \in Tick |-> NoName]
  /\ job = [t \in Tick |-> NoJob]
  /\ res = [t \in Tick |-> "none"]
  /\ engine \in Serving /\ port = engine /\ behind = {}
  /\ outside = FALSE
  /\ spent = [crash |-> 0, drift |-> 0, outside |-> 0, fault |-> 0]

PickUp(t) ==
  Start(t) \/ IdleTick(t) \/ Pick(t) \/ ReadUnreadable(t) \/ Read(t) \/ Take(t)
  \/ Validate(t) \/ NotBusy(t)

PutBack(t) == Defer(t) \/ Unlink(t) \/ Rewrite(t) \/ Fill(t)

Execute(t) ==
  StartServe(t) \/ NoSwitch(t) \/ ServeReturns(t) \/ AssertTook(t) \/ Probe(t)
  \/ StartRun(t) \/ EvalEnds(t) \/ DownloadEnds(t)

BringBack(t) ==
  LeaveExplicit(t) \/ AlreadyBaseline(t) \/ StartRestore(t) \/ RestoreReturns(t)

Finish(t) == Record(t) \/ Publish(t) \/ Archive(t)

\* The program's own steps, none of which is a fault.
Step(t) == PickUp(t) \/ PutBack(t) \/ Execute(t) \/ BringBack(t) \/ Finish(t)

Fault(t) == RequeueRaises(t) \/ RestoreRaises(t) \/ ArchiveRaises(t) \/ Crash(t)

World ==
  \/ OutsideStarts \/ OutsideEnds
  \/ EngineDies \/ PortMoves
  \/ \E e \in Engine : EngineReturns(e)

Next ==
  \/ \E n \in Name : Post(n)
  \/ \E t \in Tick : Step(t) \/ Fault(t)
  \/ World

Spec == Init /\ [][Next]_vars

\* The timer fires 15 s after every exit, and every wait of the dispatcher has
\* a timeout, so a tick that can go on does; an outside measurement ends.
\* Nobody has to post anything and nothing has to fail.
Fairness ==
  /\ \A t \in Tick : WF_vars(Step(t))
  /\ WF_vars(OutsideEnds)

FairSpec == Spec /\ Fairness

-----------------------------------------------------------------------------
(* Properties.                                                             *)

\* What the files under RUNBOARD_LOAD hold, and the requests behind them.
FilesOK ==
  /\ ask \in [Id -> Requests]
  /\ posted \in 0..MaxPosts
  /\ queue \in [Name -> Content]
  /\ done \in [Name -> Content]
  /\ status \in Status
  /\ history \in Seq(Entry)

\* main's locals: it knows its file once it has picked one, and its job once
\* it has read it.
ProcessOK ==
  /\ lock \subseteq Tick
  /\ pc \in [Tick -> PC]
  /\ path \in [Tick -> Name \cup {NoName}]
  /\ job \in [Tick -> Id \cup {NoJob}]
  /\ res \in [Tick -> Result]
  /\ \A t \in Tick :
       /\ pc[t] \notin {"off", "pick"} => path[t] \in Name
       /\ pc[t] \notin {"off", "pick", "read"} => job[t] \in Id

WorldOK ==
  /\ Here \in Boxes
  /\ outside \in BOOLEAN
  /\ spent \in [crash : 0..MaxCrashes, drift : 0..MaxDrifts,
                outside : 0..MaxOutside, fault : 0..MaxFaults]

\* Every variable keeps the values the files and the process can hold
\* (the documents and locals of main(), dispatcher.py:510-674).
TypeOK == FilesOK /\ ProcessOK /\ WorldOK

Alive(t) == pc[t] # "off"

\* README rule 3, "one lock, held across a whole job": however many processes
\* the timer and an operator start, and wherever one is killed, at most one of
\* them is past the flock, so two jobs never contend for :18300.
OneTick == \A s, t \in Tick : Alive(s) /\ Alive(t) => s = t

\* A job that named an engine and is about to measure on it.
Measuring(t) ==
  /\ pc[t] \in {"probe", "run", "running"}
  /\ ~Explicit(t) /\ Wanted(t) # "current"

\* What do_switch's assertion does establish (dispatcher.py:240-253), whatever
\* serve.sh's exit status was worth: no job comes to measure, or goes on to,
\* while live_engine names another engine than the one it named, unless an
\* engine came to serve after the assertion with nobody asking.
NamedWhileMeasured ==
  [][\A t \in Tick : Measuring(t)' =>
       \/ engine' \in {Wanted(t)', None} \cup behind
       \/ Measuring(t) /\ engine' = engine]_vars

\* What the comment at dispatcher.py:240-250 wants of that assertion: the run
\* reaches the engine the job named, or none.  live_engine names the unit that
\* is active; what the run reaches is the engine on the port.
MeasuredOnWanted ==
  \A t \in Tick :
    pc[t] \in {"run", "running"} /\ Wanted(t) # "current" =>
      port \in {Wanted(t), None}

\* The receipt of README rule 5, over the whole life of the document: it says
\* off_baseline false only of a box that is on the baseline, and while it
\* stands the box leaves the baseline in two ways only: the engine dies, or
\* another comes to serve with nobody asking.  Idle ticks, crashes and restarts
\* of the dispatcher included.
ReceiptTruthful ==
  [][status'.off = "no" =>
       \/ engine' = Baseline
       \/ status.off = "no" /\ engine' \in {engine, None} \cup behind]_vars

\* README rules 4 and 5: a job is never published as done with the baseline
\* question unanswered, whatever was switched, raised or restored before.
DoneIsAccountedFor == status.state = "done" => status.off # "null"

Settled(id) == \E i \in 1..Len(history) : history[i].id = id

Queued(id) == \E n \in Name : queue[n] = id

JustRead(t) == pc[t] = "take" /\ Queued(job[t])

\* Status.resume (dispatcher.py:84-93): the receipt of the job before is blanked
\* only by a tick that has just read the next job, whose file is still there to
\* be run; never by an idle tick, an unreadable file or a failure.
ReceiptKept ==
  [][status.off # "null" /\ status'.off = "null" =>
       \E t \in Tick : JustRead(t)']_vars

\* The job is between the unlink and the end of the write of a put-back.
BeingPutBack(id) ==
  \E t \in Tick : job[t] = id /\ pc[t] \in {"rewrite", "fill"}

Known(id) == Queued(id) \/ BeingPutBack(id) \/ Settled(id)

\* A job answered 202 "queued": true is in the queue, being put back into it,
\* or in the history: the put-back, the archive and a crash do not lose it
\* (dispatcher.py:551-564, 489-507).
NoJobLost == \A id \in 1..posted : Known(id)

\* Where an accepted job can be lost at all: in a put-back that fails or is
\* killed between the unlink and the end of the write (dispatcher.py:551-564),
\* and at no other step.
LostOnlyInPutBack ==
  [][\A id \in 1..posted : Known(id) /\ ~Known(id)' =>
       /\ BeingPutBack(id)
       /\ spent'.crash > spent.crash \/ spent'.fault > spent.fault]_vars

\* A job is finished once, and once more for each process killed and each
\* archive that failed: nothing else makes a tick run a finished job again.
RunsBounded ==
  \A id \in Id :
    Cardinality({i \in 1..Len(history) : history[i].id = id})
      <= 1 + spent.crash + spent.fault

\* What the comment at dispatcher.py:661-666 wants of finish: a job is recorded
\* as done only when its runner exited with status 0.
DoneMeansExitZero ==
  \A i \in 1..Len(history) :
    history[i].state = "done" => history[i].result = "ok"

\* Every job answered 202 is finished, whatever is killed on the way: the next
\* tick finds its file again (dispatcher.py:520-538).
EverySettles == \A id \in Id : posted >= id ~> Settled(id)

\* The finally clause and the re-run together: once a job has the box, the box
\* is back on the baseline later on, or the receipt says that it is not.
BoxComesHome ==
  \A t \in Tick :
    pc[t] = "running" ~> engine = Baseline \/ status.off = "yes"

\* A crash leaves status.json saying "running"; some later tick corrects it.
NoGhostRun == status.state = "running" ~> status.state # "running"
=============================================================================
