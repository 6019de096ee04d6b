------------------------------ MODULE LoadSoak ------------------------------
(***************************************************************************)
(* load_soak.py: main, the telemetry thread and one pool of workers per    *)
(* phase, over _state, the lock and three files: requests.jsonl, state.json*)
(* and state.json.tmp.                                                     *)
(***************************************************************************)
EXTENDS Integers, FiniteSets

CONSTANTS
  Worker, Phases,      \* threads of a pool; how many phases
  Conc(_),             \* a phase's concurrency: the workers of its pool
  None,
  Empty, Torn, Old,    \* a file's text when it is no document of this run
  MaxPosts, MaxSamples \* posts of a phase; samples told apart

ASSUME LoadSoakAssumption ==
  /\ Phases \in Nat /\ MaxPosts \in Nat /\ MaxSamples \in Nat
  /\ IsFiniteSet(Worker) /\ \A p \in 1..Phases : Conc(p) \subseteq Worker
  /\ None \notin {Empty, Torn, Old} /\ Empty \notin {Torn, Old} /\ Torn # Old

Phase == 1..Phases
DONE == Phases + 1

VARIABLES
  main, goal,          \* main's step; which write_state it is in
  tel, work,           \* steps of the telemetry thread and of the workers
  lock, stop, past,    \* _state_lock; stop_tel; the phase's deadline is over
  phase,               \* _state: the phase under way, by number, or DONE
  result,              \* _state: each phase's result
  samples, totals,     \* _state: length of the series, totals
  window, errs, read,  \* of the phase: len(window), errs, a worker's copy of it
  raised,              \* of the phase: workers that ended by an exception
  posts, failed,       \* history: posts of the phase, failed posts of each
  rows,                \* requests.jsonl: rows of each phase
  file, fd, dump,      \* state.json(.tmp); a writer's open file; its json text
  exit                 \* the exit status

locals == <<window, errs, read, raised, posts>>
shared == <<phase, result, samples, totals>>
files  == <<file, fd, dump>>
vars == <<main, goal, tel, work, lock, stop, past, shared, locals, failed, rows, files, exit>>

Writer == {"main", "tel"}
Name   == {"tmp", "state"}

\* What state.json says: how far the run is, and how long the text is.
Doc == [phase : 0..DONE, results : 0..Phases, samples : 0..MaxSamples]
Result == [requests : Nat, errors : Nat, ok : BOOLEAN]

\* No document, result, thread, file or status is taken for one of the markers.
ASSUME MarkerAssumption ==
  /\ \A m \in {None, Empty, Torn, Old} : m \notin Doc
  /\ None \notin Result /\ None \notin Writer /\ None \notin Name \cup {"gone"}
  /\ None \notin {0, 1}

Results(r) == Cardinality({p \in Phase : r[p] # None})
Snapshot == [phase |-> phase, results |-> Results(result), samples |-> samples]
Alive == main \notin {"exited", "raised"}

Init ==
  /\ main = "begin" /\ goal = "first" /\ tel = "unborn"
  /\ work = [w \in Worker |-> "out"]
  /\ lock = None /\ stop = FALSE /\ past = FALSE
  /\ phase = 0 /\ result = [p \in Phase |-> None] /\ samples = 0
  /\ totals = [requests |-> 0, errors |-> 0]
  /\ window = 0 /\ errs = 0 /\ read = [w \in Worker |-> 0] /\ raised = 0 /\ posts = 0
  /\ failed = [p \in Phase |-> 0]
  /\ \E n \in {0, 1} : rows = [p \in Phase |-> n]
  /\ file = [tmp |-> None, state |-> Old]
  /\ fd = [t \in Writer |-> None] /\ dump = [t \in Writer |-> None]
  /\ exit = None

-----------------------------------------------------------------------------
(* write_state, by main or by the telemetry thread.  An open file follows  *)
(* its inode through os.replace.                                           *)

\* json.dumps, then open("w"): the name keeps its inode and loses its content.
Opens(t) ==
  /\ dump' = [dump EXCEPT ![t] = Snapshot]
  /\ file' = [file EXCEPT !["tmp"] = Empty]
  /\ fd' = [fd EXCEPT ![t] = "tmp"]

\* A text over a longer one leaves the tail of it.
Over(old, new) ==
  IF old = Empty THEN new
  ELSE IF old = Torn \/ old.samples > new.samples THEN Torn ELSE new

Fills(t) ==
  /\ file' = IF fd[t] = "gone" THEN file
             ELSE [file EXCEPT ![fd[t]] = Over(file[fd[t]], dump[t])]
  /\ fd' = [fd EXCEPT ![t] = None]
  /\ dump' = [dump EXCEPT ![t] = None]

Moved(name) == CASE name = "tmp" -> "state" [] name = "state" -> "gone" [] OTHER -> name

Replaces ==
  /\ file["tmp"] # None
  /\ file' = [tmp |-> None, state |-> file["tmp"]]
  /\ fd' = [t \in Writer |-> Moved(fd[t])]
  /\ UNCHANGED dump

-----------------------------------------------------------------------------
(* main                                                                    *)

Goes(from, to) == main = from /\ main' = to

Begin ==
  /\ Goes("begin", "open")
  /\ rows' = [p \in Phase |-> 0]
  /\ tel' = "loop"
  /\ UNCHANGED <<goal, work, lock, stop, past, shared, locals, failed, files, exit>>

MainOpens ==
  /\ Goes("open", "fill") /\ Opens("main")
  /\ UNCHANGED <<goal, tel, work, lock, stop, past, shared, locals, failed, rows, exit>>

MainFills ==
  /\ Goes("fill", "replace") /\ Fills("main")
  /\ UNCHANGED <<goal, tel, work, lock, stop, past, shared, locals, failed, rows, exit>>

\* The first write is outside the lock, the others let it go here.
MainReplaces ==
  /\ Goes("replace", CASE goal = "first" -> "next" [] goal = "phase" -> "push"
                       [] goal = "last" -> "verdict")
  /\ Replaces
  /\ lock' = IF goal = "first" THEN lock ELSE None
  /\ UNCHANGED <<goal, tel, work, stop, past, shared, locals, failed, rows, exit>>

\* The telemetry thread took the file away: os.replace raises out of main.
MainLosesFile ==
  /\ Goes("replace", "raised") /\ file["tmp"] = None
  /\ exit' = 1
  /\ UNCHANGED <<goal, tel, work, lock, stop, past, shared, locals, failed, rows, files>>

StartPhase ==
  /\ Goes("next", "join") /\ phase < Phases
  /\ phase' = phase + 1 /\ past' = FALSE
  /\ window' = 0 /\ errs' = 0 /\ raised' = 0 /\ posts' = 0
  /\ work' = [w \in Worker |-> IF w \in Conc(phase') THEN "loop" ELSE "out"]
  /\ UNCHANGED <<goal, tel, lock, stop, result, samples, totals, read, failed, rows, files, exit>>

\* Variant: the first worker to end ends the phase.
JoinOne ==
  /\ Goes("join", "record")
  /\ \E w \in Conc(phase) : work[w] = "out"
  /\ UNCHANGED <<goal, tel, work, lock, stop, past, shared, locals, failed, rows, files, exit>>

\* The pool's futures have all been read.
Join ==
  /\ Goes("join", "record")
  /\ \A w \in Conc(phase) : work[w] = "out"
  /\ UNCHANGED <<goal, tel, work, lock, stop, past, shared, locals, failed, rows, files, exit>>

Records(ok) ==
  /\ Goes("record", "lock") /\ goal' = "phase"
  /\ result' = [result EXCEPT ![phase] = [requests |-> window, errors |-> errs, ok |-> ok]]
  /\ UNCHANGED <<tel, work, lock, stop, past, phase, samples, totals, locals, failed, rows,
                 files, exit>>

\* Variants: the phase is well although nothing was measured; no verdict.
RecordUnmeasured == Records(raised = 0)
RecordNoVerdict  == Records(None)

\* `done` and `result` are set without the lock.
Record == Records(window > 0 /\ raised = 0)

\* Variant: the phase is published without the lock.
MainUnlocked ==
  /\ Goes("lock", "open")
  /\ UNCHANGED <<goal, tel, work, lock, stop, past, shared, locals, failed, rows, files, exit>>

MainLocks ==
  /\ Goes("lock", "open")
  /\ lock = None /\ lock' = "main"
  /\ phase' = IF goal = "last" THEN DONE ELSE phase
  /\ UNCHANGED <<goal, tel, work, stop, past, result, samples, totals, locals, failed, rows,
                 files, exit>>

\* One more moment on the time axis, under the lock; the other series, which
\* samples counts, do not grow.
Push ==
  /\ Goes("push", "next") /\ lock = None
  /\ UNCHANGED <<goal, tel, work, lock, stop, past, shared, locals, failed, rows, files, exit>>

\* The logs are closed, the telemetry told to stop, summary.json written.
Close ==
  /\ Goes("next", "lock") /\ phase = Phases
  /\ goal' = "last" /\ stop' = TRUE
  /\ UNCHANGED <<tel, work, lock, past, shared, locals, failed, rows, files, exit>>

Verdict ==
  /\ Goes("verdict", "exited")
  /\ exit' = IF \A p \in Phase : result[p].ok THEN 0 ELSE 1
  /\ UNCHANGED <<goal, tel, work, lock, stop, past, shared, locals, failed, rows, files>>

Main ==
  \/ Begin \/ MainOpens \/ MainFills \/ MainReplaces \/ MainLosesFile
  \/ StartPhase \/ Join \/ Record \/ MainLocks \/ Push \/ Close \/ Verdict

-----------------------------------------------------------------------------
(* telemetry, a daemon: it ends with main at the latest.                   *)

Samples(from, to) ==
  /\ Alive /\ tel = from /\ tel' = to
  /\ UNCHANGED <<main, goal, work, stop, past, phase, result, totals, locals, failed, rows, exit>>

\* nvidia-smi and /proc/meminfo are read, or something raises and is swallowed.
Sample ==
  /\ ~stop
  /\ Samples("loop", "lock") \/ Samples("loop", "sleep")
  /\ UNCHANGED <<lock, samples, files>>

TelEnds   == stop /\ Samples("loop", "ended") /\ UNCHANGED <<lock, samples, files>>
TelSleeps == Samples("sleep", "loop") /\ UNCHANGED <<lock, samples, files>>

TelLocks ==
  /\ Samples("lock", "open")
  /\ lock = None /\ lock' = "tel"
  /\ samples' = IF samples < MaxSamples THEN samples + 1 ELSE samples
  /\ UNCHANGED files

TelOpens == Samples("open", "fill") /\ Opens("tel") /\ UNCHANGED <<lock, samples>>
TelFills == Samples("fill", "replace") /\ Fills("tel") /\ UNCHANGED <<lock, samples>>

TelReplaces ==
  /\ Samples("replace", "sleep") /\ Replaces
  /\ lock' = None /\ UNCHANGED samples

\* Variant: the lock is kept when os.replace raises.
TelKeepsLock ==
  /\ Samples("replace", "sleep") /\ file["tmp"] = None
  /\ UNCHANGED <<lock, samples, files>>

\* os.replace raised: swallowed, and the lock is released on the way.
TelLosesFile ==
  /\ Samples("replace", "sleep") /\ file["tmp"] = None
  /\ lock' = None /\ UNCHANGED <<samples, files>>

Telemetry ==
  \/ Sample \/ TelEnds \/ TelSleeps \/ TelLocks
  \/ TelOpens \/ TelFills \/ TelReplaces \/ TelLosesFile

-----------------------------------------------------------------------------
(* worker                                                                  *)

Works(w, from, to) ==
  /\ Alive /\ work[w] = from /\ work' = [work EXCEPT ![w] = to]
  /\ UNCHANGED <<main, goal, tel, lock, stop, past, phase, result, samples, files, exit>>

Loop(w) ==
  /\ \/ past /\ Works(w, "loop", "out") /\ UNCHANGED posts
     \/ ~past /\ posts < MaxPosts /\ posts' = posts + 1 /\ Works(w, "loop", "post")
  /\ UNCHANGED <<totals, window, errs, read, raised, failed, rows>>

Answered(w) ==
  /\ Works(w, "post", "row")
  /\ UNCHANGED <<totals, locals, failed, rows>>

Failed(w) ==
  /\ Works(w, "post", "log error")
  /\ failed' = [failed EXCEPT ![phase] = @ + 1]
  /\ UNCHANGED <<totals, locals, rows>>

WriteRow(w) ==
  /\ Works(w, "row", "count")
  /\ rows' = [rows EXCEPT ![phase] = @ + 1]
  /\ UNCHANGED <<totals, locals, failed>>

\* A log's write raises, its line written or not: the worker is lost, and its
\* future says so.
WriteRaises(w) ==
  /\ Works(w, "row", "out") \/ Works(w, "log error", "out")
  /\ \E n \in IF work[w] = "row" THEN {0, 1} ELSE {0} :
       rows' = [rows EXCEPT ![phase] = @ + n]
  /\ raised' = raised + 1
  /\ UNCHANGED <<totals, window, errs, read, posts, failed>>

Count(w) ==
  /\ Works(w, "count", "loop") /\ lock = None
  /\ window' = window + 1
  /\ totals' = [totals EXCEPT !.requests = @ + 1]
  /\ UNCHANGED <<errs, read, raised, posts, failed, rows>>

LogError(w) ==
  /\ Works(w, "log error", "count error")
  /\ UNCHANGED <<totals, locals, failed, rows>>

CountError(w) ==
  /\ Works(w, "count error", "read errs") /\ lock = None
  /\ totals' = [totals EXCEPT !.errors = @ + 1]
  /\ UNCHANGED <<locals, failed, rows>>

\* `errs += 1` is outside the lock: a read and a write.
ReadErrs(w) ==
  /\ Works(w, "read errs", "write errs")
  /\ read' = [read EXCEPT ![w] = errs]
  /\ UNCHANGED <<totals, window, errs, raised, posts, failed, rows>>

WriteErrs(w) ==
  /\ Works(w, "write errs", "loop")
  /\ errs' = read[w] + 1 /\ read' = [read EXCEPT ![w] = 0]
  /\ UNCHANGED <<totals, window, raised, posts, failed, rows>>

Work(w) ==
  \/ Loop(w) \/ Answered(w) \/ Failed(w) \/ WriteRow(w) \/ WriteRaises(w)
  \/ Count(w) \/ LogError(w) \/ CountError(w) \/ ReadErrs(w) \/ WriteErrs(w)

\* The deadline of the phase, or the cap on the whole run.
Deadline ==
  /\ main = "join" /\ ~past /\ past' = TRUE
  /\ UNCHANGED <<main, goal, tel, work, lock, stop, shared, locals, failed, rows, files, exit>>

Next == Main \/ Telemetry \/ (\E w \in Worker : Work(w)) \/ Deadline

Spec == Init /\ [][Next]_vars

\* Threads run, a post answers or times out, the clock goes on; the telemetry
\* thread sleeps two seconds without the lock, so one who waits for it gets it.
Fairness ==
  /\ SF_vars(Main) /\ WF_vars(Telemetry) /\ WF_vars(Deadline)
  /\ \A w \in Worker : SF_vars(Work(w))

FairSpec == Spec /\ Fairness

-----------------------------------------------------------------------------
TypeOK ==
  /\ main \in {"begin", "open", "fill", "replace", "next", "join", "record", "lock",
               "push", "verdict", "exited", "raised"}
  /\ goal \in {"first", "phase", "last"} /\ lock \in {None} \cup Writer
  /\ tel \in {"unborn", "loop", "lock", "open", "fill", "replace", "sleep", "ended"}
  /\ work \in [Worker -> {"loop", "post", "row", "count", "log error", "count error",
                          "read errs", "write errs", "out"}]
  /\ stop \in BOOLEAN /\ past \in BOOLEAN /\ exit \in {None, 0, 1}
  /\ phase \in 0..DONE /\ result \in [Phase -> Result \cup {None}]
  /\ samples \in 0..MaxSamples /\ totals \in [requests : Nat, errors : Nat]
  /\ window \in Nat /\ errs \in Nat /\ read \in [Worker -> Nat] /\ raised \in Nat
  /\ posts \in 0..MaxPosts /\ failed \in [Phase -> Nat] /\ rows \in [Phase -> Nat]
  /\ file \in [Name -> Doc \cup {None, Empty, Torn, Old}]
  /\ fd \in [Writer -> Name \cup {"gone", None}] /\ dump \in [Writer -> Doc \cup {None}]

\* A phase reported ok has a result for exactly the rows requests.jsonl holds
\* of it, from which the corrected figures are computed, and hides no error.
CountsAgree ==
  \A p \in Phase : result[p] # None /\ result[p].ok =>
    /\ result[p].requests = rows[p]
    /\ result[p].errors = 0 <=> failed[p] = 0

\* Exit status 0 says that every phase measured something, that state.json is
\* whole, says DONE and has every result, and that the totals count each row of
\* requests.jsonl once.
ExitTellsTheTruth ==
  exit = 0 =>
    /\ \A p \in Phase : rows[p] > 0
    /\ file["state"] \in Doc
    /\ file["state"].phase = DONE /\ file["state"].results = Phases
    /\ totals.requests = Cardinality(UNION {{p} \X (1..rows[p]) : p \in Phase})

\* A phase once published is never unpublished: state.json stays whole and no
\* result, nor DONE, disappears from it, whichever thread writes next.
NothingUnpublished ==
  [][file["state"] \in Doc /\ file["state"].results > 0 =>
       /\ file'["state"] \in Doc
       /\ file'["state"].results >= file["state"].results
       /\ file["state"].phase = DONE => file'["state"].phase = DONE]_vars

\* A soak ends, or main dies of its first write.
RunEnds == <>~Alive
=============================================================================
