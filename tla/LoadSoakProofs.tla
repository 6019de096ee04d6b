--------------------------- MODULE LoadSoakProofs ---------------------------
(***************************************************************************)
(* Theorems about load_soak.py, for any number of phases, workers and      *)
(* posts: its threads over the shared state, the log and the state file.   *)
(***************************************************************************)
EXTENDS LoadSoak, FiniteSetTheorems, TLAPS

-----------------------------------------------------------------------------
(* Where main is, and what it has recorded.                                *)

\* The last phase with a result.
Recorded == IF main \in {"join", "record"} THEN phase - 1 ELSE phase

\* main's way through its phases.
MainInv ==
  /\ main \in {"begin", "open", "fill", "replace", "raised"} /\ goal = "first" => phase = 0
  /\ main = "begin" => goal = "first" /\ tel = "unborn"
  /\ main = "next" => phase \in 0..Phases
  /\ main \in {"join", "record"} => phase \in Phase
  /\ main \in {"lock", "push", "open", "fill", "replace", "raised"} /\ goal = "phase" =>
       phase \in Phase
  /\ main \in {"lock", "push", "verdict", "exited"} => goal # "first"
  /\ main = "lock" /\ goal = "last" => phase = Phases
  /\ main = "push" => goal = "phase"
  /\ main \in {"open", "fill", "replace", "verdict", "exited", "raised"} /\ goal = "last" =>
       phase = DONE
  /\ main \in {"verdict", "exited"} => goal = "last"
  /\ goal = "first" => \A p \in Phase : result[p] = None
  /\ \A p \in Phase : result[p] # None <=> p <= Recorded

\* Which of the threads is where with respect to write_state.
At(t) == IF t = "main" THEN main ELSE tel

\* The lock is held from one end of write_state to the other, but for main's
\* first one.
LockInv ==
  /\ main \in {"open", "fill", "replace"} /\ goal # "first" => lock = "main"
  /\ tel \in {"open", "fill", "replace"} => lock = "tel"

\* A writer has a file open, and a text to write, while it fills it.
FdInv ==
  \A t \in Writer : /\ fd[t] # None <=> At(t) = "fill"
                    /\ dump[t] # None <=> At(t) = "fill"

-----------------------------------------------------------------------------
(* What the workers have counted.                                          *)

Out == \A w \in Worker : work[w] = "out"

Counting == {w \in Worker : work[w] = "count"}

InError == {"log error", "count error", "read errs", "write errs"}

\* The phase's counters, the log and the workers under way agree, until a
\* worker is lost; no other thread is in the pool; the phases to come are
\* untouched.
CountInv ==
  /\ main # "join" => Out
  /\ main = "join" => \A w \in Worker \ Conc(phase) : work[w] = "out"
  /\ main # "begin" =>
       \A p \in Phase : p > phase => rows[p] = 0 /\ failed[p] = 0
  /\ main = "begin" => failed = [p \in Phase |-> 0]
  /\ main \in {"join", "record"} =>
       /\ raised = 0 => rows[phase] = window + Cardinality(Counting)
       /\ failed[phase] = 0 => errs = 0 /\ \A w \in Worker : work[w] \notin InError
       /\ raised = 0 /\ failed[phase] > 0 =>
            errs > 0 \/ \E w \in Worker : work[w] \in InError

\* A phase reported ok measured something.
OkInv == \A p \in Phase : result[p] # None /\ result[p].ok => result[p].requests > 0

\* The requests a phase has measured so far, and all of them together.
Measured(p) ==
  IF main \in {"join", "record"} /\ p = phase THEN window
  ELSE IF result[p] # None THEN result[p].requests
  ELSE 0

Requests == UNION {{p} \X (1..Measured(p)) : p \in Phase}

TotalInv == IsFiniteSet(Requests) /\ totals.requests = Cardinality(Requests)

-----------------------------------------------------------------------------
(* What has been published.                                                *)

\* A document is no ahead of the run.
NotAhead(d) ==
  d \in Doc => d.results <= Results(result) /\ (d.phase = DONE => phase = DONE)

\* One document says no less than another.
AtLeast(d, e) ==
  d \in Doc /\ d.results >= e.results /\ (e.phase = DONE => d.phase = DONE)

Published ==
  file["state"] \in Doc /\ (file["state"].results > 0 \/ file["state"].phase = DONE)

\* No document is ahead of the run.
Documents == /\ \A n \in Name : NotAhead(file[n])
             /\ \A t \in Writer : NotAhead(dump[t])

\* A writer whose file slipped from under it has nothing to say: it is of the
\* first write's time.
Slipped ==
  \A t \in Writer : At(t) = "fill" /\ fd[t] # "tmp" =>
    dump[t].results = 0 /\ dump[t].phase # DONE

\* Once a result, or DONE, is in state.json, a writer has a temporary file of
\* its own and a text that says no less.
Safe ==
  Published => \A t \in Writer :
    /\ At(t) = "fill" =>
         fd[t] = "tmp" /\ file["tmp"] = Empty /\ AtLeast(dump[t], file["state"])
    /\ At(t) = "replace" => AtLeast(file["tmp"], file["state"])

FileInv == Documents /\ Slipped /\ Safe

\* The last write says everything, and nobody takes it back.
LastInv ==
  /\ main = "fill" /\ goal # "first" =>
       /\ fd["main"] = "tmp" /\ file["tmp"] = Empty
       /\ dump["main"].results = Results(result) /\ dump["main"].phase = phase
  /\ main = "replace" /\ goal # "first" =>
       /\ file["tmp"] \in Doc
       /\ file["tmp"].results = Results(result) /\ file["tmp"].phase = phase
  /\ main \in {"verdict", "exited"} =>
       /\ file["state"] \in Doc
       /\ file["state"].results = Phases /\ file["state"].phase = DONE

\* Exit status 0 is main's verdict, and only main's.
ExitInv ==
  /\ exit = 0 => main = "exited" /\ \A p \in Phase : result[p].ok
  /\ main \notin {"exited", "raised"} => exit = None

SoakInv ==
  /\ TypeOK /\ MainInv /\ LockInv /\ FdInv /\ CountInv /\ CountsAgree
  /\ OkInv /\ TotalInv /\ FileInv /\ LastInv /\ ExitInv

-----------------------------------------------------------------------------
(* Facts about the operators.                                              *)

\* The phases are finitely many.
LEMMA PhasesFinite == IsFiniteSet(Phase) /\ Cardinality(Phase) = Phases
<1>1. 1 \in Int /\ Phases \in Int
  BY LoadSoakAssumption
<1>2. IsFiniteSet(1..Phases)
      /\ Cardinality(1..Phases) = IF 1 > Phases THEN 0 ELSE Phases - 1 + 1
  BY <1>1, FS_Interval
<1> QED
  BY <1>2, LoadSoakAssumption DEF Phase

\* There are at most as many results as phases.
LEMMA ResultsBounded == ASSUME NEW r PROVE Results(r) \in 0..Phases
<1> DEFINE S == {p \in Phase : r[p] # None}
<1>1. S \subseteq Phase
  OBVIOUS
<1>2. IsFiniteSet(S) /\ Cardinality(S) <= Phases
  BY <1>1, PhasesFinite, FS_Subset
<1>3. Cardinality(S) \in Nat
  BY <1>2, FS_CardinalityType
<1> QED
  BY <1>2, <1>3, LoadSoakAssumption DEF Results

\* More phases with a result are more results.
LEMMA ResultsGrow ==
  ASSUME NEW r, NEW s, \A p \in Phase : r[p] # None => s[p] # None
  PROVE  Results(r) <= Results(s)
<1> DEFINE S == {p \in Phase : r[p] # None}
           T == {p \in Phase : s[p] # None}
<1>1. T \subseteq Phase /\ S \subseteq T
  OBVIOUS
<1>2. IsFiniteSet(T)
  BY <1>1, PhasesFinite, FS_Subset
<1>3. Cardinality(S) <= Cardinality(T)
  BY <1>1, <1>2, FS_Subset
<1> QED
  BY <1>3 DEF Results

\* No result at first, one of each phase at last.
LEMMA ResultsEnds ==
  ASSUME NEW r
  PROVE  /\ (\A p \in Phase : r[p] = None) => Results(r) = 0
         /\ (\A p \in Phase : r[p] # None) => Results(r) = Phases
<1>1. ASSUME \A p \in Phase : r[p] = None PROVE Results(r) = 0
  <2>1. {p \in Phase : r[p] # None} = {}
    BY <1>1
  <2> QED
    BY <2>1, FS_EmptySet DEF Results
<1>2. ASSUME \A p \in Phase : r[p] # None PROVE Results(r) = Phases
  <2>1. {p \in Phase : r[p] # None} = Phase
    BY <1>2
  <2> QED
    BY <2>1, PhasesFinite DEF Results
<1> QED
  BY <1>1, <1>2

\* What a writer is about to write is a document, and says what has been done.
LEMMA SnapshotIs ==
  ASSUME TypeOK
  PROVE  /\ Snapshot \in Doc /\ Snapshot.phase = phase
         /\ Snapshot.results = Results(result) /\ Snapshot.samples = samples
BY ResultsBounded DEF TypeOK, Snapshot, Doc

\* A text over another one is the whole text or a torn one.
LEMMA OverIs ==
  ASSUME NEW old \in Doc \cup {None, Empty, Torn, Old}, NEW new \in Doc
  PROVE  Over(old, new) \in {new, Torn} /\ (old = Empty => Over(old, new) = new)
BY DEF Over

-----------------------------------------------------------------------------
(* Types.                                                                  *)

\* The types, by threads, shared state, counters and files.
ThreadsOK ==
  /\ main \in {"begin", "open", "fill", "replace", "next", "join", "record", "lock",
               "push", "verdict", "exited", "raised"}
  /\ goal \in {"first", "phase", "last"} /\ lock \in {None} \cup Writer
  /\ tel \in {"unborn", "loop", "lock", "open", "fill", "replace", "sleep", "ended"}
  /\ work \in [Worker -> {"loop", "post", "row", "count", "log error", "count error",
                          "read errs", "write errs", "out"}]
  /\ stop \in BOOLEAN /\ past \in BOOLEAN /\ exit \in {None, 0, 1}

SharedOK ==
  /\ phase \in 0..DONE /\ result \in [Phase -> Result \cup {None}]
  /\ samples \in 0..MaxSamples /\ totals \in [requests : Nat, errors : Nat]

CountersOK ==
  /\ window \in Nat /\ errs \in Nat /\ read \in [Worker -> Nat] /\ raised \in Nat
  /\ posts \in 0..MaxPosts /\ failed \in [Phase -> Nat] /\ rows \in [Phase -> Nat]

FilesOK ==
  /\ file \in [Name -> Doc \cup {None, Empty, Torn, Old}]
  /\ fd \in [Writer -> Name \cup {"gone", None}] /\ dump \in [Writer -> Doc \cup {None}]

LEMMA TypeParts ==
  /\ TypeOK <=> ThreadsOK /\ SharedOK /\ CountersOK /\ FilesOK
  /\ TypeOK' <=> ThreadsOK' /\ SharedOK' /\ CountersOK' /\ FilesOK'
BY DEF TypeOK, ThreadsOK, SharedOK, CountersOK, FilesOK

\* What a step leaves alone keeps its type.
LEMMA TypeFrame ==
  /\ ThreadsOK /\ UNCHANGED <<main, goal, tel, work, lock, stop, past, exit>> => ThreadsOK'
  /\ SharedOK /\ UNCHANGED shared => SharedOK'
  /\ CountersOK /\ UNCHANGED <<locals, failed, rows>> => CountersOK'
  /\ FilesOK /\ UNCHANGED files => FilesOK'
<1>1. ThreadsOK /\ UNCHANGED <<main, goal, tel, work, lock, stop, past, exit>> => ThreadsOK'
  BY DEF ThreadsOK
<1>2. SharedOK /\ UNCHANGED shared => SharedOK'
  BY DEF SharedOK, shared
<1>3. CountersOK /\ UNCHANGED <<locals, failed, rows>> => CountersOK'
  BY DEF CountersOK, locals
<1>4. FilesOK /\ UNCHANGED files => FilesOK'
  BY DEF FilesOK, files
<1> QED
  BY <1>1, <1>2, <1>3, <1>4

\* The stages of write_state keep the files, the open ones and the texts of
\* their types.
LEMMA WritesTyped ==
  ASSUME TypeOK, NEW t \in Writer
  PROVE  /\ Opens(t) => FilesOK'
         /\ fd[t] # None /\ dump[t] # None /\ Fills(t) => FilesOK'
         /\ Replaces => FilesOK'
<1> USE DEF FilesOK, Name, Writer
<1>1. FilesOK
  BY DEF TypeOK
<1>2. ASSUME Opens(t) PROVE FilesOK'
  BY <1>1, <1>2, SnapshotIs DEF Opens
<1>3. ASSUME fd[t] # None, dump[t] # None, Fills(t) PROVE FilesOK'
  <2>1. /\ fd' = [fd EXCEPT ![t] = None] /\ dump' = [dump EXCEPT ![t] = None]
        /\ file' = IF fd[t] = "gone" THEN file
                   ELSE [file EXCEPT ![fd[t]] = Over(file[fd[t]], dump[t])]
    BY <1>3 DEF Fills
  <2>2. ASSUME fd[t] # "gone"
        PROVE  Over(file[fd[t]], dump[t]) \in Doc \cup {None, Empty, Torn, Old}
    <3>1. dump[t] \in Doc /\ fd[t] \in Name
      BY <1>1, <1>3, <2>2
    <3>2. file[fd[t]] \in Doc \cup {None, Empty, Torn, Old}
      BY <1>1, <3>1
    <3> QED
      BY <3>1, <3>2, OverIs
  <2>3. file' \in [Name -> Doc \cup {None, Empty, Torn, Old}]
    BY <1>1, <2>1, <2>2
  <2> QED
    BY <1>1, <2>1, <2>3
<1>4. ASSUME Replaces PROVE FilesOK'
  <2>1. \A t1 \in Writer : Moved(fd[t1]) \in Name \cup {"gone", None}
    BY <1>1 DEF Moved
  <2> QED
    BY <1>1, <1>4, <2>1 DEF Replaces
<1> QED
  BY <1>2, <1>3, <1>4

\* Types, over a step of main.
LEMMA MainTyped == ASSUME SoakInv, Main PROVE TypeOK'
<1>1. /\ ThreadsOK /\ SharedOK /\ CountersOK /\ FilesOK
      /\ TypeOK /\ MainInv /\ FdInv /\ "main" \in Writer
  BY TypeParts DEF SoakInv, Writer
<1>2. ThreadsOK'
  BY <1>1 DEF Main, Begin, MainOpens, MainFills, MainReplaces, MainLosesFile, StartPhase, Join,
    Record, Records, MainLocks, Push, Close, Verdict, Goes, ThreadsOK, Writer
<1>3. SharedOK'
  <2>1. CASE StartPhase
    BY <1>1, <2>1, LoadSoakAssumption DEF StartPhase, DONE, MainInv, SharedOK, Goes
  <2>2. CASE Record
    <3>1. phase \in Phase /\ [requests |-> window, errors |-> errs,
                              ok |-> window > 0 /\ raised = 0] \in Result
      BY <1>1, <2>2 DEF Record, Records, MainInv, Result, Goes, CountersOK
    <3> QED
      BY <1>1, <2>2, <3>1 DEF Record, Records, SharedOK
  <2>3. CASE MainLocks
    BY <1>1, <2>3, LoadSoakAssumption DEF MainLocks, DONE, SharedOK
  <2>4. ~(StartPhase \/ Record \/ MainLocks) => UNCHANGED shared
    BY DEF Main, Begin, MainOpens, MainFills, MainReplaces, MainLosesFile, Join, Push, Close,
      Verdict
  <2> QED
    BY <1>1, <2>1, <2>2, <2>3, <2>4, TypeFrame
<1>4. CountersOK'
  <2>1. CASE Begin
    BY <1>1, <2>1 DEF Begin, CountersOK, locals
  <2>2. CASE StartPhase
    BY <1>1, <2>2, LoadSoakAssumption DEF StartPhase, CountersOK
  <2>3. ~(StartPhase \/ Begin) => UNCHANGED <<locals, failed, rows>>
    BY DEF Main, MainOpens, MainFills, MainReplaces, MainLosesFile, Join, Push, Close,
      Record, Records, MainLocks, Verdict
  <2> QED
    BY <1>1, <2>1, <2>2, <2>3, TypeFrame
<1>5. FilesOK'
  <2>1. CASE MainFills
    <3>1. fd["main"] # None /\ dump["main"] # None
      BY <1>1, <2>1 DEF MainFills, FdInv, At, Goes
    <3> QED
      BY <1>1, <2>1, <3>1, WritesTyped DEF MainFills
  <2>2. CASE MainOpens \/ MainReplaces
    BY <1>1, <2>2, WritesTyped DEF MainOpens, MainReplaces
  <2>3. ~(MainFills \/ MainOpens \/ MainReplaces) => UNCHANGED files
    BY DEF Main, Begin, MainLosesFile, StartPhase, Join, Push, Close, Record, Records,
      MainLocks, Verdict
  <2> QED
    BY <1>1, <2>1, <2>2, <2>3, TypeFrame
<1> QED
  BY <1>2, <1>3, <1>4, <1>5, TypeParts

\* Types, over a step of the telemetry thread.
LEMMA TelTyped == ASSUME SoakInv, Telemetry PROVE TypeOK'
<1>1. /\ ThreadsOK /\ SharedOK /\ CountersOK /\ FilesOK
      /\ TypeOK /\ FdInv /\ "tel" \in Writer
  BY TypeParts DEF SoakInv, Writer
<1>2. ThreadsOK'
  BY <1>1 DEF Telemetry, Sample, TelEnds, TelSleeps, TelLocks, TelOpens, TelFills, TelReplaces,
    TelLosesFile, Samples, ThreadsOK, Writer
<1>3. SharedOK'
  BY <1>1, LoadSoakAssumption DEF Telemetry, Sample, TelEnds, TelSleeps, TelLocks, TelOpens,
    TelFills, TelReplaces, TelLosesFile, Samples, SharedOK
<1>4. UNCHANGED <<locals, failed, rows>>
  BY DEF Telemetry, Sample, TelEnds, TelSleeps, TelLocks, TelOpens, TelFills, TelReplaces,
    TelLosesFile, Samples
<1>5. FilesOK'
  <2>1. CASE TelFills
    <3>1. fd["tel"] # None /\ dump["tel"] # None
      BY <1>1, <2>1 DEF TelFills, FdInv, At, Samples
    <3> QED
      BY <1>1, <2>1, <3>1, WritesTyped DEF TelFills
  <2>2. CASE TelOpens \/ TelReplaces
    BY <1>1, <2>2, WritesTyped DEF TelOpens, TelReplaces
  <2>3. ~(TelFills \/ TelOpens \/ TelReplaces) => UNCHANGED files
    BY DEF Telemetry, Sample, TelEnds, TelSleeps, TelLocks, TelLosesFile
  <2> QED
    BY <1>1, <2>1, <2>2, <2>3, TypeFrame
<1> QED
  BY <1>1, <1>2, <1>3, <1>4, <1>5, TypeParts, TypeFrame

\* A worker at work is of the phase under way.
LEMMA WorkersJoin ==
  ASSUME SoakInv, NEW w \in Worker, work[w] # "out"
  PROVE  main = "join" /\ phase \in Phase
BY DEF SoakInv, CountInv, Out, MainInv

\* What no worker touches, and what a worker at work finds.
LEMMA WorkFrame ==
  ASSUME SoakInv, NEW w \in Worker, Work(w)
  PROVE  /\ UNCHANGED <<main, goal, tel, lock, stop, past, phase, result, samples, files, exit>>
         /\ main = "join" /\ phase \in Phase
<1>1. /\ UNCHANGED <<main, goal, tel, lock, stop, past, phase, result, samples, files, exit>>
      /\ work[w] # "out"
  BY DEF Work, Works, Loop, Answered, Failed, WriteRow, WriteRaises, Count,
    LogError, CountError, ReadErrs, WriteErrs
<1> QED
  BY <1>1, WorkersJoin

\* Types, over a step of a worker.
LEMMA WorkTyped == ASSUME SoakInv, NEW w \in Worker, Work(w) PROVE TypeOK'
<1>1. ThreadsOK /\ SharedOK /\ CountersOK /\ FilesOK
  BY TypeParts DEF SoakInv
<1>2. /\ UNCHANGED <<main, goal, tel, lock, stop, past, phase, result, samples, files, exit>>
      /\ phase \in Phase
  BY WorkFrame
<1>3. ThreadsOK'
  <2>1. PICK to \in {"loop", "post", "row", "count", "log error", "count error",
                     "read errs", "write errs", "out"} : work' = [work EXCEPT ![w] = to]
    BY DEF Work, Works, Loop, Answered, Failed, WriteRow, WriteRaises, Count,
      LogError, CountError, ReadErrs, WriteErrs
  <2> QED
    BY <1>1, <1>2, <2>1 DEF ThreadsOK
<1>4. SharedOK'
  <2>1. \/ totals' = totals
        \/ totals' = [totals EXCEPT !.requests = @ + 1]
        \/ totals' = [totals EXCEPT !.errors = @ + 1]
    BY DEF Work, Loop, Answered, Failed, WriteRow, WriteRaises, Count,
      LogError, CountError, ReadErrs, WriteErrs
  <2>2. totals' \in [requests : Nat, errors : Nat]
    BY <1>1, <2>1 DEF SharedOK
  <2> QED
    BY <1>1, <1>2, <2>2 DEF SharedOK
<1>5. CountersOK'
  <2>1. CASE Loop(w)
    BY <1>1, <2>1, LoadSoakAssumption DEF Loop, CountersOK
  <2>2. CASE Answered(w) \/ LogError(w) \/ CountError(w)
    BY <1>1, <2>2, TypeFrame DEF Answered, LogError, CountError
  <2>3. CASE Failed(w)
    <3>1. failed' = [failed EXCEPT ![phase] = failed[phase] + 1] /\ UNCHANGED <<locals, rows>>
      BY <2>3 DEF Failed
    <3> QED
      BY <1>1, <1>2, <3>1 DEF CountersOK, locals
  <2>4. CASE WriteRow(w)
    <3>1. rows' = [rows EXCEPT ![phase] = rows[phase] + 1] /\ UNCHANGED <<locals, failed>>
      BY <2>4 DEF WriteRow
    <3> QED
      BY <1>1, <1>2, <3>1 DEF CountersOK, locals
  <2>5. CASE WriteRaises(w)
    <3>1. PICK n \in {0, 1} : rows' = [rows EXCEPT ![phase] = rows[phase] + n]
      BY <2>5 DEF WriteRaises
    <3>2. raised' = raised + 1 /\ UNCHANGED <<window, errs, read, posts, failed>>
      BY <2>5 DEF WriteRaises
    <3> QED
      BY <1>1, <1>2, <3>1, <3>2 DEF CountersOK
  <2>6. CASE Count(w)
    BY <1>1, <2>6 DEF Count, CountersOK
  <2>7. CASE ReadErrs(w)
    BY <1>1, <2>7 DEF ReadErrs, CountersOK
  <2>8. CASE WriteErrs(w)
    <3>1. /\ errs' = read[w] + 1 /\ read' = [read EXCEPT ![w] = 0]
          /\ UNCHANGED <<window, raised, posts, failed, rows>>
      BY <2>8 DEF WriteErrs
    <3> QED
      BY <1>1, <3>1 DEF CountersOK
  <2> QED
    BY <2>1, <2>2, <2>3, <2>4, <2>5, <2>6, <2>7, <2>8 DEF Work
<1> QED
  BY <1>1, <1>2, <1>3, <1>4, <1>5, TypeParts, TypeFrame

\* Every state has its types.
LEMMA TypeStep == ASSUME SoakInv, [Next]_vars PROVE TypeOK'
<1>1. ThreadsOK /\ SharedOK /\ CountersOK /\ FilesOK
  BY TypeParts DEF SoakInv
<1>2. CASE Deadline
  <2>1. ThreadsOK'
    BY <1>1, <1>2 DEF Deadline, ThreadsOK
  <2> QED
    BY <1>1, <1>2, <2>1, TypeParts, TypeFrame DEF Deadline
<1>3. CASE UNCHANGED vars
  BY <1>1, <1>3, TypeParts, TypeFrame DEF vars
<1> QED
  BY <1>2, <1>3, MainTyped, TelTyped, WorkTyped DEF Next

-----------------------------------------------------------------------------
(* main's way, the lock and the open files.                                *)

\* What a worker, the clock and a stutter leave alone.
Aside == (\E w \in Worker : Work(w)) \/ Deadline \/ UNCHANGED vars

LEMMA AsideFrame ==
  ASSUME SoakInv, Aside
  PROVE  UNCHANGED <<main, goal, tel, lock, stop, phase, result, samples, file, fd, dump, exit>>
<1>1. CASE \E w \in Worker : Work(w)
  BY <1>1, WorkFrame DEF files
<1>2. CASE Deadline
  BY <1>2 DEF Deadline, shared, files
<1>3. CASE UNCHANGED vars
  BY <1>3 DEF vars, shared, files
<1> QED
  BY <1>1, <1>2, <1>3 DEF Aside

LEMMA NextParts == [Next]_vars => Main \/ Telemetry \/ Aside
BY DEF Next, Aside

\* main goes from phase to phase, recording each.
LEMMA MainStep == ASSUME SoakInv, [Next]_vars PROVE MainInv'
<1>1. MainInv /\ Phases \in Nat /\ phase \in 0..DONE /\ goal \in {"first", "phase", "last"}
  BY LoadSoakAssumption DEF SoakInv, TypeOK
<1> USE <1>1 DEF DONE, Phase
<1>2. CASE Main
  <2> USE DEF Goes, shared
  <2>1. CASE Begin \/ MainOpens \/ MainFills \/ MainLosesFile
    BY <2>1 DEF Begin, MainOpens, MainFills, MainLosesFile, MainInv, Recorded
  <2>2. CASE MainReplaces
    BY <2>2 DEF MainReplaces, MainInv, Recorded
  <2>3. CASE StartPhase
    BY <2>3 DEF StartPhase, MainInv, Recorded
  <2>4. CASE Join \/ Push
    BY <2>4 DEF Join, Push, MainInv, Recorded
  <2>5. CASE Record
    <3> DEFINE r == [requests |-> window, errors |-> errs, ok |-> window > 0 /\ raised = 0]
    <3>1. r # None
      <4>1. r \in Result
        BY DEF Result, SoakInv, TypeOK
      <4> QED
        BY <4>1, MarkerAssumption
    <3>2. /\ main = "record" /\ main' = "lock" /\ goal' = "phase" /\ phase' = phase
          /\ result' = [result EXCEPT ![phase] = r]
      BY <2>5 DEF Record, Records
    <3>3. phase \in Phase /\ \A p \in Phase : result[p] # None <=> p <= phase - 1
      BY <3>2 DEF MainInv, Recorded
    <3>4. result \in [Phase -> Result \cup {None}]
      BY DEF SoakInv, TypeOK
    <3>5. \A p \in Phase : result'[p] = IF p = phase THEN r ELSE result[p]
      BY <3>2, <3>4
    <3> HIDE DEF r
    <3>6. \A p \in Phase : result'[p] # None <=> p <= phase
      BY <3>1, <3>3, <3>5
    <3> QED
      BY <3>2, <3>3, <3>6 DEF MainInv, Recorded
  <2>6. CASE MainLocks
    BY <2>6 DEF MainLocks, MainInv, Recorded
  <2>7. CASE Close
    BY <2>7 DEF Close, MainInv, Recorded
  <2>8. CASE Verdict
    BY <2>8 DEF Verdict, MainInv, Recorded
  <2> QED
    BY <1>2, <2>1, <2>2, <2>3, <2>4, <2>5, <2>6, <2>7, <2>8 DEF Main
<1>3. CASE Telemetry
  <2>1. UNCHANGED <<main, goal, phase, result>> /\ tel # "unborn"
    BY <1>3 DEF Telemetry, Sample, TelEnds, TelSleeps, TelLocks, TelOpens, TelFills,
      TelReplaces, TelLosesFile, Samples
  <2> QED
    BY <2>1 DEF MainInv, Recorded
<1>4. CASE Aside
  BY <1>4, AsideFrame DEF MainInv, Recorded
<1> QED
  BY <1>2, <1>3, <1>4, NextParts

\* A writer holds the lock, but for main's first write.
LEMMA LockStep == ASSUME SoakInv, [Next]_vars PROVE LockInv'
<1>1. LockInv /\ MainInv /\ goal \in {"first", "phase", "last"}
  BY DEF SoakInv, TypeOK
<1>2. CASE Main
  <2> USE <1>1 DEF Goes, LockInv
  <2>1. CASE Begin \/ MainOpens \/ MainFills \/ MainLosesFile \/ StartPhase
    BY <2>1 DEF Begin, MainOpens, MainFills, MainLosesFile, StartPhase, MainInv
  <2>2. CASE MainReplaces
    BY <2>2 DEF MainReplaces
  <2>3. CASE Join \/ Push \/ Record \/ Close \/ Verdict
    BY <2>3 DEF Join, Push, Record, Records, Close, Verdict
  <2>4. CASE MainLocks
    BY <2>4, MarkerAssumption DEF MainLocks, Writer
  <2> QED
    BY <1>2, <2>1, <2>2, <2>3, <2>4 DEF Main
<1>3. CASE Telemetry
  <2> USE <1>1 DEF Samples, LockInv
  <2>1. CASE Sample \/ TelEnds \/ TelSleeps \/ TelOpens \/ TelFills
    BY <2>1 DEF Sample, TelEnds, TelSleeps, TelOpens, TelFills
  <2>2. CASE TelLocks
    BY <2>2, MarkerAssumption DEF TelLocks, Writer
  <2>3. CASE TelReplaces \/ TelLosesFile
    BY <2>3 DEF TelReplaces, TelLosesFile
  <2> QED
    BY <1>3, <2>1, <2>2, <2>3 DEF Telemetry
<1>4. CASE Aside
  BY <1>1, <1>4, AsideFrame DEF LockInv
<1> QED
  BY <1>2, <1>3, <1>4, NextParts

\* A writer's stages of write_state keep its open file and its text until filled.
LEMMA FdWrites ==
  ASSUME TypeOK, NEW t \in Writer
  PROVE  /\ Opens(t) => /\ fd'[t] # None /\ dump'[t] # None
                        /\ \A u \in Writer \ {t} : fd'[u] = fd[u] /\ dump'[u] = dump[u]
         /\ Fills(t) => /\ fd'[t] = None /\ dump'[t] = None
                        /\ \A u \in Writer \ {t} : fd'[u] = fd[u] /\ dump'[u] = dump[u]
         /\ Replaces => \A u \in Writer : /\ fd'[u] # None <=> fd[u] # None
                                          /\ dump'[u] = dump[u]
<1>1. FilesOK /\ None # "tmp" /\ None # "state" /\ None # "gone"
  BY TypeParts, MarkerAssumption DEF Name
<1>2. Snapshot # None
  BY SnapshotIs, MarkerAssumption
<1>3. Opens(t) => /\ fd'[t] # None /\ dump'[t] # None
                  /\ \A u \in Writer \ {t} : fd'[u] = fd[u] /\ dump'[u] = dump[u]
  BY <1>1, <1>2 DEF Opens, FilesOK
<1>4. Fills(t) => /\ fd'[t] = None /\ dump'[t] = None
                  /\ \A u \in Writer \ {t} : fd'[u] = fd[u] /\ dump'[u] = dump[u]
  BY <1>1 DEF Fills, FilesOK
<1>5. Replaces => \A u \in Writer : fd'[u] # None <=> fd[u] # None
  BY <1>1 DEF Replaces, FilesOK, Moved
<1> QED
  BY <1>3, <1>4, <1>5 DEF Replaces

\* A writer has its file open while it fills it.
LEMMA FdStep == ASSUME SoakInv, [Next]_vars PROVE FdInv'
<1>1. FdInv /\ TypeOK /\ Writer = {"main", "tel"} /\ MainInv
  BY DEF SoakInv, Writer
<1> USE <1>1 DEF FdInv, At
<1>2. CASE Main
  <2> USE DEF Goes, files
  <2>1. CASE MainOpens
    BY <2>1, FdWrites DEF MainOpens
  <2>2. CASE MainFills
    BY <2>2, FdWrites DEF MainFills
  <2>3. CASE MainReplaces
    <3>1. main = "replace" /\ main' # "fill" /\ tel' = tel
      BY <2>3 DEF MainReplaces, TypeOK
    <3> QED
      BY <2>3, <3>1, FdWrites DEF MainReplaces
  <2>4. CASE Begin
    BY <2>4 DEF Begin, MainInv
  <2>5. CASE MainLosesFile \/ StartPhase \/ Join \/ Record \/ MainLocks \/ Push \/ Close \/ Verdict
    BY <2>5 DEF MainLosesFile, StartPhase, Join, Record, Records, MainLocks, Push, Close, Verdict
  <2> QED
    BY <1>2, <2>1, <2>2, <2>3, <2>4, <2>5 DEF Main
<1>3. CASE Telemetry
  <2> USE DEF Samples, files
  <2>1. CASE TelOpens
    BY <2>1, FdWrites DEF TelOpens
  <2>2. CASE TelFills
    BY <2>2, FdWrites DEF TelFills
  <2>3. CASE TelReplaces
    BY <2>3, FdWrites DEF TelReplaces
  <2>4. CASE Sample \/ TelEnds \/ TelSleeps \/ TelLocks \/ TelLosesFile
    BY <2>4 DEF Sample, TelEnds, TelSleeps, TelLocks, TelLosesFile
  <2> QED
    BY <1>3, <2>1, <2>2, <2>3, <2>4 DEF Telemetry
<1>4. CASE Aside
  BY <1>4, AsideFrame
<1> QED
  BY <1>2, <1>3, <1>4, NextParts

-----------------------------------------------------------------------------
(* The workers' counts.                                                    *)

\* What the workers count, but for the main thread's steps.
Counters == <<work, window, errs, raised, failed, rows>>

LEMMA CountFrame ==
  ASSUME CountInv, UNCHANGED Counters, UNCHANGED <<main, phase>>
  PROVE  CountInv'
BY DEF CountInv, Counters, Out, Counting, InError

\* A step of main starts a phase with nothing counted, and leaves the counts
\* alone after it.
LEMMA CountMain == ASSUME SoakInv, Main PROVE CountInv'
<1>1. /\ CountInv /\ MainInv /\ CountersOK /\ ThreadsOK /\ Phases \in Nat
      /\ phase \in 0..DONE /\ TypeOK
  BY TypeParts, LoadSoakAssumption DEF SoakInv, SharedOK
<1>2. CASE Begin
  <2>1. Out /\ UNCHANGED <<work, phase, failed>> /\ main' = "open" /\ main = "begin"
        /\ rows' = [p \in Phase |-> 0]
    BY <1>1, <1>2 DEF Begin, Goes, shared, CountInv
  <2> QED
    BY <1>1, <2>1 DEF CountInv, Out
<1>3. CASE StartPhase
  <2>1. /\ main = "next" /\ main' = "join" /\ phase' = phase + 1 /\ phase' \in Phase
        /\ window' = 0 /\ errs' = 0 /\ raised' = 0 /\ UNCHANGED <<failed, rows>>
        /\ work' = [w \in Worker |-> IF w \in Conc(phase') THEN "loop" ELSE "out"]
    BY <1>1, <1>3 DEF StartPhase, Goes, Phase, DONE
  <2>2. \A p \in Phase : p > phase => rows[p] = 0 /\ failed[p] = 0
    BY <1>1, <2>1 DEF CountInv
  <2>3. \A p \in Phase : p >= phase' => rows'[p] = 0 /\ failed'[p] = 0
    BY <1>1, <2>1, <2>2 DEF Phase, DONE
  <2>4. Counting' = {} /\ \A w \in Worker : work'[w] \notin InError
    BY <2>1 DEF Counting, InError
  <2>5. Cardinality(Counting') = 0
    BY <2>4, FS_EmptySet
  <2>6. rows'[phase'] = 0 /\ failed'[phase'] = 0
    BY <2>1, <2>3 DEF Phase
  <2>7. \A w \in Worker \ Conc(phase') : work'[w] = "out"
    BY <2>1
  <2>8. \A p \in Phase : p > phase' => rows'[p] = 0 /\ failed'[p] = 0
    BY <1>1, <2>1, <2>3 DEF Phase, DONE
  <2>9. Cardinality(Counting)' = 0
    BY <2>5
  <2> HIDE DEF InError
  <2> QED
    BY <2>1, <2>4, <2>6, <2>7, <2>8, <2>9 DEF CountInv, InError
<1>4. CASE ~(Begin \/ StartPhase)
  <2>1. UNCHANGED Counters
    BY <1>4 DEF Main, MainOpens, MainFills, MainReplaces, MainLosesFile, Join, Record,
      Records, MainLocks, Push, Close, Verdict, Counters, locals
  <2>2. CASE Join
    <3>1. main = "join" /\ main' = "record" /\ UNCHANGED phase
          /\ \A w \in Conc(phase) : work[w] = "out"
      BY <2>2 DEF Join, Goes, shared
    <3>2. Out
      BY <1>1, <3>1 DEF CountInv, Out
    <3> QED
      BY <1>1, <2>1, <3>1, <3>2 DEF CountInv, Counters, Out, Counting, InError
  <2>3. CASE ~Join
    <3>1. main \notin {"join", "begin"} /\ main' \notin {"join", "record", "begin"}
      BY <1>1, <1>4, <2>3 DEF Main, MainOpens, MainFills, MainReplaces, MainLosesFile, Record,
        Records, MainLocks, Push, Close, Verdict, Goes, ThreadsOK
    <3>2. phase' = phase \/ phase' = DONE
      BY <1>4, <2>3 DEF Main, MainOpens, MainFills, MainReplaces, MainLosesFile, Record,
        Records, MainLocks, Push, Close, Verdict, shared
    <3>3. \A p \in Phase : p > phase' => p > phase
      BY <1>1, <3>2 DEF Phase, DONE
    <3> QED
      BY <1>1, <2>1, <3>1, <3>3 DEF CountInv, Counters, Out
  <2> QED
    BY <2>2, <2>3
<1> QED
  BY <1>2, <1>3, <1>4

\* Workers in a set of them are finitely many.
LEMMA CountingFinite == IsFiniteSet(Counting) /\ Cardinality(Counting) \in Nat
<1>1. Counting \subseteq Worker /\ IsFiniteSet(Worker)
  BY LoadSoakAssumption DEF Counting
<1> QED
  BY <1>1, FS_Subset, FS_CardinalityType

\* A step of a worker keeps the counts: a row is written before it is counted.
LEMMA CountWork == ASSUME SoakInv, NEW w \in Worker, Work(w) PROVE CountInv'
<1>1. /\ CountInv /\ CountersOK /\ ThreadsOK /\ Phases \in Nat
  BY TypeParts, LoadSoakAssumption DEF SoakInv
<1>2. main = "join" /\ main' = "join" /\ phase' = phase /\ phase \in Phase
  BY WorkFrame
<1>3. /\ \A p \in Phase : p > phase => rows[p] = 0 /\ failed[p] = 0
      /\ raised = 0 => rows[phase] = window + Cardinality(Counting)
      /\ failed[phase] = 0 => errs = 0 /\ \A v \in Worker : work[v] \notin InError
      /\ raised = 0 /\ failed[phase] > 0 =>
           errs > 0 \/ \E v \in Worker : work[v] \in InError
      /\ \A v \in Worker \ Conc(phase) : work[v] = "out"
      /\ work \in [Worker -> {"loop", "post", "row", "count", "log error", "count error",
                              "read errs", "write errs", "out"}]
  BY <1>1, <1>2 DEF CountInv, ThreadsOK
<1>4. SUFFICES
        /\ \A p \in Phase : p > phase => rows'[p] = 0 /\ failed'[p] = 0
        /\ raised' = 0 => rows'[phase] = window' + Cardinality(Counting')
        /\ failed'[phase] = 0 => errs' = 0 /\ \A v \in Worker : work'[v] \notin InError
        /\ raised' = 0 /\ failed'[phase] > 0 =>
             errs' > 0 \/ \E v \in Worker : work'[v] \in InError
        /\ \A v \in Worker \ Conc(phase) : work'[v] = "out"
  BY <1>2 DEF CountInv, InError
<1>5. ASSUME NEW from, NEW to, Works(w, from, to), from # "out"
      PROVE  /\ \A v \in Worker \ Conc(phase) : work'[v] = "out"
             /\ Counting' = IF to = "count" THEN Counting \cup {w} ELSE Counting \ {w}
             /\ w \in Counting <=> from = "count"
             /\ \A v \in Worker : v # w => work'[v] = work[v]
             /\ work[w] = from /\ work'[w] = to
  BY <1>3, <1>5 DEF Works, Counting
<1> HIDE DEF InError, Counting
<1>6. \E from \in {"loop", "post", "row", "count", "log error", "count error", "read errs",
                  "write errs"},
         to \in {"loop", "post", "row", "count", "log error", "count error", "read errs",
                "write errs", "out"} : Works(w, from, to)
  BY DEF Work, Loop, Answered, Failed, WriteRow, WriteRaises, Count, LogError, CountError,
    ReadErrs, WriteErrs
<1>7. \A p \in Phase : p # phase => rows'[p] = rows[p] /\ failed'[p] = failed[p]
  BY <1>1, <1>2 DEF Work, Loop, Answered, Failed, WriteRow, WriteRaises, Count, LogError,
    CountError, ReadErrs, WriteErrs, CountersOK
<1>8. /\ \A p \in Phase : p > phase => rows'[p] = 0 /\ failed'[p] = 0
      /\ \A v \in Worker \ Conc(phase) : work'[v] = "out"
  <2>1. \A p \in Phase : p > phase => p # phase
    BY <1>2 DEF Phase
  <2> QED
    BY <1>3, <1>5, <1>6, <1>7, <2>1
<1>9. raised' = 0 => rows'[phase] = window' + Cardinality(Counting')
  <2>1. CASE WriteRow(w)
    <3>1. w \notin Counting /\ Counting' = Counting \cup {w}
      BY <1>5, <2>1 DEF WriteRow
    <3>2. Cardinality(Counting') = Cardinality(Counting) + 1
      BY <3>1, CountingFinite, FS_AddElement
    <3>3. rows'[phase] = rows[phase] + 1 /\ window' = window /\ raised' = raised
      BY <1>1, <1>2, <2>1 DEF WriteRow, locals, CountersOK
    <3>4. window \in Nat /\ Cardinality(Counting) \in Nat
      BY <1>1, CountingFinite DEF CountersOK
    <3>5. raised = 0 => rows[phase] + 1 = window + (Cardinality(Counting) + 1)
      <4>1. raised = 0 => rows[phase] = window + Cardinality(Counting)
        BY <1>3
      <4> QED
        BY <3>4, <4>1
    <3> QED
      BY <3>2, <3>3, <3>5
  <2>2. CASE Count(w)
    <3>1. w \in Counting /\ Counting' = Counting \ {w}
      BY <1>5, <2>2 DEF Count
    <3>2. Cardinality(Counting') = Cardinality(Counting) - 1
      BY <3>1, CountingFinite, FS_RemoveElement
    <3>3. window' = window + 1 /\ raised' = raised /\ rows' = rows
      BY <2>2 DEF Count
    <3>4. window \in Nat /\ Cardinality(Counting) \in Nat
      BY <1>1, CountingFinite DEF CountersOK
    <3>5. raised = 0 => rows[phase] = (window + 1) + (Cardinality(Counting) - 1)
      <4>1. raised = 0 => rows[phase] = window + Cardinality(Counting)
        BY <1>3
      <4> QED
        BY <3>4, <4>1
    <3> QED
      BY <3>2, <3>3, <3>5
  <2>3. CASE WriteRaises(w)
    <3>1. raised' = raised + 1 /\ raised \in Nat
      BY <1>1, <2>3 DEF WriteRaises, CountersOK
    <3> QED
      BY <3>1
  <2>4. CASE Loop(w) \/ Answered(w) \/ Failed(w) \/ LogError(w) \/ CountError(w) \/ ReadErrs(w)
             \/ WriteErrs(w)
    <3>1. Counting' = Counting
      <4>1. PICK from \in {"loop", "post"} \cup InError,
                 to \in {"loop", "post", "row", "out"} \cup InError : Works(w, from, to)
        BY <2>4 DEF Loop, Answered, Failed, LogError, CountError, ReadErrs, WriteErrs, InError
      <4>2. from \notin {"count", "out"} /\ to # "count"
        BY <4>1 DEF InError
      <4>3. w \notin Counting /\ Counting' = Counting \ {w}
        BY <1>5, <4>1, <4>2
      <4> QED
        BY <4>3
    <3>2. UNCHANGED <<window, raised, rows>>
      BY <2>4 DEF Loop, Answered, Failed, LogError, CountError, ReadErrs, WriteErrs, locals
    <3> QED
      BY <1>3, <3>1, <3>2
  <2> QED
    BY <2>1, <2>2, <2>3, <2>4 DEF Work
<1>10. /\ failed'[phase] = 0 => errs' = 0 /\ \A v \in Worker : work'[v] \notin InError
       /\ raised' = 0 /\ failed'[phase] > 0 =>
            errs' > 0 \/ \E v \in Worker : work'[v] \in InError
  <2>1. CASE Loop(w) \/ Answered(w) \/ WriteRow(w) \/ Count(w)
    <3>1. PICK from \in {"loop", "post", "row", "count"}, to \in {"out", "post", "row", "count", "loop"} :
             Works(w, from, to)
      BY <2>1 DEF Loop, Answered, WriteRow, Count
    <3>2. UNCHANGED <<errs, raised, failed>>
      BY <2>1 DEF Loop, Answered, WriteRow, Count, locals
    <3> QED
      BY <1>3, <1>5, <3>1, <3>2 DEF InError
  <2>2. CASE Failed(w)
    <3>1. failed'[phase] = failed[phase] + 1 /\ failed[phase] \in Nat
      BY <1>1, <1>2, <2>2 DEF Failed, CountersOK
    <3>2. work'[w] \in InError
      <4>1. Works(w, "post", "log error")
        BY <2>2 DEF Failed
      <4>2. work'[w] = "log error"
        BY <1>3, <4>1 DEF Works
      <4> QED
        BY <4>2 DEF InError
    <3> QED
      BY <3>1, <3>2
  <2>3. CASE WriteRaises(w)
    <3>1. UNCHANGED <<errs, failed>>
      BY <2>3 DEF WriteRaises
    <3>2. raised' # 0
      <4>1. raised' = raised + 1
        BY <2>3 DEF WriteRaises
      <4>2. raised \in Nat
        BY <1>1 DEF CountersOK
      <4>3. raised + 1 # 0
        BY <4>2
      <4> QED
        BY <4>1, <4>3
    <3>3. PICK from \in {"row", "log error"} : Works(w, from, "out")
      BY <2>3 DEF WriteRaises
    <3> QED
      BY <1>3, <1>5, <3>1, <3>2, <3>3 DEF InError
  <2>4. CASE LogError(w) \/ CountError(w) \/ ReadErrs(w)
    <3>1. PICK from \in InError, to \in InError : Works(w, from, to)
      BY <2>4 DEF LogError, CountError, ReadErrs, InError
    <3>2. UNCHANGED <<errs, raised, failed>>
      BY <2>4 DEF LogError, CountError, ReadErrs, locals
    <3>3. work[w] \in InError /\ work'[w] \in InError
      BY <1>5, <3>1 DEF InError
    <3> QED
      BY <1>3, <3>2, <3>3
  <2>5. CASE WriteErrs(w)
    <3>1. work[w] \in InError
      BY <2>5 DEF WriteErrs, Works, InError
    <3>2. errs' > 0 /\ UNCHANGED failed
      <4>1. errs' = read[w] + 1 /\ read[w] \in Nat /\ UNCHANGED failed
        BY <1>1, <2>5 DEF WriteErrs, CountersOK
      <4> QED
        BY <4>1
    <3> QED
      BY <1>3, <3>1, <3>2
  <2> QED
    BY <2>1, <2>2, <2>3, <2>4, <2>5 DEF Work
<1> QED
  BY <1>8, <1>9, <1>10

\* The counts agree at every step.
LEMMA CountStep == ASSUME SoakInv, [Next]_vars PROVE CountInv'
<1>1. CASE \/ Telemetry \/ Deadline \/ UNCHANGED vars
  <2>1. UNCHANGED Counters /\ UNCHANGED <<main, phase>>
    BY <1>1 DEF Telemetry, Sample, TelEnds, TelSleeps, TelLocks, TelOpens, TelFills, TelReplaces,
      TelLosesFile, Samples, Deadline, vars, Counters, locals, shared
  <2> QED
    BY <2>1, CountFrame DEF SoakInv
<1> QED
  BY <1>1, CountMain, CountWork DEF Next

\* A result well recorded agrees with the log, and with the failures.
LEMMA AgreeStep == ASSUME SoakInv, [Next]_vars PROVE CountsAgree' /\ OkInv'
<1>1. /\ CountsAgree /\ OkInv /\ CountInv /\ MainInv /\ CountersOK /\ SharedOK
      /\ Phases \in Nat
  BY TypeParts, LoadSoakAssumption DEF SoakInv
<1>2. CASE Record
  <2> DEFINE r == [requests |-> window, errors |-> errs, ok |-> window > 0 /\ raised = 0]
  <2>1. phase \in Phase /\ UNCHANGED <<rows, failed>> /\ main = "record"
        /\ result' = [result EXCEPT ![phase] = r]
    BY <1>1, <1>2 DEF Record, Records, Goes, MainInv
  <2>2. Counting = {}
    BY <1>1, <2>1 DEF CountInv, Out, Counting
  <2>3. Cardinality(Counting) = 0
    BY <2>2, FS_EmptySet
  <2>4. \A w \in Worker : work[w] \notin InError
    BY <1>1, <2>1 DEF CountInv, Out, InError
  <2>5. r.ok => r.requests = rows[phase] /\ r.requests > 0 /\ (r.errors = 0 <=> failed[phase] = 0)
    <3>1. window \in Nat /\ errs \in Nat /\ rows[phase] \in Nat /\ failed[phase] \in Nat
      BY <1>1, <2>1 DEF CountersOK
    <3> HIDE DEF InError, Counting
    <3>2. /\ raised = 0 => rows[phase] = window + Cardinality(Counting)
          /\ failed[phase] = 0 => errs = 0
          /\ raised = 0 /\ failed[phase] > 0 => errs > 0
      BY <1>1, <2>1, <2>4 DEF CountInv
    <3>3. raised = 0 => rows[phase] = window
      BY <2>3, <3>1, <3>2
    <3>4. raised = 0 => (errs = 0 <=> failed[phase] = 0)
      BY <3>1, <3>2
    <3> QED
      BY <3>1, <3>3, <3>4
  <2>6. \A p \in Phase : result'[p] = IF p = phase THEN r ELSE result[p]
    BY <1>1, <2>1 DEF SharedOK
  <2> HIDE DEF r
  <2> QED
    BY <1>1, <2>1, <2>5, <2>6 DEF CountsAgree, OkInv
<1>3. CASE Begin
  <2>1. UNCHANGED result /\ \A p \in Phase : result[p] = None
    BY <1>1, <1>3 DEF Begin, Goes, shared, MainInv
  <2> QED
    BY <2>1 DEF CountsAgree, OkInv
<1>4. ASSUME NEW w \in Worker, Work(w) PROVE CountsAgree' /\ OkInv'
  <2>1. UNCHANGED result /\ main = "join" /\ phase \in Phase
    BY <1>4, WorkFrame
  <2>2. \A p \in Phase : result[p] # None => p # phase
    BY <1>1, <2>1 DEF MainInv, Recorded, Phase
  <2>3. \A p \in Phase : p # phase => rows'[p] = rows[p] /\ failed'[p] = failed[p]
    BY <1>1, <2>1, <1>4 DEF Work, Loop, Answered, Failed, WriteRow, WriteRaises, Count, LogError,
      CountError, ReadErrs, WriteErrs, CountersOK
  <2> QED
    BY <1>1, <2>1, <2>2, <2>3 DEF CountsAgree, OkInv
<1>5. CASE \/ Main /\ ~Begin /\ ~Record
           \/ Telemetry \/ Deadline \/ UNCHANGED vars
  <2>1. UNCHANGED <<result, rows, failed>>
    BY <1>5 DEF Main, MainOpens, MainFills, MainReplaces, MainLosesFile, StartPhase, Join,
      MainLocks, Push, Close, Verdict, Telemetry, Sample, TelEnds, TelSleeps, TelLocks, TelOpens,
      TelFills, TelReplaces, TelLosesFile, Samples, Deadline, vars, shared
  <2> QED
    BY <1>1, <2>1 DEF CountsAgree, OkInv
<1> QED
  BY <1>2, <1>3, <1>4, <1>5 DEF Next

\* While every phase has measured as much as before, the requests are the same.
LEMMA RequestsFrame ==
  ASSUME TotalInv, totals'.requests = totals.requests, \A p \in Phase : Measured(p)' = Measured(p)
  PROVE  TotalInv'
<1>1. Requests' = Requests
  BY DEF Requests
<1> QED
  BY <1>1 DEF TotalInv

\* The totals count every request of every phase once.
LEMMA TotalStep == ASSUME SoakInv, [Next]_vars PROVE TotalInv'
<1>1. /\ TotalInv /\ MainInv /\ CountersOK /\ SharedOK /\ Phases \in Nat
      /\ goal \in {"first", "phase", "last"}
  BY TypeParts, LoadSoakAssumption DEF SoakInv, ThreadsOK
<1>2. CASE Record
  <2> DEFINE r == [requests |-> window, errors |-> errs, ok |-> window > 0 /\ raised = 0]
  <2>1. /\ phase \in Phase /\ totals' = totals /\ phase' = phase /\ main = "record"
        /\ main' = "lock" /\ result' = [result EXCEPT ![phase] = r]
    BY <1>1, <1>2 DEF Record, Records, Goes, MainInv
  <2>2. r # None
    <3>1. r \in Result
      BY <1>1 DEF Result, CountersOK
    <3> QED
      BY <3>1, MarkerAssumption
  <2>3. \A p \in Phase : result'[p] = IF p = phase THEN r ELSE result[p]
    BY <1>1, <2>1 DEF SharedOK
  <2>4. r.requests = window
    OBVIOUS
  <2> HIDE DEF r
  <2>5. \A p \in Phase : Measured(p)' = Measured(p)
    BY <2>1, <2>2, <2>3, <2>4 DEF Measured
  <2> QED
    BY <1>1, <2>1, <2>5, RequestsFrame
<1>3. CASE StartPhase
  <2>1. /\ main = "next" /\ main' = "join" /\ phase' = phase + 1 /\ window' = 0
        /\ result' = result /\ totals' = totals
    BY <1>3 DEF StartPhase, Goes
  <2>2. \A p \in Phase : p = phase' => result[p] = None
    BY <1>1, <2>1 DEF MainInv, Recorded, Phase
  <2>3. \A p \in Phase : Measured(p)' = Measured(p)
    BY <2>1, <2>2 DEF Measured
  <2> QED
    BY <1>1, <2>1, <2>3, RequestsFrame
<1>4. ASSUME NEW w \in Worker, Count(w) PROVE TotalInv'
  <2>1. main = "join" /\ phase \in Phase /\ UNCHANGED <<main, phase, result>>
    BY <1>4, WorkFrame DEF Work
  <2>2. window' = window + 1 /\ totals'.requests = totals.requests + 1
    BY <1>1, <1>4 DEF Count, SharedOK
  <2>3. window \in Nat /\ totals.requests \in Nat
    BY <1>1 DEF CountersOK, SharedOK
  <2>4. \A p \in Phase : Measured(p)' = IF p = phase THEN window + 1 ELSE Measured(p)
    BY <2>1, <2>2 DEF Measured
  <2>5. Measured(phase) = window
    BY <2>1 DEF Measured
  <2>6. 1..(window + 1) = (1..window) \cup {window + 1} /\ window + 1 \notin 1..window
    BY <2>3
  <2>7. Requests' = Requests \cup {<<phase, window + 1>>} /\ <<phase, window + 1>> \notin Requests
    BY <2>1, <2>4, <2>5, <2>6 DEF Requests
  <2>8. IsFiniteSet(Requests') /\ Cardinality(Requests') = Cardinality(Requests) + 1
    BY <1>1, <2>7, FS_AddElement DEF TotalInv
  <2> QED
    BY <1>1, <2>2, <2>8 DEF TotalInv
<1>5. ASSUME NEW w \in Worker, Work(w), ~Count(w) PROVE TotalInv'
  <2>1. UNCHANGED <<main, phase, result>>
    BY <1>5, WorkFrame
  <2>2. window' = window /\ totals'.requests = totals.requests
    BY <1>1, <1>5 DEF Work, Loop, Answered, Failed, WriteRow, WriteRaises, LogError, CountError,
      ReadErrs, WriteErrs, locals, SharedOK
  <2>3. \A p \in Phase : Measured(p)' = Measured(p)
    BY <2>1, <2>2 DEF Measured
  <2> QED
    BY <1>1, <2>2, <2>3, RequestsFrame
<1>6. CASE \/ Main /\ ~Record /\ ~StartPhase
           \/ Telemetry \/ Deadline \/ UNCHANGED vars
  <2>1. UNCHANGED <<result, totals, window>>
    BY <1>6 DEF Main, Begin, MainOpens, MainFills, MainReplaces, MainLosesFile, Join,
      MainLocks, Push, Close, Verdict, Telemetry, Sample, TelEnds, TelSleeps, TelLocks, TelOpens,
      TelFills, TelReplaces, TelLosesFile, Samples, Deadline, vars, shared, locals
  <2>2. \/ UNCHANGED <<main, phase>>
        \/ main = "join" /\ main' = "record" /\ phase' = phase
        \/ main \notin {"join", "record"} /\ main' \notin {"join", "record"}
    BY <1>1, <1>6 DEF Main, Begin, MainOpens, MainFills, MainReplaces, MainLosesFile, Join,
      MainLocks, Push, Close, Verdict, Telemetry, Sample, TelEnds, TelSleeps, TelLocks, TelOpens,
      TelFills, TelReplaces, TelLosesFile, Samples, Deadline, vars, shared, Goes
  <2>3. \A p \in Phase : Measured(p)' = Measured(p)
    BY <2>1, <2>2 DEF Measured
  <2> QED
    BY <1>1, <2>1, <2>3, RequestsFrame
<1> QED
  BY <1>2, <1>3, <1>4, <1>5, <1>6 DEF Next

-----------------------------------------------------------------------------
(* The state file.                                                         *)

\* The stages of write_state but the first wait.
Stages == {"open", "fill", "replace"}

\* A step of the files is a stage of one writer, and the other steps leave the
\* writers where they are, but for one that loses its file.
OpenStep(t) ==
  /\ Opens(t) /\ At(t) = "open" /\ At(t)' = "fill"
  /\ \A u \in Writer \ {t} : At(u)' = At(u)
FillStep(t) ==
  /\ Fills(t) /\ At(t) = "fill" /\ At(t)' = "replace"
  /\ \A u \in Writer \ {t} : At(u)' = At(u)
ReplaceStep(t) ==
  /\ Replaces /\ At(t) = "replace" /\ At(t)' \notin Stages
  /\ \A u \in Writer \ {t} : At(u)' = At(u)
Still ==
  /\ UNCHANGED <<file, fd, dump>>
  /\ \A t \in Writer : At(t)' \in {"fill", "replace"} => At(t)' = At(t)

FileStep ==
  \/ UNCHANGED <<phase, result, samples, goal>>
     /\ \E t \in Writer : OpenStep(t) \/ FillStep(t) \/ ReplaceStep(t)
  \/ Still

LEMMA FileSteps == ASSUME SoakInv, [Next]_vars PROVE FileStep
<1>1. Writer = {"main", "tel"} /\ goal \in {"first", "phase", "last"}
  BY DEF SoakInv, TypeOK, Writer
<1> USE <1>1 DEF At, Goes, Samples, shared, files
<1>2. ASSUME MainOpens PROVE OpenStep("main") /\ UNCHANGED <<phase, result, samples, goal>>
  BY <1>2 DEF MainOpens, OpenStep
<1>3. ASSUME MainFills PROVE FillStep("main") /\ UNCHANGED <<phase, result, samples, goal>>
  BY <1>3 DEF MainFills, FillStep
<1>4. ASSUME MainReplaces
      PROVE  ReplaceStep("main") /\ UNCHANGED <<phase, result, samples, goal>>
  BY <1>4 DEF MainReplaces, ReplaceStep, Stages
<1>5. ASSUME TelOpens PROVE OpenStep("tel") /\ UNCHANGED <<phase, result, samples, goal>>
  BY <1>5 DEF TelOpens, OpenStep
<1>6. ASSUME TelFills PROVE FillStep("tel") /\ UNCHANGED <<phase, result, samples, goal>>
  BY <1>6 DEF TelFills, FillStep
<1>7. ASSUME TelReplaces PROVE ReplaceStep("tel") /\ UNCHANGED <<phase, result, samples, goal>>
  BY <1>7 DEF TelReplaces, ReplaceStep, Stages
<1>8. ASSUME Main, ~MainOpens, ~MainFills, ~MainReplaces PROVE Still
  BY <1>8 DEF Main, Begin, MainLosesFile, StartPhase, Join, Record, Records, MainLocks, Push,
    Close, Verdict, Still
<1>9. ASSUME Telemetry, ~TelOpens, ~TelFills, ~TelReplaces PROVE Still
  BY <1>9 DEF Telemetry, Sample, TelEnds, TelSleeps, TelLocks, TelLosesFile, Still
<1>10. ASSUME Aside PROVE Still
  BY <1>10, AsideFrame DEF Still
<1> QED
  BY <1>2, <1>3, <1>4, <1>5, <1>6, <1>7, <1>8, <1>9, <1>10, NextParts DEF FileStep

\* The run only goes ahead.
LEMMA RunAdvances ==
  ASSUME SoakInv, [Next]_vars
  PROVE  /\ Results(result) <= Results(result') /\ Results(result) \in Nat
         /\ Results(result') \in Nat
         /\ phase = DONE => phase' = DONE
<1>1. \A p \in Phase : result[p] # None => result'[p] # None
  <2>1. CASE Record
    <3> DEFINE r == [requests |-> window, errors |-> errs, ok |-> window > 0 /\ raised = 0]
    <3>1. r \in Result
      BY DEF SoakInv, TypeOK, Result
    <3>2. r # None
      BY <3>1, MarkerAssumption
    <3>3. result' = [result EXCEPT ![phase] = r] /\ result \in [Phase -> Result \cup {None}]
      BY <2>1 DEF Record, Records, SoakInv, TypeOK
    <3> QED
      BY <3>2, <3>3
  <2>2. CASE ~Record
    <3>1. UNCHANGED result
      BY <2>2, AsideFrame, NextParts DEF Main, Begin, MainOpens, MainFills, MainReplaces,
        MainLosesFile, StartPhase, Join, MainLocks, Push, Close, Verdict, Telemetry, Sample,
        TelEnds, TelSleeps, TelLocks, TelOpens, TelFills, TelReplaces, TelLosesFile, Samples,
        shared
    <3> QED
      BY <3>1
  <2> QED
    BY <2>1, <2>2
<1>2. Results(result) \in Nat /\ Results(result') \in Nat
  BY ResultsBounded
<1>3. phase = DONE => phase' = DONE
  <2>1. UNCHANGED phase \/ MainLocks \/ StartPhase
    BY AsideFrame, NextParts DEF Main, Begin, MainOpens, MainFills, MainReplaces,
      MainLosesFile, Join, Record, Records, Push, Close, Verdict, Telemetry, Sample,
      TelEnds, TelSleeps, TelLocks, TelOpens, TelFills, TelReplaces, TelLosesFile, Samples,
      shared
  <2>2. MainLocks => phase' \in {phase, DONE}
    BY DEF MainLocks
  <2>3. StartPhase => phase < Phases
    BY DEF StartPhase
  <2>4. phase = DONE => ~(phase < Phases)
    BY LoadSoakAssumption DEF DONE
  <2> QED
    BY <2>1, <2>2, <2>3, <2>4
<1> QED
  BY <1>1, <1>2, <1>3, ResultsGrow

\* Only the first write of main meets the telemetry thread's.
LEMMA Exclusion ==
  ASSUME LockInv, goal # "first", NEW t \in Writer, NEW u \in Writer,
         At(t) \in Stages, At(u) \in Stages
  PROVE  t = u
BY DEF LockInv, Writer, At, Stages

\* While main has published nothing, nothing is published.
LEMMA EarlyOn == MainInv /\ TypeOK /\ goal = "first" => Results(result) = 0 /\ phase # DONE
<1> SUFFICES ASSUME MainInv, TypeOK, goal = "first"
             PROVE  Results(result) = 0 /\ phase # DONE
  OBVIOUS
<1>1. \A p \in Phase : result[p] = None
  BY DEF MainInv
<1>2. phase \in 0..Phases
  <2>1. phase = 0 \/ phase \in 0..Phases \/ phase \in Phase
    BY TypeParts DEF MainInv, ThreadsOK
  <2> QED
    BY <2>1, LoadSoakAssumption DEF Phase
<1> QED
  BY <1>1, <1>2, ResultsEnds, LoadSoakAssumption DEF DONE

\* What a writer's stage makes of state.json.
LEMMA StateFile ==
  ASSUME TypeOK, FdInv, NEW t \in Writer
  PROVE  /\ OpenStep(t) => /\ file'["state"] = file["state"] /\ file'["tmp"] = Empty
                           /\ fd'[t] = "tmp" /\ dump'[t] = Snapshot
         /\ FillStep(t) =>
              /\ dump[t] \in Doc
              /\ \A n \in Name : IF n = fd[t] THEN file'[n] = Over(file[n], dump[t])
                                 ELSE file'[n] = file[n]
         /\ ReplaceStep(t) => file'["state"] = file["tmp"] /\ file'["tmp"] = None
<1>1. FilesOK
  BY TypeParts
<1>2. OpenStep(t) => /\ file'["state"] = file["state"] /\ file'["tmp"] = Empty
                     /\ fd'[t] = "tmp" /\ dump'[t] = Snapshot
  BY <1>1 DEF OpenStep, Opens, FilesOK, Name
<1>3. FillStep(t) => dump[t] \in Doc
  BY <1>1 DEF FillStep, FdInv, FilesOK
<1>4. FillStep(t) => \A n \in Name : IF n = fd[t] THEN file'[n] = Over(file[n], dump[t])
                                     ELSE file'[n] = file[n]
  BY <1>1, MarkerAssumption DEF FillStep, Fills, FdInv, FilesOK, Name
<1>5. ReplaceStep(t) => file'["state"] = file["tmp"] /\ file'["tmp"] = None
  BY DEF ReplaceStep, Replaces
<1> QED
  BY <1>2, <1>3, <1>4, <1>5

\* A document that is no ahead of the run stays so; no marker is a document.
LEMMA AheadStays ==
  ASSUME SoakInv, [Next]_vars, NEW d
  PROVE  /\ NotAhead(d) =>
              (d \in Doc => d.results <= Results(result') /\ (d.phase = DONE => phase' = DONE))
         /\ d \in {None, Empty, Torn, Old} => d \notin Doc
<1>1. d \in Doc => d.results \in Nat
  BY LoadSoakAssumption DEF Doc
<1> QED
  BY <1>1, RunAdvances, MarkerAssumption DEF NotAhead

\* No document gets ahead of the run.
LEMMA AheadStep == ASSUME SoakInv, [Next]_vars PROVE Documents'
<1> DEFINE Bound(d) ==
      d \in Doc => d.results <= Results(result') /\ (d.phase = DONE => phase' = DONE)
<1>1. /\ TypeOK /\ FdInv /\ FilesOK
      /\ \A n \in Name : NotAhead(file[n])
      /\ \A t \in Writer : NotAhead(dump[t])
  BY TypeParts DEF SoakInv, FileInv, Documents
<1>2. /\ \A n \in Name : Bound(file[n])
      /\ \A t \in Writer : Bound(dump[t])
      /\ Bound(None) /\ Bound(Empty) /\ Bound(Torn)
  BY <1>1, AheadStays
<1>3. SUFFICES /\ \A n \in Name : Bound(file'[n])
               /\ \A t \in Writer : Bound(dump'[t])
  BY DEF Documents, NotAhead
<1>4. CASE Still
  <2>1. UNCHANGED <<file, dump>>
    BY <1>4 DEF Still
  <2> HIDE DEF Bound
  <2> QED
    BY <1>2, <2>1
<1>5. ASSUME NEW t \in Writer, OpenStep(t), UNCHANGED <<phase, result>>
      PROVE  /\ \A n \in Name : Bound(file'[n])
             /\ \A u \in Writer : Bound(dump'[u])
  <2>1. Bound(Snapshot)
    BY <1>1, <1>5, SnapshotIs, RunAdvances
  <2>2. /\ file' = [file EXCEPT !["tmp"] = Empty]
        /\ dump' = [dump EXCEPT ![t] = Snapshot]
    BY <1>5 DEF OpenStep, Opens
  <2> HIDE DEF Bound
  <2> QED
    BY <1>1, <1>2, <2>1, <2>2 DEF FilesOK
<1>6. ASSUME NEW t \in Writer, FillStep(t)
      PROVE  /\ \A n \in Name : Bound(file'[n])
             /\ \A u \in Writer : Bound(dump'[u])
  <2>1. dump' = [dump EXCEPT ![t] = None]
    BY <1>6 DEF FillStep, Fills
  <2>2. ASSUME NEW n \in Name PROVE file'[n] \in {file[n], Torn, dump[t]}
    <3>1. file[n] \in Doc \cup {None, Empty, Torn, Old} /\ dump[t] \in Doc
      BY <1>1, <1>6, StateFile DEF FilesOK
    <3> QED
      BY <1>1, <1>6, <3>1, StateFile, OverIs
  <2> HIDE DEF Bound
  <2> QED
    BY <1>1, <1>2, <2>1, <2>2 DEF FilesOK
<1>7. ASSUME NEW t \in Writer, ReplaceStep(t)
      PROVE  /\ \A n \in Name : Bound(file'[n])
             /\ \A u \in Writer : Bound(dump'[u])
  <2>1. dump' = dump /\ file' = [tmp |-> None, state |-> file["tmp"]]
    BY <1>7 DEF ReplaceStep, Replaces
  <2>2. file'["tmp"] = None /\ file'["state"] = file["tmp"] /\ "tmp" \in Name
    BY <2>1 DEF Name
  <2> HIDE DEF Bound
  <2> QED
    BY <1>2, <2>1, <2>2 DEF Name
<1> QED
  BY <1>4, <1>5, <1>6, <1>7, FileSteps DEF FileStep

\* A file slips from under a writer in the first write's time only.
LEMMA SlippedStep == ASSUME SoakInv, [Next]_vars PROVE Slipped'
<1>1. /\ TypeOK /\ MainInv /\ FdInv /\ FilesOK /\ LockInv /\ Slipped
      /\ \A t \in Writer : NotAhead(dump[t])
  BY TypeParts DEF SoakInv, FileInv, Slipped, Documents
<1>2. CASE Still
  BY <1>1, <1>2 DEF Still, Slipped
<1>3. ASSUME NEW t \in Writer, OpenStep(t) PROVE Slipped'
  <2>1. fd'[t] = "tmp" /\ \A u \in Writer \ {t} : fd'[u] = fd[u] /\ dump'[u] = dump[u]
    BY <1>1, <1>3, StateFile, FdWrites DEF OpenStep
  <2> QED
    BY <1>1, <1>3, <2>1 DEF OpenStep, Slipped
<1>4. ASSUME NEW t \in Writer, FillStep(t) PROVE Slipped'
  <2>1. \A u \in Writer \ {t} : fd'[u] = fd[u] /\ dump'[u] = dump[u]
    BY <1>1, <1>4, FdWrites DEF FillStep
  <2> QED
    BY <1>1, <1>4, <2>1 DEF FillStep, Slipped
<1>5. ASSUME NEW t \in Writer, ReplaceStep(t) PROVE Slipped'
  <2> SUFFICES ASSUME NEW u \in Writer, At(u)' = "fill"
               PROVE  dump'[u].results = 0 /\ dump'[u].phase # DONE
    BY DEF Slipped
  <2>1. u # t /\ At(u) = "fill" /\ dump'[u] = dump[u]
    BY <1>5 DEF ReplaceStep, Replaces, Stages
  <2>2. goal = "first"
    BY <1>1, <1>5, <2>1, Exclusion DEF ReplaceStep, Stages
  <2>3. Results(result) = 0 /\ phase # DONE
    BY <1>1, <2>2, EarlyOn
  <2>4. dump[u] \in Doc
    BY <1>1, <2>1 DEF FdInv, FilesOK
  <2>5. dump[u].results \in Nat
    BY <2>4, LoadSoakAssumption DEF Doc
  <2> QED
    BY <1>1, <2>1, <2>3, <2>4, <2>5 DEF NotAhead
<1> QED
  BY <1>2, <1>3, <1>4, <1>5, FileSteps DEF FileStep

\* What a step does to state.json once something is published.
LEMMA StaysPublished ==
  ASSUME SoakInv, [Next]_vars, Published
  PROVE  AtLeast(file'["state"], file["state"])
<1>1. TypeOK /\ FdInv /\ Safe /\ file["state"] \in Doc
  BY DEF SoakInv, FileInv, Safe, Published
<1>2. AtLeast(file["state"], file["state"])
  BY <1>1, LoadSoakAssumption DEF AtLeast, Doc
<1>3. CASE Still
  BY <1>2, <1>3 DEF Still
<1>4. ASSUME NEW t \in Writer, OpenStep(t) PROVE file'["state"] = file["state"]
  BY <1>1, <1>4, StateFile
<1>5. ASSUME NEW t \in Writer, FillStep(t) PROVE file'["state"] = file["state"]
  <2>1. fd[t] = "tmp" /\ "state" \in Name
    BY <1>1, <1>5 DEF Safe, FillStep, Name
  <2> QED
    BY <1>1, <1>5, <2>1, StateFile
<1>6. ASSUME NEW t \in Writer, ReplaceStep(t) PROVE AtLeast(file'["state"], file["state"])
  <2>1. AtLeast(file["tmp"], file["state"])
    BY <1>1, <1>6 DEF Safe, ReplaceStep
  <2> QED
    BY <1>1, <1>6, <2>1, StateFile
<1> QED
  BY <1>2, <1>3, <1>4, <1>5, <1>6, FileSteps DEF FileStep

\* The writers keep what is published.
LEMMA SafeStep ==
  ASSUME SoakInv, [Next]_vars, TypeOK', MainInv', LockInv', Documents'
  PROVE  Safe'
<1>1. /\ TypeOK /\ FdInv /\ FilesOK /\ Safe /\ Slipped /\ NotAhead(file["state"])
      /\ "state" \in Name /\ "tmp" \in Name
  BY TypeParts DEF SoakInv, FileInv, Documents, Name
<1>2. SUFFICES ASSUME Published'
               PROVE  \A t \in Writer :
                        /\ At(t)' = "fill" => /\ fd'[t] = "tmp" /\ file'["tmp"] = Empty
                                              /\ AtLeast(dump'[t], file'["state"])
                        /\ At(t)' = "replace" => AtLeast(file'["tmp"], file'["state"])
  BY DEF Safe, AtLeast
<1>3. goal' # "first"
  <2>1. MainInv' /\ TypeOK' /\ (goal = "first")' => (Results(result) = 0 /\ phase # DONE)'
    BY EarlyOn, PTL
  <2>2. goal' = "first" => Results(result') = 0 /\ phase' # DONE
    BY <2>1
  <2>3. NotAhead(file["state"])' /\ file'["state"] \in Doc
    BY <1>1, <1>2 DEF Documents, Published
  <2>4. file'["state"].results \in Nat
    BY <2>3, LoadSoakAssumption DEF Doc
  <2> QED
    BY <1>2, <2>2, <2>3, <2>4 DEF NotAhead, Published
<1>4. \A t, u \in Writer : At(t)' \in Stages /\ At(u)' \in Stages => t = u
  BY <1>3 DEF LockInv, Writer, At, Stages
<1>5. ASSUME NEW t \in Writer, OpenStep(t)
      PROVE  \A u \in Writer : /\ At(u)' = "fill" => /\ fd'[u] = "tmp" /\ file'["tmp"] = Empty
                                                     /\ AtLeast(dump'[u], file'["state"])
                               /\ At(u)' = "replace" => AtLeast(file'["tmp"], file'["state"])
  <2>1. /\ file'["state"] = file["state"] /\ file'["tmp"] = Empty
        /\ fd'[t] = "tmp" /\ dump'[t] = Snapshot
    BY <1>1, <1>5, StateFile
  <2>2. AtLeast(Snapshot, file["state"])
    <3>1. file["state"] \in Doc
      BY <1>2, <2>1 DEF Published
    <3>2. Snapshot \in Doc /\ Snapshot.phase = phase /\ Snapshot.results = Results(result)
      BY <1>1, SnapshotIs
    <3>3. file["state"].results \in Nat /\ Results(result) \in Nat
      BY <3>1, ResultsBounded, LoadSoakAssumption DEF Doc
    <3> QED
      BY <1>1, <3>1, <3>2, <3>3 DEF AtLeast, NotAhead
  <2>3. \A u \in Writer : At(u)' \in Stages => u = t
    BY <1>4, <1>5 DEF OpenStep, Stages
  <2> QED
    BY <1>5, <2>1, <2>2, <2>3 DEF OpenStep, Stages
<1>6. ASSUME NEW t \in Writer, FillStep(t)
      PROVE  \A u \in Writer : /\ At(u)' = "fill" => /\ fd'[u] = "tmp" /\ file'["tmp"] = Empty
                                                     /\ AtLeast(dump'[u], file'["state"])
                               /\ At(u)' = "replace" => AtLeast(file'["tmp"], file'["state"])
  <2>1. \A u \in Writer : At(u)' \in Stages => u = t
    BY <1>4, <1>6 DEF FillStep, Stages
  <2>2. dump[t] \in Doc
    BY <1>1, <1>6, StateFile
  <2>3. ASSUME fd[t] # "state" PROVE file'["state"] = file["state"]
    BY <1>1, <1>6, <2>3, StateFile
  <2>4. fd[t] # "state"
    <3>1. SUFFICES ASSUME fd[t] = "state" PROVE FALSE
      OBVIOUS
    <3>2. dump[t].results = 0 /\ dump[t].phase # DONE
      BY <1>1, <1>6, <3>1 DEF Slipped, FillStep
    <3>3. file'["state"] \in {dump[t], Torn}
      <4>1. file["state"] \in Doc \cup {None, Empty, Torn, Old}
        BY <1>1 DEF FilesOK
      <4> QED
        BY <1>1, <1>6, <2>2, <3>1, <4>1, StateFile, OverIs
    <3>4. Torn \notin Doc
      BY MarkerAssumption
    <3> QED
      BY <1>2, <3>2, <3>3, <3>4 DEF Published
  <2>5. file'["state"] = file["state"] /\ Published
    BY <1>2, <2>3, <2>4 DEF Published
  <2>6. fd[t] = "tmp" /\ file["tmp"] = Empty /\ AtLeast(dump[t], file["state"])
    BY <1>1, <1>6, <2>5 DEF Safe, FillStep
  <2>7. file'["tmp"] = dump[t]
    BY <1>1, <1>6, <2>2, <2>6, StateFile, OverIs
  <2> QED
    BY <1>6, <2>1, <2>5, <2>6, <2>7 DEF FillStep, Stages
<1>7. ASSUME NEW t \in Writer, ReplaceStep(t), UNCHANGED goal
      PROVE  \A u \in Writer : At(u)' \notin Stages
  <2>1. At(t) \in Stages /\ LockInv /\ goal # "first"
    BY <1>3, <1>7 DEF ReplaceStep, Stages, SoakInv
  <2>2. \A u \in Writer \ {t} : At(u)' = At(u) /\ At(u) \notin Stages
    BY <1>7, <2>1, Exclusion DEF ReplaceStep
  <2> QED
    BY <1>7, <2>2 DEF ReplaceStep
<1>8. CASE Still
  <2>1. Published /\ UNCHANGED <<file, fd, dump>>
    BY <1>2, <1>8 DEF Still, Published
  <2> QED
    BY <1>1, <1>8, <2>1 DEF Still, Safe
<1> QED
  BY <1>5, <1>6, <1>7, <1>8, FileSteps DEF FileStep, Stages

\* main's last write says everything, and stays.
LEMMA LastStep == ASSUME SoakInv, [Next]_vars, TypeOK' PROVE LastInv'
<1>1. /\ TypeOK /\ MainInv /\ LockInv /\ FdInv /\ FilesOK /\ LastInv
      /\ goal \in {"first", "phase", "last"}
      /\ "main" \in Writer /\ "tel" \in Writer /\ "state" \in Name /\ "tmp" \in Name
  BY TypeParts DEF SoakInv, ThreadsOK, Writer, Name
<1>2. ASSUME main \in {"fill", "replace"}, main' = main, goal' # "first"
      PROVE  UNCHANGED <<goal, phase, result, file, fd, dump>>
  <2>1. CASE Main
    BY <1>1, <1>2, <2>1 DEF Main, Begin, MainOpens, MainFills, MainReplaces, MainLosesFile, StartPhase,
      Join, Record, Records, MainLocks, Push, Close, Verdict, Goes
  <2>2. CASE Telemetry
    <3>1. UNCHANGED <<goal, phase, result>>
      BY <2>2 DEF Telemetry, Sample, TelEnds, TelSleeps, TelLocks, TelOpens, TelFills,
        TelReplaces, TelLosesFile, Samples
    <3>2. tel \notin {"open", "fill", "replace"}
      BY <1>1, <1>2, <3>1 DEF LockInv
    <3> QED
      BY <2>2, <3>1, <3>2 DEF Telemetry, Sample, TelEnds, TelSleeps, TelLocks, TelOpens, TelFills,
        TelReplaces, TelLosesFile, Samples, files
  <2> QED
    BY <2>1, <2>2, AsideFrame, NextParts
<1>3. ASSUME main' = "fill", goal' # "first"
      PROVE  /\ fd'["main"] = "tmp" /\ file'["tmp"] = Empty
             /\ dump'["main"].results = Results(result') /\ dump'["main"].phase = phase'
  <2>1. CASE main = "fill"
    BY <1>1, <1>2, <1>3, <2>1 DEF LastInv
  <2>2. CASE main # "fill"
    <3>1. MainOpens
      BY <1>1, <1>3, <2>2, AsideFrame, NextParts DEF Main, Begin, MainFills, MainReplaces,
        MainLosesFile, StartPhase, Join, Record, Records, MainLocks, Push, Close, Verdict,
        Telemetry, Sample, TelEnds, TelSleeps, TelLocks, TelOpens, TelFills, TelReplaces,
        TelLosesFile, Samples, Goes
    <3>2. OpenStep("main") /\ UNCHANGED <<phase, result>>
      BY <1>1, <3>1 DEF MainOpens, OpenStep, At, Goes, Writer, shared
    <3>3. fd'["main"] = "tmp" /\ file'["tmp"] = Empty /\ dump'["main"] = Snapshot
      BY <1>1, <3>2, StateFile
    <3> QED
      BY <1>1, <3>2, <3>3, SnapshotIs
  <2> QED
    BY <2>1, <2>2
<1>4. ASSUME main' = "replace", goal' # "first"
      PROVE  /\ file'["tmp"] \in Doc
             /\ file'["tmp"].results = Results(result') /\ file'["tmp"].phase = phase'
  <2>1. CASE main = "replace"
    BY <1>1, <1>2, <1>4, <2>1 DEF LastInv
  <2>2. CASE main # "replace"
    <3>1. MainFills
      BY <1>1, <1>4, <2>2, AsideFrame, NextParts DEF Main, Begin, MainOpens, MainReplaces,
        MainLosesFile, StartPhase, Join, Record, Records, MainLocks, Push, Close, Verdict,
        Telemetry, Sample, TelEnds, TelSleeps, TelLocks, TelOpens, TelFills, TelReplaces,
        TelLosesFile, Samples, Goes
    <3>2. FillStep("main") /\ main = "fill" /\ UNCHANGED <<phase, result, goal>>
      BY <1>1, <3>1 DEF MainFills, FillStep, At, Goes, Writer, shared
    <3>3. /\ fd["main"] = "tmp" /\ file["tmp"] = Empty
          /\ dump["main"].results = Results(result) /\ dump["main"].phase = phase
      BY <1>1, <1>4, <3>2 DEF LastInv
    <3>4. file'["tmp"] = dump["main"] /\ dump["main"] \in Doc
      BY <1>1, <3>2, <3>3, StateFile, OverIs
    <3> QED
      BY <3>2, <3>3, <3>4
  <2> QED
    BY <2>1, <2>2
<1>5. ASSUME main' \in {"verdict", "exited"}
      PROVE  /\ file'["state"] \in Doc
             /\ file'["state"].results = Phases /\ file'["state"].phase = DONE
  <2>1. CASE main \in {"verdict", "exited"}
    <3>1. /\ file["state"] \in Doc
          /\ file["state"].results = Phases /\ file["state"].phase = DONE
      BY <1>1, <2>1 DEF LastInv
    <3>2. AtLeast(file'["state"], file["state"])
      BY <3>1, StaysPublished DEF Published
    <3>3. file'["state"].results \in 0..Phases
      BY <3>2 DEF AtLeast, Doc
    <3> QED
      BY <3>1, <3>2, <3>3, LoadSoakAssumption DEF AtLeast
  <2>2. CASE main \notin {"verdict", "exited"}
    <3>1. MainReplaces /\ goal = "last"
      BY <1>1, <1>5, <2>2, AsideFrame, NextParts DEF Main, Begin, MainOpens, MainFills,
        MainReplaces, MainLosesFile, StartPhase, Join, Record, Records, MainLocks, Push, Close,
        Verdict, Telemetry, Sample, TelEnds, TelSleeps, TelLocks, TelOpens, TelFills,
        TelReplaces, TelLosesFile, Samples, Goes
    <3>2. main = "replace" /\ file'["state"] = file["tmp"]
      BY <3>1 DEF MainReplaces, Replaces, Goes
    <3>3. /\ file["tmp"] \in Doc
          /\ file["tmp"].results = Results(result) /\ file["tmp"].phase = phase
      BY <1>1, <3>1, <3>2 DEF LastInv
    <3>4. phase = DONE /\ \A p \in Phase : result[p] # None <=> p <= phase
      BY <1>1, <3>1, <3>2 DEF MainInv, Recorded
    <3>5. \A p \in Phase : result[p] # None
      BY <3>4, LoadSoakAssumption DEF Phase, DONE
    <3>6. Results(result) = Phases
      BY <3>5, ResultsEnds
    <3> QED
      BY <3>2, <3>3, <3>4, <3>6
  <2> QED
    BY <2>1, <2>2
<1> QED
  BY <1>3, <1>4, <1>5 DEF LastInv

\* main exits 0 on a run whose phases are all well.
LEMMA ExitStep == ASSUME SoakInv, [Next]_vars PROVE ExitInv'
<1>1. ExitInv /\ None # 0 /\ None # 1 /\ goal \in {"first", "phase", "last"}
  BY MarkerAssumption, TypeParts DEF SoakInv, ThreadsOK
<1>2. CASE Verdict
  BY <1>1, <1>2 DEF Verdict, ExitInv, Goes, shared
<1>3. CASE MainLosesFile
  BY <1>1, <1>3 DEF MainLosesFile, ExitInv, Goes
<1>4. CASE Main /\ ~Verdict /\ ~MainLosesFile
  <2>1. UNCHANGED exit /\ main \notin {"exited", "raised"} /\ main' # "exited"
    BY <1>1, <1>4 DEF Main, Begin, MainOpens, MainFills, MainReplaces, StartPhase,
      Join, Record, Records, MainLocks, Push, Close, Goes
  <2> QED
    BY <1>1, <2>1 DEF ExitInv
<1>5. CASE Telemetry
  <2>1. UNCHANGED <<exit, main, result>>
    BY <1>5 DEF Telemetry, Sample, TelEnds, TelSleeps, TelLocks, TelOpens, TelFills,
      TelReplaces, TelLosesFile, Samples
  <2> QED
    BY <1>1, <2>1 DEF ExitInv
<1>6. CASE Aside
  BY <1>1, <1>6, AsideFrame DEF ExitInv
<1> QED
  BY <1>2, <1>3, <1>4, <1>5, <1>6, NextParts

-----------------------------------------------------------------------------
(* The theorems.                                                           *)

\* The run begins so.
LEMMA SoakInit == Init => SoakInv
<1> SUFFICES ASSUME Init PROVE SoakInv
  OBVIOUS
<1> USE LoadSoakAssumption, MarkerAssumption DEF Init
<1>1. \A p \in Phase : result[p] = None
  OBVIOUS
<1>2. TypeOK
  <2>1. ThreadsOK /\ CountersOK
    <3>1. ThreadsOK
      BY DEF ThreadsOK
    <3>2. rows \in [Phase -> Nat] /\ failed \in [Phase -> Nat] /\ read \in [Worker -> Nat]
      <4>1. PICK n \in {0, 1} : rows = [p \in Phase |-> n]
        OBVIOUS
      <4> QED
        BY <4>1
    <3> QED
      BY <3>1, <3>2 DEF CountersOK
  <2>2. SharedOK
    BY DEF SharedOK, DONE
  <2>3. FilesOK
    BY DEF FilesOK, Name, Writer
  <2> QED
    BY <2>1, <2>2, <2>3, TypeParts
<1>3. MainInv
  BY <1>1 DEF MainInv, Recorded, Phase
<1>4. LockInv /\ FdInv
  BY DEF LockInv, FdInv, At, Writer
<1>5. CountInv /\ CountsAgree /\ OkInv
  BY <1>1 DEF CountInv, CountsAgree, OkInv, Out
<1>6. TotalInv
  <2>1. \A p \in Phase : Measured(p) = 0
    BY <1>1 DEF Measured
  <2>2. Requests = {}
    BY <2>1 DEF Requests
  <2> QED
    BY <2>2, FS_EmptySet DEF TotalInv
<1>7. FileInv
  <2>1. \A m \in {None, Old} : NotAhead(m)
    BY DEF NotAhead
  <2>2. Documents
    BY <2>1 DEF Documents, Name
  <2>3. Slipped /\ Safe
    BY DEF Slipped, Safe, Published, At, Writer
  <2> QED
    BY <2>2, <2>3 DEF FileInv
<1>8. LastInv /\ ExitInv
  BY DEF LastInv, ExitInv
<1> QED
  BY <1>2, <1>3, <1>4, <1>5, <1>6, <1>7, <1>8 DEF SoakInv

\* Every step keeps it.
LEMMA SoakStep == SoakInv /\ [Next]_vars => SoakInv'
<1> SUFFICES ASSUME SoakInv, [Next]_vars PROVE SoakInv'
  OBVIOUS
<1>1. TypeOK' /\ MainInv' /\ LockInv' /\ FdInv'
  BY TypeStep, MainStep, LockStep, FdStep
<1>2. CountInv' /\ CountsAgree' /\ OkInv' /\ TotalInv'
  BY CountStep, AgreeStep, TotalStep
<1>3. Documents' /\ Slipped'
  BY AheadStep, SlippedStep
<1>4. Safe'
  BY <1>1, <1>3, SafeStep
<1>5. LastInv' /\ ExitInv'
  BY <1>1, LastStep, ExitStep
<1> QED
  BY <1>1, <1>2, <1>3, <1>4, <1>5 DEF SoakInv, FileInv

\* The soak keeps its invariant.
LEMMA SoakInvariant == Spec => []SoakInv
BY SoakInit, SoakStep, PTL DEF Spec

\* Every variable of load_soak.py's threads keeps to its type.
THEOREM SoakTypeCorrect == Spec => []TypeOK
<1>1. SoakInv => TypeOK
  BY DEF SoakInv
<1> QED
  BY <1>1, SoakInvariant, PTL

\* A phase that main records as ok has a result for exactly the rows of
\* requests.jsonl, and hides no error, whatever the workers' interleaving over
\* `window`, the unlocked `errs += 1` and the log.
THEOREM CountsAlwaysAgree == Spec => []CountsAgree
<1>1. SoakInv => CountsAgree
  BY DEF SoakInv
<1> QED
  BY <1>1, SoakInvariant, PTL

\* What exit status 0 says of requests.jsonl, of the totals and of state.json
\* is true, while the telemetry thread goes on writing.
THEOREM ExitAlwaysTellsTheTruth == Spec => []ExitTellsTheTruth
<1>1. SoakInv => ExitTellsTheTruth
  <2> SUFFICES ASSUME SoakInv, exit = 0
               PROVE  /\ \A p \in Phase : rows[p] > 0
                      /\ file["state"] \in Doc
                      /\ file["state"].phase = DONE /\ file["state"].results = Phases
                      /\ totals.requests =
                           Cardinality(UNION {{p} \X (1..rows[p]) : p \in Phase})
    BY DEF ExitTellsTheTruth
  <2>1. main = "exited" /\ \A p \in Phase : result[p].ok
    BY DEF SoakInv, ExitInv
  <2>2. phase = DONE /\ \A p \in Phase : result[p] # None <=> p <= phase
    BY <2>1 DEF SoakInv, MainInv, Recorded
  <2>3. \A p \in Phase : result[p] # None
    BY <2>2, LoadSoakAssumption DEF Phase, DONE
  <2>4. \A p \in Phase : result[p].requests = rows[p] /\ result[p].requests > 0
    BY <2>1, <2>3 DEF SoakInv, CountsAgree, OkInv
  <2>5. \A p \in Phase : Measured(p) = rows[p]
    BY <2>1, <2>3, <2>4 DEF Measured
  <2>6. Requests = UNION {{p} \X (1..rows[p]) : p \in Phase}
    BY <2>5 DEF Requests
  <2>7. totals.requests = Cardinality(Requests)
    BY DEF SoakInv, TotalInv
  <2>8. file["state"] \in Doc /\ file["state"].results = Phases /\ file["state"].phase = DONE
    BY <2>1 DEF SoakInv, LastInv
  <2> QED
    BY <2>4, <2>6, <2>7, <2>8
<1> QED
  BY <1>1, SoakInvariant, PTL

\* No result, nor DONE, once in state.json ever disappears from it, whichever
\* thread's write_state comes next.
THEOREM NothingEverUnpublished == Spec => NothingUnpublished
<1>1. SoakInv /\ [Next]_vars =>
        [file["state"] \in Doc /\ file["state"].results > 0 =>
           /\ file'["state"] \in Doc
           /\ file'["state"].results >= file["state"].results
           /\ file["state"].phase = DONE => file'["state"].phase = DONE]_vars
  <2> SUFFICES ASSUME SoakInv, [Next]_vars, file["state"] \in Doc, file["state"].results > 0
               PROVE  AtLeast(file'["state"], file["state"])
    BY DEF AtLeast
  <2> QED
    BY StaysPublished DEF Published
<1> QED
  BY <1>1, SoakInvariant, PTL DEF Spec, NothingUnpublished
==============================================================================
