----------------------------- MODULE Throughput -----------------------------
(***************************************************************************)
(* run_throughput.py and corrected_metrics.py: what a run's rows say of    *)
(* its throughput.  A row is a record of what the code reads of it, with   *)
(* None for a field it lacks; a file is a sequence of lines, None for a    *)
(* line that is not JSON (the half-written last one), or None when it is   *)
(* not there.  A directory or a job id is a sequence of letters, numbers   *)
(* here, with Hyphen among them.                                           *)
(***************************************************************************)
EXTENDS Readings

CONSTANT WINDOW_S        \* seconds of the rolling rate

Hyphen == 0

\* read_rows, load_rows, jlines: the lines that parse, none without a file.
read_rows(file) ==
  IF file = None THEN <<>> ELSE Filter(file, LAMBDA line : line # None)

Positive(x) == x # None /\ x > 0

(***************************************************************************)
(* run_throughput: an eval run, whose rows follow one another.             *)
(***************************************************************************)
ACTIVE_STATES_any == {"running", "queued"}
ACTIVE_STATES == {"running"}

NameBefore(p, q) ==
  \E n \in 0 .. Len(p) :
    /\ IsPrefix(SubSeq(p, 1, n), q)
    /\ \/ n = Len(p) /\ Len(q) > n
       \/ n < Len(p) /\ n < Len(q) /\ p[n + 1] < q[n + 1]

named_loosely(job_id, name) == IsPrefix(job_id, name)

\* p.name == job_id or p.name.startswith(job_id + "-")
named(job_id, name) == name = job_id \/ IsPrefix(Append(job_id, Hyphen), name)

\* The directory named after the job and its engine, else the last by name of
\* those named after the job.
find_run_dir(job_id, engine, dirs) ==
  LET own   == job_id \o <<Hyphen>> \o engine
      cands == {d \in dirs : named(job_id, d)}
  IN  IF engine # None /\ own \in dirs THEN own
      ELSE IF cands = {} THEN None
      ELSE CHOOSE d \in cands : \A c \in cands : ~NameBefore(d, c)

\* A row with no tokens or no time is done but gives no rate.
usable(row) == Positive(row.tokens) /\ Positive(row.elapsed)

compute(rows) ==
  LET good    == Filter(rows, usable)
      upto(n) == <<Total(SubSeq(good, 1, n), "tokens"), Total(SubSeq(good, 1, n), "elapsed")>>
  IN  [rows_done  |-> Len(rows),
       errors     |-> Cardinality({i \in DOMAIN rows : rows[i].error}),
       aggregate  |-> IF good = <<>> THEN None ELSE upto(Len(good)),
       per_stream |-> IF good = <<>> THEN None
                      ELSE MeanRate([i \in DOMAIN good |-> <<good[i].tokens, good[i].elapsed>>]),
       series     |-> [i \in DOMAIN good |->
                         [agg    |-> upto(i),
                          stream |-> <<good[i].tokens, good[i].elapsed>>]]]

\* block(): the page's block for the job document [state, job_id, engine];
\* files gives each run directory the content of its rows file.
run_block(job, files) ==
  LET dir  == find_run_dir(job.job_id, job.engine, DOMAIN files)
      rows == IF dir = None THEN <<>> ELSE read_rows(files[dir])
  IN  IF job.state \notin ACTIVE_STATES \/ job.job_id = None
      THEN [active |-> FALSE, source |-> None, run |-> compute(<<>>)]
      ELSE [active |-> TRUE, source |-> dir, run |-> compute(rows)]

(***************************************************************************)
(* corrected_metrics: a soak, whose requests overlap.  A row carries the   *)
(* phase, the concurrency, ok, tokens, elapsed and ts, the time it ended.  *)
(***************************************************************************)
\* The wall clock of a phase's rows, were the first request's own time not
\* counted.
wall_from_first_answer(rs) ==
  LET ends == {rs[i].ts : i \in DOMAIN rs} IN Max(ends) - Min(ends)

\* From the first request's start to the last one's end.
wall(rs) ==
  Max({rs[i].ts : i \in DOMAIN rs}) - Min({rs[i].ts - rs[i].elapsed : i \in DOMAIN rs})

figures(rs, agg, ps) ==
  [requests    |-> Len(rs),
   tokens      |-> agg[1],
   aggregate   |-> agg,
   per_stream  |-> ps,
   scaling     |-> <<agg[1] * ps[2], agg[2] * ps[1]>>,
   utilization |-> <<Total(rs, "elapsed"), agg[2] * OrElse(rs[1].concurrency, 1)>>]

\* The corrected figures of one phase, None when it has no usable row.
phase_figures(rs) ==
  IF rs = <<>> \/ wall(rs) <= 0 THEN None
  ELSE figures(rs, <<Total(rs, "tokens"), wall(rs)>>,
               MeanRate([i \in DOMAIN rs |-> <<rs[i].tokens, rs[i].elapsed>>]))

summarize(rows, phase) ==
  phase_figures(Filter(rows, LAMBDA r : r.ok # FALSE /\ usable(r) /\ r.phase = phase))

rolling_aggregate(rows, now) ==
  IF rows = <<>> THEN None
  ELSE <<Total(Filter(rows, LAMBDA r : now - r.ts <= WINDOW_S), "tokens"), WINDOW_S>>

\* overlay(): a phase that has a result takes the corrected figures over the
\* ones the runner recorded.  A state is [phase, phases, live_agg], a phase
\* [name, c, result]; a result holds some of the figures of summarize.
corrected(p, fix) ==
  IF p.result = None \/ fix = None THEN p ELSE [p EXCEPT !.result = Merged(@, fix)]

overlay(state, rows, now) ==
  IF rows = <<>> THEN state
  ELSE [state EXCEPT
          !.phases   = [i \in DOMAIN @ |-> corrected(@[i], summarize(rows, @[i].name))],
          !.live_agg = rolling_aggregate(rows, now)]
=============================================================================
