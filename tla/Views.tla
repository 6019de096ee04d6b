-------------------------------- MODULE Views --------------------------------
(***************************************************************************)
(* What is shown of the box, and by whom: the exporter (zgx_exporter.py),  *)
(* the page's machine, run and job blocks (live_metrics.py) and the        *)
(* server's read routes (live_server.py do_GET).                           *)
(*                                                                         *)
(* An exposition is a sequence of series [name, label, value]; label is    *)
(* None on an unlabelled one.  status.json and state.json are None when    *)
(* they cannot be read.                                                    *)
(***************************************************************************)
EXTENDS Throughput

(***************************************************************************)
(* The exporter of one box.                                                *)
(***************************************************************************)
gauge_zero(name, value, label) ==
  << [name |-> name, label |-> label, value |-> OrElse(value, 0)] >>

\* A value that could not be sampled is omitted, never reported as 0.
gauge(name, value, label) ==
  IF value = None THEN <<>>
  ELSE << [name |-> name, label |-> label, value |-> value] >>

\* gpu is the readable record [power, temp, util, clock], its clock None when
\* nvidia-smi prints no number for it, or None altogether: nvidia-smi failed,
\* or printed no number for one of the first three.  mem is None when
\* /proc/meminfo gave nothing.
machine_metrics(gpu, mem, up) ==
  LET of(field) == IF gpu = None THEN None ELSE gpu[field]
  IN  gauge("gpu_power", of("power"), None)
      \o gauge("gpu_temp", of("temp"), None)
      \o gauge("gpu_util", of("util"), None)
      \o gauge("gpu_clock", of("clock"), None)
      \o gauge("mem_avail", mem, None)
      \o gauge("serving_up", up, None)

load_gauges(st, age) ==
  LET of(p, field) == IF p.result = None THEN None ELSE Get(p.result, field)
      phase(p) == gauge("phase_aggregate", of(p, "aggregate"), p.name)
                  \o gauge("phase_requests", of(p, "requests"), p.name)
                  \o gauge("phase_scaling", of(p, "scaling"), p.name)
  IN  gauge("load_age", age, None)
      \o gauge("load_aggregate", st.live_agg, None)
      \o gauge("load_running", IF st.phase = "DONE" THEN 0 ELSE 1, None)
      \o FlattenSeq([i \in DOMAIN st.phases |-> phase(st.phases[i])])

\* The load run's gauges, none without a state document.
load_metrics(state, rows, age, now) ==
  IF state = None THEN <<>> ELSE load_gauges(overlay(state, rows, now), age)

dispatch_metrics(status) ==
  IF status = None THEN <<>>
  ELSE gauge("dispatch_active", IF status.state = "running" THEN 1 ELSE 0, None)
       \o gauge("dispatch_state", 1, status.state)

\* collect(): the whole answer.  float() of a clock that is no number raises,
\* and the box then answers nothing.
collect(gpu, mem, up, load, dispatch) ==
  IF gpu # None /\ gpu.clock = None THEN None
  ELSE machine_metrics(gpu, mem, up) \o load \o dispatch

(***************************************************************************)
(* The page.                                                               *)
(***************************************************************************)
MACHINE == {"serving_up", "gpu_util", "gpu_power", "gpu_temp", "gpu_clock", "mem_avail"}

\* parse_prom_text: the last value of each unlabelled series, the labelled
\* ones kept apart.
parse_prom_text(text) ==
  LET plain == {i \in DOMAIN text : text[i].label = None /\ text[i].value # None}
  IN  [n \in {text[i].name : i \in plain} |->
         text[Max({i \in plain : text[i].name = n})].value]

items(keys, plain) == [k \in keys |-> Get(plain, k)]

\* _box_block: one entry per box, from its own exporter's answer; a box that
\* does not answer has no values.
box_block(answers) ==
  [box \in DOMAIN answers |->
     IF answers[box] = None
     THEN [ok |-> FALSE, items |-> [k \in MACHINE |-> None]]
     ELSE [ok |-> TRUE, items |-> items(MACHINE, parse_prom_text(answers[box]))]]

\* The block that is live only while a soak runs, from the head's exporter.
soak_running(head) ==
  LET running == IF head = None THEN None ELSE Get(parse_prom_text(head), "load_running")
  IN  Positive(running)

\* _job_block: the dispatcher's own view.  The job's engine is not carried.
job_block(status) ==
  IF status = None THEN [active |-> FALSE, state |-> None, job_id |-> None, engine |-> None]
  ELSE [active |-> status.state \in {"queued", "running"},
        state  |-> status.state,
        job_id |-> IF status.job = None THEN None ELSE status.job.job_id,
        engine |-> None]

\* The throughput block of /api/live.
live_throughput(status, files) == run_block(job_block(status), files)

(***************************************************************************)
(* do_GET, for the routes that answer from the files of other processes.   *)
(***************************************************************************)
Answer(code, body) == [code |-> code, body |-> body]

\* /api/state: the corrected view of state.json, 503 when it cannot be read.
get_state(state, rows, now) ==
  IF state = None THEN Answer(503, None) ELSE Answer(200, overlay(state, rows, now))

\* /api/history and /api/models: the collector's file as it is.
get_file(file) == IF file = None THEN Answer(503, None) ELSE Answer(200, file)

\* /api/dispatch: a missing document reads as an unknown state.
get_dispatch(status, history, queue) ==
  Answer(200, [state   |-> IF status = None THEN "unknown" ELSE status.state,
               history |-> OrElse(history, <<>>),
               queue   |-> queue])
=============================================================================
