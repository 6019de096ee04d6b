------------------------------- MODULE Reports -------------------------------
(***************************************************************************)
(* The readers of measurements under everything they may find.  `input` is *)
(* what one reader finds on one occasion: its kind, and a history of the   *)
(* engine, of a run or of the box together with what was recorded of it.   *)
(* Each action is one reader finding something, and the invariants compare *)
(* what it then shows with what happened.                                  *)
(***************************************************************************)
EXTENDS EngineReadings, Views, History, Downloads

CONSTANTS
  MaxSteps,     \* length of a history
  MaxLives,     \* engines serving one after another while they are sampled
  MaxServed,    \* requests one of them serves
  Times,        \* seconds one of those takes
  MaxLane,      \* requests of one lane of a soak
  MaxRuns,      \* runs in an index
  Pauses,       \* seconds a lane waits before a request
  Small,        \* the numbers a measurement takes, among them 0 and 1
  BlobSizes,    \* bytes of a blob
  HubSizes      \* sizes the hub gives, in hundredths of a GB

VARIABLE input

ASSUME ReportsAssumption ==
  /\ MaxSteps \in Nat \ {0} /\ MaxLives \in Nat /\ MaxServed \in Nat
  /\ Times \subseteq Nat \ {0}
  /\ MaxLane \in Nat /\ MaxRuns \in Nat /\ BlobSizes \subseteq Nat /\ HubSizes \subseteq Nat
  /\ {0, 1} \subseteq Small /\ Small \subseteq Nat /\ Pauses \subseteq Nat
  /\ SS_MAXLEN \in Nat \ {0} /\ WINDOW_S \in Nat \ {0} /\ Unit \in Nat \ {0}

\* The sums of the first n numbers of a sequence, for n from 0 on.
Running(s) == [n \in 0 .. Len(s) |-> SumFunctionOnSet(s, 1 .. n)]

(***************************************************************************)
(* The engine.                                                             *)
(***************************************************************************)
Line(name, label, value) == [name |-> name, label |-> label, value |-> value]

\* An engine with d streams decoding and f pre-filling, which counts both as
\* requests in flight; one series may be unreadable.
Exposition(family, d, f, idle, noise) ==
  LET bad == IF noise THEN <<Line(<<family, "x">>, "decoding", None)>> ELSE <<>>
  IN  bad \o
      (IF family = "tensorfold"
       THEN << Line(<<family, "streams">>, "filling", f),
               Line(<<family, "streams">>, "idle", idle),
               Line(<<family, "streams">>, "decoding", d),
               Line(<<family, "requests_running">>, None, d + f),
               Line(<<family, "streams_max">>, None, d + f + idle) >>
       ELSE << Line(<<family, "num_requests_running">>, "engine_0", d),
               Line(<<family, "num_requests_running">>, "engine_1", f) >>)

ReadGauges ==
  \E family \in {"tensorfold", "vllm", "other"}, d, f, idle \in Small, noise \in BOOLEAN :
    input' = [kind   |-> "gauges", family |-> family, d |-> d, f |-> f,
              lines  |-> Exposition(family, d, f, idle, noise)]

\* Requests served one after another, and the counters between any two steps
\* of the engine.  TensorFold moves all three together when a request finishes;
\* vLLM counts the tokens as they are made, here in two halves, and the time
\* and the request when it finishes.
CountersAt(family, requests, step) ==
  LET finished == step \div 2
      tokens   == Running([i \in DOMAIN requests |-> requests[i].tokens])[finished]
      midway   == step % 2 = 1 /\ family = "vllm"
  IN  [gen |-> tokens + (IF midway THEN requests[finished + 1].tokens \div 2 ELSE 0),
       dec |-> Running([i \in DOMAIN requests |-> requests[i].seconds])[finished],
       cnt |-> finished]

\* What the engine publishes of them, in its own spelling.
CounterLines(family, c) ==
  IF family = "tensorfold"
  THEN << Line(<<family, "generation_tokens_total">>, None, c.gen),
          Line(<<family, "decode_seconds_total">>, None, c.dec),
          Line(<<family, "requests_total">>, None, c.cnt) >>
  ELSE << Line(Gen, "engine_0", c.gen), Line(Dec, "engine_0", c.dec), Line(Cnt, "engine_0", c.cnt) >>

Life ==
  [family   : {"tensorfold", "vllm"},
   requests : BoundedSeq([tokens : {2 * k : k \in Small \ {0}}, seconds : Times], MaxServed)]

\* The engine is restarted, or another one is switched to on its port, and its
\* counters begin at 0.  The server's threads note their readings in any order;
\* a reading may find nothing answering.
SampleStreams ==
  \E lives \in BoundedSeq(Life, MaxLives) :
    LET points(l) == [life : {l}, step : 0 .. 2 * Len(lives[l].requests)]
        lines(n)  == IF n = None THEN <<>>
                     ELSE CounterLines(lives[n.life].family,
                                       CountersAt(lives[n.life].family,
                                                  lives[n.life].requests, n.step))
    IN  \E noted \in BoundedSeq((UNION {points(l) : l \in DOMAIN lives}) \cup {None}, MaxSteps) :
          input' = [kind     |-> "streams", lives |-> lives, noted |-> noted,
                    readings |-> [i \in DOMAIN noted |-> counters(parse_engine(lines(noted[i])))]]

\* Intervals in which the engine made tokens, perhaps restarted before it
\* did, and was scraped at the end or not.
CounterAfter(past, n) ==
  SumFunction([i \in Max({1} \cup {i \in 1 .. n : past[i].restart}) .. n |-> past[i].made])

Scraped(past) ==
  Filter([i \in DOMAIN past |-> i], LAMBDA i : past[i].scraped)

ReadCounter ==
  \E past \in BoundedSeq([made : Small, restart : BOOLEAN, scraped : BOOLEAN],
                         MaxSteps + 1) :
    LET at == Scraped(past)
    IN  input' = [kind |-> "counter", past |-> past, at |-> at,
                  pts  |-> [i \in DOMAIN at |->
                              [t |-> at[i], v |-> CounterAfter(past, at[i])]],
                  now  |-> Len(past)]

\* Two series over one window, each with gaps and with values that are no
\* numbers.
DrawChart ==
  \E window \in 1 .. MaxSteps + 1, step \in 1 .. MaxSteps :
    \E one, two \in SUBSET (0 .. window \div step), nan \in 0 .. window \div step :
      LET cells     == [k \in 1 .. window \div step + 1 |-> k - 1]
          point(c)  == [t |-> 3 + c * step, v |-> IF c = nan THEN None ELSE c]
          answer(s) == LET cs == Filter(cells, LAMBDA c : c \in s)
                       IN  << [i \in DOMAIN cs |-> point(cs[i])] >>
      IN  input' = [kind |-> "chart", start |-> 3, step |-> step,
                    n    |-> grid_size(window, step),
                    results |-> <<answer(one), answer(two)>>]

(***************************************************************************)
(* Runs.                                                                   *)
(***************************************************************************)
RowDoc ==
  [tokens : Nat \cup {None}, error : BOOLEAN, elapsed : Nat \cup {None},
   time : {<<>>} \cup UNION {[{key} -> Nat] : key \in {"elapsed_s", "elapsed_seconds", "elapsed"}},
   family : {"f"}]

RatesDoc == [n : Nat, mean : Int \X Int, tokens : Nat]

Row(tokens, key, time, family) ==
  [tokens  |-> tokens, error |-> tokens = None,
   elapsed |-> IF key = "elapsed_s" THEN time ELSE None,
   time    |-> IF time = None THEN <<>> ELSE [k \in {key} |-> time],
   family  |-> family]

\* One writer names the time the same way in every row; a failed row has no
\* time, and neither has one written for adjudication.
Written(key) ==
  {Row(m[1], key, m[2], "f") : m \in ({None} \cup Small) \X ({None} \cup Small)}

ReadRows ==
  \E key \in {"elapsed_s", "elapsed_seconds", "elapsed"} :
    \E file \in BoundedSeq({None} \cup Written(key), MaxSteps) :
      input' = [kind |-> "rows", key |-> key, file |-> file]

\* Job ids none of which is another one with a hyphen after it: the
\* dispatcher gives each the time, the action and the preset.
JobIds == {id \in BoundedSeq({Hyphen, 1, 2}, 3) :
             id # <<>> /\ Head(id) # Hyphen /\ Last(id) # Hyphen}
Apart(ids) == \A p, q \in ids : ~IsPrefix(Append(p, Hyphen), q)
JobDoc == [job_id : JobIds]
StatusDoc == [state : {"idle", "queued", "running", "done", "failed"}, job : {None} \cup JobDoc]

\* Jobs with the run directories there are, each holding some rows and perhaps
\* half of another, and the dispatcher's document about one of them.  A runner
\* makes its directory when it starts, or the dispatcher publishes it when the
\* runner has ended; a download has none.  The document of an idle dispatcher
\* names no job, another one may name none or one without an id.
ReadStatus ==
  \E ids \in {s \in kSubset(2, JobIds) : Apart(s)}, engine \in {<<1>>, <<2, 1>>} :
    \E id \in ids, there \in SUBSET ids,
       state \in {"idle", "queued", "running", "done", "failed"}, named_in \in BOOLEAN,
       n \in 0 .. MaxSteps, torn \in BOOLEAN :
      LET own  == id \o <<Hyphen>> \o engine
          line == Row(1, "elapsed_s", 1, "f")
      IN  /\ state = "idle" => ~named_in
          /\ input' = [kind   |-> "status", own |-> own, n |-> n,
                       status |-> [state |-> state,
                                   job   |-> IF named_in THEN [job_id |-> id] ELSE None],
                       files  |-> [d \in {i \o <<Hyphen>> \o engine : i \in there} |->
                                     IF d = own THEN [i \in 1 .. n |-> line]
                                                     \o (IF torn THEN <<None>> ELSE <<>>)
                                     ELSE <<line, line>>]]

(***************************************************************************)
(* Boxes, the soak, the index and downloads.                               *)
(***************************************************************************)
GpuReading == [power : Small, temp : {1}, util : Small, clock : {None, 1}]
GpuSamples == GpuReading \cup {None}
Recorded == [requests |-> 1, aggregate |-> <<1, 1>>]
PhaseDoc == [name : {"c"}, c : {1, 2}, result : {None, Recorded}]
SoakDoc == [phase : {"DONE"}, phases : {<<p>> : p \in PhaseDoc}, live_agg : {None}]
LoadDoc == [phase : {"DONE", "c1"}, phases : {<<>>}, live_agg : {None}]
RequestRow ==
  [phase : {"c"}, ok : {TRUE}, concurrency : {1, 2}, shape : {"a", "b"}, tokens : Nat,
   elapsed : Nat \ {0}, time : [{"elapsed"} -> Nat], ts : Nat]
FiguresDoc == [requests : Nat, tokens : Nat, aggregate : Int \X Int, per_stream : Int \X Int,
               scaling : Int \X Int, utilization : Int \X Int]
Series == [name : MACHINE \cup {"load_age", "load_running"}, label : {None}, value : Nat]

\* Nor is None a document, a job, a directory, a row, a file, the rates or the
\* figures of one, a rate, an exposition, a blob, a revision, a family, a field
\* or a label.
ASSUME DocumentAssumption ==
  /\ None \notin JobIds \cup JobDoc \cup StatusDoc \cup Seq(Nat)
  /\ None \notin RowDoc \cup Seq(RowDoc \cup {None}) \cup RatesDoc
  /\ None \notin RequestRow \cup Seq(RequestRow) \cup SoakDoc \cup (Int \X Int)
  /\ None \notin GpuReading \cup LoadDoc \cup Seq(Series) \cup {Recorded} \cup FiguresDoc
  /\ None \notin [life : Nat, step : Nat]

ASSUME NameAssumption ==
  None \notin {"a", "b", "c", "f", "p", "q", "elapsed", "tensorfold", "decoding", "filling",
               "idle", "engine_0", "engine_1"}

ReadBoxes ==
  \E gpu, other \in GpuSamples, mem, load \in {None} \cup Small, up \in {0, 1} :
    LET st == IF load = None THEN None
              ELSE [phase |-> IF load = 0 THEN "DONE" ELSE "c1", phases |-> <<>>,
                    live_agg |-> None]
        head == collect(gpu, mem, up, load_metrics(st, <<>>, 1, 0), <<>>)
    IN  input' = [kind    |-> "boxes", gpu |-> gpu, mem |-> mem, up |-> up, load |-> load,
                  answers |-> << head, collect(other, mem, up, <<>>, <<>>) >>]

\* One lane of a soak is a sequence of requests, each after a pause; its rows
\* carry the time they ended.
LaneRows(lane, shape, conc) ==
  LET took == [i \in DOMAIN lane |-> lane[i].pause + lane[i].elapsed]
  IN  [i \in DOMAIN lane |->
         [phase |-> "c", ok |-> TRUE, concurrency |-> conc, shape |-> shape,
          tokens |-> lane[i].tokens, elapsed |-> lane[i].elapsed,
          time |-> [k \in {"elapsed"} |-> lane[i].elapsed], ts |-> 10 + Running(took)[i]]]

Lanes == BoundedSeq([pause : Pauses, elapsed : Small \ {0}, tokens : Small], MaxLane)

ReadSoak ==
  \E one, two \in Lanes, conc \in {1, 2}, recorded \in BOOLEAN :
    /\ conc = 1 => two = <<>>
    /\ input' = [kind  |-> "soak", conc |-> conc,
                 rows  |-> LaneRows(one, "a", conc) \o LaneRows(two, "b", conc),
                 state |-> [phase |-> "DONE", live_agg |-> None,
                            phases |-> << [name |-> "c", c |-> conc,
                              result |-> IF recorded THEN Recorded ELSE None] >>]]

Verdict == [correct |-> 1, complete |-> None, n |-> 1, accuracy |-> 1]

\* Directories of finished and unfinished runs, over one family.  The name
\* carries the preset, and the collector does not read it.
RunDirs ==
  [id : {0}, preset : {"smoke-20", "kit-180"}, invalid : BOOLEAN, model : {0}, quant : {0}, time : {0},
   summary : {None, <<>>} \cup [{"f"} -> [correct : {0}, graded : {0}, accuracy : {None} \cup Small]],
   closed : {None, [f |-> Verdict]},
   rows : {None, <<Row(1, "elapsed", 1, "f")>>, <<Row(2, "elapsed", 1, "f")>>}]

Indexes ==
  {[i \in DOMAIN dirs |-> [dirs[i] EXCEPT !.id = i]] : dirs \in BoundedSeq(RunDirs, MaxRuns)}

\* Nor is None a verdict or an index.
ASSUME IndexAssumption ==
  None \notin {Verdict} \cup {history_doc(dirs, None, None, 0) : dirs \in Indexes}

RankRuns == \E dirs \in Indexes : input' = [kind |-> "runs", dirs |-> dirs]

PlanDownload ==
  \E branches, tags \in BoundedSeq({None, "a", "b", "c"}, 2),
     gb \in [{"a", "b", "c"} -> {None, 0, 1, 3}], free \in 2 .. 6 :
    input' = [kind |-> "plan", free |-> free, gb |-> gb,
              revs |-> hf_revisions(branches, tags)]

\* A repository's cache during a download: blobs under their own names and
\* under those of the revision's links, and what the hub said the revision has.
MeasureTree ==
  \E size \in [{"p", "q"} -> BlobSizes], links \in SUBSET {"p", "q", None},
     expected \in HubSizes \cup {None} :
    input' = [kind |-> "tree", size |-> size, expected |-> expected,
              tree |-> {[path |-> <<"snapshot">>, blob |-> None]}
                       \cup {[path |-> <<"blobs", b>>, blob |-> b] : b \in DOMAIN size}
                       \cup {[path |-> <<"snapshot", b>>, blob |-> b] : b \in links}]

-----------------------------------------------------------------------------
Start == [kind |-> "none"]

Init == input = Start

Done == input # Start /\ input' = Start

Next ==
  \/ Done
  \/ /\ input = Start
     /\ \/ ReadGauges \/ SampleStreams \/ ReadCounter \/ DrawChart
        \/ ReadRows \/ ReadStatus \/ ReadBoxes \/ ReadSoak
        \/ RankRuns \/ PlanDownload \/ MeasureTree

Spec == Init /\ [][Next]_input

-----------------------------------------------------------------------------
\* The card's own arithmetic: an engine's requests in flight are its streams
\* decoding and pre-filling, whatever order and company its series come in,
\* and what an engine does not publish is a dash.
GaugesAddUp ==
  input.kind = "gauges" =>
    LET g == gauges(input.lines)
    IN  CASE input.family = "tensorfold" ->
               /\ g.running = input.d + input.f
               /\ g.decoding = input.d /\ g.filling = input.f
               /\ g.streams_max >= g.running
          [] input.family = "vllm" ->
               /\ g.running = input.d + input.f
               /\ g.decoding = None /\ g.filling = None /\ g.streams_max = None
          [] OTHER -> \A key \in DOMAIN g : g[key] = None

OfARequest(tps) ==
  \E l \in DOMAIN input.lives : \E i \in DOMAIN input.lives[l].requests :
    LET q == input.lives[l].requests[i] IN SameRate(tps, <<q.tokens, q.seconds>>)

\* The single-stream number is the rate of a request that was served, whichever
\* order the server's threads noted their readings in.
SampleIsARequests ==
  input.kind = "streams" =>
    LET shown == ss_decode_tps(input.readings) IN shown = None \/ OfARequest(shown)

\* Or else it is what two readings next to each other differ by, of which one
\* was of another engine, or of the same one started again, or was taken while
\* an engine that counts tokens as they are made was making them.
SampleIsExplained ==
  input.kind = "streams" =>
    LET shown == ss_decode_tps(input.readings)
        midway(p) == p.step % 2 = 1 /\ input.lives[p.life].family = "vllm"
        astray(p, q) == p # None /\ q # None /\ (p.life # q.life \/ midway(p) \/ midway(q))
        moved(c, d) == <<d.gen - c.gen, d.dec - c.dec>>
    IN  \/ shown = None \/ OfARequest(shown)
        \/ \E i \in 2 .. Len(input.noted) :
             /\ astray(input.noted[i - 1], input.noted[i])
             /\ shown = moved(input.readings[i - 1], input.readings[i])

\* The hour's tokens are no more than were made between its first and last
\* scrape, and no fewer than those of the stretches without a restart; the
\* age of the last generation leaves no such stretch after it.
RecentCounts ==
  input.kind = "counter" =>
    LET r == recent(input.pts, input.now)
        at == input.at
        made(i) == SumFunction([k \in at[i - 1] + 1 .. at[i] |-> input.past[k].made])
        clean == {i \in 2 .. Len(at) :
                    ~\E k \in at[i - 1] + 1 .. at[i] : input.past[k].restart}
    IN  /\ (r.tokens = None) <=> Len(at) < 2
        /\ r.tokens # None =>
             /\ r.tokens <= SumFunction([i \in 2 .. Len(at) |-> made(i)])
             /\ r.tokens >= SumFunction([i \in clean |-> made(i)])
             /\ \A i \in clean : made(i) > 0 => r.age # None /\ input.now - r.age >= at[i]

\* A chart's lines share one grid: every point Prometheus gave is in the cell
\* of its own time, the last one included, and every other cell is a gap.
GridKeepsEveryPoint ==
  input.kind = "chart" =>
    \A s \in DOMAIN input.results :
      LET pts == prom_range(input.results[s])
          row == on_grid(pts, input.start, input.step, input.n)
      IN  /\ \A i \in DOMAIN pts :
               Get(row, (pts[i].t - input.start) \div input.step) = pts[i].v
          /\ Cardinality({c \in DOMAIN row : row[c] # None}) = Len(pts)

\* Whatever name a runner gives the time, every row with tokens and a time is
\* in the history's rate; and for the runner the page can read live, the page
\* and the history give the same mean over the same rows.
RatesSurviveTheWriter ==
  input.kind = "rows" =>
    LET rows == read_rows(input.file)
        good == {i \in DOMAIN rows : Positive(rows[i].tokens)
                                     /\ Positive(Get(rows[i].time, input.key))}
        past == rates(rows, None)
        live == compute(rows)
    IN  /\ (past = None) <=> good = {}
        /\ past # None => past.n = Cardinality(good)
        /\ input.key = "elapsed_s" =>
             IF past = None THEN live.per_stream = None
             ELSE /\ SameRate(past.mean, live.per_stream)
                  /\ Len(live.series) = past.n
                  /\ live.series[past.n].agg = live.aggregate

\* While a job runs and has a run directory the page shows the complete rows
\* of that directory, and at any other time those of none: never another job's.
PageShowsTheRun ==
  input.kind = "status" =>
    LET shown == live_throughput(input.status, input.files)
        found == /\ input.status.state = "running" /\ input.status.job # None
                 /\ input.own \in DOMAIN input.files
    IN  /\ shown.source = IF found THEN input.own ELSE None
        /\ shown.run.rows_done = IF found THEN input.n ELSE 0

\* The exporter calls a job executing exactly when /api/dispatch does; the
\* throughput block does when the document also names the job; and the job
\* block counts a job put back as active, which the others do not.
ViewsAgree ==
  input.kind = "status" =>
    LET dispatch == dispatch_metrics(input.status)
        exported == parse_prom_text(dispatch)["dispatch_active"] = 1
        answered == get_dispatch(input.status, None, {}).body.state
        shown    == live_throughput(input.status, input.files)
    IN  /\ exported <=> answered = "running"
        /\ shown.active <=> exported /\ input.status.job # None
        /\ job_block(input.status).active <=> exported \/ answered = "queued"

\* A number on a box's card was sampled on that box: what could not be sampled,
\* and everything of a box that did not answer, is a dash and never a zero; and
\* a soak is called running only if it is.  Only a clock that is no number
\* keeps the box from answering, and a running soak from being seen.
NoFakeZero ==
  input.kind = "boxes" =>
    LET box == box_block(input.answers)[1]
        of(field) == IF input.gpu = None THEN None ELSE input.gpu[field]
        clear == input.gpu = None \/ input.gpu.clock # None
        soaking == input.load \notin {None, 0}
    IN  /\ clear => box.ok
        /\ box.ok => /\ box.items.gpu_power = of("power") /\ box.items.gpu_util = of("util")
                     /\ box.items.gpu_clock = of("clock") /\ box.items.mem_avail = input.mem
        /\ ~box.ok => \A key \in MACHINE : box.items[key] = None
        /\ soak_running(input.answers[1]) => soaking
        /\ clear /\ soaking => soak_running(input.answers[1])

\* Every consumer of a soak shows the same throughput of a phase, and the
\* archive's shapes are made of the very requests that throughput is made of.
OneSoakView ==
  input.kind = "soak" =>
    LET page     == get_state(input.state, input.rows, 20).body.phases[1].result
        exported == load_metrics(input.state, input.rows, 1, 20)
        of(n)    == {exported[i].value : i \in {j \in DOMAIN exported : exported[j].name = n}}
        archive  == history_doc(<<>>, input.state, input.rows, 20)
        kept     == archive.soak
        shapes   == archive.load_shapes
        used     == Filter(input.rows, usable)
    IN  IF page = None THEN kept = <<>> /\ of("phase_aggregate") = {}
        ELSE /\ of("phase_aggregate") = {page.aggregate}
             /\ kept[1].result.aggregate = page.aggregate
             /\ kept[1].result.requests = page.requests
             /\ used # <<>> =>
                  page.requests = SumFunction([s \in DOMAIN shapes |-> shapes[s].all.n])

\* A phase's streams are never more than fully used, and the scaling shown is
\* the streams kept busy: with requests of one speed it is their utilization
\* times the concurrency, whatever the pauses.
LanesBound ==
  input.kind = "soak" =>
    LET s == summarize(input.rows, "c")
        speeds == {<<input.rows[i].tokens, input.rows[i].elapsed>> :
                     i \in {j \in DOMAIN input.rows : usable(input.rows[j])}}
    IN  s # None =>
          /\ s.utilization[1] <= s.utilization[2]
          /\ (\A p, q \in speeds : SameRate(p, q)) =>
               SameRate(s.scaling, <<s.utilization[1] * input.conc, s.utilization[2]>>)

\* The best result of an evaluation family is a scored one of a valid run, and
\* no valid run of its preset has a better one, or the same one faster.
BestIsBest ==
  input.kind = "runs" =>
    LET h     == get_file(history_doc(input.dirs, None, None, 0)).body
        group == Get(h.eval_types, "f")
        shown(i) == LET d == input.dirs[i]
                    IN  ~d.invalid /\ d.summary # None /\ d.rows # None
        acc(i) == LET d == input.dirs[i]
                  IN  IF d.closed # None THEN d.closed["f"].accuracy
                      ELSE IF d.summary = <<>> THEN None ELSE d.summary["f"].accuracy
        scored == {i \in DOMAIN input.dirs : shown(i) /\ acc(i) # None}
        speed(i) == input.dirs[i].rows[1].tokens
    IN  IF scored = {} THEN group = None \/ group.best = None
        ELSE LET b == group.best.run_id
             IN  /\ b \in scored
                 /\ \A i \in scored :
                      input.dirs[i].preset = input.dirs[b].preset =>
                        acc(b) > acc(i) \/ (acc(b) = acc(i) /\ speed(b) >= speed(i))

\* A repository is offered exactly when the gate at the post would take one of
\* the revisions listed with a size.
PlanAgreesWithGate ==
  input.kind = "plan" =>
    LET plan == hf_plan(input.revs, input.gb, input.free)
    IN  /\ plan.fits <=> \E r \in DOMAIN plan.sizes :
                             download_allowed(plan.sizes[r].gb, input.free)
        /\ \A r \in DOMAIN plan.sizes :
             plan.sizes[r].fits => plan.sizes[r].gb + DISK_FLOOR_GB <= input.free

\* The progress of a download is the share of the hub's size that the blobs on
\* disk have, each once, to within half a percent of the one and half a tenth
\* of a GB of the other; and it is a dash as long as less than that has landed.
PercentOfTheBytes ==
  input.kind = "tree" =>
    LET percent == download_progress(input.tree, input.size, input.expected)
        landed  == input.size["p"] + input.size["q"]
        whole   == Unit * input.expected
        apart   == percent * whole - 100 * landed
        within  == whole + 1000 * Unit
    IN  IF percent = None THEN input.expected \in {None, 0} \/ landed <= 5 * Unit
        ELSE /\ input.expected \notin {None, 0} /\ landed >= 5 * Unit
             /\ 2 * apart <= within /\ -within <= 2 * apart
=============================================================================
