--------------------------- MODULE EngineReadings ---------------------------
(***************************************************************************)
(* engine_metrics.py: what the page reads off the serving engine, from the *)
(* exposition it publishes and from the counters Prometheus recorded.      *)
(*                                                                         *)
(* A metric name is <<prefix, name>>, a label-qualified one is             *)
(* <<prefix, name, label>>; the prefix tensorfold stands for tensorfold:   *)
(* and tensorfold_health: alike, which no test in the code tells apart.    *)
(* An exposition is a sequence of lines [name, label, model, value]: label *)
(* and model are None when the line carries none, value is None when it is *)
(* not a finite number.  A Prometheus point is [t, v].                     *)
(***************************************************************************)
EXTENDS Readings

CONSTANT SS_MAXLEN       \* samples of the single-stream sampler kept

Gen == <<"vllm", "generation_tokens_total">>
Dec == <<"vllm", "request_decode_time_seconds_sum">>
Cnt == <<"vllm", "request_decode_time_seconds_count">>

\* The card's gauges, by their canonical names.
GAUGE_ITEMS ==
  [decoding    |-> <<"vllm", "streams_decoding">>,
   streams_max |-> <<"vllm", "streams_max">>,
   running     |-> <<"vllm", "num_requests_running">>,
   filling     |-> <<"vllm", "streams_filling">>,
   waiting     |-> <<"vllm", "num_requests_waiting">>,
   kv_pct      |-> <<"vllm", "kv_cache_usage_perc">>]

\* The TensorFold spelling of each name looked up in an exposition.  The
\* per-state stream counts are label-qualified names.
FAMILY_ALIASES_bare ==
  [metric \in {GAUGE_ITEMS[key] : key \in DOMAIN GAUGE_ITEMS} \cup {Gen, Cnt, Dec} |->
     CASE metric = GAUGE_ITEMS.running     -> <<"tensorfold", "requests_running">>
       [] metric = GAUGE_ITEMS.streams_max -> <<"tensorfold", "streams_max">>
       [] metric = GAUGE_ITEMS.decoding    -> <<"tensorfold", "streams">>
       [] metric = GAUGE_ITEMS.filling     -> <<"tensorfold", "streams", "filling">>
       [] metric = GAUGE_ITEMS.waiting     -> <<"tensorfold", "requests_waiting">>
       [] metric = GAUGE_ITEMS.kv_pct      -> <<"tensorfold", "kv_cache_usage_ratio">>
       [] metric = Gen                     -> <<"tensorfold", "generation_tokens_total">>
       [] metric = Cnt                     -> <<"tensorfold", "requests_total">>
       [] metric = Dec                     -> <<"tensorfold", "decode_seconds_total">>]

FAMILY_ALIASES ==
  [FAMILY_ALIASES_bare EXCEPT
     ![GAUGE_ITEMS.decoding] = <<"tensorfold", "streams", "decoding">>]

\* _m: a canonical name in the family's spelling; itself when it has none.
metric_name(metric, family) ==
  IF family = "tensorfold" /\ metric \in DOMAIN FAMILY_ALIASES
  THEN FAMILY_ALIASES[metric]
  ELSE metric

(***************************************************************************)
(* The exposition.                                                         *)
(***************************************************************************)
\* The names a line adds its value to: the bare one, and the qualified one
\* when it is labelled.
line_keys(line) ==
  {line.name} \cup (IF line.label = None THEN {}
                    ELSE {Append(line.name, line.label)})

\* Every series of a metric is summed; lines without a number are dropped.
parse_engine(lines) ==
  LET ok == {i \in DOMAIN lines : lines[i].value # None}
  IN  [k \in UNION {line_keys(lines[i]) : i \in ok} |->
         SumFunctionOnSet([i \in ok |-> lines[i].value],
                          {i \in ok : k \in line_keys(lines[i])})]

detect_family(sums) ==
  IF \E k \in DOMAIN sums : k[1] = "tensorfold" THEN "tensorfold"
  ELSE IF \E k \in DOMAIN sums : k[1] = "vllm" THEN "vllm"
  ELSE None

\* The gauge items of block(): None for a series the engine does not publish.
gauges(lines) ==
  LET sums == parse_engine(lines)
  IN  [key \in DOMAIN GAUGE_ITEMS |->
         Get(sums, metric_name(GAUGE_ITEMS[key], detect_family(sums)))]

(***************************************************************************)
(* The single-stream sampler.                                              *)
(***************************************************************************)
NoSamples == [prev |-> None, samples |-> <<>>]

\* The three counters of one reading; each None when it is not published.
counters(sums) ==
  LET of(metric) == Get(sums, metric_name(metric, detect_family(sums)))
  IN  [gen |-> of(Gen), dec |-> of(Dec), cnt |-> of(Cnt)]

single_stream_busy(prev, c) ==
  IF prev = None \/ None \in {c[k] : k \in DOMAIN c} \/ None \in {prev[k] : k \in DOMAIN prev}
  THEN <<>>
  ELSE IF c.cnt - prev.cnt < 1 \/ c.gen <= prev.gen \/ c.dec <= prev.dec
  THEN <<>>
  ELSE << <<c.gen - prev.gen, c.dec - prev.dec>> >>

\* The sample an interval between two readings gives: none unless exactly
\* one request finished in it and both counters moved forward.
single_stream(prev, c) ==
  IF prev = None \/ None \in {c[k] : k \in DOMAIN c} \/ None \in {prev[k] : k \in DOMAIN prev}
  THEN <<>>
  ELSE IF c.cnt - prev.cnt # 1 \/ c.gen <= prev.gen \/ c.dec <= prev.dec
  THEN <<>>
  ELSE << <<c.gen - prev.gen, c.dec - prev.dec>> >>

\* The reading becomes the next one's predecessor whatever it was worth.
note_single_stream(ss, c) ==
  LET all == ss.samples \o single_stream(ss.prev, c)
      cut == IF Len(all) > SS_MAXLEN THEN Len(all) - SS_MAXLEN ELSE 0
  IN  [prev |-> c, samples |-> SubSeq(all, cut + 1, Len(all))]

\* The card's number after a sequence of readings.
ss_decode_tps(readings) ==
  LET ss == FoldLeft(note_single_stream, NoSamples, readings).samples
  IN  IF ss = <<>> THEN None ELSE UpperMedian(ss)

(***************************************************************************)
(* Prometheus.  A range query answers a sequence of series, each a         *)
(* sequence of points whose value is None when it is not a finite number.  *)
(***************************************************************************)
prom_range(result) ==
  Filter(FlattenSeq(result), LAMBDA p : p.v # None)

\* The cells of a chart over `window` seconds.
grid_size_short(window, step) == window \div step
grid_size(window, step) == window \div step + 1

\* The points on the chart's grid: a cell nothing fell into is None, and of
\* two points of one cell the later in the answer stays.
on_grid(points, start, step, n) ==
  LET cell(i) == Round(points[i].t - start, step)
  IN  [c \in 0 .. n - 1 |->
         LET hits == {i \in DOMAIN points : cell(i) = c}
         IN  IF hits = {} THEN None ELSE points[Max(hits)].v]

recent_total(pts, now) ==
  IF Len(pts) < 2 THEN [tokens |-> None, age |-> None]
  ELSE [tokens |-> pts[Len(pts)].v - pts[1].v, age |-> None]

\* Tokens produced in the window and the age of the last step that produced
\* any, from the counter's own steps; a backward step is a restart and is
\* dropped.
recent(pts, now) ==
  LET gain(i) == pts[i].v - pts[i - 1].v
      ups     == {i \in 2 .. Len(pts) : gain(i) > 0}
      age     == now - pts[Max(ups)].t
  IN  IF Len(pts) < 2 THEN [tokens |-> None, age |-> None]
      ELSE IF ups = {} THEN [tokens |-> 0, age |-> None]
      ELSE [tokens |-> SumFunction([i \in ups |-> gain(i)]), age |-> IF age > 0 THEN age ELSE 0]
=============================================================================
