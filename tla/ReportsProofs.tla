---------------------------- MODULE ReportsProofs ----------------------------
(***************************************************************************)
(* Theorems about the readers of measurements, for all numbers, whatever   *)
(* the bounds of Reports are.                                              *)
(***************************************************************************)
EXTENDS Reports, ReadingsProofs

-----------------------------------------------------------------------------
(* What a reader finds.                                                    *)

\* Each action finds inputs of its own kind.
LEMMA Kinds ==
  /\ ReadGauges => input'.kind = "gauges"
  /\ SampleStreams => input'.kind = "streams"
  /\ ReadCounter => input'.kind = "counter"
  /\ DrawChart => input'.kind = "chart"
  /\ ReadRows => input'.kind = "rows"
  /\ ReadStatus => input'.kind = "status"
  /\ ReadBoxes => input'.kind = "boxes"
  /\ ReadSoak => input'.kind = "soak"
  /\ RankRuns => input'.kind = "runs"
  /\ PlanDownload => input'.kind = "plan"
  /\ MeasureTree => input'.kind = "tree"
  /\ Done => input'.kind = "none"
<1>1. ReadGauges => input'.kind = "gauges"
  BY DEF ReadGauges
<1>2. SampleStreams => input'.kind = "streams"
  BY DEF SampleStreams
<1>3. ReadCounter => input'.kind = "counter"
  BY DEF ReadCounter
<1>4. DrawChart => input'.kind = "chart"
  BY DEF DrawChart
<1>5. ReadRows => input'.kind = "rows"
  BY DEF ReadRows
<1>6. ReadStatus => input'.kind = "status"
  BY DEF ReadStatus
<1>7. ReadBoxes => input'.kind = "boxes"
  BY DEF ReadBoxes
<1>8. ReadSoak => input'.kind = "soak"
  BY DEF ReadSoak
<1>9. RankRuns => input'.kind = "runs"
  BY DEF RankRuns
<1>10. PlanDownload => input'.kind = "plan"
  BY DEF PlanDownload
<1>11. MeasureTree => input'.kind = "tree"
  BY DEF MeasureTree
<1>12. Done => input'.kind = "none"
  BY DEF Done, Start
<1> QED
  BY <1>1, <1>2, <1>3, <1>4, <1>5, <1>6, <1>7, <1>8, <1>9, <1>10, <1>11, <1>12

-----------------------------------------------------------------------------
(* An exposition, by the values it carries.                                *)

\* The values an exposition carries under a name without a label.
Carried(text, name) ==
  {text[i].value : i \in {j \in DOMAIN text :
     text[j].name = name /\ text[j].label = None /\ text[j].value # None}}

IsText(t) == \E S : t \in Seq(S)

LEMMA TextsJoin ==
  ASSUME NEW t, NEW u, IsText(t), IsText(u)
  PROVE  \E S : t \in Seq(S) /\ u \in Seq(S) /\ t \o u \in Seq(S)
<1>1. PICK S, T : t \in Seq(S) /\ u \in Seq(T)
  BY DEF IsText
<1>2. t \in Seq(S \cup T) /\ u \in Seq(S \cup T)
  BY <1>1, SeqMonotonic
<1> QED
  BY <1>2

\* What two expositions carry, one after the other.
LEMMA CarriedConcat ==
  ASSUME NEW t, NEW u, IsText(t), IsText(u), NEW k
  PROVE  IsText(t \o u) /\ Carried(t \o u, k) = Carried(t, k) \cup Carried(u, k)
<1>1. PICK S : t \in Seq(S) /\ u \in Seq(S) /\ t \o u \in Seq(S)
  BY TextsJoin
<1>2. /\ DOMAIN t = 1..Len(t) /\ DOMAIN u = 1..Len(u) /\ DOMAIN (t \o u) = 1..(Len(t) + Len(u))
      /\ Len(t) \in Nat /\ Len(u) \in Nat
      /\ \A i \in 1..(Len(t) + Len(u)) :
           (t \o u)[i] = IF i <= Len(t) THEN t[i] ELSE u[i - Len(t)]
  BY <1>1
<1> DEFINE Is(x) == x.name = k /\ x.label = None /\ x.value # None
<1>3. \A v : v \in Carried(t \o u, k) <=> \E i \in DOMAIN (t \o u) : Is((t \o u)[i]) /\ v = (t \o u)[i].value
  BY DEF Carried
<1>4. \A v : v \in Carried(t, k) <=> \E i \in DOMAIN t : Is(t[i]) /\ v = t[i].value
  BY DEF Carried
<1>5. \A v : v \in Carried(u, k) <=> \E i \in DOMAIN u : Is(u[i]) /\ v = u[i].value
  BY DEF Carried
<1> DEFINE w == t \o u
           m == Len(t)
           n == Len(u)
<1>6. /\ DOMAIN t = 1..m /\ DOMAIN u = 1..n /\ DOMAIN w = 1..(m + n) /\ m \in Nat /\ n \in Nat
      /\ \A i \in 1..(m + n) : w[i] = IF i <= m THEN t[i] ELSE u[i - m]
  BY <1>2
<1>7. /\ \A v : v \in Carried(w, k) <=> \E i \in DOMAIN w : Is(w[i]) /\ v = w[i].value
      /\ IsText(w)
  BY <1>1, <1>3 DEF IsText
<1> HIDE DEF Is, w, m, n
<1>8. ASSUME NEW v, v \in Carried(w, k) PROVE v \in Carried(t, k) \cup Carried(u, k)
  <2>1. PICK i \in 1..(m + n) : Is(w[i]) /\ v = w[i].value
    BY <1>6, <1>7, <1>8
  <2>2. CASE i <= m
    <3>1. i \in 1..m /\ w[i] = t[i]
      BY <1>6, <2>2
    <3> QED
      BY <1>4, <1>6, <2>1, <3>1
  <2>3. CASE ~(i <= m)
    <3>1. i - m \in 1..n /\ w[i] = u[i - m]
      BY <1>6, <2>3
    <3> QED
      BY <1>5, <1>6, <2>1, <3>1
  <2> QED
    BY <2>2, <2>3
<1>9. ASSUME NEW v, v \in Carried(t, k) PROVE v \in Carried(w, k)
  <2>1. PICK i \in 1..m : Is(t[i]) /\ v = t[i].value
    BY <1>4, <1>6, <1>9
  <2>2. i \in 1..(m + n) /\ w[i] = t[i]
    BY <1>6
  <2> QED
    BY <1>6, <1>7, <2>1, <2>2
<1>10. ASSUME NEW v, v \in Carried(u, k) PROVE v \in Carried(w, k)
  <2>1. PICK i \in 1..n : Is(u[i]) /\ v = u[i].value
    BY <1>5, <1>6, <1>10
  <2>2. i + m \in 1..(m + n) /\ w[i + m] = u[i]
    <3>1. i + m \in 1..(m + n) /\ ~(i + m <= m) /\ (i + m) - m = i
      BY <1>6
    <3> QED
      BY <1>6, <3>1
  <2> QED
    BY <1>6, <1>7, <2>1, <2>2
<1>11. Carried(w, k) = Carried(t, k) \cup Carried(u, k)
  BY <1>8, <1>9, <1>10
<1> QED
  BY <1>7, <1>11 DEF w

\* A gauge carries its value, unless it is labelled or there is none.
LEMMA CarriedGauge ==
  ASSUME NEW n, NEW v, NEW l, NEW k
  PROVE  /\ IsText(gauge(n, v, l))
         /\ Carried(gauge(n, v, l), k) = IF n = k /\ l = None /\ v # None THEN {v} ELSE {}
<1>1. CASE v = None
  <2>1. gauge(n, v, l) = <<>> /\ <<>> \in Seq({})
    BY <1>1 DEF gauge
  <2> QED
    BY <1>1, <2>1 DEF IsText, Carried
<1>2. CASE v # None
  <2> DEFINE r == [name |-> n, label |-> l, value |-> v]
             t == <<r>>
  <2>1. gauge(n, v, l) = t
    BY <1>2 DEF gauge
  <2>2. t \in Seq({r}) /\ DOMAIN t = {1} /\ t[1] = r
    OBVIOUS
  <2>3. r.name = n /\ r.label = l /\ r.value = v
    OBVIOUS
  <2> HIDE DEF r, t
  <2>4. Carried(t, k) = IF n = k /\ l = None THEN {v} ELSE {}
    BY <1>2, <2>2, <2>3 DEF Carried
  <2>5. IsText(t)
    BY <2>2 DEF IsText
  <2> QED
    BY <1>2, <2>1, <2>4, <2>5
<1> QED
  BY <1>1, <1>2

\* The page reads a value an exposition carries under the name, if any.
LEMMA ReadsCarried ==
  ASSUME NEW t, IsText(t), NEW k
  PROVE  IF Carried(t, k) = {} THEN Get(parse_prom_text(t), k) = None
         ELSE Get(parse_prom_text(t), k) \in Carried(t, k)
<1> DEFINE plain == {i \in DOMAIN t : t[i].label = None /\ t[i].value # None}
           at(n) == {i \in plain : t[i].name = n}
<1>1. Len(t) \in Nat /\ DOMAIN t = 1..Len(t)
  BY DEF IsText
<1>2. /\ DOMAIN parse_prom_text(t) = {t[i].name : i \in plain}
      /\ \A n \in {t[i].name : i \in plain} : parse_prom_text(t)[n] = t[Max(at(n))].value
  BY DEF parse_prom_text
<1>3. Carried(t, k) = {t[i].value : i \in at(k)}
  BY DEF Carried
<1>4. k \in {t[i].name : i \in plain} <=> at(k) # {}
  OBVIOUS
<1>5. at(k) \subseteq 0..Len(t)
  BY <1>1
<1> HIDE DEF plain, at
<1>6. CASE at(k) = {}
  BY <1>2, <1>3, <1>4, <1>6 DEF Get
<1>7. CASE at(k) # {}
  <2>1. Max(at(k)) \in at(k)
    BY <1>1, <1>5, <1>7, LargestIs
  <2>2. Get(parse_prom_text(t), k) = t[Max(at(k))].value
    BY <1>2, <1>4, <1>7 DEF Get
  <2> QED
    BY <1>3, <2>1, <2>2
<1> QED
  BY <1>6, <1>7

-----------------------------------------------------------------------------
(* Who says that a job runs.                                               *)

\* The exporter's text of a status document, as it is read back.
LEMMA DispatchRead ==
  ASSUME NEW status, status # None
  PROVE  parse_prom_text(dispatch_metrics(status))["dispatch_active"]
           = IF status.state = "running" THEN 1 ELSE 0
<1> DEFINE b == IF status.state = "running" THEN 1 ELSE 0
           t == gauge("dispatch_active", b, None)
           u == gauge("dispatch_state", 1, status.state)
<1>1. dispatch_metrics(status) = t \o u
  BY DEF dispatch_metrics
<1>2. b # None /\ 1 # None
  BY NoneAssumption
<1>3. IsText(t) /\ Carried(t, "dispatch_active") = {b}
  <2> HIDE DEF b
  <2> QED
    BY <1>2, CarriedGauge
<1>4. IsText(u) /\ Carried(u, "dispatch_active") = {}
  BY CarriedGauge
<1> HIDE DEF t, u
<1>5. IsText(t \o u) /\ Carried(t \o u, "dispatch_active") = {b}
  BY <1>3, <1>4, CarriedConcat
<1>6. Get(parse_prom_text(t \o u), "dispatch_active") = b
  <2> HIDE DEF b
  <2> QED
    BY <1>5, ReadsCarried
<1> QED
  BY <1>1, <1>2, <1>6 DEF Get

LEMMA ViewsStep == ReadStatus => ViewsAgree'
<1> SUFFICES ASSUME ReadStatus PROVE ViewsAgree'
  OBVIOUS
<1>1. PICK ids \in {s \in kSubset(2, JobIds) : Apart(s)}, engine \in {<<1>>, <<2, 1>>} :
        \E id \in ids, state \in {"idle", "queued", "running", "done", "failed"}, named_in \in BOOLEAN :
          /\ input'.status = [state |-> state, job |-> IF named_in THEN [job_id |-> id] ELSE None]
          /\ input'.kind = "status"
  BY DEF ReadStatus
<1>2. PICK id \in ids, state \in {"idle", "queued", "running", "done", "failed"}, named_in \in BOOLEAN :
        /\ input'.status = [state |-> state, job |-> IF named_in THEN [job_id |-> id] ELSE None]
        /\ input'.kind = "status"
  BY <1>1
<1> DEFINE st == input'.status
<1>3. id \in JobIds
  BY DEF kSubset
<1>4. st.state = state /\ st.job = IF named_in THEN [job_id |-> id] ELSE None
  BY <1>2
<1>5. st # None
  BY <1>2, <1>3, DocumentAssumption DEF StatusDoc, JobDoc
<1>6. id # None /\ [job_id |-> id] # None
  BY <1>3, DocumentAssumption DEF JobDoc
<1>7. job_block(st).job_id = IF named_in THEN id ELSE None
  BY <1>4, <1>5, <1>6 DEF job_block
<1>8. job_block(st).state = state /\ (job_block(st).active <=> state \in {"queued", "running"})
  BY <1>4, <1>5 DEF job_block
<1>9. live_throughput(st, input'.files).active <=> state = "running" /\ named_in
  <2>1. CASE state = "running"
    BY <2>1, <1>6, <1>7, <1>8 DEF live_throughput, run_block, ACTIVE_STATES
  <2>2. CASE state # "running"
    BY <2>2, <1>6, <1>7, <1>8 DEF live_throughput, run_block, ACTIVE_STATES
  <2> QED
    BY <2>1, <2>2
<1>10. get_dispatch(st, None, {}).body.state = state
  BY <1>4, <1>5 DEF get_dispatch, Answer
<1>11. parse_prom_text(dispatch_metrics(st))["dispatch_active"] = IF state = "running" THEN 1 ELSE 0
  BY <1>4, <1>5, DispatchRead
<1>12. (st.job # None) <=> named_in
  BY <1>4, <1>6
<1>13. (parse_prom_text(dispatch_metrics(st))["dispatch_active"] = 1) <=> state = "running"
  BY <1>11
<1> QED
  BY <1>8, <1>9, <1>10, <1>12, <1>13 DEF ViewsAgree

\* The steps that find something of another kind say nothing of this one.
LEMMA OtherKinds ==
  ASSUME Next
  PROVE  /\ input'.kind = "gauges" => ReadGauges
         /\ input'.kind = "streams" => SampleStreams
         /\ input'.kind = "counter" => ReadCounter
         /\ input'.kind = "chart" => DrawChart
         /\ input'.kind = "rows" => ReadRows
         /\ input'.kind = "status" => ReadStatus
         /\ input'.kind = "boxes" => ReadBoxes
         /\ input'.kind = "soak" => ReadSoak
         /\ input'.kind = "runs" => RankRuns
         /\ input'.kind = "plan" => PlanDownload
         /\ input'.kind = "tree" => MeasureTree
  BY Kinds DEF Next

\* The exporter, the job block, the throughput block and /api/dispatch say of
\* every document what they should of a job, each in its own terms.
THEOREM ViewsAlwaysAgree == Spec => []ViewsAgree
<1>1. Init => ViewsAgree
  BY DEF Init, Start, ViewsAgree
<1>2. ViewsAgree /\ [Next]_input => ViewsAgree'
  <2>1. ASSUME Next PROVE ViewsAgree'
    <3>1. CASE ReadStatus
      BY <3>1, ViewsStep
    <3>2. CASE input'.kind # "status"
      BY <3>2 DEF ViewsAgree
    <3> QED
      BY <2>1, <3>1, <3>2, OtherKinds
  <2>2. ASSUME ViewsAgree, UNCHANGED input PROVE ViewsAgree'
    BY <2>2 DEF ViewsAgree
  <2> QED
    BY <2>1, <2>2
<1> QED
  BY <1>1, <1>2, PTL DEF Spec

-----------------------------------------------------------------------------
(* What a box's card shows.                                                *)

LEMMA GaugeSeries ==
  ASSUME NEW n \in MACHINE \cup {"load_age", "load_running"}, NEW v \in Nat \cup {None}
  PROVE  gauge(n, v, None) \in Seq(Series)
<1>1. CASE v = None
  BY <1>1 DEF gauge
<1>2. CASE v # None
  <2>1. [name |-> n, label |-> None, value |-> v] \in Series
    BY <1>2 DEF Series
  <2> QED
    BY <1>2, <2>1 DEF gauge
<1> QED
  BY <1>1, <1>2

\* A text of series is a text, and so are two of them together.
LEMMA SeriesJoin ==
  ASSUME NEW t \in Seq(Series), NEW u \in Seq(Series), NEW k
  PROVE  /\ t \o u \in Seq(Series) /\ IsText(t)
         /\ Carried(t \o u, k) = Carried(t, k) \cup Carried(u, k)
<1>1. IsText(t) /\ IsText(u)
  BY DEF IsText
<1> QED
  BY <1>1, CarriedConcat

\* The load run's part of an answer: nothing without a state document, else
\* none of the machine's gauges and whether the run is going on.
LEMMA LoadPart ==
  ASSUME NEW st \in LoadDoc \cup {None}, NEW k
  PROVE  LET load == load_metrics(st, <<>>, 1, 0)
         IN  /\ load \in Seq(Series)
             /\ k \in MACHINE => Carried(load, k) = {}
             /\ Carried(load, "load_running") =
                  IF st = None THEN {} ELSE {IF st.phase = "DONE" THEN 0 ELSE 1}
<1> DEFINE load == load_metrics(st, <<>>, 1, 0)
           says == IF st = None THEN {} ELSE {IF st.phase = "DONE" THEN 0 ELSE 1}
<1>1. CASE st = None
  <2>1. load = <<>>
    BY <1>1 DEF load_metrics
  <2>2. <<>> \in Seq(Series)
    OBVIOUS
  <2>3. \A n : Carried(<<>>, n) = {}
    BY DEF Carried
  <2>4. says = {}
    BY <1>1
  <2> HIDE DEF load, says
  <2>5. load \in Seq(Series) /\ Carried(load, k) = {} /\ Carried(load, "load_running") = says
    BY <2>1, <2>2, <2>3, <2>4
  <2> QED
    BY <2>5 DEF load, says
<1>2. CASE st # None
  <2>1. st \in LoadDoc /\ st.phases = <<>> /\ st.live_agg = None
    BY <1>2 DEF LoadDoc
  <2>2. overlay(st, <<>>, 0) = st
    BY DEF overlay
  <2> DEFINE r == IF st.phase = "DONE" THEN 0 ELSE 1
             a == gauge("load_age", 1, None)
             b == gauge("load_aggregate", None, None)
             c == gauge("load_running", r, None)
             of(p, field) == IF p.result = None THEN None ELSE Get(p.result, field)
             phase(p) == gauge("phase_aggregate", of(p, "aggregate"), p.name)
                         \o gauge("phase_requests", of(p, "requests"), p.name)
                         \o gauge("phase_scaling", of(p, "scaling"), p.name)
             parts == [i \in DOMAIN st.phases |-> phase(st.phases[i])]
  <2>3. load = a \o b \o c \o FlattenSeq(parts)
    <3>1. load = load_gauges(st, 1)
      BY <1>2, <2>2 DEF load_metrics
    <3>2. load_gauges(st, 1) = a \o b \o c \o FlattenSeq(parts)
      <4> DEFINE d == gauge("load_aggregate", st.live_agg, None)
      <4>1. d = b
        BY <2>1
      <4>2. load_gauges(st, 1) = a \o d \o c \o FlattenSeq(parts)
        BY DEF load_gauges
      <4> QED
        BY <4>1, <4>2
    <3> QED
      BY <3>1, <3>2
  <2>4. FlattenSeq(parts) = <<>>
    <3>1. parts = <<>> /\ Len(<<>>) = 0
      <4> HIDE DEF phase
      <4> QED
        BY <2>1
    <3> HIDE DEF parts
    <3> QED
      BY <3>1 DEF FlattenSeq
  <2>5. r \in Nat
    OBVIOUS
  <2>6. b = <<>>
    BY DEF gauge
  <2>7. a \in Seq(Series)
    <3>1. "load_age" \in MACHINE \cup {"load_age", "load_running"}
      OBVIOUS
    <3>2. 1 \in Nat \cup {None}
      OBVIOUS
    <3> QED
      BY <3>1, <3>2, GaugeSeries
  <2>8. c \in Seq(Series)
    <3>1. "load_running" \in MACHINE \cup {"load_age", "load_running"}
      OBVIOUS
    <3>2. r \in Nat \cup {None}
      BY <2>5
    <3> HIDE DEF r
    <3> QED
      BY <3>1, <3>2, GaugeSeries
  <2>9. Carried(a, k) = (IF k = "load_age" THEN {1} ELSE {}) /\ Carried(a, "load_running") = {}
    <3>1. 1 # None
      BY NoneAssumption
    <3> QED
      BY <3>1, CarriedGauge
  <2>10. Carried(c, k) = (IF k = "load_running" THEN {r} ELSE {}) /\ Carried(c, "load_running") = {r}
    <3>1. r # None
      BY <2>5, NoneAssumption
    <3> HIDE DEF r
    <3> QED
      BY <3>1, CarriedGauge
  <2> HIDE DEF a, b, c, load, parts, r
  <2>11. load = a \o c
    BY <2>3, <2>4, <2>6, <2>7, <2>8
  <2>12. load \in Seq(Series)
    BY <2>11, <2>7, <2>8, SeriesJoin
  <2>13. /\ Carried(load, k) = Carried(a, k) \cup Carried(c, k)
         /\ Carried(load, "load_running") = {r}
    <3>1. \A n : Carried(load, n) = Carried(a, n) \cup Carried(c, n)
      BY <2>7, <2>8, <2>11, SeriesJoin
    <3> QED
      BY <2>9, <2>10, <3>1
  <2>14. k \in MACHINE => Carried(load, k) = {}
    BY <2>9, <2>10, <2>13 DEF MACHINE
  <2> QED
    BY <1>2, <2>12, <2>13, <2>14 DEF load, r
<1> QED
  BY <1>1, <1>2

\* The machine's part of an answer: of each gauge its value, if it was sampled.
LEMMA MachinePart ==
  ASSUME NEW gpu \in GpuReading \cup {None}, NEW mem \in Nat \cup {None}, NEW up \in {0, 1}
  PROVE  LET t == machine_metrics(gpu, mem, up)
         IN  /\ t \in Seq(Series)
             /\ Carried(t, "gpu_power") = (IF gpu = None THEN {} ELSE {gpu.power})
             /\ Carried(t, "gpu_util") = (IF gpu = None THEN {} ELSE {gpu.util})
             /\ Carried(t, "gpu_clock") =
                  (IF gpu = None \/ gpu.clock = None THEN {} ELSE {gpu.clock})
             /\ Carried(t, "mem_avail") = (IF mem = None THEN {} ELSE {mem})
             /\ Carried(t, "load_running") = {}
<1> DEFINE of(field) == IF gpu = None THEN None ELSE gpu[field]
           a == gauge("gpu_power", of("power"), None)
           b == gauge("gpu_temp", of("temp"), None)
           c == gauge("gpu_util", of("util"), None)
           d == gauge("gpu_clock", of("clock"), None)
           e == gauge("mem_avail", mem, None)
           f == gauge("serving_up", up, None)
           t == machine_metrics(gpu, mem, up)
<1>1. t = a \o b \o c \o d \o e \o f
  BY DEF machine_metrics
<1>2. gpu # None => gpu.power \in Nat /\ gpu.temp \in Nat /\ gpu.util \in Nat /\ gpu.clock \in Nat \cup {None}
  BY ReportsAssumption DEF GpuReading
<1>3. /\ of("power") \in Nat \cup {None} /\ of("temp") \in Nat \cup {None}
      /\ of("util") \in Nat \cup {None} /\ of("clock") \in Nat \cup {None}
  BY <1>2
<1>4. up \in Nat \cup {None} /\ {"gpu_power", "gpu_temp", "gpu_util", "gpu_clock", "mem_avail", "serving_up"} \subseteq MACHINE
  BY DEF MACHINE
<1> HIDE DEF of
<1>5. /\ a \in Seq(Series) /\ b \in Seq(Series) /\ c \in Seq(Series)
      /\ d \in Seq(Series) /\ e \in Seq(Series) /\ f \in Seq(Series)
  BY <1>3, <1>4, GaugeSeries
<1> DEFINE if(n, k, v) == IF n = k /\ v # None THEN {v} ELSE {}
<1>6. \A k : /\ Carried(a, k) = if("gpu_power", k, of("power"))
             /\ Carried(b, k) = if("gpu_temp", k, of("temp"))
             /\ Carried(c, k) = if("gpu_util", k, of("util"))
             /\ Carried(d, k) = if("gpu_clock", k, of("clock"))
             /\ Carried(e, k) = if("mem_avail", k, mem)
             /\ Carried(f, k) = if("serving_up", k, up)
  BY CarriedGauge
<1> HIDE DEF a, b, c, d, e, f, t
<1>7. /\ t \in Seq(Series)
      /\ \A k : Carried(t, k) = Carried(a, k) \cup Carried(b, k) \cup Carried(c, k)
                                \cup Carried(d, k) \cup Carried(e, k) \cup Carried(f, k)
  <2> DEFINE ab == a \o b
             abc == ab \o c
             abcd == abc \o d
             abcde == abcd \o e
  <2>1. ab \in Seq(Series) /\ \A k : Carried(ab, k) = Carried(a, k) \cup Carried(b, k)
    BY <1>5, SeriesJoin
  <2> HIDE DEF ab
  <2>2. abc \in Seq(Series) /\ \A k : Carried(abc, k) = Carried(ab, k) \cup Carried(c, k)
    BY <1>5, <2>1, SeriesJoin
  <2> HIDE DEF abc
  <2>3. abcd \in Seq(Series) /\ \A k : Carried(abcd, k) = Carried(abc, k) \cup Carried(d, k)
    BY <1>5, <2>2, SeriesJoin
  <2> HIDE DEF abcd
  <2>4. abcde \in Seq(Series) /\ \A k : Carried(abcde, k) = Carried(abcd, k) \cup Carried(e, k)
    BY <1>5, <2>3, SeriesJoin
  <2> HIDE DEF abcde
  <2>5. t = abcde \o f
    BY <1>1 DEF ab, abc, abcd, abcde
  <2>6. t \in Seq(Series) /\ \A k : Carried(t, k) = Carried(abcde, k) \cup Carried(f, k)
    BY <1>5, <2>4, <2>5, SeriesJoin
  <2> QED
    BY <2>1, <2>2, <2>3, <2>4, <2>6
<1>8. of("power") # None <=> gpu # None
  BY <1>2, NoneAssumption DEF of
<1>9. of("util") # None <=> gpu # None
  BY <1>2, NoneAssumption DEF of
<1>10. gpu # None => of("power") = gpu.power /\ of("util") = gpu.util
  BY DEF of
<1>11. Carried(t, "gpu_power") = if("gpu_power", "gpu_power", of("power"))
  BY <1>6, <1>7
<1>12. Carried(t, "gpu_util") = if("gpu_util", "gpu_util", of("util"))
  BY <1>6, <1>7
<1>13. Carried(t, "mem_avail") = if("mem_avail", "mem_avail", mem)
  BY <1>6, <1>7
<1>14. Carried(t, "load_running") = {}
  BY <1>6, <1>7
<1>15. Carried(t, "gpu_clock") = if("gpu_clock", "gpu_clock", of("clock"))
  BY <1>6, <1>7
<1>16. of("clock") = IF gpu = None THEN None ELSE gpu.clock
  BY DEF of
<1>17. Carried(t, "gpu_clock") = IF gpu = None \/ gpu.clock = None THEN {} ELSE {gpu.clock}
  BY <1>15, <1>16
<1> QED
  BY <1>7, <1>8, <1>9, <1>10, <1>11, <1>12, <1>13, <1>14, <1>17 DEF t

\* A box's answer is no document but the text of its gauges and of the load's.
LEMMA BoxStep == ReadBoxes => NoFakeZero'
<1> SUFFICES ASSUME ReadBoxes PROVE NoFakeZero'
  OBVIOUS
<1>1. PICK gpu \in GpuSamples, other \in GpuSamples, mem \in {None} \cup Small,
           load \in {None} \cup Small, up \in {0, 1} :
        LET st == IF load = None THEN None
                  ELSE [phase |-> IF load = 0 THEN "DONE" ELSE "c1", phases |-> <<>>,
                        live_agg |-> None]
            head == collect(gpu, mem, up, load_metrics(st, <<>>, 1, 0), <<>>)
        IN  input' = [kind    |-> "boxes", gpu |-> gpu, mem |-> mem, up |-> up, load |-> load,
                      answers |-> << head, collect(other, mem, up, <<>>, <<>>) >>]
  BY DEF ReadBoxes
<1> DEFINE st == IF load = None THEN None
                 ELSE [phase |-> IF load = 0 THEN "DONE" ELSE "c1", phases |-> <<>>,
                       live_agg |-> None]
           machine == machine_metrics(gpu, mem, up)
           soak == load_metrics(st, <<>>, 1, 0)
           head == collect(gpu, mem, up, soak, <<>>)
           clear == gpu = None \/ gpu.clock # None
           second == collect(other, mem, up, <<>>, <<>>)
<1>2. st \in LoadDoc \cup {None}
  BY DEF LoadDoc
<1>3. st = None <=> load = None
  BY DocumentAssumption DEF LoadDoc
<1>4. load # None => st.phase = IF load = 0 THEN "DONE" ELSE "c1"
  OBVIOUS
<1>5. /\ input'.gpu = gpu /\ input'.mem = mem /\ input'.load = load
      /\ input'.answers = <<head, second>>
  BY <1>1
<1> HIDE DEF st
<1>6. /\ soak \in Seq(Series)
      /\ \A k \in MACHINE : Carried(soak, k) = {}
      /\ Carried(soak, "load_running") =
           IF st = None THEN {} ELSE {IF st.phase = "DONE" THEN 0 ELSE 1}
  BY <1>2, LoadPart
<1>7. gpu \in GpuReading \cup {None} /\ mem \in Nat \cup {None} /\ up \in {0, 1}
  BY ReportsAssumption DEF GpuSamples
<1>8. /\ machine \in Seq(Series)
      /\ Carried(machine, "gpu_power") = (IF gpu = None THEN {} ELSE {gpu.power})
      /\ Carried(machine, "gpu_util") = (IF gpu = None THEN {} ELSE {gpu.util})
      /\ Carried(machine, "gpu_clock") =
           (IF gpu = None \/ gpu.clock = None THEN {} ELSE {gpu.clock})
      /\ Carried(machine, "mem_avail") = (IF mem = None THEN {} ELSE {mem})
      /\ Carried(machine, "load_running") = {}
  <2> DEFINE Says(g, m, t) ==
               /\ t \in Seq(Series)
               /\ Carried(t, "gpu_power") = (IF g = None THEN {} ELSE {g.power})
               /\ Carried(t, "gpu_util") = (IF g = None THEN {} ELSE {g.util})
               /\ Carried(t, "gpu_clock") = (IF g = None \/ g.clock = None THEN {} ELSE {g.clock})
               /\ Carried(t, "mem_avail") = (IF m = None THEN {} ELSE {m})
               /\ Carried(t, "load_running") = {}
  <2>1. \A g \in GpuReading \cup {None}, m \in Nat \cup {None}, u \in {0, 1} :
          Says(g, m, machine_metrics(g, m, u))
    BY MachinePart
  <2> HIDE DEF Says
  <2>2. Says(gpu, mem, machine)
    BY <1>7, <2>1
  <2> QED
    BY <2>2 DEF Says
<1>9. input'.answers[1] = head /\ DOMAIN input'.answers = {1, 2}
  BY <1>5
<1> HIDE DEF soak, machine, second
<1>10. CASE ~clear
  <2>1. gpu # None /\ gpu.clock = None
    BY <1>10
  <2>2. head = None
    BY <2>1 DEF collect
  <2>3. box_block(input'.answers)[1] = [ok |-> FALSE, items |-> [k \in MACHINE |-> None]]
    BY <1>9, <2>2 DEF box_block
  <2>4. ~soak_running(input'.answers[1])
    BY <1>9, <2>2 DEF soak_running, Positive
  <2>5. ~box_block(input'.answers)[1].ok
        /\ \A key \in MACHINE : box_block(input'.answers)[1].items[key] = None
    BY <2>3
  <2> QED
    BY <1>5, <2>1, <2>4, <2>5 DEF NoFakeZero
<1>11. CASE clear
  <2>1. head = machine \o soak \o <<>>
    BY <1>11 DEF collect, machine, soak
  <2>2. head = machine \o soak
    BY <1>6, <1>8, <2>1
  <2>3. /\ head \in Seq(Series) /\ IsText(head)
        /\ \A k : Carried(head, k) = Carried(machine, k) \cup Carried(soak, k)
    <3>1. machine \in Seq(Series) /\ soak \in Seq(Series)
      BY <1>6, <1>8
    <3> HIDE DEF head
    <3>2. head \in Seq(Series) /\ \A k : Carried(head, k) = Carried(machine, k) \cup Carried(soak, k)
      BY <2>2, <3>1, SeriesJoin
    <3> QED
      BY <3>2 DEF IsText
  <2>4. head # None
    BY <2>3, DocumentAssumption
  <2>6. /\ Carried(head, "gpu_power") = (IF gpu = None THEN {} ELSE {gpu.power})
        /\ Carried(head, "gpu_util") = (IF gpu = None THEN {} ELSE {gpu.util})
        /\ Carried(head, "gpu_clock") =
             (IF gpu = None \/ gpu.clock = None THEN {} ELSE {gpu.clock})
        /\ Carried(head, "mem_avail") = (IF mem = None THEN {} ELSE {mem})
        /\ Carried(head, "load_running") =
             IF st = None THEN {} ELSE {IF st.phase = "DONE" THEN 0 ELSE 1}
    BY <1>6, <1>8, <2>3 DEF MACHINE
  <2> HIDE DEF head
  <2> DEFINE shown(k) == Get(parse_prom_text(head), k)
  <2>7. \A k : IF Carried(head, k) = {} THEN shown(k) = None ELSE shown(k) \in Carried(head, k)
    BY <2>3, ReadsCarried
  <2> HIDE DEF shown
  <2>8. /\ shown("gpu_power") = (IF gpu = None THEN None ELSE gpu.power)
        /\ shown("gpu_util") = (IF gpu = None THEN None ELSE gpu.util)
        /\ shown("gpu_clock") = (IF gpu = None THEN None ELSE gpu.clock)
        /\ shown("mem_avail") = mem
        /\ shown("load_running") =
             IF st = None THEN None ELSE IF st.phase = "DONE" THEN 0 ELSE 1
    BY <2>6, <2>7
  <2>9. box_block(input'.answers)[1] = [ok |-> TRUE, items |-> [k \in MACHINE |-> shown(k)]]
    BY <1>9, <2>4 DEF box_block, items, shown
  <2>10. soak_running(input'.answers[1]) <=> shown("load_running") # None /\ shown("load_running") > 0
    BY <1>9, <2>4 DEF soak_running, Positive, shown
  <2>11. soak_running(input'.answers[1]) <=> load \notin {None, 0}
    <3>1. 0 # None /\ 1 # None
      BY NoneAssumption
    <3> QED
      BY <1>3, <1>4, <2>8, <2>10, <3>1
  <2> DEFINE box == box_block(input'.answers)[1]
  <2>12. /\ box.ok
         /\ box.items.gpu_power = shown("gpu_power")
         /\ box.items.gpu_util = shown("gpu_util")
         /\ box.items.gpu_clock = shown("gpu_clock")
         /\ box.items.mem_avail = shown("mem_avail")
    BY <2>9 DEF MACHINE
  <2> HIDE DEF box
  <2>13. /\ box.items.gpu_power = (IF gpu = None THEN None ELSE gpu["power"])
         /\ box.items.gpu_util = (IF gpu = None THEN None ELSE gpu["util"])
         /\ box.items.gpu_clock = (IF gpu = None THEN None ELSE gpu["clock"])
         /\ box.items.mem_avail = mem
    BY <2>8, <2>12
  <2> QED
    BY <1>5, <2>11, <2>12, <2>13 DEF NoFakeZero, box
<1> QED
  BY <1>10, <1>11

\* What could not be sampled is a dash, on every box and whatever is sampled.
THEOREM NeverAFakeZero == Spec => []NoFakeZero
<1>1. Init => NoFakeZero
  BY DEF Init, Start, NoFakeZero
<1>2. NoFakeZero /\ [Next]_input => NoFakeZero'
  <2>1. ASSUME Next PROVE NoFakeZero'
    <3>1. CASE ReadBoxes
      BY <3>1, BoxStep
    <3>2. CASE input'.kind # "boxes"
      BY <3>2 DEF NoFakeZero
    <3> QED
      BY <2>1, <3>1, <3>2, OtherKinds
  <2>2. ASSUME NoFakeZero, UNCHANGED input PROVE NoFakeZero'
    BY <2>2 DEF NoFakeZero
  <2> QED
    BY <2>1, <2>2
<1> QED
  BY <1>1, <1>2, PTL DEF Spec

-----------------------------------------------------------------------------
(* How much of a download has landed.                                      *)

\* Rounding a number of units is off by half a unit at most.
LEMMA RoundOff ==
  ASSUME NEW n \in Nat, NEW u \in Nat \ {0}
  PROVE  /\ Round(n, u) \in Nat
         /\ 2 * (Round(n, u) * u - n) <= u /\ 2 * (n - Round(n, u) * u) <= u
<1> DEFINE q == n \div u
           r == n % u
<1>1. q \in Nat /\ r \in 0..(u - 1) /\ n = q * u + r
  OBVIOUS
<1>2. Round(n, u) = IF 2 * r < u \/ (2 * r = u /\ q % 2 = 0) THEN q ELSE q + 1
  BY DEF Round
<1> HIDE DEF q, r
<1>3. CASE Round(n, u) = q /\ 2 * r <= u
  <2>1. Round(n, u) * u - n = 0 - r
    BY <1>1, <1>3
  <2> QED
    BY <1>1, <1>3, <2>1
<1>4. CASE Round(n, u) = q + 1 /\ 2 * r >= u
  <2>1. (q + 1) * u = q * u + u /\ q * u \in Nat
    BY <1>1
  <2>2. Round(n, u) * u - n = u - r
    BY <1>1, <1>4, <2>1
  <2> QED
    BY <1>1, <1>4, <2>2
<1> QED
  BY <1>1, <1>2, <1>3, <1>4

\* Two roundings after each other: gb is landed in tenths of a GB, percent is
\* gb in percents of e hundredths of one.
LEMMA TwoRoundings ==
  ASSUME NEW landed \in Nat, NEW U \in Nat \ {0}, NEW e \in Nat \ {0},
         NEW gb \in Nat, NEW percent \in Nat,
         2 * (gb * (10 * U) - landed) <= 10 * U, 2 * (landed - gb * (10 * U)) <= 10 * U,
         2 * (percent * e - 1000 * gb) <= e, 2 * (1000 * gb - percent * e) <= e
  PROVE  LET apart  == percent * (U * e) - 100 * landed
             within == U * e + 1000 * U
         IN  2 * apart <= within /\ -within <= 2 * apart
<1>1. PICK g \in Nat : g = gb * U
  <2>1. gb * U \in Nat
    OBVIOUS
  <2> QED
    BY <2>1
<1>2. PICK y \in Nat : y = percent * e
  <2>1. percent * e \in Nat
    OBVIOUS
  <2> QED
    BY <2>1
<1>3. PICK z \in Nat : z = y * U
  <2>1. y * U \in Nat
    OBVIOUS
  <2> QED
    BY <2>1
<1>4. PICK w \in Nat : w = U * e
  <2>1. U * e \in Nat
    OBVIOUS
  <2> QED
    BY <2>1
<1>5. gb * (10 * U) = 10 * g
  BY <1>1
<1>6. percent * (U * e) = z
  BY <1>2, <1>3
<1>7. 2 * (10 * g - landed) <= 10 * U /\ 2 * (landed - 10 * g) <= 10 * U
  BY <1>5
<1>8. ASSUME NEW a \in Int, NEW b \in Int, a <= b PROVE a * U <= b * U
  <2>1. PICK d \in Nat : b = a + d
    <3>1. b - a \in Nat /\ b = a + (b - a)
      BY <1>8
    <3> QED
      BY <3>1
  <2>2. b * U = a * U + d * U /\ d * U >= 0 /\ a * U \in Int
    BY <2>1
  <2> QED
    BY <2>2
<1>9. 2 * (z - 1000 * g) <= w
  <2>1. (2 * (y - 1000 * gb)) * U <= e * U
    BY <1>2, <1>8
  <2>2. (2 * (y - 1000 * gb)) * U = 2 * (y * U - 1000 * (gb * U)) /\ e * U = U * e
    OBVIOUS
  <2> QED
    BY <1>1, <1>3, <1>4, <2>1, <2>2
<1>10. 2 * (1000 * g - z) <= w
  <2>1. (2 * (1000 * gb - y)) * U <= e * U
    BY <1>2, <1>8
  <2>2. (2 * (1000 * gb - y)) * U = 2 * (1000 * (gb * U) - y * U) /\ e * U = U * e
    OBVIOUS
  <2> QED
    BY <1>1, <1>3, <1>4, <2>1, <2>2
<1>11. 2 * (z - 100 * landed) <= w + 1000 * U /\ -(w + 1000 * U) <= 2 * (z - 100 * landed)
  BY <1>7, <1>9, <1>10
<1> QED
  BY <1>4, <1>6, <1>11

LEMMA TreeStep == MeasureTree => PercentOfTheBytes'
<1> SUFFICES ASSUME MeasureTree PROVE PercentOfTheBytes'
  OBVIOUS
<1>1. PICK size \in [{"p", "q"} -> BlobSizes], links \in SUBSET {"p", "q", None},
           expected \in HubSizes \cup {None} :
        input' = [kind |-> "tree", size |-> size, expected |-> expected,
                  tree |-> {[path |-> <<"snapshot">>, blob |-> None]}
                           \cup {[path |-> <<"blobs", b>>, blob |-> b] : b \in DOMAIN size}
                           \cup {[path |-> <<"snapshot", b>>, blob |-> b] : b \in links}]
  BY DEF MeasureTree
<1> DEFINE tree == input'.tree
           landed == size["p"] + size["q"]
<1>2. input'.size = size /\ input'.expected = expected
  BY <1>1
<1>3. {e.blob : e \in tree} \ {None} = {"p", "q"}
  <2>1. tree = {[path |-> <<"snapshot">>, blob |-> None]}
               \cup {[path |-> <<"blobs", b>>, blob |-> b] : b \in {"p", "q"}}
               \cup {[path |-> <<"snapshot", b>>, blob |-> b] : b \in links}
    BY <1>1
  <2>2. ASSUME NEW e \in tree PROVE e.blob \in {"p", "q", None}
    <3>1. \/ e = [path |-> <<"snapshot">>, blob |-> None]
          \/ \E b \in {"p", "q"} : e = [path |-> <<"blobs", b>>, blob |-> b]
          \/ \E b \in links : e = [path |-> <<"snapshot", b>>, blob |-> b]
      BY <2>1, <2>2
    <3> QED
      BY <3>1
  <2>3. ASSUME NEW b \in {"p", "q"} PROVE \E e \in tree : e.blob = b
    <3>1. [path |-> <<"blobs", b>>, blob |-> b] \in tree
      BY <2>1
    <3>2. [path |-> <<"blobs", b>>, blob |-> b].blob = b
      OBVIOUS
    <3> QED
      BY <3>1, <3>2
  <2>4. None \notin {"p", "q"}
    BY NameAssumption
  <2> HIDE DEF tree
  <2> QED
    BY <2>2, <2>3, <2>4
<1>4. /\ Unit \in Nat \ {0} /\ 10 * Unit \in Nat \ {0}
      /\ BlobSizes \subseteq Nat /\ expected \in Nat \cup {None}
  BY ReportsAssumption
<1>5. /\ Get(size, "p") = size["p"] /\ Get(size, "q") = size["q"]
      /\ size["p"] \in Nat /\ size["q"] \in Nat
  BY <1>4 DEF Get
<1>6. landed \in Nat
  BY <1>4, <1>5
<1>7. SumFunction([b \in {"p", "q"} |-> Get(size, b)]) = landed
  <2>1. PICK f : f = [b \in {"p", "q"} |-> Get(size, b)]
    OBVIOUS
  <2>2. f["p"] = size["p"] /\ f["q"] = size["q"] /\ DOMAIN f = {"p", "q"} /\ "p" # "q"
    BY <1>5, <2>1
  <2>3. f["p"] \in Int /\ f["q"] \in Int
    BY <1>4, <1>5, <2>2
  <2>4. SumFunctionOnSet(f, {"p", "q"}) = f["p"] + f["q"]
    BY <2>2, <2>3, SumTwo
  <2> QED
    BY <2>1, <2>2, <2>4 DEF SumFunction
<1> DEFINE gb == Round(landed, 10 * Unit)
<1>8. gb \in Nat /\ 2 * (gb * (10 * Unit) - landed) <= 10 * Unit
                /\ 2 * (landed - gb * (10 * Unit)) <= 10 * Unit
  <2> HIDE DEF landed
  <2> QED
    BY <1>4, <1>6, RoundOff
<1>9. dir_gb(tree, size) = IF gb = 0 THEN None ELSE gb
  <2> HIDE DEF tree
  <2>1. dir_gb(tree, size) = LET total == SumFunction([b \in {e.blob : e \in tree} \ {None} |-> Get(size, b)])
                             IN  IF Round(total, 10 * Unit) = 0 THEN None ELSE Round(total, 10 * Unit)
    BY DEF dir_gb
  <2> QED
    BY <1>3, <1>7, <2>1
<1> DEFINE percent == download_progress(tree, size, expected)
           whole == Unit * expected
           apart == percent * whole - 100 * landed
           within == whole + 1000 * Unit
<1>10. input'.kind = "tree" /\ tree = input'.tree /\ landed = input'.size["p"] + input'.size["q"]
  BY <1>1, <1>2
<1> HIDE DEF tree, landed, gb
<1>11. CASE expected \in {None, 0}
  <2>1. percent = None
    BY <1>11 DEF download_progress
  <2> QED
    BY <1>2, <1>10, <1>11, <2>1 DEF PercentOfTheBytes
<1>12. CASE expected \notin {None, 0} /\ gb = 0
  <2>1. percent = None
    BY <1>9, <1>12 DEF download_progress
  <2>2. landed <= 5 * Unit
    BY <1>4, <1>6, <1>8, <1>12
  <2> QED
    BY <1>2, <1>10, <2>1, <2>2 DEF PercentOfTheBytes
<1>13. CASE expected \notin {None, 0} /\ gb # 0
  <2>1. percent = Round(1000 * gb, expected)
    <3>1. gb # None
      BY <1>8, NoneAssumption
    <3> QED
      BY <1>9, <1>13, <3>1 DEF download_progress
  <2>2. expected \in Nat \ {0} /\ 1000 * gb \in Nat
    BY <1>4, <1>8, <1>13
  <2>3. /\ percent \in Nat
        /\ 2 * (percent * expected - 1000 * gb) <= expected
        /\ 2 * (1000 * gb - percent * expected) <= expected
    <3> HIDE DEF percent
    <3> QED
      BY <2>1, <2>2, RoundOff
  <2>4. percent # None
    BY <2>3, NoneAssumption
  <2>5. landed >= 5 * Unit
    <3>1. PICK d \in Nat : gb = d + 1
      <4>1. gb - 1 \in Nat /\ gb = (gb - 1) + 1
        BY <1>8, <1>13
      <4> QED
        BY <4>1
    <3>2. gb * (10 * Unit) = d * (10 * Unit) + 10 * Unit /\ d * (10 * Unit) >= 0
      BY <1>4, <3>1
    <3> QED
      BY <1>4, <1>6, <1>8, <3>2
  <2>6. 2 * apart <= within /\ -within <= 2 * apart
    <3> HIDE DEF percent
    <3> QED
      BY <1>4, <1>6, <1>8, <2>2, <2>3, TwoRoundings
  <2> QED
    BY <1>2, <1>10, <1>13, <2>4, <2>5, <2>6 DEF PercentOfTheBytes
<1> QED
  BY <1>11, <1>12, <1>13

\* The progress of a download is the share of its bytes to within the two
\* roundings, whatever the bytes of a hundredth of a GB, the sizes of the blobs
\* and the hub's size are.
THEOREM PercentAlwaysOfTheBytes == Spec => []PercentOfTheBytes
<1>1. Init => PercentOfTheBytes
  BY DEF Init, Start, PercentOfTheBytes
<1>2. PercentOfTheBytes /\ [Next]_input => PercentOfTheBytes'
  <2>1. ASSUME Next PROVE PercentOfTheBytes'
    <3>1. CASE MeasureTree
      BY <3>1, TreeStep
    <3>2. CASE input'.kind # "tree"
      BY <3>2 DEF PercentOfTheBytes
    <3> QED
      BY <2>1, <3>1, <3>2, OtherKinds
  <2>2. ASSUME PercentOfTheBytes, UNCHANGED input PROVE PercentOfTheBytes'
    BY <2>2 DEF PercentOfTheBytes
  <2> QED
    BY <2>1, <2>2
<1> QED
  BY <1>1, <1>2, PTL DEF Spec

-----------------------------------------------------------------------------
(* What an engine's card shows.                                            *)

\* The lines with a number that count towards a name.
Hits(lines, k) == {i \in DOMAIN lines : lines[i].value # None /\ k \in line_keys(lines[i])}

\* The numbers of an exposition's lines.
Values(lines) == [i \in {i \in DOMAIN lines : lines[i].value # None} |-> lines[i].value]

\* A name is looked up as the sum of the lines that count towards it, and is
\* None when there are none.
LEMMA LookedUp ==
  ASSUME NEW lines, NEW k
  PROVE  /\ Hits(lines, k) = {} => Get(parse_engine(lines), k) = None
         /\ Hits(lines, k) # {} =>
              Get(parse_engine(lines), k) = SumFunctionOnSet(Values(lines), Hits(lines, k))
         /\ k \in DOMAIN parse_engine(lines) <=> Hits(lines, k) # {}
<1> DEFINE ok == {i \in DOMAIN lines : lines[i].value # None}
           U == UNION {line_keys(lines[i]) : i \in ok}
<1>1. parse_engine(lines) = [n \in U |-> SumFunctionOnSet([i \in ok |-> lines[i].value],
                                                       {i \in ok : n \in line_keys(lines[i])})]
  BY DEF parse_engine
<1>2. {i \in ok : k \in line_keys(lines[i])} = Hits(lines, k)
  BY DEF Hits
<1>3. k \in U <=> Hits(lines, k) # {}
  BY DEF Hits
<1>4. DOMAIN parse_engine(lines) = U
  BY <1>1
<1>5. k \in U => parse_engine(lines)[k] = SumFunctionOnSet([i \in ok |-> lines[i].value],
                                                        {i \in ok : k \in line_keys(lines[i])})
  BY <1>1, Zenon
<1>6. [i \in ok |-> lines[i].value] = Values(lines)
  BY DEF Values
<1> HIDE DEF U, ok
<1>7. k \in U => parse_engine(lines)[k] = SumFunctionOnSet(Values(lines), Hits(lines, k))
  BY <1>2, <1>5, <1>6, Zenon
<1> QED
  BY <1>3, <1>4, <1>7 DEF Get

\* The spelling of the card's names by an engine that has its own, and by the
\* others.
LEMMA Spelling ==
  /\ metric_name(GAUGE_ITEMS.running, "tensorfold") = <<"tensorfold", "requests_running">>
  /\ metric_name(GAUGE_ITEMS.decoding, "tensorfold") = <<"tensorfold", "streams", "decoding">>
  /\ metric_name(GAUGE_ITEMS.filling, "tensorfold") = <<"tensorfold", "streams", "filling">>
  /\ metric_name(GAUGE_ITEMS.streams_max, "tensorfold") = <<"tensorfold", "streams_max">>
  /\ \A name : metric_name(name, "vllm") = name /\ metric_name(name, None) = name
<1> DEFINE r == GAUGE_ITEMS.running
           x == GAUGE_ITEMS.streams_max
           d == GAUGE_ITEMS.decoding
           p == GAUGE_ITEMS.filling
           w == GAUGE_ITEMS.waiting
           k == GAUGE_ITEMS.kv_pct
           D == {GAUGE_ITEMS[key] : key \in DOMAIN GAUGE_ITEMS} \cup {Gen, Cnt, Dec}
           bare == FAMILY_ALIASES_bare
<1>1. \A name : metric_name(name, "vllm") = name /\ metric_name(name, None) = name
  BY NameAssumption DEF metric_name
<1>2. r # x /\ r # d /\ r # p /\ x # d /\ x # p /\ d # p
  BY DEF GAUGE_ITEMS
<1>3. r \in D /\ x \in D /\ d \in D /\ p \in D
  BY DEF GAUGE_ITEMS
<1>4. /\ DOMAIN bare = D
      /\ \A n \in D :
           /\ n = r => bare[n] = <<"tensorfold", "requests_running">>
           /\ n = x => bare[n] = <<"tensorfold", "streams_max">>
           /\ n = p => bare[n] = <<"tensorfold", "streams", "filling">>
  <2>1. bare = [n \in D |->
                  CASE n = r -> <<"tensorfold", "requests_running">>
                    [] n = x -> <<"tensorfold", "streams_max">>
                    [] n = d -> <<"tensorfold", "streams">>
                    [] n = p -> <<"tensorfold", "streams", "filling">>
                    [] n = w -> <<"tensorfold", "requests_waiting">>
                    [] n = k -> <<"tensorfold", "kv_cache_usage_ratio">>
                    [] n = Gen -> <<"tensorfold", "generation_tokens_total">>
                    [] n = Cnt -> <<"tensorfold", "requests_total">>
                    [] n = Dec -> <<"tensorfold", "decode_seconds_total">>]
    BY DEF FAMILY_ALIASES_bare
  <2>2. \A n \in {r, x, p} : n \notin {w, k, Gen, Cnt, Dec}
    BY DEF GAUGE_ITEMS, Gen, Cnt, Dec
  <2> HIDE DEF r, x, d, p, w, k, bare, D
  <2> QED
    BY <1>2, <2>1, <2>2
<1> HIDE DEF D
<1>5. /\ DOMAIN FAMILY_ALIASES = D
      /\ FAMILY_ALIASES[r] = bare[r] /\ FAMILY_ALIASES[x] = bare[x] /\ FAMILY_ALIASES[p] = bare[p]
      /\ FAMILY_ALIASES[d] = <<"tensorfold", "streams", "decoding">>
  <2> HIDE DEF bare, r, x, d, p
  <2> QED
    BY <1>2, <1>3, <1>4 DEF FAMILY_ALIASES, bare, d
<1>6. \A n \in D : metric_name(n, "tensorfold") = FAMILY_ALIASES[n]
  BY <1>5 DEF metric_name
<1> HIDE DEF r, x, d, p, bare
<1>7. /\ metric_name(r, "tensorfold") = <<"tensorfold", "requests_running">>
      /\ metric_name(x, "tensorfold") = <<"tensorfold", "streams_max">>
      /\ metric_name(p, "tensorfold") = <<"tensorfold", "streams", "filling">>
      /\ metric_name(d, "tensorfold") = <<"tensorfold", "streams", "decoding">>
  BY <1>3, <1>4, <1>5, <1>6
<1> QED
  BY <1>1, <1>7 DEF r, x, d, p

\* One text after another.
LEMMA Joined ==
  ASSUME NEW S, NEW t \in Seq(S), NEW u \in Seq(S)
  PROVE  /\ DOMAIN (t \o u) = 1..(Len(t) + Len(u))
         /\ \A i \in 1..Len(t) : (t \o u)[i] = t[i]
         /\ \A i \in 1..Len(u) : (t \o u)[Len(t) + i] = u[i]
<1>1. /\ DOMAIN (t \o u) = 1..(Len(t) + Len(u)) /\ Len(t) \in Nat /\ Len(u) \in Nat
      /\ \A i \in 1..(Len(t) + Len(u)) :
           (t \o u)[i] = IF i <= Len(t) THEN t[i] ELSE u[i - Len(t)]
  OBVIOUS
<1> DEFINE m == Len(t)
           n == Len(u)
           w == t \o u
<1>2. /\ DOMAIN w = 1..(m + n) /\ m \in Nat /\ n \in Nat
      /\ \A i \in 1..(m + n) : w[i] = IF i <= m THEN t[i] ELSE u[i - m]
  BY <1>1
<1> HIDE DEF m, n, w
<1>3. ASSUME NEW i \in 1..n PROVE w[m + i] = u[i]
  <2>1. m + i \in 1..(m + n) /\ ~(m + i <= m) /\ (m + i) - m = i
    BY <1>2
  <2> QED
    BY <1>2, <2>1
<1>4. \A i \in 1..m : w[i] = t[i]
  BY <1>2
<1> QED
  BY <1>2, <1>3, <1>4 DEF m, n, w

\* A sequence one longer than another, and what it adds.
LEMMA Longer ==
  ASSUME NEW S, NEW s \in Seq(S), NEW t \in Seq(S), NEW l \in S,
         Len(t) = Len(s) + 1, t[Len(t)] = l, \A i \in 1..Len(s) : t[i] = s[i]
  PROVE  Append(s, l) = t
<1>1. /\ Append(s, l) \in Seq(S) /\ Len(Append(s, l)) = Len(s) + 1 /\ Append(s, l)[Len(s) + 1] = l
      /\ \A i \in 1..Len(s) : Append(s, l)[i] = s[i]
  BY AppendProperties
<1>2. \A i \in 1..Len(Append(s, l)) : Append(s, l)[i] = t[i]
  BY <1>1
<1> QED
  BY <1>1, <1>2, SeqEqual

LEMMA Appended ==
  ASSUME NEW x, NEW y, NEW l
  PROVE  Append(<<x, y>>, l) = <<x, y, l>>
<1> DEFINE S == {x, y, l}
<1>1. <<x, y>> \in Seq(S) /\ <<x, y, l>> \in Seq(S) /\ l \in S
  OBVIOUS
<1>2. Len(<<x, y, l>>) = Len(<<x, y>>) + 1 /\ <<x, y, l>>[Len(<<x, y, l>>)] = l
  OBVIOUS
<1>3. \A i \in 1..Len(<<x, y>>) : <<x, y, l>>[i] = <<x, y>>[i]
  OBVIOUS
<1> DEFINE s == <<x, y>>
           t == <<x, y, l>>
<1>4. /\ s \in Seq(S) /\ t \in Seq(S) /\ l \in S
      /\ Len(t) = Len(s) + 1 /\ t[Len(t)] = l /\ \A i \in 1..Len(s) : t[i] = s[i]
  BY <1>1, <1>2, <1>3
<1> HIDE DEF S, s, t
<1>5. Append(s, l) = t
  BY <1>4, Longer
<1> QED
  BY <1>5 DEF s, t

\* The card of an engine that names its streams.
LEMMA OwnCard ==
  ASSUME NEW d \in Nat, NEW f \in Nat, NEW idle \in Nat, NEW noise \in BOOLEAN
  PROVE  LET g == gauges(Exposition("tensorfold", d, f, idle, noise))
         IN  /\ g.running = d + f /\ g.decoding = d /\ g.filling = f
             /\ g.streams_max = d + f + idle
<1> DEFINE lines == Exposition("tensorfold", d, f, idle, noise)
           m == IF noise THEN 1 ELSE 0
           bad == IF noise THEN <<Line(<<"tensorfold", "x">>, "decoding", None)>> ELSE <<>>
           good == << Line(<<"tensorfold", "streams">>, "filling", f),
                      Line(<<"tensorfold", "streams">>, "idle", idle),
                      Line(<<"tensorfold", "streams">>, "decoding", d),
                      Line(<<"tensorfold", "requests_running">>, None, d + f),
                      Line(<<"tensorfold", "streams_max">>, None, d + f + idle) >>
<1>1. lines = bad \o good
  BY DEF Exposition
<1>2. m \in {0, 1} /\ Len(bad) = m /\ Len(good) = 5 /\ (m = 1 => bad[1].value = None)
  BY DEF Line
<1>3. /\ DOMAIN lines = 1..(m + 5)
      /\ \A i \in 1..5 : lines[m + i] = good[i]
      /\ m = 1 => lines[1].value = None
  <2> DEFINE L == {bad[1]} \cup {good[i] : i \in 1..5}
  <2>1. bad \in Seq(L)
    OBVIOUS
  <2>2. good \in Seq(L)
    OBVIOUS
  <2> HIDE DEF bad, good, m, lines, L
  <2>3. /\ DOMAIN lines = 1..(Len(bad) + Len(good))
        /\ \A i \in 1..Len(bad) : lines[i] = bad[i]
        /\ \A i \in 1..Len(good) : lines[Len(bad) + i] = good[i]
    BY <1>1, <2>1, <2>2, Joined
  <2> QED
    BY <1>2, <2>3
<1>4. /\ good[1].name = <<"tensorfold", "streams">> /\ good[1].label = "filling" /\ good[1].value = f
      /\ good[2].name = <<"tensorfold", "streams">> /\ good[2].label = "idle" /\ good[2].value = idle
      /\ good[3].name = <<"tensorfold", "streams">> /\ good[3].label = "decoding" /\ good[3].value = d
      /\ good[4].name = <<"tensorfold", "requests_running">> /\ good[4].label = None
      /\ good[4].value = d + f
      /\ good[5].name = <<"tensorfold", "streams_max">> /\ good[5].label = None
      /\ good[5].value = d + f + idle
  BY DEF Line
<1> HIDE DEF lines, bad, good, m
<1>5. /\ line_keys(good[1]) = {<<"tensorfold", "streams">>, <<"tensorfold", "streams", "filling">>}
      /\ line_keys(good[2]) = {<<"tensorfold", "streams">>, <<"tensorfold", "streams", "idle">>}
      /\ line_keys(good[3]) = {<<"tensorfold", "streams">>, <<"tensorfold", "streams", "decoding">>}
      /\ line_keys(good[4]) = {<<"tensorfold", "requests_running">>}
      /\ line_keys(good[5]) = {<<"tensorfold", "streams_max">>}
  <2>1. "filling" # None /\ "idle" # None /\ "decoding" # None
    BY NameAssumption
  <2>2. \A l : Append(<<"tensorfold", "streams">>, l) = <<"tensorfold", "streams", l>>
    BY Appended
  <2> QED
    BY <1>4, <2>1, <2>2 DEF line_keys
<1>6. \A i \in 1..5 : good[i].value \in Nat /\ good[i].value # None
  <2>1. \A i \in 1..5 : good[i].value \in Nat
    BY <1>4
  <2> QED
    BY <2>1, NoneAssumption
<1>7. ASSUME NEW k PROVE Hits(lines, k) = {m + i : i \in {j \in 1..5 : k \in line_keys(good[j])}}
  <2>1. \A i \in DOMAIN lines : lines[i].value # None <=> \E j \in 1..5 : i = m + j
    <3>1. ASSUME NEW i \in DOMAIN lines, i > m PROVE \E j \in 1..5 : i = m + j
      <4>1. i - m \in 1..5 /\ i = m + (i - m)
        BY <1>2, <1>3, <3>1
      <4> QED
        BY <4>1
    <3>2. ASSUME NEW i \in DOMAIN lines, ~(i > m) PROVE lines[i].value = None /\ ~\E j \in 1..5 : i = m + j
      BY <1>2, <1>3, <3>2
    <3> QED
      BY <1>3, <1>6, <3>1, <3>2
  <2>2. \A j \in 1..5 : m + j \in DOMAIN lines
    BY <1>2, <1>3
  <2> QED
    BY <1>3, <2>1, <2>2 DEF Hits
<1>8. ASSUME NEW k, NEW j \in 1..5, \A i \in 1..5 : k \in line_keys(good[i]) <=> i = j
      PROVE  Get(parse_engine(lines), k) = good[j].value
  <2>1. Hits(lines, k) = {m + j}
    BY <1>7, <1>8
  <2>2. lines[m + j].value \in Nat /\ lines[m + j].value = good[j].value
    BY <1>3, <1>6
  <2>3. SumFunctionOnSet(Values(lines), {m + j}) = lines[m + j].value
    <3>1. m + j \in DOMAIN lines /\ lines[m + j].value # None
      BY <1>2, <1>3, <1>6, <2>2
    <3>2. Values(lines)[m + j] = lines[m + j].value
      BY <3>1 DEF Values
    <3>3. Values(lines)[m + j] \in Int
      BY <2>2, <3>2
    <3> QED
      BY <3>2, <3>3, SumOne
  <2>4. Get(parse_engine(lines), k) = SumFunctionOnSet(Values(lines), Hits(lines, k))
    <3>1. Hits(lines, k) # {}
      BY <2>1
    <3> QED
      BY <3>1, LookedUp, Zenon
  <2> QED
    BY <2>1, <2>2, <2>3, <2>4, Zenon
<1> DEFINE v(k) == Get(parse_engine(lines), k)
<1>9. /\ v(<<"tensorfold", "requests_running">>) = d + f
      /\ v(<<"tensorfold", "streams", "decoding">>) = d
      /\ v(<<"tensorfold", "streams", "filling">>) = f
      /\ v(<<"tensorfold", "streams_max">>) = d + f + idle
  <2>1. v(<<"tensorfold", "requests_running">>) = good[4].value
    <3>1. \A i \in 1..5 : <<"tensorfold", "requests_running">> \in line_keys(good[i]) <=> i = 4
      BY <1>5
    <3> QED
      BY <1>8, <3>1
  <2>2. v(<<"tensorfold", "streams", "decoding">>) = good[3].value
    <3>1. \A i \in 1..5 : <<"tensorfold", "streams", "decoding">> \in line_keys(good[i]) <=> i = 3
      BY <1>5
    <3> QED
      BY <1>8, <3>1
  <2>3. v(<<"tensorfold", "streams", "filling">>) = good[1].value
    <3>1. \A i \in 1..5 : <<"tensorfold", "streams", "filling">> \in line_keys(good[i]) <=> i = 1
      BY <1>5
    <3> QED
      BY <1>8, <3>1
  <2>4. v(<<"tensorfold", "streams_max">>) = good[5].value
    <3>1. \A i \in 1..5 : <<"tensorfold", "streams_max">> \in line_keys(good[i]) <=> i = 5
      BY <1>5
    <3> QED
      BY <1>8, <3>1
  <2> QED
    BY <1>4, <2>1, <2>2, <2>3, <2>4
<1>10. detect_family(parse_engine(lines)) = "tensorfold"
  <2>1. <<"tensorfold", "streams_max">> \in DOMAIN parse_engine(lines)
    <3>1. m + 5 \in Hits(lines, <<"tensorfold", "streams_max">>)
      BY <1>5, <1>7
    <3> QED
      BY <3>1, LookedUp
  <2>2. <<"tensorfold", "streams_max">>[1] = "tensorfold"
    OBVIOUS
  <2> QED
    BY <2>1, <2>2 DEF detect_family
<1>11. \A key \in DOMAIN GAUGE_ITEMS : gauges(lines)[key] = v(metric_name(GAUGE_ITEMS[key], "tensorfold"))
  BY <1>10 DEF gauges
<1> DEFINE g == gauges(lines)
<1>12. /\ g.running = v(metric_name(GAUGE_ITEMS.running, "tensorfold"))
       /\ g.decoding = v(metric_name(GAUGE_ITEMS.decoding, "tensorfold"))
       /\ g.filling = v(metric_name(GAUGE_ITEMS.filling, "tensorfold"))
       /\ g.streams_max = v(metric_name(GAUGE_ITEMS.streams_max, "tensorfold"))
  <2>1. {"running", "decoding", "filling", "streams_max"} \subseteq DOMAIN GAUGE_ITEMS
    BY DEF GAUGE_ITEMS
  <2> HIDE DEF v
  <2> QED
    BY <1>11, <2>1
<1> HIDE DEF v, g
<1>13. g.running = d + f /\ g.decoding = d /\ g.filling = f /\ g.streams_max = d + f + idle
  BY <1>9, <1>12, Spelling
<1> QED
  BY <1>13 DEF g, lines

\* The card of an engine that only counts its requests, under the canonical
\* name or under one nobody knows.
LEMMA PlainCard ==
  ASSUME NEW family \in {"vllm", "other"},
         NEW d \in Nat, NEW f \in Nat, NEW idle \in Nat, NEW noise \in BOOLEAN
  PROVE  LET g == gauges(Exposition(family, d, f, idle, noise))
         IN  /\ DOMAIN g = DOMAIN GAUGE_ITEMS
             /\ family = "vllm" => g.running = d + f
             /\ \A key \in DOMAIN GAUGE_ITEMS :
                  family = "other" \/ key # "running" => g[key] = None
<1> DEFINE lines == Exposition(family, d, f, idle, noise)
           m == IF noise THEN 1 ELSE 0
           bad == IF noise THEN <<Line(<<family, "x">>, "decoding", None)>> ELSE <<>>
           name == <<family, "num_requests_running">>
           good == << Line(name, "engine_0", d), Line(name, "engine_1", f) >>
<1>1. lines = bad \o good
  BY DEF Exposition
<1>2. m \in {0, 1} /\ Len(bad) = m /\ Len(good) = 2 /\ (m = 1 => bad[1].value = None)
  BY DEF Line
<1>3. /\ DOMAIN lines = 1..(m + 2)
      /\ \A i \in 1..2 : lines[m + i] = good[i]
      /\ m = 1 => lines[1].value = None
  <2> DEFINE x == Line(<<family, "x">>, "decoding", None)
             y == Line(name, "engine_0", d)
             z == Line(name, "engine_1", f)
             L == {x, y, z}
  <2>1. bad \in Seq(L)
    <3>1. bad = <<x>> \/ bad = <<>>
      OBVIOUS
    <3> HIDE DEF x, y, z, bad
    <3>2. <<x>> \in Seq(L) /\ <<>> \in Seq(L)
      OBVIOUS
    <3> QED
      BY <3>1, <3>2
  <2>2. good \in Seq(L)
    <3>1. good = <<y, z>>
      OBVIOUS
    <3> HIDE DEF x, y, z, good
    <3> QED
      BY <3>1
  <2> HIDE DEF bad, good, m, lines, L
  <2>3. /\ DOMAIN lines = 1..(Len(bad) + Len(good))
        /\ \A i \in 1..Len(bad) : lines[i] = bad[i]
        /\ \A i \in 1..Len(good) : lines[Len(bad) + i] = good[i]
    BY <1>1, <2>1, <2>2, Joined
  <2> QED
    BY <1>2, <2>3
<1>4. /\ good[1].name = name /\ good[1].label = "engine_0" /\ good[1].value = d
      /\ good[2].name = name /\ good[2].label = "engine_1" /\ good[2].value = f
  BY DEF Line
<1> HIDE DEF lines, bad, good, m
<1>0. 1..2 = {1, 2}
  OBVIOUS
<1>5. /\ line_keys(good[1]) = {name, <<family, "num_requests_running", "engine_0">>}
      /\ line_keys(good[2]) = {name, <<family, "num_requests_running", "engine_1">>}
  <2>1. "engine_0" # None /\ "engine_1" # None
    BY NameAssumption
  <2>2. \A l : Append(name, l) = <<family, "num_requests_running", l>>
    BY Appended
  <2> HIDE DEF name
  <2> QED
    BY <1>4, <2>1, <2>2 DEF line_keys
<1>6. \A i \in 1..2 : good[i].value \in Nat /\ good[i].value # None
  <2>1. \A i \in 1..2 : good[i].value \in Nat
    <3>1. good[1].value \in Nat /\ good[2].value \in Nat
      BY <1>4
    <3> QED
      BY <1>0, <3>1
  <2> QED
    BY <2>1, NoneAssumption
<1>7. ASSUME NEW k PROVE Hits(lines, k) = {m + i : i \in {j \in 1..2 : k \in line_keys(good[j])}}
  <2>1. \A i \in DOMAIN lines : lines[i].value # None <=> \E j \in 1..2 : i = m + j
    <3>1. ASSUME NEW i \in DOMAIN lines, i > m PROVE \E j \in 1..2 : i = m + j
      <4>1. i - m \in 1..2 /\ i = m + (i - m)
        BY <1>2, <1>3, <3>1
      <4> QED
        BY <4>1
    <3>2. ASSUME NEW i \in DOMAIN lines, ~(i > m) PROVE lines[i].value = None /\ ~\E j \in 1..2 : i = m + j
      BY <1>2, <1>3, <3>2
    <3> QED
      BY <1>3, <1>6, <3>1, <3>2
  <2>2. \A j \in 1..2 : m + j \in DOMAIN lines
    BY <1>2, <1>3
  <2> QED
    BY <1>3, <2>1, <2>2 DEF Hits
<1> DEFINE sums == parse_engine(lines)
           v(k) == Get(sums, k)
<1>8. v(name) = d + f /\ name \in DOMAIN sums
  <2>1. Hits(lines, name) = {m + 1, m + 2}
    <3>1. name \in line_keys(good[1]) /\ name \in line_keys(good[2])
      BY <1>5
    <3> HIDE DEF name
    <3> QED
      BY <1>0, <1>7, <3>1
  <2>2. /\ lines[m + 1].value \in Nat /\ lines[m + 2].value \in Nat /\ m + 1 # m + 2
        /\ lines[m + 1].value = d /\ lines[m + 2].value = f
    <3>1. lines[m + 1] = good[1] /\ lines[m + 2] = good[2]
      BY <1>0, <1>3
    <3>2. good[1].value = d /\ good[2].value = f
      BY <1>4
    <3> QED
      BY <1>2, <3>1, <3>2
  <2>3. SumFunctionOnSet(Values(lines), {m + 1, m + 2}) = lines[m + 1].value + lines[m + 2].value
    <3>1. /\ m + 1 \in DOMAIN lines /\ lines[m + 1].value # None
          /\ m + 2 \in DOMAIN lines /\ lines[m + 2].value # None
      BY <1>2, <1>3, <2>2, NoneAssumption
    <3>2. PICK v1, v2 : v1 = m + 1 /\ v2 = m + 2
      OBVIOUS
    <3>3. Values(lines)[v1] = lines[m + 1].value /\ Values(lines)[v2] = lines[m + 2].value
      BY <3>1, <3>2 DEF Values
    <3>4. Values(lines)[v1] \in Int /\ Values(lines)[v2] \in Int /\ v1 # v2
      BY <2>2, <3>2, <3>3
    <3>5. SumFunctionOnSet(Values(lines), {v1, v2}) = Values(lines)[v1] + Values(lines)[v2]
      BY <3>4, SumTwo
    <3> QED
      BY <3>2, <3>3, <3>5
  <2>4. /\ Get(parse_engine(lines), name) = SumFunctionOnSet(Values(lines), Hits(lines, name))
        /\ name \in DOMAIN parse_engine(lines)
    <3>1. Hits(lines, name) # {}
      BY <2>1
    <3> QED
      BY <3>1, LookedUp, Zenon
  <2>5. v(name) = lines[m + 1].value + lines[m + 2].value
    BY <2>1, <2>3, <2>4, Zenon
  <2> QED
    BY <2>2, <2>4, <2>5
<1>9. ASSUME NEW k, k \notin line_keys(good[1]), k \notin line_keys(good[2])
      PROVE  v(k) = None
  <2>1. Hits(lines, k) = {}
    BY <1>7, <1>9
  <2> QED
    BY <2>1, LookedUp
<1>10. \A k \in DOMAIN sums : k[1] = family
  <2>1. ASSUME NEW k \in DOMAIN sums PROVE k \in line_keys(good[1]) \/ k \in line_keys(good[2])
    <3>1. Hits(lines, k) # {}
      BY LookedUp
    <3> QED
      BY <1>7, <3>1
  <2>2. \A l : name[1] = family /\ <<family, "num_requests_running", l>>[1] = family
    OBVIOUS
  <2> HIDE DEF name
  <2> QED
    BY <1>5, <2>1, <2>2
<1>11. detect_family(sums) = IF family = "vllm" THEN "vllm" ELSE None
  <2>1. name[1] = family
    OBVIOUS
  <2> HIDE DEF sums, name
  <2> QED
    BY <1>8, <1>10, <2>1 DEF detect_family
<1>12. \A key \in DOMAIN GAUGE_ITEMS : gauges(lines)[key] = v(GAUGE_ITEMS[key])
  <2>1. \A n : metric_name(n, detect_family(sums)) = n
    BY <1>11, Spelling
  <2> QED
    BY <2>1 DEF gauges
<1>13. DOMAIN gauges(lines) = DOMAIN GAUGE_ITEMS
  BY DEF gauges
<1>14. GAUGE_ITEMS.running = <<"vllm", "num_requests_running">> /\ "running" \in DOMAIN GAUGE_ITEMS
  BY DEF GAUGE_ITEMS
<1>15. \A key \in DOMAIN GAUGE_ITEMS :
         family = "other" \/ key # "running" =>
           GAUGE_ITEMS[key] \notin line_keys(good[1]) /\ GAUGE_ITEMS[key] \notin line_keys(good[2])
  <2>1. ASSUME NEW key \in DOMAIN GAUGE_ITEMS, family = "other" \/ key # "running"
        PROVE  /\ GAUGE_ITEMS[key] # name
               /\ \A l : GAUGE_ITEMS[key] # <<family, "num_requests_running", l>>
    <3>1. \A l : \A n : GAUGE_ITEMS[key] = n => Len(n) = 2 /\ n[1] = "vllm"
      BY DEF GAUGE_ITEMS
    <3>2. GAUGE_ITEMS[key] # name
      BY <2>1 DEF GAUGE_ITEMS
    <3>3. \A l : Len(<<family, "num_requests_running", l>>) = 3
      OBVIOUS
    <3> HIDE DEF name
    <3> QED
      BY <3>1, <3>2, <3>3
  <2> HIDE DEF name
  <2> QED
    BY <1>5, <2>1
<1> HIDE DEF v
<1>16. /\ family = "vllm" => gauges(lines).running = d + f
       /\ \A key \in DOMAIN GAUGE_ITEMS :
            family = "other" \/ key # "running" => gauges(lines)[key] = None
  BY <1>8, <1>9, <1>12, <1>14, <1>15
<1> QED
  BY <1>13, <1>16 DEF lines

LEMMA GaugesStep == ReadGauges => GaugesAddUp'
<1> SUFFICES ASSUME ReadGauges PROVE GaugesAddUp'
  OBVIOUS
<1>1. PICK family \in {"tensorfold", "vllm", "other"}, d \in Small, f \in Small, idle \in Small,
           noise \in BOOLEAN :
        input' = [kind   |-> "gauges", family |-> family, d |-> d, f |-> f,
                  lines  |-> Exposition(family, d, f, idle, noise)]
  BY DEF ReadGauges
<1> DEFINE lines == Exposition(family, d, f, idle, noise)
           g == gauges(lines)
<1>2. input'.family = family /\ input'.d = d /\ input'.f = f /\ input'.lines = lines
  BY <1>1
<1>3. d \in Nat /\ f \in Nat /\ idle \in Nat
  BY ReportsAssumption
<1>4. family = "tensorfold" =>
        /\ g.running = d + f /\ g.decoding = d /\ g.filling = f
        /\ g.streams_max = d + f + idle
  BY <1>3, OwnCard
<1>5. family \in {"vllm", "other"} =>
        /\ DOMAIN g = DOMAIN GAUGE_ITEMS
        /\ family = "vllm" => g.running = d + f
        /\ \A key \in DOMAIN GAUGE_ITEMS : family = "other" \/ key # "running" => g[key] = None
  <2> DEFINE Says(fam, n, h) ==
               /\ DOMAIN h = DOMAIN GAUGE_ITEMS
               /\ fam = "vllm" => h.running = n
               /\ \A key \in DOMAIN GAUGE_ITEMS : fam = "other" \/ key # "running" => h[key] = None
  <2>1. \A fam \in {"vllm", "other"}, x, y, z \in Nat, b \in BOOLEAN :
          Says(fam, x + y, gauges(Exposition(fam, x, y, z, b)))
    BY PlainCard
  <2> HIDE DEF Says
  <2>2. family \in {"vllm", "other"} => Says(family, d + f, g)
    BY <1>3, <2>1
  <2> QED
    BY <2>2 DEF Says
<1>6. {"decoding", "filling", "streams_max"} \subseteq DOMAIN GAUGE_ITEMS
  BY DEF GAUGE_ITEMS
<1> HIDE DEF lines, g
<1>7. CASE family = "tensorfold"
  <2>1. g.streams_max >= g.running
    BY <1>3, <1>4, <1>7
  <2> QED
    BY <1>2, <1>4, <1>7, <2>1 DEF GaugesAddUp, g
<1>8. CASE family = "vllm"
  <2>1. g.running = d + f /\ g.decoding = None /\ g.filling = None /\ g.streams_max = None
    BY <1>5, <1>6, <1>8
  <2> QED
    BY <1>2, <1>8, <2>1 DEF GaugesAddUp, g
<1>9. CASE family = "other"
  <2>1. \A key \in DOMAIN g : g[key] = None
    BY <1>5, <1>9
  <2> QED
    BY <1>2, <1>9, <2>1 DEF GaugesAddUp, g
<1> QED
  BY <1>7, <1>8, <1>9

\* An engine's requests in flight are its streams decoding and pre-filling,
\* however many there are and whatever else it publishes.
THEOREM GaugesAlwaysAddUp == Spec => []GaugesAddUp
<1>1. Init => GaugesAddUp
  BY DEF Init, Start, GaugesAddUp
<1>2. GaugesAddUp /\ [Next]_input => GaugesAddUp'
  <2>1. ASSUME Next PROVE GaugesAddUp'
    <3>1. CASE ReadGauges
      BY <3>1, GaugesStep
    <3>2. CASE input'.kind # "gauges"
      BY <3>2 DEF GaugesAddUp
    <3> QED
      BY <2>1, <3>1, <3>2, OtherKinds
  <2>2. ASSUME GaugesAddUp, UNCHANGED input PROVE GaugesAddUp'
    BY <2>2 DEF GaugesAddUp
  <2> QED
    BY <2>1, <2>2
<1> QED
  BY <1>1, <1>2, PTL DEF Spec

-----------------------------------------------------------------------------
(* What a repository is offered by.                                        *)

LEMMA MinIs ==
  ASSUME NEW T \in SUBSET Nat, T # {}
  PROVE  Min(T) \in T /\ \A x \in T : Min(T) <= x
<1>1. \E t \in T : \A y \in T : t <= y
  BY SmallestOf
<1> QED
  BY <1>1 DEF Min

\* The plan, made before the operator asks, and the gate the post goes through
\* agree, whatever revisions a repository has and whatever the hub says of
\* them: it fits when the gate takes some revision listed, and a revision
\* said to fit leaves the floor free.
THEOREM PlanIsTheGates ==
  ASSUME NEW R, NEW gb \in [R -> Nat \cup {None}], NEW revs \in Seq(R), NEW free \in Nat
  PROVE  LET plan == hf_plan(revs, gb, free)
         IN  /\ plan.fits <=> \E r \in DOMAIN plan.sizes : download_allowed(plan.sizes[r].gb, free)
             /\ \A r \in DOMAIN plan.sizes :
                  plan.sizes[r].fits => plan.sizes[r].gb + DISK_FLOOR_GB <= free
<1> DEFINE asked == SubSeq(revs, 1, Min({Len(revs), MaxRevs}))
           sizes == {r \in ToSet(asked) : gb[r] # None /\ gb[r] > 0}
           of == judged({gb[r] : r \in sizes})
           plan == hf_plan(revs, gb, free)
           kept == {gb[r] : r \in sizes}
<1>1. /\ plan.fits <=> of # 0 /\ download_allowed(of, free)
      /\ DOMAIN plan.sizes = sizes
      /\ \A r \in sizes : /\ plan.sizes[r].gb = gb[r]
                          /\ plan.sizes[r].fits <=> download_allowed(gb[r], free)
  <2> HIDE DEF sizes, of
  <2>1. plan = [revisions |-> revs,
                sizes     |-> [r \in sizes |-> [gb |-> gb[r], fits |-> download_allowed(gb[r], free)]],
                fits      |-> of # 0 /\ download_allowed(of, free)]
    BY DEF hf_plan, sizes, of
  <2> HIDE DEF plan
  <2> QED
    BY <2>1
<1>2. sizes \subseteq R /\ \A r \in sizes : gb[r] \in Nat \ {0}
  <2>1. Min({Len(revs), MaxRevs}) \in 0..Len(revs)
    <3>1. Len(revs) \in Nat /\ MaxRevs \in Nat
      BY DownloadsAssumption
    <3>2. /\ Min({Len(revs), MaxRevs}) \in {Len(revs), MaxRevs}
          /\ \A x \in {Len(revs), MaxRevs} : Min({Len(revs), MaxRevs}) <= x
      BY <3>1, MinIs
    <3> QED
      BY <3>1, <3>2
  <2>2. asked \in Seq(R)
    <3> DEFINE n == Min({Len(revs), MaxRevs})
    <3>1. n \in 0..Len(revs) /\ Len(revs) \in Nat
      BY <2>1
    <3> HIDE DEF n
    <3>2. \A i \in 1..n : revs[i] \in R
      BY <3>1
    <3>3. SubSeq(revs, 1, n) \in Seq(R)
      BY <3>1, <3>2, SubSeqProperties
    <3> QED
      BY <3>3 DEF n
  <2>3. ToSet(asked) \subseteq R
    <3> HIDE DEF asked
    <3> QED
      BY <2>2 DEF ToSet
  <2> HIDE DEF asked
  <2>4. \A r \in sizes : r \in R /\ gb[r] # None /\ gb[r] > 0
    BY <2>3
  <2>5. \A r \in R : gb[r] \in Nat \cup {None}
    OBVIOUS
  <2> HIDE DEF sizes
  <2> QED
    BY <2>4, <2>5
<1> HIDE DEF sizes, plan
<1>3. \A x \in kept : x \in Nat \ {0}
  BY <1>2
<1>4. \A x \in Nat : x # None
  BY NoneAssumption
<1>5. \A x \in Nat : download_allowed(x, free) <=> x <= MAX_DOWNLOAD_GB /\ x + DISK_FLOOR_GB <= free
  BY <1>4 DEF download_allowed
<1>6. (of # 0 /\ download_allowed(of, free)) <=> \E r \in sizes : download_allowed(gb[r], free)
  <2>1. CASE kept = {}
    BY <2>1 DEF judged
  <2>2. CASE kept # {}
    <3>1. of \in kept /\ \A x \in kept : of <= x
      <4>1. of = Min(kept)
        BY <2>2 DEF judged
      <4> HIDE DEF of, kept
      <4> QED
        BY <1>3, <2>2, <4>1, MinIs
    <3> HIDE DEF of
    <3>2. of \in Nat \ {0}
      BY <1>3, <3>1
    <3>3. PICK s \in sizes : of = gb[s]
      BY <3>1
    <3>4. ASSUME NEW r \in sizes, download_allowed(gb[r], free) PROVE download_allowed(of, free)
      <4>1. gb[r] \in Nat /\ of <= gb[r]
        BY <1>2, <3>1
      <4>2. of <= MAX_DOWNLOAD_GB /\ of + DISK_FLOOR_GB <= free
        <5>1. gb[r] <= MAX_DOWNLOAD_GB /\ gb[r] + DISK_FLOOR_GB <= free
          BY <1>5, <3>4, <4>1
        <5> QED
          BY <3>2, <4>1, <5>1, DownloadsAssumption
      <4> QED
        BY <1>5, <3>2, <4>2
    <3> QED
      BY <3>2, <3>3, <3>4
  <2> QED
    BY <2>1, <2>2
<1>7. \A r \in sizes : download_allowed(gb[r], free) => gb[r] + DISK_FLOOR_GB <= free
  BY <1>2, <1>5
<1> HIDE DEF of
<1>8. /\ plan.fits <=> \E r \in DOMAIN plan.sizes : download_allowed(plan.sizes[r].gb, free)
      /\ \A r \in DOMAIN plan.sizes :
           plan.sizes[r].fits => plan.sizes[r].gb + DISK_FLOOR_GB <= free
  BY <1>1, <1>6, <1>7
<1> QED
  BY <1>8 DEF plan

-----------------------------------------------------------------------------
(* Whose rows the page shows.                                              *)

LEMMA PrefixAt ==
  ASSUME NEW S, NEW s \in Seq(S), NEW t \in Seq(S)
  PROVE  IsPrefix(s, t) <=> Len(s) <= Len(t) /\ \A i \in 1..Len(s) : s[i] = t[i]
<1> DEFINE n == Len(s)
           a == SubSeq(s, 1, n)
           b == SubSeq(t, 1, n)
<1>1. n \in Nat /\ Len(t) \in Nat /\ \A i \in 1..n : s[i] \in S
  OBVIOUS
<1> HIDE DEF n
<1>2. a \in Seq(S) /\ Len(a) = n /\ \A i \in 1..n : a[i] = s[i]
  BY <1>1, SubSeqProperties
<1>3. ASSUME n <= Len(t)
      PROVE  b \in Seq(S) /\ Len(b) = n /\ \A i \in 1..n : b[i] = t[i]
  <2>1. \A i \in 1..n : t[i] \in S
    BY <1>1, <1>3
  <2> QED
    BY <1>1, <2>1, SubSeqProperties
<1> HIDE DEF a, b
<1>4. IsPrefix(s, t) <=> n <= Len(t) /\ a = b
  BY DEF IsPrefix, n, a, b
<1>5. ASSUME n <= Len(t) PROVE a = b <=> \A i \in 1..n : s[i] = t[i]
  <2>1. (\A i \in 1..n : a[i] = b[i]) => a = b
    BY <1>2, <1>3, <1>5, SeqEqual
  <2> QED
    BY <1>2, <1>3, <1>5, <2>1
<1> QED
  BY <1>4, <1>5 DEF n

LEMMA MarkedPrefix ==
  ASSUME NEW s \in Seq(Nat), NEW t \in Seq(Nat)
  PROVE  IsPrefix(Append(s, Hyphen), t) <=>
           /\ Len(s) + 1 <= Len(t) /\ t[Len(s) + 1] = Hyphen
           /\ \A i \in 1..Len(s) : s[i] = t[i]
<1> DEFINE a == Append(s, Hyphen)
           n == Len(s)
<1>1. n \in Nat /\ Hyphen \in Nat
  BY DEF Hyphen
<1>2. a \in Seq(Nat) /\ Len(a) = n + 1 /\ a[n + 1] = Hyphen /\ \A i \in 1..n : a[i] = s[i]
  BY <1>1, AppendProperties
<1> HIDE DEF a, n
<1>3. IsPrefix(a, t) <=> n + 1 <= Len(t) /\ \A i \in 1..(n + 1) : a[i] = t[i]
  <2>1. IsPrefix(a, t) <=> Len(a) <= Len(t) /\ \A i \in 1..Len(a) : a[i] = t[i]
    BY <1>2, PrefixAt
  <2> QED
    BY <1>2, <2>1
<1>4. \A i : i \in 1..(n + 1) <=> i \in 1..n \/ i = n + 1
  BY <1>1
<1>5. (\A i \in 1..(n + 1) : a[i] = t[i]) <=> t[n + 1] = Hyphen /\ \A i \in 1..n : s[i] = t[i]
  BY <1>2, <1>4
<1> QED
  BY <1>3, <1>5 DEF a, n

\* A directory is named after the job and the engine: what is at its places.
LEMMA DirectoryAt ==
  ASSUME NEW j \in Seq(Nat), NEW engine \in Seq(Nat)
  PROVE  LET d == j \o <<Hyphen>> \o engine
         IN  /\ d \in Seq(Nat) /\ Len(d) >= Len(j) + 1 /\ d[Len(j) + 1] = Hyphen
             /\ \A i \in 1..Len(j) : d[i] = j[i]
<1>1. PICK h \in Seq(Nat) : h = <<Hyphen>> /\ Len(h) = 1 /\ h[1] = Hyphen
  <2>1. <<Hyphen>> \in Seq(Nat) /\ Len(<<Hyphen>>) = 1 /\ <<Hyphen>>[1] = Hyphen
    BY DEF Hyphen
  <2> QED
    BY <2>1
<1>2. PICK jh \in Seq(Nat) : jh = j \o h /\ Len(jh) = Len(j) + Len(h)
  <2>1. j \o h \in Seq(Nat) /\ Len(j \o h) = Len(j) + Len(h)
    BY ConcatProperties
  <2> QED
    BY <2>1
<1>3. /\ \A i \in 1..Len(j) : jh[i] = j[i]
      /\ \A i \in 1..Len(h) : jh[Len(j) + i] = h[i]
  BY <1>2, Joined
<1>4. PICK d \in Seq(Nat) : d = jh \o engine /\ Len(d) = Len(jh) + Len(engine)
  <2>1. jh \o engine \in Seq(Nat) /\ Len(jh \o engine) = Len(jh) + Len(engine)
    BY ConcatProperties
  <2> QED
    BY <2>1
<1>5. \A i \in 1..Len(jh) : d[i] = jh[i]
  BY <1>4, Joined
<1>6. Len(j) \in Nat /\ Len(engine) \in Nat /\ Len(jh) = Len(j) + 1
  BY <1>1, <1>2
<1>7. d[Len(j) + 1] = Hyphen
  <2>1. Len(j) + 1 \in 1..Len(jh) /\ 1 \in 1..Len(h)
    BY <1>1, <1>6
  <2>2. jh[Len(j) + 1] = h[1]
    BY <1>3, <2>1
  <2> QED
    BY <1>1, <1>5, <2>1, <2>2
<1>8. \A i \in 1..Len(j) : d[i] = j[i]
  <2>1. \A i \in 1..Len(j) : i \in 1..Len(jh)
    BY <1>6
  <2> QED
    BY <1>3, <1>5, <2>1
<1>9. Len(d) >= Len(j) + 1
  BY <1>4, <1>6
<1>10. d = j \o <<Hyphen>> \o engine
  BY <1>1, <1>2, <1>4
<1> QED
  BY <1>7, <1>8, <1>9, <1>10

\* The run directories of some jobs.
Directories(ids, engine) == {j \o <<Hyphen>> \o engine : j \in ids}

\* Of the directories of several jobs the page finds the job's own, and none
\* when the job has none, whatever the ids and the engine are, as long as no
\* job's id is another's followed by a hyphen.
THEOREM RunDirIsItsOwn ==
  ASSUME NEW ids \in SUBSET Seq(Nat), Apart(ids), NEW id \in ids, NEW engine \in Seq(Nat),
         NEW there \in SUBSET ids
  PROVE  LET own  == id \o <<Hyphen>> \o engine
             dirs == Directories(there, engine)
         IN  find_run_dir(id, None, dirs) = IF own \in dirs THEN own ELSE None
<1> DEFINE dir(j) == j \o <<Hyphen>> \o engine
           dirs == {dir(j) : j \in there}
           cands == {d \in dirs : named(id, d)}
<1>1. \A j \in ids : /\ dir(j) \in Seq(Nat) /\ Len(dir(j)) >= Len(j) + 1
                     /\ dir(j)[Len(j) + 1] = Hyphen
                     /\ \A i \in 1..Len(j) : dir(j)[i] = j[i]
  BY DirectoryAt
<1>2. \A j \in ids : j \in Seq(Nat) /\ Len(j) \in Nat /\ \A k \in ids : ~IsPrefix(Append(j, Hyphen), k)
  BY DEF Apart
<1> HIDE DEF dir
<1>3. named(id, dir(id))
  <2>1. IsPrefix(Append(id, Hyphen), dir(id))
    BY <1>1, <1>2, MarkedPrefix
  <2> QED
    BY <2>1 DEF named
<1>4. ASSUME NEW j \in ids, named(id, dir(j)) PROVE j = id
  <2>1. CASE dir(j) = id
    <3>1. IsPrefix(Append(j, Hyphen), id)
      BY <1>1, <1>2, <2>1, MarkedPrefix
    <3> QED
      BY <1>2, <3>1
  <2>2. CASE IsPrefix(Append(id, Hyphen), dir(j))
    <3>1. /\ Len(id) + 1 <= Len(dir(j)) /\ dir(j)[Len(id) + 1] = Hyphen
          /\ \A i \in 1..Len(id) : id[i] = dir(j)[i]
      BY <1>1, <1>2, <2>2, MarkedPrefix
    <3>2. CASE Len(j) < Len(id)
      <4>1. Len(j) + 1 <= Len(id) /\ Len(j) + 1 \in 1..Len(id) /\ \A i \in 1..Len(j) : i \in 1..Len(id)
        BY <1>2, <3>2
      <4>2. id[Len(j) + 1] = Hyphen /\ \A i \in 1..Len(j) : j[i] = id[i]
        <5>1. id[Len(j) + 1] = dir(j)[Len(j) + 1]
          BY <3>1, <4>1
        <5>2. \A i \in 1..Len(j) : id[i] = dir(j)[i]
          BY <3>1, <4>1
        <5> QED
          BY <1>1, <5>1, <5>2
      <4>3. IsPrefix(Append(j, Hyphen), id)
        BY <1>2, <4>1, <4>2, MarkedPrefix
      <4> QED
        BY <1>2, <4>3
    <3>3. CASE Len(j) > Len(id)
      <4>1. Len(id) + 1 <= Len(j) /\ Len(id) + 1 \in 1..Len(j) /\ \A i \in 1..Len(id) : i \in 1..Len(j)
        BY <1>2, <3>3
      <4>2. j[Len(id) + 1] = Hyphen /\ \A i \in 1..Len(id) : id[i] = j[i]
        BY <1>1, <3>1, <4>1
      <4>3. IsPrefix(Append(id, Hyphen), j)
        BY <1>2, <4>1, <4>2, MarkedPrefix
      <4> QED
        BY <1>2, <4>3
    <3>4. CASE Len(j) = Len(id)
      <4>1. \A i \in 1..Len(j) : j[i] = id[i]
        BY <1>1, <3>1, <3>4
      <4> QED
        BY <1>2, <3>4, <4>1, SeqEqual
    <3> QED
      BY <1>2, <3>2, <3>3, <3>4
  <2> QED
    BY <1>4, <2>1, <2>2 DEF named
<1>5. /\ id \in there => cands = {dir(id)} /\ dir(id) \in dirs
      /\ id \notin there => cands = {} /\ dir(id) \notin dirs
  BY <1>3, <1>4
<1>6. ~NameBefore(dir(id), dir(id))
  <2> DEFINE p == dir(id)
  <2>1. p \in Seq(Nat) /\ Len(p) \in Nat /\ \A i \in 1..Len(p) : p[i] \in Nat
    BY <1>1
  <2> HIDE DEF p
  <2>2. \A n \in 0..Len(p) : n < Len(p) => n + 1 \in 1..Len(p)
    BY <2>1
  <2>3. \A n \in 0..Len(p) : n < Len(p) => ~(p[n + 1] < p[n + 1])
    BY <2>1, <2>2
  <2>4. ~NameBefore(p, p)
    BY <2>1, <2>3 DEF NameBefore
  <2> QED
    BY <2>4 DEF p
<1>7. find_run_dir(id, None, dirs)
        = IF cands = {} THEN None ELSE CHOOSE d \in cands : \A c \in cands : ~NameBefore(d, c)
  <2> HIDE DEF dirs
  <2> QED
    BY DEF find_run_dir
<1>8. find_run_dir(id, None, dirs) = IF dir(id) \in dirs THEN dir(id) ELSE None
  <2> HIDE DEF dirs, cands
  <2>1. CASE id \in there
    <3>1. cands = {dir(id)} /\ cands # {} /\ dir(id) \in dirs
      BY <1>5, <2>1
    <3>2. (CHOOSE d \in cands : \A c \in cands : ~NameBefore(d, c)) = dir(id)
      BY <1>6, <3>1
    <3> QED
      BY <1>7, <3>1, <3>2
  <2>2. CASE id \notin there
    BY <1>5, <1>7, <2>2
  <2> QED
    BY <2>1, <2>2
<1> QED
  BY <1>8 DEF dir, Directories

-----------------------------------------------------------------------------
(* Where a chart's points go.                                              *)

\* A time less than half a step from a cell's own is rounded to that cell.
LEMMA RoundNear ==
  ASSUME NEW k \in Nat, NEW u \in Nat \ {0}, NEW o \in Int, 2 * o < u, 2 * (0 - o) < u
  PROVE  Round(k * u + o, u) = k
<1> DEFINE n == k * u + o
           q == n \div u
           r == n % u
<1>1. k * u \in Int /\ n \in Int
  OBVIOUS
<1>2. q \in Int /\ r \in 0..(u - 1) /\ n = q * u + r
  <2> HIDE DEF n
  <2> QED
    BY <1>1
<1>3. Round(n, u) = IF 2 * r < u \/ (2 * r = u /\ q % 2 = 0) THEN q ELSE q + 1
  BY DEF Round
<1>4. k * u + o = q * u + r
  BY <1>2
<1> HIDE DEF n, q, r
<1>5. PICK d \in Int : q = k + d
  <2>1. q - k \in Int /\ q = k + (q - k)
    BY <1>2
  <2> QED
    BY <2>1
<1>6. q * u = k * u + d * u
  BY <1>5
<1>7. o = d * u + r
  BY <1>1, <1>2, <1>4, <1>6
<1>8. CASE d = 0
  <2>1. r = o /\ q = k
    BY <1>2, <1>5, <1>7, <1>8
  <2> QED
    BY <1>3, <2>1 DEF n
<1>9. CASE d = 0 - 1
  <2>1. r = u + o /\ q = k - 1
    BY <1>2, <1>5, <1>7, <1>9
  <2>2. ~(2 * r < u) /\ 2 * r # u
    BY <2>1
  <2> QED
    BY <1>3, <2>1, <2>2 DEF n
<1>10. CASE d >= 1
  <2>1. d * u >= u
    BY <1>10
  <2> QED
    BY <1>2, <1>7, <2>1
<1>11. CASE d <= 0 - 2
  <2>1. d * u <= 0 - 2 * u
    <3>1. PICK e \in Nat : d = 0 - 2 - e
      <4>1. (0 - 2) - d \in Nat /\ d = 0 - 2 - ((0 - 2) - d)
        BY <1>11
      <4> QED
        BY <4>1
    <3>2. d * u = 0 - 2 * u - e * u /\ e * u >= 0
      BY <3>1
    <3> QED
      BY <3>2
  <2> QED
    BY <1>2, <1>7, <2>1
<1> QED
  BY <1>8, <1>9, <1>10, <1>11

\* Points each less than half a step off the time of a cell of its own, out of
\* the cells 0 to W.
Scattered(points, m, start, step, W, cell, off) ==
  /\ m \in Nat /\ DOMAIN points = 1..m /\ cell \in [1..m -> 0..W] /\ off \in [1..m -> Int]
  /\ \A i \in 1..m : /\ points[i].t = start + cell[i] * step + off[i]
                     /\ 2 * off[i] < step /\ 2 * (0 - off[i]) < step
  /\ \A i, j \in 1..m : cell[i] = cell[j] => i = j

\* A line of the chart that holds each point in its cell, and gaps elsewhere.
Keeps(row, points, m, W, cell) ==
  /\ DOMAIN row = 0..W
  /\ \A i \in 1..m : row[cell[i]] = points[i].v
  /\ \A c \in DOMAIN row : (\A i \in 1..m : cell[i] # c) => row[c] = None

\* A chart keeps every point of a window in the cell of its own time, the one
\* at the window's very end included and however unevenly they were scraped,
\* as long as each is less than half a step off; every other cell is a gap.
THEOREM GridLosesNothing ==
  ASSUME NEW window \in Nat, NEW step \in Nat \ {0}, NEW start \in Int,
         NEW points, NEW m, NEW cell, NEW off,
         Scattered(points, m, start, step, window \div step, cell, off)
  PROVE  Keeps(on_grid(points, start, step, grid_size(window, step)),
               points, m, window \div step, cell)
<1> DEFINE n == window \div step
           at(i) == Round(points[i].t - start, step)
           hits(c) == {i \in DOMAIN points : at(i) = c}
           row == on_grid(points, start, step, grid_size(window, step))
<1>1. n \in Nat /\ grid_size(window, step) - 1 = n
  BY DEF grid_size
<1>0. /\ m \in Nat /\ DOMAIN points = 1..m /\ cell \in [1..m -> 0..n] /\ off \in [1..m -> Int]
      /\ \A i \in 1..m : /\ points[i].t = start + cell[i] * step + off[i]
                         /\ 2 * off[i] < step /\ 2 * (0 - off[i]) < step
      /\ \A i, j \in 1..m : cell[i] = cell[j] => i = j
  BY DEF Scattered
<1>2. row = [c \in 0..n |-> IF hits(c) = {} THEN None ELSE points[Max(hits(c))].v]
  <2> HIDE DEF n
  <2> QED
    BY <1>1 DEF on_grid
<1>3. ASSUME NEW i \in 1..m PROVE at(i) = cell[i]
  <2>1. cell[i] \in Nat /\ off[i] \in Int
    BY <1>0, <1>1
  <2>2. points[i].t - start = cell[i] * step + off[i]
    <3>1. PICK x \in Int : x = cell[i] * step
      BY <2>1
    <3>2. points[i].t = start + x + off[i]
      BY <1>0, <3>1
    <3>3. points[i].t - start = x + off[i]
      BY <2>1, <3>1, <3>2
    <3> QED
      BY <3>1, <3>3
  <2>3. 2 * off[i] < step /\ 2 * (0 - off[i]) < step
    BY <1>0
  <2>4. Round(cell[i] * step + off[i], step) = cell[i]
    BY <2>1, <2>3, RoundNear
  <2> QED
    BY <2>2, <2>4
<1> HIDE DEF n, at
<1>4. \A c : hits(c) = {i \in 1..m : cell[i] = c}
  BY <1>0, <1>3
<1> HIDE DEF hits, row
<1>5. ASSUME NEW i \in 1..m PROVE row[cell[i]] = points[i].v
  <2>1. hits(cell[i]) = {i}
    BY <1>0, <1>4
  <2>2. Max({i}) = i
    <3>1. i \in Nat /\ {i} \in SUBSET (0..i) /\ {i} # {}
      BY <1>0
    <3> QED
      BY <3>1, LargestIs
  <2>3. cell[i] \in 0..n
    BY <1>0
  <2> QED
    BY <1>2, <2>1, <2>2, <2>3
<1>6. ASSUME NEW c \in 0..n, \A i \in 1..m : cell[i] # c PROVE row[c] = None
  <2>1. hits(c) = {}
    BY <1>4, <1>6
  <2> QED
    BY <1>2, <2>1
<1>7. DOMAIN row = 0..n
  BY <1>2
<1> QED
  BY <1>5, <1>6, <1>7 DEF Keeps, row, n

-----------------------------------------------------------------------------
(* The sequences a reader may find.                                        *)

LEMMA BoundedIs ==
  ASSUME NEW S, NEW n \in Nat, NEW s \in BoundedSeq(S, n)
  PROVE  s \in Seq(S) /\ Len(s) \in 0..n
<1>1. PICK m \in 0..n : s \in [1..m -> S]
  BY DEF BoundedSeq, SeqOf
<1> QED
  BY <1>1

-----------------------------------------------------------------------------
(* The plan of a download the console may be asked for.                    *)

LEMMA RevisionsAre ==
  ASSUME NEW R, None \notin R, NEW b \in Seq(R \cup {None}), NEW t \in Seq(R \cup {None})
  PROVE  hf_revisions(b, t) \in Seq(R)
<1> DEFINE s == b \o t
           I == {i \in DOMAIN s : s[i] # None}
           names == Filter(s, LAMBDA n : n # None)
           first(i) == ~\E j \in 1 .. i - 1 : names[j] = names[i]
           all == [i \in DOMAIN names |-> i]
           J == {i \in DOMAIN all : first(all[i])}
           kept == Filter(all, first)
<1>1. s \in Seq(R \cup {None})
  OBVIOUS
<1> HIDE DEF s
<1>2. names = Only(s, I)
  BY DEF Filter
<1>3. names \in Seq(R)
  <2>1. Len(s) \in Nat /\ I \in SUBSET (1..Len(s)) /\ \A i \in I : s[i] \in R
    BY <1>1
  <2> HIDE DEF I
  <2>2. Only(s, I) \in Seq(R)
    BY <2>1, OnlyIs
  <2> QED
    BY <1>2, <2>2
<1> HIDE DEF names
<1>4. kept = Only(all, J)
  BY DEF Filter
<1>5. kept \in Seq(1..Len(names))
  <2>1. /\ Len(names) \in Nat /\ J \in SUBSET (1..Len(names)) /\ \A i \in J : all[i] \in 1..Len(names)
    BY <1>3
  <2> HIDE DEF J, all
  <2>2. Only(all, J) \in Seq(1..Len(names))
    BY <2>1, OnlyIs
  <2> QED
    BY <1>4, <2>2
<1>6. hf_revisions(b, t) = [i \in DOMAIN kept |-> names[kept[i]]]
  BY DEF hf_revisions, names, s
<1> HIDE DEF kept
<1>7. Len(kept) \in Nat /\ DOMAIN kept = 1..Len(kept) /\ \A i \in 1..Len(kept) : names[kept[i]] \in R
  BY <1>3, <1>5
<1>8. hf_revisions(b, t) \in [1..Len(kept) -> R]
  BY <1>6, <1>7
<1> QED
  BY <1>7, <1>8

LEMMA PlanStep == PlanDownload => PlanAgreesWithGate'
<1> SUFFICES ASSUME PlanDownload PROVE PlanAgreesWithGate'
  OBVIOUS
<1> DEFINE R == {"a", "b", "c"}
<1>1. PICK branches \in BoundedSeq({None, "a", "b", "c"}, 2), tags \in BoundedSeq({None, "a", "b", "c"}, 2),
           gb \in [{"a", "b", "c"} -> {None, 0, 1, 3}], free \in 2 .. 6 :
        input' = [kind |-> "plan", free |-> free, gb |-> gb,
                  revs |-> hf_revisions(branches, tags)]
  BY DEF PlanDownload
<1>2. None \notin R /\ {None, "a", "b", "c"} = R \cup {None} /\ 2 \in Nat
  BY NameAssumption
<1> DEFINE revs == hf_revisions(branches, tags)
<1>3. revs \in Seq(R)
  <2>1. branches \in Seq(R \cup {None}) /\ tags \in Seq(R \cup {None})
    BY <1>2, BoundedIs
  <2> HIDE DEF R
  <2> QED
    BY <1>2, <2>1, RevisionsAre
<1>4. gb \in [R -> Nat \cup {None}] /\ free \in Nat
  OBVIOUS
<1>5. input'.revs = revs /\ input'.gb = gb /\ input'.free = free
  BY <1>1
<1> DEFINE plan == hf_plan(revs, gb, free)
<1> HIDE DEF R, revs
<1>6. /\ plan.fits <=> \E r \in DOMAIN plan.sizes : download_allowed(plan.sizes[r].gb, free)
      /\ \A r \in DOMAIN plan.sizes :
           plan.sizes[r].fits => plan.sizes[r].gb + DISK_FLOOR_GB <= free
  BY <1>3, <1>4, PlanIsTheGates
<1> QED
  BY <1>5, <1>6 DEF PlanAgreesWithGate

\* Whatever the hub lists, a repository is offered exactly when the gate at
\* the post would take one of its revisions.
THEOREM PlanAlwaysAgreesWithGate == Spec => []PlanAgreesWithGate
<1>1. Init => PlanAgreesWithGate
  BY DEF Init, Start, PlanAgreesWithGate
<1>2. PlanAgreesWithGate /\ [Next]_input => PlanAgreesWithGate'
  <2>1. ASSUME Next PROVE PlanAgreesWithGate'
    <3>1. CASE PlanDownload
      BY <3>1, PlanStep
    <3>2. CASE input'.kind # "plan"
      BY <3>2 DEF PlanAgreesWithGate
    <3> QED
      BY <2>1, <3>1, <3>2, OtherKinds
  <2>2. ASSUME PlanAgreesWithGate, UNCHANGED input PROVE PlanAgreesWithGate'
    BY <2>2 DEF PlanAgreesWithGate
  <2> QED
    BY <2>1, <2>2
<1> QED
  BY <1>1, <1>2, PTL DEF Spec

-----------------------------------------------------------------------------
(* What the page shows of a running job.                                   *)

\* A file of complete rows, perhaps with half of another after them, has as
\* many rows as are complete.
LEMMA RowsOfFile ==
  ASSUME NEW n \in Nat, NEW line \in RowDoc, NEW tail \in {<<>>, <<None>>}
  PROVE  Len(read_rows([i \in 1 .. n |-> line] \o tail)) = n
<1> DEFINE S == {line, None}
           a == [i \in 1 .. n |-> line]
           file == a \o tail
           I == {i \in DOMAIN file : file[i] # None}
<1>1. line # None
  BY DocumentAssumption
<1>2. a \in Seq(S) /\ Len(a) = n /\ \A i \in 1..n : a[i] = line
  OBVIOUS
<1>3. tail \in Seq(S) /\ Len(tail) \in {0, 1} /\ (Len(tail) = 1 => tail[1] = None)
  <2>1. CASE tail = <<>>
    BY <2>1
  <2>2. CASE tail = <<None>>
    <3>1. <<None>> \in Seq(S) /\ Len(<<None>>) = 1 /\ <<None>>[1] = None
      OBVIOUS
    <3> QED
      BY <2>2, <3>1
  <2> QED
    BY <2>1, <2>2
<1>4. file # None
  <2>1. S \in SUBSET (RowDoc \cup {None})
    OBVIOUS
  <2>2. file \in Seq(S)
    BY <1>2, <1>3
  <2> HIDE DEF file, S
  <2>3. file \in Seq(RowDoc \cup {None})
    BY <2>1, <2>2, SeqMonotonic
  <2> QED
    BY <2>3, DocumentAssumption
<1>5. read_rows(file) = Only(file, I)
  BY <1>4 DEF read_rows, Filter
<1> HIDE DEF a, S
<1>6. /\ DOMAIN file = 1..(n + Len(tail))
      /\ \A i \in 1..n : file[i] = line
      /\ \A i \in 1..Len(tail) : file[n + i] = tail[i]
  BY <1>2, <1>3, Joined
<1> HIDE DEF file
<1>7. I = 1..n
  <2>1. \A i \in 1..n : i \in I
    BY <1>1, <1>3, <1>6
  <2>2. ASSUME NEW i \in I, i \notin 1..n PROVE FALSE
    <3>1. i \in 1..(n + Len(tail)) /\ file[i] # None
      BY <1>6
    <3>2. Len(tail) = 1 /\ i = n + 1
      <4>1. PICK m \in {0, 1} : m = Len(tail)
        BY <1>3
      <4>2. i \in 1..(n + m)
        BY <3>1, <4>1
      <4>3. m = 1 /\ i = n + 1
        BY <2>2, <4>2
      <4> QED
        BY <4>1, <4>3
    <3>3. file[n + 1] = tail[1]
      BY <1>6, <3>2
    <3> QED
      BY <1>3, <3>1, <3>2, <3>3
  <2>3. \A i \in I : i \in 1..n
    BY <2>2
  <2> QED
    BY <2>1, <2>3
<1>8. Len(Only(file, 1..n)) = Cardinality(1..n)
  BY OnlyIs
<1>9. Cardinality(1..n) = n
  BY FS_Interval
<1> QED
  BY <1>5, <1>7, <1>8, <1>9 DEF file, a

LEMMA PageStep == ReadStatus => PageShowsTheRun'
<1> SUFFICES ASSUME ReadStatus PROVE PageShowsTheRun'
  OBVIOUS
<1>1. PICK ids \in {s \in kSubset(2, JobIds) : Apart(s)}, engine \in {<<1>>, <<2, 1>>} :
       \E id \in ids, there \in SUBSET ids,
          state \in {"idle", "queued", "running", "done", "failed"}, named_in \in BOOLEAN,
          n \in 0 .. MaxSteps, torn \in BOOLEAN :
      LET own  == id \o <<Hyphen>> \o engine
          line == Row(1, "elapsed_s", 1, "f")
      IN  /\ state = "idle" => ~named_in
          /\ input' = [kind   |-> "status", own |-> own, n |-> n,
                       status |-> [state |-> state,
                                   job   |-> IF named_in THEN [job_id |-> id] ELSE None],
                       files  |-> [d \in {i \o <<Hyphen>> \o engine : i \in there} |->
                                     IF d = own THEN [i \in 1 .. n |-> line]
                                                     \o (IF torn THEN <<None>> ELSE <<>>)
                                     ELSE <<line, line>>]]
  BY DEF ReadStatus
<1>2. PICK id \in ids, there \in SUBSET ids,
          state \in {"idle", "queued", "running", "done", "failed"}, named_in \in BOOLEAN,
          n \in 0 .. MaxSteps, torn \in BOOLEAN :
      LET own  == id \o <<Hyphen>> \o engine
          line == Row(1, "elapsed_s", 1, "f")
      IN  /\ state = "idle" => ~named_in
          /\ input' = [kind   |-> "status", own |-> own, n |-> n,
                       status |-> [state |-> state,
                                   job   |-> IF named_in THEN [job_id |-> id] ELSE None],
                       files  |-> [d \in {i \o <<Hyphen>> \o engine : i \in there} |->
                                     IF d = own THEN [i \in 1 .. n |-> line]
                                                     \o (IF torn THEN <<None>> ELSE <<>>)
                                     ELSE <<line, line>>]]
  BY <1>1
<1> DEFINE own == id \o <<Hyphen>> \o engine
           line == Row(1, "elapsed_s", 1, "f")
           tail == IF torn THEN <<None>> ELSE <<>>
           dirs == {i \o <<Hyphen>> \o engine : i \in there}
           st == input'.status
           files == input'.files
<1>3. /\ input'.own = own /\ input'.n = n
      /\ st = [state |-> state, job |-> IF named_in THEN [job_id |-> id] ELSE None]
      /\ DOMAIN files = dirs
      /\ own \in dirs => files[own] = [i \in 1 .. n |-> line] \o tail
  BY <1>2
<1>4. ids \in SUBSET JobIds /\ Apart(ids) /\ id \in ids /\ id \in JobIds
  BY DEF kSubset
<1>5. JobIds \subseteq Seq(Nat) /\ engine \in Seq(Nat)
  <2>1. \A s \in BoundedSeq({Hyphen, 1, 2}, 3) : s \in Seq(Nat)
    <3>1. 3 \in Nat /\ {Hyphen, 1, 2} \subseteq Nat
      BY DEF Hyphen
    <3>2. \A s \in BoundedSeq({Hyphen, 1, 2}, 3) : s \in Seq({Hyphen, 1, 2})
      BY <3>1, BoundedIs
    <3> QED
      BY <3>1, <3>2, SeqMonotonic
  <2>2. <<1>> \in Seq(Nat) /\ <<2, 1>> \in Seq(Nat)
    OBVIOUS
  <2> QED
    BY <2>1, <2>2 DEF JobIds
<1>6. st # None /\ id # None /\ [job_id |-> id] # None
  <2>1. st \in StatusDoc /\ [job_id |-> id] \in JobDoc
    BY <1>3, <1>4 DEF StatusDoc, JobDoc
  <2> QED
    BY <1>4, <2>1, DocumentAssumption
<1>7. /\ job_block(st).job_id = IF named_in THEN id ELSE None
      /\ job_block(st).state = state
      /\ job_block(st).engine = None
  BY <1>3, <1>6 DEF job_block
<1>8. find_run_dir(id, None, dirs) = IF own \in dirs THEN own ELSE None
  <2>1. ids \in SUBSET Seq(Nat)
    BY <1>4, <1>5
  <2>2. LET o == id \o <<Hyphen>> \o engine
            D == Directories(there, engine)
        IN  find_run_dir(id, None, D) = IF o \in D THEN o ELSE None
    <3> HIDE DEF own, line, tail, dirs, st, files
    <3> QED
      BY <1>4, <1>5, <2>1, RunDirIsItsOwn
  <2> QED
    BY <2>2 DEF Directories
<1>9. own # None
  <2>1. own \in Seq(Nat)
    BY <1>4, <1>5, DirectoryAt
  <2> QED
    BY <2>1, DocumentAssumption
<1>10. own \in dirs => Len(read_rows(files[own])) = n
  <2>1. line \in RowDoc
    <3>1. 1 # None
      BY NoneAssumption
    <3>2. line = [tokens |-> 1, error |-> FALSE, elapsed |-> 1,
                  time |-> [k \in {"elapsed_s"} |-> 1], family |-> "f"]
      BY <3>1 DEF Row
    <3>3. [k \in {"elapsed_s"} |-> 1] \in [{"elapsed_s"} -> Nat]
      OBVIOUS
    <3> HIDE DEF line
    <3> QED
      BY <3>2, <3>3 DEF RowDoc
  <2>2. n \in Nat /\ tail \in {<<>>, <<None>>}
    BY ReportsAssumption
  <2>3. Len(read_rows([i \in 1 .. n |-> line] \o tail)) = n
    <3> HIDE DEF line, tail
    <3> QED
      BY <2>1, <2>2, RowsOfFile
  <2> QED
    BY <1>3, <1>9, <2>3
<1> DEFINE shown == live_throughput(st, files)
           job == job_block(st)
<1>11. shown = run_block(job, files)
  BY DEF live_throughput
<1>12. job.state = state /\ job.job_id = (IF named_in THEN id ELSE None) /\ job.engine = None
  BY <1>7
<1>13. (st.job # None) <=> named_in
  BY <1>3, <1>6
<1>14. st.state = state
  BY <1>3
<1> HIDE DEF own, line, tail, st, files, job, shown, dirs
<1>15. \A r : compute(r).rows_done = Len(r)
  BY DEF compute
<1>16. CASE state = "running" /\ named_in /\ own \in dirs
  <2>1. find_run_dir(job.job_id, job.engine, DOMAIN files) = own
    BY <1>3, <1>8, <1>12, <1>16
  <2>2. job.state \in ACTIVE_STATES /\ job.job_id # None
    BY <1>6, <1>12, <1>16 DEF ACTIVE_STATES
  <2>3. shown = [active |-> TRUE, source |-> own, run |-> compute(read_rows(files[own]))]
    BY <1>9, <1>11, <2>1, <2>2 DEF run_block
  <2>4. shown.source = own /\ shown.run.rows_done = n
    BY <1>10, <1>15, <1>16, <2>3
  <2> QED
    BY <1>3, <1>13, <1>14, <1>16, <2>4 DEF PageShowsTheRun, shown, st, files
<1>17. CASE ~(state = "running" /\ named_in /\ own \in dirs)
  <2>1. shown.source = None /\ shown.run = compute(<<>>)
    <3>1. CASE state = "running" /\ named_in
      <4>1. find_run_dir(job.job_id, job.engine, DOMAIN files) = None
        BY <1>3, <1>8, <1>12, <1>17, <3>1
      <4>2. job.state \in ACTIVE_STATES /\ job.job_id # None
        BY <1>6, <1>12, <3>1 DEF ACTIVE_STATES
      <4> QED
        BY <1>11, <4>1, <4>2 DEF run_block
    <3>2. CASE ~(state = "running" /\ named_in)
      <4>1. job.state \notin ACTIVE_STATES \/ job.job_id = None
        BY <1>12, <3>2 DEF ACTIVE_STATES
      <4> QED
        BY <1>11, <4>1 DEF run_block
    <3> QED
      BY <3>1, <3>2
  <2>2. shown.run.rows_done = 0
    BY <1>15, <2>1
  <2> QED
    BY <1>3, <1>13, <1>14, <1>17, <2>1, <2>2 DEF PageShowsTheRun, shown, st, files
<1> QED
  BY <1>16, <1>17

\* While a job runs and has a directory the page shows its complete rows,
\* however long the run is, and never another job's.
THEOREM PageAlwaysShowsTheRun == Spec => []PageShowsTheRun
<1>1. Init => PageShowsTheRun
  BY DEF Init, Start, PageShowsTheRun
<1>2. PageShowsTheRun /\ [Next]_input => PageShowsTheRun'
  <2>1. ASSUME Next PROVE PageShowsTheRun'
    <3>1. CASE ReadStatus
      BY <3>1, PageStep
    <3>2. CASE input'.kind # "status"
      BY <3>2 DEF PageShowsTheRun
    <3> QED
      BY <2>1, <3>1, <3>2, OtherKinds
  <2>2. ASSUME PageShowsTheRun, UNCHANGED input PROVE PageShowsTheRun'
    BY <2>2 DEF PageShowsTheRun
  <2> QED
    BY <2>1, <2>2
<1> QED
  BY <1>1, <1>2, PTL DEF Spec

-----------------------------------------------------------------------------
(* The chart, from Prometheus' answer on.                                  *)

\* One series on its own.
LEMMA FlattenOne ==
  ASSUME NEW x
  PROVE  FlattenSeq(<<x>>) = x
<1> DEFINE s == <<x>>
           body(h) == [i \in 1..Len(s) |-> IF i = 1 THEN s[i] ELSE h[i - 1] \o s[i]]
           iter == CHOOSE h : h = body(h)
           w == [i \in {1} |-> x]
<1>1. Len(s) = 1 /\ s[1] = x /\ 1..Len(s) = {1} /\ Len(s) # 0
  OBVIOUS
<1>2. FlattenSeq(s) = iter[Len(s)]
  BY <1>1 DEF FlattenSeq
<1>3. w = body(w)
  BY <1>1
<1>4. iter = body(iter)
  <2> HIDE DEF w, body
  <2> QED
    BY <1>3
<1>5. iter[1] = x
  <2> HIDE DEF iter, s
  <2> QED
    BY <1>1, <1>4
<1> HIDE DEF iter
<1> QED
  BY <1>1, <1>2, <1>5

LEMMA WholeSteps ==
  ASSUME NEW c \in Nat, NEW u \in Nat \ {0}
  PROVE  (c * u) \div u = c
<1> DEFINE n == c * u
           q == n \div u
           r == n % u
<1>1. n \in Nat
  OBVIOUS
<1>2. q \in Int /\ r \in 0..(u - 1) /\ n = q * u + r
  <2> HIDE DEF n
  <2> QED
    BY <1>1
<1>3. c * u = q * u + r
  BY <1>2
<1> HIDE DEF n, q, r
<1>4. PICK d \in Int : q = c + d
  <2>1. q - c \in Int /\ q = c + (q - c)
    BY <1>2
  <2> QED
    BY <2>1
<1>5. q * u = c * u + d * u /\ c * u \in Int /\ d * u \in Int
  BY <1>4
<1>6. 0 = d * u + r
  BY <1>2, <1>3, <1>5
<1>7. d >= 1 => d * u >= u
  OBVIOUS
<1>8. d <= 0 - 1 => d * u <= 0 - u
  <2>1. ASSUME d <= 0 - 1 PROVE d * u <= 0 - u
    <3>1. PICK e \in Nat : d = 0 - 1 - e
      <4>1. (0 - 1) - d \in Nat /\ d = 0 - 1 - ((0 - 1) - d)
        BY <2>1
      <4> QED
        BY <4>1
    <3>2. d * u = 0 - u - e * u /\ e * u >= 0
      BY <3>1
    <3> QED
      BY <3>2
  <2> QED
    BY <2>1
<1>9. d = 0
  BY <1>2, <1>5, <1>6, <1>7, <1>8
<1> QED
  BY <1>4, <1>9 DEF q, n

\* The points of one answer that are numbers: each at the time of a cell of
\* its own.
Placed(pts, m, cell, W, step) ==
  /\ m \in Nat /\ DOMAIN pts = 1..m /\ cell \in [1..m -> 0..W]
  /\ \A i \in 1..m : pts[i].t = 3 + cell[i] * step /\ pts[i].v = cell[i]
  /\ \A i, j \in 1..m : cell[i] = cell[j] => i = j

LEMMA AnswerPoints ==
  ASSUME NEW W \in Nat, NEW S \in SUBSET (0..W), NEW nan, NEW step \in Nat \ {0}
  PROVE  LET cells == [k \in 1 .. W + 1 |-> k - 1]
             point(c) == [t |-> 3 + c * step, v |-> IF c = nan THEN None ELSE c]
             cs == Filter(cells, LAMBDA c : c \in S)
             pts == prom_range(<< [i \in DOMAIN cs |-> point(cs[i])] >>)
         IN  \E cell : Placed(pts, Len(pts), cell, W, step)
<1> DEFINE cells == [k \in 1 .. W + 1 |-> k - 1]
           point(c) == [t |-> 3 + c * step, v |-> IF c = nan THEN None ELSE c]
           cs == Filter(cells, LAMBDA c : c \in S)
           pre == [i \in DOMAIN cs |-> point(cs[i])]
           pts == prom_range(<<pre>>)
           I == {k \in DOMAIN cells : cells[k] \in S}
           J == {i \in DOMAIN pre : pre[i].v # None}
<1>1. cs = Only(cells, I)
  BY DEF Filter
<1>2. PICK w \in Nat : w = W + 1
  OBVIOUS
<1>3. I \in SUBSET (1..w) /\ \A k \in 1..w : cells[k] = k - 1
  BY <1>2
<1>4. PICK at : Takes(cs, at, cells, I)
  <2> HIDE DEF I, cells, cs
  <2> QED
    BY <1>1, <1>3, OnlyAt
<1> DEFINE a == Len(cs)
<1>5. /\ a \in Nat /\ DOMAIN cs = 1..a
      /\ \A k \in 1..a : cs[k] \in 0..W
      /\ \A k, l \in 1..a : k < l => cs[k] < cs[l]
  <2>0. a \in Nat
    <3> HIDE DEF I, cells, cs
    <3>1. Len(Only(cells, I)) \in 0..w
      BY <1>3, OnlyAt
    <3> QED
      BY <1>1, <3>1
  <2> HIDE DEF I, cells, cs, a
  <2>1. \A k \in 1..a : at[k] \in 1..w /\ cs[k] = at[k] - 1
    BY <1>3, <1>4 DEF Takes, a
  <2>2. \A k, l \in 1..a : k < l => at[k] < at[l]
    BY <1>4 DEF Takes, a
  <2>3. \A k \in 1..a : cs[k] \in 0..W
    BY <1>2, <2>1
  <2>4. ASSUME NEW k \in 1..a, NEW l \in 1..a, k < l PROVE cs[k] < cs[l]
    <3>1. at[k] \in Int /\ at[l] \in Int /\ at[k] < at[l] /\ cs[k] = at[k] - 1 /\ cs[l] = at[l] - 1
      BY <2>1, <2>2, <2>4
    <3> QED
      BY <3>1
  <2>5. DOMAIN cs = 1..a
    BY <1>4 DEF Takes, a
  <2> QED
    BY <2>0, <2>3, <2>4, <2>5
<1>6. pts = Only(pre, J)
  <2>1. FlattenSeq(<<pre>>) = pre
    <3> HIDE DEF pre
    <3> QED
      BY FlattenOne
  <2> HIDE DEF pre
  <2> QED
    BY <2>1 DEF prom_range, Filter
<1> HIDE DEF cs, I, cells, a
<1>7. DOMAIN pre = 1..a /\ J \in SUBSET (1..a)
  BY <1>5
<1>8. \A i \in 1..a : pre[i].t = 3 + cs[i] * step /\ (i \in J => pre[i].v = cs[i])
  BY <1>7
<1> HIDE DEF pre, J
<1> DEFINE m == Len(pts)
<1>9. PICK pos : Takes(pts, pos, pre, J)
  <2> HIDE DEF pts
  <2> QED
    BY <1>5, <1>6, <1>7, OnlyAt
<1>10. m \in Nat
  <2>1. Len(Only(pre, J)) \in 0..a
    BY <1>5, <1>7, OnlyAt
  <2> HIDE DEF pts
  <2> QED
    BY <1>5, <1>6, <2>1
<1> HIDE DEF pts, m
<1>11. /\ DOMAIN pts = 1..m
       /\ \A k \in 1..m : pos[k] \in J /\ pos[k] \in 1..a /\ pts[k] = pre[pos[k]]
       /\ \A i, j \in 1..m : i < j => pos[i] < pos[j]
  BY <1>7, <1>9 DEF Takes, m
<1> DEFINE cell == [k \in 1..m |-> cs[pos[k]]]
<1>12. cell \in [1..m -> 0..W]
  BY <1>5, <1>11
<1>13. \A i \in 1..m : pts[i].t = 3 + cell[i] * step /\ pts[i].v = cell[i]
  BY <1>8, <1>11
<1>14. \A i, j \in 1..m : i < j => cell[i] < cell[j]
  BY <1>5, <1>11
<1> HIDE DEF cell
<1>15. \A i, j \in 1..m : cell[i] = cell[j] => i = j
  <2>1. ASSUME NEW i \in 1..m, NEW j \in 1..m, cell[i] = cell[j] PROVE i = j
    <3>1. i \in Int /\ j \in Int /\ cell[i] \in Int
      BY <1>10, <1>12
    <3>2. ~(i < j) /\ ~(j < i)
      BY <1>14, <2>1, <3>1
    <3> QED
      BY <3>1, <3>2
  <2> QED
    BY <2>1
<1>16. Placed(pts, m, cell, W, step)
  BY <1>10, <1>11, <1>12, <1>13, <1>15 DEF Placed
<1>17. m = Len(pts)
  BY DEF m
<1> QED
  BY <1>16, <1>17 DEF pts, pre, cs, cells

\* A chart of such points: each in its cell, and every other cell a gap.
LEMMA ChartOf ==
  ASSUME NEW window \in Nat, NEW step \in Nat \ {0}, NEW pts, NEW m, NEW cell,
         Placed(pts, m, cell, window \div step, step)
  PROVE  LET row == on_grid(pts, 3, step, grid_size(window, step))
         IN  /\ \A i \in DOMAIN pts : Get(row, (pts[i].t - 3) \div step) = pts[i].v
             /\ Cardinality({c \in DOMAIN row : row[c] # None}) = m
<1> DEFINE n == window \div step
           row == on_grid(pts, 3, step, grid_size(window, step))
<1>0. n \in Nat
  OBVIOUS
<1>1. /\ n \in Nat /\ m \in Nat /\ DOMAIN pts = 1..m /\ cell \in [1..m -> 0..n]
      /\ \A i \in 1..m : pts[i].t = 3 + cell[i] * step /\ pts[i].v = cell[i]
      /\ \A i, j \in 1..m : cell[i] = cell[j] => i = j
  BY <1>0 DEF Placed
<1>2. PICK off \in [1..m -> Int] : \A i \in 1..m : off[i] = 0
  <2>1. [i \in 1..m |-> 0] \in [1..m -> Int]
    OBVIOUS
  <2> QED
    BY <2>1
<1>3. \A i \in 1..m : cell[i] \in Nat /\ cell[i] * step \in Int /\ pts[i].t = 3 + cell[i] * step
  <2> HIDE DEF n
  <2>1. \A i \in 1..m : cell[i] \in Nat
    BY <1>1
  <2>2. \A c \in Nat : c * step \in Int
    OBVIOUS
  <2> QED
    BY <1>1, <2>1, <2>2
<1>4. \A i \in 1..m : /\ pts[i].t = 3 + cell[i] * step + off[i]
                      /\ 2 * off[i] < step /\ 2 * (0 - off[i]) < step
  <2>1. ASSUME NEW i \in 1..m
        PROVE  pts[i].t = 3 + cell[i] * step + off[i] /\ 2 * off[i] < step /\ 2 * (0 - off[i]) < step
    <3>1. PICK x \in Int : x = cell[i] * step /\ pts[i].t = 3 + x
      BY <1>3
    <3>2. PICK o \in Int : o = 0 /\ off[i] = o
      BY <1>2
    <3>3. pts[i].t = 3 + x + o /\ 2 * o < step /\ 2 * (0 - o) < step
      BY <3>1, <3>2
    <3> QED
      BY <3>1, <3>2, <3>3
  <2> QED
    BY <2>1
<1>5. /\ DOMAIN row = 0..n
      /\ \A i \in 1..m : row[cell[i]] = pts[i].v
      /\ \A c \in DOMAIN row : (\A i \in 1..m : cell[i] # c) => row[c] = None
  <2>1. PICK start \in Int : start = 3
    OBVIOUS
  <2>2. Scattered(pts, m, start, step, n, cell, off)
    <3> HIDE DEF n
    <3>1. \A i \in 1..m : /\ pts[i].t = start + cell[i] * step + off[i]
                          /\ 2 * off[i] < step /\ 2 * (0 - off[i]) < step
      BY <1>4, <2>1
    <3> QED
      BY <1>1, <1>2, <3>1 DEF Scattered
  <2>3. Keeps(on_grid(pts, start, step, grid_size(window, step)), pts, m, n, cell)
    BY <2>2, GridLosesNothing
  <2> HIDE DEF n
  <2> QED
    BY <2>1, <2>3 DEF Keeps
<1> HIDE DEF row, n
<1>6. ASSUME NEW i \in 1..m PROVE Get(row, (pts[i].t - 3) \div step) = pts[i].v
  <2>1. PICK x \in Int : x = cell[i] * step /\ pts[i].t = 3 + x
    BY <1>3
  <2>2. pts[i].t - 3 = cell[i] * step
    BY <2>1
  <2>3. (pts[i].t - 3) \div step = cell[i]
    BY <1>3, <2>2, WholeSteps
  <2>4. cell[i] \in 0..n
    BY <1>1
  <2> QED
    BY <1>5, <2>3, <2>4 DEF Get
<1>7. {c \in DOMAIN row : row[c] # None} = {cell[i] : i \in 1..m}
  <2>1. \A i \in 1..m : cell[i] \in DOMAIN row /\ row[cell[i]] # None
    <3>1. ASSUME NEW i \in 1..m PROVE cell[i] \in DOMAIN row /\ row[cell[i]] # None
      <4>1. cell[i] \in 0..n
        BY <1>1
      <4>2. row[cell[i]] = cell[i] /\ cell[i] # None
        <5>1. row[cell[i]] = pts[i].v /\ pts[i].v = cell[i]
          BY <1>1, <1>5
        <5>2. cell[i] \in Nat
          BY <1>3
        <5> QED
          BY <5>1, <5>2, NoneAssumption
      <4> QED
        BY <1>5, <4>1, <4>2
    <3> QED
      BY <3>1
  <2>2. \A c \in DOMAIN row : row[c] # None => c \in {cell[i] : i \in 1..m}
    BY <1>5
  <2> QED
    BY <2>1, <2>2
<1>8. Cardinality({cell[i] : i \in 1..m}) = m
  <2> DEFINE T == {cell[i] : i \in 1..m}
  <2>1. cell \in [1..m -> T]
    BY <1>1
  <2>2. \A i, j \in 1..m : cell[i] = cell[j] => i = j
    BY <1>1
  <2>3. \A x \in T : \E i \in 1..m : cell[i] = x
    OBVIOUS
  <2> HIDE DEF T
  <2>4. cell \in Injection(1..m, T)
    BY <2>1, <2>2 DEF Injection, IsInjective
  <2>5. cell \in Surjection(1..m, T)
    BY <2>1, <2>3 DEF Surjection
  <2>6. ExistsBijection(1..m, T)
    BY <2>4, <2>5 DEF Bijection, ExistsBijection
  <2>7. Cardinality(T) = m
    BY <1>1, <2>6, FS_CountingElements
  <2> QED
    BY <2>7 DEF T
<1>9. \A i \in DOMAIN pts : Get(row, (pts[i].t - 3) \div step) = pts[i].v
  BY <1>1, <1>6
<1>10. Cardinality({c \in DOMAIN row : row[c] # None}) = m
  BY <1>7, <1>8
<1> QED
  BY <1>9, <1>10 DEF row

LEMMA ChartStep == DrawChart => GridKeepsEveryPoint'
<1> SUFFICES ASSUME DrawChart PROVE GridKeepsEveryPoint'
  OBVIOUS
<1>1. PICK window \in 1 .. MaxSteps + 1, step \in 1 .. MaxSteps :
    \E one, two \in SUBSET (0 .. window \div step), nan \in 0 .. window \div step :
      LET cells     == [k \in 1 .. window \div step + 1 |-> k - 1]
          point(c)  == [t |-> 3 + c * step, v |-> IF c = nan THEN None ELSE c]
          answer(s) == LET cs == Filter(cells, LAMBDA c : c \in s)
                       IN  << [i \in DOMAIN cs |-> point(cs[i])] >>
      IN  input' = [kind |-> "chart", start |-> 3, step |-> step,
                    n    |-> grid_size(window, step),
                    results |-> <<answer(one), answer(two)>>]
  BY DEF DrawChart
<1> DEFINE W == window \div step
           cells == [k \in 1 .. W + 1 |-> k - 1]
           point(c, nan) == [t |-> 3 + c * step, v |-> IF c = nan THEN None ELSE c]
           answer(s, nan) == LET cs == Filter(cells, LAMBDA c : c \in s)
                             IN  << [i \in DOMAIN cs |-> point(cs[i], nan)] >>
<1>2. PICK one \in SUBSET (0 .. W), two \in SUBSET (0 .. W), nan \in 0 .. W :
        input' = [kind |-> "chart", start |-> 3, step |-> step,
                  n    |-> grid_size(window, step),
                  results |-> <<answer(one, nan), answer(two, nan)>>]
  BY <1>1
<1>3. window \in Nat /\ step \in Nat \ {0} /\ W \in Nat
  BY ReportsAssumption
<1>4. /\ input'.start = 3 /\ input'.step = step /\ input'.n = grid_size(window, step)
      /\ input'.results = <<answer(one, nan), answer(two, nan)>>
  BY <1>2
<1>5. ASSUME NEW s \in SUBSET (0..W)
      PROVE  LET pts == prom_range(answer(s, nan))
                 row == on_grid(pts, 3, step, grid_size(window, step))
             IN  /\ \A i \in DOMAIN pts : Get(row, (pts[i].t - 3) \div step) = pts[i].v
                 /\ Cardinality({c \in DOMAIN row : row[c] # None}) = Len(pts)
  <2> DEFINE pts == prom_range(answer(s, nan))
             row == on_grid(pts, 3, step, grid_size(window, step))
  <2>1. PICK cell : Placed(pts, Len(pts), cell, W, step)
    <3> HIDE DEF W
    <3> QED
      BY <1>3, AnswerPoints
  <2> HIDE DEF pts
  <2>2. /\ \A i \in DOMAIN pts : Get(row, (pts[i].t - 3) \div step) = pts[i].v
        /\ Cardinality({c \in DOMAIN row : row[c] # None}) = Len(pts)
    BY <1>3, <2>1, ChartOf
  <2> QED
    BY <2>2 DEF pts
<1> DEFINE Good(result) ==
             LET pts == prom_range(result)
                 row == on_grid(pts, 3, step, grid_size(window, step))
             IN  /\ \A i \in DOMAIN pts : Get(row, (pts[i].t - 3) \div step) = pts[i].v
                 /\ Cardinality({c \in DOMAIN row : row[c] # None}) = Len(pts)
<1>6. Good(answer(one, nan)) /\ Good(answer(two, nan))
  BY <1>5
<1> HIDE DEF answer
<1>7. \A s \in DOMAIN input'.results : Good(input'.results[s])
  <2>1. DOMAIN input'.results = {1, 2} /\ input'.results[1] = answer(one, nan) /\ input'.results[2] = answer(two, nan)
    BY <1>4
  <2> HIDE DEF Good
  <2> QED
    BY <1>6, <2>1
<1> QED
  BY <1>4, <1>7 DEF GridKeepsEveryPoint

\* Every chart keeps every point Prometheus gave that is a number, in the cell
\* of its own time, whatever the window and the step.
THEOREM GridAlwaysKeepsEveryPoint == Spec => []GridKeepsEveryPoint
<1>1. Init => GridKeepsEveryPoint
  BY DEF Init, Start, GridKeepsEveryPoint
<1>2. GridKeepsEveryPoint /\ [Next]_input => GridKeepsEveryPoint'
  <2>1. ASSUME Next PROVE GridKeepsEveryPoint'
    <3>1. CASE DrawChart
      BY <3>1, ChartStep
    <3>2. CASE input'.kind # "chart"
      BY <3>2 DEF GridKeepsEveryPoint
    <3> QED
      BY <2>1, <3>1, <3>2, OtherKinds
  <2>2. ASSUME GridKeepsEveryPoint, UNCHANGED input PROVE GridKeepsEveryPoint'
    BY <2>2 DEF GridKeepsEveryPoint
  <2> QED
    BY <2>1, <2>2
<1> QED
  BY <1>1, <1>2, PTL DEF Spec

-----------------------------------------------------------------------------
(* The rates of a run, on the page and in the history.                     *)

\* The rows of a file are its lines that parse.
LEMMA RowsAre ==
  ASSUME NEW R, None \notin R, NEW file \in Seq(R \cup {None}), file # None
  PROVE  read_rows(file) \in Seq(R)
<1> DEFINE I == {i \in DOMAIN file : file[i] # None}
<1>1. read_rows(file) = Only(file, I)
  BY DEF read_rows, Filter
<1>2. Len(file) \in Nat /\ I \in SUBSET (1..Len(file)) /\ \A i \in I : file[i] \in R
  OBVIOUS
<1> HIDE DEF I
<1> QED
  BY <1>1, <1>2, OnlyIs

\* A row whose time is under one name, if under any.
Timed(r, key) ==
  /\ r.tokens \in Nat \cup {None}
  /\ r.time \in {<<>>} \cup [{key} -> Nat]
  /\ key = "elapsed_s" => r.elapsed = Get(r.time, key)

\* The history finds it there.
LEMMA ElapsedIs ==
  ASSUME NEW key \in {"elapsed_s", "elapsed_seconds", "elapsed"}, NEW r, Timed(r, key)
  PROVE  elapsed(r, None) = IF Positive(Get(r.time, key)) THEN Get(r.time, key) ELSE None
<1> DEFINE keys == ELAPSED_KEYS
           hits == {i \in DOMAIN keys : Get(r.time, keys[i]) \notin {None, 0}}
<1>1. /\ DOMAIN keys = {1, 2, 3}
      /\ keys[1] = "elapsed_s" /\ keys[2] = "elapsed_seconds" /\ keys[3] = "elapsed"
  BY DEF ELAPSED_KEYS
<1>2. elapsed(r, None) = IF hits = {} THEN None ELSE r.time[keys[Min(hits)]]
  <2>1. <<>> \o ELAPSED_KEYS = ELAPSED_KEYS
    BY DEF ELAPSED_KEYS
  <2> QED
    BY <2>1 DEF elapsed
<1>3. PICK k \in {1, 2, 3} : keys[k] = key /\ \A i \in {1, 2, 3} : keys[i] = key => i = k
  BY <1>1
<1>4. \A name : name # key => Get(r.time, name) = None
  <2>1. DOMAIN r.time \subseteq {key}
    <3>1. r.time = <<>> \/ r.time \in [{key} -> Nat]
      BY DEF Timed
    <3>2. DOMAIN <<>> = {}
      OBVIOUS
    <3> QED
      BY <3>1, <3>2
  <2> QED
    BY <2>1 DEF Get
<1>5. /\ Get(r.time, key) \in Nat \cup {None}
      /\ Get(r.time, key) # None => Get(r.time, key) = r.time[key]
  <2>1. CASE r.time = <<>>
    <3>1. DOMAIN <<>> = {}
      OBVIOUS
    <3> QED
      BY <2>1, <3>1 DEF Get
  <2>2. CASE r.time \in [{key} -> Nat]
    BY <2>2 DEF Get
  <2> QED
    BY <2>1, <2>2 DEF Timed
<1>6. Positive(Get(r.time, key)) <=> Get(r.time, key) \notin {None, 0}
  <2>1. \A x \in Nat \cup {None} : Positive(x) <=> x \notin {None, 0}
    BY DEF Positive
  <2> QED
    BY <1>5, <2>1
<1>7. hits = IF Positive(Get(r.time, key)) THEN {k} ELSE {}
  <2> HIDE DEF keys
  <2> QED
    BY <1>1, <1>3, <1>4, <1>6
<1>8. Min({k}) = k
  <2>1. {k} \in SUBSET Nat /\ {k} # {}
    OBVIOUS
  <2> QED
    BY <2>1, MinIs
<1> HIDE DEF keys, hits
<1> QED
  BY <1>2, <1>3, <1>5, <1>6, <1>7, <1>8

\* The mean of numbers is a rate.
LEMMA MeanType ==
  ASSUME NEW s \in Seq(Int \X Int)
  PROVE  MeanRate(s) \in Int \X Int
<1>1. PICK acc \in [0..Len(s) -> Int \X Int] :
        MeanRate(s) = <<acc[Len(s)][1], acc[Len(s)][2] * Len(s)>>
  BY MeanIs
<1>2. Len(s) \in 0..Len(s) /\ Len(s) \in Int
  OBVIOUS
<1>3. acc[Len(s)] \in Int \X Int
  BY <1>1, <1>2
<1>4. PICK a \in Int, b \in Int : acc[Len(s)] = <<a, b>>
  BY <1>3
<1>5. MeanRate(s) = <<a, b * Len(s)>>
  BY <1>1, <1>4
<1> QED
  BY <1>2, <1>5

\* The tokens of rows are a number.
LEMMA TotalType ==
  ASSUME NEW n \in Nat, NEW rows, DOMAIN rows = 1..n, NEW field,
         \A i \in 1..n : rows[i][field] \in Nat \cup {None}
  PROVE  Total(rows, field) \in Nat
<1> DEFINE f == [i \in DOMAIN rows |-> OrElse(rows[i][field], 0)]
<1>1. \A i \in 1..n : f[i] \in Nat
  BY DEF OrElse
<1>2. DOMAIN f = 1..n
  OBVIOUS
<1>3. IsFiniteSet(1..n)
  BY FS_Interval
<1>4. Total(rows, field) = SumFunctionOnSet(f, 1..n)
  BY <1>2 DEF Total, SumFunction
<1> HIDE DEF f
<1> QED
  BY <1>1, <1>3, <1>4, SumNat

LEMMA RatesOfRows ==
  ASSUME NEW key \in {"elapsed_s", "elapsed_seconds", "elapsed"},
         NEW n \in Nat, NEW rows, DOMAIN rows = 1..n,
         \A i \in 1..n : Timed(rows[i], key)
  PROVE  LET good == {i \in 1..n : Positive(rows[i].tokens) /\ Positive(Get(rows[i].time, key))}
             past == rates(rows, None)
             live == compute(rows)
         IN  /\ (past = None) <=> good = {}
             /\ past # None => past.n = Cardinality(good)
             /\ key = "elapsed_s" =>
                  IF past = None THEN live.per_stream = None
                  ELSE /\ SameRate(past.mean, live.per_stream)
                       /\ Len(live.series) = past.n
                       /\ live.series[past.n].agg = live.aggregate
<1> DEFINE good == {i \in 1..n : Positive(rows[i].tokens) /\ Positive(Get(rows[i].time, key))}
           g == Only(rows, good)
           m == Cardinality(good)
           past == rates(rows, None)
           live == compute(rows)
           pr == [i \in DOMAIN g |-> <<g[i].tokens, elapsed(g[i], None)>>]
           lr == [i \in DOMAIN g |-> <<g[i].tokens, g[i].elapsed>>]
<1>1. /\ m \in Nat /\ DOMAIN g = 1..m /\ Len(g) = m
      /\ \A k \in 1..m : \E i \in good : g[k] = rows[i]
      /\ g = <<>> <=> good = {}
  <2>1. good \in SUBSET (1..n)
    OBVIOUS
  <2> HIDE DEF good
  <2>2. /\ Cardinality(good) \in 0..n
        /\ DOMAIN Only(rows, good) = 1..Cardinality(good) /\ Len(Only(rows, good)) = Cardinality(good)
        /\ \A k \in 1..Cardinality(good) : Only(rows, good)[k] = rows[Nth(good, k)] /\ Nth(good, k) \in good
    BY <2>1, OnlyIs
  <2>3. Only(rows, good) = <<>> <=> good = {}
    BY <2>1, OnlyEmpty
  <2> QED
    BY <2>2, <2>3
<1>2. \A i \in 1..n : elapsed(rows[i], None) # None <=> Positive(Get(rows[i].time, key))
  <2>1. \A i \in 1..n : elapsed(rows[i], None) = IF Positive(Get(rows[i].time, key))
                                                 THEN Get(rows[i].time, key) ELSE None
    BY ElapsedIs
  <2>2. \A x : Positive(x) => x # None
    BY DEF Positive
  <2> QED
    BY <2>1, <2>2
<1>3. past = IF g = <<>> THEN None
             ELSE [n |-> Len(g), mean |-> MeanRate(pr), tokens |-> Total(rows, "tokens")]
  <2> DEFINE h == Filter(rows, LAMBDA r : Positive(r.tokens) /\ elapsed(r, None) # None)
  <2>1. h = g
    <3>1. {i \in DOMAIN rows : Positive(rows[i].tokens) /\ elapsed(rows[i], None) # None} = good
      BY <1>2
    <3> QED
      BY <3>1 DEF Filter
  <2>2. past = IF h = <<>> THEN None
               ELSE [n |-> Len(h), mean |-> MeanRate([i \in DOMAIN h |-> <<h[i].tokens, elapsed(h[i], None)>>]),
                     tokens |-> Total(rows, "tokens")]
    BY DEF rates
  <2> HIDE DEF h, g
  <2> QED
    BY <2>1, <2>2
<1>4. \A k \in 1..m : /\ g[k].tokens \in Nat /\ elapsed(g[k], None) \in Nat
                      /\ key = "elapsed_s" => g[k].elapsed = elapsed(g[k], None)
  <2>1. ASSUME NEW i \in good
        PROVE  /\ rows[i].tokens \in Nat /\ elapsed(rows[i], None) \in Nat
               /\ key = "elapsed_s" => rows[i].elapsed = elapsed(rows[i], None)
    <3>1. Timed(rows[i], key) /\ Positive(rows[i].tokens) /\ Positive(Get(rows[i].time, key))
      OBVIOUS
    <3>2. elapsed(rows[i], None) = Get(rows[i].time, key)
      BY <3>1, ElapsedIs
    <3>3. rows[i].tokens \in Nat
      BY <3>1 DEF Timed, Positive
    <3>4. Get(rows[i].time, key) \in Nat
      <4>1. CASE rows[i].time = <<>>
        <5>1. DOMAIN <<>> = {}
          OBVIOUS
        <5>2. Get(rows[i].time, key) = None
          BY <4>1, <5>1 DEF Get
        <5> QED
          BY <3>1, <5>2 DEF Positive
      <4>2. CASE rows[i].time \in [{key} -> Nat]
        BY <4>2 DEF Get
      <4> QED
        BY <3>1, <4>1, <4>2 DEF Timed
    <3> QED
      BY <3>1, <3>2, <3>3, <3>4 DEF Timed
  <2> HIDE DEF good
  <2> QED
    BY <1>1, <2>1
<1> HIDE DEF g, good, m
<1>5. pr \in Seq(Int \X Int)
  <2>1. pr \in [1..m -> Int \X Int]
    BY <1>1, <1>4
  <2> QED
    BY <1>1, <2>1
<1>6. key = "elapsed_s" => lr = pr
  BY <1>1, <1>4
<1>7. Total(rows, "tokens") \in Nat
  <2>1. \A i \in 1..n : rows[i]["tokens"] \in Nat \cup {None}
    BY DEF Timed
  <2> QED
    BY <2>1, TotalType
<1>8. MeanRate(pr) \in Int \X Int
  <2> HIDE DEF pr
  <2> QED
    BY <1>5, MeanType
<1> DEFINE doc == [n |-> Len(g), mean |-> MeanRate(pr), tokens |-> Total(rows, "tokens")]
<1>9. doc # None
  <2> HIDE DEF pr
  <2>1. doc \in RatesDoc
    BY <1>1, <1>7, <1>8 DEF RatesDoc
  <2> QED
    BY <2>1, DocumentAssumption
<1>10. doc.n = m /\ doc.mean = MeanRate(pr)
  BY <1>1
<1> DEFINE upto(k) == <<Total(SubSeq(g, 1, k), "tokens"), Total(SubSeq(g, 1, k), "elapsed")>>
           series == [i \in DOMAIN g |-> [agg |-> upto(i), stream |-> <<g[i].tokens, g[i].elapsed>>]]
<1>11. key = "elapsed_s" =>
         /\ live.aggregate = (IF g = <<>> THEN None ELSE upto(Len(g)))
         /\ live.per_stream = (IF g = <<>> THEN None ELSE MeanRate(lr))
         /\ live.series = series
  <2> SUFFICES ASSUME key = "elapsed_s"
               PROVE  /\ live.aggregate = (IF g = <<>> THEN None ELSE upto(Len(g)))
                      /\ live.per_stream = (IF g = <<>> THEN None ELSE MeanRate(lr))
                      /\ live.series = series
    OBVIOUS
  <2> DEFINE h == Filter(rows, usable)
  <2>1. h = g
    <3>1. {i \in DOMAIN rows : usable(rows[i])} = good
      BY DEF usable, Timed, good
    <3> QED
      BY <3>1 DEF Filter, g
  <2> DEFINE up(k) == <<Total(SubSeq(h, 1, k), "tokens"), Total(SubSeq(h, 1, k), "elapsed")>>
  <2>2. /\ live.aggregate = (IF h = <<>> THEN None ELSE up(Len(h)))
        /\ live.per_stream = (IF h = <<>> THEN None
                              ELSE MeanRate([i \in DOMAIN h |-> <<h[i].tokens, h[i].elapsed>>]))
        /\ live.series = [i \in DOMAIN h |-> [agg |-> up(i), stream |-> <<h[i].tokens, h[i].elapsed>>]]
    BY DEF compute
  <2> HIDE DEF h, live
  <2> QED
    BY <2>1, <2>2
<1>12. good # {} => series[m].agg = upto(Len(g)) /\ Len(series) = m
  <2>1. good # {} => m \in 1..m
    <3>1. g # <<>> => m # 0
      <4>1. DOMAIN g = 1..m /\ m = 0 => g = <<>>
        BY DEF g, Only, m
      <4> QED
        BY <1>1, <4>1
    <3> QED
      BY <1>1, <3>1
  <2>2. DOMAIN series = 1..m
    BY <1>1
  <2> HIDE DEF upto
  <2> QED
    BY <1>1, <2>1, <2>2
<1> HIDE DEF pr, lr, series, upto, live, past, doc
<1>13. (past = None) <=> good = {}
  BY <1>1, <1>3, <1>9 DEF doc
<1>14. past # None => past = doc /\ past.n = m /\ past.mean = MeanRate(pr)
  BY <1>3, <1>10 DEF doc
<1>15. ASSUME key = "elapsed_s"
       PROVE  IF past = None THEN live.per_stream = None
              ELSE /\ SameRate(past.mean, live.per_stream)
                   /\ Len(live.series) = past.n
                   /\ live.series[past.n].agg = live.aggregate
  <2>1. CASE past = None
    BY <1>1, <1>11, <1>13, <1>15, <2>1
  <2>2. CASE past # None
    <3>1. good # {} /\ g # <<>>
      BY <1>1, <1>13, <2>2
    <3>2. live.per_stream = past.mean
      BY <1>6, <1>11, <1>14, <1>15, <2>2, <3>1
    <3>3. SameRate(past.mean, live.per_stream)
      BY <3>2 DEF SameRate
    <3> QED
      BY <1>11, <1>12, <1>14, <1>15, <2>2, <3>1, <3>3
  <2> QED
    BY <2>1, <2>2
<1>16. /\ (past = None) <=> good = {}
       /\ past # None => past.n = Cardinality(good)
       /\ key = "elapsed_s" =>
            IF past = None THEN live.per_stream = None
            ELSE /\ SameRate(past.mean, live.per_stream)
                 /\ Len(live.series) = past.n
                 /\ live.series[past.n].agg = live.aggregate
  BY <1>13, <1>14, <1>15 DEF m
<1> QED
  BY <1>16 DEF good, past, live

\* The rows a writer leaves are such rows.
LEMMA RowIs ==
  ASSUME NEW key \in {"elapsed_s", "elapsed_seconds", "elapsed"},
         NEW c \in Nat \cup {None}, NEW t \in Nat \cup {None}
  PROVE  Row(c, key, t, "f") \in RowDoc /\ Timed(Row(c, key, t, "f"), key)
<1> DEFINE e == IF key = "elapsed_s" THEN t ELSE None
           w == IF t = None THEN <<>> ELSE [k \in {key} |-> t]
           b == c = None
           r == Row(c, key, t, "f")
<1>1. r = [tokens |-> c, error |-> b, elapsed |-> e, time |-> w, family |-> "f"]
  BY DEF Row
<1>2. w \in {<<>>} \cup [{key} -> Nat]
  OBVIOUS
<1>3. w \in {<<>>} \cup UNION {[{k} -> Nat] : k \in {"elapsed_s", "elapsed_seconds", "elapsed"}}
  <2> HIDE DEF w
  <2> QED
    BY <1>2
<1>4. e \in Nat \cup {None} /\ b \in BOOLEAN
  OBVIOUS
<1>5. Get(w, key) = t
  <2>1. CASE t = None
    <3>1. w = <<>> /\ DOMAIN <<>> = {}
      BY <2>1
    <3> QED
      BY <2>1, <3>1 DEF Get
  <2>2. CASE t # None
    <3>1. w = [k \in {key} |-> t]
      BY <2>2
    <3> QED
      BY <3>1 DEF Get
  <2> QED
    BY <2>1, <2>2
<1>6. key = "elapsed_s" => e = t
  OBVIOUS
<1> HIDE DEF e, w, b, r
<1>7. r \in RowDoc
  BY <1>1, <1>3, <1>4 DEF RowDoc
<1>8. Timed(r, key)
  BY <1>1, <1>2, <1>5, <1>6 DEF Timed
<1> QED
  BY <1>7, <1>8 DEF r

LEMMA RatesStep == ReadRows => RatesSurviveTheWriter'
<1> SUFFICES ASSUME ReadRows PROVE RatesSurviveTheWriter'
  OBVIOUS
<1>1. \A key \in {"elapsed_s", "elapsed_seconds", "elapsed"} :
        \A r \in Written(key) : r \in RowDoc /\ Timed(r, key)
  <2>1. \A c \in {None} \cup Small : c \in Nat \cup {None}
    BY ReportsAssumption
  <2>2. SUFFICES ASSUME NEW key \in {"elapsed_s", "elapsed_seconds", "elapsed"}, NEW r \in Written(key)
                 PROVE  r \in RowDoc /\ Timed(r, key)
    OBVIOUS
  <2>3. PICK m \in ({None} \cup Small) \X ({None} \cup Small) : r = Row(m[1], key, m[2], "f")
    BY DEF Written
  <2>4. m[1] \in Nat \cup {None} /\ m[2] \in Nat \cup {None}
    BY <2>1
  <2> QED
    BY <2>3, <2>4, RowIs
<1>2. PICK key \in {"elapsed_s", "elapsed_seconds", "elapsed"} :
        \E file \in BoundedSeq({None} \cup Written(key), MaxSteps) :
          input' = [kind |-> "rows", key |-> key, file |-> file]
  BY DEF ReadRows
<1>10. PICK file \in BoundedSeq({None} \cup Written(key), MaxSteps) :
        input' = [kind |-> "rows", key |-> key, file |-> file]
  BY <1>2
<1>3. \A r \in Written(key) : r \in RowDoc /\ Timed(r, key)
  BY <1>1
<1>4. file \in Seq(Written(key) \cup {None})
  <2>1. MaxSteps \in Nat /\ {None} \cup Written(key) = Written(key) \cup {None}
    BY ReportsAssumption
  <2> QED
    BY <2>1, BoundedIs
<1>5. None \notin Written(key) /\ file # None
  <2>1. Written(key) \cup {None} \subseteq RowDoc \cup {None}
    BY <1>3
  <2>2. file \in Seq(RowDoc \cup {None})
    BY <1>4, <2>1, SeqMonotonic
  <2> QED
    BY <1>3, <2>2, DocumentAssumption
<1> DEFINE rows == read_rows(file)
<1>6. rows \in Seq(Written(key))
  BY <1>4, <1>5, RowsAre
<1> HIDE DEF rows
<1> DEFINE n == Len(rows)
<1>7. n \in Nat /\ DOMAIN rows = 1..n /\ \A i \in 1..n : Timed(rows[i], key)
  BY <1>3, <1>6
<1> HIDE DEF n
<1>8. LET good == {i \in 1..n : Positive(rows[i].tokens) /\ Positive(Get(rows[i].time, key))}
          past == rates(rows, None)
          live == compute(rows)
      IN  /\ (past = None) <=> good = {}
          /\ past # None => past.n = Cardinality(good)
          /\ key = "elapsed_s" =>
               IF past = None THEN live.per_stream = None
               ELSE /\ SameRate(past.mean, live.per_stream)
                    /\ Len(live.series) = past.n
                    /\ live.series[past.n].agg = live.aggregate
  BY <1>7, RatesOfRows
<1>9. input'.key = key /\ read_rows(input'.file) = rows
  BY <1>10 DEF rows
<1> QED
  BY <1>7, <1>8, <1>9 DEF RatesSurviveTheWriter

\* Whatever the numbers and whichever name the time goes by, the history's rate
\* of a run is made of every row with tokens and a time, and is the page's.
THEOREM RatesAlwaysSurviveTheWriter == Spec => []RatesSurviveTheWriter
<1>1. Init => RatesSurviveTheWriter
  BY DEF Init, Start, RatesSurviveTheWriter
<1>2. RatesSurviveTheWriter /\ [Next]_input => RatesSurviveTheWriter'
  <2>1. ASSUME Next PROVE RatesSurviveTheWriter'
    <3>1. CASE ReadRows
      BY <3>1, RatesStep
    <3>2. CASE input'.kind # "rows"
      BY <3>2 DEF RatesSurviveTheWriter
    <3> QED
      BY <2>1, <3>1, <3>2, OtherKinds
  <2>2. ASSUME RatesSurviveTheWriter, UNCHANGED input PROVE RatesSurviveTheWriter'
    BY <2>2 DEF RatesSurviveTheWriter
  <2> QED
    BY <2>1, <2>2
<1> QED
  BY <1>1, <1>2, PTL DEF Spec

-----------------------------------------------------------------------------
(* The counter of an engine that was restarted now and then.               *)

\* Tokens made from after interval a up to interval b.
MadeIn(past, a, b) == SumFunctionOnSet([k \in a + 1 .. b |-> past[k].made], a + 1 .. b)

PastDoc == [made : Nat, restart : BOOLEAN, scraped : BOOLEAN]

LEMMA MadeIs ==
  ASSUME NEW past \in Seq(PastDoc)
  PROVE  \A k \in 1 .. Len(past) : past[k].made \in Nat /\ past[k].restart \in BOOLEAN
<1> SUFFICES ASSUME NEW k \in 1 .. Len(past)
             PROVE  past[k].made \in Nat /\ past[k].restart \in BOOLEAN
  OBVIOUS
<1>1. past[k] \in PastDoc
  OBVIOUS
<1> QED
  BY <1>1 DEF PastDoc

LEMMA IntervalFinite ==
  ASSUME NEW a \in Int, NEW b \in Int
  PROVE  IsFiniteSet(a .. b)
BY FS_Interval

\* Since the last restart before it, or the start of the engine.
LEMMA CounterIs ==
  ASSUME NEW past \in Seq(PastDoc), NEW n \in 1 .. Len(past)
  PROVE  \E lo \in 1 .. n :
           /\ CounterAfter(past, n) = MadeIn(past, lo - 1, n)
           /\ \A i \in lo + 1 .. n : ~past[i].restart
           /\ lo = 1 \/ past[lo].restart
           /\ CounterAfter(past, n) \in Nat
<1> DEFINE S == {1} \cup {i \in 1 .. n : past[i].restart}
<1>1. n \in Nat /\ S \in SUBSET (0..n) /\ S # {} /\ \A i \in S : i \in 1..n /\ (i = 1 \/ past[i].restart)
  OBVIOUS
<1>2. \A i \in 1..n : past[i].restart => i \in S
  OBVIOUS
<1>3. CounterAfter(past, n) = SumFunction([i \in Max(S) .. n |-> past[i].made])
  BY DEF CounterAfter
<1> HIDE DEF S
<1>4. PICK lo \in S : lo = Max(S) /\ \A x \in S : x <= lo
  BY <1>1, LargestIs
<1>5. lo \in 1..n /\ lo - 1 + 1 = lo
  BY <1>1, <1>4
<1>6. \A i \in lo .. n : past[i].made \in Nat
  BY <1>5, MadeIs
<1>7. CounterAfter(past, n) = SumFunctionOnSet([i \in lo .. n |-> past[i].made], lo .. n)
  BY <1>3, <1>4, Zenon DEF SumFunction
<1>8. CounterAfter(past, n) = MadeIn(past, lo - 1, n)
  BY <1>5, <1>7, Zenon DEF MadeIn
<1>9. CounterAfter(past, n) \in Nat
  <2>1. IsFiniteSet(lo .. n)
    BY <1>5, IntervalFinite
  <2>2. \A i \in lo .. n : [i_1 \in lo .. n |-> past[i_1].made][i] \in Nat
    BY <1>6
  <2> QED
    BY <1>7, <2>1, <2>2, SumNat
<1>10. \A i \in lo + 1 .. n : ~past[i].restart
  BY <1>2, <1>4, <1>5
<1> QED
  BY <1>1, <1>4, <1>5, <1>8, <1>9, <1>10

\* Tokens made up to b are those made up to a and those made since.
LEMMA MadeJoin ==
  ASSUME NEW past \in Seq(PastDoc), NEW a \in Nat, NEW b \in Nat, NEW c \in Nat,
         a <= b, b <= c, c <= Len(past)
  PROVE  /\ MadeIn(past, a, b) \in Nat /\ MadeIn(past, b, c) \in Nat
         /\ MadeIn(past, a, c) = MadeIn(past, a, b) + MadeIn(past, b, c)
<1> DEFINE f == [k \in a + 1 .. c |-> past[k].made]
<1>1. \A k \in a + 1 .. c : f[k] \in Nat /\ f[k] = past[k].made
  <2>1. \A k \in a + 1 .. c : k \in 1 .. Len(past)
    OBVIOUS
  <2> QED
    BY <2>1, MadeIs
<1>2. PICK S, T : S = a + 1 .. b /\ T = b + 1 .. c
  OBVIOUS
<1>3. IsFiniteSet(S) /\ IsFiniteSet(T)
  BY <1>2, IntervalFinite
<1>4. S \cap T = {} /\ S \cup T = a + 1 .. c
  BY <1>2
<1>5. (\A k \in S : f[k] \in Nat /\ f[k] \in Int) /\ (\A k \in T : f[k] \in Nat /\ f[k] \in Int)
  BY <1>1, <1>4
<1>6. MadeIn(past, a, c) = SumFunctionOnSet(f, S \cup T)
  BY <1>4, Zenon DEF MadeIn
<1>7. MadeIn(past, a, b) = SumFunctionOnSet(f, S)
  <2>1. \A k \in S : f[k] \in Int /\ [k_1 \in a + 1 .. b |-> past[k_1].made][k] = f[k]
    BY <1>1, <1>2, <1>4, <1>5
  <2> HIDE DEF f
  <2>2. SumFunctionOnSet(f, S) = SumFunctionOnSet([k_1 \in a + 1 .. b |-> past[k_1].made], S)
    BY <1>3, <2>1, SumSame
  <2> QED
    BY <1>2, <2>2, Zenon DEF MadeIn
<1>8. MadeIn(past, b, c) = SumFunctionOnSet(f, T)
  <2>1. \A k \in T : f[k] \in Int /\ [k_1 \in b + 1 .. c |-> past[k_1].made][k] = f[k]
    BY <1>1, <1>2, <1>4, <1>5
  <2> HIDE DEF f
  <2>2. SumFunctionOnSet(f, T) = SumFunctionOnSet([k_1 \in b + 1 .. c |-> past[k_1].made], T)
    BY <1>3, <2>1, SumSame
  <2> QED
    BY <1>2, <2>2, Zenon DEF MadeIn
<1> HIDE DEF f
<1>9. SumFunctionOnSet(f, S) \in Nat /\ SumFunctionOnSet(f, T) \in Nat
  BY <1>3, <1>5, SumNat
<1>10. SumFunctionOnSet(f, S \cup T) = SumFunctionOnSet(f, S) + SumFunctionOnSet(f, T)
  <2>1. \A k \in S \cup T : f[k] \in Int
    BY <1>5
  <2> QED
    BY <1>3, <1>4, <2>1, SumJoin
<1> QED
  BY <1>6, <1>7, <1>8, <1>9, <1>10

\* Between two scrapes the counter rose by no more than was made, and by
\* exactly that when the engine was not restarted.
LEMMA CounterRises ==
  ASSUME NEW past \in Seq(PastDoc), NEW a \in 1 .. Len(past), NEW b \in 1 .. Len(past), a < b
  PROVE  /\ CounterAfter(past, b) - CounterAfter(past, a) \in Int
         /\ MadeIn(past, a, b) \in Nat
         /\ CounterAfter(past, b) - CounterAfter(past, a) <= MadeIn(past, a, b)
         /\ (~\E k \in a + 1 .. b : past[k].restart) =>
               CounterAfter(past, b) - CounterAfter(past, a) = MadeIn(past, a, b)
<1> DEFINE va == CounterAfter(past, a)
           vb == CounterAfter(past, b)
<1>1. PICK la \in 1 .. a : /\ va = MadeIn(past, la - 1, a)
                           /\ \A i \in la + 1 .. a : ~past[i].restart
                           /\ la = 1 \/ past[la].restart
                           /\ va \in Nat
  BY CounterIs
<1>2. PICK lb \in 1 .. b : /\ vb = MadeIn(past, lb - 1, b)
                           /\ \A i \in lb + 1 .. b : ~past[i].restart
                           /\ lb = 1 \/ past[lb].restart
                           /\ vb \in Nat
  BY CounterIs
<1> HIDE DEF va, vb
<1>3. a \in Nat /\ b \in Nat /\ a < b /\ b <= Len(past) /\ lb - 1 \in Nat /\ la - 1 \in Nat /\ Len(past) \in Nat
  OBVIOUS
<1>4. MadeIn(past, a, b) \in Nat
  <2>1. a <= a /\ a <= b
    BY <1>3
  <2> QED
    BY <1>3, <2>1, MadeJoin
<1>5. CASE a < lb
  <2>1. a <= lb - 1 /\ lb - 1 <= b /\ lb \in a + 1 .. b
    BY <1>3, <1>5
  <2>2. MadeIn(past, a, lb - 1) \in Nat /\ MadeIn(past, a, b) = MadeIn(past, a, lb - 1) + MadeIn(past, lb - 1, b)
    <3>1. PICK m \in Nat : m = lb - 1
      BY <1>3
    <3>2. a \in Nat /\ b \in Nat /\ a <= m /\ m <= b /\ b <= Len(past)
      BY <1>3, <2>1, <3>1
    <3>3. MadeIn(past, a, m) \in Nat /\ MadeIn(past, a, b) = MadeIn(past, a, m) + MadeIn(past, m, b)
      BY <3>2, MadeJoin, Zenon
    <3> QED
      BY <3>1, <3>3
  <2>3. vb <= MadeIn(past, a, b) /\ lb # 1
    BY <1>2, <2>2, <1>3, <1>5
  <2>4. past[lb].restart
    BY <1>2, <2>3
  <2> QED
    BY <1>1, <1>2, <1>4, <2>1, <2>3, <2>4 DEF va, vb
<1>6. CASE lb <= a
  <2>1. la = lb
    <3>1. CASE la < lb
      <4>1. lb \in la + 1 .. a /\ lb # 1
        BY <1>6, <3>1
      <4> QED
        BY <1>1, <1>2, <4>1
    <3>2. CASE lb < la
      <4>1. la \in lb + 1 .. b /\ la # 1
        BY <1>3, <3>2
      <4> QED
        BY <1>1, <1>2, <4>1
    <3> QED
      BY <3>1, <3>2
  <2>2. la - 1 <= a /\ a <= b
    BY <1>3
  <2>3. MadeIn(past, la - 1, b) = MadeIn(past, la - 1, a) + MadeIn(past, a, b)
    BY <1>3, <2>2, MadeJoin
  <2>4. vb = va + MadeIn(past, a, b)
    BY <1>1, <1>2, <2>1, <2>3
  <2> QED
    BY <1>1, <1>2, <1>4, <2>4 DEF va, vb
<1> QED
  BY <1>3, <1>5, <1>6

RecentWith(r, ups, pts, now) ==
  /\ ups = {i \in 2 .. Len(pts) : pts[i].v - pts[i - 1].v > 0}
  /\ r = IF ups = {} THEN [tokens |-> 0, age |-> None]
         ELSE [tokens |-> SumFunction([i \in ups |-> pts[i].v - pts[i - 1].v]),
               age |-> IF now - pts[Max(ups)].t > 0 THEN now - pts[Max(ups)].t ELSE 0]

LEMMA RecentUnfolds ==
  ASSUME NEW pts, NEW now, ~(Len(pts) < 2)
  PROVE  \E ups : RecentWith(recent(pts, now), ups, pts, now)
<1> DEFINE ups == {i \in 2 .. Len(pts) : pts[i].v - pts[i - 1].v > 0}
<1>1. RecentWith(recent(pts, now), ups, pts, now)
  BY Zenon DEF recent, RecentWith
<1> QED
  BY <1>1, Zenon

\* What the page shows of a counter read at some moments.
CountsOf(r, past, m, at) ==
  LET made(i) == MadeIn(past, at[i - 1], at[i])
      clean == {i \in 2 .. m : ~\E k \in at[i - 1] + 1 .. at[i] : past[k].restart}
  IN  /\ (r.tokens = None) <=> m < 2
      /\ r.tokens # None =>
           /\ r.tokens <= SumFunctionOnSet([i \in 2 .. m |-> made(i)], 2 .. m)
           /\ r.tokens >= SumFunctionOnSet([i \in clean |-> made(i)], clean)
           /\ \A i \in clean : made(i) > 0 => r.age # None /\ Len(past) - r.age >= at[i]

LEMMA RecentIs ==
  ASSUME NEW past \in Seq(PastDoc), NEW m \in Nat, NEW at \in [1 .. m -> 1 .. Len(past)],
         \A k, l \in 1 .. m : k < l => at[k] < at[l],
         NEW pts, pts = [i \in 1 .. m |-> [t |-> at[i], v |-> CounterAfter(past, at[i])]]
  PROVE  CountsOf(recent(pts, Len(past)), past, m, at)
<1> DEFINE r == recent(pts, Len(past))
           made == [i \in 2 .. m |-> MadeIn(past, at[i - 1], at[i])]
           gain == [i \in 2 .. m |-> pts[i].v - pts[i - 1].v]
           clean == {i \in 2 .. m : ~\E k \in at[i - 1] + 1 .. at[i] : past[k].restart}
           ups == {i \in 2 .. m : gain[i] > 0}
           risen == [i \in 2 .. m |-> IF gain[i] > 0 THEN gain[i] ELSE 0]
           age == Len(past) - pts[Max(ups)].t
<1>1. DOMAIN pts = 1 .. m /\ Len(pts) = m /\ \A i \in 1 .. m : pts[i].t = at[i] /\ pts[i].v = CounterAfter(past, at[i])
  OBVIOUS
<1>2. \A i \in 2 .. m : /\ gain[i] \in Int /\ made[i] \in Nat /\ gain[i] <= made[i]
                        /\ i \in clean => gain[i] = made[i]
  <2> SUFFICES ASSUME NEW i \in 2 .. m
               PROVE  /\ gain[i] \in Int /\ made[i] \in Nat /\ gain[i] <= made[i]
                      /\ i \in clean => gain[i] = made[i]
    OBVIOUS
  <2>1. PICK a \in 1 .. Len(past), b \in 1 .. Len(past) : a = at[i - 1] /\ b = at[i] /\ a < b
    <3>1. i - 1 \in 1 .. m /\ i \in 1 .. m /\ i - 1 < i
      OBVIOUS
    <3> QED
      BY <3>1
  <2>2. gain[i] = CounterAfter(past, b) - CounterAfter(past, a) /\ made[i] = MadeIn(past, a, b)
    BY <1>1, <2>1
  <2>3. i \in clean => ~\E k \in a + 1 .. b : past[k].restart
    BY <2>1
  <2> HIDE DEF gain, made, clean
  <2>4. /\ CounterAfter(past, b) - CounterAfter(past, a) \in Int
        /\ MadeIn(past, a, b) \in Nat
        /\ CounterAfter(past, b) - CounterAfter(past, a) <= MadeIn(past, a, b)
        /\ (~\E k \in a + 1 .. b : past[k].restart) =>
               CounterAfter(past, b) - CounterAfter(past, a) = MadeIn(past, a, b)
    BY <2>1, CounterRises
  <2> QED
    BY <2>2, <2>3, <2>4
<1>3. clean \in SUBSET (2 .. m) /\ ups \in SUBSET (2 .. m) /\ IsFiniteSet(2 .. m)
  BY IntervalFinite
<1>4. IsFiniteSet(clean) /\ IsFiniteSet(ups)
  BY <1>3, FS_Subset
<1>5. ASSUME m >= 2
      PROVE  /\ r.tokens = SumFunctionOnSet(gain, ups)
             /\ ups # {} => r.age = IF age > 0 THEN age ELSE 0
  <2>1. ~(Len(pts) < 2)
    BY <1>1, <1>5
  <2>2. PICK U : RecentWith(r, U, pts, Len(past))
    <3> HIDE DEF made, gain, clean, ups, risen, age
    <3> QED
      BY <2>1, RecentUnfolds
  <2>3. U = ups
    BY <1>1, <2>2 DEF RecentWith
  <2>4. SumFunction([i \in U |-> pts[i].v - pts[i - 1].v])
          = SumFunctionOnSet([i \in U |-> pts[i].v - pts[i - 1].v], U)
    BY Zenon DEF SumFunction
  <2>5. SumFunctionOnSet([i \in U |-> pts[i].v - pts[i - 1].v], U) = SumFunctionOnSet(gain, U)
    <3>1. \A i \in U : i \in 2 .. m
      BY <1>3, <2>3
    <3>2. \A i \in U : gain[i] = [j \in U |-> pts[j].v - pts[j - 1].v][i]
      BY <3>1
    <3>3. IsFiniteSet(U)
      BY <1>4, <2>3
    <3> HIDE DEF gain, ups
    <3>4. \A i \in U : gain[i] \in Int
      BY <3>1, <1>2
    <3> QED
      BY <3>2, <3>3, <3>4, SumSame
  <2>6. U = {} => SumFunctionOnSet(gain, U) = 0
    BY SumZero, FS_EmptySet
  <2>7. U # {} => r.age = IF Len(past) - pts[Max(U)].t > 0 THEN Len(past) - pts[Max(U)].t ELSE 0
    <3> HIDE DEF r, ups
    <3> QED
      BY <2>2 DEF RecentWith
  <2>8. r.tokens = SumFunctionOnSet(gain, U)
    <3> HIDE DEF r, ups, gain
    <3>1. CASE U = {}
      BY <2>2, <2>6, <3>1 DEF RecentWith
    <3>2. CASE U # {}
      BY <2>2, <2>4, <2>5, <3>2 DEF RecentWith
    <3> QED
      BY <3>1, <3>2
  <2> HIDE DEF gain, r, ups
  <2> QED
    BY <2>3, <2>7, <2>8
<1>6. (\A i \in 2 .. m : risen[i] \in Nat /\ risen[i] <= made[i])
      /\ (\A i \in clean : risen[i] = made[i])
      /\ (\A i \in ups : gain[i] = risen[i])
      /\ \A i \in (2 .. m) \ ups : risen[i] = 0
  <2> HIDE DEF gain, made, clean
  <2> QED
    BY <1>2, <1>3
<1> HIDE DEF gain, made, clean, ups, risen, r, age
<1>7. /\ SumFunctionOnSet(gain, ups) = SumFunctionOnSet(risen, ups)
      /\ SumFunctionOnSet(risen, ups) = SumFunctionOnSet(risen, 2 .. m)
      /\ SumFunctionOnSet(risen, ups) \in Nat
  <2>1. \A i \in ups : risen[i] \in Int /\ gain[i] = risen[i]
    BY <1>3, <1>6
  <2>2. SumFunctionOnSet(risen, ups) = SumFunctionOnSet(gain, ups)
    BY <1>4, <2>1, SumSame
  <2>3. \A i \in 2 .. m : risen[i] \in Nat
    BY <1>6
  <2>4. SumFunctionOnSet(risen, ups) \in Nat
    BY <1>3, <2>3, SumWithin
  <2>5. \A i \in (2 .. m) \ ups : risen[i] = 0
    BY <1>6
  <2>6. SumFunctionOnSet(risen, ups) = SumFunctionOnSet(risen, 2 .. m)
    BY <1>3, <2>3, <2>5, SumSupport
  <2> QED
    BY <2>2, <2>4, <2>6
<1>8. SumFunctionOnSet(risen, 2 .. m) <= SumFunctionOnSet(made, 2 .. m)
  <2>1. \A i \in 2 .. m : risen[i] \in Int /\ made[i] \in Int /\ risen[i] <= made[i]
    BY <1>2, <1>6
  <2> QED
    BY <1>3, <2>1, SumLeq
<1>9. SumFunctionOnSet(made, clean) <= SumFunctionOnSet(risen, 2 .. m)
  <2>1. \A i \in clean : risen[i] \in Int /\ made[i] = risen[i]
    BY <1>3, <1>6
  <2>2. SumFunctionOnSet(risen, clean) = SumFunctionOnSet(made, clean)
    BY <1>4, <2>1, SumSame
  <2>3. SumFunctionOnSet(risen, clean) <= SumFunctionOnSet(risen, 2 .. m)
    BY <1>3, <1>6, SumWithin
  <2> QED
    BY <2>2, <2>3
<1>10. SumFunctionOnSet([i \in clean |-> MadeIn(past, at[i - 1], at[i])], clean) = SumFunctionOnSet(made, clean)
  <2>1. \A i \in clean : made[i] \in Int /\ [j \in clean |-> MadeIn(past, at[j - 1], at[j])][i] = made[i]
    BY <1>2, <1>3 DEF made
  <2> QED
    BY <1>4, <2>1, SumSame
<1>11. ASSUME NEW i \in clean, made[i] > 0, m >= 2
       PROVE  r.age \in Nat /\ Len(past) - r.age >= at[i]
  <2>1. i \in ups
    BY <1>2, <1>3, <1>11 DEF ups
  <2>2. PICK k : k = Max(ups)
    OBVIOUS
  <2>3. k \in ups /\ i <= k
    <3>1. ups \in SUBSET (0 .. m) /\ ups # {}
      BY <1>3, <2>1
    <3> QED
      BY <2>1, <2>2, <3>1, LargestIs
  <2>4. k \in 1 .. m /\ i \in 1 .. m /\ i <= k
    BY <1>3, <2>3
  <2>5. at[k] \in 1 .. Len(past) /\ at[i] \in 1 .. Len(past) /\ at[i] <= at[k]
    BY <2>4
  <2>6. age = Len(past) - at[k]
    BY <1>1, <2>2, <2>4 DEF age
  <2>7. r.age = IF age > 0 THEN age ELSE 0
    BY <1>5, <1>11, <2>1
  <2> QED
    BY <2>5, <2>6, <2>7
<1>12. CASE m < 2
  <2>1. r.tokens = None
    BY <1>1, <1>12 DEF r, recent
  <2> QED
    BY <1>12, <2>1 DEF r, CountsOf
<1>13. CASE m >= 2
  <2>1. r.tokens \in Nat /\ r.tokens = SumFunctionOnSet(risen, 2 .. m)
    BY <1>5, <1>7, <1>13
  <2>2. r.tokens # None
    BY <2>1, NoneAssumption
  <2>3. r.tokens <= SumFunctionOnSet([i \in 2 .. m |-> MadeIn(past, at[i - 1], at[i])], 2 .. m)
    BY <1>8, <2>1 DEF made
  <2>4. r.tokens >= SumFunctionOnSet([i \in clean |-> MadeIn(past, at[i - 1], at[i])], clean)
    BY <1>9, <1>10, <2>1
  <2>5. \A i \in clean : MadeIn(past, at[i - 1], at[i]) > 0 => r.age # None /\ Len(past) - r.age >= at[i]
    <3>1. \A i \in clean : made[i] = MadeIn(past, at[i - 1], at[i])
      BY <1>3 DEF made
    <3> QED
      BY <1>11, <1>13, <3>1, NoneAssumption
  <2>6. ~(m < 2)
    BY <1>13
  <2> QED
    BY <2>2, <2>3, <2>4, <2>5, <2>6 DEF r, clean, CountsOf
<1> QED
  BY <1>12, <1>13

LEMMA CounterStep == ReadCounter => RecentCounts'
<1> SUFFICES ASSUME ReadCounter PROVE RecentCounts'
  OBVIOUS
<1>1. PICK past \in BoundedSeq([made : Small, restart : BOOLEAN, scraped : BOOLEAN], MaxSteps + 1) :
        LET at == Scraped(past)
        IN  input' = [kind |-> "counter", past |-> past, at |-> at,
                      pts  |-> [i \in DOMAIN at |->
                                  [t |-> at[i], v |-> CounterAfter(past, at[i])]],
                      now  |-> Len(past)]
  BY DEF ReadCounter
<1>2. past \in Seq(PastDoc)
  <2>1. [made : Small, restart : BOOLEAN, scraped : BOOLEAN] \subseteq PastDoc
    BY ReportsAssumption DEF PastDoc
  <2>2. PICK S : S = [made : Small, restart : BOOLEAN, scraped : BOOLEAN]
    OBVIOUS
  <2>3. past \in Seq(S)
    <3>1. MaxSteps + 1 \in Nat
      BY ReportsAssumption
    <3> QED
      BY <2>2, <3>1, BoundedIs
  <2> QED
    BY <2>1, <2>2, <2>3, SeqMonotonic
<1> DEFINE at == Scraped(past)
           m == Len(at)
           pts == [i \in 1 .. m |-> [t |-> at[i], v |-> CounterAfter(past, at[i])]]
<1>3. m \in Nat /\ at \in [1 .. m -> 1 .. Len(past)] /\ \A k, l \in 1 .. m : k < l => at[k] < at[l]
  <2> DEFINE own == [i \in DOMAIN past |-> i]
             I == {i \in DOMAIN own : past[own[i]].scraped}
  <2>1. at = Only(own, I)
    BY Zenon DEF Scraped, Filter
  <2>2. PICK n \in Nat : n = Len(past) /\ DOMAIN past = 1..n
    BY <1>2
  <2>3. I \in SUBSET (1..n) /\ \A i \in 1..n : own[i] = i
    BY <2>2
  <2> HIDE DEF own, I
  <2>4. Len(Only(own, I)) \in 0..n
    BY <2>3, OnlyAt
  <2>5. PICK w : Takes(Only(own, I), w, own, I)
    BY <2>3, OnlyAt
  <2> HIDE DEF at
  <2>6. /\ DOMAIN at = 1..m /\ w \in [1..m -> I]
        /\ \A k \in 1..m : at[k] = own[w[k]]
        /\ \A k, l \in 1..m : k < l => w[k] < w[l]
    BY <2>1, <2>5 DEF Takes
  <2>7. \A k \in 1..m : w[k] \in 1..n /\ at[k] = w[k]
    BY <2>3, <2>6
  <2>8. at = [k \in 1..m |-> at[k]]
    <3>1. at = [k \in DOMAIN at |-> at[k]]
      BY <2>1 DEF Only
    <3> QED
      BY <2>6, <3>1
  <2>9. at \in [1..m -> 1..n]
    BY <2>7, <2>8
  <2> QED
    BY <2>1, <2>2, <2>4, <2>6, <2>7, <2>9
<1>4. input'.past = past /\ input'.at = at /\ input'.pts = pts /\ input'.now = Len(past)
  <2>1. DOMAIN at = 1..m
    BY <1>3
  <2>2. input'.past = past /\ input'.at = at /\ input'.now = Len(past)
        /\ input'.pts = [i \in DOMAIN at |-> [t |-> at[i], v |-> CounterAfter(past, at[i])]]
    BY <1>1
  <2> HIDE DEF at
  <2> QED
    BY <2>1, <2>2
<1> HIDE DEF at
<1>5. CountsOf(recent(pts, Len(past)), past, m, at)
  BY <1>2, <1>3, RecentIs
<1> HIDE DEF pts, m
<1>6. m = Len(input'.at)
  BY <1>4 DEF m
<1> QED
  BY <1>4, <1>5, <1>6 DEF RecentCounts, CountsOf, MadeIn, SumFunction

\* However often the engine is restarted or not scraped, the hour's tokens are
\* never more than it made, nor fewer than it made where it was not restarted.
THEOREM CountsAlwaysRight == Spec => []RecentCounts
<1>1. Init => RecentCounts
  BY DEF Init, Start, RecentCounts
<1>2. RecentCounts /\ [Next]_input => RecentCounts'
  <2>1. ASSUME Next PROVE RecentCounts'
    <3>1. CASE ReadCounter
      BY <3>1, CounterStep
    <3>2. CASE input'.kind # "counter"
      BY <3>2 DEF RecentCounts
    <3> QED
      BY <2>1, <3>1, <3>2, OtherKinds
  <2>2. ASSUME RecentCounts, UNCHANGED input PROVE RecentCounts'
    BY <2>2 DEF RecentCounts
  <2> QED
    BY <2>1, <2>2
<1> QED
  BY <1>1, <1>2, PTL DEF Spec

-----------------------------------------------------------------------------
(* The readings of an engine's counters.                                   *)

\* The counters' names in the spelling of TensorFold.
LEMMA CounterSpelling ==
  /\ metric_name(Gen, "tensorfold") = <<"tensorfold", "generation_tokens_total">>
  /\ metric_name(Dec, "tensorfold") = <<"tensorfold", "decode_seconds_total">>
  /\ metric_name(Cnt, "tensorfold") = <<"tensorfold", "requests_total">>
<1> DEFINE r == GAUGE_ITEMS.running
           x == GAUGE_ITEMS.streams_max
           d == GAUGE_ITEMS.decoding
           p == GAUGE_ITEMS.filling
           w == GAUGE_ITEMS.waiting
           k == GAUGE_ITEMS.kv_pct
           D == {GAUGE_ITEMS[key] : key \in DOMAIN GAUGE_ITEMS} \cup {Gen, Cnt, Dec}
           bare == FAMILY_ALIASES_bare
<1>1. \A n \in {Gen, Dec, Cnt} : n \notin {r, x, d, p, w, k}
  BY DEF GAUGE_ITEMS, Gen, Cnt, Dec
<1>2. Gen # Cnt /\ Gen # Dec /\ Dec # Cnt
  BY DEF Gen, Cnt, Dec
<1>3. Gen \in D /\ Dec \in D /\ Cnt \in D
  OBVIOUS
<1>4. /\ DOMAIN bare = D
      /\ bare[Gen] = <<"tensorfold", "generation_tokens_total">>
      /\ bare[Dec] = <<"tensorfold", "decode_seconds_total">>
      /\ bare[Cnt] = <<"tensorfold", "requests_total">>
  <2>1. bare = [n \in D |->
                  CASE n = r -> <<"tensorfold", "requests_running">>
                    [] n = x -> <<"tensorfold", "streams_max">>
                    [] n = d -> <<"tensorfold", "streams">>
                    [] n = p -> <<"tensorfold", "streams", "filling">>
                    [] n = w -> <<"tensorfold", "requests_waiting">>
                    [] n = k -> <<"tensorfold", "kv_cache_usage_ratio">>
                    [] n = Gen -> <<"tensorfold", "generation_tokens_total">>
                    [] n = Cnt -> <<"tensorfold", "requests_total">>
                    [] n = Dec -> <<"tensorfold", "decode_seconds_total">>]
    BY DEF FAMILY_ALIASES_bare
  <2> HIDE DEF r, x, d, p, w, k, bare, D
  <2> QED
    BY <1>1, <1>2, <1>3, <2>1
<1> HIDE DEF D
<1>5. /\ DOMAIN FAMILY_ALIASES = D
      /\ FAMILY_ALIASES[Gen] = bare[Gen] /\ FAMILY_ALIASES[Dec] = bare[Dec]
      /\ FAMILY_ALIASES[Cnt] = bare[Cnt]
  <2> HIDE DEF bare, r, x, p, w, k
  <2> QED
    BY <1>1, <1>3, <1>4 DEF FAMILY_ALIASES, bare, d
<1>6. \A n \in D : metric_name(n, "tensorfold") = FAMILY_ALIASES[n]
  BY <1>5 DEF metric_name
<1> HIDE DEF r, x, d, p, w, k, bare
<1> QED
  BY <1>3, <1>4, <1>5, <1>6

CounterDoc == [gen : Nat, dec : Nat, cnt : Nat]

\* A TensorFold engine's counters are read as it publishes them.
LEMMA ReadingIs ==
  ASSUME NEW c \in CounterDoc
  PROVE  counters(parse_engine(CounterLines("tensorfold", c))) = c
<1> DEFINE lines == CounterLines("tensorfold", c)
           g == <<"tensorfold", "generation_tokens_total">>
           d == <<"tensorfold", "decode_seconds_total">>
           n == <<"tensorfold", "requests_total">>
           sums == parse_engine(lines)
<1>1. lines = << Line(g, None, c.gen), Line(d, None, c.dec), Line(n, None, c.cnt) >>
  BY DEF CounterLines
<1>2. /\ c = [gen |-> c.gen, dec |-> c.dec, cnt |-> c.cnt]
      /\ c.gen \in Nat /\ c.dec \in Nat /\ c.cnt \in Nat
  BY DEF CounterDoc
<1>3. g # d /\ g # n /\ d # n /\ g[1] = "tensorfold"
  OBVIOUS
<1>4. /\ DOMAIN lines = {1, 2, 3}
      /\ lines[1].name = g /\ lines[1].label = None /\ lines[1].value = c.gen
      /\ lines[2].name = d /\ lines[2].label = None /\ lines[2].value = c.dec
      /\ lines[3].name = n /\ lines[3].label = None /\ lines[3].value = c.cnt
  <2> HIDE DEF g, d, n
  <2> QED
    BY <1>1 DEF Line
<1> HIDE DEF lines, g, d, n
<1>5. line_keys(lines[1]) = {g} /\ line_keys(lines[2]) = {d} /\ line_keys(lines[3]) = {n}
  BY <1>4 DEF line_keys
<1>6. c.gen # None /\ c.dec # None /\ c.cnt # None
  BY <1>2, NoneAssumption
<1>7. Hits(lines, g) = {1} /\ Hits(lines, d) = {2} /\ Hits(lines, n) = {3}
  BY <1>3, <1>4, <1>5, <1>6 DEF Hits
<1>8. Values(lines)[1] = c.gen /\ Values(lines)[2] = c.dec /\ Values(lines)[3] = c.cnt
  BY <1>4, <1>6 DEF Values
<1>9. Get(sums, g) = c.gen /\ Get(sums, d) = c.dec /\ Get(sums, n) = c.cnt /\ g \in DOMAIN sums
  <2>1. /\ SumFunctionOnSet(Values(lines), {1}) = c.gen
        /\ SumFunctionOnSet(Values(lines), {2}) = c.dec
        /\ SumFunctionOnSet(Values(lines), {3}) = c.cnt
    <3>1. PICK v : v = Values(lines)
      OBVIOUS
    <3>2. v[1] \in Int /\ v[2] \in Int /\ v[3] \in Int
      BY <1>2, <1>8, <3>1
    <3>3. /\ SumFunctionOnSet(v, {1}) = v[1] /\ SumFunctionOnSet(v, {2}) = v[2]
          /\ SumFunctionOnSet(v, {3}) = v[3]
      BY <3>2, SumOne
    <3> QED
      BY <1>8, <3>1, <3>3
  <2> QED
    BY <1>7, <2>1, LookedUp
<1> HIDE DEF sums
<1>10. detect_family(sums) = "tensorfold"
  BY <1>3, <1>9 DEF detect_family
<1>11. counters(sums) = [gen |-> c.gen, dec |-> c.dec, cnt |-> c.cnt]
  <2>1. /\ Get(sums, metric_name(Gen, detect_family(sums))) = c.gen
        /\ Get(sums, metric_name(Dec, detect_family(sums))) = c.dec
        /\ Get(sums, metric_name(Cnt, detect_family(sums))) = c.cnt
    BY <1>9, <1>10, CounterSpelling DEF g, d, n
  <2> QED
    BY <2>1 DEF counters
<1> QED
  BY <1>2, <1>11 DEF sums, lines

\* Nothing is read of one that does not answer.
LEMMA NoReading ==
  counters(parse_engine(<<>>)) = [gen |-> None, dec |-> None, cnt |-> None]
<1>1. \A k : Hits(<<>>, k) = {}
  <2>1. DOMAIN <<>> = {}
    OBVIOUS
  <2> QED
    BY <2>1 DEF Hits
<1>2. \A k : Get(parse_engine(<<>>), k) = None
  BY <1>1, LookedUp
<1> QED
  BY <1>2 DEF counters

\* Each running sum is the one before it and one number more.
LEMMA RunningIs ==
  ASSUME NEW s \in Seq(Nat)
  PROVE  /\ DOMAIN Running(s) = 0 .. Len(s) /\ Running(s)[0] = 0
         /\ \A n \in 0 .. Len(s) : Running(s)[n] \in Nat
         /\ \A n \in 1 .. Len(s) : Running(s)[n] = Running(s)[n - 1] + s[n]
<1> DEFINE L == Len(s)
<1>1. L \in Nat /\ \A i \in 1 .. L : s[i] \in Nat
  OBVIOUS
<1> HIDE DEF L
<1>2. DOMAIN Running(s) = 0 .. L /\ \A n \in 0 .. L : Running(s)[n] = SumFunctionOnSet(s, 1 .. n)
  BY DEF Running, L
<1>3. ASSUME NEW n \in 0 .. L PROVE IsFiniteSet(1 .. n) /\ \A i \in 1 .. n : s[i] \in Nat /\ s[i] \in Int
  <2>1. n \in Int /\ 1 \in Int
    BY <1>1
  <2>2. IsFiniteSet(1 .. n)
    BY <2>1, IntervalFinite
  <2> QED
    BY <1>1, <2>2
<1>4. Running(s)[0] = 0
  <2>1. 1 .. 0 = {} /\ 0 \in 0 .. L
    BY <1>1
  <2>2. SumFunctionOnSet(s, {}) = 0
    BY SumZero, FS_EmptySet
  <2> QED
    BY <1>2, <2>1, <2>2
<1>5. ASSUME NEW n \in 0 .. L PROVE Running(s)[n] \in Nat
  <2>1. SumFunctionOnSet(s, 1 .. n) \in Nat
    BY <1>3, SumNat
  <2> QED
    BY <1>2, <2>1
<1>6. ASSUME NEW n \in 1 .. L PROVE Running(s)[n] = Running(s)[n - 1] + s[n]
  <2>1. n \in 0 .. L /\ n - 1 \in 0 .. L /\ n \in 1 .. n
    BY <1>1
  <2>2. PICK S, T : S = 1 .. n /\ T = 1 .. n - 1 /\ T = S \ {n}
    BY <1>1
  <2>3. IsFiniteSet(S) /\ \A i \in S : s[i] \in Int
    BY <1>3, <2>1, <2>2
  <2>4. SumFunctionOnSet(s, S) = s[n] + SumFunctionOnSet(s, S \ {n})
    BY <2>1, <2>2, <2>3, SumRemove
  <2>5. s[n] \in Nat /\ Running(s)[n - 1] \in Nat /\ Running(s)[n - 1] = SumFunctionOnSet(s, T)
    BY <1>1, <1>2, <1>5, <2>1, <2>2
  <2>6. Running(s)[n] = SumFunctionOnSet(s, S)
    BY <1>2, <2>1, <2>2
  <2> QED
    BY <2>2, <2>4, <2>5, <2>6
<1> QED
  BY <1>2, <1>4, <1>5, <1>6 DEF L

\* A vLLM engine's counters are read as it publishes them, labels and all.
LEMMA LabelledReadingIs ==
  ASSUME NEW c \in CounterDoc
  PROVE  counters(parse_engine(CounterLines("vllm", c))) = c
<1> DEFINE lines == CounterLines("vllm", c)
           g == <<"vllm", "generation_tokens_total">>
           d == <<"vllm", "request_decode_time_seconds_sum">>
           n == <<"vllm", "request_decode_time_seconds_count">>
           gl == <<"vllm", "generation_tokens_total", "engine_0">>
           dl == <<"vllm", "request_decode_time_seconds_sum", "engine_0">>
           nl == <<"vllm", "request_decode_time_seconds_count", "engine_0">>
           sums == parse_engine(lines)
<1>1. /\ lines = << Line(g, "engine_0", c.gen), Line(d, "engine_0", c.dec), Line(n, "engine_0", c.cnt) >>
      /\ g = Gen /\ d = Dec /\ n = Cnt
  BY DEF CounterLines, Gen, Dec, Cnt
<1>2. /\ c = [gen |-> c.gen, dec |-> c.dec, cnt |-> c.cnt]
      /\ c.gen \in Nat /\ c.dec \in Nat /\ c.cnt \in Nat
  BY DEF CounterDoc
<1>3. /\ g # d /\ g # n /\ d # n
      /\ g \notin {gl, dl, nl} /\ d \notin {gl, dl, nl} /\ n \notin {gl, dl, nl}
  OBVIOUS
<1>4. /\ g[1] = "vllm" /\ d[1] = "vllm" /\ n[1] = "vllm"
      /\ gl[1] = "vllm" /\ dl[1] = "vllm" /\ nl[1] = "vllm"
  OBVIOUS
<1>5. Append(g, "engine_0") = gl /\ Append(d, "engine_0") = dl /\ Append(n, "engine_0") = nl
  BY Appended
<1>6. /\ DOMAIN lines = {1, 2, 3}
      /\ lines[1].name = g /\ lines[1].label = "engine_0" /\ lines[1].value = c.gen
      /\ lines[2].name = d /\ lines[2].label = "engine_0" /\ lines[2].value = c.dec
      /\ lines[3].name = n /\ lines[3].label = "engine_0" /\ lines[3].value = c.cnt
  <2> HIDE DEF g, d, n, lines
  <2>1. DOMAIN lines = 1 .. 3 /\ lines[1] = Line(g, "engine_0", c.gen)
        /\ lines[2] = Line(d, "engine_0", c.dec) /\ lines[3] = Line(n, "engine_0", c.cnt)
    <3>1. PICK x, y, z : /\ x = Line(g, "engine_0", c.gen) /\ y = Line(d, "engine_0", c.dec)
                         /\ z = Line(n, "engine_0", c.cnt)
      OBVIOUS
    <3>2. lines = <<x, y, z>>
      BY <1>1, <3>1
    <3> QED
      BY <3>1, <3>2
  <2>2. DOMAIN lines = {1, 2, 3}
    BY <2>1
  <2> QED
    BY <2>1, <2>2 DEF Line
<1> HIDE DEF lines, g, d, n, gl, dl, nl
<1>7. /\ line_keys(lines[1]) = {g, gl} /\ line_keys(lines[2]) = {d, dl}
      /\ line_keys(lines[3]) = {n, nl}
  BY <1>5, <1>6, NameAssumption DEF line_keys
<1>8. c.gen # None /\ c.dec # None /\ c.cnt # None
  BY <1>2, NoneAssumption
<1>9. Hits(lines, g) = {1} /\ Hits(lines, d) = {2} /\ Hits(lines, n) = {3}
  BY <1>3, <1>6, <1>7, <1>8 DEF Hits
<1>10. Values(lines)[1] = c.gen /\ Values(lines)[2] = c.dec /\ Values(lines)[3] = c.cnt
  BY <1>6, <1>8 DEF Values
<1>11. Get(sums, g) = c.gen /\ Get(sums, d) = c.dec /\ Get(sums, n) = c.cnt /\ g \in DOMAIN sums
  <2>1. /\ SumFunctionOnSet(Values(lines), {1}) = c.gen
        /\ SumFunctionOnSet(Values(lines), {2}) = c.dec
        /\ SumFunctionOnSet(Values(lines), {3}) = c.cnt
    <3>1. PICK v : v = Values(lines)
      OBVIOUS
    <3>2. v[1] \in Int /\ v[2] \in Int /\ v[3] \in Int
      BY <1>2, <1>10, <3>1
    <3>3. /\ SumFunctionOnSet(v, {1}) = v[1] /\ SumFunctionOnSet(v, {2}) = v[2]
          /\ SumFunctionOnSet(v, {3}) = v[3]
      BY <3>2, SumOne
    <3> QED
      BY <1>10, <3>1, <3>3
  <2> QED
    BY <1>9, <2>1, LookedUp
<1>12. \A k \in DOMAIN sums : k[1] = "vllm"
  <2>1. SUFFICES ASSUME NEW k \in DOMAIN sums PROVE k[1] = "vllm"
    OBVIOUS
  <2>2. Hits(lines, k) # {}
    BY LookedUp
  <2>3. PICK i \in {1, 2, 3} : k \in line_keys(lines[i])
    BY <1>6, <2>2 DEF Hits
  <2>4. k \in {g, d, n, gl, dl, nl}
    BY <1>7, <2>3
  <2> QED
    BY <1>4, <2>4
<1> HIDE DEF sums
<1>13. detect_family(sums) = "vllm"
  BY <1>4, <1>11, <1>12 DEF detect_family
<1>14. counters(sums) = [gen |-> c.gen, dec |-> c.dec, cnt |-> c.cnt]
  <2>1. \A m : metric_name(m, "vllm") = m
    BY DEF metric_name
  <2>2. /\ Get(sums, metric_name(Gen, detect_family(sums))) = c.gen
        /\ Get(sums, metric_name(Dec, detect_family(sums))) = c.dec
        /\ Get(sums, metric_name(Cnt, detect_family(sums))) = c.cnt
    BY <1>1, <1>11, <1>13, <2>1
  <2> QED
    BY <2>2 DEF counters
<1> QED
  BY <1>2, <1>14 DEF sums, lines

\* What is noted after the readings up to each of them, when each reading adds
\* to what was noted before it what it may: at[k] holds whatever may be noted
\* after k readings, all of it in T.
LEMMA NotesIn ==
  ASSUME NEW C, NEW readings \in Seq(C), NEW T, NEW base \in T,
         \A ss \in T : \A c \in C : note_single_stream(ss, c) \in T,
         NEW at, base \in at[0],
         \A k \in 1 .. Len(readings) :
           \A ss \in at[k - 1] : note_single_stream(ss, readings[k]) \in at[k]
  PROVE  FoldLeft(note_single_stream, base, readings) \in at[Len(readings)]
<1> DEFINE n == Len(readings)
           body(h) == [r \in SUBSET DOMAIN readings |->
                         IF r = {} THEN base
                         ELSE note_single_stream(h[r \ {Max(r)}], readings[Max(r)])]
           iter == CHOOSE h : h = body(h)
<1>1. n \in Nat /\ DOMAIN readings = 1..n /\ \A k \in 1..n : readings[k] \in C
  OBVIOUS
<1>0. \A k \in 1..n : \A ss \in at[k - 1] : note_single_stream(ss, readings[k]) \in at[k]
  OBVIOUS
<1>2. FoldLeft(note_single_stream, base, readings) = iter[DOMAIN readings]
  BY DEF FoldLeft, MapThenFoldSet
<1>3. PICK g : g = [k \in 1..n |-> [ss \in T |-> note_single_stream(ss, readings[k])]]
  OBVIOUS
<1>4. StaysIn(g, 1..n, T) /\ \A k \in 1..n : \A ss \in T : g[k][ss] = note_single_stream(ss, readings[k])
  BY <1>1, <1>3 DEF StaysIn
<1>5. PICK w \in [SUBSET (1..n) -> T] : IsLastFold(w, n, base, g)
  <2> HIDE DEF n
  <2> QED
    BY <1>1, <1>4, LastExists, Zenon
<1>6. w = body(w)
  <2>1. ASSUME NEW r \in SUBSET (1..n)
        PROVE  w[r] = IF r = {} THEN base ELSE note_single_stream(w[r \ {Max(r)}], readings[Max(r)])
    <3>1. r # {} => Max(r) \in 1..n /\ w[r \ {Max(r)}] \in T
      BY <1>5 DEF IsLastFold
    <3> QED
      BY <1>4, <1>5, <3>1 DEF IsLastFold
  <2>2. w = [r \in SUBSET (1..n) |-> w[r]]
    OBVIOUS
  <2> HIDE DEF n
  <2> QED
    BY <1>1, <2>1, <2>2
<1>7. iter = body(iter)
  <2> HIDE DEF body
  <2> QED
    BY <1>6
<1>8. \A r \in SUBSET (1..n) : iter[r] = IF r = {} THEN base
                                         ELSE note_single_stream(iter[r \ {Max(r)}], readings[Max(r)])
  <2> HIDE DEF iter, n
  <2> QED
    BY <1>1, <1>7
<1> HIDE DEF iter, n
<1>9. n \in {k \in Nat : k <= n => iter[1..k] \in at[k]}
  <2>1. PICK P : P = {k \in Nat : k <= n => iter[1..k] \in at[k]}
    OBVIOUS
  <2>2. P \in SUBSET Nat /\ 0 \in P
    <3>1. 1..0 = {} /\ {} \in SUBSET (1..n)
      OBVIOUS
    <3>2. iter[1..0] \in at[0]
      BY <1>8, <3>1
    <3> QED
      BY <2>1, <3>2
  <2>3. ASSUME NEW k \in P PROVE k + 1 \in P
    <3>1. k \in Nat /\ (k <= n => iter[1..k] \in at[k])
      BY <2>1
    <3>2. ASSUME k + 1 <= n PROVE iter[1..(k + 1)] \in at[k + 1]
      <4>1. k + 1 \in Nat \ {0} /\ k + 1 \in 1..n /\ k <= n /\ 1..(k + 1) \in SUBSET (1..n) /\ (k + 1) - 1 = k
        BY <1>1, <3>1, <3>2
      <4>2. Max(1..(k + 1)) = k + 1 /\ (1..(k + 1)) \ {k + 1} = 1..((k + 1) - 1) /\ 1..(k + 1) # {}
        BY <4>1, LastOfPrefix
      <4>3. iter[1..(k + 1)] = note_single_stream(iter[1..k], readings[k + 1])
        BY <1>8, <4>1, <4>2
      <4>4. iter[1..k] \in at[(k + 1) - 1]
        BY <3>1, <4>1
      <4>5. note_single_stream(iter[1..k], readings[k + 1]) \in at[k + 1]
        BY <1>0, <4>1, <4>4
      <4> QED
        BY <4>3, <4>5
    <3>3. k + 1 \in Nat
      BY <3>1
    <3> QED
      BY <2>1, <3>2, <3>3
  <2>4. P = Nat
    BY <2>2, <2>3, EveryNat
  <2> QED
    BY <1>1, <2>1, <2>4
<1> QED
  BY <1>1, <1>2, <1>9

Noted == CounterDoc \cup {[gen |-> None, dec |-> None, cnt |-> None]}

\* What may be kept after k readings when every sample is of R.
Kept(readings, R, k) == [prev : {IF k = 0 THEN None ELSE readings[k]}, samples : Seq(R)]

\* Each sample is what two readings next to each other gave.
LEMMA SamplesAre ==
  ASSUME NEW readings \in Seq(Noted), NEW R \in SUBSET RateDoc,
         \A k \in 2 .. Len(readings) : single_stream(readings[k - 1], readings[k]) \in Seq(R)
  PROVE  FoldLeft(note_single_stream, NoSamples, readings).samples \in Seq(R)
<1> DEFINE m == Len(readings)
           T == [prev : Noted \cup {None}, samples : Seq(Int \X Int)]
           at == [k \in 0 .. m |-> Kept(readings, R, k)]
<1>1. m \in Nat /\ \A k \in 1 .. m : readings[k] \in Noted
  OBVIOUS
<1>2. \A k \in 2 .. m : single_stream(readings[k - 1], readings[k]) \in Seq(R)
  OBVIOUS
<1>9. \A k \in 0 .. m : at[k] = Kept(readings, R, k)
  OBVIOUS
<1> HIDE DEF at
<1>3. NoSamples \in T /\ NoSamples \in at[0]
  <2>1. NoSamples \in Kept(readings, R, 0)
    BY DEF NoSamples, Kept
  <2> QED
    BY <1>1, <1>9, <2>1 DEF NoSamples
<1>4. ASSUME NEW c, NEW ss, NEW S, ss.samples \in Seq(S), single_stream(ss.prev, c) \in Seq(S)
      PROVE  note_single_stream(ss, c) \in [prev : {c}, samples : Seq(S)]
  <2>2. PICK x : x = single_stream(ss.prev, c) /\ x \in Seq(S)
    BY <1>4
  <2>3. PICK all : all = ss.samples \o x /\ all \in Seq(S)
    <3>1. PICK y : y = ss.samples /\ y \in Seq(S)
      BY <1>4
    <3>2. y \o x \in Seq(S)
      BY <2>2, <3>1, ConcatProperties
    <3> QED
      BY <3>1, <3>2
  <2>4. PICK cut : cut = (IF Len(all) > SS_MAXLEN THEN Len(all) - SS_MAXLEN ELSE 0)
                   /\ cut \in Nat
    <3>1. Len(all) \in Nat /\ SS_MAXLEN \in Nat
      BY <2>3, ReportsAssumption
    <3> QED
      BY <3>1
  <2>5. SubSeq(all, cut + 1, Len(all)) \in Seq(S)
    <3>1. \A i \in cut + 1 .. Len(all) : i \in 1 .. Len(all)
      BY <2>3, <2>4
    <3> QED
      BY <2>3, <2>4, <3>1, SubSeqProperties
  <2>6. note_single_stream(ss, c) = [prev |-> c, samples |-> SubSeq(all, cut + 1, Len(all))]
    BY <2>2, <2>3, <2>4, Zenon DEF note_single_stream
  <2> QED
    BY <2>5, <2>6
<1>5. ASSUME NEW ss \in T, NEW c \in Noted PROVE note_single_stream(ss, c) \in T
  <2>1. single_stream(ss.prev, c) \in Seq(Int \X Int)
    <3>1. PICK p : p = ss.prev /\ p \in Noted \cup {None}
      OBVIOUS
    <3>2. CASE p = None \/ None \in {c[k] : k \in DOMAIN c} \/ None \in {p[k] : k \in DOMAIN p}
      <4>1. single_stream(p, c) = <<>>
        BY <3>2 DEF single_stream
      <4> QED
        BY <3>1, <4>1
    <3>3. CASE ~(p = None \/ None \in {c[k] : k \in DOMAIN c} \/ None \in {p[k] : k \in DOMAIN p})
      <4>1. p \in CounterDoc /\ c \in CounterDoc
        BY <3>1, <3>3 DEF Noted
      <4>2. c.gen - p.gen \in Int /\ c.dec - p.dec \in Int
        BY <4>1 DEF CounterDoc
      <4>3. PICK x : x = <<c.gen - p.gen, c.dec - p.dec>>
        OBVIOUS
      <4>4. PICK S : S = Int \X Int
        OBVIOUS
      <4>5. x \in S
        BY <4>2, <4>3, <4>4
      <4>6. single_stream(p, c) \in {<<>>, <<x>>}
        BY <3>3, <4>3 DEF single_stream
      <4>7. <<>> \in Seq(S) /\ <<x>> \in Seq(S)
        BY <4>5
      <4>8. single_stream(p, c) \in Seq(S)
        BY <4>6, <4>7
      <4> QED
        BY <3>1, <4>4, <4>8
    <3> QED
      BY <3>2, <3>3
  <2>2. ss.samples \in Seq(Int \X Int)
    OBVIOUS
  <2>3. note_single_stream(ss, c) \in [prev : {c}, samples : Seq(Int \X Int)]
    BY <1>4, <2>1, <2>2
  <2> QED
    BY <2>3
<1>6. ASSUME NEW k \in 1 .. m, NEW ss \in at[k - 1]
      PROVE  note_single_stream(ss, readings[k]) \in at[k]
  <2>1. k \in 0 .. m /\ k - 1 \in 0 .. m
    BY <1>1
  <2>2. ss \in [prev : {IF k - 1 = 0 THEN None ELSE readings[k - 1]}, samples : Seq(R)]
    BY <1>9, <2>1 DEF Kept
  <2>3. ss.prev = (IF k = 1 THEN None ELSE readings[k - 1]) /\ ss.samples \in Seq(R)
    BY <2>1, <2>2
  <2>4. single_stream(ss.prev, readings[k]) \in Seq(R)
    <3>1. CASE k = 1
      <4>1. single_stream(ss.prev, readings[k]) = <<>>
        BY <2>3, <3>1 DEF single_stream
      <4> QED
        BY <4>1
    <3>2. CASE k # 1
      <4>1. k \in 2 .. m
        BY <1>1, <3>2
      <4> QED
        BY <1>2, <2>3, <3>2, <4>1
    <3> QED
      BY <3>1, <3>2
  <2>5. note_single_stream(ss, readings[k]) \in [prev : {readings[k]}, samples : Seq(R)]
    BY <1>4, <2>3, <2>4
  <2>6. note_single_stream(ss, readings[k]) \in Kept(readings, R, k)
    BY <2>5 DEF Kept
  <2> QED
    BY <1>9, <2>1, <2>6, Zenon
<1>7. FoldLeft(note_single_stream, NoSamples, readings) \in at[m]
  <2> HIDE DEF T, at
  <2> QED
    BY <1>1, <1>3, <1>5, <1>6, NotesIn
<1>8. at[m] = Kept(readings, R, m)
  BY <1>1, <1>9
<1> QED
  BY <1>7, <1>8 DEF Kept

(* The engines that serve one after another. *)

ServedDoc == [tokens : Nat, seconds : Nat \ {0}]

Tok(requests) == Running([i \in 1 .. Len(requests) |-> requests[i].tokens])
Sec(requests) == Running([i \in 1 .. Len(requests) |-> requests[i].seconds])

LEMMA RequestTotals ==
  ASSUME NEW requests \in Seq(ServedDoc)
  PROVE  /\ \A f \in 0 .. Len(requests) : Tok(requests)[f] \in Nat /\ Sec(requests)[f] \in Nat
         /\ \A f \in 1 .. Len(requests) :
              /\ Tok(requests)[f] = Tok(requests)[f - 1] + requests[f].tokens
              /\ Sec(requests)[f] = Sec(requests)[f - 1] + requests[f].seconds
<1> DEFINE L == Len(requests)
           toks == [i \in 1 .. L |-> requests[i].tokens]
           secs == [i \in 1 .. L |-> requests[i].seconds]
<1>1. L \in Nat /\ \A i \in 1 .. L : requests[i] \in ServedDoc
  OBVIOUS
<1>2. \A i \in 1 .. L : requests[i].tokens \in Nat /\ requests[i].seconds \in Nat
  BY <1>1 DEF ServedDoc
<1>3. toks \in Seq(Nat) /\ secs \in Seq(Nat) /\ Len(toks) = L /\ Len(secs) = L
      /\ \A f \in 1 .. L : toks[f] = requests[f].tokens /\ secs[f] = requests[f].seconds
  BY <1>1, <1>2
<1>4. Tok(requests) = Running(toks) /\ Sec(requests) = Running(secs)
  BY DEF Tok, Sec
<1> HIDE DEF L, toks, secs
<1>5. /\ \A n \in 0 .. L : Running(toks)[n] \in Nat
      /\ \A n \in 1 .. L : Running(toks)[n] = Running(toks)[n - 1] + toks[n]
  BY <1>3, RunningIs
<1>6. /\ \A n \in 0 .. L : Running(secs)[n] \in Nat
      /\ \A n \in 1 .. L : Running(secs)[n] = Running(secs)[n - 1] + secs[n]
  BY <1>3, RunningIs
<1> QED
  BY <1>3, <1>4, <1>5, <1>6 DEF L

\* An engine is between two requests, or counts nothing before one finishes.
AtRest(family, n) == ~(n % 2 = 1 /\ family = "vllm")

\* Then its counters are the totals of the requests it has finished.
LEMMA LifeCounters ==
  ASSUME NEW family, NEW requests \in Seq(ServedDoc), NEW n \in 0 .. 2 * Len(requests)
  PROVE  /\ CountersAt(family, requests, n) \in CounterDoc
         /\ AtRest(family, n) =>
              \E f \in 0 .. Len(requests) :
                CountersAt(family, requests, n) = [gen |-> Tok(requests)[f], dec |-> Sec(requests)[f], cnt |-> f]
<1>1. PICK L \in Nat : L = Len(requests) /\ DOMAIN requests = 1 .. L
                       /\ \A i \in 1 .. L : requests[i] \in ServedDoc
  OBVIOUS
<1>2. PICK f \in 0 .. L : f = n \div 2 /\ (n % 2 = 1 => f + 1 \in 1 .. L)
  BY <1>1
<1>3. PICK half \in Nat : n % 2 = 1 => half = requests[f + 1].tokens \div 2
  <2>1. CASE n % 2 = 1
    <3>1. requests[f + 1].tokens \in Nat
      BY <1>1, <1>2, <2>1 DEF ServedDoc
    <3> QED
      BY <3>1
  <2> QED
    BY <2>1
<1>4. Tok(requests)[f] \in Nat /\ Sec(requests)[f] \in Nat /\ f \in Nat
  BY <1>1, <1>2, RequestTotals
<1>5. CountersAt(family, requests, n)
        = [gen |-> Tok(requests)[f] + (IF n % 2 = 1 /\ family = "vllm" THEN half ELSE 0),
           dec |-> Sec(requests)[f], cnt |-> f]
  BY <1>1, <1>2, <1>3 DEF CountersAt, Tok, Sec
<1>6. CASE AtRest(family, n)
  <2>1. CountersAt(family, requests, n) = [gen |-> Tok(requests)[f], dec |-> Sec(requests)[f], cnt |-> f]
    BY <1>4, <1>5, <1>6 DEF AtRest
  <2> QED
    BY <1>1, <1>4, <2>1 DEF CounterDoc
<1>7. CASE ~AtRest(family, n)
  <2>1. CountersAt(family, requests, n) = [gen |-> Tok(requests)[f] + half, dec |-> Sec(requests)[f], cnt |-> f]
    BY <1>5, <1>7 DEF AtRest
  <2> QED
    BY <1>4, <1>7, <2>1 DEF CounterDoc
<1> QED
  BY <1>6, <1>7

\* Between two such readings one request apart lies that request.
LEMMA QuietMoves ==
  ASSUME NEW family, NEW requests \in Seq(ServedDoc),
         NEW m \in 0 .. 2 * Len(requests), NEW n \in 0 .. 2 * Len(requests),
         AtRest(family, m), AtRest(family, n),
         NEW c, c = CountersAt(family, requests, m), NEW d, d = CountersAt(family, requests, n),
         d.cnt - c.cnt = 1
  PROVE  \E i \in DOMAIN requests : /\ d.gen - c.gen = requests[i].tokens
                                    /\ d.dec - c.dec = requests[i].seconds
<1>1. PICK e \in 0 .. Len(requests) : c = [gen |-> Tok(requests)[e], dec |-> Sec(requests)[e], cnt |-> e]
  BY LifeCounters
<1>2. PICK f \in 0 .. Len(requests) : d = [gen |-> Tok(requests)[f], dec |-> Sec(requests)[f], cnt |-> f]
  BY LifeCounters
<1>3. Len(requests) \in Nat /\ DOMAIN requests = 1 .. Len(requests)
      /\ \A i \in 1 .. Len(requests) : requests[i] \in ServedDoc
  OBVIOUS
<1>4. e = f - 1 /\ f \in 1 .. Len(requests)
  BY <1>1, <1>2, <1>3
<1>5. /\ Tok(requests)[f] = Tok(requests)[e] + requests[f].tokens
      /\ Sec(requests)[f] = Sec(requests)[e] + requests[f].seconds
  BY <1>4, RequestTotals
<1>6. Tok(requests)[e] \in Nat /\ Sec(requests)[e] \in Nat
      /\ requests[f].tokens \in Nat /\ requests[f].seconds \in Nat
  BY <1>3, <1>4, RequestTotals DEF ServedDoc
<1> QED
  BY <1>1, <1>2, <1>3, <1>4, <1>5, <1>6

LifeDoc == [family : {"tensorfold", "vllm"}, requests : Seq(ServedDoc)]

\* A moment of one of the engines.
PointOf(lives) == {p \in [life : DOMAIN lives, step : Nat] :
                     p.step \in 0 .. 2 * Len(lives[p.life].requests)}

NothingRead == [gen |-> None, dec |-> None, cnt |-> None]
CountersOf(lives, p) == CountersAt(lives[p.life].family, lives[p.life].requests, p.step)

\* The rates SampleIsExplained allows.
Served(lives, x) ==
  \E l \in DOMAIN lives : \E i \in DOMAIN lives[l].requests :
    SameRate(x, <<lives[l].requests[i].tokens, lives[l].requests[i].seconds>>)
Astray(lives, p, q) ==
  p # None /\ q # None /\ (p.life # q.life \/ ~AtRest(lives[p.life].family, p.step)
                                           \/ ~AtRest(lives[q.life].family, q.step))
Moved(c, d) == <<d.gen - c.gen, d.dec - c.dec>>
Explained(lives, noted, readings) ==
  {x \in RateDoc : \/ Served(lives, x)
                   \/ \E i \in 2 .. Len(noted) : /\ Astray(lives, noted[i - 1], noted[i])
                                                 /\ x = Moved(readings[i - 1], readings[i])}

LEMMA NoneOrOne ==
  ASSUME NEW S
  PROVE  <<>> \in Seq(S) /\ \A x \in S : <<x>> \in Seq(S)
OBVIOUS

LEMMA RequestsOf ==
  ASSUME NEW lives \in Seq(LifeDoc)
  PROVE  \A l \in DOMAIN lives : lives[l].requests \in Seq(ServedDoc)
<1>1. \A l \in DOMAIN lives : lives[l] \in LifeDoc
  OBVIOUS
<1>2. \A e \in LifeDoc : e.requests \in Seq(ServedDoc)
  BY DEF LifeDoc
<1> QED
  BY <1>1, <1>2

\* What one interval gives is a request's or of two readings that are not of
\* one engine at rest.
LEMMA SampleOf ==
  ASSUME NEW lives \in Seq(LifeDoc), NEW p \in PointOf(lives) \cup {None},
         NEW q \in PointOf(lives) \cup {None},
         NEW c, c = (IF p = None THEN NothingRead ELSE CountersOf(lives, p)),
         NEW d, d = (IF q = None THEN NothingRead ELSE CountersOf(lives, q)),
         NEW R, \A x \in RateDoc : \/ Served(lives, x)
                                   \/ Astray(lives, p, q) /\ x = Moved(c, d)
                                   => x \in R
  PROVE  single_stream(c, d) \in Seq(R)
<1>1. CASE \/ c = None \/ None \in {d[k] : k \in DOMAIN d} \/ None \in {c[k] : k \in DOMAIN c}
  <2>1. single_stream(c, d) = <<>>
    BY <1>1 DEF single_stream
  <2> QED
    BY <2>1, NoneOrOne, Zenon
<1>2. CASE ~(\/ c = None \/ None \in {d[k] : k \in DOMAIN d} \/ None \in {c[k] : k \in DOMAIN c})
  <2>1. None \in {NothingRead[k] : k \in DOMAIN NothingRead}
    BY DEF NothingRead
  <2>2. p # None /\ q # None /\ c = CountersOf(lives, p) /\ d = CountersOf(lives, q)
    BY <1>2, <2>1
  <2>3. /\ p.life \in DOMAIN lives /\ p.step \in 0 .. 2 * Len(lives[p.life].requests)
        /\ q.life \in DOMAIN lives /\ q.step \in 0 .. 2 * Len(lives[q.life].requests)
    BY <2>2 DEF PointOf
  <2>4. \A l \in DOMAIN lives : lives[l].requests \in Seq(ServedDoc)
    BY RequestsOf, Zenon
  <2>5. c \in CounterDoc /\ d \in CounterDoc
    BY <2>2, <2>3, <2>4, LifeCounters DEF CountersOf
  <2>6. CASE d.cnt - c.cnt # 1 \/ d.gen <= c.gen \/ d.dec <= c.dec
    <3>1. single_stream(c, d) = <<>>
      BY <1>2, <2>6 DEF single_stream
    <3> QED
      BY <3>1, NoneOrOne, Zenon
  <2>7. CASE ~(d.cnt - c.cnt # 1 \/ d.gen <= c.gen \/ d.dec <= c.dec)
    <3>1. PICK x : x = Moved(c, d)
      OBVIOUS
    <3>2. single_stream(c, d) = <<x>>
      BY <1>2, <2>7, <3>1 DEF single_stream, Moved
    <3>3. x \in RateDoc
      <4>1. d.gen - c.gen \in Int /\ d.dec - c.dec \in Nat \ {0}
        BY <2>5, <2>7 DEF CounterDoc
      <4> QED
        BY <3>1, <4>1 DEF RateDoc, Moved
    <3>4. CASE Astray(lives, p, q)
      <4>1. x \in R
        BY <3>1, <3>3, <3>4
      <4> QED
        BY <3>2, <4>1, NoneOrOne, Zenon
    <3>5. CASE ~Astray(lives, p, q)
      <4>1. PICK l : l = p.life /\ q.life = l /\ AtRest(lives[l].family, p.step) /\ AtRest(lives[l].family, q.step)
        BY <2>2, <3>5 DEF Astray
      <4>2. PICK family, requests : family = lives[l].family /\ requests = lives[l].requests
        OBVIOUS
      <4>3. /\ requests \in Seq(ServedDoc)
            /\ p.step \in 0 .. 2 * Len(requests) /\ q.step \in 0 .. 2 * Len(requests)
            /\ AtRest(family, p.step) /\ AtRest(family, q.step)
        BY <2>3, <2>4, <4>1, <4>2
      <4>4. /\ c = CountersAt(family, requests, p.step) /\ d = CountersAt(family, requests, q.step)
            /\ d.cnt - c.cnt = 1
        BY <2>2, <2>7, <4>1, <4>2 DEF CountersOf
      <4>5. PICK i \in DOMAIN requests : /\ d.gen - c.gen = requests[i].tokens
                                         /\ d.dec - c.dec = requests[i].seconds
        BY <4>3, <4>4, QuietMoves
      <4>6. requests[i].tokens \in Int /\ requests[i].seconds \in Int
        <5>1. requests[i] \in ServedDoc
          BY <4>3
        <5> QED
          BY <5>1 DEF ServedDoc
      <4>7. SameRate(x, <<requests[i].tokens, requests[i].seconds>>)
        BY <3>1, <4>5, <4>6 DEF SameRate, Moved
      <4>8. Served(lives, x)
        BY <2>3, <4>1, <4>2, <4>5, <4>7 DEF Served
      <4>9. x \in R
        BY <3>3, <4>8
      <4> QED
        BY <3>2, <4>9, NoneOrOne, Zenon
    <3> QED
      BY <3>4, <3>5
  <2> QED
    BY <2>6, <2>7
<1> QED
  BY <1>1, <1>2

LEMMA SampleReadings ==
  ASSUME NEW lives \in Seq(LifeDoc), NEW noted \in Seq(PointOf(lives) \cup {None}),
         NEW readings, DOMAIN readings = DOMAIN noted, readings \in Seq(Noted),
         \A i \in DOMAIN noted :
           readings[i] = (IF noted[i] = None THEN NothingRead ELSE CountersOf(lives, noted[i]))
  PROVE  \/ ss_decode_tps(readings) = None
         \/ ss_decode_tps(readings) \in Explained(lives, noted, readings)
<1>1. PICK R : R = Explained(lives, noted, readings)
  OBVIOUS
<1>2. R \in SUBSET RateDoc
  BY <1>1 DEF Explained
<1>3. PICK n \in Nat : /\ n = Len(noted) /\ n = Len(readings) /\ DOMAIN noted = 1 .. n
                       /\ \A i \in 1 .. n : noted[i] \in PointOf(lives) \cup {None}
  OBVIOUS
<1>4. ASSUME NEW k \in 2 .. n PROVE single_stream(readings[k - 1], readings[k]) \in Seq(R)
  <2>1. k \in 1 .. n /\ k - 1 \in 1 .. n
    BY <1>3
  <2>2. PICK p, q, c, d : p = noted[k - 1] /\ q = noted[k] /\ c = readings[k - 1] /\ d = readings[k]
    OBVIOUS
  <2>3. /\ p \in PointOf(lives) \cup {None} /\ q \in PointOf(lives) \cup {None}
        /\ c = (IF p = None THEN NothingRead ELSE CountersOf(lives, p))
        /\ d = (IF q = None THEN NothingRead ELSE CountersOf(lives, q))
    BY <1>3, <2>1, <2>2
  <2>4. \A x \in RateDoc : \/ Served(lives, x)
                           \/ Astray(lives, p, q) /\ x = Moved(c, d)
                           => x \in R
    BY <1>1, <1>3, <2>2 DEF Explained
  <2>5. single_stream(c, d) \in Seq(R)
    BY <2>3, <2>4, SampleOf
  <2> QED
    BY <2>2, <2>5
<1>5. PICK ss : ss = FoldLeft(note_single_stream, NoSamples, readings).samples
  OBVIOUS
<1>6. ss \in Seq(R)
  <2>1. \A k \in 2 .. Len(readings) : single_stream(readings[k - 1], readings[k]) \in Seq(R)
    BY <1>3, <1>4
  <2>2. FoldLeft(note_single_stream, NoSamples, readings).samples \in Seq(R)
    BY <1>2, <2>1, SamplesAre
  <2> QED
    BY <1>5, <2>2
<1>7. ss = <<>> => ss_decode_tps(readings) = None
  BY <1>5 DEF ss_decode_tps
<1>8. ss # <<>> => ss_decode_tps(readings) = UpperMedian(ss)
  BY <1>5 DEF ss_decode_tps
<1>9. ss # <<>> => UpperMedian(ss) \in R
  <2>1. ss \in Seq(RateDoc)
    BY <1>2, <1>6, SeqMonotonic
  <2>2. \A i \in DOMAIN ss : ss[i] \in R
    BY <1>6
  <2> QED
    BY <2>1, <2>2, MedianIs
<1> QED
  BY <1>1, <1>7, <1>8, <1>9

LEMMA LifeIs == Life \subseteq LifeDoc
<1> DEFINE Request == [tokens : {2 * k : k \in Small \ {0}}, seconds : Times]
<1>1. ASSUME NEW q \in Request PROVE q \in ServedDoc
  <2>1. q.tokens \in {2 * k : k \in Small \ {0}} /\ q.seconds \in Times
    OBVIOUS
  <2>2. PICK k \in Small : q.tokens = 2 * k
    BY <2>1
  <2>3. k \in Nat /\ q.seconds \in Nat \ {0}
    BY <2>1, ReportsAssumption
  <2>4. q.tokens \in Nat
    BY <2>2, <2>3
  <2>5. q = [tokens |-> q.tokens, seconds |-> q.seconds]
    OBVIOUS
  <2> QED
    BY <2>3, <2>4, <2>5 DEF ServedDoc
<1>2. Life = [family : {"tensorfold", "vllm"}, requests : BoundedSeq(Request, MaxServed)]
  BY DEF Life
<1> HIDE DEF Request
<1>3. Request \subseteq ServedDoc /\ MaxServed \in Nat
  BY <1>1, ReportsAssumption
<1>4. \A s \in BoundedSeq(Request, MaxServed) : s \in Seq(Request)
  BY <1>3, BoundedIs
<1>5. \A s \in Seq(Request) : s \in Seq(ServedDoc)
  BY <1>3, SeqMonotonic
<1> QED
  BY <1>2, <1>4, <1>5 DEF LifeDoc

\* What the sampler read of one moment of the engines.
LinesAt(lives, n) == IF n = None THEN <<>> ELSE CounterLines(lives[n.life].family, CountersOf(lives, n))

LEMMA PointRead ==
  ASSUME NEW lives \in Seq(LifeDoc), NEW n \in PointOf(lives) \cup {None}
  PROVE  /\ counters(parse_engine(LinesAt(lives, n)))
              = (IF n = None THEN NothingRead ELSE CountersOf(lives, n))
         /\ counters(parse_engine(LinesAt(lives, n))) \in Noted
<1>1. CASE n = None
  <2>1. LinesAt(lives, n) = <<>>
    BY <1>1 DEF LinesAt
  <2> QED
    BY <1>1, <2>1, NoReading DEF NothingRead, Noted
<1>2. CASE n # None
  <2>1. n.life \in DOMAIN lives /\ n.step \in 0 .. 2 * Len(lives[n.life].requests)
    BY <1>2 DEF PointOf
  <2>2. PICK family, c : family = lives[n.life].family /\ c = CountersOf(lives, n)
    OBVIOUS
  <2>3. c \in CounterDoc
    <3>1. lives[n.life].requests \in Seq(ServedDoc)
      BY <2>1, RequestsOf, Zenon
    <3> QED
      BY <2>1, <2>2, <3>1, LifeCounters DEF CountersOf
  <2>4. family \in {"tensorfold", "vllm"}
    <3>1. lives[n.life] \in LifeDoc
      BY <2>1
    <3> QED
      BY <2>2, <3>1 DEF LifeDoc
  <2>5. LinesAt(lives, n) = CounterLines(family, c)
    BY <1>2, <2>2 DEF LinesAt
  <2>6. counters(parse_engine(CounterLines(family, c))) = c
    BY <2>3, <2>4, ReadingIs, LabelledReadingIs
  <2> QED
    BY <1>2, <2>2, <2>3, <2>5, <2>6 DEF Noted
<1> QED
  BY <1>1, <1>2

LEMMA SampleStep == SampleStreams => SampleIsExplained'
<1> SUFFICES ASSUME SampleStreams PROVE SampleIsExplained'
  OBVIOUS
<1>1. PICK lives \in BoundedSeq(Life, MaxLives) :
        LET points(l) == [life : {l}, step : 0 .. 2 * Len(lives[l].requests)]
            lines(n)  == IF n = None THEN <<>>
                         ELSE CounterLines(lives[n.life].family,
                                           CountersAt(lives[n.life].family,
                                                      lives[n.life].requests, n.step))
        IN  \E noted \in BoundedSeq((UNION {points(l) : l \in DOMAIN lives}) \cup {None}, MaxSteps) :
              input' = [kind     |-> "streams", lives |-> lives, noted |-> noted,
                        readings |-> [i \in DOMAIN noted |-> counters(parse_engine(lines(noted[i])))]]
  BY DEF SampleStreams
<1> DEFINE Points == UNION {[life : {l}, step : 0 .. 2 * Len(lives[l].requests)] : l \in DOMAIN lives}
<1>2. PICK noted \in BoundedSeq(Points \cup {None}, MaxSteps) :
        input' = [kind     |-> "streams", lives |-> lives, noted |-> noted,
                  readings |-> [i \in DOMAIN noted |-> counters(parse_engine(LinesAt(lives, noted[i])))]]
  BY <1>1 DEF LinesAt, CountersOf
<1>3. lives \in Seq(LifeDoc)
  <2>1. lives \in Seq(Life)
    BY ReportsAssumption, BoundedIs
  <2> QED
    BY <2>1, LifeIs, SeqMonotonic
<1>4. Points \subseteq PointOf(lives)
  <2>1. SUFFICES ASSUME NEW l \in DOMAIN lives, NEW p \in [life : {l}, step : 0 .. 2 * Len(lives[l].requests)]
                 PROVE  p \in PointOf(lives)
    OBVIOUS
  <2>2. p.life = l /\ p.step \in 0 .. 2 * Len(lives[l].requests) /\ p = [life |-> p.life, step |-> p.step]
    OBVIOUS
  <2>3. p.step \in Nat
    BY <2>2
  <2>4. p \in [life : DOMAIN lives, step : Nat]
    BY <2>2, <2>3
  <2> QED
    BY <2>2, <2>4 DEF PointOf
<1> HIDE DEF Points
<1>5. noted \in Seq(PointOf(lives) \cup {None})
  <2>1. noted \in Seq(Points \cup {None})
    BY ReportsAssumption, BoundedIs
  <2>2. Points \cup {None} \subseteq PointOf(lives) \cup {None}
    BY <1>4
  <2> QED
    BY <2>1, <2>2, SeqMonotonic
<1>6. PICK readings : readings = [i \in DOMAIN noted |-> counters(parse_engine(LinesAt(lives, noted[i])))]
  OBVIOUS
<1>7. /\ DOMAIN readings = DOMAIN noted /\ readings \in Seq(Noted)
      /\ \A i \in DOMAIN noted :
           readings[i] = (IF noted[i] = None THEN NothingRead ELSE CountersOf(lives, noted[i]))
  <2>1. PICK m \in Nat : DOMAIN noted = 1 .. m /\ \A i \in 1 .. m : noted[i] \in PointOf(lives) \cup {None}
    BY <1>5
  <2>2. \A i \in 1 .. m : /\ readings[i] = (IF noted[i] = None THEN NothingRead ELSE CountersOf(lives, noted[i]))
                          /\ readings[i] \in Noted
    <3>1. SUFFICES ASSUME NEW i \in 1 .. m
                   PROVE  /\ readings[i] = (IF noted[i] = None THEN NothingRead ELSE CountersOf(lives, noted[i]))
                          /\ readings[i] \in Noted
      OBVIOUS
    <3>2. PICK n : n = noted[i] /\ n \in PointOf(lives) \cup {None}
      BY <2>1
    <3>3. readings[i] = counters(parse_engine(LinesAt(lives, n)))
      BY <1>6, <2>1, <3>2
    <3> QED
      BY <1>3, <3>2, <3>3, PointRead
  <2>3. DOMAIN readings = 1 .. m /\ readings = [i \in 1 .. m |-> readings[i]]
    BY <1>6, <2>1
  <2>4. readings \in Seq(Noted)
    BY <2>2, <2>3
  <2> QED
    BY <2>1, <2>2, <2>3, <2>4
<1>8. /\ input'.kind = "streams" /\ input'.lives = lives
      /\ input'.noted = noted /\ input'.readings = readings
  BY <1>2, <1>6
<1>9. \/ ss_decode_tps(readings) = None
      \/ ss_decode_tps(readings) \in Explained(lives, noted, readings)
  BY <1>3, <1>5, <1>7, SampleReadings
<1>10. CASE ss_decode_tps(readings) = None
  BY <1>8, <1>10 DEF SampleIsExplained
<1>11. ASSUME NEW x, x = ss_decode_tps(readings), Served(lives, x) PROVE SampleIsExplained'
  BY <1>8, <1>11 DEF SampleIsExplained, OfARequest, Served
<1>12. ASSUME NEW x, x = ss_decode_tps(readings), NEW i \in 2 .. Len(noted),
              Astray(lives, noted[i - 1], noted[i]), x = Moved(readings[i - 1], readings[i])
       PROVE  SampleIsExplained'
  BY <1>8, <1>12 DEF SampleIsExplained, Astray, AtRest, Moved
<1> QED
  BY <1>9, <1>10, <1>11, <1>12 DEF Explained

\* The single-stream number is a rate of a request that was served, or what two
\* readings differ by of which one was of another engine, of the same one started
\* again, or of one in the middle of a request it counts as it goes: whatever the
\* engines, their restarts and the order their readings are noted in.
THEOREM SampleAlwaysExplained == Spec => []SampleIsExplained
<1>1. Init => SampleIsExplained
  BY DEF Init, Start, SampleIsExplained
<1>2. SampleIsExplained /\ [Next]_input => SampleIsExplained'
  <2>1. ASSUME Next PROVE SampleIsExplained'
    <3>1. CASE SampleStreams
      BY <3>1, SampleStep
    <3>2. CASE input'.kind # "streams"
      BY <3>2 DEF SampleIsExplained
    <3> QED
      BY <2>1, <3>1, <3>2, OtherKinds
  <2>2. ASSUME SampleIsExplained, UNCHANGED input PROVE SampleIsExplained'
    BY <2>2, Zenon DEF SampleIsExplained, OfARequest
  <2> QED
    BY <2>1, <2>2
<1> QED
  BY <1>1, <1>2, PTL DEF Spec

-----------------------------------------------------------------------------
(* The requests of a soak.                                                 *)

LaneDoc == [pause : Nat, elapsed : Nat \ {0}, tokens : Nat]

\* From the a-th to the b-th row each request started after the one before it
\* had ended.
InTurn(rows, a, b) == \A i \in a .. b - 1 : rows[i].ts <= rows[i + 1].ts - rows[i + 1].elapsed

\* The rows of a lane, of a shape and a concurrency.
LaneLike(rows, n, shape, conc) ==
  /\ rows \in Seq(RequestRow) /\ n = Len(rows)
  /\ \A i \in 1 .. n : /\ rows[i].shape = shape /\ rows[i].concurrency = conc
                       /\ rows[i].time["elapsed"] = rows[i].elapsed /\ rows[i].elapsed <= rows[i].ts
  /\ InTurn(rows, 1, n)

LEMMA LaneIs ==
  ASSUME NEW lane \in Seq(LaneDoc), NEW shape \in {"a", "b"}, NEW conc \in {1, 2}
  PROVE  LaneLike(LaneRows(lane, shape, conc), Len(lane), shape, conc)
<1> DEFINE n == Len(lane)
           took == [i \in 1 .. n |-> lane[i].pause + lane[i].elapsed]
           rows == LaneRows(lane, shape, conc)
<1>1. n \in Nat /\ DOMAIN lane = 1 .. n
      /\ \A i \in 1 .. n : lane[i].pause \in Nat /\ lane[i].elapsed \in Nat \ {0} /\ lane[i].tokens \in Nat
  <2>1. n \in Nat /\ DOMAIN lane = 1 .. n /\ \A i \in 1 .. n : lane[i] \in LaneDoc
    OBVIOUS
  <2> QED
    BY <2>1 DEF LaneDoc
<1> HIDE DEF n
<1>2. took \in Seq(Nat) /\ Len(took) = n /\ \A i \in 1 .. n : took[i] = lane[i].pause + lane[i].elapsed
  <2>1. \A i \in 1 .. n : lane[i].pause + lane[i].elapsed \in Nat
    BY <1>1
  <2> QED
    BY <1>1, <2>1
<1>3. PICK sums : sums = Running(took)
  OBVIOUS
<1>4. /\ \A k \in 0 .. n : sums[k] \in Nat
      /\ \A k \in 1 .. n : sums[k] = sums[k - 1] + took[k]
  <2> HIDE DEF took
  <2> QED
    BY <1>2, <1>3, RunningIs
<1>5. rows = [i \in 1 .. n |->
         [phase |-> "c", ok |-> TRUE, concurrency |-> conc, shape |-> shape,
          tokens |-> lane[i].tokens, elapsed |-> lane[i].elapsed,
          time |-> [k \in {"elapsed"} |-> lane[i].elapsed], ts |-> 10 + sums[i]]]
  BY <1>1, <1>3 DEF LaneRows
<1>6. ASSUME NEW i \in 1 .. n
      PROVE  /\ rows[i] \in RequestRow
             /\ rows[i].shape = shape /\ rows[i].concurrency = conc
             /\ rows[i].time["elapsed"] = rows[i].elapsed
             /\ rows[i].ts = 10 + sums[i] /\ rows[i].elapsed = lane[i].elapsed
             /\ rows[i].elapsed <= rows[i].ts
  <2>1. rows[i] = [phase |-> "c", ok |-> TRUE, concurrency |-> conc, shape |-> shape,
          tokens |-> lane[i].tokens, elapsed |-> lane[i].elapsed,
          time |-> [k \in {"elapsed"} |-> lane[i].elapsed], ts |-> 10 + sums[i]]
    BY <1>5
  <2>2. 10 + sums[i] \in Nat
    BY <1>1, <1>4
  <2> HIDE DEF rows
  <2>3. [k \in {"elapsed"} |-> lane[i].elapsed] \in [{"elapsed"} -> Nat]
    BY <1>1
  <2>4. rows[i] \in RequestRow
    BY <1>1, <2>1, <2>2, <2>3 DEF RequestRow
  <2>5. lane[i].elapsed <= 10 + sums[i]
    <3>1. i - 1 \in 0 .. n /\ i \in 0 .. n
      BY <1>1
    <3>2. /\ sums[i] = sums[i - 1] + (lane[i].pause + lane[i].elapsed)
          /\ sums[i - 1] \in Nat /\ lane[i].pause \in Nat /\ lane[i].elapsed \in Nat
      BY <1>1, <1>2, <1>4, <3>1
    <3>3. PICK x \in Nat, y \in Nat, z \in Nat : x = sums[i - 1] /\ y = lane[i].pause /\ z = lane[i].elapsed
      BY <3>2
    <3>4. sums[i] = x + (y + z) /\ lane[i].elapsed = z
      BY <3>2, <3>3
    <3> QED
      BY <3>4
  <2> QED
    BY <2>1, <2>4, <2>5
<1>7. rows \in Seq(RequestRow) /\ Len(rows) = n
  <2>1. DOMAIN rows = 1 .. n /\ rows = [i \in 1 .. n |-> rows[i]]
    BY <1>5
  <2> HIDE DEF rows
  <2>2. \A i \in 1 .. n : rows[i] \in RequestRow
    BY <1>6
  <2>3. rows \in [1 .. n -> RequestRow] /\ n \in Nat
    BY <1>1, <2>1, <2>2
  <2> QED
    BY <2>3
<1>8. InTurn(rows, 1, n)
  <2>1. SUFFICES ASSUME NEW i \in 1 .. n - 1 PROVE rows[i].ts <= rows[i + 1].ts - rows[i + 1].elapsed
    BY DEF InTurn
  <2>2. i \in 1 .. n /\ i + 1 \in 1 .. n /\ i \in 0 .. n /\ (i + 1) - 1 = i
    BY <1>1
  <2>3. sums[i + 1] = sums[i] + (lane[i + 1].pause + lane[i + 1].elapsed)
    BY <1>2, <1>4, <2>2
  <2>4. /\ sums[i] \in Nat /\ sums[i + 1] \in Nat /\ lane[i + 1].pause \in Nat /\ lane[i + 1].elapsed \in Nat
        /\ rows[i].ts = 10 + sums[i] /\ rows[i + 1].ts = 10 + sums[i + 1]
        /\ rows[i + 1].elapsed = lane[i + 1].elapsed
    BY <1>1, <1>4, <1>6, <2>2
  <2>5. PICK a \in Nat, b \in Nat, c \in Nat, d \in Nat :
          a = sums[i] /\ b = sums[i + 1] /\ c = lane[i + 1].pause /\ d = lane[i + 1].elapsed
    BY <2>4
  <2>6. rows[i].ts = 10 + a /\ rows[i + 1].ts = 10 + b /\ rows[i + 1].elapsed = d /\ b = a + (c + d)
    BY <2>3, <2>4, <2>5
  <2> HIDE DEF rows
  <2> QED
    BY <2>6
<1> QED
  BY <1>6, <1>7, <1>8 DEF LaneLike, n

\* The rows of a soak: one lane of n requests, and another after them.
Soak(rows, m, n, conc) ==
  /\ rows \in Seq(RequestRow) /\ n = Len(rows) /\ m \in 0 .. n
  /\ conc \in {1, 2} /\ (conc = 1 => m = n)
  /\ \A i \in 1 .. n : /\ rows[i].shape = (IF i <= m THEN "a" ELSE "b")
                       /\ rows[i].concurrency = conc
                       /\ rows[i].time["elapsed"] = rows[i].elapsed /\ rows[i].elapsed <= rows[i].ts
  /\ InTurn(rows, 1, m) /\ InTurn(rows, m + 1, n)

LEMMA LanesJoin ==
  ASSUME NEW one, NEW two, NEW m, NEW k, NEW conc \in {1, 2},
         LaneLike(one, m, "a", conc), LaneLike(two, k, "b", conc), conc = 1 => k = 0
  PROVE  Soak(one \o two, m, m + k, conc)
<1> DEFINE rows == one \o two
<1>1. /\ one \in Seq(RequestRow) /\ two \in Seq(RequestRow) /\ m = Len(one) /\ k = Len(two)
      /\ m \in Nat /\ k \in Nat
      /\ \A i \in 1 .. m : /\ one[i].shape = "a" /\ one[i].concurrency = conc
                           /\ one[i].time["elapsed"] = one[i].elapsed /\ one[i].elapsed <= one[i].ts
      /\ \A i \in 1 .. k : /\ two[i].shape = "b" /\ two[i].concurrency = conc
                           /\ two[i].time["elapsed"] = two[i].elapsed /\ two[i].elapsed <= two[i].ts
      /\ InTurn(one, 1, m) /\ InTurn(two, 1, k)
  BY DEF LaneLike
<1>2. /\ DOMAIN rows = 1 .. (m + k) /\ Len(rows) = m + k /\ rows \in Seq(RequestRow)
      /\ \A i \in 1 .. m : rows[i] = one[i]
      /\ \A i \in 1 .. k : rows[m + i] = two[i]
  <2>1. rows \in Seq(RequestRow) /\ Len(rows) = Len(one) + Len(two)
    BY <1>1, ConcatProperties
  <2> HIDE DEF rows
  <2>2. /\ DOMAIN rows = 1..(Len(one) + Len(two))
        /\ \A i \in 1..Len(one) : rows[i] = one[i]
        /\ \A i \in 1..Len(two) : rows[Len(one) + i] = two[i]
    BY <1>1, Joined DEF rows
  <2> QED
    BY <1>1, <2>1, <2>2
<1> HIDE DEF rows
<1>3. ASSUME NEW i \in m + 1 .. m + k PROVE i - m \in 1 .. k /\ rows[i] = two[i - m]
  <2>1. i - m \in 1 .. k /\ m + (i - m) = i
    BY <1>1
  <2> QED
    BY <1>2, <2>1
<1>4. ASSUME NEW i \in 1 .. m + k
      PROVE  /\ rows[i].shape = (IF i <= m THEN "a" ELSE "b")
             /\ rows[i].concurrency = conc
             /\ rows[i].time["elapsed"] = rows[i].elapsed /\ rows[i].elapsed <= rows[i].ts
  <2>1. CASE i <= m
    <3>1. i \in 1 .. m
      BY <1>1, <2>1
    <3> QED
      BY <1>1, <1>2, <2>1, <3>1
  <2>2. CASE ~(i <= m)
    <3>1. i \in m + 1 .. m + k
      BY <1>1, <2>2
    <3> QED
      BY <1>1, <1>3, <2>2, <3>1
  <2> QED
    BY <2>1, <2>2
<1>5. InTurn(rows, 1, m)
  <2>1. SUFFICES ASSUME NEW i \in 1 .. m - 1 PROVE rows[i].ts <= rows[i + 1].ts - rows[i + 1].elapsed
    BY DEF InTurn
  <2>2. i \in 1 .. m /\ i + 1 \in 1 .. m
    BY <1>1
  <2> QED
    BY <1>1, <1>2, <2>2 DEF InTurn
<1>6. InTurn(rows, m + 1, m + k)
  <2>1. SUFFICES ASSUME NEW i \in (m + 1) .. ((m + k) - 1) PROVE rows[i].ts <= rows[i + 1].ts - rows[i + 1].elapsed
    BY DEF InTurn
  <2>2. i \in m + 1 .. m + k /\ i + 1 \in m + 1 .. m + k /\ i - m \in 1 .. k - 1 /\ (i + 1) - m = (i - m) + 1
    BY <1>1
  <2>3. two[i - m].ts <= two[(i - m) + 1].ts - two[(i - m) + 1].elapsed
    BY <1>1, <2>2 DEF InTurn
  <2>4. rows[i] = two[i - m] /\ rows[i + 1] = two[(i - m) + 1]
    BY <1>3, <2>2
  <2> QED
    BY <2>3, <2>4
<1>7. m \in 0 .. m + k /\ (conc = 1 => m = m + k)
  BY <1>1
<1> QED
  BY <1>2, <1>4, <1>5, <1>6, <1>7 DEF Soak, rows

\* The time of a lane's requests is no longer than any span they all fall into.
Within(rows, G, from, to) ==
  \A i \in G : from <= rows[i].ts - rows[i].elapsed /\ rows[i].ts <= to

LEMMA LaneFull ==
  ASSUME NEW rows \in Seq(RequestRow), NEW G \in SUBSET DOMAIN rows,
         NEW a \in Nat, NEW b \in Nat, 1 <= a, b <= Len(rows), InTurn(rows, a, b),
         NEW from \in Int, NEW to \in Int, from <= to, Within(rows, G, from, to)
  PROVE  SumFunctionOnSet([i \in G |-> rows[i].elapsed], G \cap (a .. b)) <= to - from
<1>1. PICK n \in Nat : n = Len(rows) /\ DOMAIN rows = 1 .. n
                       /\ \A i \in 1 .. n : rows[i].ts \in Nat /\ rows[i].elapsed \in Nat
  <2>1. \A i \in 1 .. Len(rows) : rows[i] \in RequestRow
    OBVIOUS
  <2>2. \A r \in RequestRow : r.ts \in Nat /\ r.elapsed \in Nat
    BY DEF RequestRow
  <2> QED
    BY <2>1, <2>2
<1>2. PICK e : e = [i \in G |-> rows[i].elapsed]
  OBVIOUS
<1>3. \A i \in G : e[i] \in Nat /\ e[i] = rows[i].elapsed /\ i \in 1 .. n
  BY <1>1, <1>2
<1>4. IsFiniteSet(1 .. n)
  BY FS_Interval
<1> DEFINE part(j) == G \cap (a .. j)
           E(j) == SumFunctionOnSet(e, part(j))
<1>5. \A j : part(j) \in SUBSET G /\ IsFiniteSet(part(j)) /\ E(j) \in Nat
  <2>1. SUFFICES ASSUME NEW j PROVE part(j) \in SUBSET G /\ IsFiniteSet(part(j)) /\ E(j) \in Nat
    OBVIOUS
  <2>2. PICK s : s = part(j)
    OBVIOUS
  <2>3. s \in SUBSET G /\ s \in SUBSET (1 .. n)
    BY <1>3, <2>2
  <2>4. IsFiniteSet(s) /\ \A i \in s : e[i] \in Nat
    BY <1>3, <1>4, <2>3, FS_Subset
  <2>5. SumFunctionOnSet(e, s) \in Nat
    BY <2>4, SumNat
  <2> QED
    BY <2>2, <2>3, <2>4, <2>5
<1> DEFINE fine(j) == part(j) = {} \/ E(j) <= rows[j].ts - from
<1>6. ASSUME NEW j \in a .. b, j - 1 >= a => fine(j - 1) PROVE fine(j)
  <2>1. j \in 1 .. n /\ rows[j].ts \in Nat /\ rows[j].elapsed \in Nat
    BY <1>1
  <2>2. CASE j \notin G
    <3>1. part(j) = part(j - 1)
      BY <2>1, <2>2
    <3>2. CASE j - 1 >= a
      <4>1. rows[j - 1].ts <= rows[j].ts - rows[j].elapsed
        <5>1. j - 1 \in a .. b - 1 /\ (j - 1) + 1 = j
          BY <2>1, <3>2
        <5> QED
          BY <5>1 DEF InTurn
      <4>2. rows[j - 1].ts \in Nat
        BY <1>1, <2>1, <3>2
      <4>3. fine(j - 1)
        BY <1>6, <3>2
      <4> HIDE DEF part
      <4>4. CASE part(j - 1) = {}
        BY <3>1, <4>4
      <4>5. CASE part(j - 1) # {}
        <5>1. E(j) = E(j - 1) /\ E(j - 1) <= rows[j - 1].ts - from /\ E(j - 1) \in Nat
          BY <1>5, <3>1, <4>3, <4>5
        <5> HIDE DEF E
        <5>5. E(j - 1) \in Int /\ rows[j - 1].ts \in Int /\ rows[j].ts \in Int
          BY <2>1, <4>2, <5>1
        <5>2. PICK u \in Int, v \in Int, w \in Int, x \in Nat :
                u = E(j - 1) /\ v = rows[j - 1].ts /\ w = rows[j].ts /\ x = rows[j].elapsed
          BY Zenon, <2>1, <5>5
        <5>3. u <= v - from /\ v <= w - x
          BY <4>1, <5>1, <5>2
        <5>4. u <= w - from
          BY <5>3
        <5> QED
          BY <5>1, <5>2, <5>4
      <4> QED
        BY <4>4, <4>5
    <3>3. CASE ~(j - 1 >= a)
      <4>1. part(j) = {}
        BY <2>1, <3>1, <3>3
      <4> QED
        BY <4>1
    <3> QED
      BY <3>2, <3>3
  <2>3. CASE j \in G
    <3>1. part(j) \ {j} = part(j - 1) /\ j \in part(j)
      BY <2>1, <2>3
    <3>2. e[j] = rows[j].elapsed /\ e[j] \in Nat
      BY <1>3, <2>3
    <3>3. E(j) = e[j] + E(j - 1)
      <4>1. PICK s, t : s = part(j) /\ t = part(j - 1) /\ s \ {j} = t /\ j \in s
        BY <3>1
      <4>2. IsFiniteSet(s) /\ \A i \in s : e[i] \in Int
        <5> HIDE DEF part, E, fine
        <5>1. IsFiniteSet(s) /\ s \in SUBSET G
          BY <1>5, <4>1
        <5> QED
          BY <1>3, <5>1
      <4>3. SumFunctionOnSet(e, s) = e[j] + SumFunctionOnSet(e, s \ {j})
        BY <4>1, <4>2, SumRemove
      <4> QED
        BY <4>1, <4>3
    <3>4. from <= rows[j].ts - rows[j].elapsed
      BY <2>3 DEF Within
    <3>5. CASE part(j - 1) = {}
      <4>1. E(j - 1) = 0
        BY <3>5, SumZero, FS_EmptySet
      <4> HIDE DEF E, part
      <4> QED
        BY <2>1, <3>2, <3>3, <3>4, <4>1
    <3>6. CASE part(j - 1) # {}
      <4>1. j - 1 >= a
        BY <2>1, <3>6
      <4>2. rows[j - 1].ts <= rows[j].ts - rows[j].elapsed
        <5>1. j - 1 \in a .. b - 1 /\ (j - 1) + 1 = j
          BY <2>1, <4>1
        <5> QED
          BY <5>1 DEF InTurn
      <4>3. rows[j - 1].ts \in Nat
        BY <1>1, <2>1, <4>1
      <4>4. E(j - 1) <= rows[j - 1].ts - from
        BY <1>6, <3>6, <4>1
      <4>5. E(j - 1) \in Nat
        BY <1>5
      <4> HIDE DEF E, part
      <4>6. E(j) <= rows[j].ts - from
        <5>1. PICK u \in Int, v \in Int, w \in Int, x \in Int :
                u = E(j - 1) /\ v = rows[j - 1].ts /\ w = rows[j].ts /\ x = rows[j].elapsed
          BY <2>1, <4>3, <4>5
        <5>2. E(j) = x + u /\ v <= w - x /\ u <= v - from
          BY <3>2, <3>3, <4>2, <4>4, <5>1
        <5>3. x + u <= w - from
          BY <5>2
        <5> QED
          BY <5>1, <5>2, <5>3
      <4> QED
        BY <4>6
    <3> QED
      BY <3>5, <3>6
  <2> QED
    BY <2>2, <2>3
<1> HIDE DEF fine
<1>7. \A j \in a .. b : fine(j)
  <2>1. PICK P : P = {k \in Nat : a + k <= b => fine(a + k)}
    OBVIOUS
  <2>2. P \in SUBSET Nat /\ 0 \in P
    <3>1. ASSUME a + 0 <= b PROVE fine(a + 0)
      <4>1. a \in a .. b /\ ~(a - 1 >= a) /\ a + 0 = a
        BY <3>1
      <4>2. fine(a)
        BY <1>6, <4>1
      <4> QED
        BY <4>1, <4>2
    <3> QED
      BY <2>1, <3>1
  <2>3. ASSUME NEW k \in P PROVE k + 1 \in P
    <3>1. k \in Nat /\ k + 1 \in Nat
      BY <2>1
    <3>2. ASSUME a + (k + 1) <= b PROVE fine(a + (k + 1))
      <4>1. PICK j : j = a + (k + 1)
        OBVIOUS
      <4>2. j \in a .. b /\ j - 1 = a + k /\ a + k <= b
        BY <3>1, <3>2, <4>1
      <4>3. fine(j - 1)
        BY <2>1, <3>1, <4>2
      <4> QED
        BY <1>6, <4>1, <4>2, <4>3
    <3> QED
      BY <2>1, <3>1, <3>2
  <2>4. P = Nat
    BY <2>2, <2>3, EveryNat
  <2>5. SUFFICES ASSUME NEW j \in a .. b PROVE fine(j)
    OBVIOUS
  <2>6. PICK k \in Nat : k = j - a /\ a + k = j /\ a + k <= b
    OBVIOUS
  <2>7. k \in P
    BY <2>4
  <2> QED
    BY <2>1, <2>6, <2>7
<1>8. E(b) <= to - from
  <2>1. CASE part(b) = {}
    <3>1. E(b) = 0
      BY <2>1, SumZero, FS_EmptySet
    <3> HIDE DEF E, part
    <3> QED
      BY <3>1
  <2>2. CASE part(b) # {}
    <3>1. PICK j \in part(b) : \A x \in part(b) : x <= j
      <4>1. part(b) \in SUBSET (0 .. b)
        OBVIOUS
      <4> HIDE DEF part
      <4> QED
        BY <2>2, <4>1, LargestIs
    <3>2. part(b) = part(j) /\ j \in a .. b /\ j \in G
      BY <3>1
    <3>3. part(j) # {}
      BY <2>2, <3>2
    <3> HIDE DEF part
    <3>4. E(b) <= rows[j].ts - from
      BY <1>7, <3>2, <3>3 DEF fine
    <3>5. rows[j].ts <= to /\ rows[j].ts \in Nat
      BY <1>1, <1>3, <3>2 DEF Within
    <3>6. E(b) \in Nat
      BY <1>5
    <3> HIDE DEF E
    <3> QED
      BY <3>4, <3>5, <3>6
  <2> QED
    BY <2>1, <2>2
<1> QED
  BY <1>2, <1>8

\* The requests of a soak that its figures are made of.
Used(rows) == {i \in DOMAIN rows : rows[i].tokens > 0}

LEMMA RowFacts ==
  ASSUME NEW rows, NEW m, NEW n, NEW conc, Soak(rows, m, n, conc)
  PROVE  /\ n \in Nat /\ DOMAIN rows = 1 .. n
         /\ \A i \in 1 .. n : /\ rows[i] \in RequestRow /\ rows[i].ok = TRUE /\ rows[i].phase = "c"
                              /\ rows[i].tokens \in Nat /\ rows[i].elapsed \in Nat \ {0}
                              /\ rows[i].ts \in Nat /\ rows[i].ts - rows[i].elapsed \in Nat
                              /\ Positive(rows[i].elapsed)
                              /\ usable(rows[i]) <=> i \in Used(rows)
         /\ Used(rows) \in SUBSET (1 .. n)
<1>1. n \in Nat /\ DOMAIN rows = 1 .. n /\ \A i \in 1 .. n : rows[i] \in RequestRow
  BY DEF Soak
<1>2. ASSUME NEW i \in 1 .. n
      PROVE  /\ rows[i].ok = TRUE /\ rows[i].phase = "c"
             /\ rows[i].tokens \in Nat /\ rows[i].elapsed \in Nat \ {0} /\ rows[i].ts \in Nat
  BY <1>1 DEF RequestRow
<1>3. ASSUME NEW i \in 1 .. n
      PROVE  /\ rows[i].ts - rows[i].elapsed \in Nat /\ Positive(rows[i].elapsed)
             /\ usable(rows[i]) <=> i \in Used(rows)
  <2>1. rows[i].elapsed <= rows[i].ts
    BY DEF Soak
  <2>2. rows[i].tokens # None /\ rows[i].elapsed # None
    BY <1>2, NoneAssumption
  <2>3. rows[i].ts - rows[i].elapsed \in Nat /\ rows[i].elapsed > 0
    <3>1. PICK a \in Nat, b \in Nat : a = rows[i].ts /\ b = rows[i].elapsed /\ b # 0
      BY <1>2
    <3>2. b <= a
      BY <2>1, <3>1
    <3>3. a - b \in Nat /\ b > 0
      BY <3>1, <3>2
    <3> QED
      BY <3>1, <3>3
  <2> QED
    BY <1>1, <2>2, <2>3 DEF Positive, usable, Used
<1>4. Used(rows) \in SUBSET (1 .. n)
  BY <1>1 DEF Used
<1> QED
  BY <1>1, <1>2, <1>3, <1>4

\* The span the requests at some indices fall into.
LEMMA WallIs ==
  ASSUME NEW rows, NEW m, NEW n, NEW conc, Soak(rows, m, n, conc),
         NEW G \in SUBSET (1 .. n), G # {}
  PROVE  \E from, to \in Nat : /\ wall(Only(rows, G)) = to - from
                               /\ from < to /\ Within(rows, G, from, to)
<1>1. PICK rs, at : rs = Only(rows, G) /\ Takes(rs, at, rows, G) /\ Len(rs) \in Nat
  <2>1. n \in Nat
    BY RowFacts
  <2> QED
    BY <2>1, OnlyAt
<1>2. /\ DOMAIN rs = 1 .. Len(rs) /\ at \in [1 .. Len(rs) -> G]
      /\ \A k \in 1 .. Len(rs) : rs[k] = rows[at[k]]
      /\ \A i \in G : \E k \in 1 .. Len(rs) : at[k] = i
  BY <1>1 DEF Takes
<1>3. \A i \in G : /\ rows[i].ts \in Nat /\ rows[i].ts - rows[i].elapsed \in Nat
                   /\ rows[i].ts - rows[i].elapsed < rows[i].ts
  <2>1. SUFFICES ASSUME NEW i \in G
                 PROVE  /\ rows[i].ts \in Nat /\ rows[i].ts - rows[i].elapsed \in Nat
                        /\ rows[i].ts - rows[i].elapsed < rows[i].ts
    OBVIOUS
  <2>2. /\ rows[i].ts \in Nat /\ rows[i].ts - rows[i].elapsed \in Nat
        /\ rows[i].elapsed \in Nat \ {0}
    BY RowFacts
  <2> QED
    BY <2>2
<1>4. PICK ends : ends = {rs[k].ts : k \in DOMAIN rs}
  OBVIOUS
<1>5. PICK starts : starts = {rs[k].ts - rs[k].elapsed : k \in DOMAIN rs}
  OBVIOUS
<1>6. ends = {rows[i].ts : i \in G} /\ starts = {rows[i].ts - rows[i].elapsed : i \in G}
  <2>1. \A k \in DOMAIN rs : \E i \in G : rs[k] = rows[i]
    BY <1>2
  <2>2. \A i \in G : \E k \in DOMAIN rs : rs[k] = rows[i]
    BY <1>2
  <2>3. \A x \in ends : \E i \in G : x = rows[i].ts
    BY <1>4, <2>1
  <2>4. \A i \in G : rows[i].ts \in ends
    BY <1>4, <2>2
  <2>5. \A x \in starts : \E i \in G : x = rows[i].ts - rows[i].elapsed
    BY <1>5, <2>1
  <2>6. \A i \in G : rows[i].ts - rows[i].elapsed \in starts
    BY <1>5, <2>2
  <2>7. ends = {rows[i].ts : i \in G}
    BY <2>3, <2>4
  <2>8. starts = {rows[i].ts - rows[i].elapsed : i \in G}
    BY <2>5, <2>6
  <2> QED
    BY <2>7, <2>8
<1>7. PICK to \in ends : to = Max(ends) /\ \A x \in ends : x <= to
  <2>1. ends \in SUBSET Int /\ ends # {}
    <3>1. \A x \in ends : x \in Nat
      BY <1>3, <1>6
    <3>2. ends # {}
      BY <1>6
    <3> QED
      BY <3>1, <3>2
  <2>2. IsFiniteSet(ends)
    <3>1. n \in Nat
      BY RowFacts
    <3>2. IsFiniteSet(G)
      <4>1. IsFiniteSet(1 .. n)
        BY <3>1, FS_Interval
      <4> QED
        BY <4>1, FS_Subset
    <3>3. [i \in G |-> rows[i].ts] \in Surjection(G, ends)
      BY <1>6 DEF Surjection
    <3> QED
      BY <3>2, <3>3, FS_Surjection
  <2> QED
    BY <2>1, <2>2, FiniteMax
<1>8. PICK from \in starts : from = Min(starts) /\ \A x \in starts : from <= x
  <2>1. starts \in SUBSET Nat /\ starts # {}
    BY <1>3, <1>6
  <2> QED
    BY <2>1, MinIs
<1>9. to \in Nat /\ from \in Nat
  BY <1>3, <1>6
<1>10. Within(rows, G, from, to)
  BY <1>6, <1>7, <1>8 DEF Within
<1>11. from < to
  <2>1. PICK i \in G : TRUE
    OBVIOUS
  <2>2. from <= rows[i].ts - rows[i].elapsed /\ rows[i].ts <= to
    BY <1>10 DEF Within
  <2> QED
    BY <1>3, <1>9, <2>2
<1>12. wall(rs) = to - from
  BY <1>4, <1>5, <1>7, <1>8 DEF wall
<1> QED
  BY <1>1, <1>9, <1>10, <1>11, <1>12

\* The requests at some indices, and their speeds.
Speeds(rs) == [k \in DOMAIN rs |-> <<rs[k].tokens, rs[k].elapsed>>]

LEMMA SpeedsAre ==
  ASSUME NEW rows, NEW n \in Nat, NEW G \in SUBSET (1 .. n),
         \A i \in G : rows[i].tokens \in Nat /\ rows[i].elapsed \in Nat \ {0}
  PROVE  /\ Speeds(Only(rows, G)) \in Seq(Int \X Int)
         /\ \A k \in DOMAIN Speeds(Only(rows, G)) :
              \E i \in G : Speeds(Only(rows, G))[k] = <<rows[i].tokens, rows[i].elapsed>>
<1>1. PICK rs, at : rs = Only(rows, G) /\ Takes(rs, at, rows, G) /\ Len(rs) \in Nat
  BY OnlyAt
<1>2. /\ DOMAIN rs = 1 .. Len(rs) /\ at \in [1 .. Len(rs) -> G]
      /\ \A k \in 1 .. Len(rs) : rs[k] = rows[at[k]]
  BY <1>1 DEF Takes
<1>3. PICK q : q = Speeds(rs)
  OBVIOUS
<1>4. DOMAIN q = 1 .. Len(rs) /\ q = [k \in 1 .. Len(rs) |-> q[k]]
  BY <1>2, <1>3 DEF Speeds
<1>5. ASSUME NEW k \in 1 .. Len(rs)
      PROVE  \E i \in G : q[k] = <<rows[i].tokens, rows[i].elapsed>> /\ q[k] \in Int \X Int
  <2>1. PICK i \in G : i = at[k] /\ rs[k] = rows[i]
    BY <1>2
  <2>2. q[k] = <<rs[k].tokens, rs[k].elapsed>>
    BY <1>2, <1>3 DEF Speeds
  <2>3. q[k] = <<rows[i].tokens, rows[i].elapsed>>
    BY <2>1, <2>2
  <2>4. rows[i].tokens \in Nat /\ rows[i].elapsed \in Nat \ {0}
    BY Zenon, <2>1
  <2>5. PICK x \in Int, y \in Int : x = rows[i].tokens /\ y = rows[i].elapsed
    BY <2>4
  <2> QED
    BY <2>3, <2>5
<1>6. q \in Seq(Int \X Int)
  <2>1. \A k \in 1 .. Len(rs) : q[k] \in Int \X Int
    BY <1>5
  <2> QED
    BY <1>1, <1>4, <2>1
<1> QED
  BY <1>1, <1>3, <1>4, <1>5, <1>6

\* The corrected figures of a soak's one phase.
SummaryOf(s, rows, n, conc) ==
  LET G == Used(rows)
      rs == Only(rows, G)
      w == wall(rs)
      tokens == SumFunctionOnSet([i \in G |-> rows[i].tokens], G)
      time == SumFunctionOnSet([i \in G |-> rows[i].elapsed], G)
      ps == MeanRate(Speeds(rs))
  IN  /\ (s = None) <=> G = {}
      /\ s # None => s = [requests |-> Cardinality(G), tokens |-> tokens,
                          aggregate |-> <<tokens, w>>, per_stream |-> ps,
                          scaling |-> <<tokens * ps[2], w * ps[1]>>,
                          utilization |-> <<time, w * conc>>]

\* The tokens and the times of the requests at some indices, added up.
Measured(s, n, I) ==
  n \in Nat /\ I \in SUBSET (1 .. n) /\ \A i \in I : s[i].tokens \in Nat /\ s[i].elapsed \in Nat

Summed(s, I) ==
  /\ Total(Only(s, I), "tokens") = SumFunctionOnSet([i \in I |-> s[i].tokens], I)
  /\ Total(Only(s, I), "elapsed") = SumFunctionOnSet([i \in I |-> s[i].elapsed], I)

LEMMA TotalsAre ==
  ASSUME NEW s, NEW n, NEW I, Measured(s, n, I)
  PROVE  Summed(s, I)
<1> USE DEF Measured
<1>1. (\A i \in I : s[i]["tokens"] \in Nat) /\ \A i \in I : s[i]["elapsed"] \in Nat
  OBVIOUS
<1>2. Total(Only(s, I), "tokens") = SumFunctionOnSet([i \in I |-> s[i]["tokens"]], I)
  BY <1>1, OnlyTotal
<1>3. Total(Only(s, I), "elapsed") = SumFunctionOnSet([i \in I |-> s[i]["elapsed"]], I)
  BY <1>1, OnlyTotal
<1> QED
  BY <1>2, <1>3 DEF Summed

LEMMA SummaryIs ==
  ASSUME NEW rows, NEW m, NEW n, NEW conc, Soak(rows, m, n, conc)
  PROVE  SummaryOf(summarize(rows, "c"), rows, n, conc)
<1> DEFINE G == Used(rows)
           rs == Only(rows, G)
           w == wall(rs)
           tokens == SumFunctionOnSet([i \in G |-> rows[i].tokens], G)
           time == SumFunctionOnSet([i \in G |-> rows[i].elapsed], G)
           ps == MeanRate(Speeds(rs))
           s == summarize(rows, "c")
<1>1. /\ n \in Nat /\ DOMAIN rows = 1 .. n /\ conc \in {1, 2}
      /\ \A i \in 1 .. n : /\ rows[i].ok = TRUE /\ rows[i].phase = "c" /\ rows[i].concurrency = conc
                           /\ rows[i].tokens \in Nat /\ rows[i].elapsed \in Nat \ {0}
                           /\ usable(rows[i]) <=> i \in G
      /\ G \in SUBSET (1 .. n)
  <2>1. conc \in {1, 2} /\ \A i \in 1 .. n : rows[i].concurrency = conc
    BY DEF Soak
  <2> QED
    BY <2>1, RowFacts
<1> HIDE DEF G
<1>2. {i \in DOMAIN rows : rows[i].ok # FALSE /\ usable(rows[i]) /\ rows[i].phase = "c"} = G
  BY <1>1
<1>3. s = phase_figures(rs)
  <2>1. s = phase_figures(Only(rows, {i \in DOMAIN rows : rows[i].ok # FALSE /\ usable(rows[i]) /\ rows[i].phase = "c"}))
    BY Zenon DEF summarize, Filter
  <2> QED
    BY <1>2, <2>1
<1>4. rs = <<>> <=> G = {}
  BY <1>1, OnlyEmpty
<1>5. CASE G = {}
  <2>1. s = None
    BY <1>3, <1>4, <1>5 DEF phase_figures
  <2> HIDE DEF s
  <2> QED
    BY <1>5, <2>1 DEF SummaryOf, G, s
<1>6. CASE G # {}
  <2>1. PICK from \in Nat, to \in Nat : w = to - from /\ from < to
    BY <1>1, <1>6, WallIs
  <2>2. ~(rs = <<>> \/ w <= 0)
    BY <1>4, <1>6, <2>1
  <2>3. s = figures(rs, <<Total(rs, "tokens"), w>>, ps)
    BY <1>3, <2>2 DEF phase_figures, Speeds
  <2>4. Total(rs, "tokens") = tokens /\ Total(rs, "elapsed") = time
    <3>1. Measured(rows, n, G)
      BY <1>1 DEF Measured
    <3>2. Summed(rows, G)
      BY <3>1, TotalsAre
    <3> QED
      BY <3>2 DEF Summed
  <2>5. Len(rs) = Cardinality(G) /\ OrElse(rs[1].concurrency, 1) = conc
    <3>1. PICK at : Takes(rs, at, rows, G) /\ Len(rs) \in Nat
      BY <1>1, OnlyAt
    <3>2. /\ Len(rs) = Cardinality(G) /\ DOMAIN rs = 1 .. Len(rs) /\ at \in [1 .. Len(rs) -> G]
          /\ \A k \in 1 .. Len(rs) : rs[k] = rows[at[k]]
          /\ \A i \in G : \E k \in 1 .. Len(rs) : at[k] = i
      BY <3>1 DEF Takes
    <3>3. 1 \in 1 .. Len(rs)
      BY <1>6, <3>1, <3>2
    <3>4. rs[1] = rows[at[1]] /\ at[1] \in G
      BY <3>2, <3>3
    <3>5. rs[1].concurrency = conc /\ conc # None
      <4>1. at[1] \in 1 .. n
        BY <1>1, <3>4
      <4>2. rows[at[1]].concurrency = conc
        BY <1>1, <4>1
      <4>3. conc \in Nat
        BY <1>1
      <4> QED
        BY <3>4, <4>2, <4>3, NoneAssumption
    <3> QED
      BY <3>2, <3>5 DEF OrElse
  <2> HIDE DEF tokens, time, ps, w, rs
  <2>6. s = [requests |-> Cardinality(G), tokens |-> tokens,
             aggregate |-> <<tokens, w>>, per_stream |-> ps,
             scaling |-> <<tokens * ps[2], w * ps[1]>>, utilization |-> <<time, w * conc>>]
    BY <2>3, <2>4, <2>5 DEF figures
  <2>7. s # None
    <3>1. tokens \in Nat /\ time \in Nat
      <4>1. IsFiniteSet(G)
        BY <1>1, OnlyIs
      <4>2. \A i \in G : /\ [j \in G |-> rows[j].tokens][i] \in Nat
                          /\ [j \in G |-> rows[j].elapsed][i] \in Nat
        BY <1>1
      <4> QED
        BY <4>1, <4>2, SumNat DEF tokens, time
    <3>2. w \in Int /\ conc \in Int /\ Cardinality(G) \in Nat
      BY <1>1, <2>1, OnlyIs
    <3>3. ps \in Int \X Int
      <4>1. \A i \in G : rows[i].tokens \in Nat /\ rows[i].elapsed \in Nat \ {0}
        BY <1>1
      <4>2. Speeds(Only(rows, G)) \in Seq(Int \X Int)
        BY <1>1, <4>1, SpeedsAre
      <4> QED
        BY <4>2, MeanType DEF ps, rs
    <3>4. PICK x \in Int, y \in Int : ps = <<x, y>>
      BY <3>3
    <3>5. s \in FiguresDoc
      BY <2>6, <3>1, <3>2, <3>3, <3>4 DEF FiguresDoc
    <3> QED
      BY <3>5, DocumentAssumption
  <2> HIDE DEF s
  <2> QED
    BY <1>6, <2>6, <2>7 DEF SummaryOf, G, s, tokens, time, ps, w, rs
<1> QED
  BY <1>5, <1>6

\* What a soak leaves behind is that of one.
LEMMA SoakIs ==
  ASSUME NEW one \in Lanes, NEW two \in Lanes, NEW conc \in {1, 2}, conc = 1 => two = <<>>
  PROVE  \E m, n : Soak(LaneRows(one, "a", conc) \o LaneRows(two, "b", conc), m, n, conc)
<1>1. one \in Seq(LaneDoc) /\ two \in Seq(LaneDoc)
  <2>1. PICK S : S = [pause : Pauses, elapsed : Small \ {0}, tokens : Small]
    OBVIOUS
  <2>2. one \in Seq(S) /\ two \in Seq(S)
    <3>1. one \in BoundedSeq(S, MaxLane) /\ two \in BoundedSeq(S, MaxLane)
      BY <2>1 DEF Lanes
    <3>2. MaxLane \in Nat
      BY ReportsAssumption
    <3> QED
      BY <3>1, <3>2, BoundedIs
  <2>3. S \subseteq LaneDoc
    BY <2>1, ReportsAssumption DEF LaneDoc
  <2> QED
    BY <2>2, <2>3, SeqMonotonic
<1>2. /\ LaneLike(LaneRows(one, "a", conc), Len(one), "a", conc)
      /\ LaneLike(LaneRows(two, "b", conc), Len(two), "b", conc)
  BY <1>1, LaneIs
<1>3. conc = 1 => Len(two) = 0
  OBVIOUS
<1> QED
  BY <1>2, <1>3, LanesJoin

\* The time of its requests is at most its own on every lane.
LEMMA LanesFull ==
  ASSUME NEW rows, NEW m, NEW n, NEW conc, Soak(rows, m, n, conc), Used(rows) # {}
  PROVE  SumFunctionOnSet([i \in Used(rows) |-> rows[i].elapsed], Used(rows))
           <= wall(Only(rows, Used(rows))) * conc
<1>1. PICK G : G = Used(rows)
  OBVIOUS
<1>2. PICK f : f = [i \in G |-> rows[i].elapsed]
  OBVIOUS
<1>3. /\ rows \in Seq(RequestRow) /\ n \in Nat /\ n = Len(rows) /\ DOMAIN rows = 1 .. n
      /\ m \in 0 .. n /\ conc \in {1, 2} /\ (conc = 1 => m = n)
      /\ InTurn(rows, 1, m) /\ InTurn(rows, m + 1, n)
  BY RowFacts DEF Soak
<1>4. G \in SUBSET (1 .. n) /\ \A i \in 1 .. n : rows[i].elapsed \in Nat
  BY <1>1, RowFacts
<1>5. PICK from \in Nat, to \in Nat : /\ wall(Only(rows, G)) = to - from
                                      /\ from < to /\ Within(rows, G, from, to)
  BY <1>1, <1>4, WallIs
<1>6. \A s \in SUBSET G : IsFiniteSet(s) /\ (\A i \in s : f[i] \in Nat) /\ SumFunctionOnSet(f, s) \in Nat
  <2>1. SUFFICES ASSUME NEW s \in SUBSET G
                 PROVE  IsFiniteSet(s) /\ (\A i \in s : f[i] \in Nat) /\ SumFunctionOnSet(f, s) \in Nat
    OBVIOUS
  <2>2. IsFiniteSet(s)
    <3>1. IsFiniteSet(1 .. n) /\ s \in SUBSET (1 .. n)
      BY <1>3, <1>4, IntervalFinite
    <3> QED
      BY <3>1, FS_Subset
  <2>3. \A i \in s : f[i] \in Nat
    BY <1>2, <1>4
  <2> QED
    BY <2>2, <2>3, SumNat
<1>7. PICK one, two : one = G \cap (1 .. m) /\ two = G \cap (m + 1 .. n)
  OBVIOUS
<1>8. one \in SUBSET G /\ two \in SUBSET G /\ one \cup two = G /\ one \cap two = {}
  <2>1. one \in SUBSET G /\ two \in SUBSET G
    BY <1>7
  <2>2. \A i \in G : i \in one \/ i \in two
    <3>1. SUFFICES ASSUME NEW i \in G PROVE i \in one \/ i \in two
      OBVIOUS
    <3>2. i \in 1 .. n
      BY <1>4
    <3>3. i \in 1 .. m \/ i \in m + 1 .. n
      BY <1>3, <3>2
    <3> QED
      BY <1>7, <3>3
  <2>3. \A i : ~(i \in 1 .. m /\ i \in m + 1 .. n)
    BY <1>3
  <2>4. one \cap two = {}
    BY <1>7, <2>3
  <2> QED
    BY <2>1, <2>2, <2>4
<1>9. SumFunctionOnSet(f, G) = SumFunctionOnSet(f, one) + SumFunctionOnSet(f, two)
  <2>1. IsFiniteSet(one) /\ IsFiniteSet(two) /\ \A i \in one \cup two : f[i] \in Int
    BY <1>6, <1>8
  <2>2. SumFunctionOnSet(f, one \cup two) = SumFunctionOnSet(f, one) + SumFunctionOnSet(f, two)
    BY <1>8, <2>1, SumJoin
  <2> QED
    BY <1>8, <2>2
<1>10. SumFunctionOnSet(f, {}) = 0
  BY SumZero, FS_EmptySet
<1>11. SumFunctionOnSet(f, one) <= to - from
  <2>1. CASE m = 0
    <3>1. one = {}
      BY <1>7, <2>1
    <3> QED
      BY <1>5, <1>10, <3>1
  <2>2. CASE m # 0
    <3>1. /\ m \in Nat /\ 1 \in Nat /\ 1 <= 1 /\ m <= Len(rows) /\ G \in SUBSET DOMAIN rows
          /\ from \in Int /\ to \in Int /\ from <= to
      BY <1>3, <1>4, <1>5
    <3>2. SumFunctionOnSet([i \in G |-> rows[i].elapsed], G \cap (1 .. m)) <= to - from
      BY <1>3, <1>5, <3>1, LaneFull
    <3> QED
      BY <1>2, <1>7, <3>2
  <2> QED
    BY <2>1, <2>2
<1>12. SumFunctionOnSet(f, two) <= to - from
  <2>1. /\ m + 1 \in Nat /\ n \in Nat /\ 1 <= m + 1 /\ n <= Len(rows) /\ G \in SUBSET DOMAIN rows
        /\ from \in Int /\ to \in Int /\ from <= to
    BY <1>3, <1>4, <1>5
  <2>2. SumFunctionOnSet([i \in G |-> rows[i].elapsed], G \cap (m + 1 .. n)) <= to - from
    BY <1>3, <1>5, <2>1, LaneFull
  <2> QED
    BY <1>2, <1>7, <2>2
<1>13. conc = 1 => SumFunctionOnSet(f, two) = 0
  <2>1. conc = 1 => two = {}
    BY <1>3, <1>7
  <2> QED
    BY <1>10, <2>1
<1>14. SumFunctionOnSet(f, G) <= (to - from) * conc
  <2>1. PICK a \in Nat, b \in Nat : a = SumFunctionOnSet(f, one) /\ b = SumFunctionOnSet(f, two)
    BY <1>6, <1>8
  <2>2. PICK d \in Nat : d = to - from
    BY <1>5
  <2>3. a <= d /\ b <= d /\ (conc = 1 => b = 0)
    BY <1>11, <1>12, <1>13, <2>1, <2>2
  <2>4. a + b <= d * conc
    <3>1. CASE conc = 1
      BY <2>3, <3>1
    <3>2. CASE conc = 2
      BY <2>3, <3>2
    <3> QED
      BY <1>3, <3>1, <3>2
  <2> QED
    BY <1>9, <2>1, <2>2, <2>4
<1> QED
  BY <1>1, <1>2, <1>5, <1>14

\* With requests of one speed, their mean is that of them all together.
LEMMA OneSpeed ==
  ASSUME NEW rows, NEW m, NEW n, NEW conc, Soak(rows, m, n, conc), Used(rows) # {},
         \A i, j \in Used(rows) : SameRate(<<rows[i].tokens, rows[i].elapsed>>, <<rows[j].tokens, rows[j].elapsed>>)
  PROVE  LET G == Used(rows)
             ps == MeanRate(Speeds(Only(rows, G)))
         IN  SumFunctionOnSet([i \in G |-> rows[i].tokens], G) * ps[2]
               = SumFunctionOnSet([i \in G |-> rows[i].elapsed], G) * ps[1]
<1>1. PICK G : G = Used(rows)
  OBVIOUS
<1>2. PICK f, h : f = [i \in G |-> rows[i].tokens] /\ h = [i \in G |-> rows[i].elapsed]
  OBVIOUS
<1>3. /\ n \in Nat /\ G \in SUBSET (1 .. n)
      /\ \A i \in 1 .. n : rows[i].tokens \in Nat /\ rows[i].elapsed \in Nat \ {0}
  BY <1>1, RowFacts
<1>4. IsFiniteSet(G)
  <2>1. IsFiniteSet(1 .. n)
    BY <1>3, IntervalFinite
  <2> QED
    BY <1>3, <2>1, FS_Subset
<1>5. PICK k \in G : TRUE
  BY <1>1
<1>6. PICK t \in Nat, e \in Nat \ {0} : t = rows[k].tokens /\ e = rows[k].elapsed
  BY <1>3, <1>5
<1>7. \A i \in G : rows[i].tokens * e = t * rows[i].elapsed
  BY <1>1, <1>5, <1>6 DEF SameRate
<1>8. SumFunctionOnSet(f, G) * e = t * SumFunctionOnSet(h, G)
  <2>1. \A i \in G : f[i] \in Int /\ h[i] \in Int /\ f[i] * e = t * h[i]
    <3>1. SUFFICES ASSUME NEW i \in G PROVE f[i] \in Int /\ h[i] \in Int /\ f[i] * e = t * h[i]
      OBVIOUS
    <3>2. f[i] = rows[i].tokens /\ h[i] = rows[i].elapsed
      BY <1>2
    <3>3. rows[i].tokens \in Nat /\ rows[i].elapsed \in Nat
      <4>1. i \in 1 .. n
        BY <1>3
      <4> QED
        BY <1>3, <4>1
    <3>4. f[i] \in Int /\ h[i] \in Int
      BY <3>2, <3>3
    <3>5. rows[i].tokens * e = t * rows[i].elapsed
      BY <1>7
    <3>6. f[i] * e = t * h[i]
      BY <3>2, <3>5, Zenon
    <3> QED
      BY <3>4, <3>6, Zenon
  <2> QED
    BY <1>4, <2>1, SumRatio
<1>9. PICK q : q = Speeds(Only(rows, G))
  OBVIOUS
<1>10. q \in Seq(Int \X Int) /\ \A j \in DOMAIN q : \E i \in G : q[j] = <<rows[i].tokens, rows[i].elapsed>>
  <2>1. \A i \in G : rows[i].tokens \in Nat /\ rows[i].elapsed \in Nat \ {0}
    BY <1>3
  <2> QED
    BY <1>3, <1>9, <2>1, SpeedsAre
<1>11. PICK ps : ps = MeanRate(q)
  OBVIOUS
<1>12. ps[1] * e = t * ps[2]
  <2>1. \A j \in DOMAIN q : q[j][1] * e = t * q[j][2]
    <3>1. SUFFICES ASSUME NEW j \in DOMAIN q PROVE q[j][1] * e = t * q[j][2]
      OBVIOUS
    <3>2. PICK i \in G : q[j] = <<rows[i].tokens, rows[i].elapsed>>
      BY <1>10
    <3>3. q[j][1] = rows[i].tokens /\ q[j][2] = rows[i].elapsed
      BY <3>2
    <3> QED
      BY <1>7, <3>2, <3>3
  <2>2. t \in Int /\ e \in Int
    OBVIOUS
  <2> QED
    BY <1>10, <1>11, <2>1, <2>2, MeanSame
<1>13. ps \in Int \X Int
  BY <1>10, <1>11, MeanType
<1>14. SumFunctionOnSet(f, G) \in Nat /\ SumFunctionOnSet(h, G) \in Nat
  <2>1. \A i \in G : f[i] \in Nat /\ h[i] \in Nat
    BY <1>2, <1>3
  <2> QED
    BY <1>4, <2>1, SumNat
<1>15. PICK a \in Int, b \in Int, x \in Int, y \in Int :
         a = SumFunctionOnSet(f, G) /\ b = SumFunctionOnSet(h, G) /\ x = ps[1] /\ y = ps[2]
  BY <1>13, <1>14
<1>16. a * y = b * x
  <2>1. a * e = t * b /\ x * e = t * y
    BY <1>8, <1>12, <1>15
  <2>2. (a * y) * e = (a * e) * y /\ (b * x) * e = b * (x * e)
    OBVIOUS
  <2>3. (a * e) * y = (t * b) * y /\ b * (x * e) = b * (t * y)
    BY <2>1
  <2>4. (t * b) * y = b * (t * y)
    OBVIOUS
  <2>5. (a * y) * e = (b * x) * e
    BY <2>2, <2>3, <2>4
  <2>6. PICK u \in Int, v \in Int : u = a * y /\ v = b * x
    OBVIOUS
  <2>7. (u - v) * e = 0
    BY <2>5, <2>6
  <2>8. u - v = 0
    BY <2>7
  <2> QED
    BY <2>6, <2>8
<1> QED
  BY <1>1, <1>2, <1>9, <1>11, <1>15, <1>16

LEMMA SoakInput ==
  ASSUME ReadSoak
  PROVE  \E one \in Lanes, two \in Lanes, conc \in {1, 2}, result \in {None, Recorded} :
           /\ conc = 1 => two = <<>>
           /\ input'.conc = conc
           /\ input'.rows = LaneRows(one, "a", conc) \o LaneRows(two, "b", conc)
           /\ input'.state = [phase |-> "DONE", live_agg |-> None,
                              phases |-> << [name |-> "c", c |-> conc, result |-> result] >>]
<1>1. PICK one \in Lanes, two \in Lanes, conc \in {1, 2}, recorded \in BOOLEAN :
        /\ conc = 1 => two = <<>>
        /\ input' = [kind  |-> "soak", conc |-> conc,
                     rows  |-> LaneRows(one, "a", conc) \o LaneRows(two, "b", conc),
                     state |-> [phase |-> "DONE", live_agg |-> None,
                                phases |-> << [name |-> "c", c |-> conc,
                                  result |-> IF recorded THEN Recorded ELSE None] >>]]
  BY Zenon DEF ReadSoak
<1>2. PICK rows, state :
        /\ rows = LaneRows(one, "a", conc) \o LaneRows(two, "b", conc)
        /\ state = [phase |-> "DONE", live_agg |-> None,
                    phases |-> << [name |-> "c", c |-> conc,
                      result |-> IF recorded THEN Recorded ELSE None] >>]
  OBVIOUS
<1>3. input' = [kind |-> "soak", conc |-> conc, rows |-> rows, state |-> state]
  BY Zenon, <1>1, <1>2
<1>4. input'.conc = conc /\ input'.rows = rows /\ input'.state = state
  BY <1>3
<1>5. PICK result \in {None, Recorded} : result = IF recorded THEN Recorded ELSE None
  OBVIOUS
<1> QED
  BY Zenon, <1>1, <1>2, <1>4, <1>5

LEMMA LanesStep == ReadSoak => LanesBound'
<1> SUFFICES ASSUME ReadSoak PROVE LanesBound'
  OBVIOUS
<1>1. PICK one \in Lanes, two \in Lanes, c \in {1, 2} :
        /\ c = 1 => two = <<>>
        /\ input'.conc = c
        /\ input'.rows = LaneRows(one, "a", c) \o LaneRows(two, "b", c)
  BY SoakInput
<1>2. PICK rows, conc : rows = input'.rows /\ conc = input'.conc
  OBVIOUS
<1>3. PICK m, n : Soak(rows, m, n, conc)
  BY <1>1, <1>2, SoakIs
<1>4. PICK G, rs, w, tokens, time, ps :
        /\ G = Used(rows) /\ rs = Only(rows, G) /\ w = wall(rs)
        /\ tokens = SumFunctionOnSet([i \in G |-> rows[i].tokens], G)
        /\ time = SumFunctionOnSet([i \in G |-> rows[i].elapsed], G)
        /\ ps = MeanRate(Speeds(rs))
  OBVIOUS
<1>5. PICK s : s = summarize(rows, "c")
  OBVIOUS
<1>6. /\ (s = None) <=> G = {}
      /\ s # None => s = [requests |-> Cardinality(G), tokens |-> tokens,
                          aggregate |-> <<tokens, w>>, per_stream |-> ps,
                          scaling |-> <<tokens * ps[2], w * ps[1]>>,
                          utilization |-> <<time, w * conc>>]
  BY <1>3, <1>4, <1>5, SummaryIs DEF SummaryOf
<1>7. PICK speeds : speeds = {<<rows[i].tokens, rows[i].elapsed>> : i \in {j \in DOMAIN rows : usable(rows[j])}}
  OBVIOUS
<1>8. ASSUME s # None
      PROVE  /\ s.utilization[1] <= s.utilization[2]
             /\ (\A p, q \in speeds : SameRate(p, q)) =>
                  SameRate(s.scaling, <<s.utilization[1] * conc, s.utilization[2]>>)
  <2>1. /\ G # {}
        /\ s.utilization = <<time, w * conc>> /\ s.scaling = <<tokens * ps[2], w * ps[1]>>
    BY <1>6, <1>8
  <2>2. time <= w * conc
    BY <1>3, <1>4, <2>1, LanesFull
  <2>3. ASSUME \A p, q \in speeds : SameRate(p, q)
        PROVE  SameRate(s.scaling, <<s.utilization[1] * conc, s.utilization[2]>>)
    <3>1. \A i \in G : <<rows[i].tokens, rows[i].elapsed>> \in speeds
      BY <1>3, <1>4, <1>7, RowFacts
    <3>2. \A i, j \in G : SameRate(<<rows[i].tokens, rows[i].elapsed>>, <<rows[j].tokens, rows[j].elapsed>>)
      BY <2>3, <3>1
    <3>3. tokens * ps[2] = time * ps[1]
      BY <1>3, <1>4, <2>1, <3>2, OneSpeed
    <3>4. PICK a \in Int, b \in Int, x \in Int, y \in Int, d \in Int, k \in Int :
            a = tokens /\ b = time /\ x = ps[1] /\ y = ps[2] /\ d = w /\ k = conc
      <4>1. /\ n \in Nat /\ G \in SUBSET (1 .. n) /\ conc \in {1, 2}
            /\ \A i \in 1 .. n : rows[i].tokens \in Nat /\ rows[i].elapsed \in Nat \ {0}
        <5>1. conc \in {1, 2}
          BY <1>3 DEF Soak
        <5> QED
          BY <1>3, <1>4, <5>1, RowFacts
      <4>2. tokens \in Nat /\ time \in Nat
        <5>1. IsFiniteSet(G)
          BY <4>1, OnlyIs
        <5>2. \A i \in G : /\ [j \in G |-> rows[j].tokens][i] \in Nat
                           /\ [j \in G |-> rows[j].elapsed][i] \in Nat
          BY <4>1
        <5> QED
          BY <1>4, <5>1, <5>2, SumNat
      <4>3. ps \in Int \X Int
        <5>1. \A i \in G : rows[i].tokens \in Nat /\ rows[i].elapsed \in Nat \ {0}
          BY <4>1
        <5>2. Speeds(rs) \in Seq(Int \X Int)
          BY <1>4, <4>1, <5>1, SpeedsAre
        <5> QED
          BY <1>4, <5>2, MeanType
      <4>4. w \in Int
        <5>1. PICK from \in Nat, to \in Nat : w = to - from
          BY <1>3, <1>4, <2>1, <4>1, WallIs
        <5> QED
          BY <5>1
      <4> QED
        BY <4>1, <4>2, <4>3, <4>4
    <3>5. a * y = b * x
      BY <3>3, <3>4
    <3>6. (a * y) * (d * k) = (b * k) * (d * x)
      <4>1. (b * x) * (d * k) = (b * k) * (d * x)
        OBVIOUS
      <4> QED
        BY <3>5, <4>1
    <3>7. s.scaling = <<a * y, d * x>> /\ <<s.utilization[1] * conc, s.utilization[2]>> = <<b * k, d * k>>
      BY <2>1, <3>4
    <3> QED
      BY <3>6, <3>7 DEF SameRate
  <2> QED
    BY <2>1, <2>2, <2>3
<1> QED
  BY <1>2, <1>5, <1>7, <1>8 DEF LanesBound

\* Whatever the lanes of a soak and the pauses between their requests, its streams
\* are never more than fully used, and with requests of one speed the scaling shown
\* is their use times the concurrency.
THEOREM LanesNeverPastFull == Spec => []LanesBound
<1>1. Init => LanesBound
  BY DEF Init, Start, LanesBound
<1>2. LanesBound /\ [Next]_input => LanesBound'
  <2>1. ASSUME Next PROVE LanesBound'
    <3>1. CASE ReadSoak
      BY <3>1, LanesStep
    <3>2. CASE input'.kind # "soak"
      BY <3>2 DEF LanesBound
    <3> QED
      BY <2>1, <3>1, <3>2, OtherKinds
  <2>2. ASSUME LanesBound, UNCHANGED input PROVE LanesBound'
    BY <2>2 DEF LanesBound
  <2> QED
    BY <2>1, <2>2
<1> QED
  BY <1>1, <1>2, PTL DEF Spec

-----------------------------------------------------------------------------
(* The shapes of a soak.                                                   *)

\* The elements of a sequence at some of its indices, counted.
Places(t, at, J) == {k \in 1 .. Len(t) : at[k] \in J}

LEMMA OnlyCount ==
  ASSUME NEW I \in SUBSET Nat, NEW J \in SUBSET I,
         NEW s, NEW t, NEW at, Takes(t, at, s, I), Len(t) \in Nat
  PROVE  Cardinality(Places(t, at, J)) = Cardinality(J)
<1>1. /\ at \in [1 .. Len(t) -> I]
      /\ \A k, l \in 1 .. Len(t) : k < l => at[k] < at[l]
      /\ \A i \in I : \E k \in 1 .. Len(t) : at[k] = i
  BY DEF Takes
<1>2. PICK K : K = {k \in 1 .. Len(t) : at[k] \in J}
  OBVIOUS
<1>3. PICK f : f = [k \in K |-> at[k]]
  OBVIOUS
<1>4. f \in [K -> J] /\ \A k \in K : f[k] = at[k]
  BY <1>2, <1>3
<1>5. \A k, l \in K : f[k] = f[l] => k = l
  <2>1. ASSUME NEW k \in K, NEW l \in K, f[k] = f[l], k < l PROVE FALSE
    <3>1. k \in 1 .. Len(t) /\ l \in 1 .. Len(t)
      BY <1>2
    <3>2. at[k] < at[l] /\ at[k] = at[l] /\ at[k] \in I
      BY <1>1, <1>4, <2>1, <3>1
    <3>3. at[k] \in Nat
      BY <3>2
    <3> QED
      BY <3>2, <3>3
  <2>2. \A k \in K : k \in Nat
    BY <1>2
  <2> QED
    BY <2>1, <2>2
<1>6. \A i \in J : \E k \in K : f[k] = i
  BY <1>1, <1>2, <1>4
<1>7. IsFiniteSet(K)
  <2>1. IsFiniteSet(1 .. Len(t)) /\ K \in SUBSET (1 .. Len(t))
    BY <1>2, IntervalFinite
  <2> QED
    BY <2>1, FS_Subset
<1>8. f \in Surjection(K, J) /\ f \in Injection(K, J)
  BY <1>4, <1>5, <1>6 DEF Surjection, Injection, IsInjective
<1>9. Cardinality(J) = Cardinality(K)
  BY <1>7, <1>8, FS_Surjection
<1> QED
  BY <1>2, <1>9 DEF Places

\* A row that names its time so is found by the history.
LEMMA RequestElapsed ==
  ASSUME NEW r \in RequestRow, r.time["elapsed"] = r.elapsed
  PROVE  elapsed(r, "elapsed") = r.elapsed /\ r.elapsed # None
<1>1. r.elapsed \in Nat /\ r.elapsed # 0 /\ DOMAIN r.time = {"elapsed"}
  BY DEF RequestRow
<1>2. PICK keys : keys = <<"elapsed">> \o ELAPSED_KEYS
  OBVIOUS
<1>3. DOMAIN keys = {1, 2, 3, 4} /\ keys[1] = "elapsed"
  BY <1>2 DEF ELAPSED_KEYS
<1>4. Get(r.time, "elapsed") = r.elapsed
  BY <1>1 DEF Get
<1>5. PICK hits : hits = {i \in DOMAIN keys : Get(r.time, keys[i]) \notin {None, 0}}
  OBVIOUS
<1>6. r.elapsed # None
  BY <1>1, NoneAssumption
<1>7. 1 \in hits /\ hits \in SUBSET Nat /\ hits # {} /\ \A i \in hits : 1 <= i
  BY <1>1, <1>3, <1>4, <1>5, <1>6
<1>8. Min(hits) = 1
  BY <1>7, MinIs
<1>9. "elapsed" # None
  BY NameAssumption
<1>10. elapsed(r, "elapsed") = IF hits = {} THEN None ELSE r.time[keys[Min(hits)]]
  BY <1>2, <1>5, <1>9 DEF elapsed
<1> QED
  BY <1>3, <1>6, <1>7, <1>8, <1>10

\* The rates of requests are made of those with tokens.
LEMMA RequestRates ==
  ASSUME NEW k \in Nat, NEW rs, DOMAIN rs = 1 .. k,
         \A i \in 1 .. k : rs[i] \in RequestRow /\ rs[i].time["elapsed"] = rs[i].elapsed
  PROVE  /\ (rates(rs, "elapsed") = None) <=> Used(rs) = {}
         /\ rates(rs, "elapsed") # None => rates(rs, "elapsed").n = Cardinality(Used(rs))
<1>1. PICK G, p : G = Used(rs) /\ p = rates(rs, "elapsed")
  OBVIOUS
<1>2. G \in SUBSET (1 .. k)
  BY <1>1 DEF Used
<1>3. \A i \in 1 .. k : /\ rs[i].tokens \in Nat /\ rs[i].elapsed \in Nat
                        /\ elapsed(rs[i], "elapsed") = rs[i].elapsed /\ rs[i].elapsed # None
                        /\ Positive(rs[i].tokens) <=> i \in G
  <2>1. SUFFICES ASSUME NEW i \in 1 .. k
                 PROVE  /\ rs[i].tokens \in Nat /\ rs[i].elapsed \in Nat
                        /\ elapsed(rs[i], "elapsed") = rs[i].elapsed /\ rs[i].elapsed # None
                        /\ Positive(rs[i].tokens) <=> i \in G
    OBVIOUS
  <2>2. rs[i].tokens \in Nat /\ rs[i].elapsed \in Nat
    BY DEF RequestRow
  <2>3. elapsed(rs[i], "elapsed") = rs[i].elapsed /\ rs[i].elapsed # None
    BY RequestElapsed
  <2>4. rs[i].tokens # None
    BY <2>2, NoneAssumption
  <2>5. Positive(rs[i].tokens) <=> i \in G
    BY <1>1, <2>4 DEF Positive, Used
  <2> QED
    BY <2>2, <2>3, <2>5
<1>4. {i \in DOMAIN rs : Positive(rs[i].tokens) /\ elapsed(rs[i], "elapsed") # None} = G
  BY <1>2, <1>3
<1>5. PICK g : g = Only(rs, G)
  OBVIOUS
<1>6. PICK pr : pr = [i \in DOMAIN g |-> <<g[i].tokens, elapsed(g[i], "elapsed")>>]
  OBVIOUS
<1>7. p = IF g = <<>> THEN None
          ELSE [n |-> Len(g), mean |-> MeanRate(pr), tokens |-> Total(rs, "tokens")]
  <2>1. PICK h : h = Filter(rs, LAMBDA r : Positive(r.tokens) /\ elapsed(r, "elapsed") # None)
    OBVIOUS
  <2>2. h = g
    BY <1>4, <1>5, <2>1 DEF Filter
  <2>3. p = IF h = <<>> THEN None
            ELSE [n |-> Len(h), mean |-> MeanRate([i \in DOMAIN h |-> <<h[i].tokens, elapsed(h[i], "elapsed")>>]),
                  tokens |-> Total(rs, "tokens")]
    BY <1>1, <2>1 DEF rates
  <2> QED
    BY <1>6, <2>2, <2>3
<1>8. /\ Len(g) = Cardinality(G) /\ Len(g) \in Nat /\ DOMAIN g = 1 .. Len(g)
      /\ \A j \in 1 .. Len(g) : \E i \in G : g[j] = rs[i]
      /\ (g = <<>> <=> G = {})
  <2>1. /\ Len(g) = Cardinality(G) /\ DOMAIN g = 1 .. Cardinality(G) /\ Cardinality(G) \in 0 .. k
        /\ \A j \in 1 .. Cardinality(G) : g[j] = rs[Nth(G, j)] /\ Nth(G, j) \in G
    BY <1>2, <1>5, OnlyIs
  <2>2. g = <<>> <=> G = {}
    BY <1>2, <1>5, OnlyEmpty
  <2> QED
    BY <2>1, <2>2
<1>9. pr \in Seq(Int \X Int)
  <2>1. \A j \in 1 .. Len(g) : <<g[j].tokens, elapsed(g[j], "elapsed")>> \in Int \X Int
    <3>1. SUFFICES ASSUME NEW j \in 1 .. Len(g)
                   PROVE  <<g[j].tokens, elapsed(g[j], "elapsed")>> \in Int \X Int
      OBVIOUS
    <3>2. PICK i \in G : g[j] = rs[i]
      BY <1>8
    <3>3. i \in 1 .. k
      BY <1>2
    <3>4. PICK x \in Int, y \in Int : x = rs[i].tokens /\ y = elapsed(rs[i], "elapsed")
      BY <1>3, <3>3
    <3> QED
      BY <3>2, <3>4
  <2> QED
    BY <1>6, <1>8, <2>1
<1>10. Total(rs, "tokens") \in Nat
  <2>1. \A i \in 1 .. k : rs[i]["tokens"] \in Nat \cup {None}
    BY <1>3
  <2> QED
    BY <2>1, TotalType
<1>11. PICK doc : doc = [n |-> Len(g), mean |-> MeanRate(pr), tokens |-> Total(rs, "tokens")]
  OBVIOUS
<1>12. doc # None /\ doc.n = Cardinality(G)
  <2>1. MeanRate(pr) \in Int \X Int
    BY <1>9, MeanType
  <2>2. doc \in RatesDoc
    BY <1>8, <1>10, <1>11, <2>1 DEF RatesDoc
  <2> QED
    BY <1>8, <1>11, <2>2, DocumentAssumption
<1> QED
  BY <1>1, <1>7, <1>8, <1>11, <1>12

\* The requests of a shape that its rates are made of.
UsedOf(rows, g) == {i \in Used(rows) : rows[i].shape = g}

LEMMA ShapeRates ==
  ASSUME NEW rows, NEW m, NEW n, NEW conc, Soak(rows, m, n, conc), NEW g
  PROVE  LET p == rates(Filter(rows, LAMBDA r : r["shape"] = g), "elapsed")
         IN  /\ (p = None) <=> UsedOf(rows, g) = {}
             /\ p # None => p.n = Cardinality(UsedOf(rows, g))
<1>1. /\ n \in Nat /\ DOMAIN rows = 1 .. n
      /\ \A i \in 1 .. n : rows[i] \in RequestRow /\ rows[i].time["elapsed"] = rows[i].elapsed
  BY RowFacts DEF Soak
<1>2. PICK I : I = {i \in DOMAIN rows : rows[i]["shape"] = g}
  OBVIOUS
<1>3. I \in SUBSET (1 .. n)
  BY <1>1, <1>2
<1>4. PICK t, at : t = Only(rows, I) /\ Takes(t, at, rows, I) /\ Len(t) \in Nat
  BY <1>1, <1>3, OnlyAt
<1>5. Filter(rows, LAMBDA r : r["shape"] = g) = t
  BY <1>2, <1>4 DEF Filter
<1>6. /\ DOMAIN t = 1 .. Len(t) /\ at \in [1 .. Len(t) -> I]
      /\ \A k \in 1 .. Len(t) : t[k] = rows[at[k]]
  BY <1>4 DEF Takes
<1>7. \A k \in 1 .. Len(t) : t[k] \in RequestRow /\ t[k].time["elapsed"] = t[k].elapsed
  BY <1>1, <1>3, <1>6
<1>8. PICK J : J = UsedOf(rows, g)
  OBVIOUS
<1>9. J \in SUBSET I
  BY <1>1, <1>2, <1>8 DEF UsedOf, Used
<1>10. Used(t) = Places(t, at, J)
  <2>1. \A k \in 1 .. Len(t) : t[k].tokens > 0 <=> at[k] \in J
    <3>1. SUFFICES ASSUME NEW k \in 1 .. Len(t) PROVE t[k].tokens > 0 <=> at[k] \in J
      OBVIOUS
    <3>2. at[k] \in I /\ t[k] = rows[at[k]] /\ rows[at[k]].shape = g /\ at[k] \in DOMAIN rows
      BY <1>2, <1>6
    <3> QED
      BY <1>8, <3>2 DEF UsedOf, Used
  <2> QED
    BY <1>6, <2>1 DEF Used, Places
<1>11. Cardinality(Used(t)) = Cardinality(J)
  <2>1. Cardinality(Places(t, at, J)) = Cardinality(J)
    <3>1. I \in SUBSET Nat
      BY <1>3
    <3> QED
      BY <1>4, <1>9, <3>1, OnlyCount
  <2> QED
    BY <1>10, <2>1
<1>12. Used(t) = {} <=> J = {}
  <2>1. IsFiniteSet(J) /\ IsFiniteSet(Used(t))
    <3>1. IsFiniteSet(1 .. n) /\ J \in SUBSET (1 .. n)
      BY <1>1, <1>3, <1>9, IntervalFinite
    <3>2. IsFiniteSet(1 .. Len(t)) /\ Used(t) \in SUBSET (1 .. Len(t))
      BY <1>4, <1>10, IntervalFinite DEF Places
    <3> QED
      BY <3>1, <3>2, FS_Subset
  <2> QED
    BY <1>11, <2>1, FS_EmptySet
<1>13. /\ (rates(t, "elapsed") = None) <=> Used(t) = {}
       /\ rates(t, "elapsed") # None => rates(t, "elapsed").n = Cardinality(Used(t))
  BY <1>4, <1>6, <1>7, RequestRates
<1> QED
  BY <1>5, <1>8, <1>11, <1>12, <1>13

\* The requests are a file without a half-written line.
LEMMA RowsThemselves ==
  ASSUME NEW rows \in Seq(RequestRow)
  PROVE  read_rows(rows) = rows
<1>1. PICK n \in Nat : n = Len(rows) /\ DOMAIN rows = 1 .. n /\ \A i \in 1 .. n : rows[i] \in RequestRow
  OBVIOUS
<1>2. rows # None /\ \A i \in 1 .. n : rows[i] # None
  BY <1>1, DocumentAssumption
<1>3. {i \in DOMAIN rows : rows[i] # None} = 1 .. n
  BY <1>1, <1>2
<1>4. read_rows(rows) = Only(rows, 1 .. n)
  BY <1>2, <1>3 DEF read_rows, Filter
<1>5. /\ DOMAIN Only(rows, 1 .. n) = 1 .. Cardinality(1 .. n)
      /\ \A k \in 1 .. Cardinality(1 .. n) : Only(rows, 1 .. n)[k] = rows[Nth(1 .. n, k)]
  BY OnlyIs
<1>6. Cardinality(1 .. n) = n
  BY FS_Interval
<1>7. \A k \in 1 .. n : Nth(1 .. n, k) = k
  BY NthOfAll
<1>8. PICK t : t = Only(rows, 1 .. n)
  OBVIOUS
<1>9. DOMAIN t = DOMAIN rows /\ \A k \in DOMAIN rows : t[k] = rows[k]
  BY <1>1, <1>5, <1>6, <1>7, <1>8
<1>10. t = [k \in DOMAIN t |-> t[k]]
  BY <1>8 DEF Only
<1>11. rows = [k \in DOMAIN rows |-> rows[k]]
  BY <1>1
<1> QED
  BY <1>4, <1>8, <1>9, <1>10, <1>11

\* The archive's shapes are made of every request that the figures are made of.
LEMMA ShapesAddUp ==
  ASSUME NEW rows, NEW m, NEW n, NEW conc, Soak(rows, m, n, conc), Used(rows) # {}
  PROVE  SumFunction([s \in DOMAIN load_shapes(rows) |-> load_shapes(rows)[s].all.n]) = Cardinality(Used(rows))
<1> DEFINE of(g) == rates(Filter(rows, LAMBDA r : r["shape"] = g), "elapsed")
           count(g) == Cardinality(UsedOf(rows, g))
<1>1. \A g : (of(g) = None <=> UsedOf(rows, g) = {}) /\ (of(g) # None => of(g).n = count(g))
  <2>1. SUFFICES ASSUME NEW g
                 PROVE  (of(g) = None <=> UsedOf(rows, g) = {}) /\ (of(g) # None => of(g).n = count(g))
    OBVIOUS
  <2> QED
    BY Zenon, ShapeRates
<1>2. /\ n \in Nat /\ DOMAIN rows = 1 .. n /\ rows \in Seq(RequestRow)
      /\ Used(rows) \in SUBSET (1 .. n) /\ \A i \in 1 .. n : rows[i].shape \in {"a", "b"}
  <2>1. rows \in Seq(RequestRow) /\ \A i \in 1 .. n : rows[i].shape = "a" \/ rows[i].shape = "b"
    BY DEF Soak
  <2> QED
    BY <2>1, RowFacts
<1>3. PICK groups : groups = {rows[i]["shape"] : i \in DOMAIN rows} \ {None}
  OBVIOUS
<1>4. PICK D : D = {g \in groups : of(g) # None}
  OBVIOUS
<1>5. grouped(rows, "shape", "elapsed") = [g \in D |-> of(g)]
  BY <1>3, <1>4 DEF grouped
<1> HIDE DEF of
<1>6. D \in SUBSET {"a", "b"} /\ \A g \in {"a", "b"} : g \in D <=> UsedOf(rows, g) # {}
  <2>1. \A x \in groups : x \in {"a", "b"}
    BY <1>2, <1>3
  <2>2. ASSUME NEW g \in {"a", "b"}, UsedOf(rows, g) # {} PROVE g \in groups
    <3>1. PICK i \in Used(rows) : rows[i].shape = g
      BY <2>2 DEF UsedOf
    <3>2. i \in DOMAIN rows /\ g # None
      BY <1>2, NameAssumption
    <3> QED
      BY <1>3, <3>1, <3>2
  <2> QED
    BY <1>1, <1>4, <2>1, <2>2
<1>7. D # {}
  <2>1. PICK i \in Used(rows) : TRUE
    OBVIOUS
  <2>2. PICK g \in {"a", "b"} : g = rows[i].shape
    BY <1>2, <2>1
  <2>3. i \in UsedOf(rows, g)
    BY <2>1, <2>2 DEF UsedOf
  <2> QED
    BY <1>6, <2>3
<1>8. PICK e : load_shapes(rows) = [s \in D |-> [all |-> of(s), by_conc |-> e[s]]]
  <2>1. PICK sh : sh = grouped(rows, "shape", "elapsed")
    OBVIOUS
  <2>2. DOMAIN sh = D /\ \A s \in D : sh[s] = of(s)
    BY <1>5, <2>1
  <2>3. PICK e : e = [s \in D |-> grouped(Filter(rows, LAMBDA r : r.shape = s), "concurrency", "elapsed")]
    OBVIOUS
  <2>4. load_shapes(rows) = [s \in DOMAIN sh |->
          [all |-> sh[s], by_conc |-> grouped(Filter(rows, LAMBDA r : r.shape = s), "concurrency", "elapsed")]]
    <3>1. read_rows(rows) = rows
      BY <1>2, RowsThemselves
    <3>2. DOMAIN sh # {}
      BY <1>7, <2>2
    <3> QED
      BY <2>1, <3>1, <3>2 DEF load_shapes
  <2>5. load_shapes(rows) = [s \in D |-> [all |-> of(s), by_conc |-> e[s]]]
    BY <2>2, <2>3, <2>4
  <2> QED
    BY <2>5
<1>9. PICK L, F : L = load_shapes(rows) /\ F = [s \in DOMAIN L |-> L[s].all.n]
  OBVIOUS
<1>10. DOMAIN F = D /\ \A s \in D : F[s] = count(s)
  <2>1. DOMAIN L = D /\ \A s \in D : L[s].all = of(s)
    BY <1>8, <1>9
  <2>2. \A s \in D : of(s).n = count(s)
    BY <1>1, <1>4
  <2> QED
    BY <1>9, <2>1, <2>2
<1>11. IsFiniteSet(Used(rows)) /\ \A g : IsFiniteSet(UsedOf(rows, g)) /\ count(g) \in Nat
  <2>1. IsFiniteSet(1 .. n)
    BY <1>2, IntervalFinite
  <2>2. IsFiniteSet(Used(rows))
    BY <1>2, <2>1, FS_Subset
  <2>3. \A g : UsedOf(rows, g) \in SUBSET Used(rows)
    BY DEF UsedOf
  <2> QED
    BY <2>2, <2>3, FS_Subset, FS_CardinalityType
<1> HIDE DEF count
<1>12. PICK h : h = [s \in {"a", "b"} |-> count(s)]
  OBVIOUS
<1>13. SumFunctionOnSet(F, D) = SumFunctionOnSet(h, {"a", "b"})
  <2>1. IsFiniteSet({"a", "b"}) /\ IsFiniteSet(D)
    <3>1. IsFiniteSet({"b"})
      BY FS_Singleton
    <3>2. IsFiniteSet({"b"} \cup {"a"}) /\ {"a", "b"} = {"b"} \cup {"a"}
      BY <3>1, FS_AddElement
    <3> QED
      BY <1>6, <3>2, FS_Subset
  <2>2. \A x \in {"a", "b"} : h[x] \in Nat
    BY <1>11, <1>12
  <2>3. \A x \in {"a", "b"} \ D : h[x] = 0
    <3>1. SUFFICES ASSUME NEW x \in {"a", "b"} \ D PROVE h[x] = 0
      OBVIOUS
    <3>2. UsedOf(rows, x) = {}
      BY <1>6, <3>1
    <3> QED
      BY <1>12, <3>1, <3>2, FS_EmptySet DEF count
  <2>4. SumFunctionOnSet(h, D) = SumFunctionOnSet(h, {"a", "b"})
    BY <1>6, <2>1, <2>2, <2>3, SumSupport
  <2>5. \A x \in D : F[x] \in Int /\ h[x] = F[x]
    BY <1>6, <1>10, <1>11, <1>12
  <2>6. SumFunctionOnSet(F, D) = SumFunctionOnSet(h, D)
    BY <2>1, <2>5, SumSame
  <2> QED
    BY <2>4, <2>6
<1>14. SumFunctionOnSet(h, {"a", "b"}) = count("a") + count("b")
  <2>1. "a" # "b" /\ h["a"] = count("a") /\ h["b"] = count("b") /\ h["a"] \in Int /\ h["b"] \in Int
    BY <1>11, <1>12
  <2> QED
    BY <2>1, SumTwo
<1>15. count("a") + count("b") = Cardinality(Used(rows))
  <2>1. PICK A, B : A = UsedOf(rows, "a") /\ B = UsedOf(rows, "b")
    OBVIOUS
  <2>2. A \cap B = {} /\ A \cup B = Used(rows)
    BY <1>2, <2>1 DEF UsedOf
  <2>3. IsFiniteSet(A) /\ IsFiniteSet(B)
    BY <1>11, <2>1
  <2>4. Cardinality(A \cup B) = Cardinality(A) + Cardinality(B) - Cardinality(A \cap B)
    BY <2>3, FS_Union
  <2>5. Cardinality(A \cap B) = 0
    BY <2>2, FS_EmptySet
  <2>6. count("a") = Cardinality(A) /\ count("b") = Cardinality(B)
    BY <2>1 DEF count
  <2>7. count("a") \in Nat /\ count("b") \in Nat
    BY <1>11
  <2> QED
    BY <2>2, <2>4, <2>5, <2>6, <2>7
<1>16. SumFunction(F) = SumFunctionOnSet(F, D)
  BY <1>10 DEF SumFunction
<1> QED
  BY <1>9, <1>13, <1>14, <1>15, <1>16

-----------------------------------------------------------------------------
(* The views of a soak.                                                    *)

\* The values of the series of a name.
Valued(text, name) == {text[i].value : i \in {j \in DOMAIN text : text[j].name = name}}

LEMMA ValuedConcat ==
  ASSUME NEW t, NEW u, IsText(t), IsText(u), NEW k
  PROVE  IsText(t \o u) /\ Valued(t \o u, k) = Valued(t, k) \cup Valued(u, k)
<1>1. PICK S : t \in Seq(S) /\ u \in Seq(S) /\ t \o u \in Seq(S)
  BY TextsJoin
<1>2. PICK w : w = t \o u
  OBVIOUS
<1>3. PICK m \in Nat, n \in Nat : m = Len(t) /\ n = Len(u)
  BY <1>1
<1>4. /\ DOMAIN t = 1..m /\ DOMAIN u = 1..n /\ DOMAIN w = 1..(m + n)
      /\ \A i \in 1..(m + n) : w[i] = IF i <= m THEN t[i] ELSE u[i - m]
  BY <1>1, <1>2, <1>3
<1>5. /\ \A v : v \in Valued(w, k) <=> \E i \in DOMAIN w : w[i].name = k /\ v = w[i].value
      /\ \A v : v \in Valued(t, k) <=> \E i \in DOMAIN t : t[i].name = k /\ v = t[i].value
      /\ \A v : v \in Valued(u, k) <=> \E i \in DOMAIN u : u[i].name = k /\ v = u[i].value
  BY DEF Valued
<1>6. ASSUME NEW v, v \in Valued(w, k) PROVE v \in Valued(t, k) \cup Valued(u, k)
  <2>1. PICK i \in 1..(m + n) : w[i].name = k /\ v = w[i].value
    BY <1>4, <1>5, <1>6
  <2>2. CASE i <= m
    <3>1. i \in 1..m /\ w[i] = t[i]
      BY <1>4, <2>2
    <3> QED
      BY <1>4, <1>5, <2>1, <3>1
  <2>3. CASE ~(i <= m)
    <3>1. i - m \in 1..n /\ w[i] = u[i - m]
      BY <1>4, <2>3
    <3> QED
      BY <1>4, <1>5, <2>1, <3>1
  <2> QED
    BY <2>2, <2>3
<1>7. ASSUME NEW v, v \in Valued(t, k) PROVE v \in Valued(w, k)
  <2>1. PICK i \in 1..m : t[i].name = k /\ v = t[i].value
    BY <1>4, <1>5, <1>7
  <2>2. i \in 1..(m + n) /\ w[i] = t[i]
    BY <1>4
  <2> QED
    BY <1>4, <1>5, <2>1, <2>2
<1>8. ASSUME NEW v, v \in Valued(u, k) PROVE v \in Valued(w, k)
  <2>1. PICK i \in 1..n : u[i].name = k /\ v = u[i].value
    BY <1>4, <1>5, <1>8
  <2>2. i + m \in 1..(m + n) /\ w[i + m] = u[i]
    <3>1. i + m \in 1..(m + n) /\ ~(i + m <= m) /\ (i + m) - m = i
      OBVIOUS
    <3> QED
      BY <1>4, <3>1
  <2> QED
    BY <1>4, <1>5, <2>1, <2>2
<1>9. Valued(w, k) = Valued(t, k) \cup Valued(u, k)
  BY <1>6, <1>7, <1>8
<1> QED
  BY <1>1, <1>2, <1>9 DEF IsText

LEMMA ValuedGauge ==
  ASSUME NEW n, NEW v, NEW l, NEW k
  PROVE  /\ IsText(gauge(n, v, l))
         /\ Valued(gauge(n, v, l), k) = IF n = k /\ v # None THEN {v} ELSE {}
<1>1. CASE v = None
  <2>1. gauge(n, v, l) = <<>> /\ <<>> \in Seq({})
    BY <1>1 DEF gauge
  <2> QED
    BY <1>1, <2>1 DEF IsText, Valued
<1>2. CASE v # None
  <2>1. PICK r, t : r = [name |-> n, label |-> l, value |-> v] /\ t = <<r>>
    OBVIOUS
  <2>2. gauge(n, v, l) = t
    BY <1>2, <2>1 DEF gauge
  <2>3. t \in Seq({r}) /\ DOMAIN t = {1} /\ t[1] = r
    BY <2>1
  <2>4. r.name = n /\ r.value = v
    BY <2>1
  <2>5. Valued(t, k) = IF n = k THEN {v} ELSE {}
    BY <2>3, <2>4 DEF Valued
  <2>6. IsText(t)
    BY <2>3 DEF IsText
  <2> QED
    BY <1>2, <2>2, <2>5, <2>6
<1> QED
  BY <1>1, <1>2

\* The one phase of a soak, with a result.
Phase(conc, result) == [name |-> "c", c |-> conc, result |-> result]

SoakState(conc, result) ==
  [phase |-> "DONE", live_agg |-> None, phases |-> << Phase(conc, result) >>]

\* What it is shown with.
ShownResult(result, s) == IF result = None \/ s = None THEN result ELSE s

LEMMA ResultReplaced ==
  ASSUME NEW rows, NEW m, NEW n, NEW conc, Soak(rows, m, n, conc),
         summarize(rows, "c") # None
  PROVE  /\ Merged(Recorded, summarize(rows, "c")) = summarize(rows, "c")
         /\ DOMAIN summarize(rows, "c") = {"requests", "tokens", "aggregate", "per_stream", "scaling", "utilization"}
         /\ summarize(rows, "c").requests = Cardinality(Used(rows))
         /\ summarize(rows, "c").aggregate \in Int \X Int
         /\ Used(rows) # {}
<1>1. PICK s : s = summarize(rows, "c")
  OBVIOUS
<1>2. PICK G, rs, w, tokens, time, ps :
        /\ G = Used(rows) /\ rs = Only(rows, G) /\ w = wall(rs)
        /\ tokens = SumFunctionOnSet([i \in G |-> rows[i].tokens], G)
        /\ time = SumFunctionOnSet([i \in G |-> rows[i].elapsed], G)
        /\ ps = MeanRate(Speeds(rs))
  OBVIOUS
<1>3. /\ G # {}
      /\ s = [requests |-> Cardinality(G), tokens |-> tokens,
              aggregate |-> <<tokens, w>>, per_stream |-> ps,
              scaling |-> <<tokens * ps[2], w * ps[1]>>,
              utilization |-> <<time, w * conc>>]
  BY <1>1, <1>2, SummaryIs DEF SummaryOf
<1>4. /\ DOMAIN s = {"requests", "tokens", "aggregate", "per_stream", "scaling", "utilization"}
      /\ s.requests = Cardinality(G) /\ s.aggregate = <<tokens, w>>
  BY <1>3
<1>5. n \in Nat /\ G \in SUBSET (1 .. n) /\ \A i \in 1 .. n : rows[i].tokens \in Nat
  BY <1>2, RowFacts
<1>6. tokens \in Int
  <2>1. IsFiniteSet(G)
    BY <1>5, OnlyIs
  <2>2. \A i \in G : [j \in G |-> rows[j].tokens][i] \in Nat
    BY <1>5
  <2> QED
    BY <1>2, <2>1, <2>2, SumNat
<1>7. w \in Int
  <2>1. PICK from \in Nat, to \in Nat : w = to - from
    BY <1>2, <1>3, <1>5, WallIs
  <2> QED
    BY <2>1
<1>8. Merged(Recorded, s) = s
  <2>1. s = [k \in DOMAIN s |-> s[k]]
    BY <1>3
  <2>2. DOMAIN Recorded \cup DOMAIN s = DOMAIN s
    BY <1>4 DEF Recorded
  <2>3. Merged(Recorded, s) = [k \in DOMAIN s |-> s[k]]
    BY <2>2 DEF Merged
  <2> QED
    BY <2>1, <2>3
<1> QED
  BY <1>1, <1>2, <1>3, <1>4, <1>6, <1>7, <1>8

LEMMA PhaseShown ==
  ASSUME NEW rows, NEW m, NEW n, NEW conc, Soak(rows, m, n, conc), NEW result \in {None, Recorded}
  PROVE  LET v == overlay(SoakState(conc, result), rows, 20)
         IN  /\ v.phase = "DONE"
             /\ v.phases = << Phase(conc, ShownResult(result, summarize(rows, "c"))) >>
<1>1. PICK s : s = summarize(rows, "c")
  OBVIOUS
<1>2. PICK p, r : p = Phase(conc, result) /\ r = ShownResult(result, s)
  OBVIOUS
<1>3. p.name = "c" /\ p.result = result /\ \A x : [p EXCEPT !.result = x] = Phase(conc, x)
  BY <1>2 DEF Phase
<1>4. corrected(p, s) = Phase(conc, r)
  <2>1. CASE result = None \/ s = None
    BY <1>2, <1>3, <2>1 DEF corrected, ShownResult
  <2>2. CASE ~(result = None \/ s = None)
    <3>1. Merged(Recorded, s) = s /\ result = Recorded
      BY <1>1, <2>2, ResultReplaced
    <3>2. corrected(p, s) = [p EXCEPT !.result = Merged(result, s)]
      BY <1>3, <2>2 DEF corrected
    <3> QED
      BY <1>2, <1>3, <2>2, <3>1, <3>2 DEF ShownResult
  <2> QED
    BY <2>1, <2>2
<1>5. PICK st : st = SoakState(conc, result)
  OBVIOUS
<1>6. st.phase = "DONE" /\ st.phases = <<p>>
  BY <1>2, <1>5 DEF SoakState
<1>7. CASE rows = <<>>
  <2>1. overlay(st, rows, 20) = st
    BY <1>7 DEF overlay
  <2>2. s = None
    <3>1. Used(rows) = {}
      <4>1. DOMAIN rows = {}
        BY <1>7
      <4> QED
        BY <4>1 DEF Used
    <3> QED
      BY <1>1, <3>1, SummaryIs DEF SummaryOf
  <2> QED
    BY <1>1, <1>2, <1>5, <1>6, <2>1, <2>2 DEF ShownResult
<1>8. CASE rows # <<>>
  <2>1. PICK rate : rate = rolling_aggregate(rows, 20)
    OBVIOUS
  <2>2. overlay(st, rows, 20) = [st EXCEPT
          !.phases   = [i \in DOMAIN @ |-> corrected(@[i], summarize(rows, @[i].name))],
          !.live_agg = rate]
    BY <1>8, <2>1 DEF overlay
  <2>3. PICK ph : ph = [i \in DOMAIN st.phases |-> corrected(st.phases[i], summarize(rows, st.phases[i].name))]
    OBVIOUS
  <2>4. ph = << Phase(conc, r) >>
    <3>1. DOMAIN st.phases = {1} /\ st.phases[1] = p
      BY <1>6
    <3>2. DOMAIN ph = {1} /\ ph[1] = Phase(conc, r) /\ ph = [i \in {1} |-> ph[i]]
      BY <1>1, <1>3, <1>4, <2>3, <3>1
    <3> QED
      BY <3>2
  <2>5. /\ DOMAIN st = {"phase", "live_agg", "phases"}
        /\ st = [phase |-> "DONE", live_agg |-> None, phases |-> <<p>>]
    BY <1>2, <1>5 DEF SoakState
  <2>6. PICK v : v = overlay(st, rows, 20)
    OBVIOUS
  <2>7. v.phase = st.phase /\ v.phases = ph
    BY <2>2, <2>3, <2>5, <2>6
  <2> QED
    BY <1>1, <1>2, <1>5, <1>6, <2>4, <2>6, <2>7
<1> QED
  BY <1>7, <1>8

\* The exporter's series of the phase's throughput.
LEMMA PhaseExported ==
  ASSUME NEW rows, NEW m, NEW n, NEW conc, Soak(rows, m, n, conc), NEW result \in {None, Recorded},
         NEW r, r = ShownResult(result, summarize(rows, "c"))
  PROVE  Valued(load_metrics(SoakState(conc, result), rows, 1, 20), "phase_aggregate")
           = IF r = None THEN {} ELSE {r.aggregate}
<1>1. PICK st, v : st = SoakState(conc, result) /\ v = overlay(st, rows, 20)
  OBVIOUS
<1>2. PICK p : p = Phase(conc, r)
  OBVIOUS
<1>3. v.phase = "DONE" /\ v.phases = <<p>> /\ p.name = "c" /\ p.result = r
  BY <1>1, <1>2, PhaseShown DEF Phase
<1>4. st # None
  <2>1. conc \in {1, 2}
    BY DEF Soak
  <2>2. Phase(conc, result) \in PhaseDoc
    BY <2>1 DEF Phase, PhaseDoc
  <2>3. st \in SoakDoc
    BY <1>1, <2>2 DEF SoakDoc, SoakState
  <2> QED
    BY <2>3, DocumentAssumption
<1>5. PICK agg, req, sc : /\ agg = IF r = None THEN None ELSE Get(r, "aggregate")
                          /\ req = IF r = None THEN None ELSE Get(r, "requests")
                          /\ sc  = IF r = None THEN None ELSE Get(r, "scaling")
  OBVIOUS
<1>6. PICK g1, g2, g3, a, b, c :
        /\ g1 = gauge("phase_aggregate", agg, p.name)
        /\ g2 = gauge("phase_requests", req, p.name)
        /\ g3 = gauge("phase_scaling", sc, p.name)
        /\ a = gauge("load_age", 1, None)
        /\ b = gauge("load_aggregate", v.live_agg, None)
        /\ c = gauge("load_running", 0, None)
  OBVIOUS
<1>7. load_metrics(st, rows, 1, 20) = a \o b \o c \o (g1 \o g2 \o g3)
  <2> DEFINE of(x, field) == IF x.result = None THEN None ELSE Get(x.result, field)
             phase(x) == gauge("phase_aggregate", of(x, "aggregate"), x.name)
                         \o gauge("phase_requests", of(x, "requests"), x.name)
                         \o gauge("phase_scaling", of(x, "scaling"), x.name)
             parts == [i \in DOMAIN v.phases |-> phase(v.phases[i])]
  <2>1. load_metrics(st, rows, 1, 20) = load_gauges(v, 1)
    BY <1>1, <1>4 DEF load_metrics
  <2>2. load_gauges(v, 1) = a \o b \o gauge("load_running", IF v.phase = "DONE" THEN 0 ELSE 1, None) \o FlattenSeq(parts)
    BY <1>6 DEF load_gauges
  <2>3. phase(p) = g1 \o g2 \o g3
    BY <1>3, <1>5, <1>6
  <2> HIDE DEF phase
  <2>4. parts = << phase(p) >>
    <3>1. DOMAIN v.phases = {1} /\ v.phases[1] = p
      BY <1>3
    <3>2. DOMAIN parts = {1} /\ parts[1] = phase(p) /\ parts = [i \in {1} |-> parts[i]]
      BY <3>1
    <3> HIDE DEF parts
    <3> QED
      BY <3>2
  <2> HIDE DEF parts
  <2>5. FlattenSeq(parts) = phase(p)
    BY <2>4, FlattenOne
  <2> QED
    BY <1>3, <1>6, <2>1, <2>2, <2>3, <2>5
<1>8. /\ IsText(a) /\ IsText(b) /\ IsText(c) /\ IsText(g1) /\ IsText(g2) /\ IsText(g3)
      /\ Valued(a, "phase_aggregate") = {} /\ Valued(b, "phase_aggregate") = {}
      /\ Valued(c, "phase_aggregate") = {}
      /\ Valued(g1, "phase_aggregate") = (IF agg = None THEN {} ELSE {agg})
      /\ Valued(g2, "phase_aggregate") = {} /\ Valued(g3, "phase_aggregate") = {}
  BY <1>6, ValuedGauge
<1>9. /\ IsText(a \o b) /\ Valued(a \o b, "phase_aggregate") = {}
      /\ IsText(g1 \o g2) /\ Valued(g1 \o g2, "phase_aggregate") = (IF agg = None THEN {} ELSE {agg})
  BY <1>8, ValuedConcat
<1>10. /\ IsText((a \o b) \o c) /\ Valued((a \o b) \o c, "phase_aggregate") = {}
       /\ IsText((g1 \o g2) \o g3)
       /\ Valued((g1 \o g2) \o g3, "phase_aggregate") = (IF agg = None THEN {} ELSE {agg})
  BY <1>8, <1>9, ValuedConcat
<1>11. Valued(((a \o b) \o c) \o ((g1 \o g2) \o g3), "phase_aggregate") = (IF agg = None THEN {} ELSE {agg})
  BY <1>10, ValuedConcat
<1>12. ASSUME r # None PROVE agg = r.aggregate /\ agg # None
  <2>1. CASE r = Recorded
    <3>1. agg = <<1, 1>> /\ r.aggregate = <<1, 1>>
      BY <1>5, <1>12, <2>1 DEF Get, Recorded
    <3>2. <<1, 1>> \in Int \X Int
      OBVIOUS
    <3> QED
      BY <3>1, <3>2, DocumentAssumption
  <2>2. CASE r # Recorded
    <3>1. r = summarize(rows, "c") /\ summarize(rows, "c") # None
      BY <1>12, <2>2 DEF ShownResult
    <3>2. "aggregate" \in DOMAIN r /\ r.aggregate \in Int \X Int
      BY <3>1, ResultReplaced
    <3>3. agg = r.aggregate
      BY <1>5, <1>12, <3>2 DEF Get
    <3> QED
      BY <3>2, <3>3, DocumentAssumption
  <2> QED
    BY <2>1, <2>2
<1> QED
  BY <1>1, <1>5, <1>7, <1>11, <1>12

\* The archive keeps the phases that have a result.
LEMMA PhaseKept ==
  ASSUME NEW rows, NEW m, NEW n, NEW conc, Soak(rows, m, n, conc), NEW result \in {None, Recorded},
         NEW r, r = ShownResult(result, summarize(rows, "c"))
  PROVE  LET kept == soak_block(SoakState(conc, result), rows, 20)
         IN  IF r = None THEN kept = <<>> ELSE kept[1].result = r
<1>1. PICK st, ps, p : /\ st = SoakState(conc, result) /\ ps = overlay(st, rows, 20).phases
                       /\ p = Phase(conc, r)
  OBVIOUS
<1>2. ps = <<p>> /\ p.result = r
  BY <1>1, PhaseShown DEF Phase
<1>3. st # None
  <2>1. conc \in {1, 2}
    BY DEF Soak
  <2>2. Phase(conc, result) \in PhaseDoc
    BY <2>1 DEF Phase, PhaseDoc
  <2>3. st \in SoakDoc
    BY <1>1, <2>2 DEF SoakDoc, SoakState
  <2> QED
    BY <2>3, DocumentAssumption
<1>4. PICK I : I = {i \in DOMAIN ps : ps[i].result # None}
  OBVIOUS
<1>5. soak_block(st, rows, 20) = Only(ps, I)
  BY <1>1, <1>3, <1>4 DEF soak_block, Filter
<1>6. DOMAIN ps = {1} /\ ps[1] = p /\ I = IF r = None THEN {} ELSE {1}
  BY <1>2, <1>4
<1>7. I \in SUBSET (1 .. 1)
  BY <1>6
<1>8. CASE r = None
  <2>1. Only(ps, I) = <<>>
    BY <1>6, <1>7, <1>8, OnlyEmpty
  <2> QED
    BY <1>1, <1>5, <1>8, <2>1
<1>9. CASE r # None
  <2>1. I = {1} /\ Cardinality(I) = 1
    BY <1>6, <1>9, FS_Singleton
  <2>2. \A k \in 1 .. Cardinality(I) : Only(ps, I)[k] = ps[Nth(I, k)] /\ Nth(I, k) \in I
    <3>1. PICK j \in Nat : j = 1
      OBVIOUS
    <3>2. I \in SUBSET (1 .. j)
      BY <1>7, <3>1
    <3> QED
      BY <3>2, OnlyIs
  <2>3. 1 \in 1 .. Cardinality(I)
    BY <2>1
  <2>4. Only(ps, I)[1] = p
    BY <1>6, <2>1, <2>2, <2>3
  <2> QED
    BY <1>1, <1>2, <1>5, <1>9, <2>4
<1> QED
  BY <1>8, <1>9

LEMMA SoakStep == ReadSoak => OneSoakView'
<1> SUFFICES ASSUME ReadSoak PROVE OneSoakView'
  OBVIOUS
<1>1. PICK one \in Lanes, two \in Lanes, c \in {1, 2}, result \in {None, Recorded} :
        /\ c = 1 => two = <<>>
        /\ input'.conc = c
        /\ input'.rows = LaneRows(one, "a", c) \o LaneRows(two, "b", c)
        /\ input'.state = [phase |-> "DONE", live_agg |-> None,
                           phases |-> << [name |-> "c", c |-> c, result |-> result] >>]
  BY SoakInput
<1> DEFINE rows == input'.rows
           state == input'.state
           conc == input'.conc
           page == get_state(state, rows, 20).body.phases[1].result
           exported == load_metrics(state, rows, 1, 20)
           of == {exported[i].value : i \in {j \in DOMAIN exported : exported[j].name = "phase_aggregate"}}
           archive == history_doc(<<>>, state, rows, 20)
           shapes == archive.load_shapes
           used == Filter(rows, usable)
<1>2. rows = input'.rows /\ state = input'.state /\ conc = input'.conc
  OBVIOUS
<1> HIDE DEF rows, state, conc, page, exported, of, archive, shapes, used
<1>3. PICK m, n : Soak(rows, m, n, conc)
  BY <1>1, <1>2, SoakIs
<1>4. state = SoakState(conc, result) /\ conc \in {1, 2}
  BY <1>1, <1>2 DEF SoakState, Phase
<1>5. PICK s, r : s = summarize(rows, "c") /\ r = ShownResult(result, s)
  OBVIOUS
<1>6. page = get_state(state, rows, 20).body.phases[1].result
  BY DEF page
<1>7. page = r
  <2>1. state # None
    <3>1. Phase(conc, result) \in PhaseDoc
      BY <1>4 DEF Phase, PhaseDoc
    <3>2. state \in SoakDoc
      BY <1>4, <3>1 DEF SoakDoc, SoakState
    <3> QED
      BY <3>2, DocumentAssumption
  <2>2. PICK v : v = overlay(state, rows, 20)
    OBVIOUS
  <2>3. get_state(state, rows, 20).body = v
    BY <2>1, <2>2 DEF get_state, Answer
  <2>4. v.phases = << Phase(conc, r) >>
    BY <1>3, <1>4, <1>5, <2>2, PhaseShown
  <2> QED
    BY <1>6, <2>3, <2>4 DEF Phase
<1>8. /\ exported = load_metrics(state, rows, 1, 20)
      /\ of = {exported[i].value : i \in {j \in DOMAIN exported : exported[j].name = "phase_aggregate"}}
  BY DEF exported, of
<1>9. of = IF r = None THEN {} ELSE {r.aggregate}
  <2>1. of = Valued(exported, "phase_aggregate")
    BY <1>8 DEF Valued
  <2> QED
    BY <1>3, <1>4, <1>5, <1>8, <2>1, PhaseExported
<1>10. archive = history_doc(<<>>, state, rows, 20)
  BY DEF archive
<1>11. archive.soak = soak_block(state, rows, 20) /\ archive.load_shapes = load_shapes(rows)
  BY <1>10 DEF history_doc
<1>12. IF r = None THEN archive.soak = <<>> ELSE archive.soak[1].result = r
  BY <1>3, <1>4, <1>5, <1>11, PhaseKept
<1>13. shapes = archive.load_shapes /\ used = Filter(rows, usable)
  BY DEF shapes, used
<1>14. ASSUME r # None, used # <<>>
       PROVE  r.requests = SumFunction([k \in DOMAIN shapes |-> shapes[k].all.n])
  <2>1. Used(rows) # {}
    <3>1. n \in Nat /\ Used(rows) \in SUBSET (1 .. n)
      BY <1>3, RowFacts
    <3>2. {i \in DOMAIN rows : usable(rows[i])} = Used(rows)
      BY <1>3, RowFacts
    <3>3. used = Only(rows, Used(rows))
      BY <1>13, <3>2 DEF Filter
    <3> QED
      BY <1>14, <3>1, <3>3, OnlyEmpty
  <2>2. s # None
    BY <1>3, <1>5, <2>1, SummaryIs DEF SummaryOf
  <2>3. r = s
    BY <1>5, <1>14, <2>2 DEF ShownResult
  <2>4. s.requests = Cardinality(Used(rows))
    BY <1>3, <1>5, <2>2, ResultReplaced
  <2>5. SumFunction([k \in DOMAIN load_shapes(rows) |-> load_shapes(rows)[k].all.n]) = Cardinality(Used(rows))
    BY <1>3, <2>1, ShapesAddUp
  <2> QED
    BY <1>11, <1>13, <2>3, <2>4, <2>5
<1>15. IF page = None THEN archive.soak = <<>> /\ of = {}
       ELSE /\ of = {page.aggregate}
            /\ archive.soak[1].result.aggregate = page.aggregate
            /\ archive.soak[1].result.requests = page.requests
            /\ used # <<>> => page.requests = SumFunction([k \in DOMAIN shapes |-> shapes[k].all.n])
  BY <1>7, <1>9, <1>12, <1>14
<1> QED
  BY <1>15 DEF OneSoakView, rows, state, page, exported, of, archive, shapes, used

\* Whatever the requests of a soak, the page, the exporter and the archive show one
\* throughput of its phase, and the archive's shapes are made of the same requests.
THEOREM ASoakIsShownOnce == Spec => []OneSoakView
<1>1. Init => OneSoakView
  BY DEF Init, Start, OneSoakView
<1>2. OneSoakView /\ [Next]_input => OneSoakView'
  <2>1. ASSUME Next PROVE OneSoakView'
    <3>1. CASE ReadSoak
      BY <3>1, SoakStep
    <3>2. CASE input'.kind # "soak"
      BY <3>2 DEF OneSoakView
    <3> QED
      BY <2>1, <3>1, <3>2, OtherKinds
  <2>2. ASSUME OneSoakView, UNCHANGED input PROVE OneSoakView'
    BY <2>2 DEF OneSoakView
  <2> QED
    BY <2>1, <2>2
<1> QED
  BY <1>1, <1>2, PTL DEF Spec

-----------------------------------------------------------------------------
(* The index.                                                              *)

\* The accuracy a directory's files give its family.
AccuracyOf(d) ==
  IF d.closed # None THEN d.closed["f"].accuracy
  ELSE IF d.summary = <<>> THEN None ELSE d.summary["f"].accuracy

\* The rows of a directory that has some.
TimedRow(t) == Row(t, "elapsed", 1, "f")

\* A directory with a summary.
Summarized(d) ==
  /\ d \in [id : Nat, preset : {"smoke-20", "kit-180"}, invalid : BOOLEAN,
            model : {0}, quant : {0}, time : {0},
            summary : {<<>>} \cup [{"f"} -> [correct : {0}, graded : {0}, accuracy : {None} \cup Nat]],
            closed : {None, [f |-> Verdict]},
            rows : {None, <<TimedRow(1)>>, <<TimedRow(2)>>}]

\* A run as its directory has it.
RunOf(r, d) ==
  /\ r.run_id = d.id /\ r.quarantined = d.invalid /\ r.timestamp = 0
  /\ DOMAIN r.per_eval = (IF d.rows = None THEN {} ELSE {"f"})
  /\ d.rows # None => r.per_eval["f"].mean = <<d.rows[1].tokens, 1>>
  /\ (IF "f" \in DOMAIN r.families THEN r.families["f"].accuracy ELSE None) = AccuracyOf(d)

\* The mean of one rate is it.
LEMMA MeanOfOne ==
  ASSUME NEW t \in Int, NEW s, s = <<<<t, 1>>>>
  PROVE  MeanRate(s) = <<t, 1>>
<1>1. s \in Seq(Int \X Int) /\ Len(s) = 1 /\ DOMAIN s = {1} /\ s[1] = <<t, 1>>
  OBVIOUS
<1>2. PICK acc \in [0..Len(s) -> Int \X Int] :
           /\ acc[0] = <<0, 1>>
           /\ \A k \in 1..Len(s) : acc[k] = <<acc[k - 1][1] * s[k][2] + s[k][1] * acc[k - 1][2],
                                              acc[k - 1][2] * s[k][2]>>
           /\ MeanRate(s) = <<acc[Len(s)][1], acc[Len(s)][2] * Len(s)>>
  BY <1>1, MeanIs
<1>3. 1 \in 1..Len(s) /\ 1 - 1 = 0
  BY <1>1
<1>4. acc[1] = <<acc[0][1] * s[1][2] + s[1][1] * acc[0][2], acc[0][2] * s[1][2]>>
  BY <1>2, <1>3
<1>5. acc[1] = <<0 * 1 + t * 1, 1 * 1>>
  BY <1>1, <1>2, <1>4
<1>6. acc[1] = <<t, 1>>
  BY <1>5
<1>7. MeanRate(s) = <<acc[1][1], acc[1][2] * 1>>
  BY <1>1, <1>2
<1> QED
  BY <1>6, <1>7

\* A file of one row is read as it, and it is all a filter it passes leaves.
LEMMA OnlyOne ==
  ASSUME NEW x, NEW s, s = <<x>>, NEW I, I = {1}
  PROVE  Only(s, I) = s
<1>1. 1 \in Nat /\ I \in SUBSET (1..1) /\ DOMAIN s = 1..1 /\ s[1] = x
  OBVIOUS
<1>2. Len(Only(s, I)) \in 0..1 /\ \E at : Takes(Only(s, I), at, s, I)
  BY <1>1, OnlyAt
<1>3. PICK t, at : t = Only(s, I) /\ Takes(t, at, s, I)
  BY <1>2
<1>4. Cardinality(I) = 1
  BY FS_Singleton
<1>5. t[1] = x /\ DOMAIN t = 1..1
  BY <1>3, <1>4 DEF Takes
<1>6. t = [k \in 1..1 |-> s[Nth(I, k)]]
  BY <1>3, <1>4 DEF Only
<1>7. t = <<x>>
  BY <1>5, <1>6
<1> QED
  BY <1>3, <1>7

\* The rates of a file of one row with tokens and a time.
LEMMA OneRowRates ==
  ASSUME NEW t \in {1, 2}
  PROVE  LET p == rates(<<TimedRow(t)>>, None)
         IN  p # None /\ p.mean = <<t, 1>>
<1>1. PICK row, s, I : /\ row = TimedRow(t) /\ s = <<row>>
                       /\ I = {i \in DOMAIN s : Positive(s[i].tokens) /\ elapsed(s[i], None) # None}
  OBVIOUS
<1>2. t \in Nat /\ t # None /\ 1 \in Nat /\ 1 # None
  BY NoneAssumption
<1>3. row \in RowDoc /\ Timed(row, "elapsed")
  BY <1>1, <1>2, RowIs DEF TimedRow
<1>4. row.tokens = t /\ row.time = [k \in {"elapsed"} |-> 1]
  BY <1>1, <1>2 DEF TimedRow, Row
<1>5. Get(row.time, "elapsed") = 1
  BY <1>4 DEF Get
<1>6. elapsed(row, None) = 1
  <2>1. elapsed(row, None) = IF Positive(Get(row.time, "elapsed")) THEN Get(row.time, "elapsed") ELSE None
    BY <1>3, ElapsedIs
  <2> QED
    BY <1>2, <1>5, <2>1 DEF Positive
<1>7. I = {1}
  BY <1>1, <1>2, <1>4, <1>6 DEF Positive
<1>8. Only(s, I) = s
  BY <1>1, <1>7, OnlyOne
<1>9. Filter(s, LAMBDA r : Positive(r.tokens) /\ elapsed(r, None) # None) = s
  BY <1>1, <1>8 DEF Filter
<1>10. PICK pr : pr = [i \in DOMAIN s |-> <<s[i].tokens, elapsed(s[i], None)>>]
  OBVIOUS
<1>11. pr = <<<<t, 1>>>>
  BY <1>1, <1>4, <1>6, <1>10
<1>12. MeanRate(pr) = <<t, 1>>
  BY <1>2, <1>11, MeanOfOne
<1>13. PICK n, c : n = Len(s) /\ c = Total(s, "tokens")
  OBVIOUS
<1>14. rates(s, None) = [n |-> n, mean |-> MeanRate(pr), tokens |-> c]
  <2>1. s # <<>>
    BY <1>1
  <2> QED
    BY <1>9, <1>10, <1>13, <2>1 DEF rates
<1>15. [n |-> n, mean |-> <<t, 1>>, tokens |-> c] \in RatesDoc
  <2>1. n = 1
    BY <1>1, <1>13
  <2>2. c \in Nat
    <3>1. s[1].tokens \in Nat \cup {None} /\ DOMAIN s = 1..1
      BY <1>1, <1>2, <1>4
    <3> QED
      BY <1>13, <3>1, TotalType
  <2> QED
    BY <1>2, <2>1, <2>2 DEF RatesDoc
<1> QED
  BY <1>1, <1>12, <1>14, <1>15, DocumentAssumption
\* What a directory's rows say of its family.
LEMMA PerEval ==
  ASSUME NEW rows \in {None, <<TimedRow(1)>>, <<TimedRow(2)>>}
  PROVE  LET p == by_family(read_rows(rows))
         IN  /\ DOMAIN p = (IF rows = None THEN {} ELSE {"f"})
             /\ rows # None => p["f"].mean = <<rows[1].tokens, 1>>
<1>1. CASE rows = None
  <2>1. read_rows(rows) = <<>> /\ DOMAIN <<>> = {}
    BY <1>1 DEF read_rows
  <2>2. PICK G : G = {read_rows(rows)[i]["family"] : i \in DOMAIN read_rows(rows)} \ {None}
    OBVIOUS
  <2>3. G = {}
    BY <2>1, <2>2
  <2>4. DOMAIN grouped(read_rows(rows), "family", None) \in SUBSET G
    BY <2>2 DEF grouped
  <2>5. DOMAIN by_family(read_rows(rows)) = {}
    BY <2>3, <2>4 DEF by_family
  <2> QED
    BY <1>1, <2>5
<1>2. CASE rows # None
  <2>1. PICK t \in {1, 2} : rows = <<TimedRow(t)>>
    BY <1>2
  <2>2. PICK row, s : row = TimedRow(t) /\ s = <<row>>
    OBVIOUS
  <2>3. row \in RowDoc /\ row["family"] = "f" /\ row.tokens = t
    <3>1. t \in Nat /\ 1 \in Nat
      OBVIOUS
    <3>2. row \in RowDoc
      BY <2>2, <3>1, RowIs DEF TimedRow
    <3> QED
      BY <2>2, <3>2 DEF TimedRow, Row
  <2>4. row # None /\ s # None
    <3>1. s \in Seq(RowDoc \cup {None})
      BY <2>2, <2>3
    <3> QED
      BY <2>3, <3>1, DocumentAssumption
  <2>5. Only(s, {1}) = s
    BY <2>2, OnlyOne
  <2>6. DOMAIN s = {1} /\ s[1] = row
    BY <2>2
  <2>7. read_rows(s) = s
    <3>1. {i \in DOMAIN s : s[i] # None} = {1}
      BY <2>4, <2>6
    <3> QED
      BY <2>4, <2>5, <3>1 DEF read_rows, Filter
  <2>8. Filter(s, LAMBDA r : r["family"] = "f") = s
    <3>1. {i \in DOMAIN s : s[i]["family"] = "f"} = {1}
      BY <2>3, <2>6
    <3> QED
      BY <2>5, <3>1 DEF Filter
  <2>9. {s[i]["family"] : i \in DOMAIN s} \ {None} = {"f"}
    BY <2>3, <2>6, NameAssumption
  <2>10. PICK p : p = rates(s, None) /\ p # None /\ p.mean = <<t, 1>>
    BY <2>2, OneRowRates
  <2>11. PICK q : q = grouped(s, "family", None)
    OBVIOUS
  <2>12. DOMAIN q = {"f"} /\ q["f"] = p
    <3> DEFINE of(g) == rates(Filter(s, LAMBDA r : r["family"] = g), None)
    <3>1. q = [g \in {g \in {"f"} : of(g) # None} |-> of(g)]
      BY <2>9, <2>11 DEF grouped
    <3>2. of("f") = p
      BY <2>8, <2>10
    <3> HIDE DEF of
    <3> QED
      BY <2>10, <3>1, <3>2
  <2>13. by_family(read_rows(rows)) = q
    BY <2>1, <2>2, <2>7, <2>11 DEF by_family
  <2> QED
    BY <1>2, <2>1, <2>2, <2>3, <2>6, <2>10, <2>12, <2>13
<1> QED
  BY <1>1, <1>2

\* The verdicts kept in a file of their own.
LEMMA VerdictIs ==
  LET c == closed_families([f |-> Verdict]) IN DOMAIN c = {"f"} /\ c["f"].accuracy = 1
<1>1. Verdict # None
  BY IndexAssumption
<1> DEFINE c == [f |-> Verdict]
<1>2. DOMAIN c = {"f"} /\ c["f"] = Verdict
  OBVIOUS
<1>3. {f \in DOMAIN c : c[f] # None} = {"f"}
  BY <1>1, <1>2
<1>4. closed_families(c) = [f \in {"f"} |->
        [correct |-> c[f].correct, graded |-> OrElse(c[f].complete, c[f].n),
         accuracy |-> c[f].accuracy]]
  BY <1>3 DEF closed_families
<1>5. Verdict.accuracy = 1
  BY DEF Verdict
<1> HIDE DEF c
<1> QED
  BY <1>2, <1>4, <1>5 DEF c

\* A run is as its directory has it.
LEMMA RunIs ==
  ASSUME NEW d, Summarized(d)
  PROVE  RunOf(merge_closed(collect_run(d), d.closed), d)
<1>1. PICK r : r = collect_run(d)
  OBVIOUS
<1>2. PICK p : p = by_family(read_rows(d.rows))
  OBVIOUS
<1>3. r = [run_id |-> d.id, model |-> d.model, quant |-> d.quant, timestamp |-> d.time,
           quarantined |-> d.invalid, families |-> d.summary, per_eval |-> p]
  BY <1>1, <1>2 DEF collect_run
<1>4. /\ d.time = 0 /\ d.rows \in {None, <<TimedRow(1)>>, <<TimedRow(2)>>}
      /\ d.summary \in {<<>>} \cup [{"f"} -> [correct : {0}, graded : {0}, accuracy : {None} \cup Nat]]
      /\ d.closed \in {None, [f |-> Verdict]}
  BY DEF Summarized
<1>5. /\ DOMAIN p = (IF d.rows = None THEN {} ELSE {"f"})
      /\ d.rows # None => p["f"].mean = <<d.rows[1].tokens, 1>>
  BY <1>2, <1>4, PerEval
<1>6. PICK m : m = merge_closed(r, d.closed)
  OBVIOUS
<1>7. CASE d.closed = None
  <2>1. m = r
    BY <1>6, <1>7 DEF merge_closed
  <2>2. (IF "f" \in DOMAIN d.summary THEN d.summary["f"].accuracy ELSE None) = AccuracyOf(d)
    <3>1. CASE d.summary = <<>>
      <4>1. DOMAIN d.summary = {}
        BY <3>1
      <4> QED
        BY <1>7, <3>1, <4>1 DEF AccuracyOf
    <3>2. CASE d.summary # <<>>
      <4>1. DOMAIN d.summary = {"f"}
        BY <1>4, <3>2
      <4> QED
        BY <1>7, <3>2, <4>1 DEF AccuracyOf
    <3> QED
      BY <3>1, <3>2
  <2> QED
    BY <1>1, <1>3, <1>4, <1>5, <1>6, <2>1, <2>2 DEF RunOf
<1>8. CASE d.closed # None
  <2>1. d.closed = [f |-> Verdict]
    BY <1>4, <1>8
  <2>2. PICK c : c = closed_families(d.closed) /\ DOMAIN c = {"f"} /\ c["f"].accuracy = 1
    BY <2>1, VerdictIs
  <2>3. m = [r EXCEPT !.families = Merged(r.families, c)]
    BY <1>6, <1>8, <2>2 DEF merge_closed
  <2>4. PICK k : k = Merged(r.families, c)
    OBVIOUS
  <2>5. "f" \in DOMAIN k /\ k["f"] = c["f"]
    BY <2>2, <2>4 DEF Merged
  <2>6. m = [run_id |-> d.id, model |-> d.model, quant |-> d.quant, timestamp |-> d.time,
             quarantined |-> d.invalid, families |-> k, per_eval |-> p]
    BY <1>3, <2>3, <2>4
  <2>7. AccuracyOf(d) = 1
    <3>1. d.closed["f"] = Verdict /\ Verdict.accuracy = 1
      BY <2>1 DEF Verdict
    <3> QED
      BY <1>8, <3>1 DEF AccuracyOf
  <2> QED
    BY <1>1, <1>4, <1>5, <1>6, <2>2, <2>5, <2>6, <2>7 DEF RunOf
<1> QED
  BY <1>7, <1>8
\* An entry of a family's results.
Scorable(x) == x.accuracy \in Nat \cup {None} /\ \E t \in Nat : x.mean = <<t, 1>>

\* The results are put in an order.
LEMMA AheadOrder ==
  ASSUME NEW p, NEW q, NEW r, Scorable(p), Scorable(q), Scorable(r)
  PROVE  /\ ahead(p, q) => ~ahead(q, p)
         /\ ~ahead(p, q) /\ ~ahead(q, r) => ~ahead(p, r)
<1>1. PICK tp \in Nat, tq \in Nat, tr \in Nat :
        p.mean = <<tp, 1>> /\ q.mean = <<tq, 1>> /\ r.mean = <<tr, 1>>
  BY DEF Scorable
<1>2. PICK ap \in Nat, aq \in Nat, ar \in Nat :
        ap = OrElse(p.accuracy, 0) /\ aq = OrElse(q.accuracy, 0) /\ ar = OrElse(r.accuracy, 0)
  BY DEF Scorable, OrElse
<1>3. PICK np \in BOOLEAN, nq \in BOOLEAN, nr \in BOOLEAN :
        (np <=> p.accuracy = None) /\ (nq <=> q.accuracy = None) /\ (nr <=> r.accuracy = None)
  OBVIOUS
<1>4. /\ ahead(p, q) <=> \/ ~np /\ nq
                         \/ (np <=> nq) /\ (ap > aq \/ (ap = aq /\ tq < tp))
      /\ ahead(q, p) <=> \/ ~nq /\ np
                         \/ (nq <=> np) /\ (aq > ap \/ (aq = ap /\ tp < tq))
      /\ ahead(q, r) <=> \/ ~nq /\ nr
                         \/ (nq <=> nr) /\ (aq > ar \/ (aq = ar /\ tr < tq))
      /\ ahead(p, r) <=> \/ ~np /\ nr
                         \/ (np <=> nr) /\ (ap > ar \/ (ap = ar /\ tr < tp))
  BY <1>1, <1>2, <1>3 DEF ahead, Slower
<1> QED
  BY <1>4

\* The pairs of entries of which the first goes ahead.
AheadPairs(es, m) == {w \in (1..m) \X (1..m) : ahead(es[w[1]], es[w[2]])}

\* Sorting by them is sorting with ahead.
LEMMA SortedAhead ==
  ASSUME NEW m \in Nat, NEW es, DOMAIN es = 1..m
  PROVE  Sorted(es, ahead) = SortedOn(es, m, AheadPairs(es, m))
<1> DEFINE B == AheadPairs(es, m)
           place == [i \in DOMAIN es |->
                       Cardinality({j \in DOMAIN es : \/ ahead(es[j], es[i])
                                                     \/ (j < i /\ ~ahead(es[i], es[j]))}) + 1]
<1>1. \A i, j \in 1..m : <<i, j>> \in B <=> ahead(es[i], es[j])
  <2>1. \A w : w \in B <=> w \in (1..m) \X (1..m) /\ ahead(es[w[1]], es[w[2]])
    BY DEF AheadPairs
  <2> HIDE DEF B
  <2>2. SUFFICES ASSUME NEW i \in 1..m, NEW j \in 1..m PROVE <<i, j>> \in B <=> ahead(es[i], es[j])
    OBVIOUS
  <2>3. PICK w : w = <<i, j>>
    OBVIOUS
  <2>4. w \in (1..m) \X (1..m) /\ w[1] = i /\ w[2] = j
    BY <2>3
  <2> QED
    BY <2>1, <2>3, <2>4
<1> HIDE DEF B
<1>2. \A i \in 1..m : {j \in DOMAIN es : \/ ahead(es[j], es[i])
                                         \/ (j < i /\ ~ahead(es[i], es[j]))} = Ahead(B, m, i)
  BY <1>1 DEF Ahead, First
<1>3. place = Seats(B, m)
  BY <1>2 DEF Seats
<1>4. Sorted(es, ahead) = [k \in DOMAIN es |-> es[CHOOSE i \in DOMAIN es : place[i] = k]]
  BY DEF Sorted
<1> HIDE DEF place
<1> QED
  BY <1>3, <1>4 DEF SortedOn, B

\* The runs are as old as one another.
LEMMA SortedNewer ==
  ASSUME NEW m \in Nat, NEW rs, DOMAIN rs = 1..m, \A i \in 1..m : rs[i].timestamp = 0
  PROVE  Sorted(rs, newer) = SortedOn(rs, m, {})
<1> DEFINE place == [i \in DOMAIN rs |->
                       Cardinality({j \in DOMAIN rs : \/ newer(rs[j], rs[i])
                                                     \/ (j < i /\ ~newer(rs[i], rs[j]))}) + 1]
<1>1. \A i, j \in 1..m : ~newer(rs[j], rs[i])
  BY DEF newer, OrElse
<1>2. \A i \in 1..m : {j \in DOMAIN rs : \/ newer(rs[j], rs[i])
                                         \/ (j < i /\ ~newer(rs[i], rs[j]))} = Ahead({}, m, i)
  BY <1>1 DEF Ahead, First
<1>3. place = Seats({}, m)
  BY <1>2 DEF Seats
<1>4. Sorted(rs, newer) = [k \in DOMAIN rs |-> rs[CHOOSE i \in DOMAIN rs : place[i] = k]]
  BY DEF Sorted
<1> HIDE DEF place
<1> QED
  BY <1>3, <1>4 DEF SortedOn

\* The directories of an index, each a run or none.
Index(dirs, n) ==
  /\ n \in Nat /\ DOMAIN dirs = 1..n
  /\ \A i \in 1..n : dirs[i].summary = None \/ (Summarized(dirs[i]) /\ dirs[i].id = i)

RunAt(dirs, i) == merge_closed(collect_run(dirs[i]), dirs[i].closed)

\* The directories whose runs are compared.
Compared(dirs, n) == {i \in 1..n : dirs[i].summary # None /\ ~dirs[i].invalid}

\* The runs that are compared, in the order of the document.
LEMMA RunsAre ==
  ASSUME NEW n, NEW dirs, Index(dirs, n)
  PROVE  \E v : /\ Holds(v, {RunAt(dirs, i) : i \in Compared(dirs, n)})
                /\ history_doc(dirs, None, None, 0).eval_types = group_eval_types(v)
<1>1. n \in Nat /\ DOMAIN dirs = 1..n
  BY DEF Index
<1>2. PICK D : D = {i \in 1..n : dirs[i].summary # None}
  OBVIOUS
<1>3. \A i \in D : RunOf(RunAt(dirs, i), dirs[i]) /\ i \in 1..n
  BY <1>2, RunIs DEF Index, RunAt
<1>4. PICK ids, runs : /\ ids = [i \in DOMAIN dirs |-> i]
                       /\ runs = [i \in DOMAIN dirs |-> RunAt(dirs, i)]
  OBVIOUS
<1>5. Holds(ids, 1..n)
  <2>1. Len(ids) = n /\ DOMAIN ids = 1..n /\ \A k \in 1..n : ids[k] = k
    BY <1>1, <1>4
  <2> QED
    BY <1>1, <2>1 DEF Holds
<1>6. PICK done : done = Filter(ids, LAMBDA i : dirs[i].summary # None) /\ Holds(done, D)
  <2>1. PICK I : I = {k \in DOMAIN ids : ids[k] \in D}
    OBVIOUS
  <2>2. I = {k \in DOMAIN ids : dirs[ids[k]].summary # None}
    BY <1>1, <1>2, <1>4, <2>1
  <2>3. Holds(Only(ids, I), D)
    BY <1>2, <1>5, <2>1, OnlyHolds
  <2> QED
    BY <2>2, <2>3 DEF Filter
<1>7. PICK all : all = [i \in DOMAIN done |-> runs[done[i]]]
  OBVIOUS
<1>8. PICK R : R = {RunAt(dirs, i) : i \in D}
  OBVIOUS
<1>9. Holds(all, R)
  <2>1. /\ DOMAIN done = 1..Len(done) /\ Len(done) \in Nat
        /\ (\A k \in 1..Len(done) : done[k] \in D)
        /\ (\A x \in D : \E k \in 1..Len(done) : done[k] = x)
    BY <1>6 DEF Holds
  <2>2. DOMAIN all = 1..Len(done) /\ Len(all) = Len(done)
    BY <1>7, <2>1
  <2>3. \A k \in 1..Len(done) : all[k] = RunAt(dirs, done[k])
    BY <1>1, <1>3, <1>4, <1>7, <2>1
  <2>4. \A k \in 1..Len(done) : all[k] \in R
    BY <1>8, <2>1, <2>3
  <2>5. \A x \in R : \E k \in 1..Len(done) : all[k] = x
    <3>1. SUFFICES ASSUME NEW x \in R PROVE \E k \in 1..Len(done) : all[k] = x
      OBVIOUS
    <3>2. PICK i \in D : x = RunAt(dirs, i)
      BY <1>8
    <3>3. PICK k \in 1..Len(done) : done[k] = i
      BY <2>1
    <3>4. all[k] = x
      BY <2>3, <3>2, <3>3
    <3> QED
      BY <3>4
  <2> QED
    BY <2>1, <2>2, <2>4, <2>5 DEF Holds
<1>10. PICK V : V = {RunAt(dirs, i) : i \in Compared(dirs, n)}
  OBVIOUS
<1>11. V \in SUBSET R /\ \A r \in R : r \in V <=> ~r.quarantined
  <2>1. \A i \in D : i \in Compared(dirs, n) <=> ~RunAt(dirs, i).quarantined
    BY <1>2, <1>3 DEF Compared, RunOf
  <2>2. \A i \in Compared(dirs, n) : i \in D /\ ~RunAt(dirs, i).quarantined
    BY <1>2, <2>1 DEF Compared
  <2>3. \A r \in V : r \in R /\ ~r.quarantined
    BY <1>8, <1>10, <2>2
  <2>4. \A r \in R : ~r.quarantined => r \in V
    BY <1>8, <1>10, <2>1
  <2> QED
    BY <2>3, <2>4
<1>12. PICK iv : iv = index_valid(all) /\ Holds(iv, V)
  <2>1. PICK I : I = {k \in DOMAIN all : all[k] \in V}
    OBVIOUS
  <2>2. \A k \in DOMAIN all : all[k] \in R
    BY <1>9 DEF Holds
  <2>3. I = {k \in DOMAIN all : ~all[k].quarantined}
    BY <1>11, <2>1, <2>2
  <2>4. Holds(Only(all, I), V)
    BY <1>9, <1>11, <2>1, OnlyHolds
  <2> QED
    BY <2>3, <2>4 DEF index_valid, Filter
<1>13. PICK v : v = Sorted(iv, newer)
  OBVIOUS
<1>14. Holds(v, V)
  <2>1. PICK m \in Nat : m = Len(iv) /\ DOMAIN iv = 1..m /\ \A k \in 1..m : iv[k] \in V
    BY <1>12 DEF Holds
  <2>2. \A r \in V : r.timestamp = 0
    <3>1. \A r \in R : r.timestamp = 0
      BY <1>3, <1>8 DEF RunOf
    <3> QED
      BY <1>11, <3>1 DEF IsFirst
  <2>3. v = SortedOn(iv, m, {})
    BY <1>13, <2>1, <2>2, SortedNewer
  <2>4. Asymmetric({}, m) /\ NegativelyTransitive({}, m)
    BY DEF Asymmetric, NegativelyTransitive
  <2> QED
    BY <1>12, <2>1, <2>3, <2>4, SortHolds
<1>15. history_doc(dirs, None, None, 0).eval_types = group_eval_types(v)
  BY <1>4, <1>6, <1>7, <1>12, <1>13 DEF history_doc, RunAt
<1> QED
  BY <1>10, <1>14, <1>15
\* The directories whose runs have results of the family, and those of them
\* that are scored.
Timely(dirs, n) == {i \in Compared(dirs, n) : dirs[i].rows # None}

Graded(dirs, n) == {i \in Timely(dirs, n) : AccuracyOf(dirs[i]) # None}

\* The entry of a run.
EntryOf(r) ==
  [run_id   |-> r.run_id,
   accuracy |-> IF "f" \in DOMAIN r.families THEN r.families["f"].accuracy ELSE None,
   n        |-> r.per_eval["f"].n,
   mean     |-> r.per_eval["f"].mean]

EntryAt(dirs, i) == EntryOf(RunAt(dirs, i))

\* What the entry of a run shows.
LEMMA EntryIs ==
  ASSUME NEW n, NEW dirs, Index(dirs, n), NEW i \in Timely(dirs, n)
  PROVE  /\ i \in 1..n /\ EntryAt(dirs, i).run_id = i
         /\ EntryAt(dirs, i).accuracy = AccuracyOf(dirs[i])
         /\ EntryAt(dirs, i).mean = <<dirs[i].rows[1].tokens, 1>>
         /\ dirs[i].rows[1].tokens \in Nat /\ AccuracyOf(dirs[i]) \in Nat \cup {None}
         /\ Scorable(EntryAt(dirs, i))
<1>1. i \in 1..n /\ dirs[i].summary # None /\ dirs[i].rows # None
  BY DEF Timely, Compared
<1>2. PICK d : d = dirs[i] /\ Summarized(d) /\ d.id = i
  BY <1>1 DEF Index
<1>3. PICK r : r = RunAt(dirs, i) /\ RunOf(r, d)
  BY <1>2, RunIs DEF RunAt
<1>4. PICK x : x = EntryAt(dirs, i)
  OBVIOUS
<1>5. x.run_id = i /\ x.accuracy = AccuracyOf(d) /\ x.mean = <<d.rows[1].tokens, 1>>
  <2>1. PICK a, m, k : /\ a = (IF "f" \in DOMAIN r.families THEN r.families["f"].accuracy ELSE None)
                       /\ m = r.per_eval["f"].mean /\ k = r.per_eval["f"].n
    OBVIOUS
  <2>2. x = [run_id |-> r.run_id, accuracy |-> a, n |-> k, mean |-> m]
    BY <1>3, <1>4, <2>1 DEF EntryAt, EntryOf
  <2>3. r.run_id = i /\ a = AccuracyOf(d) /\ m = <<d.rows[1].tokens, 1>>
    BY <1>1, <1>2, <1>3, <2>1 DEF RunOf
  <2> QED
    BY <2>2, <2>3
<1>6. d.rows[1].tokens \in Nat
  <2>1. PICK t \in Nat : d.rows = <<TimedRow(t)>>
    BY <1>1, <1>2 DEF Summarized
  <2>2. TimedRow(t).tokens = t
    BY DEF TimedRow, Row
  <2> QED
    BY <2>1, <2>2
<1>7. AccuracyOf(d) \in Nat \cup {None}
  <2>1. CASE d.closed # None
    <3>1. d.closed = [f |-> Verdict] /\ Verdict.accuracy = 1
      BY <1>2, <2>1 DEF Summarized, Verdict
    <3>2. d.closed["f"].accuracy = 1
      BY <3>1
    <3> QED
      BY <2>1, <3>2 DEF AccuracyOf
  <2>2. CASE d.closed = None /\ d.summary # <<>>
    <3>1. d.summary \in [{"f"} -> [correct : {0}, graded : {0}, accuracy : {None} \cup Nat]]
      BY <1>2, <2>2 DEF Summarized
    <3>2. d.summary["f"].accuracy \in {None} \cup Nat
      BY <3>1
    <3> QED
      BY <2>2, <3>2 DEF AccuracyOf
  <2>3. CASE d.closed = None /\ d.summary = <<>>
    BY <2>3 DEF AccuracyOf
  <2> QED
    BY <2>1, <2>2, <2>3
<1>8. Scorable(x)
  BY <1>5, <1>6, <1>7 DEF Scorable
<1> QED
  BY <1>1, <1>2, <1>4, <1>5, <1>6, <1>7, <1>8

\* The results of the family before they are sorted.
LEMMA EntriesAre ==
  ASSUME NEW n, NEW dirs, Index(dirs, n), NEW v,
         Holds(v, {RunAt(dirs, i) : i \in Compared(dirs, n)})
  PROVE  \E es : /\ Holds(es, {EntryAt(dirs, i) : i \in Timely(dirs, n)})
                 /\ quants(v, "f") = Sorted(es, ahead)
<1>1. PICK V, W : /\ V = {RunAt(dirs, i) : i \in Compared(dirs, n)}
                  /\ W = {RunAt(dirs, i) : i \in Timely(dirs, n)}
  OBVIOUS
<1>2. \A i \in Compared(dirs, n) : "f" \in DOMAIN RunAt(dirs, i).per_eval <=> i \in Timely(dirs, n)
  <2>1. SUFFICES ASSUME NEW i \in Compared(dirs, n)
                 PROVE  "f" \in DOMAIN RunAt(dirs, i).per_eval <=> i \in Timely(dirs, n)
    OBVIOUS
  <2>2. RunOf(RunAt(dirs, i), dirs[i])
    BY RunIs DEF RunAt, Index, Compared
  <2> QED
    BY <2>2 DEF RunOf, Timely
<1>3. W \in SUBSET V /\ \A r \in V : r \in W <=> "f" \in DOMAIN r.per_eval
  <2>1. \A i \in Timely(dirs, n) : i \in Compared(dirs, n) /\ "f" \in DOMAIN RunAt(dirs, i).per_eval
    BY <1>2 DEF Timely
  <2>2. \A r \in W : r \in V /\ "f" \in DOMAIN r.per_eval
    BY <1>1, <2>1
  <2>3. \A r \in V : "f" \in DOMAIN r.per_eval => r \in W
    BY <1>1, <1>2
  <2> QED
    BY <2>2, <2>3
<1>4. PICK with : with = Filter(v, LAMBDA r : "f" \in DOMAIN r.per_eval) /\ Holds(with, W)
  <2>1. PICK I : I = {k \in DOMAIN v : v[k] \in W}
    OBVIOUS
  <2>2. \A k \in DOMAIN v : v[k] \in V
    BY <1>1 DEF Holds
  <2>3. I = {k \in DOMAIN v : "f" \in DOMAIN v[k].per_eval}
    BY <1>3, <2>1, <2>2
  <2>4. Holds(Only(v, I), W)
    BY <1>1, <1>3, <2>1, OnlyHolds
  <2> QED
    BY <2>3, <2>4 DEF Filter
<1>5. PICK es : es = [i \in DOMAIN with |-> EntryOf(with[i])]
  OBVIOUS
<1>6. PICK E : E = {EntryAt(dirs, i) : i \in Timely(dirs, n)}
  OBVIOUS
<1>7. Holds(es, E)
  <2>1. PICK m \in Nat : /\ m = Len(with) /\ DOMAIN with = 1..m
                         /\ (\A k \in 1..m : with[k] \in W)
                         /\ (\A x \in W : \E k \in 1..m : with[k] = x)
    BY <1>4 DEF Holds
  <2>2. DOMAIN es = 1..m /\ Len(es) = m /\ \A k \in 1..m : es[k] = EntryOf(with[k])
    BY <1>5, <2>1
  <2>3. \A k \in 1..m : es[k] \in E
    <3>1. SUFFICES ASSUME NEW k \in 1..m PROVE es[k] \in E
      OBVIOUS
    <3>2. PICK i \in Timely(dirs, n) : with[k] = RunAt(dirs, i)
      BY <1>1, <2>1
    <3>3. es[k] = EntryAt(dirs, i)
      BY <2>2, <3>2 DEF EntryAt
    <3> QED
      BY <1>6, <3>3
  <2>4. \A x \in E : \E k \in 1..m : es[k] = x
    <3>1. SUFFICES ASSUME NEW x \in E PROVE \E k \in 1..m : es[k] = x
      OBVIOUS
    <3>2. PICK i \in Timely(dirs, n) : x = EntryAt(dirs, i)
      BY <1>6
    <3>3. PICK k \in 1..m : with[k] = RunAt(dirs, i)
      BY <1>1, <2>1
    <3>4. es[k] = x
      BY <2>2, <3>2, <3>3 DEF EntryAt
    <3> QED
      BY <3>4
  <2> QED
    BY <2>1, <2>2, <2>3, <2>4 DEF Holds
<1>8. quants(v, "f") = Sorted(es, ahead)
  BY <1>4, <1>5 DEF quants, EntryOf
<1> QED
  BY <1>6, <1>7, <1>8

\* The best of the family's results.
LEMMA BestIs ==
  ASSUME NEW n, NEW dirs, Index(dirs, n)
  PROVE  LET group == Get(history_doc(dirs, None, None, 0).eval_types, "f")
         IN  IF Graded(dirs, n) = {} THEN group = None \/ group.best = None
             ELSE \E b \in Graded(dirs, n) :
                    /\ group.best = EntryAt(dirs, b)
                    /\ \A i \in Graded(dirs, n) : i = b \/ ~ahead(EntryAt(dirs, i), EntryAt(dirs, b))
<1>1. PICK types, v : /\ Holds(v, {RunAt(dirs, i) : i \in Compared(dirs, n)})
                      /\ types = history_doc(dirs, None, None, 0).eval_types
                      /\ types = group_eval_types(v)
  BY RunsAre
<1>2. PICK es, E : /\ E = {EntryAt(dirs, i) : i \in Timely(dirs, n)}
                   /\ Holds(es, E) /\ quants(v, "f") = Sorted(es, ahead)
  <2>1. \E es : /\ Holds(es, {EntryAt(dirs, i) : i \in Timely(dirs, n)})
                /\ quants(v, "f") = Sorted(es, ahead)
    BY <1>1, EntriesAre, Zenon
  <2> QED
    BY <2>1
<1>3. PICK m \in Nat : m = Len(es) /\ DOMAIN es = 1..m /\ \A k \in 1..m : es[k] \in E
  BY <1>2 DEF Holds
<1>4. \A x \in E : Scorable(x)
  BY <1>2, EntryIs
<1>5. PICK B : B = AheadPairs(es, m)
  OBVIOUS
<1>6. \A i, j \in 1..m : <<i, j>> \in B <=> ahead(es[i], es[j])
  <2>1. \A w : w \in B <=> w \in (1..m) \X (1..m) /\ ahead(es[w[1]], es[w[2]])
    BY <1>5 DEF AheadPairs
  <2>2. SUFFICES ASSUME NEW i \in 1..m, NEW j \in 1..m PROVE <<i, j>> \in B <=> ahead(es[i], es[j])
    OBVIOUS
  <2>3. PICK w : w = <<i, j>>
    OBVIOUS
  <2>4. w \in (1..m) \X (1..m) /\ w[1] = i /\ w[2] = j
    BY <2>3
  <2> QED
    BY <2>1, <2>3, <2>4
<1>7. Asymmetric(B, m) /\ NegativelyTransitive(B, m)
  BY <1>3, <1>4, <1>6, AheadOrder DEF Asymmetric, NegativelyTransitive
<1>8. PICK qs : qs = SortedOn(es, m, B) /\ qs = quants(v, "f") /\ Holds(qs, E)
  <2>1. Sorted(es, ahead) = SortedOn(es, m, B)
    BY <1>3, <1>5, SortedAhead
  <2>2. Holds(SortedOn(es, m, B), E)
    BY <1>2, <1>3, <1>7, SortHolds
  <2> QED
    BY <1>2, <2>1, <2>2
<1>9. PICK G : G = {EntryAt(dirs, i) : i \in Graded(dirs, n)}
  OBVIOUS
<1>10. G \in SUBSET E /\ (\A x \in E : x \in G <=> x.accuracy # None)
       /\ (G = {} <=> Graded(dirs, n) = {})
  <2>1. \A i \in Timely(dirs, n) : i \in Graded(dirs, n) <=> EntryAt(dirs, i).accuracy # None
    BY EntryIs DEF Graded
  <2>2. \A i \in Graded(dirs, n) : i \in Timely(dirs, n)
    BY DEF Graded
  <2>3. \A x \in G : x \in E /\ x.accuracy # None
    BY <1>2, <1>9, <2>1, <2>2
  <2>4. \A x \in E : x.accuracy # None => x \in G
    BY <1>2, <1>9, <2>1
  <2> QED
    BY <1>9, <2>3, <2>4
<1>11. PICK I, f : I = {k \in DOMAIN qs : qs[k] \in G} /\ f = Only(qs, I)
  OBVIOUS
<1>12. f = Filter(qs, LAMBDA q : q.accuracy # None) /\ (f = <<>> <=> G = {})
  <2>1. \A k \in DOMAIN qs : qs[k] \in E
    BY <1>8 DEF Holds
  <2>2. I = {k \in DOMAIN qs : qs[k].accuracy # None}
    BY <1>10, <1>11, <2>1
  <2>3. f = Filter(qs, LAMBDA q : q.accuracy # None)
    BY <1>11, <2>2 DEF Filter
  <2>4. Only(qs, I) = <<>> <=> G = {}
    <3>1. Holds(qs, E) /\ G \in SUBSET E /\ I = {k \in DOMAIN qs : qs[k] \in G}
      BY <1>8, <1>10, <1>11
    <3> QED
      BY <3>1, OnlyHolds
  <2> QED
    BY <1>11, <2>3, <2>4
<1>13. PICK F : F = UNION {DOMAIN v[i].per_eval : i \in DOMAIN v}
  OBVIOUS
<1>14. DOMAIN types = F
       /\ ("f" \in F => types["f"] = [quants |-> qs, best |-> IF f = <<>> THEN None ELSE f[1]])
  BY <1>1, <1>8, <1>12, <1>13 DEF group_eval_types
<1>15. Graded(dirs, n) # {} => "f" \in F
  <2>1. SUFFICES ASSUME NEW i \in Graded(dirs, n) PROVE "f" \in F
    OBVIOUS
  <2>2. i \in Compared(dirs, n) /\ dirs[i].rows # None
    BY DEF Graded, Timely
  <2>3. RunOf(RunAt(dirs, i), dirs[i])
    BY <2>2, RunIs DEF RunAt, Index, Compared
  <2>4. "f" \in DOMAIN RunAt(dirs, i).per_eval
    BY <2>2, <2>3 DEF RunOf
  <2>5. PICK V : V = {RunAt(dirs, j) : j \in Compared(dirs, n)}
    OBVIOUS
  <2>6. Holds(v, V) /\ RunAt(dirs, i) \in V
    BY <1>1, <2>2, <2>5
  <2>7. PICK k \in DOMAIN v : v[k] = RunAt(dirs, i)
    BY <2>6 DEF Holds
  <2> QED
    BY <1>13, <2>4, <2>7
<1>16. PICK group : group = Get(types, "f")
  OBVIOUS
<1>17. CASE Graded(dirs, n) = {}
  <2>1. f = <<>>
    BY <1>10, <1>12, <1>17
  <2>2. group = None \/ group.best = None
    BY <1>14, <1>16, <2>1 DEF Get
  <2> QED
    BY <1>1, <1>16, <1>17, <2>2
<1>18. CASE Graded(dirs, n) # {}
  <2>1. f # <<>> /\ G # {}
    BY <1>10, <1>12, <1>18
  <2>2. group.best = f[1]
    BY <1>14, <1>15, <1>16, <1>18, <2>1 DEF Get
  <2>3. /\ f[1] \in G
        /\ \A x \in G : \/ x = f[1]
                        \/ \E w \in (1..m) \X (1..m) : es[w[1]] = x /\ es[w[2]] = f[1] /\ w \notin B
    <3>1. IsFirst(Only(qs, I)[1], G, es, m, B)
      <4>1. Holds(es, E) /\ m \in Nat /\ m = Len(es)
        BY <1>2, <1>3
      <4>2. qs = SortedOn(es, m, B) /\ G \in SUBSET E /\ G # {} /\ I = {k \in DOMAIN qs : qs[k] \in G}
        BY <1>8, <1>10, <1>11, <2>1
      <4> QED
        BY <1>7, <4>1, <4>2, FirstOfSorted
    <3> QED
      BY <1>11, <3>1 DEF IsFirst
  <2>4. \A x \in G : x = f[1] \/ ~ahead(x, f[1])
    <3>1. SUFFICES ASSUME NEW x \in G, x # f[1] PROVE ~ahead(x, f[1])
      OBVIOUS
    <3>2. PICK w \in (1..m) \X (1..m) : es[w[1]] = x /\ es[w[2]] = f[1] /\ w \notin B
      BY <2>3, <3>1
    <3>3. PICK i \in 1..m, j \in 1..m : w = <<i, j>>
      OBVIOUS
    <3>4. es[i] = x /\ es[j] = f[1] /\ <<i, j>> \notin B
      BY <3>2, <3>3
    <3> QED
      BY <1>6, <3>4
  <2>5. PICK b \in Graded(dirs, n) : f[1] = EntryAt(dirs, b)
    BY <1>9, <2>3
  <2>6. \A i \in Graded(dirs, n) : i = b \/ ~ahead(EntryAt(dirs, i), EntryAt(dirs, b))
    <3>1. SUFFICES ASSUME NEW i \in Graded(dirs, n), i # b
                   PROVE  ~ahead(EntryAt(dirs, i), EntryAt(dirs, b))
      OBVIOUS
    <3>2. EntryAt(dirs, i).run_id = i /\ EntryAt(dirs, b).run_id = b
      BY EntryIs DEF Graded
    <3>3. EntryAt(dirs, i) \in G /\ EntryAt(dirs, i) # f[1]
      BY <1>9, <2>5, <3>1, <3>2
    <3> QED
      BY <2>4, <2>5, <3>3
  <2> QED
    BY <1>1, <1>16, <1>18, <2>2, <2>5, <2>6
<1> QED
  BY <1>17, <1>18

\* What the collector finds is an index.
LEMMA IndexIs ==
  ASSUME NEW dirs \in Indexes
  PROVE  \E n : Index(dirs, n)
<1>1. PICK ds \in BoundedSeq(RunDirs, MaxRuns) :
        dirs = [i \in DOMAIN ds |-> [ds[i] EXCEPT !.id = i]]
  BY DEF Indexes
<1>2. ds \in Seq(RunDirs)
  BY <1>1, BoundedIs, ReportsAssumption
<1>3. PICK n \in Nat : n = Len(ds) /\ DOMAIN ds = 1..n /\ \A i \in 1..n : ds[i] \in RunDirs
  BY <1>2
<1>4. ASSUME NEW i \in 1..n, dirs[i].summary # None
      PROVE  Summarized(dirs[i]) /\ dirs[i].id = i
  <2>1. PICK d : d = ds[i] /\ d \in RunDirs
    BY <1>3
  <2>2. dirs[i] = [d EXCEPT !.id = i]
    BY <1>1, <1>3, <2>1
  <2>3. PICK S : S = [correct : {0}, graded : {0}, accuracy : {None} \cup Small]
    OBVIOUS
  <2>4. /\ d.invalid \in BOOLEAN /\ d.model = 0 /\ d.quant = 0 /\ d.time = 0
        /\ d.preset \in {"smoke-20", "kit-180"}
        /\ d.summary \in {None, <<>>} \cup [{"f"} -> S]
        /\ d.closed \in {None, [f |-> Verdict]}
        /\ d.rows \in {None, <<TimedRow(1)>>, <<TimedRow(2)>>}
        /\ d = [id |-> d.id, preset |-> d.preset, invalid |-> d.invalid, model |-> d.model, quant |-> d.quant,
                time |-> d.time, summary |-> d.summary, closed |-> d.closed, rows |-> d.rows]
    BY <2>1, <2>3 DEF RunDirs, TimedRow
  <2>5. dirs[i] = [id |-> i, preset |-> d.preset, invalid |-> d.invalid, model |-> d.model, quant |-> d.quant,
                   time |-> d.time, summary |-> d.summary, closed |-> d.closed, rows |-> d.rows]
    BY <2>2, <2>4
  <2>6. PICK T : T = [correct : {0}, graded : {0}, accuracy : {None} \cup Nat]
    OBVIOUS
  <2>7. d.summary \in {<<>>} \cup [{"f"} -> T]
    <3>1. S \in SUBSET T
      BY <2>3, <2>6, ReportsAssumption
    <3>2. d.summary # None
      BY <1>4, <2>5
    <3> QED
      BY <2>4, <3>1, <3>2
  <2>8. i \in Nat
    OBVIOUS
  <2> QED
    BY <2>4, <2>5, <2>6, <2>7, <2>8 DEF Summarized
<1>5. DOMAIN dirs = 1..n
  BY <1>1, <1>3
<1>6. Index(dirs, n)
  BY <1>3, <1>4, <1>5 DEF Index
<1> QED
  BY <1>6

LEMMA RankStep == RankRuns => BestIsBest'
<1> SUFFICES ASSUME NEW dirs \in Indexes, input' = [kind |-> "runs", dirs |-> dirs]
             PROVE  BestIsBest'
  BY DEF RankRuns
<1>1. PICK n : Index(dirs, n)
  BY IndexIs
<1>2. input'.dirs = dirs /\ n \in Nat /\ DOMAIN dirs = 1..n
  BY <1>1 DEF Index
<1> DEFINE doc == history_doc(dirs, None, None, 0)
           h == get_file(history_doc(input'.dirs, None, None, 0)).body
           group == Get(h.eval_types, "f")
           shown(i) == LET d == input'.dirs[i]
                       IN  ~d.invalid /\ d.summary # None /\ d.rows # None
           acc(i) == LET d == input'.dirs[i]
                     IN  IF d.closed # None THEN d.closed["f"].accuracy
                         ELSE IF d.summary = <<>> THEN None ELSE d.summary["f"].accuracy
           scored == {i \in DOMAIN input'.dirs : shown(i) /\ acc(i) # None}
           speed(i) == input'.dirs[i].rows[1].tokens
<1>3. h = doc
  <2>1. doc # None
    BY IndexAssumption
  <2> HIDE DEF doc
  <2>2. get_file(doc).body = doc
    BY <2>1 DEF get_file, Answer
  <2> QED
    BY <1>2, <2>2 DEF doc
<1>4. \A i : acc(i) = AccuracyOf(dirs[i])
  BY <1>2 DEF AccuracyOf
<1>5. scored = Graded(dirs, n)
  BY <1>2, <1>4 DEF Graded, Timely, Compared
<1>6. \A i : speed(i) = dirs[i].rows[1].tokens
  BY <1>2
<1>7. IF Graded(dirs, n) = {} THEN group = None \/ group.best = None
      ELSE \E b \in Graded(dirs, n) :
             /\ group.best = EntryAt(dirs, b)
             /\ \A i \in Graded(dirs, n) : i = b \/ ~ahead(EntryAt(dirs, i), EntryAt(dirs, b))
  <2>1. group = Get(history_doc(dirs, None, None, 0).eval_types, "f")
    BY <1>3
  <2> HIDE DEF group
  <2> QED
    BY <1>1, <2>1, BestIs
<1> HIDE DEF acc, scored, speed, group, h
<1>8. ASSUME NEW b \in Graded(dirs, n), NEW i \in Graded(dirs, n),
             i = b \/ ~ahead(EntryAt(dirs, i), EntryAt(dirs, b))
      PROVE  acc(b) > acc(i) \/ (acc(b) = acc(i) /\ speed(b) >= speed(i))
  <2>1. PICK x, y : x = EntryAt(dirs, i) /\ y = EntryAt(dirs, b)
    OBVIOUS
  <2>2. PICK ai \in Nat, ab \in Nat, si \in Nat, sb \in Nat :
          /\ ai = acc(i) /\ ab = acc(b) /\ si = speed(i) /\ sb = speed(b)
          /\ x.accuracy = ai /\ x.mean = <<si, 1>>
          /\ y.accuracy = ab /\ y.mean = <<sb, 1>>
    <3>1. /\ x.accuracy = acc(i) /\ x.mean = <<speed(i), 1>>
          /\ speed(i) \in Nat /\ acc(i) \in Nat
      BY <1>1, <1>4, <1>6, <2>1, EntryIs DEF Graded
    <3>2. /\ y.accuracy = acc(b) /\ y.mean = <<speed(b), 1>>
          /\ speed(b) \in Nat /\ acc(b) \in Nat
      BY <1>1, <1>4, <1>6, <2>1, EntryIs DEF Graded
    <3> QED
      BY <3>1, <3>2
  <2>3. CASE i = b
    <3>1. ab = ai /\ sb >= si
      BY <2>2, <2>3
    <3> QED
      BY <2>2, <3>1
  <2>4. CASE ~ahead(x, y)
    <3>1. ai # None /\ ab # None
      BY NoneAssumption
    <3>2. ~(ai > ab) /\ ~(ai = ab /\ sb * 1 < si * 1)
      BY <2>2, <2>4, <3>1 DEF ahead, OrElse, Slower
    <3>3. ab > ai \/ (ab = ai /\ sb >= si)
      BY <3>2
    <3> QED
      BY <2>2, <3>3
  <2> QED
    BY <1>8, <2>1, <2>3, <2>4
<1>9. ASSUME NEW b \in Graded(dirs, n), group.best = EntryAt(dirs, b) PROVE group.best.run_id = b
  BY <1>1, <1>9, EntryIs DEF Graded
<1>10. IF scored = {} THEN group = None \/ group.best = None
       ELSE LET b == group.best.run_id
            IN  /\ b \in scored
                /\ \A i \in scored : acc(b) > acc(i) \/ (acc(b) = acc(i) /\ speed(b) >= speed(i))
  <2>1. CASE Graded(dirs, n) = {}
    BY <1>5, <1>7, <2>1
  <2>2. CASE Graded(dirs, n) # {}
    <3>1. PICK b \in Graded(dirs, n) :
            /\ group.best = EntryAt(dirs, b)
            /\ \A i \in Graded(dirs, n) : i = b \/ ~ahead(EntryAt(dirs, i), EntryAt(dirs, b))
      BY <1>7, <2>2
    <3>2. group.best.run_id = b
      BY <1>9, <3>1
    <3>3. \A i \in Graded(dirs, n) : acc(b) > acc(i) \/ (acc(b) = acc(i) /\ speed(b) >= speed(i))
      BY <1>8, <3>1
    <3> QED
      BY <1>5, <2>2, <3>2, <3>3
  <2> QED
    BY <2>1, <2>2
<1> QED
  BY <1>10 DEF BestIsBest, acc, scored, speed, group, h

\* Whatever directories the collector finds, the best result shown of the family is a
\* scored one of a valid run, and no valid run of its preset has a better one, or the
\* same one faster.
THEOREM TheBestIsTheBest == Spec => []BestIsBest
<1>1. Init => BestIsBest
  <2>1. Init => input.kind # "runs"
    BY DEF Init, Start
  <2> QED
    BY <2>1 DEF BestIsBest
<1>2. BestIsBest /\ [Next]_input => BestIsBest'
  <2>1. ASSUME Next PROVE BestIsBest'
    <3>1. CASE RankRuns
      BY <3>1, RankStep
    <3>2. CASE input'.kind # "runs"
      BY <3>2 DEF BestIsBest
    <3> QED
      BY <2>1, <3>1, <3>2, OtherKinds
  <2>2. ASSUME BestIsBest, UNCHANGED input PROVE BestIsBest'
    BY <2>2 DEF BestIsBest
  <2> QED
    BY <2>1, <2>2
<1> QED
  BY <1>1, <1>2, PTL DEF Spec
==============================================================================
