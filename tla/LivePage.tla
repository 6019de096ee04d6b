------------------------------ MODULE LivePage ------------------------------
(***************************************************************************)
(* The engine block of /api/live (engine_metrics.block and series), asked  *)
(* for by the threads of the web server, which share its caches without a  *)
(* lock.  One action is what one thread does between two points at which   *)
(* another may run: a dictionary is read or written once, or a source is   *)
(* asked.                                                                  *)
(***************************************************************************)
EXTENDS Integers

CONSTANTS
  Thread, Window,          \* handler threads; the windows the page offers
  Family, None,            \* metric-name families; no engine, or no value
  CACHE_S, SERIES_CACHE_S, \* how long a document and a chart are reused
  CallMax,                 \* the longest call: its sources' timeouts together
  Horizon                  \* the last moment of an instance

\* A chart is the window, the family and the moment it was drawn for (with all
\* of its lines or some: a half-drawn one is cached and shown like any other), a
\* document its window, its `at` and the window of its chart.
Chart == [win : Window, fam : Family \cup {None}, at : Nat]
Doc == [win : Window, at : Nat, chart : Window \cup {None}]

ASSUME LivePageAssumption ==
  /\ CACHE_S \in Nat \ {0} /\ SERIES_CACHE_S \in Nat
  /\ CallMax \in Nat /\ Horizon \in Nat
  /\ None \notin Family \cup Window \cup Chart /\ None \notin Doc

VARIABLES
  now, engine,             \* the clock; the family the port speaks
  docs, docAt,             \* _cache["docs"], _cache["at"]
  chart, chartAt, chartFam,\* _cache["series"], ["series_at"], ["series_family"]
  pc, win, at, fam,        \* a call: its step, window, `now`, family seen
  cached, drawn,           \* a call: the chart it found, the one it will show
  clash                    \* history: windows whose chart two calls stored at once

caches == <<docs, docAt, chart, chartAt, chartFam>>
calls  == <<win, at, fam, cached, drawn>>
vars   == <<now, engine, caches, pc, calls, clash>>

Init ==
  /\ now = 0 /\ engine \in Family \cup {None}
  /\ docs = [w \in Window |-> None] /\ docAt = [w \in Window |-> 0]
  /\ chart = [w \in Window |-> None] /\ chartAt = [w \in Window |-> 0]
  /\ chartFam = [w \in Window |-> None]
  /\ pc = [t \in Thread |-> "idle"]
  /\ win \in [Thread -> Window] /\ at = [t \in Thread |-> 0]
  /\ fam = [t \in Thread |-> None]
  /\ cached = [t \in Thread |-> None] /\ drawn = [t \in Thread |-> None]
  /\ clash = {}

-----------------------------------------------------------------------------
Goes(t, from, to) == pc[t] = from /\ pc' = [pc EXCEPT ![t] = to]

\* A call returns, and its locals are gone.
Returns(t, from) ==
  /\ Goes(t, from, "idle")
  /\ at' = [at EXCEPT ![t] = 0] /\ fam' = [fam EXCEPT ![t] = None]
  /\ cached' = [cached EXCEPT ![t] = None] /\ drawn' = [drawn EXCEPT ![t] = None]
  /\ UNCHANGED win

Ask(t, w) ==
  /\ Goes(t, "idle", "look")
  /\ win' = [win EXCEPT ![t] = w] /\ at' = [at EXCEPT ![t] = now]
  /\ UNCHANGED <<now, engine, caches, fam, cached, drawn, clash>>

\* Variant: any document will do, however old.
FreshEver(t) == docs[win[t]] # None

Fresh(t) == docs[win[t]] # None /\ at[t] - docAt[win[t]] < CACHE_S

Look(t) ==
  /\ IF Fresh(t) THEN Goes(t, "look", "serve") ELSE Goes(t, "look", "scrape")
  /\ UNCHANGED <<now, engine, caches, calls, clash>>

\* The document is read again to be returned: it may be another one by now.
Serve(t) ==
  /\ Returns(t, "serve")
  /\ UNCHANGED <<now, engine, caches, clash>>

\* The exposition says which family serves; no answer says none.
Scrape(t) ==
  /\ Goes(t, "scrape", "rates")
  /\ \E f \in {engine, None} : fam' = [fam EXCEPT ![t] = f]
  /\ UNCHANGED <<now, engine, caches, win, at, cached, drawn, clash>>

\* Every rate was read.
RatesAnswered(t) ==
  /\ Goes(t, "rates", "read chart")
  /\ UNCHANGED <<now, engine, caches, calls, clash>>

\* Prometheus failed: it is not asked again, and the last chart is shown.
RatesFailed(t) ==
  /\ Goes(t, "rates", "store")
  /\ drawn' = [drawn EXCEPT ![t] = chart[win[t]]]
  /\ UNCHANGED <<now, engine, caches, win, at, fam, cached, clash>>

ReadChart(t) ==
  /\ Goes(t, "read chart", "check chart")
  /\ cached' = [cached EXCEPT ![t] = chart[win[t]]]
  /\ UNCHANGED <<now, engine, caches, win, at, fam, drawn, clash>>

\* Variant: the family the chart was drawn for is not looked at.
ChartFreshForAll(t) ==
  /\ cached[t] # None
  /\ at[t] - chartAt[win[t]] < SERIES_CACHE_S

ChartFresh(t) ==
  /\ cached[t] # None
  /\ chartFam[win[t]] = fam[t]
  /\ at[t] - chartAt[win[t]] < SERIES_CACHE_S

\* The chart that was found is not needed any more.
Forget(t) == cached' = [cached EXCEPT ![t] = None]

CheckChart(t) ==
  /\ \/ /\ ChartFresh(t)
        /\ Goes(t, "check chart", "store")
        /\ drawn' = [drawn EXCEPT ![t] = cached[t]]
        /\ Forget(t)
     \/ /\ ~ChartFresh(t)
        /\ Goes(t, "check chart", "fetch")
        /\ UNCHANGED <<cached, drawn>>
  /\ UNCHANGED <<now, engine, caches, win, at, fam, clash>>

\* The range queries gave all the lines, or broke off after some.
Drew(t) ==
  /\ Goes(t, "fetch", "put chart")
  /\ drawn' = [drawn EXCEPT ![t] = [win |-> win[t], fam |-> fam[t], at |-> at[t]]]
  /\ Forget(t)
  /\ UNCHANGED <<now, engine, caches, win, at, fam, clash>>

\* They gave no line: the chart found before is shown again.
DrewNothing(t) ==
  /\ Goes(t, "fetch", "store")
  /\ drawn' = [drawn EXCEPT ![t] = cached[t]]
  /\ Forget(t)
  /\ UNCHANGED <<now, engine, caches, win, at, fam, clash>>

\* A call that has put its chart and not yet all that is filed with it.
Storing(t, w) == pc[t] \in {"put chart at", "put family"} /\ win[t] = w

PutChart(t) ==
  /\ Goes(t, "put chart", "put chart at")
  /\ chart' = [chart EXCEPT ![win[t]] = drawn[t]]
  /\ clash' = IF \E u \in Thread : Storing(u, win[t])
                THEN clash \cup {win[t]} ELSE clash \ {win[t]}
  /\ UNCHANGED <<now, engine, docs, docAt, chartAt, chartFam, calls>>

PutChartAt(t) ==
  /\ Goes(t, "put chart at", "put family")
  /\ chartAt' = [chartAt EXCEPT ![win[t]] = at[t]]
  /\ UNCHANGED <<now, engine, docs, docAt, chart, chartFam, calls, clash>>

\* Variant: the moment is put where the family belongs.
PutFamilyMoment(t) ==
  /\ Goes(t, "put family", "store")
  /\ chartFam' = [chartFam EXCEPT ![win[t]] = at[t]]
  /\ UNCHANGED <<now, engine, docs, docAt, chart, chartAt, calls, clash>>

PutFamily(t) ==
  /\ Goes(t, "put family", "store")
  /\ chartFam' = [chartFam EXCEPT ![win[t]] = fam[t]]
  /\ UNCHANGED <<now, engine, docs, docAt, chart, chartAt, calls, clash>>

StoreDoc(t) ==
  /\ Goes(t, "store", "store at")
  /\ docs' = [docs EXCEPT ![win[t]] = [win |-> win[t], at |-> at[t],
                 chart |-> IF drawn[t] = None THEN None ELSE drawn[t].win]]
  /\ UNCHANGED <<now, engine, docAt, chart, chartAt, chartFam, calls, clash>>

\* The document is stored with the moment the call began; then it is returned.
StoreAt(t) ==
  /\ Returns(t, "store at")
  /\ docAt' = [docAt EXCEPT ![win[t]] = at[t]]
  /\ UNCHANGED <<now, engine, docs, chart, chartAt, chartFam, clash>>

\* A source that does not answer is given up after its timeout, so no call
\* outlasts CallMax.
Tick ==
  /\ now < Horizon
  /\ \A t \in Thread : pc[t] # "idle" => now < at[t] + CallMax
  /\ now' = now + 1
  /\ UNCHANGED <<engine, caches, pc, calls, clash>>

\* The dispatcher moved the port to another engine, or it is down.
Swap ==
  /\ engine' \in (Family \cup {None}) \ {engine}
  /\ UNCHANGED <<now, caches, pc, calls, clash>>

Step(t) ==
  \/ Look(t) \/ Serve(t) \/ Scrape(t) \/ RatesAnswered(t) \/ RatesFailed(t)
  \/ ReadChart(t) \/ CheckChart(t) \/ Drew(t) \/ DrewNothing(t)
  \/ PutChart(t) \/ PutChartAt(t) \/ PutFamily(t) \/ StoreDoc(t) \/ StoreAt(t)

Next ==
  \/ \E t \in Thread : Step(t) \/ \E w \in Window : Ask(t, w)
  \/ Tick
  \/ Swap

Spec == Init /\ [][Next]_vars

-----------------------------------------------------------------------------
Steps == {"idle", "look", "serve", "scrape", "rates", "read chart", "check chart",
          "fetch", "put chart", "put chart at", "put family", "store", "store at"}

\* What the caches and the calls hold; an entry is about the window it is
\* filed under.
TypeOK ==
  /\ now \in Nat /\ engine \in Family \cup {None}
  /\ docs \in [Window -> Doc \cup {None}] /\ docAt \in [Window -> Nat]
  /\ chart \in [Window -> Chart \cup {None}] /\ chartAt \in [Window -> Nat]
  /\ chartFam \in [Window -> Family \cup {None}]
  /\ pc \in [Thread -> Steps] /\ win \in [Thread -> Window] /\ at \in [Thread -> Nat]
  /\ fam \in [Thread -> Family \cup {None}]
  /\ cached \in [Thread -> Chart \cup {None}] /\ drawn \in [Thread -> Chart \cup {None}]
  /\ clash \subseteq Window

\* A document served from the cache answers for the window that was asked, was
\* begun less than CACHE_S and one call before the request, and carries a
\* chart of that window, however the threads' stores were interleaved.
ServedAge ==
  \A t \in Thread : pc[t] = "serve" =>
    LET doc == docs[win[t]]
    IN  /\ doc # None
        /\ doc.win = win[t]
        /\ at[t] - doc.at < CACHE_S + CallMax
        /\ doc.chart \in {win[t], None}

\* series (engine_metrics.py:527-543): "an engine swap must not be answered from
\* a chart of the previous engine".  A chart answered from the memo was drawn for
\* the family this call saw, less than SERIES_CACHE_S before it began, while the
\* entry still holds what was read and no call is storing, or stored at once with
\* another, the chart of this window.
MemoOfThisEngine ==
  [][\A t \in Thread :
       LET w == win[t]
       IN  /\ pc[t] = "check chart" /\ pc'[t] = "store"
           /\ cached[t] = chart[w] /\ w \notin clash
           /\ \A u \in Thread : ~Storing(u, w)
           => cached[t].fam = fam[t] /\ at[t] - cached[t].at < SERIES_CACHE_S]_vars
=============================================================================
