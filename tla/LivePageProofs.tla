--------------------------- MODULE LivePageProofs ---------------------------
(***************************************************************************)
(* What a request for the engine card is answered with, for any number of  *)
(* threads and windows and any lengths of time.                            *)
(***************************************************************************)
EXTENDS LivePage, TLAPS

\* Documents and charts are filed under their own window; no document or entry
\* is from the future, and an entry is dated at most one call after the call
\* that made its document began.
Filed ==
  /\ \A w \in Window :
       /\ chart[w] # None => chart[w].win = w
       /\ docAt[w] <= now
       /\ docs[w] # None => /\ docs[w].win = w
                            /\ docs[w].chart \in {w, None}
                            /\ docAt[w] <= docs[w].at + CallMax

\* A call is no older than CallMax, and holds charts of its own window only;
\* one about to serve has seen a document young enough, and one about to date
\* an entry began at most one call after the document filed there.
InTime ==
  \A t \in Thread :
    /\ pc[t] = "idle" => cached[t] = None /\ drawn[t] = None
    /\ pc[t] # "idle" => at[t] <= now /\ now <= at[t] + CallMax
    /\ cached[t] # None => cached[t].win = win[t]
    /\ drawn[t] # None => drawn[t].win = win[t]
    /\ pc[t] = "serve" =>
         docs[win[t]] # None /\ at[t] < docs[win[t]].at + CACHE_S + CallMax
    /\ pc[t] = "store at" =>
         docs[win[t]] # None /\ at[t] <= docs[win[t]].at + CallMax

\* The chart a call draws.
Mine(t) == [win |-> win[t], fam |-> fam[t], at |-> at[t]]

\* A call stores the chart it drew; and where no two stored at once, what is
\* filed with a chart is that chart's family and moment, or its call is about
\* to file it.
Matched(w) ==
  /\ \A t, u \in Thread : Storing(t, w) /\ Storing(u, w) => t = u
  /\ \A t \in Thread : Storing(t, w) =>
       chart[w] = Mine(t) /\ (pc[t] = "put family" => chartAt[w] = at[t])
  /\ (\A t \in Thread : ~Storing(t, w)) /\ chart[w] # None =>
       chart[w].fam = chartFam[w] /\ chart[w].at = chartAt[w]

Kept ==
  /\ \A t \in Thread :
       pc[t] \in {"put chart", "put chart at", "put family"} => drawn[t] = Mine(t)
  /\ \A w \in Window \ clash : Matched(w)

IInv == TypeOK /\ Filed /\ InTime /\ Kept

\* The constants, without what they say of documents.
LEMMA Constant ==
  /\ CACHE_S \in Nat \ {0} /\ CallMax \in Nat /\ None \notin Window
BY LivePageAssumption

\* What a document holds, and that none is mistaken for no document.
LEMMA DocFields ==
  \A d \in Doc : /\ d # None /\ d.win \in Window /\ d.at \in Nat
                 /\ d.chart \in Window \cup {None}
BY LivePageAssumption DEF Doc

LEMMA DocMade ==
  ASSUME NEW w \in Window, NEW n \in Nat, NEW c \in Window \cup {None}
  PROVE  LET d == [win |-> w, at |-> n, chart |-> c]
         IN  d \in Doc /\ d # None /\ d.win = w /\ d.at = n /\ d.chart = c
BY LivePageAssumption DEF Doc

\* The same of charts.
LEMMA ChartFields ==
  \A c \in Chart : c # None /\ c.win \in Window /\ c.fam \in Family \cup {None} /\ c.at \in Nat
BY LivePageAssumption DEF Chart

LEMMA MineMade ==
  ASSUME TypeOK, NEW t \in Thread
  PROVE  /\ Mine(t) \in Chart /\ Mine(t) # None
         /\ Mine(t).win = win[t] /\ Mine(t).fam = fam[t] /\ Mine(t).at = at[t]
<1>1. win[t] \in Window /\ fam[t] \in Family \cup {None} /\ at[t] \in Nat
  BY DEF TypeOK
<1>2. Mine(t) \in Chart
  BY <1>1 DEF Mine, Chart
<1> QED
  BY <1>2, ChartFields DEF Mine

\* What StoreDoc changes.
LEMMA DocStored ==
  ASSUME TypeOK, NEW t \in Thread, StoreDoc(t)
  PROVE  /\ docs'[win[t]] \in Doc /\ docs'[win[t]] # None
         /\ docs'[win[t]].win = win[t] /\ docs'[win[t]].at = at[t]
         /\ docs'[win[t]].chart = IF drawn[t] = None THEN None ELSE drawn[t].win
         /\ \A w \in Window : w # win[t] => docs'[w] = docs[w]
         /\ docs' \in [Window -> Doc \cup {None}]
<1> DEFINE c == IF drawn[t] = None THEN None ELSE drawn[t].win
           d == [win |-> win[t], at |-> at[t], chart |-> c]
<1>1. docs' = [docs EXCEPT ![win[t]] = d] BY DEF StoreDoc
<1>2. /\ win[t] \in Window /\ at[t] \in Nat /\ drawn[t] \in Chart \cup {None}
      /\ docs \in [Window -> Doc \cup {None}]
  BY DEF TypeOK
<1>4. c \in Window \cup {None}
  BY <1>2, ChartFields
<1> HIDE DEF c
<1>3. d \in Doc /\ d # None /\ d.win = win[t] /\ d.at = at[t] /\ d.chart = c
  BY <1>2, <1>4, DocMade
<1> HIDE DEF d
<1> QED BY <1>1, <1>2, <1>3 DEF c

LEMMA DocThere ==
  ASSUME TypeOK, NEW w \in Window, docs[w] # None
  PROVE  docs[w] \in Doc /\ docs[w].at \in Nat
<1>1. docs[w] \in Doc BY DEF TypeOK
<1> QED BY <1>1, DocFields

\* An entry is dated at most one call after its document.
LEMMA FreshIsYoung ==
  ASSUME TypeOK, Filed, NEW t \in Thread, Fresh(t)
  PROVE  docs[win[t]] # None /\ at[t] < docs[win[t]].at + CACHE_S + CallMax
<1>1. win[t] \in Window /\ at[t] \in Nat /\ docAt[win[t]] \in Nat
  BY DEF TypeOK
<1>2. docs[win[t]] # None /\ at[t] - docAt[win[t]] < CACHE_S
  BY DEF Fresh
<1>3. docs[win[t]].at \in Nat
  BY <1>1, <1>2, DocThere
<1>4. docAt[win[t]] <= docs[win[t]].at + CallMax
  BY <1>1, <1>2 DEF Filed
<1> QED BY <1>1, <1>2, <1>3, <1>4, Constant

\* A call and the clock.
LEMMA CallTypes ==
  ASSUME TypeOK, NEW t \in Thread
  PROVE  /\ win[t] \in Window /\ win[t] # None /\ at[t] \in Nat /\ now \in Nat
         /\ docAt[win[t]] \in Nat
<1>1. win[t] \in Window /\ at[t] \in Nat /\ now \in Nat BY DEF TypeOK
<1>2. docAt[win[t]] \in Nat BY <1>1 DEF TypeOK
<1> QED BY <1>1, <1>2, Constant

\* No call under way began more than CallMax before another.
LEMMA CallsOverlap ==
  ASSUME TypeOK, InTime, NEW t \in Thread, NEW u \in Thread,
         pc[t] # "idle", pc[u] # "idle"
  PROVE  at[u] <= at[t] + CallMax
<1>1. at[u] \in Nat /\ at[t] \in Nat /\ now \in Nat /\ CallMax \in Nat
  BY CallTypes, Constant
<1>2. at[u] <= now /\ now <= at[t] + CallMax
  BY DEF InTime
<1> QED BY <1>1, <1>2

LEMMA InitInv == Init => IInv
BY LivePageAssumption, SMT DEF Init, IInv, TypeOK, Steps, Filed, InTime, Kept, Matched, Storing

\* One call's step keeps the types.
LEMMA TypeStep ==
  ASSUME TypeOK, Kept, NEW t \in Thread, Step(t)
  PROVE  TypeOK'
<1> USE DEF TypeOK, Steps, Goes, Forget, caches, calls
<1>1. CASE Look(t)          BY <1>1 DEF Look
<1>2. CASE Serve(t)         BY <1>2 DEF Serve, Returns
<1>3. CASE Scrape(t)
  <2> PICK f \in {engine, None} : fam' = [fam EXCEPT ![t] = f]
    BY <1>3 DEF Scrape
  <2> QED BY <1>3 DEF Scrape
<1>4. CASE RatesAnswered(t) BY <1>4 DEF RatesAnswered
<1>5. CASE RatesFailed(t)   BY <1>5 DEF RatesFailed
<1>6. CASE ReadChart(t)     BY <1>6 DEF ReadChart
<1>7. CASE CheckChart(t)    BY <1>7 DEF CheckChart
<1>8. CASE Drew(t)
  <2>1. drawn' = [drawn EXCEPT ![t] = Mine(t)]
    BY <1>8 DEF Drew, Mine
  <2> QED BY <1>8, <2>1, MineMade DEF Drew
<1>9. CASE DrewNothing(t)   BY <1>9 DEF DrewNothing
<1>10. CASE PutChart(t)
  <2>1. drawn[t] = Mine(t)
    BY <1>10 DEF PutChart, Kept
  <2> QED BY <1>10, <2>1, MineMade DEF PutChart
<1>11. CASE PutChartAt(t)   BY <1>11 DEF PutChartAt
<1>12. CASE PutFamily(t)    BY <1>12 DEF PutFamily
<1>13. CASE StoreDoc(t)     BY <1>13, DocStored DEF StoreDoc
<1>14. CASE StoreAt(t)      BY <1>14 DEF StoreAt, Returns
<1> QED BY <1>1, <1>2, <1>3, <1>4, <1>5, <1>6, <1>7, <1>8, <1>9, <1>10, <1>11,
           <1>12, <1>13, <1>14 DEF Step

LEMMA FiledStep ==
  ASSUME IInv, NEW t \in Thread, Step(t)
  PROVE  Filed'
<1> USE Constant DEF IInv, TypeOK, Steps, Filed, Goes, Forget, caches, calls
<1>1. CASE Look(t)          BY <1>1 DEF Look
<1>2. CASE Serve(t)         BY <1>2 DEF Serve
<1>3. CASE Scrape(t)        BY <1>3 DEF Scrape
<1>4. CASE RatesAnswered(t) BY <1>4 DEF RatesAnswered
<1>5. CASE RatesFailed(t)   BY <1>5 DEF RatesFailed
<1>6. CASE ReadChart(t)     BY <1>6 DEF ReadChart
<1>7. CASE CheckChart(t)    BY <1>7 DEF CheckChart
<1>8. CASE Drew(t)          BY <1>8 DEF Drew
<1>9. CASE DrewNothing(t)   BY <1>9 DEF DrewNothing
<1>10. CASE PutChart(t)
  <2>1. drawn[t] # None => drawn[t].win = win[t]
    BY DEF InTime
  <2> QED BY <1>10, <2>1 DEF PutChart
<1>11. CASE PutChartAt(t)   BY <1>11 DEF PutChartAt
<1>12. CASE PutFamily(t)    BY <1>12 DEF PutFamily
<1>13. CASE StoreDoc(t)
  <2>1. /\ pc[t] = "store" /\ UNCHANGED <<now, chart, docAt>>
    BY <1>13 DEF StoreDoc
  <2>2. /\ win[t] \in Window /\ at[t] \in Nat /\ now \in Nat
        /\ docAt \in [Window -> Nat] /\ now <= at[t] + CallMax
        /\ (drawn[t] # None => drawn[t].win = win[t])
    BY <2>1 DEF InTime
  <2>3. docAt[win[t]] <= at[t] + CallMax
    <3>1. docAt[win[t]] <= now
      BY <2>2
    <3> HIDE DEF IInv, TypeOK, Filed, Steps, Goes
    <3>2. docAt[win[t]] \in Nat
      BY <2>2
    <3> QED BY <2>2, <3>1, <3>2, Constant
  <2> HIDE DEF IInv, TypeOK, Steps, Goes
  <2>4. Filed /\ TypeOK
    BY DEF IInv
  <2> QED BY <1>13, <2>1, <2>2, <2>3, <2>4, DocStored
<1>14. CASE StoreAt(t)      BY <1>14 DEF StoreAt, Returns, InTime
<1> QED BY <1>1, <1>2, <1>3, <1>4, <1>5, <1>6, <1>7, <1>8, <1>9, <1>10, <1>11,
           <1>12, <1>13, <1>14 DEF Step

LEMMA InTimeStep ==
  ASSUME IInv, NEW t \in Thread, Step(t)
  PROVE  InTime'
<1> USE Constant DEF IInv, TypeOK, Steps, InTime, Goes, Forget, caches, calls
<1>1. CASE Look(t)
  <2>1. CASE Fresh(t)
    <3>3. docs[win[t]] # None /\ at[t] < docs[win[t]].at + CACHE_S + CallMax
      BY <2>1, FreshIsYoung
    <3>4. pc' = [pc EXCEPT ![t] = "serve"] /\ pc[t] = "look"
          /\ UNCHANGED <<now, docs, win, at, cached, drawn>>
      BY <1>1, <2>1 DEF Look
    <3> QED BY <3>3, <3>4
  <2>2. CASE ~Fresh(t)      BY <1>1, <2>2 DEF Look
  <2> QED BY <2>1, <2>2
<1>2. CASE Serve(t)         BY <1>2 DEF Serve, Returns
<1>3. CASE Scrape(t)        BY <1>3 DEF Scrape
<1>4. CASE RatesAnswered(t) BY <1>4 DEF RatesAnswered
<1>5. CASE RatesFailed(t)
  <2>1. chart[win[t]] # None => chart[win[t]].win = win[t]
    BY DEF Filed
  <2> QED BY <1>5, <2>1 DEF RatesFailed
<1>6. CASE ReadChart(t)
  <2>1. chart[win[t]] # None => chart[win[t]].win = win[t]
    BY DEF Filed
  <2> QED BY <1>6, <2>1 DEF ReadChart
<1>7. CASE CheckChart(t)
  <2>1. CASE ChartFresh(t)  BY <1>7, <2>1 DEF CheckChart
  <2>2. CASE ~ChartFresh(t) BY <1>7, <2>2 DEF CheckChart
  <2> QED BY <2>1, <2>2
<1>8. CASE Drew(t)
  <2>1. /\ drawn' = [drawn EXCEPT ![t] = Mine(t)] /\ drawn \in [Thread -> Chart \cup {None}]
        /\ Mine(t).win = win[t]
    BY <1>8, MineMade DEF Drew, Mine
  <2> QED BY <1>8, <2>1 DEF Drew
<1>9. CASE DrewNothing(t)   BY <1>9 DEF DrewNothing
<1>10. CASE PutChart(t)     BY <1>10 DEF PutChart
<1>11. CASE PutChartAt(t)   BY <1>11 DEF PutChartAt
<1>12. CASE PutFamily(t)    BY <1>12 DEF PutFamily
<1>13. CASE StoreDoc(t)
  <2>1. /\ pc[t] = "store" /\ pc' = [pc EXCEPT ![t] = "store at"]
        /\ UNCHANGED <<now, at, win, cached, drawn>>
    BY <1>13 DEF StoreDoc
  <2>2. /\ pc \in [Thread -> Steps] /\ win \in [Thread -> Window]
        /\ at \in [Thread -> Nat] /\ now \in Nat /\ now <= at[t] + CallMax
    BY <2>1
  <2>3. ASSUME NEW u \in Thread, pc[u] # "idle"
        PROVE  at[u] <= at[t] + CallMax
    <3> HIDE DEF IInv, TypeOK, InTime
    <3> QED BY <2>1, <2>3, CallsOverlap DEF IInv
  <2>4. /\ docs'[win[t]] # None /\ docs'[win[t]].at = at[t]
        /\ \A w \in Window : w # win[t] => docs'[w] = docs[w]
    BY <1>13, DocStored
  <2>5. ASSUME NEW u \in Thread, pc[u] \in {"serve", "store at"} \/ u = t
        PROVE  /\ docs'[win[u]] # None
               /\ pc[u] = "serve" => at[u] < docs'[win[u]].at + CACHE_S + CallMax
               /\ pc[u] # "serve" => at[u] <= docs'[win[u]].at + CallMax
    <3>1. CASE win[u] = win[t]
      <4>1. at[u] <= at[t] + CallMax /\ at[u] \in Nat /\ at[t] \in Nat
        BY <2>1, <2>2, <2>3, <2>5
      <4> HIDE DEF IInv, TypeOK, InTime, Steps, Goes
      <4> QED BY <2>4, <3>1, <4>1, Constant
    <3>2. CASE win[u] # win[t]
      BY <2>2, <2>4, <2>5, <3>2
    <3> QED BY <3>1, <3>2
  <2> QED BY <2>1, <2>2, <2>5
<1>14. CASE StoreAt(t)      BY <1>14 DEF StoreAt, Returns
<1> QED BY <1>1, <1>2, <1>3, <1>4, <1>5, <1>6, <1>7, <1>8, <1>9, <1>10, <1>11,
           <1>12, <1>13, <1>14 DEF Step

\* A window that nobody stores to stays as it was.
LEMMA MatchedKept ==
  ASSUME NEW w \in Window, Matched(w),
         chart'[w] = chart[w], chartAt'[w] = chartAt[w], chartFam'[w] = chartFam[w],
         \A u \in Thread : Storing(u, w)' <=> Storing(u, w),
         \A u \in Thread : Storing(u, w) =>
           Mine(u)' = Mine(u) /\ pc'[u] = pc[u] /\ at'[u] = at[u]
  PROVE  Matched(w)'
<1> HIDE DEF Mine, Storing
<1>1. \A t, u \in Thread : Storing(t, w)' /\ Storing(u, w)' => t = u
  BY DEF Matched
<1>2. ASSUME NEW t \in Thread, Storing(t, w)'
      PROVE  chart'[w] = Mine(t)' /\ (pc'[t] = "put family" => chartAt'[w] = at'[t])
  BY <1>2 DEF Matched
<1>3. (\A t \in Thread : ~Storing(t, w)') /\ chart'[w] # None =>
        chart'[w].fam = chartFam'[w] /\ chart'[w].at = chartAt'[w]
  BY DEF Matched
<1> QED BY <1>1, <1>2, <1>3 DEF Matched

\* Nothing that matters to the charts changes.
LEMMA KeptUnchanged ==
  ASSUME Kept, UNCHANGED <<pc, win, at, fam, drawn, chart, chartAt, chartFam, clash>>
  PROVE  Kept'
<1>1. \A u \in Thread : Mine(u)' = Mine(u)
  BY DEF Mine
<1>2. \A u \in Thread, w \in Window : Storing(u, w)' <=> Storing(u, w)
  BY DEF Storing
<1>3. ASSUME NEW w \in Window \ clash PROVE Matched(w)'
  BY <1>1, <1>2, <1>3, MatchedKept DEF Kept
<1> QED BY <1>1, <1>3 DEF Kept

\* What other calls do changes nothing of what a call stores.
LEMMA KeptStep ==
  ASSUME IInv, NEW t \in Thread, Step(t)
  PROVE  Kept'
<1>0. /\ pc \in [Thread -> Steps] /\ win \in [Thread -> Window]
      /\ fam \in [Thread -> Family \cup {None}] /\ at \in [Thread -> Nat]
      /\ drawn \in [Thread -> Chart \cup {None}]
      /\ chart \in [Window -> Chart \cup {None}] /\ chartAt \in [Window -> Nat]
      /\ chartFam \in [Window -> Family \cup {None}] /\ win[t] \in Window
  BY DEF IInv, TypeOK
<1>1. CASE /\ UNCHANGED <<chart, chartAt, chartFam, clash, win>>
           /\ pc[t] \notin {"put chart", "put chart at", "put family"}
           /\ pc'[t] \notin {"put chart", "put chart at", "put family"}
           /\ \A u \in Thread : u # t =>
                pc'[u] = pc[u] /\ fam'[u] = fam[u] /\ at'[u] = at[u] /\ drawn'[u] = drawn[u]
  <2>1. \A u \in Thread : u # t => Mine(u)' = Mine(u)
    BY <1>1 DEF Mine
  <2>2. \A u \in Thread, w \in Window : Storing(u, w)' <=> Storing(u, w)
    BY <1>1 DEF Storing
  <2>3. \A w \in Window : ~Storing(t, w)
    BY <1>1 DEF Storing
  <2>4. ASSUME NEW w \in Window \ clash PROVE Matched(w)'
    BY <1>1, <2>1, <2>2, <2>3, <2>4, MatchedKept DEF IInv, Kept
  <2> QED BY <1>1, <2>1, <2>4 DEF IInv, Kept
<1>2. CASE Drew(t)
  <2>1. /\ UNCHANGED <<chart, chartAt, chartFam, clash, win, at, fam>>
        /\ pc[t] = "fetch" /\ pc' = [pc EXCEPT ![t] = "put chart"]
        /\ drawn' = [drawn EXCEPT ![t] = Mine(t)]
    BY <1>2 DEF Drew, Goes, Mine, caches
  <2>2. \A u \in Thread : Mine(u)' = Mine(u)
    BY <2>1 DEF Mine
  <2>3. \A u \in Thread, w \in Window : Storing(u, w)' <=> Storing(u, w)
    BY <1>0, <2>1 DEF Storing
  <2>4. \A u \in Thread, w \in Window : Storing(u, w) => pc'[u] = pc[u] /\ at'[u] = at[u]
    BY <1>0, <2>1 DEF Storing
  <2>5. ASSUME NEW w \in Window \ clash PROVE Matched(w)'
    BY <2>1, <2>2, <2>3, <2>4, <2>5, MatchedKept DEF IInv, Kept
  <2> QED BY <1>0, <2>1, <2>2, <2>5 DEF IInv, Kept
<1>3. CASE PutChart(t)
  <2>1. /\ UNCHANGED <<chartAt, chartFam, calls>>
        /\ pc[t] = "put chart" /\ pc' = [pc EXCEPT ![t] = "put chart at"]
        /\ chart' = [chart EXCEPT ![win[t]] = drawn[t]]
        /\ clash' = IF \E u \in Thread : Storing(u, win[t])
                      THEN clash \cup {win[t]} ELSE clash \ {win[t]}
    BY <1>3 DEF PutChart, Goes
  <2>2. \A u \in Thread : Mine(u)' = Mine(u)
    BY <2>1 DEF Mine, calls
  <2>3. /\ drawn[t] = Mine(t)
        /\ \A u \in Thread : drawn'[u] = drawn[u]
        /\ \A u \in Thread : pc'[u] \in {"put chart", "put chart at", "put family"} =>
             pc[u] \in {"put chart", "put chart at", "put family"}
    BY <1>0, <2>1 DEF IInv, Kept, calls
  <2>4. \A u \in Thread, w \in Window :
          Storing(u, w)' <=> Storing(u, w) \/ (u = t /\ w = win[t])
    BY <1>0, <2>1 DEF Storing, calls
  <2>5. ASSUME NEW w \in Window \ clash', w # win[t] PROVE Matched(w)'
    <3>1. Matched(w) /\ chart'[w] = chart[w]
          /\ \A u \in Thread : Storing(u, w)' <=> Storing(u, w)
      BY <1>0, <2>1, <2>4, <2>5 DEF IInv, Kept
    <3>2. \A u \in Thread : Storing(u, w) => u # t
      BY <2>1 DEF Storing
    <3> QED BY <1>0, <2>1, <2>2, <3>1, <3>2 DEF Matched, calls
  <2>6. ASSUME win[t] \notin clash' PROVE Matched(win[t])'
    <3>1. \A u \in Thread : ~Storing(u, win[t])
      BY <2>1, <2>6
    <3>2. \A u \in Thread : Storing(u, win[t])' <=> u = t
      <4>1. PICK w \in Window : w = win[t]
        BY <1>0
      <4>2. w = win'[t]
        BY <2>1, <4>1 DEF calls
      <4>3. \A u \in Thread : Storing(u, w)' <=> u = t
        BY <2>4, <3>1, <4>1
      <4> QED BY <4>2, <4>3
    <3>3. chart'[win[t]] = Mine(t) /\ pc'[t] = "put chart at" /\ win'[t] = win[t]
      BY <1>0, <2>1, <2>3 DEF calls
    <3> HIDE <1>0
    <3> DEFINE w == win[t]
    <3>4. /\ \A u \in Thread : Storing(u, w)' <=> u = t
          /\ chart'[w] = Mine(t)' /\ pc'[t] # "put family"
      BY <2>2, <3>2, <3>3
    <3>5. w' = w BY <3>3
    <3> HIDE DEF w
    <3>6. Matched(w)' BY <3>4, <3>5 DEF Matched
    <3> QED BY <3>5, <3>6 DEF w
  <2>7. \A u \in Thread : pc'[u] \in {"put chart", "put chart at", "put family"} =>
          drawn'[u] = Mine(u)'
    BY <2>2, <2>3 DEF IInv, Kept
  <2>8. \A w \in Window \ clash' : Matched(w)'
    BY <2>1, <2>5, <2>6 DEF calls
  <2> QED BY <2>7, <2>8 DEF Kept
<1>4. CASE PutChartAt(t) \/ PutFamily(t)
  <2>1. /\ UNCHANGED <<chart, clash, calls>>
        /\ pc[t] \in {"put chart at", "put family"}
        /\ \/ /\ pc[t] = "put chart at" /\ pc' = [pc EXCEPT ![t] = "put family"]
              /\ chartAt' = [chartAt EXCEPT ![win[t]] = at[t]] /\ chartFam' = chartFam
           \/ /\ pc[t] = "put family" /\ pc' = [pc EXCEPT ![t] = "store"]
              /\ chartFam' = [chartFam EXCEPT ![win[t]] = fam[t]] /\ chartAt' = chartAt
    BY <1>4 DEF PutChartAt, PutFamily, Goes
  <2>2. \A u \in Thread : Mine(u)' = Mine(u)
    BY <2>1 DEF Mine, calls
  <2>3. \A u \in Thread : pc'[u] \in {"put chart", "put chart at", "put family"} =>
          drawn'[u] = Mine(u)'
    BY <1>0, <2>1, <2>2 DEF IInv, Kept, calls
  <2>4. \A u \in Thread, w \in Window :
          Storing(u, w)' <=> Storing(u, w) /\ ~(u = t /\ pc[t] = "put family")
    BY <1>0, <2>1 DEF Storing, calls
  <2>5. ASSUME NEW w \in Window \ clash' PROVE Matched(w)'
    <3>1. Matched(w)
      BY <2>1, <2>5 DEF IInv, Kept
    <3>2. CASE w # win[t]
      <4>1. /\ chart'[w] = chart[w] /\ chartAt'[w] = chartAt[w] /\ chartFam'[w] = chartFam[w]
            /\ ~Storing(t, w)
        BY <1>0, <2>1, <3>2 DEF Storing
      <4>2. \A u \in Thread : u # t => pc'[u] = pc[u] /\ at'[u] = at[u]
        BY <1>0, <2>1 DEF calls
      <4>3. \A u \in Thread : Storing(u, w)' <=> Storing(u, w)
        BY <2>4, <4>1
      <4> QED BY <2>2, <3>1, <4>1, <4>2, <4>3 DEF Matched
    <3>3. CASE w = win[t]
      <4>1. Storing(t, w) /\ chart[w] = Mine(t) /\ chart'[w] = Mine(t)
        BY <1>0, <2>1, <3>1, <3>3 DEF Storing, Matched
      <4>2. \A u \in Thread : Storing(u, w) <=> u = t
        BY <3>1, <4>1 DEF Matched
      <4>3. CASE pc[t] = "put chart at"
        <5>1. pc'[t] = "put family" /\ chartAt'[w] = at[t] /\ at'[t] = at[t]
          BY <1>0, <2>1, <3>3, <4>3 DEF calls
        <5>2. \A u \in Thread : Storing(u, w)' <=> u = t
          BY <2>4, <4>2, <4>3
        <5> QED BY <2>2, <4>1, <5>1, <5>2 DEF Matched
      <4>4. CASE pc[t] = "put family"
        <5>1. /\ chartFam'[w] = fam[t] /\ chartAt'[w] = at[t]
          BY <1>0, <2>1, <3>1, <3>3, <4>1, <4>4 DEF Matched
        <5>2. \A u \in Thread : ~Storing(u, w)'
          BY <2>4, <4>2, <4>4
        <5>3. Mine(t).fam = fam[t] /\ Mine(t).at = at[t]
          BY DEF Mine
        <5> QED BY <4>1, <5>1, <5>2, <5>3 DEF Matched
      <4> QED BY <2>1, <4>3, <4>4
    <3> QED BY <3>2, <3>3
  <2> QED BY <2>3, <2>5 DEF Kept
<1>5. CASE \/ Look(t) \/ Serve(t) \/ Scrape(t) \/ RatesAnswered(t) \/ RatesFailed(t)
           \/ ReadChart(t) \/ CheckChart(t) \/ DrewNothing(t) \/ StoreDoc(t) \/ StoreAt(t)
  BY <1>0, <1>1, <1>5 DEF Look, Serve, Scrape, RatesAnswered, RatesFailed, ReadChart,
     CheckChart, DrewNothing, StoreDoc, StoreAt, Returns, Goes, caches, calls
<1> QED BY <1>2, <1>3, <1>4, <1>5 DEF Step

LEMMA NextInv == IInv /\ [Next]_vars => IInv'
<1> SUFFICES ASSUME IInv, [Next]_vars PROVE IInv'
  OBVIOUS
<1> USE Constant
<1>1. CASE \E t \in Thread : Step(t)
  BY <1>1, TypeStep, FiledStep, InTimeStep, KeptStep DEF IInv
<1>2. CASE \E t \in Thread, w \in Window : Ask(t, w)
  <2> PICK t \in Thread, w \in Window : Ask(t, w)
    BY <1>2
  <2> QED
    <3> USE DEF IInv, TypeOK, Steps, Ask, Goes, caches
    <3>1. TypeOK' OBVIOUS
    <3>2. Filed'  BY DEF Filed
    <3>3. InTime'
      <4>1. /\ pc[t] = "idle" /\ pc' = [pc EXCEPT ![t] = "look"]
            /\ win' = [win EXCEPT ![t] = w] /\ at' = [at EXCEPT ![t] = now]
            /\ UNCHANGED <<now, docs, cached, drawn>>
        OBVIOUS
      <4>2. cached[t] = None /\ drawn[t] = None
        BY <4>1 DEF InTime
      <4> HIDE DEF Ask, Goes, Steps
      <4>3. now \in Nat
        OBVIOUS
      <4>4. now <= now /\ now <= now + CallMax
        <5> HIDE DEF IInv
        <5> QED BY <4>3, Constant
      <4>5. /\ win \in [Thread -> Window] /\ at \in [Thread -> Nat]
            /\ pc \in [Thread -> Steps]
        OBVIOUS
      <4>6. InTime
        OBVIOUS
      <4> HIDE DEF IInv
      <4> HIDE Constant
      <4> QED BY <4>1, <4>2, <4>4, <4>5, <4>6 DEF InTime
    <3>4. Kept'
      <4>1. /\ pc[t] = "idle" /\ pc' = [pc EXCEPT ![t] = "look"]
            /\ win' = [win EXCEPT ![t] = w] /\ at' = [at EXCEPT ![t] = now]
            /\ UNCHANGED <<chart, chartAt, chartFam, fam, drawn, clash>>
        OBVIOUS
      <4>2. /\ win \in [Thread -> Window] /\ at \in [Thread -> Nat]
            /\ pc \in [Thread -> Steps]
        OBVIOUS
      <4>3. Kept
        OBVIOUS
      <4> HIDE DEF IInv, TypeOK, Steps, Ask, Goes, caches
      <4>4. \A u \in Thread, v \in Window : /\ Storing(u, v)' <=> Storing(u, v)
                                            /\ Storing(u, v) => u # t
        BY <4>1, <4>2 DEF Storing
      <4>5. \A u \in Thread : u # t => Mine(u)' = Mine(u) /\ pc'[u] = pc[u] /\ at'[u] = at[u]
        BY <4>1, <4>2 DEF Mine
      <4>6. ASSUME NEW v \in Window \ clash PROVE Matched(v)'
        BY <4>1, <4>3, <4>4, <4>5, <4>6, MatchedKept DEF Kept
      <4>7. \A u \in Thread : pc'[u] \in {"put chart", "put chart at", "put family"} =>
              u # t /\ drawn'[u] = Mine(u)'
        BY <4>1, <4>2, <4>3, <4>5 DEF Kept
      <4> QED BY <4>1, <4>6, <4>7 DEF Kept
    <3> QED BY <3>1, <3>2, <3>3, <3>4
<1>3. CASE Tick
  <2>1. /\ now' = now + 1 /\ UNCHANGED <<engine, docs, docAt, chart, chartAt, chartFam>>
        /\ UNCHANGED <<pc, win, at, fam, cached, drawn, clash>>
    BY <1>3 DEF Tick, caches, calls
  <2>2. \A t \in Thread : pc[t] # "idle" => now < at[t] + CallMax
    BY <1>3 DEF Tick
  <2>3. now \in Nat /\ at \in [Thread -> Nat] /\ docAt \in [Window -> Nat]
    BY DEF IInv, TypeOK
  <2>4. TypeOK'
    <3> HIDE Constant
    <3> QED BY <2>1 DEF IInv, TypeOK
  <2>5. Filed'
    <3>1. \A w \in Window : docAt[w] <= now'
      BY <2>1, <2>3 DEF IInv, Filed
    <3> QED BY <2>1, <3>1 DEF IInv, Filed
  <2>6. InTime'
    <3>1. \A t \in Thread : pc[t] # "idle" => at[t] <= now' /\ now' <= at[t] + CallMax
      <4> SUFFICES ASSUME NEW t \in Thread, pc[t] # "idle"
                   PROVE  at[t] <= now' /\ now' <= at[t] + CallMax
        OBVIOUS
      <4>1. at[t] \in Nat /\ at[t] <= now /\ now < at[t] + CallMax
        BY <2>2, <2>3 DEF IInv, InTime
      <4> QED BY <2>1, <2>3, <4>1, Constant
    <3> QED BY <2>1, <3>1 DEF IInv, InTime
  <2>7. Kept'
    BY <2>1, KeptUnchanged DEF IInv
  <2> QED BY <2>4, <2>5, <2>6, <2>7 DEF IInv
<1>4. CASE Swap
  <2>1. Kept' BY <1>4, KeptUnchanged DEF IInv, Swap, caches, calls
  <2> QED BY <1>4, <2>1 DEF IInv, TypeOK, Steps, Filed, InTime, Swap, caches, calls
<1>5. CASE UNCHANGED vars
  <2>1. Kept' BY <1>5, KeptUnchanged DEF IInv, vars, caches, calls
  <2> QED BY <1>5, <2>1 DEF IInv, TypeOK, Steps, Filed, InTime, vars, caches, calls
<1> QED BY <1>1, <1>2, <1>3, <1>4, <1>5 DEF Next

LEMMA Invariance == Spec => []IInv
BY InitInv, NextInv, PTL DEF Spec

\* The caches and the calls keep their types, for any threads and windows.
THEOREM PageTypeCorrect == Spec => []TypeOK
BY Invariance, PTL DEF IInv

\* A request is never answered from the cache with a document older than
\* CACHE_S and one call, or with one or a chart of another window.
THEOREM ServedAgeAlways == Spec => []ServedAge
<1>1. IInv => ServedAge
  <2> SUFFICES ASSUME IInv, NEW t \in Thread, pc[t] = "serve"
               PROVE  LET doc == docs[win[t]]
                      IN  /\ doc # None
                          /\ doc.win = win[t]
                          /\ at[t] - doc.at < CACHE_S + CallMax
                          /\ doc.chart \in {win[t], None}
    BY DEF ServedAge
  <2>1. win[t] \in Window /\ at[t] \in Nat
    BY DEF IInv, TypeOK
  <2>2. docs[win[t]] # None /\ at[t] < docs[win[t]].at + CACHE_S + CallMax
    BY DEF IInv, InTime
  <2>3. docs[win[t]].win = win[t] /\ docs[win[t]].chart \in {win[t], None}
    BY <2>1, <2>2 DEF IInv, Filed
  <2>4. docs[win[t]].at \in Nat
    BY <2>1, <2>2 DEF IInv, TypeOK, Doc
  <2> QED BY LivePageAssumption, <2>1, <2>2, <2>3, <2>4
<1> QED BY <1>1, Invariance, PTL

\* engine_metrics.py:527-543: where calls do not store the same window's chart at
\* once, an engine swap is not answered from the memo with a chart of the engine
\* before it, nor with one older than SERIES_CACHE_S.
THEOREM MemoAlwaysOfThisEngine == Spec => MemoOfThisEngine
<1>1. ASSUME IInv, [Next]_vars, NEW t \in Thread,
             pc[t] = "check chart", pc'[t] = "store",
             cached[t] = chart[win[t]], win[t] \notin clash,
             \A u \in Thread : ~Storing(u, win[t])
      PROVE  cached[t].fam = fam[t] /\ at[t] - cached[t].at < SERIES_CACHE_S
  <2>1. win[t] \in Window /\ pc \in [Thread -> Steps]
    BY <1>1 DEF IInv, TypeOK
  <2>2. CheckChart(t) /\ ChartFresh(t)
    <3>1. ASSUME NEW u \in Thread, Step(u) PROVE CheckChart(t)
      BY <1>1, <2>1, <3>1 DEF Step, Look, Serve, Scrape, RatesAnswered, RatesFailed, ReadChart,
         Drew, DrewNothing, PutChart, PutChartAt, PutFamily, StoreDoc, StoreAt, Returns, Goes,
         CheckChart
    <3>2. ASSUME NEW u \in Thread, NEW w \in Window, Ask(u, w) PROVE CheckChart(t)
      BY <1>1, <2>1, <3>2 DEF Ask, Goes
    <3>3. CASE Tick \/ Swap \/ UNCHANGED vars
      BY <1>1, <3>3 DEF Tick, Swap, vars
    <3>4. CheckChart(t)
      BY <1>1, <3>1, <3>2, <3>3 DEF Next
    <3> QED BY <1>1, <2>1, <3>4 DEF CheckChart, Goes
  <2>3. chart[win[t]] # None /\ chartFam[win[t]] = fam[t]
        /\ at[t] - chartAt[win[t]] < SERIES_CACHE_S
    BY <1>1, <2>2 DEF ChartFresh
  <2>4. chart[win[t]].fam = chartFam[win[t]] /\ chart[win[t]].at = chartAt[win[t]]
    BY <1>1, <2>1, <2>3 DEF IInv, Kept, Matched
  <2> QED BY <1>1, <2>3, <2>4
<1>2. IInv /\ [Next]_vars =>
        [\A t \in Thread :
           LET w == win[t]
           IN  /\ pc[t] = "check chart" /\ pc'[t] = "store"
               /\ cached[t] = chart[w] /\ w \notin clash
               /\ \A u \in Thread : ~Storing(u, w)
               => cached[t].fam = fam[t] /\ at[t] - cached[t].at < SERIES_CACHE_S]_vars
  BY <1>1
<1> QED BY <1>2, Invariance, PTL DEF Spec, MemoOfThisEngine
=============================================================================
