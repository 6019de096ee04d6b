------------------------------- MODULE History -------------------------------
(***************************************************************************)
(* history_collector.py: the index of what was measured.  A run directory  *)
(* is [id, invalid, model, quant, time, summary, rows]: summary is None    *)
(* without a summary.json, else a function from evaluation families to     *)
(* [correct, graded, accuracy]; rows is the rows file.  A row's elapsed    *)
(* time is under one of three names, and only the writer knows which:      *)
(* row.time is a function from the names it uses to numbers.               *)
(***************************************************************************)
EXTENDS Throughput

ELAPSED_KEYS_one == <<"elapsed_s">>
ELAPSED_KEYS == <<"elapsed_s", "elapsed_seconds", "elapsed">>

\* The first of the names that carries a time, `preferred` before them all.
elapsed(row, preferred) ==
  LET keys == (IF preferred = None THEN <<>> ELSE <<preferred>>) \o ELAPSED_KEYS
      hits == {i \in DOMAIN keys : Get(row.time, keys[i]) \notin {None, 0}}
  IN  IF hits = {} THEN None ELSE row.time[keys[Min(hits)]]

\* rates(): None when no row has both tokens and a time.  tokens sums every
\* row that has some.
rates(rows, preferred) ==
  LET good == Filter(rows, LAMBDA r : Positive(r.tokens) /\ elapsed(r, preferred) # None)
  IN  IF good = <<>> THEN None
      ELSE [n      |-> Len(good),
            mean   |-> MeanRate([i \in DOMAIN good |->
                                   <<good[i].tokens, elapsed(good[i], preferred)>>]),
            tokens |-> Total(rows, "tokens")]

\* The groups of rows by a field, and the rates of those that have any.
grouped(rows, field, preferred) ==
  LET groups == {rows[i][field] : i \in DOMAIN rows} \ {None}
      of(g)  == rates(Filter(rows, LAMBDA r : r[field] = g), preferred)
  IN  [g \in {g \in groups : of(g) # None} |-> of(g)]

by_family(rows) == grouped(rows, "family", None)

\* collect_run, reduced to what the index below is built from.
collect_run(dir) ==
  [run_id      |-> dir.id,
   model       |-> dir.model,
   quant       |-> dir.quant,
   timestamp   |-> dir.time,
   quarantined |-> dir.invalid,
   families    |-> dir.summary,
   per_eval    |-> by_family(read_rows(dir.rows))]

\* closed_summary_families: verdicts kept in a file of their own replace the
\* summary's.  A family graded in full counts its complete grades, else all n.
closed_families(closed) ==
  [f \in {f \in DOMAIN closed : closed[f] # None} |->
     [correct  |-> closed[f].correct,
      graded   |-> OrElse(closed[f].complete, closed[f].n),
      accuracy |-> closed[f].accuracy]]

merge_closed(run, closed) ==
  IF closed = None THEN run
  ELSE [run EXCEPT !.families = Merged(@, closed_families(closed))]

(***************************************************************************)
(* group_eval_types: each family's results, best first.                    *)
(***************************************************************************)
\* The sort key compares: scored before unscored, then accuracy, then speed,
\* both descending.
ahead_speed_only(p, q) == Slower(q.mean, p.mean)

ahead(p, q) ==
  LET acc(x) == OrElse(x.accuracy, 0)
  IN  \/ p.accuracy # None /\ q.accuracy = None
      \/ /\ (p.accuracy = None) <=> (q.accuracy = None)
         /\ \/ acc(p) > acc(q)
            \/ acc(p) = acc(q) /\ Slower(q.mean, p.mean)

quants(runs, fam) ==
  LET with  == Filter(runs, LAMBDA r : fam \in DOMAIN r.per_eval)
      entry(r) == [run_id   |-> r.run_id,
                   accuracy |-> IF fam \in DOMAIN r.families
                                THEN r.families[fam].accuracy ELSE None,
                   n        |-> r.per_eval[fam].n,
                   mean     |-> r.per_eval[fam].mean]
  IN  Sorted([i \in DOMAIN with |-> entry(with[i])], ahead)

group_eval_types(runs) ==
  [fam \in UNION {DOMAIN runs[i].per_eval : i \in DOMAIN runs} |->
     LET qs     == quants(runs, fam)
         scored == Filter(qs, LAMBDA q : q.accuracy # None)
     IN  [quants |-> qs, best |-> IF scored = <<>> THEN None ELSE scored[1]]]

(***************************************************************************)
(* The soak, and the document.                                             *)
(***************************************************************************)
\* load_shapes: rates per request shape, and per concurrency within one;
\* "WARNING" when there are shapes and nothing could be computed.
load_shapes(file) ==
  LET rows   == read_rows(file)
      shapes == grouped(rows, "shape", "elapsed")
      shaped == \E i \in DOMAIN rows : rows[i].shape # None
      of(s)  == Filter(rows, LAMBDA r : r.shape = s)
  IN  IF DOMAIN shapes = {} /\ shaped THEN "WARNING"
      ELSE [s \in DOMAIN shapes |->
              [all |-> shapes[s], by_conc |-> grouped(of(s), "concurrency", "elapsed")]]

\* The soak's phases as the runner recorded them.
soak_block_recorded(state, rows, now) ==
  IF state = None THEN None
  ELSE Filter(state.phases, LAMBDA p : p.result # None)

\* soak_block: the phases that have a result, corrected as the page does it.
soak_block(state, rows, now) ==
  IF state = None THEN None
  ELSE Filter(overlay(state, rows, now).phases, LAMBDA p : p.result # None)

\* The runs that are compared; the quarantined ones are kept apart.
index_valid(runs) == Filter(runs, LAMBDA r : ~r.quarantined)

newer(p, q) == OrElse(p.timestamp, 0) > OrElse(q.timestamp, 0)

\* main(): directories without a summary are no runs; newest first.  rows is
\* the soak's requests.jsonl.
history_doc(dirs, state, rows, now) ==
  LET runs  == [i \in DOMAIN dirs |-> merge_closed(collect_run(dirs[i]), dirs[i].closed)]
      done  == Filter([i \in DOMAIN dirs |-> i], LAMBDA i : dirs[i].summary # None)
      all   == [i \in DOMAIN done |-> runs[done[i]]]
      valid == Sorted(index_valid(all), newer)
  IN  [runs        |-> valid,
       quarantined |-> Filter(all, LAMBDA r : r.quarantined),
       eval_types  |-> group_eval_types(valid),
       load_shapes |-> load_shapes(rows),
       soak        |-> soak_block(state, rows, now)]
=============================================================================
