------------------------------ MODULE Downloads ------------------------------
(***************************************************************************)
(* console_core.py: how much a download is, how much of it has landed, and *)
(* whether it may start.  The hub cache holds one tree per repository: its *)
(* entries are directories, blobs, and links of a revision to a blob, some *)
(* dangling.  A size estimate is a number of GB or None; while a download  *)
(* is measured it is in hundredths, as the hub's size is rounded to them.  *)
(***************************************************************************)
EXTENDS Readings

CONSTANTS
  DISK_FLOOR_GB, MAX_DOWNLOAD_GB,   \* the floor kept free, the cap per download
  MaxRevs,                          \* revisions hf_plan asks the size of
  Unit                              \* bytes of a hundredth of a GB

ASSUME DownloadsAssumption ==
  /\ DISK_FLOOR_GB \in Nat /\ MAX_DOWNLOAD_GB \in Nat
  /\ MaxRevs \in Nat \ {0}

dir_gb_links(tree, size) ==
  LET total == SumFunction([e \in {e \in tree : e.blob # None} |-> Get(size, e.blob)])
  IN  IF Round(total, 10 * Unit) = 0 THEN None ELSE Round(total, 10 * Unit)

\* The size of a tree in tenths of a GB, each blob once however many names it
\* has; None, never 0, when nothing could be measured.  A tree is a set of
\* entries [path, blob], blob None on a directory and on a dangling link.
dir_gb(tree, size) ==
  LET seen  == {e.blob : e \in tree} \ {None}
      total == SumFunction([b \in seen |-> Get(size, b)])
  IN  IF Round(total, 10 * Unit) = 0 THEN None ELSE Round(total, 10 * Unit)

\* Tenths of a GB as whole percents of the expected size, which is in
\* hundredths; None while either is unknown.
download_progress(tree, size, expected) ==
  LET gb == dir_gb(tree, size)
  IN  IF gb = None \/ expected \in {None, 0} THEN None
      ELSE Round(1000 * gb, expected)

\* The gate, at the post and again when the job runs.
download_allowed(gb, free) ==
  IF gb = None THEN FALSE
  ELSE gb <= MAX_DOWNLOAD_GB /\ gb + DISK_FLOOR_GB <= free

\* Branches, then tags, each name once; an item without one is no revision.
hf_revisions(branches, tags) ==
  LET names == Filter(branches \o tags, LAMBDA n : n # None)
      first(i) == ~\E j \in 1 .. i - 1 : names[j] = names[i]
      kept  == Filter([i \in DOMAIN names |-> i], first)
  IN  [i \in DOMAIN kept |-> names[kept[i]]]

\* What judging the repository by its biggest revision would be.
judged_biggest(gbs) == IF gbs = {} THEN 0 ELSE Max(gbs)

\* min((s["gb"] for s in sizes), default=0.0)
judged(gbs) == IF gbs = {} THEN 0 ELSE Min(gbs)

\* hf_plan: gb gives the size the hub reports for a revision, None when the
\* question fails.  Every size listed carries its own verdict.
hf_plan(revs, gb, free) ==
  LET asked == SubSeq(revs, 1, Min({Len(revs), MaxRevs}))
      sizes == {r \in ToSet(asked) : gb[r] # None /\ gb[r] > 0}
      of    == judged({gb[r] : r \in sizes})
  IN  [revisions |-> revs,
       sizes     |-> [r \in sizes |-> [gb |-> gb[r], fits |-> download_allowed(gb[r], free)]],
       fits      |-> of # 0 /\ download_allowed(of, free)]
=============================================================================
