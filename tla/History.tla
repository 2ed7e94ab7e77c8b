-------------------------------- MODULE History -------------------------------
(***************************************************************************)
(* What saved runs are used for: merging them onto one axis (cli.py,       *)
(* merge_runs; model.py, rebased and relabelled), estimating tests from    *)
(* them (schedule.py, Estimates.from_run) and comparing two of them        *)
(* (compare.py, compare_runs).  Runs are loaded one after the other and    *)
(* may have been merged before.                                            *)
(*                                                                         *)
(* Names are sequences, joined by "/"; "#n" is an element of its own.      *)
(* Medians are doubled.  A set-up takes a second.  Of the metrics compared *)
(* there is the duration, and memory as one that may be missing.           *)
(***************************************************************************)
EXTENDS Integers, Sequences, FiniteSetsExt, Functions, SequencesExt

CONSTANTS
  Paths,     \* names of files without their suffix, as sequences
  Runs,      \* bound: the runs recorded
  Baseline,  \* keys of session and package fixtures
  Limit,     \* the budget compared with: seconds
  MaxRuns    \* bound: runs loaded

VARIABLES
  loaded,    \* sequence of [path, run]
  merged     \* the first two of them were merged into one file

history == <<loaded, merged>>

Most(a, b) == IF a >= b THEN a ELSE b
Numbers(s, value(_)) == SortSeq([i \in DOMAIN s |-> value(s[i])], <)
Median(q) == q[(Len(q) + 1) \div 2] + q[Len(q) \div 2 + 1]
Ids(run)  == {s.worker : s \in ToSet(run.spans)} \union {w.id : w \in ToSet(run.workers)}

-----------------------------------------------------------------------------
(* merge_runs                                                              *)
Numbered(name, n) == Append(name, "#" \o ToString(n))
Uniquify(name, used) ==
  IF name \notin used THEN name
  ELSE Numbered(name, CHOOSE n \in 2 .. Cardinality(used) + 1 :
         /\ Numbered(name, n) \notin used
         /\ \A m \in 2 .. n - 1 : Numbered(name, m) \in used)

AllNamed(names) ==
  FoldLeft(LAMBDA done, n : Append(done, Uniquify(n, ToSet(done))), <<>>, names)

UniqueNames(paths) ==
  LET stems == [i \in DOMAIN paths |-> <<Last(paths[i])>>]
  IN  IF Cardinality(ToSet(stems)) = Len(stems) THEN stems ELSE AllNamed(paths)

(* The ids of a run, in the order of its workers and then of its spans.    *)
WorkerIds(run) ==
  FoldLeft(LAMBDA done, w : IF w \in ToSet(done) THEN done ELSE Append(done, w), <<>>,
           [i \in DOMAIN run.workers |-> run.workers[i].id]
             \o [i \in DOMAIN run.spans |-> run.spans[i].worker])

Labels(runs, names) ==        \* for each run: id -> label
  LET ids(k)  == WorkerIds(runs[k])
      collide == Cardinality(UNION {ToSet(ids(k)) : k \in DOMAIN runs})
                   < FoldLeft(LAMBDA n, r : n + Len(WorkerIds(r)), 0, runs)
      wanted  == FlattenSeq([k \in DOMAIN runs |->
                   [i \in DOMAIN ids(k) |-> IF collide THEN names[k] \o ids(k)[i] ELSE ids(k)[i]]])
      given   == AllNamed(wanted)
      Before(k) == FoldLeft(LAMBDA n, r : n + Len(WorkerIds(r)), 0, SubSeq(runs, 1, k - 1))
  IN  [k \in DOMAIN runs |-> [id \in ToSet(ids(k)) |->
         given[Before(k) + CHOOSE i \in DOMAIN ids(k) : ids(k)[i] = id]]]

Shift(run, base)     == run.start - base

KeptIds(label, id) == id                         \* mutant: lanes of one name are one
Relabel(label, id) == label[id]

Placed(run, base, label) ==
  LET by == Shift(run, base)
  IN  [run EXCEPT
         !.start = base,
         !.workers = [i \in DOMAIN run.workers |->
           [id |-> Relabel(label, @[i].id), ready |-> @[i].ready + by]],
         !.spans = [i \in DOMAIN run.spans |->
           [@[i] EXCEPT !.start = @ + by, !.stop = @ + by, !.worker = Relabel(label, @)]]]

Complete(run) == run.termination \in {"finished", "collect_only"}

MergedTermination(runs) ==
  LET seen == {runs[k].termination : k \in DOMAIN runs}
  IN  CASE \A k \in DOMAIN runs : Complete(runs[k]) -> "finished"
        [] "internal_error" \in seen -> "internal_error"
        [] "aborted" \in seen -> "aborted"
        [] "interrupted" \in seen -> "interrupted"
        [] OTHER -> "unknown"

Merge(runs, names) ==
  LET base   == Min({runs[k].start : k \in DOMAIN runs})
      labels == Labels(runs, names)
      placed == [k \in DOMAIN runs |-> Placed(runs[k], base, labels[k])]
  IN  [start |-> base, stop |-> Max({runs[k].stop : k \in DOMAIN runs}),
       termination |-> MergedTermination(runs),
       workers |-> FlattenSeq([k \in DOMAIN runs |-> placed[k].workers]),
       spans |-> FlattenSeq([k \in DOMAIN runs |-> placed[k].spans])]

-----------------------------------------------------------------------------
(* Estimates.from_run                                                      *)
Successful(s) == s.outcome \in {"passed", "xpassed"}
Bad(s)        == s.outcome \in {"failed", "error", "crashed", "rerun"}

WarmUps(spans) ==
  {k \in DOMAIN spans : \A j \in DOMAIN spans : spans[j].worker = spans[k].worker =>
     spans[k].start < spans[j].start \/ (spans[k].start = spans[j].start /\ k <= j)}

Own(s)  == s.stop - s.start - Cardinality(s.paid) - s.wait
Rank(s) == (IF s.contended THEN 2 ELSE 0) + (IF Bad(s) THEN 1 ELSE 0)

Durations(spans) ==
  LET timed(n) == SelectSeq(spans, LAMBDA s : s.name = n /\ s.outcome # "crashed" /\ Own(s) > 0)
      best(n)  == LET rank == Min({Rank(s) : s \in ToSet(timed(n))})
                  IN  SelectSeq(timed(n), LAMBDA s : Rank(s) = rank)
  IN  [n \in {m \in {s.name : s \in ToSet(spans)} : timed(m) # <<>>} |->
         Median(Numbers(best(n), Own))]

Measured(s) == s.peak > 0
Rise(s)     == Most(0, s.peak - s.base)
Need(s)     == IF s.paid # {} THEN Most(0, s.peak - s.after) ELSE Rise(s)
Share(s)    == Most(0, s.after - s.base) \div Cardinality(s.paid)

(* The largest of the clean attempts, or of the warm-ups if there is none. *)
Worst(keys, attempts(_), warm, value(_)) ==
  [n \in {m \in keys : attempts(m) # {}} |->
     LET clean == attempts(n) \ warm
     IN  Max({value(k) : k \in IF clean = {} THEN attempts(n) ELSE clean})]

Memory(spans) ==
  Worst({s.name : s \in ToSet(spans)},
        LAMBDA n : {k \in DOMAIN spans : spans[k].name = n /\ Measured(spans[k])},
        WarmUps(spans), LAMBDA k : Need(spans[k]))

Retained(spans) ==
  Worst(UNION {s.paid : s \in ToSet(spans)} \ Baseline,
        LAMBDA f : {k \in DOMAIN spans : /\ f \in spans[k].paid /\ Measured(spans[k])
                                         /\ spans[k].after > spans[k].base},
        WarmUps(spans), LAMBDA k : Share(spans[k]))

Families(spans) ==
  [n \in {s.name : s \in ToSet(spans)} |->
     UNION {s.uses \union s.paid : s \in {r \in ToSet(spans) : r.name = n}}]

Estimates(run) ==
  [durations |-> Durations(run.spans), memory |-> Memory(run.spans),
   retained |-> Retained(run.spans), families |-> Families(run.spans)]

-----------------------------------------------------------------------------
(* compare_runs, with a budget on each metric                              *)
Final(spans, n) ==
  LET of == SelectSeq(spans, LAMBDA s : s.name = n)
      Later(s, r) == s.attempt > r.attempt \/ (s.attempt = r.attempt /\ s.stop > r.stop)
      kept == {k \in DOMAIN of : \A j \in DOMAIN of :
                 of[j].worker = of[k].worker /\ of[j].occurrence = of[k].occurrence =>
                   ~Later(of[j], of[k]) /\ (Later(of[k], of[j]) \/ k <= j)}
  IN  FoldLeft(LAMBDA s, k : IF k \in kept THEN Append(s, of[k]) ELSE s, <<>>,
               [k \in DOMAIN of |-> k])

Missing == -1
SomeSeen(seen) == \E i \in DOMAIN seen : Measured(seen[i])   \* mutant: a part will do
AllSeen(seen)  == \A i \in DOMAIN seen : Measured(seen[i])

Row(run, n) ==
  LET seen == Final(run.spans, n)
      measured == SelectSeq(seen, Measured)
  IN  [duration   |-> Median(Numbers(seen, LAMBDA s : s.stop - s.start)),
       memory     |-> IF AllSeen(seen) THEN Median(Numbers(measured, Rise)) ELSE Missing,
       count      |-> Len(seen),
       successful |-> \A i \in DOMAIN seen : Successful(seen[i])]

TestsOf(run) == {s.name : s \in ToSet(run.spans)}

Compare(before, after) ==
  LET common == TestsOf(before) \intersect TestsOf(after)
      a(n) == Row(before, n)
      b(n) == Row(after, n)
      known(n, m) == a(n)[m] # Missing /\ b(n)[m] # Missing /\ a(n).successful /\ b(n).successful
      over(n, m) == known(n, m) /\ b(n)[m] > a(n)[m] + 2 * Limit
  IN  IF \/ ~Complete(before) \/ ~Complete(after) \/ common = {}
         \/ \E n \in common, m \in {"duration", "memory"} : ~known(n, m)
      THEN 2
      ELSE IF \E n \in common, m \in {"duration", "memory"} : over(n, m) THEN 1 ELSE 0

-----------------------------------------------------------------------------
Files    == [i \in DOMAIN loaded |-> loaded[i].run]
Names    == UniqueNames([i \in DOMAIN loaded |-> loaded[i].path])
Together == Merge(Files, Names)

Load(path, run) ==
  /\ Len(loaded) + (IF merged THEN 1 ELSE 0) < MaxRuns
  /\ loaded' = Append(loaded, [path |-> path, run |-> run])
  /\ UNCHANGED merged

(* pytest-timing merge writes a run that can be loaded like any other.     *)
MergeTwo(path) ==
  /\ Len(loaded) = 2 /\ ~merged
  /\ loaded' = <<[path |-> path, run |-> Together]>>
  /\ merged' = TRUE

Init == loaded = <<>> /\ merged = FALSE
Next == \E path \in Paths : MergeTwo(path) \/ \E run \in Runs : Load(path, run)

-----------------------------------------------------------------------------
(* "every input worker stays a distinct lane" (merge_runs), whatever the   *)
(* files and the lanes in them are called, merged before or not.           *)
LanesStayApart ==
  LET labels == Labels(Files, Names)
      lanes  == UNION {{<<k, id>> : id \in Ids(Files[k])} : k \in DOMAIN loaded}
  IN  Cardinality({labels[x[1]][x[2]] : x \in lanes}) = Cardinality(lanes)

(* Every event keeps its time of day, and the merged run ends no sooner    *)
(* than the last of its inputs ("durations and the gaps between events are *)
(* preserved exactly", Run.rebased).                                       *)
EventsKeepTheirTime ==
  loaded # <<>> =>
    LET Times(run) == [i \in DOMAIN run.spans |->
          [start |-> run.start + run.spans[i].start, stop |-> run.start + run.spans[i].stop]]
        all == Together
    IN  /\ Times(all) = FlattenSeq([k \in DOMAIN loaded |-> Times(Files[k])])
        /\ \A i \in DOMAIN all.spans : all.start + all.spans[i].stop <= all.stop

(* "a history merged from many runs stays comparable to a single run"      *)
(* (Estimates.from_run): the same run merged with itself estimates every   *)
(* test as it did alone, and a merge taken in two stages as one taken at   *)
(* once.                                                                   *)
Twice(run) == Merge(<<run, run>>, <<<<"p">>, <<"q">>>>)
MergingKeepsEstimates ==
  /\ Len(loaded) = 1 => Estimates(Twice(Files[1])) = Estimates(Files[1])
  /\ Len(loaded) = 3 =>
       LET two  == Merge(SubSeq(Files, 1, 2), SubSeq(Names, 1, 2))
           all  == Merge(<<two, Files[3]>>, <<<<"p">>, <<"q">>>>)
           once == Together
       IN  Estimates(all) = Estimates(once) /\ all.termination = once.termination

(* Compared with itself, or with itself merged twice, no run has become    *)
(* worse: a lane seen twice is two observations and not one (_tests).      *)
NoWorseThanItself ==
  Len(loaded) = 1 =>
    LET run   == Files[1]
        twice == Twice(run)
    IN  /\ Compare(run, twice) # 1 /\ Compare(twice, run) # 1
        /\ \A n \in TestsOf(run) : Row(twice, n).count = 2 * Row(run, n).count

(* A budget is passed on full evidence only: both runs are complete and    *)
(* every test of both was measured, and passed, the last time it was run,  *)
(* on every worker ("Partial coverage must not silently change the         *)
(* population being compared", _tests).                                    *)
PassedOnEvidence ==
  Len(loaded) = 2 /\ Compare(Files[1], Files[2]) = 0 =>
    LET common == TestsOf(Files[1]) \intersect TestsOf(Files[2])
        Superseded(s, run) == \E r \in ToSet(run.spans) :
          /\ r.name = s.name /\ r.worker = s.worker /\ r.occurrence = s.occurrence
          /\ r.attempt > s.attempt
    IN  /\ Complete(Files[1]) /\ Complete(Files[2]) /\ common # {}
        /\ \A k \in 1 .. 2 : \A s \in ToSet(Files[k].spans) :
             s.name \in common /\ ~Superseded(s, Files[k]) => Successful(s) /\ Measured(s)
==============================================================================
