------------------------------- MODULE Recording -------------------------------
(***************************************************************************)
(* What becomes of one worker's tests in the recorded run: the reports it  *)
(* sends until it is done, dies or the session is interrupted, and the     *)
(* spans the collector builds of them (pytest_timing/collector.py, fed by  *)
(* the hooks of plugin.py).  Items may share a node id, and an attempt may *)
(* be retried: then its last report says "rerun" and no teardown is        *)
(* reported.  A report takes one unit of time.  The controller takes what  *)
(* was sent before it learns of a death, so nothing is lost in between.    *)
(***************************************************************************)
EXTENDS Integers, Sequences, FiniteSets

CONSTANTS
  NodeId,      \* item -> its node id, a sequence
  MaxReruns,   \* bound: retries of one item
  MaxWaits     \* bound: executions that wait at a gate

VARIABLES
  runs,        \* what the worker has begun: [item, attempt], in order
  left,        \* what the running attempt has still to report
  retry,       \* is the last attempt to be run again
  failed,      \* the runs a failure was reported of
  worker,      \* "up", "died", "down" (the controller knows), or "idle" at the end
  clock,
  waits,       \* AdmissionWait: <<item, attempt>> (scheduler.waits)
  book,        \* the Collector
  session      \* "running" or "over"

recording == <<runs, left, retry, failed, worker, clock, waits, book, session>>

Items      == DOMAIN NodeId
Names      == {NodeId[i] : i \in Items}
Executions == Items \X (0 .. MaxReruns)
Later(a, b)  == IF a >= b THEN a ELSE b
Sooner(a, b) == IF a <= b THEN a ELSE b

(* How an attempt may go, as its reports say; "done" is xdist's own        *)
(* message that the item is complete.                                      *)
Said(when, outcome) == [when |-> when, outcome |-> outcome]
Done == Said("done", "passed")
Final == {
  <<Said("setup", "passed"), Said("call", "passed"), Said("teardown", "passed"), Done>>,
  <<Said("setup", "passed"), Said("call", "failed"), Said("teardown", "skipped"), Done>>,
  <<Said("setup", "failed"), Said("teardown", "passed"), Done>>}
Retried == {
  <<Said("setup", "rerun")>>,
  <<Said("setup", "passed"), Said("call", "rerun")>>}

-----------------------------------------------------------------------------
(* The collector.                                                          *)

(* _close *)
Close(c, k) ==
  [c EXCEPT !.open[c.spans[k].name] = 0, !.lastStop = Later(@, c.spans[k].stop)]

(* _new_span: a retry continues an occurrence, anything else begins one.   *)
Numbered(previous) ==
  IF previous.outcome = "rerun"
  THEN [occurrence |-> previous.occurrence, attempt |-> previous.attempt + 1]
  ELSE [occurrence |-> previous.occurrence + 1, attempt |-> 0]

NewSpan(c, item, start, stop) ==
  LET name   == NodeId[item]
      number == IF c.last[name] = 0 THEN [occurrence |-> 0, attempt |-> 0]
                ELSE Numbered(c.spans[c.last[name]])
      k      == Len(c.spans) + 1
  IN  [c EXCEPT !.open[name] = k, !.last[name] = k,
       !.spans = Append(@,
         [name |-> name, item |-> item, occurrence |-> number.occurrence,
          attempt |-> number.attempt, outcome |-> "passed", start |-> start,
          stop |-> stop, phases |-> {}, from |-> {}, waits |-> {}])]

(* _apply_outcome *)
LastWord(outcome, r) ==    \* mutant: a later skip hides a failure
  CASE outcome \in {"crashed", "rerun"} -> outcome
    [] r.outcome = "passed" -> outcome
    [] OTHER -> r.outcome
Outcome(outcome, r) ==
  CASE outcome \in {"crashed", "rerun"} -> outcome
    [] r.outcome = "rerun" -> "rerun"
    [] r.outcome = "failed" -> IF r.when = "call" THEN "failed" ELSE "error"
    [] r.outcome = "skipped" /\ outcome = "passed" -> "skipped"
    [] OTHER -> outcome

(* What a report changes of its span; `n` is the run it comes from.        *)
Told(span, r, n, start) ==
  [span EXCEPT !.phases = @ \union {r.when}, !.start = Sooner(@, start),
               !.stop = Later(@, start + 1), !.outcome = Outcome(@, r), !.from = @ \union {n}]

(* add_report *)
AddReport(c, r, n, start) ==
  LET name  == NodeId[runs[n].item]
      fresh == r.when = "setup" \/ c.open[name] = 0
      shut  == IF fresh /\ c.open[name] # 0 THEN Close(c, c.open[name]) ELSE c
      c1    == IF fresh THEN NewSpan(shut, runs[n].item, start, start + 1) ELSE shut
      k     == c1.open[name]
      c2    == [c1 EXCEPT !.executions[<<runs[n].item, runs[n].attempt>>] = k,
                          !.spans[k] = Told(c1.spans[k], r, n, start)]
  IN  IF r.when = "teardown" THEN Close(c2, k) ELSE c2

(* How a span ends whose worker is gone.                                   *)
Crashed(span, now) == [span EXCEPT !.stop = Later(@, now), !.outcome = "crashed"]

(* worker_down: what is open will never get its teardown. *)
Down(c, now) ==
  LET shut == {c.open[name] : name \in Names} \ {0}
      spans == [k \in DOMAIN c.spans |->
                  IF k \in shut THEN Crashed(c.spans[k], now) ELSE c.spans[k]]
  IN  [c EXCEPT !.spans = spans, !.open = [name \in Names |-> 0],
                !.lastStop = IF shut = {} THEN @ ELSE Later(@, now)]

(* _crash: the report xdist makes up for the item it takes to have crashed.*)
BeganAt(c) == c.lastStop
AlreadyDown(c, last) == last # 0 /\ c.spans[last].outcome = "crashed"
Crash(c, item, now) ==
  LET name == NodeId[item]
      last == c.last[name]
      c1 == IF c.open[name] = 0 THEN NewSpan(c, item, BeganAt(c), BeganAt(c)) ELSE c
      k  == c1.open[name]
  IN  IF c.open[name] = 0 /\ AlreadyDown(c, last)
      THEN [c EXCEPT !.spans[last].stop = Later(@, now)]
      ELSE Close([c1 EXCEPT !.spans[k] = Crashed(@, now)], k)

(* add_wait *)
OnTheLast(c, w) == c.last[NodeId[w[1]]]  \* mutant: not by its execution
SpanOf(c, w) ==
  LET last == c.last[NodeId[w[1]]]
  IN  IF c.executions[w] # 0 THEN c.executions[w]
      ELSE IF /\ last # 0 /\ c.spans[last].outcome = "crashed"
              /\ c.spans[last].phases = {} /\ c.spans[last].attempt = w[2]
           THEN last ELSE 0

(* pytest_sessionfinish: _record_cpu, then Collector.finish. *)
Finish(c, complete, now) ==
  [c EXCEPT
     !.open = [name \in Names |-> 0],
     !.spans = [k \in DOMAIN c.spans |->
       LET s == [c.spans[k] EXCEPT !.waits = {w \in waits : SpanOf(c, w) = k}]
       IN  IF complete \/ c.open[s.name] # k THEN s
           ELSE [s EXCEPT !.stop = Later(@, now),
                          !.outcome = IF "teardown" \in s.phases THEN @ ELSE "crashed"]]]

-----------------------------------------------------------------------------
Running == Len(runs)
Up      == worker = "up" /\ session = "running"

(* Items whose completion the scheduler has seen: all before the last run, *)
(* and the last when its "done" is out.                                    *)
Foremost ==
  IF runs = <<>> THEN 1
  ELSE IF left = <<>> /\ ~retry THEN runs[Running].item + 1
  ELSE runs[Running].item

(* _admitted: the head of the queue had to wait for its start.             *)
Wait ==
  /\ Up /\ left = <<>> /\ ~retry /\ Foremost \in Items
  /\ <<Foremost, 0>> \notin waits /\ Cardinality(waits) < MaxWaits
  /\ waits' = waits \union {<<Foremost, 0>>}
  /\ UNCHANGED <<runs, left, retry, failed, worker, clock, book, session>>

(* _admitted: the running attempt waited for a fixture it asked for.       *)
WaitInside ==
  /\ Up /\ left \notin {<<>>, <<Done>>} /\ Cardinality(waits) < MaxWaits
  /\ waits' = waits \union {<<runs[Running].item, runs[Running].attempt>>}
  /\ waits' # waits
  /\ UNCHANGED <<runs, left, retry, failed, worker, clock, book, session>>

(* pytest_runtest_setup of the next item, or of the same one again.        *)
Begin ==
  /\ Up /\ left = <<>> /\ Foremost \in Items
  /\ LET attempt == IF retry THEN runs[Running].attempt + 1 ELSE 0
     IN  /\ runs' = Append(runs, [item |-> Foremost, attempt |-> attempt])
         /\ \E said \in Final \union (IF attempt < MaxReruns THEN Retried ELSE {}) :
              left' = said
  /\ retry' = FALSE
  /\ UNCHANGED <<failed, worker, clock, waits, book, session>>

(* pytest_runtest_logreport *)
Report ==
  /\ Up /\ left # <<>>
  /\ LET r == left[1]
     IN  /\ IF r.when = "done" THEN UNCHANGED <<clock, book>>
            ELSE /\ clock' = clock + 1
                 /\ book' = AddReport(book, r, Running, clock)
         /\ retry' = (r.outcome = "rerun")
         /\ failed' = IF r.outcome \in {"failed", "rerun"} THEN failed \union {Running} ELSE failed
  /\ left' = Tail(left)
  /\ UNCHANGED <<runs, worker, waits, session>>

WorkerDies ==
  /\ Up
  /\ worker' = "died"
  /\ clock' = clock + 1
  /\ UNCHANGED <<runs, left, retry, failed, waits, book, session>>

(* worker_errordown: pytest_testnodedown, then the report of the item the  *)
(* scheduler had at the head of the worker's queue.                        *)
ErrorDown ==
  /\ worker = "died" /\ session = "running"
  /\ worker' = "down"
  /\ LET c == Down(book, clock)
     IN  book' = IF Foremost \in Items THEN Crash(c, Foremost, clock) ELSE c
  /\ UNCHANGED <<runs, left, retry, failed, clock, waits, session>>

(* pytest_sessionfinish, of a run that came to its end or was interrupted. *)
SessionFinish(complete) ==
  /\ session = "running"
  /\ complete => worker = "down" \/ (left = <<>> /\ Foremost \notin Items)
  /\ session' = "over"
  /\ book' = Finish(book, complete, clock)
  /\ UNCHANGED <<runs, left, retry, failed, worker, clock, waits>>

RecordingInit ==
  /\ runs = <<>> /\ left = <<>> /\ retry = FALSE /\ failed = {} /\ worker = "up" /\ clock = 1
  /\ waits = {} /\ session = "running"
  /\ book = [spans |-> <<>>, open |-> [name \in Names |-> 0],
               last |-> [name \in Names |-> 0], lastStop |-> 1,
               executions |-> [e \in Executions |-> 0]]

RecordingNext ==
  \/ Wait \/ WaitInside \/ Begin \/ Report \/ WorkerDies \/ ErrorDown
  \/ \E complete \in BOOLEAN : SessionFinish(complete)

RecordingSpec == RecordingInit /\ [][RecordingNext]_recording

-----------------------------------------------------------------------------
Spans == {book.spans[k] : k \in DOMAIN book.spans}

(* Executions are told apart and numbered as they were run, however node   *)
(* ids repeat, attempts are retried and the worker dies (_new_span): no    *)
(* span mixes two, none is in two, and occurrence and attempt are the true *)
(* ones.                                                                   *)
NumberedAsRun ==
  /\ \A k, j \in DOMAIN book.spans :
       k # j => book.spans[k].from \intersect book.spans[j].from = {}
  /\ \A s \in Spans : \A n \in s.from :
       /\ s.from = {n}
       /\ s.attempt = runs[n].attempt
       /\ s.occurrence =
            Cardinality({i \in 1 .. runs[n].item - 1 : NodeId[i] = s.name})

(* A failure that was reported is not hidden by what is reported after it  *)
(* (_apply_outcome): a run with a failed phase is never shown as passed or *)
(* skipped.                                                                *)
FailureShown ==
  \A s \in Spans :
    s.from \intersect failed # {} => s.outcome \notin {"passed", "skipped"}

(* A lane does one thing at a time (collector.py:220, the crash's start):  *)
(* its spans follow each other.                                            *)
LaneInOrder ==
  \A k, j \in DOMAIN book.spans :
    k < j => book.spans[k].stop <= book.spans[j].start

(* A test that was running when its worker died is shown as crashed, one   *)
(* way or the other (_crash, worker_down).                                 *)
CrashShown ==
  worker = "down" /\ Foremost \in Items =>
    \E s \in Spans : s.name = NodeId[Foremost] /\ s.outcome = "crashed"

(* A delay is put on the execution that waited, or on none; on one that    *)
(* has sent a report it is never missing (add_wait).                       *)
WaitsOnTheirOwn ==
  session = "over" =>
    /\ \A s \in Spans : s.waits \subseteq {<<s.item, s.attempt>>}
    /\ \A s \in Spans : s.from # {} =>
         waits \intersect {<<s.item, s.attempt>>} \subseteq s.waits

(* The recorded spans are the worker's executions, one each: in the order  *)
(* they were run, and with the delays that were theirs.                    *)
SpansAreExecutions == NumberedAsRun /\ LaneInOrder /\ WaitsOnTheirOwn

(* What went wrong is seen in the record: a reported failure is not hidden *)
(* by a later report, and a worker's death leaves a crash.                 *)
BadEndsShown == FailureShown /\ CrashShown
==============================================================================
