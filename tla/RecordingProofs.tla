---------------------------- MODULE RecordingProofs ----------------------------
(***************************************************************************)
(* What the collector keeps of a worker's tests is right for every list of *)
(* items, however node ids repeat, attempts are retried and the worker     *)
(* dies.  Until the death is known the spans are the worker's runs, in     *)
(* order: the k-th span is of the k-th run (Matched).  The rest follows    *)
(* the books the collector keeps about them: which span is open, which was *)
(* the last of its node id, and where the lane stands (Kept).              *)
(***************************************************************************)
EXTENDS Recording, FiniteSetTheorems, TLAPS

(* What the proofs assume: the items are a sequence of node ids.           *)
Sound(S) == NodeId \in Seq(S) /\ MaxReruns \in Nat

Outcomes == {"passed", "skipped", "failed", "error", "rerun", "crashed"}
Phases   == {"setup", "call", "teardown"}

SpanRecords ==
  [name : Names, item : Items, occurrence : Nat, attempt : Nat, outcome : Outcomes,
   start : Nat, stop : Nat, phases : SUBSET Phases, from : SUBSET Nat,
   waits : SUBSET Executions]

Books ==
  [spans : Seq(SpanRecords), open : [Names -> Nat], last : [Names -> Nat], lastStop : Nat,
   executions : [Executions -> Nat]]

Reports ==
  [when : Phases \union {"done"}, outcome : {"passed", "skipped", "failed", "rerun"}]

(* What may be left of an attempt once its set-up was reported.            *)
Begun == {
  <<>>, <<Done>>, <<Said("teardown", "passed"), Done>>, <<Said("teardown", "skipped"), Done>>,
  <<Said("call", "passed"), Said("teardown", "passed"), Done>>,
  <<Said("call", "failed"), Said("teardown", "skipped"), Done>>,
  <<Said("call", "rerun")>>}

Whole == Final \union Retried

(* An attempt that will be run again, if its worker lives.                 *)
ToRetry == Retried \union {<<Said("call", "rerun")>>}

(* How an attempt's reports go on.                                         *)
LEMMA Leaves ==
  ASSUME NEW s \in Whole \union Begun, s # <<>>
  PROVE  /\ s[1] \in Reports /\ Tail(s) \in Begun
         /\ s \in Whole <=> s[1].when = "setup"
         /\ s = <<Done>> <=> s[1].when = "done"
         /\ s[1].when = "teardown" => Tail(s) = <<Done>>
         /\ s[1].outcome = "rerun" => Tail(s) = <<>> /\ s \in ToRetry
         /\ Tail(s) = <<>> <=> s[1].when = "done" \/ s[1].outcome = "rerun"
         /\ Tail(s) \in ToRetry => s \in ToRetry
         /\ Tail(s) = <<Done>> => s[1].when = "teardown" /\ s[1].outcome # "rerun"
<1> USE DEF Whole, Begun, Final, Retried, ToRetry, Done, Said, Reports, Phases
<1>1. CASE s = <<Said("setup", "passed"), Said("call", "passed"), Said("teardown", "passed"), Done>>
  BY <1>1
<1>2. CASE s = <<Said("setup", "passed"), Said("call", "failed"), Said("teardown", "skipped"),
                 Done>>
  BY <1>2
<1>3. CASE s = <<Said("setup", "failed"), Said("teardown", "passed"), Done>>
  BY <1>3
<1>4. CASE s = <<Said("setup", "rerun")>>
  BY <1>4
<1>5. CASE s = <<Said("setup", "passed"), Said("call", "rerun")>>
  BY <1>5
<1>6. CASE s = <<Done>>
  BY <1>6
<1>7. CASE s = <<Said("teardown", "passed"), Done>>
  BY <1>7
<1>8. CASE s = <<Said("teardown", "skipped"), Done>>
  BY <1>8
<1>9. CASE s = <<Said("call", "passed"), Said("teardown", "passed"), Done>>
  BY <1>9
<1>10. CASE s = <<Said("call", "failed"), Said("teardown", "skipped"), Done>>
  BY <1>10
<1>11. CASE s = <<Said("call", "rerun")>>
  BY <1>11
<1> QED
  BY <1>1, <1>2, <1>3, <1>4, <1>5, <1>6, <1>7, <1>8, <1>9, <1>10, <1>11

-----------------------------------------------------------------------------
(* The books.                                                              *)

(* What the fields of a book hold.                                         *)
LEMMA Fields ==
  ASSUME NEW c \in Books
  PROVE  /\ c.spans \in Seq(SpanRecords) /\ c.open \in [Names -> Nat]
         /\ c.last \in [Names -> Nat] /\ c.lastStop \in Nat
         /\ c.executions \in [Executions -> Nat]
         /\ Len(c.spans) \in Nat /\ DOMAIN c.spans = 1 .. Len(c.spans)
         /\ \A k \in DOMAIN c.spans : c.spans[k] \in SpanRecords
BY DEF Books

(* Books whose fields are changed stay books.                              *)
LEMMA ShutBook ==
  ASSUME NEW c \in Books, NEW name \in Names, NEW now \in Nat
  PROVE  [c EXCEPT !.open[name] = 0, !.lastStop = now] \in Books
BY DEF Books

(* A book stays one when a span is added.                                  *)
LEMMA WiderBook ==
  ASSUME NEW c \in Books, NEW name \in Names, NEW k \in Nat, NEW spans \in Seq(SpanRecords)
  PROVE  [c EXCEPT !.open[name] = k, !.last[name] = k, !.spans = spans] \in Books
BY DEF Books

(* What _close makes of a book.                                            *)
IsClosed(d, c, k) ==
  /\ d \in Books
  /\ d.spans = c.spans /\ d.open = [c.open EXCEPT ![c.spans[k].name] = 0]
  /\ d.last = c.last /\ d.lastStop = Later(c.lastStop, c.spans[k].stop)
  /\ d.executions = c.executions

(* _close shuts the span and moves the lane to its end.                    *)
LEMMA Closed ==
  ASSUME NEW c \in Books, NEW k \in DOMAIN c.spans
  PROVE  IsClosed(Close(c, k), c, k)
<1> DEFINE d    == Close(c, k)
           name == c.spans[k].name
           now  == Later(c.lastStop, c.spans[k].stop)
<1>1. name \in Names /\ now \in Nat
  BY Fields DEF SpanRecords, Later
<1>2. d = [c EXCEPT !.open[name] = 0, !.lastStop = now]
  BY Fields DEF Close
<1> HIDE DEF d, name, now
<1>3. d \in Books
  <2>1. [c EXCEPT !.open[name] = 0, !.lastStop = now] \in Books
    BY <1>1, ShutBook
  <2> QED
    BY <1>2, <2>1
<1>4. d.open = [c.open EXCEPT ![name] = 0]
  BY <1>1, <1>2 DEF Books
<1>5. d.spans = c.spans /\ d.last = c.last /\ d.executions = c.executions
  BY <1>2 DEF Books
<1>6. d.lastStop = now
  BY <1>2 DEF Books
<1> QED
  BY <1>3, <1>4, <1>5, <1>6 DEF IsClosed, d, name, now

(* The span _new_span begins: its number is the successor of the last      *)
(* span's of the node id, if there is one.                                 *)
Number(c, name) ==
  IF c.last[name] = 0 THEN [occurrence |-> 0, attempt |-> 0]
  ELSE Numbered(c.spans[c.last[name]])

Fresh(c, item, start, stop) ==
  [name |-> NodeId[item], item |-> item,
   occurrence |-> Number(c, NodeId[item]).occurrence,
   attempt |-> Number(c, NodeId[item]).attempt, outcome |-> "passed", start |-> start,
   stop |-> stop, phases |-> {}, from |-> {}, waits |-> {}]

(* The last span of each node id is known.                                 *)
LastKnown(c) ==
  \A name \in Names :
    /\ c.last[name] \in 0 .. Len(c.spans)
    /\ c.last[name] # 0 => c.spans[c.last[name]].name = name
    /\ \A k \in DOMAIN c.spans : c.spans[k].name = name => k <= c.last[name]

(* The span _new_span begins is one.                                       *)
LEMMA FreshTyped ==
  ASSUME NEW c \in Books, LastKnown(c), NEW item \in Items, NEW start \in Nat, NEW stop \in Nat
  PROVE  Fresh(c, item, start, stop) \in SpanRecords
<1> DEFINE name == NodeId[item]
<1>1. name \in Names
  BY DEF Names
<1>2. Number(c, name).occurrence \in Nat /\ Number(c, name).attempt \in Nat
  <2>1. CASE c.last[name] = 0
    BY <2>1 DEF Number
  <2>2. CASE c.last[name] # 0
    <3>1. c.last[name] \in DOMAIN c.spans
      BY <1>1, <2>2, Fields DEF LastKnown
    <3>2. /\ c.spans[c.last[name]].occurrence \in Nat /\ c.spans[c.last[name]].attempt \in Nat
      BY <3>1, Fields DEF SpanRecords
    <3> QED
      BY <2>2, <3>2 DEF Number, Numbered
  <2> QED
    BY <2>1, <2>2
<1> HIDE DEF name
<1> QED
  BY <1>1, <1>2 DEF Fresh, SpanRecords, Outcomes, name

(* What _new_span makes of a book.                                         *)
IsOpened(d, c, name, span) ==
  /\ d \in Books
  /\ d.spans = Append(c.spans, span)
  /\ d.open = [c.open EXCEPT ![name] = Len(c.spans) + 1]
  /\ d.last = [c.last EXCEPT ![name] = Len(c.spans) + 1]
  /\ d.lastStop = c.lastStop /\ d.executions = c.executions

(* _new_span appends its span, open and the last of its node id.           *)
LEMMA Opened ==
  ASSUME NEW c \in Books, LastKnown(c), NEW item \in Items, NEW start \in Nat, NEW stop \in Nat
  PROVE  IsOpened(NewSpan(c, item, start, stop), c, NodeId[item], Fresh(c, item, start, stop))
<1> DEFINE d == NewSpan(c, item, start, stop)
           name == NodeId[item]
           span == Fresh(c, item, start, stop)
           k == Len(c.spans) + 1
           spans == Append(c.spans, span)
<1>1. d = [c EXCEPT !.open[name] = k, !.last[name] = k, !.spans = spans]
  BY DEF NewSpan, Fresh, Number
<1>2. name \in Names /\ span \in SpanRecords /\ k \in Nat
  BY FreshTyped, Fields DEF Names
<1> HIDE DEF d, name, span, k
<1>3. spans \in Seq(SpanRecords)
  BY <1>2, Fields
<1> HIDE DEF spans
<1>5. d \in Books
  <2>1. [c EXCEPT !.open[name] = k, !.last[name] = k, !.spans = spans] \in Books
    BY <1>2, <1>3, WiderBook
  <2> QED
    BY <1>1, <2>1
<1>6. d.spans = spans
  BY <1>1 DEF Books
<1>7. d.open = [c.open EXCEPT ![name] = k]
  BY <1>2, <1>1 DEF Books
<1>8. d.last = [c.last EXCEPT ![name] = k]
  BY <1>2, <1>1 DEF Books
<1>9. d.lastStop = c.lastStop /\ d.executions = c.executions
  BY <1>1 DEF Books
<1> QED
  BY <1>5, <1>6, <1>7, <1>8, <1>9 DEF IsOpened, d, name, span, k, spans

-----------------------------------------------------------------------------
(* A report, field by field.                                               *)

(* _apply_outcome gives an outcome.                                        *)
LEMMA OutcomeTyped ==
  ASSUME NEW o \in Outcomes, NEW r \in Reports
  PROVE  Outcome(o, r) \in Outcomes
BY DEF Outcome, Outcomes, Reports

(* What a report makes of its span.                                        *)
IsTold(d, span, r, n, start) ==
  /\ d \in SpanRecords
  /\ d.name = span.name /\ d.item = span.item /\ d.occurrence = span.occurrence
  /\ d.attempt = span.attempt /\ d.waits = span.waits
  /\ d.phases = span.phases \union {r.when} /\ d.start = Sooner(span.start, start)
  /\ d.stop = Later(span.stop, start + 1) /\ d.outcome = Outcome(span.outcome, r)
  /\ d.from = span.from \union {n}

(* A report changes nothing of its span but what IsTold says.              *)
LEMMA ToldFields ==
  ASSUME NEW span \in SpanRecords, NEW r \in Reports, r.when \in Phases, NEW n \in Nat,
         NEW start \in Nat
  PROVE  IsTold(Told(span, r, n, start), span, r, n, start)
<1> DEFINE d == Told(span, r, n, start)
           phases == span.phases \union {r.when}
           begin == Sooner(span.start, start)
           stop == Later(span.stop, start + 1)
           outcome == Outcome(span.outcome, r)
           from == span.from \union {n}
<1>1. /\ phases \in SUBSET Phases /\ begin \in Nat /\ stop \in Nat /\ from \in SUBSET Nat
      /\ span.outcome \in Outcomes
  BY DEF SpanRecords, Sooner, Later
<1>2. outcome \in Outcomes
  BY <1>1, OutcomeTyped
<1>3. d = [span EXCEPT !.phases = phases, !.start = begin, !.stop = stop,
                       !.outcome = outcome, !.from = from]
  BY DEF Told, SpanRecords
<1> HIDE DEF d, phases, begin, stop, outcome, from
<1>4. d \in SpanRecords
  BY <1>1, <1>2, <1>3 DEF SpanRecords
<1>5. /\ d.name = span.name /\ d.item = span.item /\ d.occurrence = span.occurrence
      /\ d.attempt = span.attempt /\ d.waits = span.waits
      /\ d.phases = phases /\ d.start = begin /\ d.stop = stop /\ d.outcome = outcome
      /\ d.from = from
  BY <1>1, <1>2, <1>3 DEF SpanRecords
<1> QED
  BY <1>4, <1>5 DEF IsTold, d, phases, begin, stop, outcome, from

(* The books with one span and one execution changed.                      *)
IsNoted(d, c, e, k, span) ==
  /\ d \in Books
  /\ d.executions = [c.executions EXCEPT ![e] = k]
  /\ d.open = c.open /\ d.last = c.last /\ d.lastStop = c.lastStop
  /\ Len(d.spans) = Len(c.spans) /\ d.spans[k] = span
  /\ \A j \in DOMAIN c.spans \ {k} : d.spans[j] = c.spans[j]

(* The book with the span and its execution changed is a book.             *)
LEMMA Noted ==
  ASSUME NEW c \in Books, NEW k \in DOMAIN c.spans, NEW e \in Executions,
         NEW span \in SpanRecords
  PROVE  IsNoted([c EXCEPT !.executions[e] = k, !.spans[k] = span], c, e, k, span)
<1> DEFINE d == [c EXCEPT !.executions[e] = k, !.spans[k] = span]
<1>1. k \in Nat /\ c.spans \in Seq(SpanRecords)
  BY Fields
<1>2. [c.spans EXCEPT ![k] = span] \in Seq(SpanRecords)
  BY <1>1
<1>3. d.executions = [c.executions EXCEPT ![e] = k]
  BY DEF Books
<1>4. d.open = c.open /\ d.last = c.last /\ d.lastStop = c.lastStop
  BY DEF Books
<1>5. d.spans = [c.spans EXCEPT ![k] = span]
  BY DEF Books
<1>6. d \in Books
  BY <1>1, <1>2 DEF Books
<1> HIDE DEF d
<1>7. /\ Len(d.spans) = Len(c.spans) /\ d.spans[k] = span
      /\ \A j \in DOMAIN c.spans \ {k} : d.spans[j] = c.spans[j]
  BY <1>1, <1>5
<1>8. IsNoted(d, c, e, k, span)
  BY <1>3, <1>4, <1>6, <1>7 DEF IsNoted
<1> QED
  BY <1>8 DEF d

(* Only the last span may be open, under its node id.                      *)
OpenIsLast(c) ==
  \A name \in Names :
    /\ c.open[name] \in {0, Len(c.spans)}
    /\ c.open[name] # 0 => c.spans[c.open[name]].name = name

(* A set-up is reported: a span of its own, whatever was open.             *)
IsFirst(d, c, name, e, span) ==
  /\ d \in Books
  /\ d.executions = [c.executions EXCEPT ![e] = Len(c.spans) + 1]
  /\ d.open = [c.open EXCEPT ![name] = Len(c.spans) + 1]
  /\ d.last = [c.last EXCEPT ![name] = Len(c.spans) + 1]
  /\ d.lastStop = IF c.open[name] = 0 THEN c.lastStop
                  ELSE Later(c.lastStop, c.spans[c.open[name]].stop)
  /\ Len(d.spans) = Len(c.spans) + 1
  /\ \A j \in DOMAIN c.spans : d.spans[j] = c.spans[j]
  /\ d.spans[Len(c.spans) + 1] = span

(* add_report, of a set-up.                                                *)
LEMMA FirstReport ==
  ASSUME NEW c \in Books, LastKnown(c), OpenIsLast(c), NEW n \in Nat,
         runs[n].item \in Items, <<runs[n].item, runs[n].attempt>> \in Executions,
         NEW r \in Reports, r.when = "setup", NEW start \in Nat
  PROVE  IsFirst(AddReport(c, r, n, start), c, NodeId[runs[n].item],
                 <<runs[n].item, runs[n].attempt>>,
                 Told(Fresh(c, runs[n].item, start, start + 1), r, n, start))
<1> DEFINE d == AddReport(c, r, n, start)
           item == runs[n].item
           name == NodeId[item]
           e == <<runs[n].item, runs[n].attempt>>
           stop == start + 1
           shut == IF c.open[name] # 0 THEN Close(c, c.open[name]) ELSE c
           c1 == NewSpan(shut, item, start, stop)
           span == Fresh(c, item, start, stop)
           told == Told(span, r, n, start)
           k == c1.open[name]
<1>1. /\ name \in Names /\ Len(c.spans) \in Nat /\ stop \in Nat /\ item \in Items
      /\ e \in Executions
  BY Fields DEF Names
<1>2. d = [c1 EXCEPT !.executions[e] = k, !.spans[k] = Told(c1.spans[k], r, n, start)]
  BY DEF AddReport
<1> HIDE DEF d, item, name, stop, e, c1
<1>3. /\ shut \in Books /\ shut.spans = c.spans /\ shut.last = c.last
      /\ shut.executions = c.executions
      /\ shut.open = [c.open EXCEPT ![name] = 0]
      /\ shut.lastStop = IF c.open[name] = 0 THEN c.lastStop
                         ELSE Later(c.lastStop, c.spans[c.open[name]].stop)
  <2>1. CASE c.open[name] = 0
    <3>1. c.open = [c.open EXCEPT ![name] = 0]
      BY <1>1, <2>1, Fields
    <3> QED
      BY <2>1, <3>1
  <2>2. CASE c.open[name] # 0
    <3>1. /\ c.open[name] \in DOMAIN c.spans /\ c.spans[c.open[name]].name = name
      BY <1>1, <2>2, Fields DEF OpenIsLast
    <3>2. IsClosed(shut, c, c.open[name])
      BY <2>2, <3>1, Closed
    <3> QED
      BY <2>2, <3>1, <3>2 DEF IsClosed
  <2> QED
    BY <2>1, <2>2
<1> HIDE DEF shut
<1>4. LastKnown(shut) /\ Fresh(shut, item, start, stop) = span
  BY <1>3 DEF LastKnown, Fresh, Number
<1>5. IsOpened(c1, shut, name, span)
  <2>1. IsOpened(NewSpan(shut, item, start, stop), shut, NodeId[item],
                 Fresh(shut, item, start, stop))
    BY <1>1, <1>3, <1>4, Opened
  <2> QED
    BY <1>4, <2>1 DEF c1, name
<1>6. /\ c1 \in Books /\ c1.spans = Append(c.spans, span)
      /\ c1.last = [c.last EXCEPT ![name] = Len(c.spans) + 1]
      /\ c1.lastStop = shut.lastStop /\ c1.executions = c.executions
  BY <1>3, <1>5 DEF IsOpened
<1>7. c1.open = [c.open EXCEPT ![name] = Len(c.spans) + 1]
  BY <1>1, <1>3, <1>5, Fields DEF IsOpened
<1>8. k = Len(c.spans) + 1
  BY <1>1, <1>7, Fields
<1>9. span \in SpanRecords
  BY <1>1, FreshTyped
<1> HIDE DEF span, k
<1>10. /\ k \in DOMAIN c1.spans /\ Len(c1.spans) = Len(c.spans) + 1 /\ c1.spans[k] = span
       /\ \A j \in DOMAIN c.spans : c1.spans[j] = c.spans[j] /\ j \in DOMAIN c1.spans \ {k}
  BY <1>1, <1>6, <1>8, <1>9, Fields
<1>11. told \in SpanRecords
  BY <1>9, ToldFields DEF IsTold, Phases
<1>12. d = [c1 EXCEPT !.executions[e] = k, !.spans[k] = told]
  BY <1>2, <1>10
<1> HIDE DEF told
<1>13. IsNoted(d, c1, e, k, told)
  <2>1. IsNoted([c1 EXCEPT !.executions[e] = k, !.spans[k] = told], c1, e, k, told)
    BY <1>1, <1>6, <1>10, <1>11, Noted
  <2> QED
    BY <1>12, <2>1
<1>14. IsFirst(d, c, name, e, told)
  BY <1>3, <1>6, <1>7, <1>8, <1>10, <1>13 DEF IsNoted, IsFirst
<1> QED
  BY <1>14 DEF d, name, item, e, told, span, stop

(* A call or a teardown is reported: the open span goes on, or ends.       *)
IsLater(d, c, name, e, k, r, span) ==
  /\ d \in Books
  /\ d.executions = [c.executions EXCEPT ![e] = k]
  /\ d.open = IF r.when = "teardown" THEN [c.open EXCEPT ![name] = 0] ELSE c.open
  /\ d.last = c.last
  /\ d.lastStop = IF r.when = "teardown" THEN Later(c.lastStop, span.stop) ELSE c.lastStop
  /\ Len(d.spans) = Len(c.spans)
  /\ \A j \in DOMAIN c.spans \ {k} : d.spans[j] = c.spans[j]
  /\ d.spans[k] = span

(* Spans are counted from 1.                                               *)
LEMMA SpanAt ==
  ASSUME NEW c \in Books, NEW k \in DOMAIN c.spans
  PROVE  k \in Nat /\ k # 0 /\ c.spans[k] \in SpanRecords
<1>1. /\ DOMAIN c.spans = 1 .. Len(c.spans) /\ Len(c.spans) \in Nat
      /\ \A j \in DOMAIN c.spans : c.spans[j] \in SpanRecords
  BY Fields
<1> QED
  BY <1>1

(* What the book becomes when the open span goes on.                       *)
Continuing(c, r, n, start, k) ==
  LET c2 == [c EXCEPT !.executions[<<runs[n].item, runs[n].attempt>>] = k,
                      !.spans[k] = Told(c.spans[k], r, n, start)]
  IN  IF r.when = "teardown" THEN Close(c2, k) ELSE c2

(* A report that is not of a set-up goes to the span that is open.         *)
LEMMA Continued ==
  ASSUME NEW c, NEW r, NEW n, NEW start, NEW k,
         k = c.open[NodeId[runs[n].item]], k # 0, r.when # "setup"
  PROVE  AddReport(c, r, n, start) = Continuing(c, r, n, start, k)
<1> DEFINE open == c.open[NodeId[runs[n].item]]
           fresh == r.when = "setup" \/ open = 0
           shut == IF fresh /\ open # 0 THEN Close(c, open) ELSE c
           c1 == IF fresh THEN NewSpan(shut, runs[n].item, start, start + 1) ELSE shut
           made(d, j) == [d EXCEPT !.executions[<<runs[n].item, runs[n].attempt>>] = j,
                                   !.spans[j] = Told(d.spans[j], r, n, start)]
           ended(d, j) == IF r.when = "teardown" THEN Close(made(d, j), j) ELSE made(d, j)
<1>1. AddReport(c, r, n, start) = ended(c1, c1.open[NodeId[runs[n].item]])
  BY DEF AddReport
<1>2. c1 = c
  OBVIOUS
<1> HIDE DEF c1, ended
<1>3. AddReport(c, r, n, start) = ended(c, k)
  BY <1>1, <1>2
<1> QED
  BY <1>3 DEF ended, Continuing

(* add_report, of a call or a teardown.                                    *)
LEMMA LaterReport ==
  ASSUME NEW c \in Books, NEW n \in Nat,
         <<runs[n].item, runs[n].attempt>> \in Executions,
         NEW name, name = NodeId[runs[n].item],
         NEW k, k = c.open[name], k \in DOMAIN c.spans, c.spans[k].name = name,
         NEW r \in Reports, r.when \in {"call", "teardown"}, NEW start \in Nat
  PROVE  IsLater(AddReport(c, r, n, start), c, name,
                 <<runs[n].item, runs[n].attempt>>, k, r, Told(c.spans[k], r, n, start))
<1> DEFINE d == AddReport(c, r, n, start)
           e == <<runs[n].item, runs[n].attempt>>
           told == Told(c.spans[k], r, n, start)
           c2 == [c EXCEPT !.executions[e] = k, !.spans[k] = told]
<1>0. k # 0 /\ c.spans[k] \in SpanRecords
  BY SpanAt
<1>1. d = IF r.when = "teardown" THEN Close(c2, k) ELSE c2
  <2>1. r.when # "setup" /\ k = c.open[NodeId[runs[n].item]]
    OBVIOUS
  <2>2. d = Continuing(c, r, n, start, k)
    BY <1>0, <2>1, Continued
  <2> QED
    BY <2>2 DEF Continuing
<1>2. told \in SpanRecords /\ told.name = name
  <2>1. IsTold(told, c.spans[k], r, n, start)
    BY <1>0, ToldFields DEF Phases
  <2> QED
    BY <2>1 DEF IsTold
<1> HIDE DEF told, e
<1>3. IsNoted(c2, c, e, k, told)
  BY <1>2, Noted DEF e
<1> HIDE DEF c2, d
<1>4. k \in DOMAIN c2.spans /\ c2.spans[k] = told /\ c2 \in Books
  <2>1. c2 \in Books /\ Len(c2.spans) = Len(c.spans) /\ c2.spans[k] = told
    BY <1>3 DEF IsNoted
  <2>2. DOMAIN c2.spans = 1 .. Len(c2.spans) /\ DOMAIN c.spans = 1 .. Len(c.spans)
    BY <2>1, Fields
  <2> QED
    BY <2>1, <2>2
<1>5. CASE r.when = "teardown"
  <2>1. IsClosed(d, c2, k)
    BY <1>1, <1>4, <1>5, Closed
  <2>2. IsLater(d, c, name, e, k, r, told)
    BY <1>2, <1>3, <1>5, <2>1 DEF IsNoted, IsClosed, IsLater
  <2> QED
    BY <2>2 DEF d, e, told
<1>6. CASE r.when # "teardown"
  <2>1. IsLater(d, c, name, e, k, r, told)
    BY <1>1, <1>3, <1>6 DEF IsNoted, IsLater
  <2> QED
    BY <2>1 DEF d, e, told
<1> QED
  BY <1>5, <1>6

-----------------------------------------------------------------------------
(* The invariant.                                                          *)

Executed == [item : Items, attempt : 0 .. MaxReruns]

RecordingTyped ==
  /\ runs \in Seq(Executed) /\ left \in Whole \union Begun /\ retry \in BOOLEAN
  /\ worker \in {"up", "died", "down"} /\ clock \in Nat /\ waits \in SUBSET Executions
  /\ book \in Books /\ session \in {"running", "over"}

(* Runs follow the items, each run again until it is not retried.          *)
Ordered ==
  /\ \A n \in DOMAIN runs : \A m \in 1 .. n - 1 :
       \/ runs[m].item < runs[n].item
       \/ runs[m].item = runs[n].item /\ runs[m].attempt < runs[n].attempt
  /\ \A n \in DOMAIN runs : \A i \in 1 .. runs[n].item - 1 :
       \E m \in 1 .. n - 1 : runs[m].item = i
  /\ \A n \in DOMAIN runs : runs[n].attempt # 0 =>
       /\ n > 1 /\ runs[n - 1].item = runs[n].item
       /\ runs[n - 1].attempt = runs[n].attempt - 1
  /\ left # <<>> => runs # <<>>
  /\ retry => left = <<>> /\ runs # <<>>
  /\ retry \/ left \in ToRetry => runs[Running].attempt < MaxReruns

(* The runs that have sent a report.                                       *)
Known == IF left \in Whole THEN Running - 1 ELSE Running

(* The items before i that have its node id.                               *)
Earlier(i) == {j \in 1 .. i - 1 : NodeId[j] = NodeId[i]}

IsRun(span, k) ==
  /\ span.item = runs[k].item /\ span.name = NodeId[runs[k].item]
  /\ span.attempt = runs[k].attempt /\ span.occurrence = Cardinality(Earlier(runs[k].item))
  /\ span.from = {k} /\ span.phases # {}

(* Once the worker is known to be down there may be one more, for the item *)
(* it is taken to have crashed in.                                         *)
IsCrash(span) ==
  /\ span.item = Foremost /\ span.name = NodeId[Foremost]
  /\ span.from = {} /\ span.phases = {} /\ span.outcome = "crashed"

Matched ==
  /\ Len(book.spans) \in {Known, Known + 1}
  /\ worker # "down" => Len(book.spans) = Known
  /\ \A k \in 1 .. Known : IsRun(book.spans[k], k)
  /\ Len(book.spans) = Known + 1 => IsCrash(book.spans[Known + 1])

(* A span says "rerun" when its run was retried, and "crashed" only when   *)
(* the worker is down or the session over.                                 *)
Retries ==
  worker # "down" /\ session = "running" =>
    \A k \in DOMAIN book.spans :
      /\ book.spans[k].outcome # "crashed"
      /\ book.spans[k].outcome = "rerun" <=>
           IF k < Running THEN runs[k + 1].item = runs[k].item ELSE retry

Failures ==
  /\ failed \subseteq 1 .. Known
  /\ \A k \in DOMAIN book.spans :
       book.spans[k].from \intersect failed # {} =>
         book.spans[k].outcome \notin {"passed", "skipped"}

(* A span is open while its attempt has more to report, or is to be run    *)
(* again.                                                                  *)
Opening ==
  /\ LastKnown(book) /\ OpenIsLast(book)
  /\ \A name \in Names : book.open[name] # 0 =>
       /\ runs # <<>> /\ name = NodeId[runs[Running].item]
       /\ left # <<>> \/ retry
       /\ left # <<Done>>
       /\ worker # "down"
  /\ worker # "down" /\ session = "running" /\ left \in Begun \ {<<>>, <<Done>>} =>
       book.open[NodeId[runs[Running].item]] = Running

(* The lane stands where the last closed span ended.                       *)
Timely ==
  /\ \A k \in DOMAIN book.spans :
       book.spans[k].start <= book.spans[k].stop /\ book.spans[k].stop <= clock
  /\ LaneInOrder
  /\ book.lastStop <= clock
  /\ session = "running" => \A k \in DOMAIN book.spans :
       book.open[book.spans[k].name] # k => book.spans[k].stop <= book.lastStop

(* The execution that is next to report.                                   *)
Coming ==
  IF runs = <<>> \/ (left = <<>> /\ ~retry) THEN <<Foremost, 0>>
  ELSE <<runs[Running].item, runs[Running].attempt>>

Waited ==
  /\ \A e \in Executions : book.executions[e] # 0 =>
       /\ book.executions[e] \in 1 .. Known
       /\ e = <<runs[book.executions[e]].item, runs[book.executions[e]].attempt>>
  /\ \A k \in 1 .. Known : book.executions[<<runs[k].item, runs[k].attempt>>] = k
  /\ \A w \in waits : book.executions[w] # 0 \/ w = Coming
  /\ WaitsOnTheirOwn

RecordingInv ==
  /\ RecordingTyped /\ Ordered /\ Matched /\ Retries /\ Failures /\ Opening /\ Timely /\ Waited
  /\ CrashShown

(* What the runs are, and which have reported.                             *)
LEMMA RunsKnown ==
  ASSUME RecordingTyped, Ordered
  PROVE  /\ Running \in Nat /\ DOMAIN runs = 1 .. Running
         /\ \A n \in DOMAIN runs :
              /\ runs[n] \in Executed /\ runs[n].item \in Items
              /\ runs[n].attempt \in 0 .. MaxReruns
              /\ <<runs[n].item, runs[n].attempt>> \in Executions
         /\ runs # <<>> => Running > 0 /\ Running \in DOMAIN runs
         /\ Known \in Nat /\ Known <= Running
         /\ left \notin Whole => Known = Running
         /\ left \in Whole => Known = Running - 1 /\ Running > 0 /\ left # <<>>
<1>1. /\ Running \in Nat /\ DOMAIN runs = 1 .. Running
      /\ \A n \in DOMAIN runs : runs[n] \in Executed
      /\ runs # <<>> => Running > 0 /\ Running \in DOMAIN runs
  BY DEF RecordingTyped, Running
<1>2. <<>> \notin Whole
  BY DEF Whole, Final, Retried
<1>3. left \in Whole => Running > 0 /\ left # <<>>
  BY <1>1, <1>2 DEF Ordered
<1>4. /\ Known \in Nat /\ Known <= Running
      /\ left \notin Whole => Known = Running
      /\ left \in Whole => Known = Running - 1
  BY <1>1, <1>3 DEF Known
<1>5. \A n \in DOMAIN runs :
        /\ runs[n] \in Executed /\ runs[n].item \in Items /\ runs[n].attempt \in 0 .. MaxReruns
        /\ <<runs[n].item, runs[n].attempt>> \in Executions
  BY <1>1 DEF Executed, Executions
<1> QED
  BY <1>1, <1>3, <1>4, <1>5

(* Items and attempts are numbers.                                         *)
LEMMA RunNumbers ==
  ASSUME NEW S, Sound(S), RecordingTyped, Ordered, NEW n \in DOMAIN runs
  PROVE  runs[n].item \in Nat \ {0} /\ runs[n].attempt \in Nat
<1>1. Items \subseteq Nat \ {0} /\ MaxReruns \in Nat
  BY DEF Sound, Items
<1>2. runs[n].item \in Items /\ runs[n].attempt \in 0 .. MaxReruns
  BY RunsKnown
<1>3. runs[n].item \in Nat \ {0}
  BY <1>1, <1>2
<1>4. runs[n].attempt \in Nat
  BY <1>1, <1>2
<1> QED
  BY <1>3, <1>4

(* A wait changes nothing but the waits.                                   *)
LEMMA WaitedKept ==
  ASSUME RecordingInv, session = "running", waits' \in SUBSET Executions,
         \A w \in waits' : w \in waits \/ w = Coming,
         UNCHANGED <<runs, left, retry, failed, worker, clock, book, session>>
  PROVE  RecordingInv'
<1>1. Known' = Known /\ Running' = Running /\ Foremost' = Foremost /\ Coming' = Coming
  BY DEF Known, Running, Foremost, Coming
<1>4. RecordingTyped' /\ Ordered'
  BY <1>1 DEF RecordingInv, RecordingTyped, Ordered
<1>5. Matched' /\ Retries' /\ Failures'
  BY <1>1 DEF RecordingInv, Matched, Retries, Failures, IsRun, IsCrash
<1>2. Opening' /\ Timely' /\ CrashShown'
  BY DEF RecordingInv, Opening, Timely, CrashShown, LastKnown, OpenIsLast, LaneInOrder, Running,
         Foremost, Spans
<1>3. Waited'
  <2>1. WaitsOnTheirOwn'
    BY DEF WaitsOnTheirOwn
  <2> QED
    BY <1>1, <2>1 DEF RecordingInv, Waited
<1> QED
  BY <1>2, <1>3, <1>4, <1>5 DEF RecordingInv

(* The head waits for its start.                                           *)
LEMMA WaitKeeps ==
  ASSUME NEW S, Sound(S), RecordingInv, Wait
  PROVE  RecordingInv'
<1>1. <<Foremost, 0>> \in Executions
  BY DEF Wait, Executions, Sound
<1>2. Coming = <<Foremost, 0>>
  BY DEF Wait, Coming
<1> QED
  BY <1>1, <1>2, WaitedKept DEF Wait, Up, RecordingInv, RecordingTyped

(* The running attempt waits for a fixture.                                *)
LEMMA WaitInsideKeeps ==
  ASSUME RecordingInv, WaitInside
  PROVE  RecordingInv'
<1> DEFINE w == <<runs[Running].item, runs[Running].attempt>>
<1>1. left # <<>> /\ runs # <<>> /\ w \in Executions
  BY RunsKnown DEF WaitInside, RecordingInv, Ordered
<1>2. Coming = w
  BY <1>1 DEF Coming
<1> QED
  BY <1>1, <1>2, WaitedKept DEF WaitInside, Up, RecordingInv, RecordingTyped

(* The worker dies, and nobody knows yet.                                  *)
LEMMA DieKeeps ==
  ASSUME RecordingInv, WorkerDies
  PROVE  RecordingInv'
<1>1. /\ worker = "up" /\ worker' = "died" /\ session = "running" /\ clock' = clock + 1
      /\ UNCHANGED <<runs, left, retry, failed, waits, book, session>>
  BY DEF WorkerDies, Up
<1>2. Known' = Known /\ Running' = Running /\ Foremost' = Foremost /\ Coming' = Coming
  BY <1>1 DEF Known, Running, Foremost, Coming
<1>3. RecordingTyped' /\ Ordered'
  BY <1>1, <1>2 DEF RecordingInv, RecordingTyped, Ordered
<1>4. Matched' /\ Retries' /\ Failures'
  BY <1>1, <1>2 DEF RecordingInv, Matched, Retries, Failures, IsRun, IsCrash
<1>5. Opening' /\ CrashShown'
  BY <1>1, <1>2 DEF RecordingInv, Opening, CrashShown, LastKnown, OpenIsLast
<1>6. Timely'
  <2>1. clock \in Nat /\ book.lastStop \in Nat
    BY Fields DEF RecordingInv, RecordingTyped
  <2>2. \A k \in DOMAIN book.spans : book.spans[k].stop \in Nat
    BY Fields DEF RecordingInv, RecordingTyped, SpanRecords
  <2> QED
    BY <1>1, <2>1, <2>2 DEF RecordingInv, Timely, LaneInOrder
<1>7. Waited'
  BY <1>1, <1>2 DEF RecordingInv, Waited, WaitsOnTheirOwn
<1> QED
  BY <1>3, <1>4, <1>5, <1>6, <1>7 DEF RecordingInv

(* The next item is begun, or the last one again.                          *)
LEMMA BeginKeeps ==
  ASSUME NEW S, Sound(S), RecordingInv, Begin
  PROVE  RecordingInv'
<1> DEFINE attempt == IF retry THEN runs[Running].attempt + 1 ELSE 0
           new == [item |-> Foremost, attempt |-> attempt]
<1>1. /\ worker = "up" /\ session = "running" /\ left = <<>> /\ Foremost \in Items
      /\ runs' = Append(runs, new) /\ left' \in Whole /\ retry' = FALSE
      /\ left' \in Retried => attempt < MaxReruns
      /\ UNCHANGED <<failed, worker, clock, waits, book, session>>
  <2>1. Final \intersect Retried = {}
    BY DEF Final, Retried, Said, Done
  <2> QED
    BY <2>1 DEF Begin, Up, Whole
<1>2. /\ RecordingTyped /\ Ordered /\ Running \in Nat /\ DOMAIN runs = 1 .. Running
      /\ \A n \in DOMAIN runs : runs[n] \in Executed /\ runs[n].item \in Nat
                                /\ runs[n].attempt \in Nat
      /\ Known = Running
  <2>1. Items \subseteq Nat /\ <<>> \notin Whole
    BY DEF Sound, Items, Whole, Final, Retried
  <2>2. /\ RecordingTyped /\ Ordered /\ Running \in Nat /\ DOMAIN runs = 1 .. Running
        /\ \A n \in DOMAIN runs : /\ runs[n] \in Executed /\ runs[n].item \in Items
                                  /\ runs[n].attempt \in 0 .. MaxReruns
        /\ left \notin Whole => Known = Running
    BY RunsKnown DEF RecordingInv
  <2>3. MaxReruns \in Nat
    BY DEF Sound
  <2>4. ASSUME NEW n \in DOMAIN runs PROVE runs[n].item \in Nat /\ runs[n].attempt \in Nat
    <3>1. runs[n].item \in Items /\ runs[n].attempt \in 0 .. MaxReruns
      BY <2>2
    <3>2. runs[n].item \in Nat
      BY <2>1, <3>1
    <3>3. runs[n].attempt \in Nat
      BY <2>3, <3>1
    <3> QED
      BY <3>2, <3>3
  <2> QED
    BY <1>1, <2>1, <2>2, <2>4
<1>3. new \in Executed /\ attempt \in Nat
  <2>1. retry => runs[Running].attempt < MaxReruns /\ Running \in DOMAIN runs
    BY <1>2, RunsKnown DEF Ordered
  <2>2. MaxReruns \in Nat
    BY DEF Sound
  <2>3. attempt \in 0 .. MaxReruns
    BY <1>2, <2>1, <2>2
  <2> QED
    BY <1>1, <2>3 DEF Executed
<1> HIDE DEF attempt
<1>4. /\ Running' = Running + 1 /\ DOMAIN runs' = 1 .. Running + 1
      /\ runs'[Running + 1] = new
      /\ \A n \in 1 .. Running : runs'[n] = runs[n]
      /\ runs' \in Seq(Executed) /\ runs' # <<>>
  BY <1>1, <1>2, <1>3 DEF RecordingTyped, Running
<1>5. Known' = Running /\ left' # <<>> /\ left' # <<Done>>
  <2>1. <<>> \notin Whole /\ <<Done>> \notin Whole
    BY DEF Whole, Final, Retried, Done, Said
  <2> QED
    BY <1>1, <1>2, <1>4, <2>1 DEF Known
<1>6. /\ retry => /\ Running \in DOMAIN runs /\ new.item = runs[Running].item
                  /\ attempt = runs[Running].attempt + 1
      /\ ~retry => /\ attempt = 0
                   /\ new.item = IF Running = 0 THEN 1 ELSE runs[Running].item + 1
  <2>1. runs = <<>> <=> Running = 0
    BY DEF RecordingInv, RecordingTyped, Running
  <2> QED
    BY <1>1, <1>2, <2>1, RunsKnown DEF Foremost, attempt, Ordered
<1>7. new.item \in Nat /\ new.attempt = attempt
  BY <1>2, <1>6
<1> HIDE DEF new
<1>8. RecordingTyped'
  BY <1>1, <1>2, <1>4 DEF RecordingTyped
<1>9. Ordered'
  <2>1. ASSUME NEW n \in DOMAIN runs', NEW m \in 1 .. n - 1
        PROVE  \/ runs'[m].item < runs'[n].item
               \/ runs'[m].item = runs'[n].item /\ runs'[m].attempt < runs'[n].attempt
    <3>1. CASE n \in 1 .. Running
      <4>1. /\ n \in DOMAIN runs /\ m \in 1 .. n - 1 /\ m \in 1 .. Running
            /\ runs'[m] = runs[m] /\ runs'[n] = runs[n]
        BY <1>2, <1>4, <3>1
      <4>2. \A p \in DOMAIN runs : \A q \in 1 .. p - 1 :
              \/ runs[q].item < runs[p].item
              \/ runs[q].item = runs[p].item /\ runs[q].attempt < runs[p].attempt
        BY <1>2 DEF Ordered
      <4> QED
        BY <4>1, <4>2
    <3>2. CASE n = Running + 1
      <4>1. m \in 1 .. Running /\ runs'[m] = runs[m] /\ runs'[n] = new /\ Running \in DOMAIN runs
        BY <1>2, <1>4, <3>2
      <4>2. \/ m = Running
            \/ runs[m].item < runs[Running].item
            \/ /\ runs[m].item = runs[Running].item
               /\ runs[m].attempt < runs[Running].attempt
        <5>1. m # Running => m \in 1 .. Running - 1
          BY <1>2, <4>1
        <5> QED
          BY <1>2, <4>1, <5>1 DEF Ordered
      <4>3. /\ runs[m].item \in Nat /\ runs[Running].item \in Nat
            /\ runs[m].attempt \in Nat /\ runs[Running].attempt \in Nat
        BY <1>2, <4>1
      <4>4. CASE retry
        <5>1. new.item = runs[Running].item /\ new.attempt = runs[Running].attempt + 1
          BY <1>6, <1>7, <4>4
        <5> QED
          BY <4>1, <4>2, <4>3, <5>1
      <4>5. CASE ~retry
        <5>1. new.item = runs[Running].item + 1
          BY <1>2, <1>6, <4>1, <4>5
        <5> QED
          BY <4>1, <4>2, <4>3, <5>1
      <4> QED
        BY <4>4, <4>5
    <3> QED
      BY <1>2, <1>4, <3>1, <3>2
  <2>2. ASSUME NEW n \in DOMAIN runs', NEW i \in 1 .. runs'[n].item - 1
        PROVE  \E m \in 1 .. n - 1 : runs'[m].item = i
    <3>1. CASE n \in 1 .. Running
      <4>1. \E m \in 1 .. n - 1 : runs[m].item = i
        BY <1>2, <1>4, <3>1 DEF Ordered
      <4> QED
        BY <1>2, <1>4, <3>1, <4>1
    <3>2. CASE n = Running + 1
      <4>1. Running \in DOMAIN runs /\ i \in 1 .. runs[Running].item
        BY <1>2, <1>4, <1>6, <1>7, <3>2
      <4>2. \E m \in 1 .. Running : runs[m].item = i
        <5>1. i = runs[Running].item \/ i \in 1 .. runs[Running].item - 1
          BY <1>2, <4>1
        <5>2. ASSUME i \in 1 .. runs[Running].item - 1
              PROVE  \E m \in 1 .. Running - 1 : runs[m].item = i
          BY <1>2, <4>1, <5>2 DEF Ordered
        <5> QED
          BY <1>2, <4>1, <5>1, <5>2
      <4> QED
        BY <1>2, <1>4, <3>2, <4>2
    <3> QED
      BY <1>2, <1>4, <3>1, <3>2
  <2>3. ASSUME NEW n \in DOMAIN runs', runs'[n].attempt # 0
        PROVE  /\ n > 1 /\ runs'[n - 1].item = runs'[n].item
               /\ runs'[n - 1].attempt = runs'[n].attempt - 1
    <3>1. CASE n \in 1 .. Running
      BY <1>2, <1>4, <2>3, <3>1 DEF Ordered
    <3>2. CASE n = Running + 1
      <4>1. retry /\ runs'[n] = new /\ runs'[n - 1] = runs[Running]
        BY <1>2, <1>4, <1>6, <1>7, <2>3, <3>2
      <4> QED
        BY <1>2, <1>3, <1>6, <1>7, <3>2, <4>1
    <3> QED
      BY <1>2, <1>4, <3>1, <3>2
  <2>4. retry' \/ left' \in ToRetry => runs'[Running'].attempt < MaxReruns
    <3>1. left' \in ToRetry => left' \in Retried
      BY <1>1 DEF ToRetry, Whole, Final, Retried, Said, Done
    <3> QED
      BY <1>1, <1>4, <1>7, <3>1
  <2> QED
    BY <1>1, <1>4, <2>1, <2>2, <2>3, <2>4 DEF Ordered
<1>10. Matched'
  BY <1>1, <1>2, <1>4, <1>5 DEF RecordingInv, Matched, IsRun
<1>11. Retries'
  <2>1. Len(book.spans) = Running /\ DOMAIN book.spans = 1 .. Running
    BY <1>1, <1>2, Fields DEF RecordingInv, Matched, RecordingTyped
  <2>2. ASSUME NEW k \in DOMAIN book.spans
        PROVE  book.spans[k].outcome = "rerun" <=> runs'[k + 1].item = runs'[k].item
    <3>1. CASE k < Running
      BY <1>1, <1>2, <1>4, <2>1, <2>2, <3>1 DEF RecordingInv, Retries
    <3>2. CASE k = Running
      <4>1. book.spans[k].outcome = "rerun" <=> retry
        BY <1>1, <1>2, <2>2, <3>2 DEF RecordingInv, Retries
      <4>2. runs'[k + 1] = new /\ runs'[k] = runs[Running] /\ runs[Running].item \in Nat
        BY <1>2, <1>4, <2>1, <2>2, <3>2
      <4> QED
        BY <1>6, <4>1, <4>2, <2>1, <2>2, <3>2
    <3> QED
      BY <1>2, <2>1, <2>2, <3>1, <3>2
  <2> QED
    BY <1>1, <1>2, <1>4, <2>1, <2>2 DEF RecordingInv, Retries
<1>12. Failures'
  BY <1>1, <1>2, <1>5 DEF RecordingInv, Failures
<1>13. Opening'
  <2>1. left' \notin Begun
    <3>1. \A w \in Whole : w # <<>> /\ w[1].when = "setup"
      BY DEF Whole, Final, Retried, Said
    <3>2. \A w \in Begun : w = <<>> \/ w[1].when # "setup"
      BY DEF Begun, Said, Done
    <3>3. left' \in Whole
      BY <1>1
    <3> QED
      BY <3>1, <3>2, <3>3
  <2>2. ASSUME NEW name \in Names, book.open[name] # 0
        PROVE  name = NodeId[runs'[Running'].item]
    <3>1. retry /\ name = NodeId[runs[Running].item]
      BY <1>1, <2>2 DEF RecordingInv, Opening
    <3> QED
      BY <1>4, <1>6, <3>1
  <2> QED
    BY <1>1, <1>4, <1>5, <2>1, <2>2 DEF RecordingInv, Opening, LastKnown, OpenIsLast
<1>14. Timely'
  BY <1>1 DEF RecordingInv, Timely, LaneInOrder
<1>15. Waited'
  <2>1. \A k \in 1 .. Known : runs'[k] = runs[k]
    BY <1>2, <1>4
  <2>2. ASSUME NEW w \in waits', book.executions[w] = 0 PROVE w = Coming'
    <3>1. w = Coming
      BY <1>1, <2>2 DEF RecordingInv, Waited
    <3>2. ~retry
      <4>1. ASSUME retry PROVE FALSE
        <5>1. Running \in 1 .. Known /\ w = <<runs[Running].item, runs[Running].attempt>>
          BY <1>2, <3>1, <4>1 DEF Coming, Ordered, Running
        <5>2. book.executions[w] = Running
          BY <5>1 DEF RecordingInv, Waited
        <5> QED
          BY <2>2, <5>1, <5>2
      <4> QED
        BY <4>1
    <3>3. w = <<Foremost, 0>>
      BY <1>1, <3>1, <3>2 DEF Coming
    <3>4. Coming' = <<new.item, new.attempt>>
      BY <1>4, <1>5 DEF Coming
    <3> QED
      BY <1>6, <1>7, <3>2, <3>3, <3>4 DEF new
  <2> QED
    BY <1>1, <1>2, <1>5, <2>1, <2>2 DEF RecordingInv, Waited, WaitsOnTheirOwn
<1>16. CrashShown'
  BY <1>1 DEF CrashShown
<1> QED
  BY <1>8, <1>9, <1>10, <1>11, <1>12, <1>13, <1>14, <1>15, <1>16 DEF RecordingInv

-----------------------------------------------------------------------------
(* A report.                                                               *)

(* The number _new_span gives to the span of the run whose set-up is       *)
(* reported is that run's.                                                 *)
LEMMA Numbering ==
  ASSUME NEW S, Sound(S), RecordingInv, session = "running", worker = "up", left \in Whole
  PROVE  LET number == Number(book, NodeId[runs[Running].item])
         IN  /\ number.attempt = runs[Running].attempt
             /\ number.occurrence = Cardinality(Earlier(runs[Running].item))
<1> DEFINE item == runs[Running].item
           name == NodeId[item]
           N == Running
           last == book.last[name]
           number == Number(book, name)
<1>1. /\ RecordingTyped /\ Ordered /\ N \in Nat /\ N > 0 /\ DOMAIN runs = 1 .. N
      /\ Known = N - 1 /\ N \in DOMAIN runs
      /\ \A n \in DOMAIN runs : runs[n].item \in Items
  <2>1. RecordingTyped /\ Ordered
    BY DEF RecordingInv
  <2>2. N \in Nat /\ N > 0 /\ DOMAIN runs = 1 .. N /\ Known = N - 1
    BY <2>1, RunsKnown
  <2>3. \A n \in DOMAIN runs : runs[n].item \in Items
    BY <2>1, RunsKnown
  <2> QED
    BY <2>1, <2>2, <2>3
<1>3. \A n \in DOMAIN runs : runs[n].item \in Nat \ {0} /\ runs[n].attempt \in Nat
  BY <1>1, RunNumbers
<1>4. Len(book.spans) = N - 1 /\ DOMAIN book.spans = 1 .. N - 1
  BY <1>1, Fields DEF RecordingInv, Matched, RecordingTyped
<1>5. \A k \in 1 .. N - 1 : IsRun(book.spans[k], k) /\ k \in DOMAIN runs
  BY <1>1 DEF RecordingInv, Matched
<1>6. name \in Names
  BY <1>1 DEF Names
<1>7. /\ last \in 0 .. N - 1
      /\ last # 0 => book.spans[last].name = name
      /\ \A k \in 1 .. N - 1 : NodeId[runs[k].item] = name => k <= last
  BY <1>4, <1>5, <1>6 DEF RecordingInv, Opening, LastKnown, IsRun
<1>8. runs[N].attempt # 0 => last = N - 1 /\ last # 0 /\ runs[last].item = item
                             /\ runs[last].attempt = runs[N].attempt - 1
  <2>1. CASE runs[N].attempt # 0
    <3>1. N > 1 /\ runs[N - 1].item = item /\ runs[N - 1].attempt = runs[N].attempt - 1
      BY <1>1, <2>1 DEF Ordered
    <3>2. N - 1 \in 1 .. N - 1 /\ N \in Nat
      BY <1>1, <3>1
    <3>3. NodeId[runs[N - 1].item] = name
      BY <3>1
    <3> HIDE DEF N, item, name, last
    <3>4. N - 1 <= last
      BY <1>7, <3>2, <3>3
    <3>5. last = N - 1 /\ last # 0
      BY <1>7, <3>2, <3>4
    <3> QED
      BY <3>1, <3>5
  <2> QED
    BY <2>1
<1>9. last # 0 => /\ last \in 1 .. N - 1 /\ last \in DOMAIN runs
                  /\ NodeId[runs[last].item] = name
                  /\ book.spans[last].outcome = "rerun" <=> runs[last + 1].item = runs[last].item
                  /\ book.spans[last].attempt = runs[last].attempt
                  /\ book.spans[last].occurrence = Cardinality(Earlier(runs[last].item))
  <2>1. CASE last # 0
    <3>1. last \in 1 .. N - 1 /\ last < N /\ last \in DOMAIN book.spans
      <4> HIDE DEF N, item, name, last
      <4>1. N \in Nat /\ last \in 0 .. N - 1 /\ last # 0
        BY <1>1, <1>7, <2>1
      <4>2. last \in 1 .. N - 1 /\ last < N
        BY <4>1
      <4> QED
        BY <1>4, <4>2
    <3>2. IsRun(book.spans[last], last) /\ last \in DOMAIN runs
      BY <1>5, <3>1
    <3>3. book.spans[last].outcome = "rerun" <=> runs[last + 1].item = runs[last].item
      BY <3>1 DEF RecordingInv, Retries
    <3> QED
      BY <1>7, <2>1, <3>1, <3>2, <3>3 DEF IsRun
  <2> QED
    BY <2>1
<1> HIDE DEF name, item, last, N
<1>10. \A i \in 1 .. item - 1 : \E m \in 1 .. N - 1 : runs[m].item = i
  BY <1>1 DEF Ordered, item, N
<1>11. \A m \in 1 .. N - 1 : \/ runs[m].item < item
                             \/ runs[m].item = item /\ runs[m].attempt < runs[N].attempt
  BY <1>1 DEF Ordered, item, N
<1>12. item \in Nat /\ runs[N].attempt \in Nat
  BY <1>1, <1>3 DEF item, N
<1>13. CASE last = 0
  <2>1. runs[N].attempt = 0
    BY <1>8, <1>13
  <2>2. Earlier(item) = {}
    <3>1. ASSUME NEW i \in 1 .. item - 1, NodeId[i] = name PROVE FALSE
      <4>1. PICK m \in 1 .. N - 1 : runs[m].item = i
        BY <1>10
      <4> QED
        BY <1>1, <1>7, <1>13, <3>1, <4>1
    <3> QED
      BY <3>1 DEF Earlier, name
  <2>3. number = [occurrence |-> 0, attempt |-> 0]
    BY <1>13 DEF Number, last
  <2> QED
    BY <2>1, <2>2, <2>3, FS_EmptySet DEF name, item, N
<1>14. CASE last # 0 /\ book.spans[last].outcome = "rerun"
  <2>1. last = N - 1
    <3>1. ASSUME last + 1 \in 1 .. N - 1 PROVE FALSE
      BY <1>1, <1>7, <1>9, <1>14, <3>1
    <3> QED
      BY <1>1, <1>7, <3>1
  <2>2. runs[last].item = item
    BY <1>1, <1>9, <1>14, <2>1 DEF item, N
  <2>3. runs[N].attempt # 0
    BY <1>1, <1>3, <1>9, <1>11, <1>12, <1>14, <2>2
  <2>4. number.attempt = runs[N].attempt
    BY <1>8, <1>9, <1>12, <1>14, <2>3 DEF Number, Numbered, last
  <2>5. number.occurrence = Cardinality(Earlier(item))
    BY <1>9, <1>14, <2>2 DEF Number, Numbered, last
  <2> QED
    BY <2>4, <2>5 DEF name, item, N
<1>15. CASE last # 0 /\ book.spans[last].outcome # "rerun"
  <2>1. runs[last].item \in Nat \ {0} /\ runs[last].attempt \in Nat
    BY <1>3, <1>9, <1>15
  <2>2. runs[N].attempt = 0
    <3>1. ASSUME runs[N].attempt # 0 PROVE FALSE
      <4>1. last = N - 1 /\ runs[last].item = item
        BY <1>8, <3>1
      <4>2. runs[last + 1].item = item
        BY <1>1, <4>1 DEF item, N
      <4> QED
        BY <1>9, <1>15, <4>1, <4>2
    <3> QED
      BY <3>1
  <2>3. runs[last].item < item
    BY <1>9, <1>11, <1>12, <1>15, <2>1, <2>2
  <2>4. Earlier(item) = Earlier(runs[last].item) \union {runs[last].item}
    <3>1. ASSUME NEW i \in Earlier(item) PROVE i < runs[last].item \/ i = runs[last].item
      <4>1. PICK m \in 1 .. N - 1 : runs[m].item = i
        BY <1>10 DEF Earlier
      <4>2. m <= last
        BY <1>7, <3>1, <4>1 DEF Earlier, name
      <4>3. m = last \/ m \in 1 .. last - 1
        BY <1>1, <1>7, <4>2 DEF N
      <4>4. m \in 1 .. last - 1 => \/ runs[m].item < runs[last].item
                                   \/ runs[m].item = runs[last].item
        BY <1>1, <1>9, <1>15 DEF Ordered
      <4> QED
        BY <4>1, <4>3, <4>4
    <3>2. NodeId[runs[last].item] = NodeId[item] /\ runs[last].item \in 1 .. item - 1
      BY <1>9, <1>12, <1>15, <2>1, <2>3 DEF name
    <3>3. ASSUME NEW i \in Earlier(item), i < runs[last].item PROVE i \in Earlier(runs[last].item)
      BY <2>1, <3>2, <3>3 DEF Earlier
    <3>4. Earlier(runs[last].item) \subseteq Earlier(item)
      BY <1>12, <2>1, <2>3, <3>2 DEF Earlier
    <3>5. runs[last].item \in Earlier(item)
      BY <3>2 DEF Earlier
    <3> QED
      BY <3>1, <3>3, <3>4, <3>5
  <2>5. Cardinality(Earlier(item)) = Cardinality(Earlier(runs[last].item)) + 1
    <3>1. IsFiniteSet(1 .. runs[last].item - 1)
      <4>1. runs[last].item - 1 \in Int
        BY <2>1
      <4> QED
        BY <4>1, FS_Interval
    <3>2. IsFiniteSet(Earlier(runs[last].item))
      BY <3>1, FS_Subset DEF Earlier
    <3>3. runs[last].item \notin Earlier(runs[last].item)
      BY <2>1 DEF Earlier
    <3> QED
      BY <2>4, <3>2, <3>3, FS_AddElement
  <2>6. number.attempt = 0 /\ number.occurrence = Cardinality(Earlier(runs[last].item)) + 1
    BY <1>9, <1>15 DEF Number, Numbered, last
  <2> QED
    BY <2>2, <2>5, <2>6 DEF name, item, N
<1> QED
  BY <1>13, <1>14, <1>15

(* What a report of a set-up, a call or a teardown makes of the books: the *)
(* span of the last run is there, as it was run.                           *)
Reported(d, r) ==
  LET N    == Running
      name == NodeId[runs[N].item]
      span == d.spans[N]
  IN  /\ d \in Books /\ Len(d.spans) = N
      /\ \A j \in 1 .. N - 1 : d.spans[j] = book.spans[j]
      /\ IsRun(span, N)
      /\ span.outcome # "crashed"
      /\ span.outcome = "rerun" <=> r.outcome = "rerun"
      /\ r.outcome \in {"failed", "rerun"} \/ N \in failed =>
           span.outcome \notin {"passed", "skipped"}
      /\ d.executions = [book.executions EXCEPT ![<<runs[N].item, runs[N].attempt>>] = N]
      /\ span.start <= span.stop /\ span.stop <= clock + 1
      /\ \A j \in 1 .. N - 1 : book.spans[j].stop <= span.start
      /\ LastKnown(d) /\ OpenIsLast(d)
      /\ \A x \in Names : d.open[x] # 0 => x = name /\ r.when # "teardown"
      /\ r.when # "teardown" => d.open[name] = N
      /\ d.lastStop <= clock + 1
      /\ \A j \in DOMAIN d.spans : d.open[d.spans[j].name] # j => d.spans[j].stop <= d.lastStop

(* What Report starts from.                                                *)
LEMMA Reporting ==
  ASSUME RecordingInv, Report
  PROVE  /\ worker = "up" /\ session = "running" /\ left # <<>> /\ ~retry
         /\ left[1] \in Reports
         /\ Running \in DOMAIN runs /\ Running > 0 /\ Running \in Nat
         /\ runs[Running].item \in Items
         /\ <<runs[Running].item, runs[Running].attempt>> \in Executions
         /\ NodeId[runs[Running].item] \in Names
         /\ book \in Books /\ Len(book.spans) = Known /\ Known \in Nat
         /\ Known = IF left \in Whole THEN Running - 1 ELSE Running
         /\ DOMAIN book.spans = 1 .. Known
         /\ left \in Whole <=> left[1].when = "setup"
         /\ clock \in Nat
<1>1. worker = "up" /\ session = "running" /\ left # <<>>
  BY DEF Report, Up
<1>2. RecordingTyped /\ Ordered
  BY DEF RecordingInv
<1>3. left[1] \in Reports /\ (left \in Whole <=> left[1].when = "setup")
  BY <1>1, <1>2, Leaves DEF RecordingTyped
<1>4. runs # <<>> /\ ~retry
  BY <1>1, <1>2 DEF Ordered, RecordingTyped
<1>5. /\ Running \in DOMAIN runs /\ Running > 0 /\ Running \in Nat /\ Known \in Nat
      /\ runs[Running].item \in Items
      /\ <<runs[Running].item, runs[Running].attempt>> \in Executions
      /\ Known = IF left \in Whole THEN Running - 1 ELSE Running
  BY <1>2, <1>4, RunsKnown
<1>6. book \in Books /\ Len(book.spans) = Known /\ clock \in Nat
  BY <1>1, <1>2 DEF RecordingInv, Matched, RecordingTyped
<1>7. DOMAIN book.spans = 1 .. Known
  BY <1>6, Fields
<1> QED
  BY <1>1, <1>3, <1>4, <1>5, <1>6, <1>7 DEF Names

(* A set-up opens the span of the run.                                     *)
LEMMA SetupReported ==
  ASSUME NEW S, Sound(S), RecordingInv, Report, left[1].when = "setup"
  PROVE  Reported(AddReport(book, left[1], Running, clock), left[1])
<1> DEFINE r == left[1]
           N == Running
           item == runs[N].item
           name == NodeId[item]
           e == <<runs[N].item, runs[N].attempt>>
           fresh == Fresh(book, item, clock, clock + 1)
           span == Told(fresh, r, N, clock)
           d == AddReport(book, r, N, clock)
<1>1. /\ worker = "up" /\ session = "running" /\ r \in Reports /\ r.when = "setup"
      /\ N \in Nat /\ N > 0 /\ N \in DOMAIN runs /\ item \in Items /\ e \in Executions
      /\ name \in Names
      /\ book \in Books /\ Known = N - 1 /\ Len(book.spans) = N - 1
      /\ DOMAIN book.spans = 1 .. N - 1 /\ left \in Whole /\ clock \in Nat
  BY Reporting
<1>2. LastKnown(book) /\ OpenIsLast(book)
  BY DEF RecordingInv, Opening
<1>3. /\ Number(book, name).attempt = runs[N].attempt
      /\ Number(book, name).occurrence = Cardinality(Earlier(item))
  BY <1>1, Numbering
<1>4. fresh \in SpanRecords /\ IsTold(span, fresh, r, N, clock)
  <2>1. fresh \in SpanRecords
    BY <1>1, <1>2, FreshTyped
  <2> QED
    BY <1>1, <2>1, ToldFields DEF Phases
<1>5. IsFirst(d, book, name, e, span)
  BY <1>1, <1>2, FirstReport
<1>6. /\ fresh.name = name /\ fresh.item = item /\ fresh.from = {} /\ fresh.phases = {}
      /\ fresh.attempt = runs[N].attempt /\ fresh.occurrence = Cardinality(Earlier(item))
      /\ fresh.outcome = "passed" /\ fresh.start = clock /\ fresh.stop = clock + 1
  BY <1>3 DEF Fresh
<1> HIDE DEF r, N, item, name, e, fresh, span, d
<1>7. /\ span.name = name /\ span.item = item /\ span.from = {N} /\ span.phases = {"setup"}
      /\ span.attempt = runs[N].attempt /\ span.occurrence = Cardinality(Earlier(item))
      /\ span.outcome = Outcome("passed", r) /\ span.start = clock /\ span.stop = clock + 1
      /\ span \in SpanRecords
  BY <1>1, <1>4, <1>6 DEF IsTold, Sooner, Later
<1>8. IsRun(span, N)
  BY <1>7 DEF IsRun, name, item
<1>9. /\ d \in Books /\ Len(d.spans) = N /\ d.spans[N] = span
      /\ \A j \in 1 .. N - 1 : d.spans[j] = book.spans[j]
      /\ d.executions = [book.executions EXCEPT ![e] = N]
      /\ d.open = [book.open EXCEPT ![name] = N]
      /\ d.last = [book.last EXCEPT ![name] = N]
      /\ DOMAIN d.spans = 1 .. N
  <2>1. /\ d \in Books /\ Len(d.spans) = N /\ d.spans[N] = span
        /\ \A j \in 1 .. N - 1 : d.spans[j] = book.spans[j]
        /\ d.executions = [book.executions EXCEPT ![e] = N]
        /\ d.open = [book.open EXCEPT ![name] = N]
        /\ d.last = [book.last EXCEPT ![name] = N]
    BY <1>1, <1>5 DEF IsFirst
  <2> QED
    BY <2>1, Fields
<1>10. \A x \in Names \ {name} : book.open[x] = 0 /\ d.open[x] = 0
  <2>1. \A x \in Names : book.open[x] # 0 => x = name
    BY DEF RecordingInv, Opening, name, item, N
  <2> QED
    BY <1>1, <1>9, <2>1, Fields
<1>11. d.open[name] = N
  BY <1>1, <1>9, Fields
<1>12. OpenIsLast(d)
  BY <1>1, <1>7, <1>9, <1>10, <1>11 DEF OpenIsLast
<1>13. LastKnown(d)
  <2>1. ASSUME NEW x \in Names
        PROVE  /\ d.last[x] \in 0 .. N
               /\ d.last[x] # 0 => d.spans[d.last[x]].name = x
               /\ \A k \in 1 .. N : d.spans[k].name = x => k <= d.last[x]
    <3>1. CASE x = name
      <4>1. d.last[x] = N
        BY <1>1, <1>9, <3>1, Fields
      <4> QED
        BY <1>1, <1>7, <1>9, <3>1, <4>1
    <3>2. CASE x # name
      <4>1. d.last[x] = book.last[x]
        BY <1>1, <1>9, <3>2, Fields
      <4>2. /\ book.last[x] \in 0 .. N - 1
            /\ book.last[x] # 0 => book.spans[book.last[x]].name = x
            /\ \A k \in 1 .. N - 1 : book.spans[k].name = x => k <= book.last[x]
        BY <1>1, <1>2 DEF LastKnown
      <4>3. ASSUME NEW k \in 1 .. N, d.spans[k].name = x
            PROVE  k \in 1 .. N - 1 /\ book.spans[k].name = x
        BY <1>1, <1>7, <1>9, <3>2, <4>3
      <4>4. d.last[x] # 0 => d.spans[d.last[x]].name = x
        BY <1>1, <1>9, <4>1, <4>2
      <4> QED
        BY <1>1, <4>1, <4>2, <4>3, <4>4
    <3> QED
      BY <3>1, <3>2
  <2> QED
    BY <1>9, <2>1 DEF LastKnown
<1>14. /\ \A j \in 1 .. N - 1 : book.spans[j].stop <= clock /\ book.spans[j].stop \in Nat
       /\ book.lastStop <= clock /\ book.lastStop \in Nat
       /\ \A j \in 1 .. N - 1 : book.open[book.spans[j].name] # j =>
            book.spans[j].stop <= book.lastStop
  <2>1. \A j \in 1 .. N - 1 : book.spans[j].stop \in Nat
    BY <1>1, Fields DEF SpanRecords
  <2> QED
    BY <1>1, <2>1, Fields DEF RecordingInv, Timely
<1>15. /\ book.open[name] # 0 => book.open[name] = N - 1 /\ N - 1 \in 1 .. N - 1
       /\ d.lastStop = IF book.open[name] = 0 THEN book.lastStop
                       ELSE Later(book.lastStop, book.spans[book.open[name]].stop)
  BY <1>1, <1>2, <1>5 DEF OpenIsLast, IsFirst
<1>16. d.lastStop <= clock + 1
  BY <1>1, <1>14, <1>15 DEF Later
<1>17. ASSUME NEW j \in DOMAIN d.spans, d.open[d.spans[j].name] # j
       PROVE  d.spans[j].stop <= d.lastStop
  <2>1. j \in 1 .. N - 1 /\ d.spans[j] = book.spans[j]
    BY <1>1, <1>7, <1>9, <1>11, <1>17
  <2>2. CASE book.open[book.spans[j].name] # j
    BY <1>14, <1>15, <2>1, <2>2 DEF Later
  <2>3. CASE book.open[book.spans[j].name] = j
    <3>1. book.spans[j].name \in Names
      BY <1>1, <2>1, Fields DEF SpanRecords
    <3>2. book.spans[j].name = name
      BY <1>10, <2>1, <2>3, <3>1
    <3> QED
      BY <1>14, <1>15, <2>1, <2>3, <3>2 DEF Later
  <2> QED
    BY <2>2, <2>3
<1>18. /\ Outcome("passed", r) # "crashed"
       /\ Outcome("passed", r) = "rerun" <=> r.outcome = "rerun"
       /\ r.outcome \in {"failed", "rerun"} => Outcome("passed", r) \notin {"passed", "skipped"}
  BY <1>1 DEF Outcome, Reports
<1>19. N \notin failed
  BY <1>1 DEF RecordingInv, Failures
<1>20. Reported(d, r)
  BY <1>1, <1>7, <1>8, <1>9, <1>10, <1>11, <1>12, <1>13, <1>14, <1>16, <1>17, <1>18, <1>19
  DEF Reported, N, name, item, e
<1> QED
  BY <1>20 DEF d, r, N

(* A call or a teardown goes on with it.                                   *)
LEMMA CallReported ==
  ASSUME RecordingInv, Report, left[1].when \in {"call", "teardown"}
  PROVE  Reported(AddReport(book, left[1], Running, clock), left[1])
<1> DEFINE r == left[1]
           N == Running
           name == NodeId[runs[N].item]
           e == <<runs[N].item, runs[N].attempt>>
           old == book.spans[N]
           span == Told(old, r, N, clock)
           d == AddReport(book, r, N, clock)
<1>1. /\ worker = "up" /\ session = "running" /\ r \in Reports
      /\ r.when \in {"call", "teardown"}
      /\ N \in Nat /\ N > 0 /\ N \in DOMAIN runs /\ e \in Executions /\ name \in Names
      /\ book \in Books /\ Known = N /\ Len(book.spans) = N
      /\ DOMAIN book.spans = 1 .. N /\ N \in 1 .. N /\ clock \in Nat
      /\ left \notin Whole
  BY Reporting
<1>2. LastKnown(book) /\ OpenIsLast(book)
  BY DEF RecordingInv, Opening
<1>3. book.open[name] = N
  <2>1. left \in Begun \ {<<>>, <<Done>>}
    <3>1. left \in Whole \union Begun /\ left # <<>>
      BY Reporting DEF RecordingInv, RecordingTyped
    <3>2. left # <<Done>>
      BY <1>1, <3>1, Leaves
    <3> QED
      BY <1>1, <3>1, <3>2
  <2> QED
    BY <1>1, <2>1 DEF RecordingInv, Opening
<1>4. old \in SpanRecords /\ IsRun(old, N) /\ old.name = name
  BY <1>1, Fields DEF RecordingInv, Matched, IsRun
<1>5. IsTold(span, old, r, N, clock)
  BY <1>1, <1>4, ToldFields DEF Phases
<1>6. IsLater(d, book, name, e, N, r, span)
  BY <1>1, <1>3, <1>4, LaterReport
<1>7. /\ old.start \in Nat /\ old.stop \in Nat /\ old.start <= old.stop /\ old.stop <= clock
      /\ book.lastStop \in Nat /\ book.lastStop <= clock
      /\ \A j \in 1 .. N - 1 : book.spans[j].stop <= old.start
  <2>1. old.start \in Nat /\ old.stop \in Nat /\ book.lastStop \in Nat
    BY <1>1, <1>4, Fields DEF SpanRecords
  <2>2. /\ \A k \in DOMAIN book.spans :
             book.spans[k].start <= book.spans[k].stop /\ book.spans[k].stop <= clock
        /\ book.lastStop <= clock
    BY DEF RecordingInv, Timely
  <2>3. \A j, k \in DOMAIN book.spans :
          j < k => book.spans[j].stop <= book.spans[k].start
    BY DEF RecordingInv, Timely, LaneInOrder
  <2>4. N \in DOMAIN book.spans /\ \A j \in 1 .. N - 1 : j \in DOMAIN book.spans /\ j < N
    BY <1>1
  <2>5. old.start <= old.stop /\ old.stop <= clock
    BY <2>2, <2>4
  <2>6. \A j \in 1 .. N - 1 : book.spans[j].stop <= old.start
    BY <2>3, <2>4
  <2> QED
    BY <2>1, <2>2, <2>5, <2>6
<1>8. old.outcome \notin {"crashed", "rerun"}
  BY <1>1, Reporting DEF RecordingInv, Retries
<1>9. N \in failed => old.outcome \notin {"passed", "skipped"}
  <2>1. old.from = {N} /\ N \in DOMAIN book.spans
    BY <1>1, <1>4 DEF IsRun
  <2> QED
    BY <2>1 DEF RecordingInv, Failures
<1> HIDE DEF r, N, name, e, old, span, d
<1>10. /\ span.name = name /\ span.item = old.item /\ span.from = old.from \union {N}
       /\ span.phases = old.phases \union {r.when}
       /\ span.attempt = old.attempt /\ span.occurrence = old.occurrence
       /\ span.outcome = Outcome(old.outcome, r) /\ span.start = old.start
       /\ span.stop = clock + 1 /\ span \in SpanRecords
  BY <1>1, <1>4, <1>5, <1>7 DEF IsTold, Sooner, Later
<1>11. IsRun(span, N)
  BY <1>4, <1>10 DEF IsRun
<1>12. /\ d \in Books /\ Len(d.spans) = N /\ d.spans[N] = span
       /\ \A j \in 1 .. N - 1 : d.spans[j] = book.spans[j]
       /\ d.executions = [book.executions EXCEPT ![e] = N]
       /\ d.open = IF r.when = "teardown" THEN [book.open EXCEPT ![name] = 0] ELSE book.open
       /\ d.last = book.last
       /\ d.lastStop = IF r.when = "teardown" THEN Later(book.lastStop, span.stop)
                       ELSE book.lastStop
  <2>1. \A j \in 1 .. N - 1 : j \in DOMAIN book.spans \ {N}
    BY <1>1
  <2> QED
    BY <1>1, <1>6, <2>1 DEF IsLater
<1>13. DOMAIN d.spans = 1 .. N
  BY <1>12, Fields
<1>14. \A x \in Names \ {name} : book.open[x] = 0 /\ d.open[x] = 0
  <2>1. \A x \in Names : book.open[x] # 0 => x = name
    BY DEF RecordingInv, Opening, name, N
  <2> QED
    BY <1>1, <1>12, <2>1, Fields
<1>15. d.open[name] = IF r.when = "teardown" THEN 0 ELSE N
  BY <1>1, <1>3, <1>12, Fields
<1>16. OpenIsLast(d)
  BY <1>1, <1>10, <1>12, <1>14, <1>15 DEF OpenIsLast
<1>17. LastKnown(d)
  <2>1. \A j \in 1 .. N : d.spans[j].name = book.spans[j].name
    BY <1>1, <1>4, <1>10, <1>12 DEF old
  <2>2. ASSUME NEW x \in Names
        PROVE  /\ d.last[x] \in 0 .. N
               /\ d.last[x] # 0 => d.spans[d.last[x]].name = x
               /\ \A k \in 1 .. N : d.spans[k].name = x => k <= d.last[x]
    <3>1. /\ book.last[x] \in 0 .. N
          /\ book.last[x] # 0 => book.spans[book.last[x]].name = x
          /\ \A k \in 1 .. N : book.spans[k].name = x => k <= book.last[x]
      BY <1>1, <1>2 DEF LastKnown
    <3> QED
      BY <1>1, <1>12, <2>1, <3>1
  <2> QED
    BY <1>12, <1>13, <2>2 DEF LastKnown
<1>18. \A j \in 1 .. N - 1 : book.spans[j].stop \in Nat /\ book.spans[j].stop <= book.lastStop
  <2>1. ASSUME NEW j \in 1 .. N - 1
        PROVE  book.spans[j].stop \in Nat /\ book.spans[j].name \in Names
    <3>1. book.spans[j] \in SpanRecords
      BY <1>1, Fields
    <3> QED
      BY <3>1 DEF SpanRecords
  <2>2. \A x \in Names : book.open[x] \in {0, N}
    BY <1>1, <1>2 DEF OpenIsLast
  <2>3. \A j \in 1 .. N - 1 : book.open[book.spans[j].name] # j
    BY <1>1, <2>1, <2>2
  <2> QED
    BY <1>1, <2>1, <2>3 DEF RecordingInv, Timely
<1>19. d.lastStop <= clock + 1 /\ book.lastStop <= d.lastStop
  BY <1>1, <1>7, <1>10, <1>12 DEF Later
<1>20. ASSUME NEW j \in DOMAIN d.spans, d.open[d.spans[j].name] # j
       PROVE  d.spans[j].stop <= d.lastStop
  <2>1. CASE j = N
    <3>1. r.when = "teardown"
      BY <1>10, <1>12, <1>15, <1>20, <2>1
    <3> QED
      BY <1>1, <1>7, <1>10, <1>12, <2>1, <3>1 DEF Later
  <2>2. CASE j # N
    <3>1. j \in 1 .. N - 1 /\ d.lastStop \in Nat /\ d.spans[j] = book.spans[j]
      BY <1>1, <1>12, <1>13, <2>2, Fields
    <3> QED
      BY <1>7, <1>18, <1>19, <3>1
  <2> QED
    BY <2>1, <2>2
<1>21. /\ Outcome(old.outcome, r) # "crashed"
       /\ Outcome(old.outcome, r) = "rerun" <=> r.outcome = "rerun"
       /\ r.outcome \in {"failed", "rerun"} \/ N \in failed =>
            Outcome(old.outcome, r) \notin {"passed", "skipped"}
  BY <1>1, <1>8, <1>9 DEF Outcome, Reports
<1>22. Reported(d, r)
  <2>1. span.start <= span.stop /\ span.stop <= clock + 1
    BY <1>1, <1>7, <1>10
  <2>2. \A j \in 1 .. N - 1 : book.spans[j].stop <= span.start
    BY <1>7, <1>10
  <2>3. /\ \A x \in Names : d.open[x] # 0 => x = name /\ r.when # "teardown"
        /\ r.when # "teardown" => d.open[name] = N
    BY <1>14, <1>15
  <2>4. /\ span.outcome # "crashed"
        /\ span.outcome = "rerun" <=> r.outcome = "rerun"
        /\ r.outcome \in {"failed", "rerun"} \/ N \in failed =>
             span.outcome \notin {"passed", "skipped"}
    BY <1>10, <1>21
  <2> QED
    BY <1>11, <1>12, <1>16, <1>17, <1>19, <1>20, <2>1, <2>2, <2>3, <2>4
    DEF Reported, N, name, e
<1> QED
  BY <1>22 DEF d, r, N

(* A report keeps it all.                                                  *)
LEMMA ReportKeeps ==
  ASSUME NEW S, Sound(S), RecordingInv, Report
  PROVE  RecordingInv'
<1> DEFINE r == left[1]
           N == Running
           name == NodeId[runs[N].item]
           e == <<runs[N].item, runs[N].attempt>>
<1>1. /\ worker = "up" /\ session = "running" /\ left # <<>> /\ ~retry /\ r \in Reports
      /\ N \in Nat /\ N > 0 /\ N \in DOMAIN runs /\ runs[N].item \in Items
      /\ e \in Executions /\ name \in Names
      /\ book \in Books /\ Len(book.spans) = Known /\ Known \in Nat
      /\ Known = IF left \in Whole THEN N - 1 ELSE N
      /\ clock \in Nat /\ RecordingTyped /\ Ordered /\ DOMAIN book.spans = 1 .. Known
      /\ left \in Whole <=> r.when = "setup"
  BY Reporting DEF RecordingInv
<1>2. /\ left' = Tail(left) /\ retry' = (r.outcome = "rerun")
      /\ failed' = IF r.outcome \in {"failed", "rerun"} THEN failed \union {N} ELSE failed
      /\ UNCHANGED <<runs, worker, waits, session>>
  BY DEF Report
<1>3. /\ Tail(left) \in Begun
      /\ r.when = "teardown" => Tail(left) = <<Done>>
      /\ r.outcome = "rerun" => Tail(left) = <<>> /\ left \in ToRetry
      /\ Tail(left) = <<>> <=> r.when = "done" \/ r.outcome = "rerun"
      /\ Tail(left) \in ToRetry => left \in ToRetry
      /\ Tail(left) = <<Done>> => r.when = "teardown" /\ r.outcome # "rerun"
      /\ left = <<Done>> <=> r.when = "done"
  BY <1>1, Leaves DEF RecordingTyped
<1>4. left' \notin Whole
  <2>1. Whole \intersect Begun = {}
    BY DEF Whole, Begun, Final, Retried, Said, Done
  <2> QED
    BY <1>2, <1>3, <2>1
<1>5. Running' = N /\ Known' = N
  BY <1>2, <1>4 DEF Known, Running
<1>6. Ordered'
  <2>1. runs # <<>>
    BY <1>1 DEF Ordered
  <2>2. retry' => left' = <<>>
    BY <1>2, <1>3
  <2>3. retry' \/ left' \in ToRetry => left \in ToRetry
    BY <1>2, <1>3
  <2>4. left \in ToRetry => runs[N].attempt < MaxReruns
    BY <1>1 DEF Ordered
  <2>5. runs' = runs
    BY <1>2
  <2>6. retry' \/ left' \in ToRetry => (runs[Running].attempt < MaxReruns)'
    BY <1>5, <2>3, <2>4, <2>5
  <2> QED
    BY <1>1, <2>1, <2>2, <2>5, <2>6 DEF Ordered
<1>7. CrashShown'
  BY <1>1, <1>2 DEF CrashShown
<1>8. CASE r.when = "done"
  <2>1. UNCHANGED <<clock, book>>
    BY <1>8 DEF Report
  <2>2. left = <<Done>> /\ left' = <<>> /\ r.outcome = "passed" /\ ~retry' /\ failed' = failed
    <3>1. left = <<Done>>
      BY <1>3, <1>8
    <3>2. r = Done
      BY <3>1
    <3>3. r.outcome = "passed"
      BY <3>2 DEF Done, Said
    <3>4. left' = <<>>
      BY <1>2, <3>1
    <3> QED
      BY <1>2, <3>1, <3>3, <3>4
  <2>3. Known = N
    BY <1>1, <1>8
  <2>4. RecordingTyped'
    BY <1>1, <1>2, <1>3, <2>1, <2>2 DEF RecordingTyped
  <2>5. Matched'
    <3>1. \A k \in 1 .. Known : IsRun(book.spans[k], k)'
      BY <1>2, <2>1 DEF RecordingInv, Matched, IsRun
    <3>2. Known' = Known /\ book' = book /\ worker' = "up"
      BY <1>1, <1>2, <1>5, <2>1, <2>3
    <3>3. Len(book.spans) = Known /\ Known \in Nat
      BY <1>1
    <3> QED
      BY <3>1, <3>2, <3>3 DEF Matched
  <2>6. Retries' /\ Failures'
    BY <1>1, <1>2, <1>5, <2>1, <2>2, <2>3 DEF RecordingInv, Retries, Failures
  <2>7. Opening'
    BY <1>1, <1>2, <1>5, <2>1, <2>2 DEF RecordingInv, Opening, LastKnown, OpenIsLast
  <2>8. Timely'
    BY <1>1, <1>2, <2>1 DEF RecordingInv, Timely, LaneInOrder
  <2>9. Waited'
    <3>1. ASSUME NEW w \in waits', book'.executions[w] = 0 PROVE FALSE
      <4>1. Coming = e /\ N \in 1 .. Known
        BY <1>1, <2>3 DEF Coming, Ordered
      <4>2. book.executions[e] = N /\ w = Coming
        BY <1>1, <1>2, <2>1, <3>1, <4>1 DEF RecordingInv, Waited
      <4> QED
        BY <1>1, <2>1, <3>1, <4>1, <4>2
    <3> QED
      BY <1>1, <1>2, <1>5, <2>1, <2>3, <3>1 DEF RecordingInv, Waited, WaitsOnTheirOwn
  <2> QED
    BY <1>6, <1>7, <2>4, <2>5, <2>6, <2>7, <2>8, <2>9 DEF RecordingInv
<1>9. CASE r.when # "done"
  <2>1. clock' = clock + 1 /\ book' = AddReport(book, r, N, clock)
    BY <1>9 DEF Report
  <2>2. Reported(book', r)
    <3>1. r.when \in {"setup", "call", "teardown"}
      BY <1>1, <1>9 DEF Reports, Phases
    <3> QED
      BY <2>1, <3>1, SetupReported, CallReported
  <2> DEFINE span == book'.spans[N]
  <2>3. /\ book' \in Books /\ Len(book'.spans) = N /\ DOMAIN book'.spans = 1 .. N
        /\ \A j \in 1 .. N - 1 : book'.spans[j] = book.spans[j]
        /\ IsRun(span, N)
        /\ span.outcome # "crashed"
        /\ span.outcome = "rerun" <=> r.outcome = "rerun"
        /\ r.outcome \in {"failed", "rerun"} \/ N \in failed =>
             span.outcome \notin {"passed", "skipped"}
        /\ book'.executions = [book.executions EXCEPT ![e] = N]
    BY <2>2, Fields DEF Reported
  <2>4. /\ span.start <= span.stop /\ span.stop <= clock + 1
        /\ \A j \in 1 .. N - 1 : book.spans[j].stop <= span.start
        /\ book'.lastStop <= clock + 1
        /\ \A j \in 1 .. N : book'.open[book'.spans[j].name] # j =>
             book'.spans[j].stop <= book'.lastStop
    BY <2>2, <2>3 DEF Reported
  <2>5. /\ LastKnown(book') /\ OpenIsLast(book')
        /\ \A x \in Names : book'.open[x] # 0 => x = name /\ r.when # "teardown"
        /\ r.when # "teardown" => book'.open[name] = N
    BY <2>2 DEF Reported
  <2> HIDE DEF r, name, e, N
  <2>6. \A k \in 1 .. N - 1 : k \in 1 .. Known /\ k \in DOMAIN book.spans
    BY <1>1
  <2>7. RecordingTyped'
    BY <1>1, <1>2, <1>3, <2>1, <2>3 DEF RecordingTyped
  <2>8. Matched'
    <3>1. ASSUME NEW k \in 1 .. N PROVE IsRun(book'.spans[k], k)
      <4>1. CASE k = N
        BY <2>3, <4>1
      <4>2. CASE k # N
        <5>1. k \in 1 .. N - 1 /\ k \in 1 .. Known
          BY <1>1, <2>6, <4>2
        <5>2. IsRun(book.spans[k], k)
          BY <5>1 DEF RecordingInv, Matched
        <5> QED
          BY <2>3, <5>1, <5>2
      <4> QED
        BY <4>1, <4>2
    <3>2. ASSUME NEW k \in 1 .. N PROVE IsRun(book.spans[k], k)'
      BY <1>2, <3>1 DEF IsRun
    <3>3. Known' = N /\ Len(book'.spans) = N /\ N \in Nat
      BY <1>1, <1>5, <2>3
    <3> QED
      BY <3>2, <3>3 DEF Matched
  <2>9. Retries'
    <3>1. ASSUME NEW k \in 1 .. N
          PROVE  /\ book'.spans[k].outcome # "crashed"
                 /\ book'.spans[k].outcome = "rerun" <=>
                      IF k < N THEN runs[k + 1].item = runs[k].item ELSE retry'
      <4>1. CASE k = N
        <5>1. ~(k < N)
          BY <1>1, <4>1
        <5> QED
          BY <1>2, <2>3, <4>1, <5>1
      <4>2. CASE k # N
        <5>1. k \in 1 .. N - 1 /\ k < N /\ k \in DOMAIN book.spans
          BY <1>1, <2>6, <4>2
        <5>2. /\ book.spans[k].outcome # "crashed"
              /\ book.spans[k].outcome = "rerun" <=>
                   IF k < N THEN runs[k + 1].item = runs[k].item ELSE retry
          BY <1>1, <5>1 DEF RecordingInv, Retries, N
        <5> QED
          BY <2>3, <5>1, <5>2
      <4> QED
        BY <4>1, <4>2
    <3>2. /\ DOMAIN book'.spans = 1 .. N /\ Running' = N /\ runs' = runs
      BY <1>2, <1>5, <2>3
    <3> HIDE DEF span
    <3> QED
      BY <3>1, <3>2 DEF Retries
  <2>10. Failures'
    <3>1. failed \subseteq 1 .. Known
      BY DEF RecordingInv, Failures
    <3>2. failed' \subseteq 1 .. N
      <4>1. \A k \in 1 .. Known : k \in 1 .. N
        BY <1>1
      <4>2. N \in 1 .. N
        BY <1>1
      <4>3. failed' \subseteq failed \union {N}
        BY <1>2
      <4> QED
        BY <3>1, <4>1, <4>2, <4>3
    <3>3. ASSUME NEW k \in 1 .. N, book'.spans[k].from \intersect failed' # {}
          PROVE  book'.spans[k].outcome \notin {"passed", "skipped"}
      <4>1. CASE k = N
        <5>1. span.from = {N}
          BY <2>3 DEF IsRun
        <5>2. N \in failed'
          BY <3>3, <4>1, <5>1
        <5> QED
          BY <1>2, <2>3, <4>1, <5>2
      <4>2. CASE k # N
        <5>1. book'.spans[k] = book.spans[k] /\ book.spans[k].from = {k} /\ k \in 1 .. Known
          BY <1>1, <2>3, <2>6, <4>2 DEF RecordingInv, Matched, IsRun
        <5>2. book.spans[k].from \intersect failed # {}
          BY <1>2, <3>3, <4>2, <5>1
        <5> QED
          BY <1>1, <5>1, <5>2 DEF RecordingInv, Failures
      <4> QED
        BY <4>1, <4>2
    <3> QED
      BY <1>5, <2>3, <3>2, <3>3 DEF Failures
  <2>11. Opening'
    <3>1. r.when # "teardown" => Tail(left) # <<Done>>
      BY <1>3
    <3>2. r.outcome = "rerun" <=> retry'
      BY <1>2
    <3>3. Tail(left) = <<>> => retry'
      BY <1>2, <1>3, <1>9
    <3>4. name' = name /\ runs' # <<>>
      BY <1>1, <1>2, <1>5 DEF name, N, Ordered
    <3>5. ASSUME left' \in Begun \ {<<>>, <<Done>>} PROVE r.when # "teardown"
      BY <1>2, <1>3, <3>5
    <3> QED
      BY <1>1, <1>2, <1>5, <2>5, <3>1, <3>3, <3>4, <3>5 DEF Opening, name, N
  <2>12. Timely'
    <3>1. \A k \in 1 .. N - 1 : /\ book.spans[k].start <= book.spans[k].stop
                                /\ book.spans[k].stop <= clock
      BY <2>6 DEF RecordingInv, Timely
    <3>2. \A k \in 1 .. N - 1 : book.spans[k].stop \in Nat
      BY <1>1, <2>6, Fields DEF SpanRecords
    <3>3. \A k \in 1 .. N : /\ book'.spans[k].start <= book'.spans[k].stop
                            /\ book'.spans[k].stop <= clock + 1
      <4>1. ASSUME NEW k \in 1 .. N
            PROVE  /\ book'.spans[k].start <= book'.spans[k].stop
                   /\ book'.spans[k].stop <= clock + 1
        <5>1. CASE k = N
          BY <2>4, <5>1
        <5>2. CASE k # N
          <6>1. k \in 1 .. N - 1 /\ book'.spans[k] = book.spans[k]
            BY <1>1, <2>3, <5>2
          <6> QED
            BY <1>1, <3>1, <3>2, <6>1
        <5> QED
          BY <5>1, <5>2
      <4> QED
        BY <4>1
    <3>4. LaneInOrder'
      <4>1. ASSUME NEW k \in 1 .. N, NEW j \in 1 .. N, k < j
            PROVE  book'.spans[k].stop <= book'.spans[j].start
        <5>1. k \in 1 .. N - 1 /\ book'.spans[k] = book.spans[k]
          BY <1>1, <2>3, <4>1
        <5>2. CASE j = N
          BY <2>4, <5>1, <5>2
        <5>3. CASE j # N
          <6>1. j \in 1 .. N - 1 /\ book'.spans[j] = book.spans[j]
            BY <1>1, <2>3, <4>1, <5>3
          <6> QED
            BY <2>6, <4>1, <5>1, <6>1 DEF RecordingInv, Timely, LaneInOrder
        <5> QED
          BY <5>2, <5>3
      <4> QED
        BY <2>3, <4>1 DEF LaneInOrder
    <3> QED
      BY <2>1, <2>3, <2>4, <3>3, <3>4 DEF Timely
  <2>13. Waited'
    <3>1. \A x \in Executions : book'.executions[x] = IF x = e THEN N ELSE book.executions[x]
      BY <1>1, <2>3, Fields
    <3>2. \A k \in 1 .. N - 1 : <<runs[k].item, runs[k].attempt>> \in Executions
                                /\ <<runs[k].item, runs[k].attempt>> # e
      <4>1. \A k \in 1 .. N - 1 : k \in DOMAIN runs /\ \/ runs[k].item # runs[N].item
                                                       \/ runs[k].attempt # runs[N].attempt
        <5>1. ASSUME NEW k \in 1 .. N - 1
              PROVE  k \in DOMAIN runs /\ \/ runs[k].item # runs[N].item
                                          \/ runs[k].attempt # runs[N].attempt
          <6>1. k \in DOMAIN runs
            BY <1>1, RunsKnown DEF N
          <6>2. /\ runs[k].item \in Nat /\ runs[k].attempt \in Nat
                /\ runs[N].item \in Nat /\ runs[N].attempt \in Nat
            BY <1>1, <6>1, RunNumbers
          <6> QED
            BY <1>1, <6>1, <6>2 DEF Ordered
        <5> QED
          BY <5>1
      <4> QED
        BY <1>1, <4>1, RunsKnown DEF e
    <3>3. ASSUME NEW x \in Executions, book'.executions[x] # 0
          PROVE  /\ book'.executions[x] \in 1 .. N
                 /\ x = <<runs[book'.executions[x]].item, runs[book'.executions[x]].attempt>>
      <4>1. CASE x = e
        BY <1>1, <3>1, <4>1 DEF e
      <4>2. CASE x # e
        BY <1>1, <3>1, <3>3, <4>2 DEF RecordingInv, Waited
      <4> QED
        BY <4>1, <4>2
    <3>4. ASSUME NEW k \in 1 .. N
          PROVE  book'.executions[<<runs[k].item, runs[k].attempt>>] = k
      <4>1. CASE k = N
        BY <1>1, <3>1, <4>1 DEF e
      <4>2. CASE k # N
        BY <1>1, <2>6, <3>1, <3>2, <4>2 DEF RecordingInv, Waited
      <4> QED
        BY <4>1, <4>2
    <3>5. ASSUME NEW w \in waits' PROVE book'.executions[w] # 0
      <4>1. book.executions[w] # 0 \/ w = e
        <5>1. Coming = e
          BY <1>1 DEF Coming, e, N, Ordered
        <5> QED
          BY <1>2, <3>5, <5>1 DEF RecordingInv, Waited
      <4>2. w \in Executions
        BY <1>1, <1>2 DEF RecordingTyped
      <4> QED
        BY <1>1, <3>1, <4>1, <4>2
    <3> QED
      BY <1>1, <1>2, <1>5, <3>3, <3>4, <3>5 DEF Waited, WaitsOnTheirOwn
  <2> QED
    BY <1>6, <1>7, <2>7, <2>8, <2>9, <2>10, <2>11, <2>12, <2>13 DEF RecordingInv
<1> QED
  BY <1>8, <1>9

-----------------------------------------------------------------------------
(* The death of the worker is known.                                       *)

(* A span that is ended is still of its run.                               *)
SameRun(s, t) ==
  /\ s \in SpanRecords
  /\ s.name = t.name /\ s.item = t.item /\ s.occurrence = t.occurrence
  /\ s.attempt = t.attempt /\ s.start = t.start /\ s.phases = t.phases /\ s.from = t.from

IsEnded(s, t, now) ==
  SameRun(s, t) /\ s.stop = Later(t.stop, now) /\ s.outcome = "crashed"

(* What Crashed makes of a span.                                           *)
LEMMA CrashedFields ==
  ASSUME NEW t \in SpanRecords, NEW now \in Nat
  PROVE  IsEnded(Crashed(t, now), t, now)
<1> DEFINE s == Crashed(t, now)
           stop == Later(t.stop, now)
<1>1. stop \in Nat /\ "crashed" \in Outcomes
  BY DEF SpanRecords, Later, Outcomes
<1>2. s = [t EXCEPT !.stop = stop, !.outcome = "crashed"]
  BY DEF Crashed, SpanRecords
<1> HIDE DEF s, stop
<1>3. s \in SpanRecords
  BY <1>1, <1>2 DEF SpanRecords
<1>4. /\ s.name = t.name /\ s.item = t.item /\ s.occurrence = t.occurrence
      /\ s.attempt = t.attempt /\ s.start = t.start /\ s.phases = t.phases /\ s.from = t.from
      /\ s.stop = stop /\ s.outcome = "crashed"
  BY <1>1, <1>2 DEF SpanRecords
<1> QED
  BY <1>3, <1>4 DEF IsEnded, SameRun, s, stop

(* What worker_down makes of a book.                                       *)
IsDown(d, c, now) ==
  /\ d \in Books /\ Len(d.spans) = Len(c.spans)
  /\ d.last = c.last /\ d.executions = c.executions
  /\ \A x \in Names : d.open[x] = 0
  /\ \A k \in DOMAIN c.spans :
       IF \E x \in Names : c.open[x] = k THEN IsEnded(d.spans[k], c.spans[k], now)
       ELSE d.spans[k] = c.spans[k]
  /\ d.lastStop = IF \E x \in Names : c.open[x] # 0 THEN Later(c.lastStop, now) ELSE c.lastStop

(* worker_down ends what is open, as crashed.                              *)
LEMMA BookDown ==
  ASSUME NEW c \in Books, NEW now \in Nat
  PROVE  IsDown(Down(c, now), c, now)
<1> DEFINE d == Down(c, now)
           shut == {c.open[name] : name \in Names} \ {0}
           spans == [k \in DOMAIN c.spans |->
                       IF k \in shut THEN Crashed(c.spans[k], now) ELSE c.spans[k]]
           open == [name \in Names |-> 0]
           stop == IF shut = {} THEN c.lastStop ELSE Later(c.lastStop, now)
<1>1. /\ c.spans \in Seq(SpanRecords) /\ Len(c.spans) \in Nat /\ c.lastStop \in Nat
      /\ DOMAIN c.spans = 1 .. Len(c.spans)
      /\ \A k \in DOMAIN c.spans : c.spans[k] \in SpanRecords
  BY Fields
<1>2. d = [c EXCEPT !.spans = spans, !.open = open, !.lastStop = stop]
  BY DEF Down, Books
<1>3. \A k \in DOMAIN c.spans : k \in shut <=> \E x \in Names : c.open[x] = k
  BY <1>1
<1>4. shut = {} <=> ~\E x \in Names : c.open[x] # 0
  OBVIOUS
<1>5. stop \in Nat
  BY <1>1 DEF Later
<1> HIDE DEF d, shut
<1>6. \A k \in DOMAIN c.spans :
        /\ IF k \in shut THEN IsEnded(spans[k], c.spans[k], now) ELSE spans[k] = c.spans[k]
        /\ spans[k] \in SpanRecords
  <2>1. ASSUME NEW k \in DOMAIN c.spans
        PROVE  /\ IsEnded(Crashed(c.spans[k], now), c.spans[k], now)
               /\ c.spans[k] \in SpanRecords
    BY <1>1, CrashedFields
  <2>2. \A k \in DOMAIN c.spans : Crashed(c.spans[k], now) \in SpanRecords
    BY <2>1 DEF IsEnded, SameRun
  <2> QED
    BY <2>1, <2>2
<1>7. DOMAIN spans = 1 .. Len(c.spans)
  BY <1>1
<1> HIDE DEF spans
<1>8. spans \in Seq(SpanRecords) /\ Len(spans) = Len(c.spans)
  <2>1. spans \in [1 .. Len(c.spans) -> SpanRecords]
    BY <1>1, <1>6, <1>7 DEF spans
  <2> QED
    BY <1>1, <2>1
<1>9. open \in [Names -> Nat] /\ \A x \in Names : open[x] = 0
  OBVIOUS
<1> HIDE DEF open, stop
<1>10. /\ d \in Books /\ d.spans = spans /\ d.open = open /\ d.lastStop = stop
       /\ d.last = c.last /\ d.executions = c.executions
  BY <1>2, <1>5, <1>8, <1>9 DEF Books
<1>11. IsDown(d, c, now)
  BY <1>3, <1>4, <1>6, <1>8, <1>9, <1>10 DEF IsDown, stop
<1> QED
  BY <1>11 DEF d

(* What _crash makes of a book with nothing open, unless the test is known *)
(* to have crashed.                                                        *)
IsCrashed(d, c, item, now) ==
  LET k == Len(c.spans) + 1
  IN  /\ d \in Books /\ Len(d.spans) = k
      /\ \A j \in DOMAIN c.spans : d.spans[j] = c.spans[j]
      /\ d.spans[k].item = item /\ d.spans[k].name = NodeId[item] /\ d.spans[k].from = {}
      /\ d.spans[k].phases = {} /\ d.spans[k].outcome = "crashed"
      /\ d.spans[k].start = c.lastStop /\ d.spans[k].stop = Later(c.lastStop, now)
      /\ d.last = [c.last EXCEPT ![NodeId[item]] = k]
      /\ d.lastStop = Later(c.lastStop, d.spans[k].stop)
      /\ \A x \in Names : d.open[x] = 0
      /\ d.executions = c.executions

(* _crash adds a crashed span where the lane stands.                       *)
LEMMA BookCrashed ==
  ASSUME NEW c \in Books, LastKnown(c), NEW item \in Items, NEW now \in Nat,
         \A x \in Names : c.open[x] = 0, ~AlreadyDown(c, c.last[NodeId[item]])
  PROVE  IsCrashed(Crash(c, item, now), c, item, now)
<1> DEFINE d == Crash(c, item, now)
           name == NodeId[item]
           began == c.lastStop
           c1 == NewSpan(c, item, began, began)
           fresh == Fresh(c, item, began, began)
           k == Len(c.spans) + 1
           span == Crashed(fresh, now)
           c2 == [c1 EXCEPT !.spans[k] = span]
<1> HIDE DEF d, c1, fresh, span, c2
<1>1. /\ name \in Names /\ began \in Nat /\ c.open[name] = 0 /\ Len(c.spans) \in Nat /\ k \in Nat
      /\ DOMAIN c.spans = 1 .. Len(c.spans) /\ c.last \in [Names -> Nat]
      /\ c.open \in [Names -> Nat] /\ c.spans \in Seq(SpanRecords)
  <2>1. name \in Names
    BY DEF Names
  <2>2. c.open[name] = 0
    BY <2>1
  <2> HIDE DEF name
  <2> QED
    BY <2>1, <2>2, Fields
<1> USE DEF d, c1, fresh, span, c2
<1>2. IsOpened(c1, c, name, fresh)
  BY <1>1, Opened
<1>3. fresh \in SpanRecords
  BY <1>1, FreshTyped
<1>4. /\ fresh.item = item /\ fresh.name = name /\ fresh.from = {} /\ fresh.phases = {}
      /\ fresh.start = began /\ fresh.stop = began
  BY DEF Fresh
<1>5. d = Close([c1 EXCEPT !.spans[c1.open[name]] = Crashed(@, now)], c1.open[name])
  BY <1>1 DEF Crash, BeganAt
<1> HIDE DEF d, c1, fresh, name, began
<1>6. c1.open[name] = k /\ c1.spans[k] = fresh /\ k \in DOMAIN c1.spans /\ Len(c1.spans) = k
      /\ \A j \in DOMAIN c.spans : c1.spans[j] = c.spans[j] /\ j # k
  BY <1>1, <1>2, <1>3 DEF IsOpened
<1>7. d = Close(c2, k)
  BY <1>5, <1>6 DEF IsOpened, Books
<1>8. IsEnded(span, fresh, now)
  BY <1>3, CrashedFields
<1> HIDE DEF span
<1>9. /\ c2 \in Books /\ Len(c2.spans) = k /\ c2.spans[k] = span
      /\ \A j \in DOMAIN c.spans : c2.spans[j] = c.spans[j]
      /\ c2.open = c1.open /\ c2.last = c1.last /\ c2.lastStop = c1.lastStop
      /\ c2.executions = c1.executions
  <2>1. c1 \in Books /\ c1.spans \in Seq(SpanRecords)
    BY <1>2, Fields DEF IsOpened
  <2>2. span \in SpanRecords
    BY <1>8 DEF IsEnded, SameRun
  <2>3. [c1.spans EXCEPT ![k] = span] \in Seq(SpanRecords)
    BY <1>6, <2>1, <2>2
  <2>4. c2.spans = [c1.spans EXCEPT ![k] = span]
    BY <2>1 DEF Books
  <2>5. /\ c2.open = c1.open /\ c2.last = c1.last /\ c2.lastStop = c1.lastStop
        /\ c2.executions = c1.executions
    BY <2>1 DEF Books
  <2>6. c2 \in Books
    BY <2>1, <2>3 DEF Books
  <2> QED
    BY <1>1, <1>6, <2>1, <2>4, <2>5, <2>6
<1> HIDE DEF c2
<1>10. k \in DOMAIN c2.spans
  BY <1>1, <1>9, Fields
<1>11. IsClosed(d, c2, k)
  BY <1>7, <1>9, <1>10, Closed
<1>12. span.name = name /\ span.item = item /\ span.from = {} /\ span.phases = {}
       /\ span.start = began /\ span.stop = Later(began, now) /\ span.outcome = "crashed"
  BY <1>4, <1>8 DEF IsEnded, SameRun
<1>13. \A x \in Names : d.open[x] = 0
  BY <1>1, <1>2, <1>9, <1>11, <1>12 DEF IsOpened, IsClosed
<1>14. /\ d \in Books /\ d.spans = c2.spans /\ d.last = [c.last EXCEPT ![name] = k]
       /\ d.lastStop = Later(began, span.stop) /\ d.executions = c.executions
  BY <1>2, <1>9, <1>11 DEF IsOpened, IsClosed, began
<1>15. IsCrashed(d, c, item, now)
  BY <1>9, <1>12, <1>13, <1>14 DEF IsCrashed, name, began
<1> QED
  BY <1>15 DEF d

(* What the books say once the worker is known to be down, before the      *)
(* crash is reported: nothing is open and every span has ended.            *)
Settled(c) ==
  /\ c \in Books /\ Len(c.spans) = Known /\ LastKnown(c)
  /\ c.executions = book.executions
  /\ \A x \in Names : c.open[x] = 0
  /\ \A k \in 1 .. Known : IsRun(c.spans[k], k)
  /\ \A k \in 1 .. Known : c.spans[k].outcome \in {book.spans[k].outcome, "crashed"}
  /\ \A k \in 1 .. Known : c.spans[k].outcome = "crashed" => c.spans[k].stop = clock
  /\ \A k \in 1 .. Known : /\ c.spans[k].start = book.spans[k].start
                           /\ c.spans[k].name = book.spans[k].name
                           /\ c.spans[k].start <= c.spans[k].stop
                           /\ c.spans[k].stop <= c.lastStop
  /\ \A k \in 1 .. Known - 1 : c.spans[k] = book.spans[k]
  /\ c.lastStop <= clock

(* worker_down settles the books.                                          *)
LEMMA DownSettles ==
  ASSUME NEW S, Sound(S), RecordingInv, worker = "died", session = "running"
  PROVE  Settled(Down(book, clock))
<1> DEFINE c == Down(book, clock)
           N == Known
<1>1. /\ book \in Books /\ clock \in Nat /\ RecordingTyped /\ Ordered
      /\ Len(book.spans) = N /\ N \in Nat
      /\ LastKnown(book) /\ OpenIsLast(book) /\ book.lastStop <= clock
      /\ book.lastStop \in Nat
  BY Fields DEF RecordingInv, RecordingTyped, Matched, Opening, Timely
<1>2. DOMAIN book.spans = 1 .. N
  BY <1>1, Fields
<1>3. IsDown(c, book, clock)
  BY <1>1, BookDown
<1> HIDE DEF c
<1>4. \A k \in 1 .. N : IsRun(book.spans[k], k) /\ book.spans[k].outcome # "crashed"
  BY <1>1, <1>2 DEF RecordingInv, Matched, Retries
<1>5. ASSUME NEW k \in 1 .. N
      PROVE  /\ book.spans[k].name \in Names /\ book.spans[k].start \in Nat
             /\ book.spans[k].stop \in Nat
             /\ book.spans[k].start <= book.spans[k].stop
             /\ book.spans[k].stop <= clock
             /\ book.open[book.spans[k].name] # k =>
                  book.spans[k].stop <= book.lastStop
  <2>1. book.spans[k] \in SpanRecords
    BY <1>1, <1>2, Fields
  <2> QED
    BY <1>2, <2>1 DEF SpanRecords, RecordingInv, Timely
<1>6. ASSUME NEW k \in 1 .. N, \E x \in Names : book.open[x] = k
      PROVE  /\ k = N /\ book.open[book.spans[k].name] = k
             /\ IsEnded(c.spans[k], book.spans[k], clock)
             /\ c.spans[k].stop = clock /\ c.lastStop = clock
  <2>1. k # 0
    BY <1>1
  <2>2. k = N /\ book.open[book.spans[k].name] = k
    BY <1>1, <1>6, <2>1 DEF OpenIsLast
  <2>3. IsEnded(c.spans[k], book.spans[k], clock)
    BY <1>2, <1>3, <1>6 DEF IsDown
  <2>4. c.spans[k].stop = clock
    BY <1>1, <1>5, <2>3 DEF IsEnded, Later
  <2>5. c.lastStop = Later(book.lastStop, clock)
    BY <1>3, <1>6, <2>1 DEF IsDown
  <2>6. c.lastStop = clock
    BY <1>1, <2>5 DEF Later
  <2> QED
    BY <2>2, <2>3, <2>4, <2>6
<1>7. ASSUME NEW k \in 1 .. N, ~\E x \in Names : book.open[x] = k
      PROVE  c.spans[k] = book.spans[k] /\ book.open[book.spans[k].name] # k
  BY <1>2, <1>3, <1>5, <1>7 DEF IsDown
<1>8. c.lastStop \in Nat /\ book.lastStop <= c.lastStop /\ c.lastStop <= clock
  BY <1>1, <1>3 DEF IsDown, Later
<1>9. ASSUME NEW k \in 1 .. N
      PROVE  /\ IsRun(c.spans[k], k)
             /\ c.spans[k].outcome \in {book.spans[k].outcome, "crashed"}
             /\ c.spans[k].outcome = "crashed" => c.spans[k].stop = clock
             /\ c.spans[k].start = book.spans[k].start
             /\ c.spans[k].name = book.spans[k].name
             /\ c.spans[k].start <= c.spans[k].stop
             /\ c.spans[k].stop <= c.lastStop
             /\ k # N => c.spans[k] = book.spans[k]
  <2>1. CASE \E x \in Names : book.open[x] = k
    <3>1. /\ k = N /\ IsEnded(c.spans[k], book.spans[k], clock)
          /\ c.spans[k].stop = clock /\ c.lastStop = clock
      BY <1>6, <2>1
    <3>2. IsRun(c.spans[k], k)
      BY <1>4, <3>1 DEF IsRun, IsEnded, SameRun
    <3>3. c.spans[k].start <= clock
      BY <1>1, <1>5, <3>1 DEF IsEnded, SameRun
    <3> QED
      BY <1>1, <3>1, <3>2, <3>3 DEF IsEnded, SameRun
  <2>2. CASE ~\E x \in Names : book.open[x] = k
    <3>1. c.spans[k] = book.spans[k] /\ book.open[book.spans[k].name] # k
      BY <1>7, <2>2
    <3>2. book.spans[k].stop <= book.lastStop
      BY <1>5, <3>1
    <3> QED
      BY <1>1, <1>4, <1>5, <1>8, <3>1, <3>2
  <2> QED
    BY <2>1, <2>2
<1>10. \A k \in 1 .. N - 1 : k \in 1 .. N /\ k # N
  BY <1>1
<1>11. LastKnown(c)
  <2>1. c.last = book.last /\ DOMAIN c.spans = 1 .. N /\ c.spans \in Seq(SpanRecords)
    BY <1>1, <1>3, Fields DEF IsDown
  <2>2. ASSUME NEW x \in Names
        PROVE  /\ c.last[x] \in 0 .. N
               /\ c.last[x] # 0 => c.spans[c.last[x]].name = x
               /\ \A k \in 1 .. N : c.spans[k].name = x => k <= c.last[x]
    <3>1. /\ book.last[x] \in 0 .. N
          /\ book.last[x] # 0 => book.spans[book.last[x]].name = x
          /\ \A k \in 1 .. N : book.spans[k].name = x => k <= book.last[x]
      BY <1>1, <1>2 DEF LastKnown
    <3>2. book.last[x] # 0 => book.last[x] \in 1 .. N
      BY <1>1, <3>1
    <3> QED
      BY <1>9, <2>1, <3>1, <3>2
  <2> QED
    BY <1>1, <1>3, <2>1, <2>2 DEF LastKnown, IsDown
<1>12. Settled(c)
  BY <1>1, <1>3, <1>8, <1>9, <1>10, <1>11 DEF Settled, IsDown
<1> QED
  BY <1>12 DEF c

(* A span whose stop is set to what it is stays what it is.                *)
LEMMA SameStop ==
  ASSUME NEW s \in SpanRecords
  PROVE  [s EXCEPT !.stop = s.stop] = s
<1> DEFINE t == [s EXCEPT !.stop = s.stop]
<1>1. DOMAIN t = DOMAIN s /\ \A x \in DOMAIN s : t[x] = s[x]
  BY DEF SpanRecords
<1>2. t = [x \in DOMAIN t |-> t[x]] /\ s = [x \in DOMAIN s |-> s[x]]
  BY DEF SpanRecords
<1> QED
  BY <1>1, <1>2

(* The crash of the item the worker was at: a span of its own, unless the  *)
(* item's last span was open.                                              *)
LEMMA CrashShows ==
  ASSUME NEW S, Sound(S), RecordingInv, NEW c, Settled(c), Foremost \in Items
  PROVE  LET d == Crash(c, Foremost, clock)
         IN  /\ d \in Books /\ Len(d.spans) \in {Known, Known + 1}
             /\ d.executions = c.executions /\ LastKnown(d)
             /\ \A x \in Names : d.open[x] = 0
             /\ \A k \in 1 .. Known : d.spans[k] = c.spans[k]
             /\ Len(d.spans) = Known + 1 =>
                  /\ IsCrash(d.spans[Known + 1])
                  /\ d.spans[Known + 1].start = c.lastStop
                  /\ d.spans[Known + 1].stop = clock
             /\ d.lastStop = IF Len(d.spans) = Known THEN c.lastStop ELSE clock
             /\ \E k \in 1 .. Len(d.spans) :
                  d.spans[k].name = NodeId[Foremost] /\ d.spans[k].outcome = "crashed"
<1> DEFINE d == Crash(c, Foremost, clock)
           name == NodeId[Foremost]
           N == Known
           last == c.last[name]
<1>1. /\ clock \in Nat /\ c \in Books /\ Len(c.spans) = N /\ N \in Nat
      /\ DOMAIN c.spans = 1 .. N /\ name \in Names /\ c.lastStop <= clock
      /\ c.lastStop \in Nat /\ \A x \in Names : c.open[x] = 0
      /\ c.spans \in Seq(SpanRecords)
  BY Fields DEF RecordingInv, RecordingTyped, Settled, Names
<1>2. Len(book.spans) = N \/ Len(book.spans) = N + 1
  BY DEF RecordingInv, Matched
<1>3. LastKnown(c)
  BY DEF Settled
<1>4. CASE AlreadyDown(c, last)
  <2>1. last \in 1 .. N /\ c.spans[last].outcome = "crashed" /\ c.spans[last].name = name
    BY <1>1, <1>3, <1>4 DEF AlreadyDown, LastKnown
  <2>2. c.spans[last].stop = clock
    BY <2>1 DEF Settled
  <2>3. d = [c EXCEPT !.spans[last].stop = Later(@, clock)]
    BY <1>1, <1>4 DEF Crash
  <2>4. [c.spans[last] EXCEPT !.stop = clock] = c.spans[last]
    BY <1>1, <2>1, <2>2, SameStop
  <2>5. Later(c.spans[last].stop, clock) = clock
    BY <1>1, <2>2 DEF Later
  <2>6. d = [c EXCEPT !.spans = [c.spans EXCEPT ![last] = c.spans[last]]]
    <3> DEFINE stop == Later(c.spans[last].stop, clock)
    <3>1. d = [c EXCEPT !.spans = [c.spans EXCEPT ![last] = [c.spans[last] EXCEPT !.stop = stop]]]
      BY <1>1, <2>1, <2>3 DEF Books
    <3> HIDE DEF d, stop
    <3>2. stop = clock
      BY <2>5 DEF stop
    <3> QED
      BY <2>4, <3>1, <3>2
  <2>7. [c.spans EXCEPT ![last] = c.spans[last]] = c.spans
    BY <1>1, <2>1
  <2>8. d = [c EXCEPT !.spans = c.spans]
    BY <2>6, <2>7
  <2>9. d = c
    BY <1>1, <2>8 DEF Books
  <2> HIDE DEF d
  <2> QED
    BY <1>1, <1>3, <2>1, <2>9 DEF d
<1>5. CASE ~AlreadyDown(c, last)
  <2>1. IsCrashed(d, c, Foremost, clock)
    BY <1>1, <1>3, <1>5, BookCrashed
  <2> HIDE DEF d
  <2>2. /\ d \in Books /\ Len(d.spans) = N + 1 /\ DOMAIN d.spans = 1 .. N + 1
        /\ d.executions = c.executions /\ \A x \in Names : d.open[x] = 0
        /\ \A k \in 1 .. N : d.spans[k] = c.spans[k]
        /\ d.last = [c.last EXCEPT ![name] = N + 1] /\ c.last \in [Names -> Nat]
    BY <1>1, <2>1, Fields DEF IsCrashed
  <2>3. /\ d.spans[N + 1].item = Foremost /\ d.spans[N + 1].name = name
        /\ d.spans[N + 1].from = {} /\ d.spans[N + 1].phases = {}
        /\ d.spans[N + 1].outcome = "crashed" /\ d.spans[N + 1].start = c.lastStop
        /\ d.spans[N + 1].stop = Later(c.lastStop, clock)
        /\ d.lastStop = Later(c.lastStop, d.spans[N + 1].stop)
    BY <1>1, <2>1 DEF IsCrashed
  <2>4. d.spans[N + 1].stop = clock /\ d.lastStop = clock
    BY <1>1, <2>3 DEF Later
  <2>5. LastKnown(d)
    <3>1. ASSUME NEW x \in Names
          PROVE  /\ d.last[x] \in 0 .. N + 1
                 /\ d.last[x] # 0 => d.spans[d.last[x]].name = x
                 /\ \A k \in 1 .. N + 1 : d.spans[k].name = x => k <= d.last[x]
      <4>1. /\ c.last[x] \in 0 .. N
            /\ c.last[x] # 0 => c.last[x] \in 1 .. N /\ c.spans[c.last[x]].name = x
            /\ \A k \in 1 .. N : c.spans[k].name = x => k <= c.last[x]
        BY <1>1, <1>3 DEF LastKnown
      <4>2. CASE x = name
        <5>1. d.last[x] = N + 1
          BY <2>2, <4>2
        <5> QED
          BY <1>1, <2>3, <4>2, <5>1
      <4>3. CASE x # name
        <5>1. d.last[x] = c.last[x]
          BY <2>2, <4>3
        <5>2. d.spans[N + 1].name # x
          BY <2>3, <4>3
        <5>3. \A k \in 1 .. N + 1 : k = N + 1 \/ k \in 1 .. N
          BY <1>1
        <5> QED
          BY <1>1, <2>2, <4>1, <5>1, <5>2, <5>3
      <4> QED
        BY <4>2, <4>3
    <3> QED
      BY <2>2, <3>1 DEF LastKnown
  <2>6. IsCrash(d.spans[N + 1])
    BY <2>3 DEF IsCrash
  <2>7. N + 1 \in 1 .. N + 1 /\ N + 1 # N
    BY <1>1
  <2> QED
    BY <2>2, <2>3, <2>4, <2>5, <2>6, <2>7 DEF d
<1> QED
  BY <1>4, <1>5

(* The controller learns of the death.                                     *)
LEMMA ErrorDownKeeps ==
  ASSUME NEW S, Sound(S), RecordingInv, ErrorDown
  PROVE  RecordingInv'
<1> DEFINE c == Down(book, clock)
           N == Known
<1>1. /\ worker = "died" /\ session = "running" /\ worker' = "down"
      /\ book' = IF Foremost \in Items THEN Crash(c, Foremost, clock) ELSE c
      /\ UNCHANGED <<runs, left, retry, failed, clock, waits, session>>
  BY DEF ErrorDown
<1>2. Settled(c)
  BY <1>1, DownSettles
<1> HIDE DEF c
<1>3. /\ book' \in Books /\ Len(book'.spans) \in {N, N + 1}
      /\ book'.executions = book.executions /\ LastKnown(book')
      /\ \A x \in Names : book'.open[x] = 0
      /\ \A k \in 1 .. N : book'.spans[k] = c.spans[k]
      /\ Len(book'.spans) = N + 1 => /\ IsCrash(book'.spans[N + 1])
                                      /\ book'.spans[N + 1].start = c.lastStop
                                      /\ book'.spans[N + 1].stop = clock
      /\ book'.lastStop = IF Len(book'.spans) = N THEN c.lastStop ELSE clock
      /\ Foremost \in Items => \E k \in 1 .. Len(book'.spans) :
           book'.spans[k].name = NodeId[Foremost] /\ book'.spans[k].outcome = "crashed"
  <2>1. CASE Foremost \in Items
    BY <1>1, <1>2, <2>1, CrashShows DEF Settled
  <2>2. CASE Foremost \notin Items
    BY <1>1, <1>2, <2>2 DEF Settled
  <2> QED
    BY <2>1, <2>2
<1>4. /\ N \in Nat /\ DOMAIN book'.spans = 1 .. Len(book'.spans) /\ clock \in Nat
      /\ Len(book.spans) = N /\ RecordingTyped /\ Ordered /\ DOMAIN book.spans = 1 .. N
      /\ c.lastStop \in Nat /\ c \in Books /\ DOMAIN c.spans = 1 .. N
  BY <1>1, <1>2, <1>3, Fields, RunsKnown DEF RecordingInv, Matched, RecordingTyped, Settled
<1>5. Known' = N /\ Running' = Running /\ Foremost' = Foremost /\ Coming' = Coming
  BY <1>1 DEF Known, Running, Foremost, Coming
<1>6. \A k \in 1 .. Len(book'.spans) : k \in 1 .. N \/ (k = N + 1 /\ Len(book'.spans) = N + 1)
  BY <1>3, <1>4
<1>7. RecordingTyped' /\ Ordered'
  BY <1>1, <1>3, <1>5 DEF RecordingInv, RecordingTyped, Ordered
<1>8. Matched'
  <2>1. \A k \in 1 .. N : IsRun(book'.spans[k], k)
    BY <1>2, <1>3 DEF Settled
  <2>2. ASSUME NEW k \in 1 .. N PROVE IsRun(book.spans[k], k)'
    BY <1>1, <2>1 DEF IsRun
  <2>3. Len(book'.spans) = N + 1 => IsCrash(book.spans[N + 1])'
    BY <1>1, <1>3, <1>5 DEF IsCrash
  <2> QED
    BY <1>1, <1>3, <1>5, <2>2, <2>3 DEF Matched
<1>9. Retries'
  BY <1>1 DEF Retries
<1>10. Failures'
  <2>1. failed' = failed /\ failed \subseteq 1 .. N
    BY <1>1 DEF RecordingInv, Failures
  <2>2. ASSUME NEW k \in DOMAIN book'.spans, book'.spans[k].from \intersect failed # {}
        PROVE  book'.spans[k].outcome \notin {"passed", "skipped"}
    <3>1. k \in 1 .. N
      BY <1>3, <1>4, <1>6, <2>2 DEF IsCrash
    <3>2. /\ book'.spans[k].from = book.spans[k].from
          /\ book'.spans[k].outcome \in {book.spans[k].outcome, "crashed"}
      BY <1>2, <1>3, <1>4, <3>1 DEF Settled, IsRun, RecordingInv, Matched
    <3> QED
      BY <1>4, <2>2, <3>1, <3>2 DEF RecordingInv, Failures
  <2> QED
    BY <1>5, <2>1, <2>2 DEF Failures
<1>11. Opening'
  BY <1>1, <1>3 DEF Opening, OpenIsLast
<1>12. ASSUME NEW k \in 1 .. N
       PROVE  /\ book'.spans[k].start = book.spans[k].start
              /\ book'.spans[k].start <= book'.spans[k].stop
              /\ book'.spans[k].stop <= c.lastStop
              /\ book'.spans[k].stop \in Nat
  <2>1. c.spans[k] \in SpanRecords
    BY <1>4, Fields
  <2>2. c.spans[k].stop \in Nat
    BY <2>1 DEF SpanRecords
  <2>3. book'.spans[k] = c.spans[k]
    BY <1>3
  <2> QED
    BY <1>2, <2>2, <2>3 DEF Settled
<1>13. Timely'
  <2>1. c.lastStop <= clock /\ c.lastStop <= book'.lastStop /\ book'.lastStop <= clock
    BY <1>2, <1>3, <1>4 DEF Settled
  <2>2. ASSUME NEW k \in DOMAIN book'.spans
        PROVE  /\ book'.spans[k].start <= book'.spans[k].stop
               /\ book'.spans[k].stop <= clock
               /\ book'.spans[k].stop <= book'.lastStop
    <3>1. CASE k \in 1 .. N
      <4>1. book'.lastStop \in Nat
        BY <1>3, Fields
      <4> QED
        BY <1>4, <1>12, <2>1, <3>1, <4>1
    <3>2. CASE k \notin 1 .. N
      <4>1. k = N + 1 /\ Len(book'.spans) = N + 1 /\ N + 1 # N
        BY <1>4, <1>6, <3>2
      <4> QED
        BY <1>3, <1>4, <2>1, <4>1
    <3> QED
      BY <3>1, <3>2
  <2>3. LaneInOrder'
    <3>1. ASSUME NEW k \in DOMAIN book'.spans, NEW j \in DOMAIN book'.spans, k < j
          PROVE  book'.spans[k].stop <= book'.spans[j].start
      <4>1. CASE j \in 1 .. N
        <5>1. k \in 1 .. N - 1 /\ k \in 1 .. N
          BY <1>4, <3>1, <4>1
        <5>2. book'.spans[k] = book.spans[k]
          BY <1>2, <1>3, <5>1 DEF Settled
        <5>3. book.spans[k].stop <= book.spans[j].start
          BY <1>4, <3>1, <4>1, <5>1 DEF RecordingInv, Timely, LaneInOrder
        <5> QED
          BY <1>12, <4>1, <5>2, <5>3
      <4>2. CASE j \notin 1 .. N
        <5>1. j = N + 1 /\ Len(book'.spans) = N + 1 /\ k \in 1 .. N
          BY <1>4, <1>6, <3>1, <4>2
        <5> QED
          BY <1>3, <1>12, <5>1
      <4> QED
        BY <4>1, <4>2
    <3> QED
      BY <3>1 DEF LaneInOrder
  <2> QED
    BY <1>1, <2>1, <2>2, <2>3 DEF Timely
<1>14. Waited'
  BY <1>1, <1>3, <1>5 DEF RecordingInv, Waited, WaitsOnTheirOwn
<1>15. CrashShown'
  <2>1. ASSUME Foremost \in Items
        PROVE  \E s \in Spans' : s.name = NodeId[Foremost] /\ s.outcome = "crashed"
    <3>1. PICK k \in 1 .. Len(book'.spans) :
            book'.spans[k].name = NodeId[Foremost] /\ book'.spans[k].outcome = "crashed"
      BY <1>3, <2>1
    <3> QED
      BY <1>4, <3>1 DEF Spans
  <2> QED
    BY <1>5, <2>1 DEF CrashShown
<1> QED
  BY <1>7, <1>8, <1>9, <1>10, <1>11, <1>13, <1>14, <1>15 DEF RecordingInv

-----------------------------------------------------------------------------
(* The session is over.                                                    *)

(* What finish makes of a span: it is given its waits, and ended if it is  *)
(* still open.                                                             *)
Given(t, own) == [t EXCEPT !.waits = own]

Left(s, now) ==
  [s EXCEPT !.stop = Later(@, now),
            !.outcome = IF "teardown" \in s.phases THEN @ ELSE "crashed"]

(* A span that is given its waits is otherwise what it was.                *)
LEMMA GivenFields ==
  ASSUME NEW t \in SpanRecords, NEW own \in SUBSET Executions
  PROVE  /\ SameRun(Given(t, own), t) /\ Given(t, own).waits = own
         /\ Given(t, own).stop = t.stop /\ Given(t, own).outcome = t.outcome
<1> DEFINE s == Given(t, own)
<1>1. s = [t EXCEPT !.waits = own]
  BY DEF Given
<1> HIDE DEF s
<1>2. s \in SpanRecords
  BY <1>1 DEF SpanRecords
<1>3. /\ s.name = t.name /\ s.item = t.item /\ s.occurrence = t.occurrence
      /\ s.attempt = t.attempt /\ s.start = t.start /\ s.phases = t.phases /\ s.from = t.from
      /\ s.stop = t.stop /\ s.outcome = t.outcome /\ s.waits = own
  BY <1>1 DEF SpanRecords
<1> QED
  BY <1>2, <1>3 DEF SameRun, s

(* A span that is ended at the end keeps its outcome or is crashed.        *)
LEMMA LeftFields ==
  ASSUME NEW t \in SpanRecords, NEW now \in Nat
  PROVE  /\ SameRun(Left(t, now), t) /\ Left(t, now).waits = t.waits
         /\ Left(t, now).stop = Later(t.stop, now)
         /\ Left(t, now).outcome \in {t.outcome, "crashed"}
<1> DEFINE s == Left(t, now)
           stop == Later(t.stop, now)
           outcome == IF "teardown" \in t.phases THEN t.outcome ELSE "crashed"
<1>1. s = [t EXCEPT !.stop = stop, !.outcome = outcome]
  BY DEF Left, SpanRecords
<1>2. stop \in Nat /\ outcome \in Outcomes /\ outcome \in {t.outcome, "crashed"}
  BY DEF SpanRecords, Later, Outcomes
<1> HIDE DEF s, stop, outcome
<1>3. s \in SpanRecords
  BY <1>1, <1>2 DEF SpanRecords
<1>4. /\ s.name = t.name /\ s.item = t.item /\ s.occurrence = t.occurrence
      /\ s.attempt = t.attempt /\ s.start = t.start /\ s.phases = t.phases /\ s.from = t.from
      /\ s.stop = stop /\ s.outcome = outcome /\ s.waits = t.waits
  BY <1>1, <1>2 DEF SpanRecords
<1> QED
  BY <1>2, <1>3, <1>4 DEF SameRun, s, stop

(* What finish makes of a book.                                            *)
IsFinished(d, c, now) ==
  /\ d \in Books /\ Len(d.spans) = Len(c.spans)
  /\ d.last = c.last /\ d.lastStop = c.lastStop /\ d.executions = c.executions
  /\ \A x \in Names : d.open[x] = 0
  /\ \A k \in DOMAIN c.spans :
       /\ SameRun(d.spans[k], c.spans[k])
       /\ d.spans[k].waits = {w \in waits : SpanOf(c, w) = k}
       /\ \/ d.spans[k].stop = c.spans[k].stop /\ d.spans[k].outcome = c.spans[k].outcome
          \/ /\ c.open[c.spans[k].name] = k /\ d.spans[k].stop = Later(c.spans[k].stop, now)
             /\ d.spans[k].outcome \in {c.spans[k].outcome, "crashed"}

(* finish does this to every span.                                         *)
LEMMA BookFinished ==
  ASSUME NEW c \in Books, NEW now \in Nat, waits \in SUBSET Executions, NEW complete \in BOOLEAN
  PROVE  IsFinished(Finish(c, complete, now), c, now)
<1> DEFINE d == Finish(c, complete, now)
           own(k) == {w \in waits : SpanOf(c, w) = k}
           given(k) == Given(c.spans[k], own(k))
           stays(k) == complete \/ c.open[given(k).name] # k
           spans == [k \in DOMAIN c.spans |->
                       IF stays(k) THEN given(k) ELSE Left(given(k), now)]
           open == [name \in Names |-> 0]
<1>1. /\ c.spans \in Seq(SpanRecords) /\ Len(c.spans) \in Nat
      /\ DOMAIN c.spans = 1 .. Len(c.spans)
      /\ \A k \in DOMAIN c.spans : c.spans[k] \in SpanRecords
  BY Fields
<1>2. d = [c EXCEPT !.open = open, !.spans = spans]
  BY DEF Finish, Given, Left
<1> HIDE DEF d
<1>3. ASSUME NEW k \in DOMAIN c.spans
      PROVE  /\ SameRun(spans[k], c.spans[k]) /\ spans[k].waits = own(k)
             /\ \/ spans[k].stop = c.spans[k].stop /\ spans[k].outcome = c.spans[k].outcome
                \/ /\ c.open[c.spans[k].name] = k /\ spans[k].stop = Later(c.spans[k].stop, now)
                   /\ spans[k].outcome \in {c.spans[k].outcome, "crashed"}
  <2>1. own(k) \in SUBSET Executions /\ c.spans[k] \in SpanRecords
    BY <1>1
  <2>2. spans[k] = IF stays(k) THEN given(k) ELSE Left(given(k), now)
    OBVIOUS
  <2> DEFINE g == given(k)
  <2> HIDE DEF own, spans
  <2>3. /\ SameRun(g, c.spans[k]) /\ g.waits = own(k)
        /\ g.stop = c.spans[k].stop /\ g.outcome = c.spans[k].outcome
    BY <2>1, GivenFields
  <2>4. spans[k] = IF complete \/ c.open[g.name] # k THEN g ELSE Left(g, now)
    BY <2>2
  <2> HIDE DEF g
  <2>5. /\ SameRun(Left(g, now), g) /\ Left(g, now).waits = g.waits
        /\ Left(g, now).stop = Later(g.stop, now)
        /\ Left(g, now).outcome \in {g.outcome, "crashed"}
    BY <2>3, LeftFields DEF SameRun
  <2> QED
    BY <2>3, <2>4, <2>5 DEF SameRun
<1>4. DOMAIN spans = 1 .. Len(c.spans)
  BY <1>1
<1> HIDE DEF spans
<1>5. spans \in Seq(SpanRecords) /\ Len(spans) = Len(c.spans)
  <2>1. \A k \in 1 .. Len(c.spans) : spans[k] \in SpanRecords
    BY <1>1, <1>3 DEF SameRun
  <2>2. spans \in [1 .. Len(c.spans) -> SpanRecords]
    BY <1>1, <1>4, <2>1 DEF spans
  <2> QED
    BY <1>1, <2>2
<1>6. open \in [Names -> Nat] /\ \A x \in Names : open[x] = 0
  OBVIOUS
<1> HIDE DEF open
<1>7. /\ d \in Books /\ d.spans = spans /\ d.open = open /\ d.lastStop = c.lastStop
      /\ d.last = c.last /\ d.executions = c.executions
  BY <1>2, <1>5, <1>6 DEF Books
<1>8. IsFinished(d, c, now)
  BY <1>3, <1>5, <1>6, <1>7 DEF IsFinished
<1> QED
  BY <1>8 DEF d

(* Each wait is put on its own execution's span.                           *)
LEMMA WaitsPlaced ==
  ASSUME NEW S, Sound(S), RecordingInv, NEW k \in DOMAIN book.spans
  PROVE  LET s == book.spans[k]
             own == {w \in waits : SpanOf(book, w) = k}
         IN  /\ own \subseteq {<<s.item, s.attempt>>}
             /\ s.from # {} => waits \intersect {<<s.item, s.attempt>>} \subseteq own
<1> DEFINE s == book.spans[k]
<1>1. /\ book \in Books /\ RecordingTyped /\ Ordered /\ LastKnown(book)
      /\ DOMAIN book.spans = 1 .. Len(book.spans) /\ waits \in SUBSET Executions
      /\ Known \in Nat /\ Len(book.spans) \in {Known, Known + 1}
  BY Fields, RunsKnown DEF RecordingInv, RecordingTyped, Opening, Matched
<1>2. k \in 1 .. Known \/ (k = Known + 1 /\ IsCrash(s))
  BY <1>1 DEF RecordingInv, Matched
<1>3. \A j \in 1 .. Known : /\ IsRun(book.spans[j], j)
                           /\ book.executions[<<runs[j].item, runs[j].attempt>>] = j
  BY DEF RecordingInv, Matched, Waited
<1>4. ASSUME NEW w \in waits, SpanOf(book, w) = k PROVE w = <<s.item, s.attempt>>
  <2>1. w \in Executions /\ w[1] \in Items /\ NodeId[w[1]] \in Names
    BY <1>1 DEF Executions, Names
  <2>2. CASE book.executions[w] # 0
    <3>1. book.executions[w] = k
      BY <1>4, <2>2 DEF SpanOf
    <3>2. k \in 1 .. Known /\ w = <<runs[k].item, runs[k].attempt>>
      BY <2>1, <2>2, <3>1 DEF RecordingInv, Waited
    <3> QED
      BY <1>3, <3>2 DEF IsRun
  <2>3. CASE book.executions[w] = 0
    <3>1. k # 0
      BY <1>1
    <3>2. s.phases = {} /\ s.attempt = w[2]
      BY <1>4, <2>3, <3>1 DEF SpanOf
    <3>3. IsCrash(s)
      BY <1>2, <1>3, <3>2 DEF IsRun
    <3>4. w = Coming
      BY <2>3 DEF RecordingInv, Waited
    <3>5. Coming[1] = Foremost
      BY <1>1 DEF Coming, Foremost, Ordered
    <3>6. w[1] = s.item
      BY <3>3, <3>4, <3>5 DEF IsCrash
    <3>7. w = <<w[1], w[2]>>
      BY <2>1 DEF Executions
    <3> QED
      BY <3>2, <3>6, <3>7
  <2> QED
    BY <2>2, <2>3
<1>5. ASSUME s.from # {}, NEW w \in waits, w = <<s.item, s.attempt>> PROVE SpanOf(book, w) = k
  <2>1. k \in 1 .. Known
    BY <1>2, <1>5 DEF IsCrash
  <2>2. w = <<runs[k].item, runs[k].attempt>>
    BY <1>3, <1>5, <2>1 DEF IsRun
  <2>3. book.executions[w] = k /\ k # 0
    BY <1>3, <2>1, <2>2
  <2> QED
    BY <2>3 DEF SpanOf
<1> QED
  BY <1>4, <1>5

(* The end of the session keeps it all.                                    *)
LEMMA FinishKeeps ==
  ASSUME NEW S, Sound(S), RecordingInv, NEW complete \in BOOLEAN, SessionFinish(complete)
  PROVE  RecordingInv'
<1> DEFINE N == Len(book.spans)
<1>1. /\ session = "running" /\ session' = "over"
      /\ book' = Finish(book, complete, clock)
      /\ UNCHANGED <<runs, left, retry, failed, worker, clock, waits>>
  BY DEF SessionFinish
<1>2. /\ book \in Books /\ clock \in Nat /\ waits \in SUBSET Executions
      /\ RecordingTyped /\ Ordered /\ LastKnown(book) /\ OpenIsLast(book)
      /\ N \in Nat /\ DOMAIN book.spans = 1 .. N /\ Known \in Nat
      /\ N \in {Known, Known + 1} /\ book.lastStop \in Nat
  BY Fields, RunsKnown DEF RecordingInv, RecordingTyped, Opening, Matched
<1>3. IsFinished(book', book, clock)
  BY <1>1, <1>2, BookFinished
<1>4. /\ book' \in Books /\ Len(book'.spans) = N /\ DOMAIN book'.spans = 1 .. N
      /\ book'.last = book.last /\ book'.lastStop = book.lastStop
      /\ book'.executions = book.executions /\ \A x \in Names : book'.open[x] = 0
  BY <1>2, <1>3, Fields DEF IsFinished
<1>5. ASSUME NEW k \in 1 .. N
      PROVE  /\ SameRun(book'.spans[k], book.spans[k])
             /\ book'.spans[k].waits = {w \in waits : SpanOf(book, w) = k}
             /\ \/ /\ book'.spans[k].stop = book.spans[k].stop
                   /\ book'.spans[k].outcome = book.spans[k].outcome
                \/ /\ book.open[book.spans[k].name] = k
                   /\ book'.spans[k].stop = Later(book.spans[k].stop, clock)
                   /\ book'.spans[k].outcome \in {book.spans[k].outcome, "crashed"}
             /\ book.spans[k] \in SpanRecords
  BY <1>2, <1>3, Fields DEF IsFinished
<1>6. Known' = Known /\ Running' = Running /\ Foremost' = Foremost /\ Coming' = Coming
  BY <1>1 DEF Known, Running, Foremost, Coming
<1>7. ASSUME NEW k \in 1 .. N, book.open[book.spans[k].name] = k
      PROVE  k = N /\ worker # "down"
  <2>1. book.spans[k].name \in Names /\ k # 0
    BY <1>2, <1>5 DEF SpanRecords
  <2> QED
    BY <1>2, <1>7, <2>1 DEF OpenIsLast, RecordingInv, Opening
<1>8. ASSUME NEW k \in 1 .. N, worker = "down"
      PROVE  book'.spans[k].outcome = book.spans[k].outcome
  BY <1>5, <1>7, <1>8
<1>9. RecordingTyped' /\ Ordered'
  <2>1. RecordingTyped'
    BY <1>1, <1>2, <1>4, <1>6 DEF RecordingTyped
  <2>2. Ordered'
    BY <1>1, <1>2, <1>6 DEF Ordered
  <2> QED
    BY <2>1, <2>2
<1>10. Matched'
  <2>1. ASSUME NEW k \in 1 .. Known PROVE IsRun(book.spans[k], k)'
    <3>1. k \in 1 .. N /\ IsRun(book.spans[k], k)
      BY <1>2 DEF RecordingInv, Matched
    <3> QED
      BY <1>1, <1>5, <3>1 DEF IsRun, SameRun
  <2>2. ASSUME N = Known + 1 PROVE IsCrash(book.spans[Known + 1])'
    <3>1. IsCrash(book.spans[N]) /\ worker = "down" /\ N \in 1 .. N
      BY <1>2, <2>2 DEF RecordingInv, Matched
    <3>2. book'.spans[N].outcome = book.spans[N].outcome
      BY <1>8, <3>1
    <3>3. SameRun(book'.spans[N], book.spans[N])
      BY <1>5, <3>1
    <3>4. IsCrash(book'.spans[N])
      BY <3>1, <3>2, <3>3 DEF IsCrash, SameRun
    <3> QED
      BY <1>1, <1>6, <2>2, <3>4 DEF IsCrash
  <2> QED
    BY <1>1, <1>2, <1>4, <1>6, <2>1, <2>2 DEF RecordingInv, Matched
<1>11. Retries'
  BY <1>1 DEF Retries
<1>12. Failures'
  <2>1. ASSUME NEW k \in 1 .. N, book'.spans[k].from \intersect failed # {}
        PROVE  book'.spans[k].outcome \notin {"passed", "skipped"}
    <3>1. book.spans[k].outcome \notin {"passed", "skipped"}
      BY <1>2, <1>5, <2>1 DEF SameRun, RecordingInv, Failures
    <3> QED
      BY <1>5, <3>1
  <2> QED
    BY <1>1, <1>4, <1>6, <2>1 DEF RecordingInv, Failures
<1>13. Opening'
  <2>1. LastKnown(book')
    <3>1. ASSUME NEW x \in Names
          PROVE  /\ book'.last[x] \in 0 .. N
                 /\ book'.last[x] # 0 => book'.spans[book'.last[x]].name = x
                 /\ \A k \in 1 .. N : book'.spans[k].name = x => k <= book'.last[x]
      <4>1. /\ book.last[x] \in 0 .. N
            /\ book.last[x] # 0 => /\ book.last[x] \in 1 .. N
                                    /\ book.spans[book.last[x]].name = x
            /\ \A k \in 1 .. N : book.spans[k].name = x => k <= book.last[x]
        BY <1>2 DEF LastKnown
      <4> QED
        BY <1>4, <1>5, <4>1 DEF SameRun
    <3> QED
      BY <1>4, <3>1 DEF LastKnown
  <2>2. OpenIsLast(book')
    BY <1>4 DEF OpenIsLast
  <2> QED
    BY <1>1, <1>4, <2>1, <2>2 DEF Opening, LastKnown, OpenIsLast
<1>14. ASSUME NEW k \in 1 .. N
       PROVE  /\ book'.spans[k].start = book.spans[k].start
              /\ book'.spans[k].start <= book'.spans[k].stop
              /\ book'.spans[k].stop <= clock
              /\ k # N => book'.spans[k].stop = book.spans[k].stop
  <2>1. /\ book.spans[k].start <= book.spans[k].stop /\ book.spans[k].stop <= clock
        /\ book.spans[k].start \in Nat /\ book.spans[k].stop \in Nat
    BY <1>2, <1>5 DEF RecordingInv, Timely, SpanRecords
  <2>2. book'.spans[k].start = book.spans[k].start
    BY <1>5 DEF SameRun
  <2>3. book'.spans[k].stop \in {book.spans[k].stop, Later(book.spans[k].stop, clock)}
    BY <1>5
  <2>4. k # N => book'.spans[k].stop = book.spans[k].stop
    BY <1>5, <1>7
  <2> QED
    BY <1>2, <2>1, <2>2, <2>3, <2>4 DEF Later
<1>15. Timely'
  <2>1. LaneInOrder'
    <3>1. ASSUME NEW k \in 1 .. N, NEW j \in 1 .. N, k < j
          PROVE  book'.spans[k].stop <= book'.spans[j].start
      <4>1. k # N
        BY <1>2, <3>1
      <4>2. book.spans[k].stop <= book.spans[j].start
        BY <1>2, <3>1 DEF RecordingInv, Timely, LaneInOrder
      <4> QED
        BY <1>14, <4>1, <4>2
    <3> QED
      BY <1>4, <3>1 DEF LaneInOrder
  <2> QED
    BY <1>1, <1>4, <1>14, <2>1 DEF RecordingInv, Timely
<1>16. WaitsOnTheirOwn'
  <2>1. ASSUME NEW k \in 1 .. N
        PROVE  LET s == book'.spans[k]
               IN  /\ s.waits \subseteq {<<s.item, s.attempt>>}
                   /\ s.from # {} => waits \intersect {<<s.item, s.attempt>>} \subseteq s.waits
    <3>1. k \in DOMAIN book.spans
      BY <1>2
    <3>2. /\ book'.spans[k].item = book.spans[k].item
          /\ book'.spans[k].attempt = book.spans[k].attempt
          /\ book'.spans[k].from = book.spans[k].from
          /\ book'.spans[k].waits = {w \in waits : SpanOf(book, w) = k}
      BY <1>5 DEF SameRun
    <3> QED
      BY <3>1, <3>2, WaitsPlaced
  <2> QED
    BY <1>1, <1>4, <2>1 DEF WaitsOnTheirOwn, Spans
<1>17. Waited'
  BY <1>1, <1>4, <1>6, <1>16 DEF RecordingInv, Waited
<1>18. CrashShown'
  <2>1. ASSUME worker = "down", Foremost \in Items
        PROVE  \E s \in Spans' : s.name = NodeId[Foremost] /\ s.outcome = "crashed"
    <3>1. PICK k \in 1 .. N :
            book.spans[k].name = NodeId[Foremost] /\ book.spans[k].outcome = "crashed"
      BY <1>2, <2>1 DEF RecordingInv, CrashShown, Spans
    <3>2. book'.spans[k].name = NodeId[Foremost] /\ book'.spans[k].outcome = "crashed"
      BY <1>5, <1>8, <2>1, <3>1 DEF SameRun
    <3> QED
      BY <1>4, <3>2 DEF Spans
  <2> QED
    BY <1>1, <1>6, <2>1 DEF CrashShown
<1> QED
  BY <1>9, <1>10, <1>11, <1>12, <1>13, <1>15, <1>17, <1>18 DEF RecordingInv

-----------------------------------------------------------------------------
(* Every step, and what follows.                                           *)

(* Nothing is recorded at first.                                           *)
LEMMA RecordingStarts ==
  ASSUME NEW S, Sound(S), RecordingInit
  PROVE  RecordingInv
<1>1. /\ runs = <<>> /\ left = <<>> /\ retry = FALSE /\ failed = {} /\ worker = "up" /\ clock = 1
      /\ waits = {} /\ session = "running"
      /\ book.spans = <<>> /\ book.open = [x \in Names |-> 0]
      /\ book.last = [x \in Names |-> 0] /\ book.lastStop = 1
      /\ book.executions = [e \in Executions |-> 0]
  BY DEF RecordingInit
<1>2. book \in Books
  BY DEF RecordingInit, Books
<1>3. <<>> \notin Whole /\ <<>> \notin ToRetry /\ <<>> \in Begun
  BY DEF Whole, Final, Retried, ToRetry, Begun
<1>4. Running = 0 /\ Known = 0 /\ DOMAIN book.spans = {} /\ DOMAIN runs = {}
  BY <1>1, <1>3 DEF Known, Running
<1>5. RecordingTyped /\ Ordered
  <2>1. runs \in Seq(Executed) /\ left \in Whole \union Begun /\ waits \in SUBSET Executions
    BY <1>1, <1>3
  <2>2. RecordingTyped
    BY <1>1, <1>2, <2>1 DEF RecordingTyped
  <2>3. left = <<>> /\ ~retry /\ left \notin ToRetry
    BY <1>1, <1>3
  <2>4. \A n \in DOMAIN runs : FALSE
    BY <1>4
  <2>5. Ordered
    BY <2>3, <2>4 DEF Ordered
  <2> QED
    BY <2>2, <2>5
<1>6. Matched /\ Retries /\ Failures
  BY <1>1, <1>4 DEF Matched, Retries, Failures
<1>7. Opening
  BY <1>1, <1>4 DEF Opening, LastKnown, OpenIsLast
<1>8. Timely /\ CrashShown
  BY <1>1, <1>4 DEF Timely, LaneInOrder, CrashShown
<1>9. Waited
  <2>1. \A e \in Executions : book.executions[e] = 0
    BY <1>1
  <2>2. \A k \in 1 .. Known : FALSE
    BY <1>4
  <2> QED
    BY <1>1, <2>1, <2>2 DEF Waited, WaitsOnTheirOwn
<1> QED
  BY <1>5, <1>6, <1>7, <1>8, <1>9 DEF RecordingInv

(* Every step of the worker and the controller keeps it.                   *)
LEMMA RecordingKept ==
  ASSUME NEW S, Sound(S), RecordingInv, [RecordingNext]_recording
  PROVE  RecordingInv'
<1>1. CASE Wait
  BY <1>1, WaitKeeps
<1>2. CASE WaitInside
  BY <1>2, WaitInsideKeeps
<1>3. CASE Begin
  BY <1>3, BeginKeeps
<1>4. CASE Report
  BY <1>4, ReportKeeps
<1>5. CASE WorkerDies
  BY <1>5, DieKeeps
<1>6. CASE ErrorDown
  BY <1>6, ErrorDownKeeps
<1>7. CASE \E complete \in BOOLEAN : SessionFinish(complete)
  BY <1>7, FinishKeeps
<1>8. CASE UNCHANGED recording
  <2>1. UNCHANGED <<runs, left, retry, failed, worker, clock, waits, book, session>>
    BY <1>8 DEF recording
  <2>2. Known' = Known /\ Running' = Running /\ Foremost' = Foremost /\ Coming' = Coming
    BY <2>1 DEF Known, Running, Foremost, Coming
  <2>3. RecordingTyped' /\ Ordered' /\ Retries' /\ Failures'
    BY <2>1, <2>2 DEF RecordingInv, RecordingTyped, Ordered, Retries, Failures
  <2>4. Matched' /\ Opening' /\ Timely'
    BY <2>1, <2>2 DEF RecordingInv, Matched, IsRun, IsCrash, Opening, LastKnown, OpenIsLast,
                      Timely, LaneInOrder
  <2>5. Waited' /\ CrashShown'
    BY <2>1, <2>2 DEF RecordingInv, Waited, WaitsOnTheirOwn, CrashShown, Spans
  <2> QED
    BY <2>3, <2>4, <2>5 DEF RecordingInv
<1> QED
  BY <1>1, <1>2, <1>3, <1>4, <1>5, <1>6, <1>7, <1>8 DEF RecordingNext

(* What the runs check of it follows.                                      *)
LEMMA RecordedRight ==
  ASSUME RecordingInv
  PROVE  SpansAreExecutions /\ BadEndsShown
<1>1. /\ book \in Books /\ Known \in Nat /\ Len(book.spans) \in {Known, Known + 1}
      /\ DOMAIN book.spans = 1 .. Len(book.spans)
  BY Fields, RunsKnown DEF RecordingInv, RecordingTyped, Matched
<1>2. ASSUME NEW k \in DOMAIN book.spans
      PROVE  \/ k \in 1 .. Known /\ IsRun(book.spans[k], k)
             \/ book.spans[k].from = {}
  BY <1>1 DEF RecordingInv, Matched, IsCrash
<1>3. NumberedAsRun
  <2>1. ASSUME NEW k \in DOMAIN book.spans, NEW j \in DOMAIN book.spans, k # j
        PROVE  book.spans[k].from \intersect book.spans[j].from = {}
    BY <1>2, <2>1 DEF IsRun
  <2>2. ASSUME NEW k \in DOMAIN book.spans, NEW n \in book.spans[k].from
        PROVE  LET s == book.spans[k]
               IN  /\ s.from = {n} /\ s.attempt = runs[n].attempt
                   /\ s.occurrence =
                        Cardinality({i \in 1 .. runs[n].item - 1 : NodeId[i] = s.name})
    <3>1. IsRun(book.spans[k], k) /\ n = k
      BY <1>2, <2>2 DEF IsRun
    <3> QED
      BY <3>1 DEF IsRun, Earlier
  <2>3. ASSUME NEW s \in Spans, NEW n \in s.from
        PROVE  /\ s.from = {n} /\ s.attempt = runs[n].attempt
               /\ s.occurrence =
                    Cardinality({i \in 1 .. runs[n].item - 1 : NodeId[i] = s.name})
    <3>1. PICK k \in DOMAIN book.spans : s = book.spans[k]
      BY DEF Spans
    <3>2. n \in book.spans[k].from
      BY <2>3, <3>1
    <3>3. LET t == book.spans[k]
          IN  /\ t.from = {n} /\ t.attempt = runs[n].attempt
              /\ t.occurrence =
                   Cardinality({i \in 1 .. runs[n].item - 1 : NodeId[i] = t.name})
      BY <2>2, <3>2
    <3> QED
      BY <3>1, <3>3 DEF Spans
  <2> QED
    BY <2>1, <2>3 DEF NumberedAsRun
<1>4. FailureShown
  BY DEF RecordingInv, Failures, FailureShown, Spans
<1>5. LaneInOrder /\ WaitsOnTheirOwn /\ CrashShown
  BY DEF RecordingInv, Timely, Waited
<1> QED
  BY <1>3, <1>4, <1>5 DEF SpansAreExecutions, BadEndsShown

(* So it holds in every state.                                             *)
LEMMA AlwaysRecorded ==
  ASSUME NEW CONSTANT S, Sound(S)
  PROVE  RecordingSpec => []RecordingInv
<1>1. RecordingInit => RecordingInv
  BY RecordingStarts
<1>2. RecordingInv /\ [RecordingNext]_recording => RecordingInv'
  BY RecordingKept
<1> QED
  BY <1>1, <1>2, PTL DEF RecordingSpec

(* For every list of items, the recorded spans are the worker's executions:*)
(* none mixes two, occurrence and attempt are the true ones, they do not   *)
(* overlap, and each delay is on the execution that waited (_new_span,     *)
(* _crash, add_wait).                                                      *)
THEOREM SpansAlwaysExecutions ==
  ASSUME NEW CONSTANT S, Sound(S)
  PROVE  RecordingSpec => []SpansAreExecutions
<1>1. RecordingInv => SpansAreExecutions
  BY RecordedRight
<1> QED
  BY <1>1, AlwaysRecorded, PTL

(* For every list of items, a failure that was reported is never shown as  *)
(* passed or skipped, and a worker's death leaves a crashed span of the    *)
(* test it was at (_apply_outcome, worker_down, _crash).                   *)
THEOREM BadEndsAlwaysShown ==
  ASSUME NEW CONSTANT S, Sound(S)
  PROVE  RecordingSpec => []BadEndsShown
<1>1. RecordingInv => BadEndsShown
  BY RecordedRight
<1> QED
  BY <1>1, AlwaysRecorded, PTL
===============================================================================
