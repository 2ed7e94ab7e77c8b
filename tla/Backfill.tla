------------------------------- MODULE Backfill ------------------------------
(***************************************************************************)
(* The gate under a clock: what the scheduler passes to Admission as the   *)
(* projected end of a test, Lane.free, against when the test really ends.  *)
(* Estimates are exact, so every test takes the seconds it was charged;    *)
(* the time a worker waits for its slots is what the projections may miss. *)
(* One test per worker is looked at, the head of its queue: dispatched, it *)
(* is admitted at once or waits in line, runs, and completes.              *)
(***************************************************************************)
EXTENDS Admission

CONSTANTS
  Lengths,   \* seconds a test may take
  MaxTests   \* bound: tests dispatched

VARIABLES
  now,      \* the controller's clock
  head,     \* worker -> slots and seconds of the head of its queue
  free,     \* worker -> lane.free
  ends,     \* worker -> when its running test really ends, 0 if none runs
  turn,     \* workers the running handler still has to check
  tests     \* tests dispatched so far

clock == <<now, head, free, ends, turn, tests>>

NoTest == [slots |-> 0, seconds |-> 0]

AtTurn(w) == turn # <<>> /\ Head(turn) = w

(* _fill and Lane.dispatch: the projected end is counted from now.         *)
Dispatch(w, slots, seconds) ==
  /\ AtTurn(w) /\ head[w] = NoTest
  /\ tests < MaxTests
  /\ head' = [head EXCEPT ![w] = [slots |-> slots, seconds |-> seconds]]
  /\ free' = [free EXCEPT ![w] = now + seconds]
  /\ tests' = tests + 1
  /\ UNCHANGED <<vars, now, ends, turn>>

NothingLeft(w) ==
  /\ AtTurn(w) /\ head[w] = NoTest
  /\ turn' = Tail(turn)
  /\ UNCHANGED <<vars, now, head, free, ends, tests>>

(* _refresh, when a plan runs dry: a lane projected to be free by now is   *)
(* assumed busy with its whole queue from now; of any other only the tests *)
(* behind the head are counted, whether or not the head is running.        *)
Refresh ==
  /\ turn # <<>>
  /\ free' = [w \in Workers |-> IF free[w] <= now THEN now + head[w].seconds ELSE free[w]]
  /\ UNCHANGED <<vars, now, head, ends, turn, tests>>

(* _raise: admitted, the test starts; refused, the worker joins the line.  *)
Start(w) ==
  /\ AtTurn(w) /\ head[w] # NoTest /\ ends[w] = 0
  /\ RaiseReserved(w, head[w].slots, free[w])
  /\ ends' = [ends EXCEPT ![w] = now + head[w].seconds]
  /\ turn' = Tail(turn)
  /\ UNCHANGED <<now, head, free, tests>>

Refuse(w) ==
  /\ AtTurn(w) /\ head[w] # NoTest /\ ends[w] = 0
  /\ RaiseRefused(w, head[w].slots, free[w], now)
  /\ turn' = Tail(turn)
  /\ UNCHANGED <<now, head, free, ends, tests>>

(* mark_test_complete: the slots are given back, the worker gets its next  *)
(* test, and then the waiting workers are checked, oldest first.           *)
Complete(w) ==
  /\ turn = <<>> /\ ends[w] = now
  /\ Recompute(w, 0, 1, FALSE)
  /\ head' = [head EXCEPT ![w] = NoTest]
  /\ ends' = [ends EXCEPT ![w] = 0]
  /\ free' = [free EXCEPT ![w] = now]
  /\ turn' = <<w>> \o line
  /\ UNCHANGED <<now, tests>>

Tick ==
  /\ turn = <<>>
  /\ \E w \in Workers : ends[w] # 0
  /\ \A w \in Workers : ends[w] # now
  /\ now' = now + 1
  /\ UNCHANGED <<vars, head, free, ends, turn, tests>>

ClockInit ==
  /\ Init
  /\ now = 1
  /\ head = [w \in Workers |-> NoTest]
  /\ free = [w \in Workers |-> 1]
  /\ ends = [w \in Workers |-> 0]
  /\ turn \in [1 .. Cardinality(Workers) -> Workers]
  /\ \A w \in Workers : \E i \in DOMAIN turn : turn[i] = w
  /\ tests = 0

ClockNext ==
  \/ \E w \in Workers :
       \/ \E slots \in 1 .. Budget, seconds \in Lengths : Dispatch(w, slots, seconds)
       \/ NothingLeft(w) \/ Start(w) \/ Refuse(w) \/ Complete(w)
  \/ Refresh
  \/ Tick

ClockSpec == ClockInit /\ [][ClockNext]_<<vars, clock>>

-----------------------------------------------------------------------------
(* Slots free or really given back by t, by others than those in X.        *)
ReallyFree(t, X) ==
  Free + Cardinality({u \in Pledged(reserved) :
                        u[1] \notin X /\ ends[u[1]] # 0 /\ ends[u[1]] <= t})

PastHead(w) ==
  /\ line # <<>> /\ LineHead # w
  /\ ends[w] = 0 /\ ends'[w] # 0
  /\ head[w].slots > Free - Shortfall(LineHead)

(* Of a test let past the head of the line: it ends before the head could  *)
(* have had its slots.                                                     *)
EndsBeforeHeadCould(w) ==
  \A t \in now .. ends'[w] - 1 :
    ReallyFree(t, {LineHead, w}) < Shortfall(LineHead)

(* "Backfilling may use pledged slots only when it finishes before the     *)
(* oldest waiter could start" (admission.py:3-4).                          *)
BackfillEndsInTime ==
  [][\A w \in Workers : PastHead(w) => EndsBeforeHeadCould(w)]_<<vars, clock>>

(* It does when nobody's projected end is older than the start of its      *)
(* test: the rule is right, the projections of workers that waited are not.*)
FreshProjections(w) ==
  /\ free[w] = now + head[w].seconds
  /\ \A v \in Workers : ends[v] # 0 => reserved[v].until = ends[v]

FreshBackfillEndsInTime ==
  [][\A w \in Workers :
       PastHead(w) /\ FreshProjections(w) => EndsBeforeHeadCould(w)]_<<vars, clock>>
=============================================================================
