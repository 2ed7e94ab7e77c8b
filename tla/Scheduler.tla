------------------------------ MODULE Scheduler ------------------------------
(***************************************************************************)
(* The `load` mode of DurationScheduling (pytest_timing/xdist_scheduler.py)*)
(* over one resource domain with a CPU gate, with the workers it drives    *)
(* and the part of xdist's controller session it runs under.               *)
(*                                                                         *)
(* The controller is one thread: it takes an event of a worker, runs the   *)
(* handler to its end and looks for the next one.  The handlers call each  *)
(* other in a cycle (check_schedule, _shutdown, _replan, _admit_waiting,   *)
(* _force), so the calls still to be made are kept on a stack, `todo`, and *)
(* one action is one call.  Workers run, exit and crash between any two of *)
(* these steps, as they do.                                                *)
(*                                                                         *)
(* The planner is left open: it may lay tests out over the live lanes, and *)
(* move unsent tests between them, in any way.  So are projected times: a  *)
(* backfill may turn out to end early enough or not.  Every test counts as *)
(* one unit of the seconds kept dispatched.                                *)
(*                                                                         *)
(* A test may reach a fixture only at run time (getfixturevalue).  Its     *)
(* worker then asks for the slots of the set-up and blocks until a grant   *)
(* names its request; when it has waited too long it gives the set-up up,  *)
(* and waits for the slots to unwind with (CpuMeter, pytest_timing/        *)
(* demand.py).                                                             *)
(***************************************************************************)
EXTENDS Costs, Sequences

CONSTANTS
  Workers,      \* the workers the run starts with
  Spares,       \* the replacements xdist may start for crashed ones
  Budget,       \* slots of the domain
  Ahead,        \* tests the time budget of a queue (_budget) is worth
  Reaches,      \* test -> the fixtures it reaches at run time only
  Shared,       \* the fixtures that outlive their test: not function-scoped
  MaxAsks,      \* bound: run-time requests of one worker
  MaxCrashes,   \* bound: workers that crash
  MaxRestarts,  \* xdist's --max-worker-restart
  MaxMoves      \* bound: moves of the limit by pressure feedback

ASSUME BudgetAssumption  == Budget \in Nat \ {0}
ASSUME AheadAssumption   == Ahead \in Nat
ASSUME ReachesAssumption ==
  Reaches \in [Tests -> SUBSET Fixtures] /\ Shared \subseteq Fixtures /\ MaxAsks \in Nat
ASSUME CrashesAssumption ==
  /\ MaxCrashes \in Nat /\ MaxRestarts \in Nat /\ MaxMoves \in Nat
  /\ Workers \cap Spares = {}
  /\ IsFiniteSet(Workers) /\ IsFiniteSet(Spares)
  /\ Cardinality(Spares) >= MaxRestarts

Nodes == Workers \cup Spares

MinPending == 2   \* MIN_PENDING: a worker runs a test once it knows the next
NoSnapshot == -1  \* no timing_holds event of this worker was seen yet
Idling     == 0   \* no test is running
Asking     == -1  \* the running test waits for a grant

VARIABLES
  todo,        \* the controller's calls still to be made
  pending,     \* tests not dispatched: planned ones and orphans
  plan,        \* node -> its lane's unsent tests
  queue,       \* node -> node2pending: dispatched, not known to be complete
  charge,      \* test -> what its dispatch was charged
  fixtures,    \* node -> lane.fixtures, projected to the end of its queue
  withdrawn,   \* `cancelled`: tests taken back from a worker shut down early
  waiting,     \* nodes waiting for slots or parked, oldest first
  ask,         \* node -> slots it waits for in the gate's line, 0 outside it
  limit,       \* the gate's limit
  reserved,    \* node -> its reservation at the gate
  forced,      \* admissions over the limit
  live,        \* node -> live_holds: the last snapshot of its fixture holds
  requests,    \* node -> the run-time request its running test waits for
  registered,  \* nodes the scheduler knows
  told,        \* nodes a shutdown was sent to
  down,        \* nodes whose channel has ended (set off the main thread)
  session,     \* xdist's controller session: stopping, failures
  status,      \* node -> what its process is doing
  inbox,       \* node -> tests it was sent and has not finished, in order
  using,       \* node -> slots its running test takes, Idling or Asking
  permit,      \* node -> its meter's last request, and what became of it
  grants,      \* node -> grants sent to it and not received
  alive,       \* node -> fixture instances alive in its process
  skip,        \* node -> tests it was told not to run
  events,      \* node -> what it sent and the controller has not taken
  started,     \* tests some worker began to run
  reported,    \* tests whose completion the controller took
  crashed,     \* tests reported as crashed
  moves        \* moves of the limit so far

work    == <<pending, plan, queue, charge, fixtures>>
gate    == <<limit, reserved, forced>>
line    == <<waiting, ask>>
nodes   == <<live, requests, registered, told>>
process == <<status, using, alive, started, permit>>
outcome == <<reported, crashed>>

vars == <<todo, work, withdrawn, gate, line, nodes, down, session, process,
          inbox, skip, grants, events, outcome, moves>>

-----------------------------------------------------------------------------
(* The calls on the stack.                                                 *)

Check(w)     == [op |-> "check", node |-> w]
Fill(w, out) == [op |-> "fill", node |-> w, out |-> out]
Rest(w)      == [op |-> "rest", node |-> w]
Shutdown(w)  == [op |-> "shutdown", node |-> w]
Replan(S)    == [op |-> "replan", tests |-> S]
Admit        == [op |-> "admit"]
Stalls       == [op |-> "stalls"]
Remove(w)    == [op |-> "remove", node |-> w]
Restart      == [op |-> "restart"]
Stop(w)      == [op |-> "stop", node |-> w]
Loop         == [op |-> "loop"]
Retry(w, release) == [op |-> "retry", node |-> w, release |-> release]

At(call)    == todo # <<>> /\ Head(todo) = call
AtOp(op)    == todo # <<>> /\ Head(todo).op = op
Call(calls) == todo' = calls \o Tail(todo)
Return      == todo' = Tail(todo)

Elements(s)   == {s[i] : i \in DOMAIN s}
Orders(S)     == {s \in [1 .. Cardinality(S) -> S] : Elements(s) = S}
Each(Op(_), s) == [i \in DOMAIN s |-> Op(s[i])]

-----------------------------------------------------------------------------
(* The gate: class Admission, its line ordered as `waiting` is.  A         *)
(* projected time is 1 (early enough, or past) or 2 (too late).            *)

Projections   == {1, 2}
NoReservation == [slots |-> 0, busy |-> FALSE]

G == INSTANCE Admission WITH
  Workers   <- Nodes,
  MaxDemand <- Budget + HoldOf(Fixtures) + Greatest({Peak(t, {}) : t \in Tests} \cup {1}),
  Never     <- 3,
  MaxSince  <- 1,
  MaxForced <- 1,
  reserved  <- [w \in Nodes |-> [slots |-> reserved[w].slots, until |-> 1,
                                 busy |-> reserved[w].busy]],
  line      <- SelectSeq(waiting, LAMBDA w : ask[w] > 0),
  ask       <- [w \in Nodes |-> [slots |-> ask[w],
                                 since |-> IF ask[w] > 0 THEN 1 ELSE 0]]

Held(w) == reserved[w].slots

NoRequest   == [id |-> 0]
HasRequest(w) == requests[w] # NoRequest

(* Admission.assign *)
Assign(w, slots, busy) ==
  /\ reserved' = [reserved EXCEPT ![w] = [slots |-> slots, busy |-> busy]]
  /\ forced' = IF G!Exceeds(w, slots) THEN forced + 1 ELSE forced

(* _admitted: out of both lines *)

Admitted(w) ==
  /\ waiting' = G!Without(waiting, w)
  /\ ask' = [ask EXCEPT ![w] = 0]

Wait(w) == waiting' = IF w \in Elements(waiting) THEN waiting ELSE Append(waiting, w)

FirstOf(q) == q[1]  \* mutant: the head of a queue taken for its tail
LastOf(q)  == q[Len(q)]

-----------------------------------------------------------------------------
(* What a node holds, may run and needs.                                   *)

ShuttingDown(w) == w \in told \/ w \in down
LiveNodes       == {w \in registered : ~ShuttingDown(w)}

Holds(w) == IF live[w] # NoSnapshot THEN live[w] ELSE HoldOf(fixtures[w])

(* _granted, for a queue q: nothing while its test waits for a request.    *)
Sendable(w, q) ==
  LET last == IF w \in told THEN Len(q) ELSE Len(q) - 1
  IN  {q[i] : i \in 1 .. last} \ withdrawn

GrantedOf(w, q) ==
  IF HasRequest(w) /\ requests[w].test \in Elements(q) THEN {} ELSE Sendable(w, q)

(* _need *)
Need(w, S) ==
  LET run == S \ withdrawn
  IN  IF run = {} THEN Holds(w)
      ELSE Greatest({WithLiveHolds(charge[t], Larger(0, live[w])) : t \in run})

HeldElsewhere(w) ==
  LET others == LiveNodes \ {w}
  IN  Cardinality(UNION {{v} \X (1 .. Holds(v)) : v \in others})

(* _fill: t could never run on w while the others keep what they hold now. *)
Blocked(w, t) ==
  LET elsewhere == HeldElsewhere(w)
  IN  elsewhere > 0 /\ G!Clamp(Peak(t, fixtures[w])) + elsewhere > limit

(* _parked *)
Parked(w) == w \in Elements(waiting) /\ queue[w] = <<>> /\ plan[w] # {}

Low(w)       == Len(queue[w]) < MinPending \/ 2 * Len(queue[w]) < Ahead
WantsMore(w) == Len(queue[w]) < MinPending \/ Len(queue[w]) < Ahead

(* _reserve, for the queue q the node is left with *)
Reserve(w, q) ==
  IF ShuttingDown(w) /\ q = <<>>
  THEN Assign(w, 0, FALSE)
  ELSE Assign(w, Need(w, GrantedOf(w, q)), GrantedOf(w, q) # {})

-----------------------------------------------------------------------------
(* _raise and _grant: may the tail of the queue start?                     *)

Raised(w, need) ==
  /\ \/ /\ need <= Held(w)
        /\ reserved' = [reserved EXCEPT ![w].busy = TRUE]
     \/ /\ need > Held(w)
        /\ \E finish \in Projections : G!Fits(w, need, finish)
        /\ reserved' = [reserved EXCEPT ![w] = [slots |-> G!Clamp(need), busy |-> TRUE]]
  /\ Admitted(w)
  /\ UNCHANGED <<limit, forced>>

Refusable(w, need) ==
  need > Held(w) /\ \E finish \in Projections : ~G!Fits(w, need, finish)

TailNeed(w) == Need(w, Elements(queue[w]))

(* A rise behind lighter tests is deferred, not waited for.                *)
Deferred(w) == Len(queue[w]) > 1 /\ TailNeed(w) > Held(w)

Granted(w) == ~Deferred(w) /\ Raised(w, TailNeed(w))

NotGranted(w) ==
  /\ UNCHANGED gate
  /\ \/ Deferred(w) /\ UNCHANGED line
     \/ /\ ~Deferred(w)
        /\ Refusable(w, TailNeed(w))
        /\ Wait(w)
        /\ ask' = [ask EXCEPT ![w] = TailNeed(w)]

-----------------------------------------------------------------------------
(* Planning and dispatching.                                               *)

(* What no call below touches.                                             *)
still == <<withdrawn, live, requests, registered, down, session, process, skip,
           grants, events, outcome, moves>>

(* check_schedule: fill the queue, then see whether to shut down.          *)
CheckSchedule(w) ==
  /\ At(Check(w))
  /\ IF ShuttingDown(w) THEN Return
     ELSE Call((IF Low(w) THEN <<Fill(w, <<>>)>> ELSE <<>>) \o <<Rest(w)>>)
  /\ UNCHANGED <<still, work, gate, line, told, inbox>>

(* One round of the loop of _fill.                                         *)
Filling(w, out) == At(Fill(w, out)) /\ pending # {} /\ WantsMore(w)

(* The batch goes out when the loop ends. *)
Send(w, out) == inbox' = [inbox EXCEPT ![w] = @ \o out] /\ Return

FillDispatch(w, out, t) ==
  /\ Filling(w, out)
  /\ t \in plan[w] /\ ~Blocked(w, t)
  /\ IF queue[w] = <<>> THEN UNCHANGED <<gate, line>> ELSE Granted(w)
  /\ charge' = [charge EXCEPT ![t] = Charge(t, fixtures[w])]
  /\ fixtures' = [fixtures EXCEPT ![w] = After(t, @)]
  /\ plan' = [plan EXCEPT ![w] = @ \ {t}]
  /\ pending' = pending \ {t}
  /\ queue' = [queue EXCEPT ![w] = Append(@, t)]
  /\ Call(<<Fill(w, Append(out, t))>>)
  /\ UNCHANGED <<still, told, inbox>>

(* transfer: an empty plan is refilled with tests another live lane has    *)
(* not sent.                                                               *)
Copied(w, donor, chunk)      == [plan EXCEPT ![w] = chunk]  \* mutant: the donor keeps them
Transferred(w, donor, chunk) == [plan EXCEPT ![w] = chunk, ![donor] = @ \ chunk]

FillBorrow(w, out, donor, chunk) ==
  /\ Filling(w, out)
  /\ plan[w] = {} /\ donor \in LiveNodes \ {w}
  /\ chunk # {} /\ chunk \subseteq plan[donor]
  /\ plan' = Transferred(w, donor, chunk)
  /\ UNCHANGED <<still, todo, pending, queue, charge, fixtures, gate, line, told, inbox>>

(* The loop ends: enough was sent, nothing was left, or transfer found no  *)
(* move worth making.                                                      *)
FillDone(w, out) ==
  /\ At(Fill(w, out))
  /\ ~Filling(w, out) \/ plan[w] = {}
  /\ Send(w, out)
  /\ UNCHANGED <<still, work, gate, line, told>>

(* Everything planned is passed over: a node left with nothing parks.      *)
FillBlocked(w, out) ==
  /\ Filling(w, out)
  /\ plan[w] # {} /\ \A t \in plan[w] : Blocked(w, t)
  /\ IF queue[w] = <<>> THEN Wait(w) ELSE UNCHANGED waiting
  /\ Send(w, out)
  /\ UNCHANGED <<still, work, gate, ask, told>>

(* The test before the next one is not admitted: the batch ends there.     *)
FillRefused(w, out) ==
  /\ Filling(w, out)
  /\ queue[w] # <<>> /\ \E t \in plan[w] : ~Blocked(w, t)
  /\ NotGranted(w)
  /\ Send(w, out)
  /\ UNCHANGED <<still, work, told>>

(* The rest of check_schedule. *)
CheckRest(w) ==
  /\ At(Rest(w))
  /\ IF ~Parked(w) /\ (pending = {} \/ Len(queue[w]) < MinPending)
     THEN Call(<<Shutdown(w)>>)
     ELSE Return
  /\ UNCHANGED <<still, work, gate, line, told, inbox>>

(* _shutdown: the tail of the queue is admitted first; what is left in the *)
(* plan moves on, and the last node standing keeps it.                     *)
ShutdownRefused(w) ==
  /\ At(Shutdown(w))
  /\ ~ShuttingDown(w) /\ queue[w] # <<>>
  /\ NotGranted(w)
  /\ Return
  /\ UNCHANGED <<still, work, told, inbox>>

LastStanding(w) == LiveNodes = {w}

ShutdownSent(w) ==
  /\ At(Shutdown(w))
  /\ ~ShuttingDown(w)
  /\ IF queue[w] = <<>> THEN UNCHANGED <<gate, line>> ELSE Granted(w)
  /\ IF plan[w] # {} /\ LastStanding(w)
     THEN Return /\ UNCHANGED <<plan, told>>
     ELSE /\ Call(<<Replan(plan[w])>>)
          /\ plan' = [plan EXCEPT ![w] = {}]
          /\ told' = told \cup {w}
  /\ UNCHANGED <<still, pending, queue, charge, fixtures, inbox>>

ShutdownAgain(w) ==
  /\ At(Shutdown(w))
  /\ ShuttingDown(w)
  /\ Return
  /\ UNCHANGED <<still, work, gate, line, told, inbox>>

(* _replan: the planner lays S out over the live lanes, moving what is     *)
(* planned there already as it sees fit; then every node is checked.       *)
LayOut(S) ==
  LET open == S \cup UNION {plan[v] : v \in LiveNodes}
  IN  IF LiveNodes = {} THEN UNCHANGED plan
      ELSE \E lane \in [open -> LiveNodes] :
             plan' = [v \in Nodes |->
               IF v \in LiveNodes THEN {t \in open : lane[t] = v} ELSE plan[v]]

ReplanTests(S) ==
  /\ At(Replan(S))
  /\ IF S = {} THEN Return /\ UNCHANGED plan
     ELSE /\ \E order \in Orders(registered) : Call(Each(Check, order))
          /\ LayOut(S)
  /\ UNCHANGED <<still, pending, queue, charge, fixtures, gate, line, told, inbox>>

(* _admit_waiting: the waiting nodes are checked again, oldest first, then *)
(* a standstill is looked for.                                             *)
Visit(w) == IF HasRequest(w) THEN Retry(w, FALSE) ELSE Check(w)

AdmitWaiting ==
  /\ At(Admit)
  /\ Call(Append(Each(Visit, waiting), Stalls))
  /\ UNCHANGED <<still, work, gate, line, told, inbox>>

(* _resolve_stalls: when nothing runs and somebody waits, a parked node is *)
(* shut down; failing that, unless a node on its way out still holds slots,*)
(* the oldest head is forced (_force).                                     *)
(* Candidates are places in `waiting`, so the least of them is the oldest. *)
Candidates == {i \in DOMAIN waiting : waiting[i] \in LiveNodes \/ HasRequest(waiting[i])}
Holding    == {w \in registered : Held(w) > 0}  \* mutant: "shutting_down" dropped
Draining   == {w \in registered : ShuttingDown(w) /\ ~HasRequest(w) /\ Held(w) > 0}

AnyoneWaits == At(Stalls) /\ Candidates # {}  \* mutant: "idle" dropped
Standstill  == At(Stalls) /\ G!Idle /\ Candidates # {}

ResolveNothing ==
  /\ At(Stalls)
  /\ Standstill =>
       (\A i \in Candidates : ~Parked(waiting[i])) /\ Draining # {}
  /\ Return
  /\ UNCHANGED <<still, work, gate, line, told, inbox>>

ResolveParked ==
  /\ Standstill
  /\ \E i \in Candidates :
       /\ Parked(waiting[i])
       /\ \A j \in Candidates : j < i => ~Parked(waiting[j])
       /\ Call(<<Shutdown(waiting[i])>>)
  /\ UNCHANGED <<still, work, gate, line, told, inbox>>

Forceable(w) ==
  /\ Standstill
  /\ \E i \in Candidates : waiting[i] = w /\ \A j \in Candidates : i <= j
  /\ \A i \in Candidates : ~Parked(waiting[i])
  /\ Draining = {}

ResolveForce(w) ==
  /\ Forceable(w) /\ ~HasRequest(w)
  /\ Assign(w, TailNeed(w), TRUE)
  /\ Admitted(w)
  /\ Call(<<Check(w)>>)
  /\ UNCHANGED <<still, work, limit, told, inbox>>

-----------------------------------------------------------------------------
(* Run-time requests: a rise to the set-up's slots next to the live holds, *)
(* for a test that has begun.                                              *)

(* _request_charges: what a grant will charge the queued tests.            *)
RequestCharges(w) ==
  LET r == requests[w]
  IN  [t \in Tests |->
         IF t \notin Elements(queue[w]) \/ r.cancelled THEN charge[t]
         ELSE IF t = r.test THEN AddingFixture(charge[t], r.key, SetupSlots[r.key], Holds(w))
         ELSE IF r.key \in Shared THEN AddingFixture(charge[t], r.key, 0, 0)
         ELSE charge[t]]

(* _request_needs *)
RequestNeed(w) ==
  LET r      == requests[w]
      charges == RequestCharges(w)
      tests  == (Sendable(w, queue[w]) \cup {r.test}) \ withdrawn
      setup  == IF r.cancelled THEN 0 ELSE SetupSlots[r.key]
  IN  Greatest({setup + Holds(w)} \cup {WithLiveHolds(charges[t], Holds(w)) : t \in tests})

(* _complete_request: the charges are committed (_learn), the instance     *)
(* counts as alive after a queue that ends in its scope, and the worker is *)
(* told.                                                                   *)
Learnt(w) ==
  LET f == requests[w].key
  IN  /\ charge' = RequestCharges(w)
      /\ fixtures' = IF f \in Shared /\ f \in Kept(LastOf(queue[w]), {f})
                     THEN [fixtures EXCEPT ![w] = @ \cup {f}] ELSE fixtures

CompleteRequest(w) ==
  /\ requests' = [requests EXCEPT ![w] = NoRequest]
  /\ IF requests[w].cancelled THEN UNCHANGED <<charge, fixtures>> ELSE Learnt(w)
  /\ grants' = IF w \in down THEN grants ELSE [grants EXCEPT ![w] = Append(@, requests[w].id)]
  /\ UNCHANGED <<withdrawn, pending, plan, queue, live, registered, told, down, session,
                 process, inbox, skip, events, outcome, moves>>

(* _retry_request; the request's first refusal retries the whole line with *)
(* the slots that were let go for it.                                      *)
RetryGranted(w, release) ==
  /\ At(Retry(w, release))
  /\ Raised(w, RequestNeed(w))
  /\ CompleteRequest(w)
  /\ Return

RetryRefused(w, release) ==
  /\ At(Retry(w, release))
  /\ Refusable(w, RequestNeed(w))
  /\ Wait(w) /\ ask' = [ask EXCEPT ![w] = RequestNeed(w)]
  /\ IF release THEN Call(<<Admit>>) ELSE Return
  /\ UNCHANGED <<still, work, gate, told, inbox>>

ResolveForceRequest(w) ==
  /\ Forceable(w) /\ HasRequest(w)
  /\ Assign(w, RequestNeed(w), TRUE) /\ UNCHANGED limit
  /\ Admitted(w)
  /\ CompleteRequest(w)
  /\ Return

-----------------------------------------------------------------------------
(* Events the controller takes, each from a node's channel in order.       *)

Takes(w, kind) ==
  /\ todo = <<>>
  /\ events[w] # <<>> /\ Head(events[w])[1] = kind
  /\ events' = [events EXCEPT ![w] = Tail(@)]

(* Admission.set_limit keeps the limit within 1 .. Budget.                 *)
MayMove(step) == limit + step \in 1 .. Budget

(* mark_test_complete: the reservation shrinks to what may still run, the  *)
(* pressure is sampled (_sample, which may move the limit by one and       *)
(* retries the line if it rose), and the slots go to who is next.          *)
Completed(w) ==
  /\ Takes(w, "complete")
  /\ LET t == Head(events[w])[2]
         q == G!Without(queue[w], t)
     IN  /\ IF HasRequest(w) /\ requests[w].test = t
            THEN requests' = [requests EXCEPT ![w] = NoRequest] /\ Admitted(w)
            ELSE UNCHANGED <<requests, line>>
         /\ queue' = [queue EXCEPT ![w] = q]
         /\ charge' = [charge EXCEPT ![t] = NoCharge]
         /\ reported' = reported \cup {t}
         /\ Reserve(w, q)
  /\ \E step \in {-1, 0, 1} :
       /\ step # 0 => moves < MaxMoves /\ MayMove(step)
       /\ limit' = limit + step
       /\ moves' = IF step = 0 THEN moves ELSE moves + 1
       /\ todo' = (IF step = 1 THEN <<Admit>> ELSE <<>>) \o <<Check(w), Admit, Loop>>
  /\ UNCHANGED <<pending, plan, fixtures, withdrawn, live, registered, told, down,
                 session, process, inbox, skip, grants, crashed>>

(* update_holds; the loop of the session has nothing new to look at.       *)
HoldsChanged(w) ==
  /\ Takes(w, "holds")
  /\ live' = IF w \in registered THEN [live EXCEPT ![w] = Head(events[w])[2]] ELSE live
  /\ UNCHANGED <<todo, work, withdrawn, gate, line, requests, registered, told, down,
                 session, process, inbox, skip, grants, outcome, moves>>

(* request: while its test is blocked the worker is reserved what its      *)
(* fixtures hold.  A cancelled request that is still waiting becomes one   *)
(* for the slots the test was running with; one already granted needs      *)
(* nothing, that grant covers unwinding.                                   *)
NeverAnswered(w, m) == FALSE  \* mutant: every cancellation asks again
Answered(w, m) == m.cancelled /\ requests[w].id # m.id

Requested(w) ==
  /\ Takes(w, "request")
  /\ LET m == Head(events[w])[2]
     IN  /\ live' = [live EXCEPT ![w] = m.holds]
         /\ IF Answered(w, m)
            THEN todo' = <<Loop>> /\ UNCHANGED <<gate, line, requests>>
            ELSE /\ requests' = [requests EXCEPT ![w] =
                      [id |-> m.id, test |-> m.test, key |-> m.key, cancelled |-> m.cancelled]]
                 /\ IF m.cancelled THEN Admitted(w) ELSE UNCHANGED line
                 /\ Assign(w, m.holds, FALSE) /\ UNCHANGED limit
                 /\ todo' = <<Retry(w, TRUE), Loop>>
  /\ UNCHANGED <<work, withdrawn, registered, told, down, session, process, inbox, skip,
                 grants, outcome, moves>>

(* _release_runtime *)
SlotsKept(w) ==  \* mutant: gate.release forgotten
  /\ live' = [live EXCEPT ![w] = NoSnapshot]
  /\ requests' = [requests EXCEPT ![w] = NoRequest]
  /\ Admitted(w)
  /\ UNCHANGED gate

ReleaseRuntime(w) ==
  /\ reserved' = [reserved EXCEPT ![w] = NoReservation]
  /\ live' = [live EXCEPT ![w] = NoSnapshot]
  /\ requests' = [requests EXCEPT ![w] = NoRequest]
  /\ Admitted(w)
  /\ UNCHANGED <<limit, forced>>

(* Was the head of w's queue free to run?                                  *)
BegunByQueue(w) == queue[w] # <<>> /\ Head(queue[w]) \in GrantedOf(w, queue[w])  \* mutant
Begun(w) ==
  queue[w] # <<>> /\ (HasRequest(w) \/ Head(queue[w]) \in GrantedOf(w, queue[w]))
Unstarted(w)   == Elements(IF Begun(w) THEN Tail(queue[w]) ELSE queue[w])

(* remove_node: the head of the queue is reported as crashed if the node   *)
(* was free to run it, and the rest goes back to the pool and is planned   *)
(* again, like the unsent plan, over the nodes that are left.              *)
RemoveNode(w) ==
  /\ registered' = registered \ {w}
  /\ queue' = [queue EXCEPT ![w] = <<>>]
  /\ plan' = [plan EXCEPT ![w] = {}]
  /\ fixtures' = [fixtures EXCEPT ![w] = {}]
  /\ charge' = [t \in Tests |-> IF t \in Elements(queue[w]) THEN NoCharge ELSE charge[t]]
  /\ withdrawn' = withdrawn \ Elements(queue[w])
  /\ crashed' = IF Begun(w) THEN crashed \cup {Head(queue[w])} ELSE crashed
  /\ pending' = pending \cup Unstarted(w)
  /\ ReleaseRuntime(w)

Stranded(w) == Unstarted(w) \cup plan[w]

RemoveCalls(w) ==
  IF queue[w] = <<>> /\ plan[w] = {} THEN <<Admit>> ELSE <<Replan(Stranded(w)), Admit>>

(* worker_errordown: the node is removed, then replaced, unless too many   *)
(* have crashed.                                                           *)
Crashed(w) ==
  /\ Takes(w, "down")
  /\ RemoveNode(w)
  /\ todo' = RemoveCalls(w) \o <<Restart, Loop>>
  /\ UNCHANGED <<told, down, session, process, inbox, skip, grants, reported, moves>>

(* worker_workerfinished: worker_finished first, then remove_node.         *)
Finished(w) ==
  /\ Takes(w, "finished")
  /\ IF w \in registered
     THEN ReleaseRuntime(w) /\ todo' = <<Admit, Remove(w), Loop>>
     ELSE UNCHANGED <<gate, line, live, requests>> /\ todo' = <<Loop>>
  /\ UNCHANGED <<work, withdrawn, registered, told, down, session, process, inbox,
                 skip, grants, outcome, moves>>

FinishedRemove(w) ==
  /\ At(Remove(w))
  /\ RemoveNode(w)
  /\ Call(RemoveCalls(w))
  /\ UNCHANGED <<told, down, session, process, inbox, skip, grants, events, reported,
                 moves>>

(* add_node, or straight to its shutdown when the session is stopping.     *)
Ready(w) ==
  /\ Takes(w, "ready")
  /\ IF session.stopping
     THEN told' = told \cup {w} /\ UNCHANGED registered
     ELSE registered' = registered \cup {w} /\ UNCHANGED told
  /\ todo' = <<Loop>>
  /\ UNCHANGED <<work, withdrawn, gate, line, live, requests, down, session, process,
                 inbox, skip, grants, outcome, moves>>

(* schedule, for a node that joins later: work that lost its lane while no *)
(* node was alive is planned onto it.                                      *)
NoOrphans == {}  \* mutant: the newcomer is only checked
Orphans   == pending \ UNION {plan[v] : v \in registered}

Collected(w) ==
  /\ Takes(w, "collected")
  /\ IF session.stopping \/ w \notin registered THEN todo' = <<Loop>>
     ELSE IF Orphans # {} THEN todo' = <<Replan(Orphans), Loop>>
     ELSE \E order \in Orders(registered) : todo' = Append(Each(Check, order), Loop)
  /\ UNCHANGED <<work, withdrawn, gate, line, nodes, down, session, process, inbox,
                 skip, grants, outcome, moves>>

-----------------------------------------------------------------------------
(* xdist's controller session (DSession), as far as it drives the          *)
(* scheduler: it replaces crashed nodes, and when the tests are finished,  *)
(* or too many nodes have crashed, shuts every node down.                  *)

TriggerShutdown(s) ==
  IF s.stopping THEN session' = s /\ Return
  ELSE /\ session' = [s EXCEPT !.stopping = TRUE]
       /\ \E order \in Orders(registered) : Call(Each(Stop, order))

RestartNode ==
  /\ At(Restart)
  /\ LET failures == session.failures + 1
     IN  IF failures > MaxRestarts
         THEN /\ TriggerShutdown([session EXCEPT !.failures = failures])
              /\ UNCHANGED status
         ELSE /\ session' = [stopping |-> FALSE, failures |-> failures]
              /\ \E s \in Spares :
                   status[s] = "absent" /\ status' = [status EXCEPT ![s] = "booting"]
              /\ Return
  /\ UNCHANGED <<work, withdrawn, gate, line, nodes, down, using, alive, started,
                 permit, inbox, skip, grants, events, outcome, moves>>

TestsFinished ==
  /\ waiting = <<>> /\ pending = {}
  /\ \A w \in registered : Len(queue[w]) < MinPending

LoopOnce ==
  /\ At(Loop)
  /\ IF TestsFinished THEN TriggerShutdown(session) ELSE Return /\ UNCHANGED session
  /\ UNCHANGED <<work, withdrawn, gate, line, nodes, down, process, inbox, skip,
                 grants, events, outcome, moves>>

(* WorkerController.shutdown, which the scheduler has wrapped with         *)
(* _withdraw: what the node holds is granted if it fits; otherwise the     *)
(* tail of its queue is withdrawn, or, if the node cannot be told, counted *)
(* as forced.                                                              *)
Tell(w) == told' = IF w \in down THEN told ELSE told \cup {w}

NeverBlocked(w) == FALSE  \* mutant: its request is not looked at
BlockedInTest(w) == HasRequest(w)

StopGranted(w) ==
  /\ At(Stop(w)) /\ ~BlockedInTest(w)
  /\ IF queue[w] = <<>> THEN UNCHANGED <<gate, line>> ELSE Raised(w, TailNeed(w))
  /\ Tell(w)
  /\ Return
  /\ UNCHANGED <<still, work, inbox>>

(* A blocked test stays behind the gate.                                   *)
StopBlocked(w) ==
  /\ At(Stop(w)) /\ BlockedInTest(w)
  /\ Reserve(w, queue[w]) /\ UNCHANGED limit
  /\ Tell(w)
  /\ Return
  /\ UNCHANGED <<still, work, line, inbox>>

StopWithdraws(w) ==
  /\ At(Stop(w)) /\ ~BlockedInTest(w)
  /\ queue[w] # <<>> /\ Refusable(w, TailNeed(w))
  /\ IF w \in down
     THEN Assign(w, TailNeed(w), TRUE) /\ UNCHANGED <<withdrawn, skip>>
     ELSE LET tail == LastOf(queue[w])
          IN  /\ withdrawn' = withdrawn \cup {tail}
              /\ skip' = [skip EXCEPT ![w] = @ \cup {tail}]
              /\ Assign(w, Need(w, Elements(queue[w]) \ {tail}), Len(queue[w]) > 1)
  /\ Admitted(w)
  /\ Tell(w)
  /\ Return
  /\ UNCHANGED <<work, limit, live, requests, registered, down, session, process, inbox,
                 grants, events, outcome, moves>>

-----------------------------------------------------------------------------
(* The worker processes.  A worker runs a test when it knows the next one  *)
(* or was told that there is none, tears down what the next test does not  *)
(* lie in the scope of, and reports the change of its holds before the     *)
(* completion.                                                             *)

HoldsEvent(before, after) ==
  IF HoldOf(before) = HoldOf(after) THEN <<>> ELSE <<<<"holds", HoldOf(after)>>>>

Post(w, messages) == events' = [events EXCEPT ![w] = @ \o messages]

(* What no worker changes. *)
central == <<todo, work, withdrawn, gate, line, nodes, session, outcome, moves>>

Boot(w) ==
  /\ status[w] = "booting"
  /\ status' = [status EXCEPT ![w] = "up"]
  /\ Post(w, <<<<"ready", 0>>, <<"collected", 0>>>>)
  /\ UNCHANGED <<central, down, using, alive, started, permit, inbox, skip, grants>>

MayStart(w) ==
  /\ status[w] = "up" /\ using[w] = Idling
  /\ inbox[w] # <<>>
  /\ Len(inbox[w]) >= MinPending \/ w \in told

StartTest(w) ==
  /\ MayStart(w)
  /\ Head(inbox[w]) \notin skip[w]
  /\ LET t == Head(inbox[w])
     IN  /\ using' = [using EXCEPT ![w] = Peak(t, alive[w])]
         /\ alive' = [alive EXCEPT ![w] = After(t, @)]
         /\ started' = started \cup {t}
         /\ Post(w, HoldsEvent(alive[w], After(t, alive[w])))
  /\ UNCHANGED <<central, down, status, permit, inbox, skip, grants>>

(* A withdrawn test's protocol is skipped, and reported complete.          *)
Unreported(t) == <<>>  \* mutant: skipped without a word
Skipped(t)    == <<<<"complete", t>>>>

SkipTest(w) ==
  /\ MayStart(w)
  /\ Head(inbox[w]) \in skip[w]
  /\ inbox' = [inbox EXCEPT ![w] = Tail(@)]
  /\ Post(w, Skipped(Head(inbox[w])))
  /\ UNCHANGED <<central, down, process, skip, grants>>

FinishTest(w) ==
  /\ using[w] > Idling
  /\ LET left == IF Len(inbox[w]) > 1 THEN Kept(inbox[w][2], alive[w]) ELSE {}
     IN  /\ alive' = [alive EXCEPT ![w] = left]
         /\ Post(w, Append(HoldsEvent(alive[w], left), <<"complete", Head(inbox[w])>>))
  /\ using' = [using EXCEPT ![w] = Idling]
  /\ inbox' = [inbox EXCEPT ![w] = Tail(@)]
  /\ UNCHANGED <<central, down, status, started, permit, skip, grants>>

(* The running test reaches a fixture that was not reserved with it: the   *)
(* meter asks for the set-up's slots (_dynamic_request), unless it needs   *)
(* none, and blocks.                                                       *)
NotAsking == "none"
NoPermit  == [id |-> 0, state |-> NotAsking, granted |-> FALSE]

Ask(w) ==
  /\ using[w] > Idling
  /\ permit[w].id < MaxAsks
  /\ \E f \in Reaches[Head(inbox[w])] \ alive[w] :
       /\ SetupSlots[f] > 1 \/ Hold[f] > 0
       /\ permit' = [permit EXCEPT ![w] =
            [id |-> permit[w].id + 1, state |-> "asking", granted |-> FALSE, key |-> f]]
       /\ Post(w, <<<<"request", [id |-> permit[w].id + 1, test |-> Head(inbox[w]), key |-> f,
                                 holds |-> HoldOf(alive[w]), cancelled |-> FALSE]>>>>)
  /\ using' = [using EXCEPT ![w] = Asking]
  /\ UNCHANGED <<central, down, status, alive, started, inbox, skip, grants>>

(* _await: no grant within REQUEST_TIMEOUT.                                *)
GiveUp(w) ==
  /\ permit[w].state = "asking" /\ ~permit[w].granted
  /\ permit' = [permit EXCEPT ![w].state = "giving_up"]
  /\ Post(w, <<<<"request", [id |-> permit[w].id, test |-> Head(inbox[w]),
                            key |-> permit[w].key, holds |-> HoldOf(alive[w]),
                            cancelled |-> TRUE]>>>>)
  /\ UNCHANGED <<central, down, status, using, alive, started, inbox, skip, grants>>

(* grant, on the channel's receiver thread: only the current request's.    *)
GrantArrives(w) ==
  /\ grants[w] # <<>>
  /\ grants' = [grants EXCEPT ![w] = Tail(@)]
  /\ permit' = [permit EXCEPT ![w].granted =
       @ \/ (permit[w].state # NotAsking /\ Head(grants[w]) = permit[w].id)]
  /\ UNCHANGED <<central, down, status, using, alive, started, inbox, skip, events>>

(* Granted, the test goes on: the set-up runs, and succeeds or not; or, if *)
(* it was given up, the test fails and unwinds with the slots it ran with. *)
GoOn(w, reached) ==
  LET t == Head(inbox[w])
      f == permit[w].key
      setup == IF permit[w].state = "asking" THEN SetupSlots[f] ELSE 0
      after == IF reached THEN alive[w] \cup {f} ELSE alive[w]
  IN  /\ permit[w].granted
      /\ reached => permit[w].state = "asking"
      /\ permit' = [permit EXCEPT ![w] = [NoPermit EXCEPT !.id = permit[w].id]]
      /\ using' = [using EXCEPT ![w] =
           Larger(setup + HoldOf(alive[w]), Demand[t] + HoldOf(after))]
      /\ alive' = [alive EXCEPT ![w] = after]
      /\ Post(w, HoldsEvent(alive[w], after))
      /\ UNCHANGED <<central, down, status, started, inbox, skip, grants>>

Leave(w, how, message) ==
  /\ status' = [status EXCEPT ![w] = how]
  /\ using' = [using EXCEPT ![w] = Idling]
  /\ alive' = [alive EXCEPT ![w] = {}]
  /\ inbox' = [inbox EXCEPT ![w] = <<>>]
  /\ permit' = [permit EXCEPT ![w] = NoPermit]
  /\ grants' = [grants EXCEPT ![w] = <<>>]
  /\ down' = down \cup {w}
  /\ Post(w, <<<<message, 0>>>>)
  /\ UNCHANGED <<central, started, skip>>

Exit(w) ==
  /\ status[w] = "up" /\ w \in told
  /\ inbox[w] = <<>>
  /\ Leave(w, "exited", "finished")

Crash(w) ==
  /\ status[w] = "up" /\ w \in registered
  /\ Cardinality({v \in Nodes : status[v] = "dead"}) < MaxCrashes
  /\ Leave(w, "dead", "down")

-----------------------------------------------------------------------------
Terminated ==
  /\ todo = <<>>
  /\ \A w \in Nodes : events[w] = <<>> /\ status[w] \in {"absent", "exited", "dead"}

Stopped == Terminated /\ UNCHANGED vars

(* The workers have started and collected the tests; schedule lays them    *)
(* out and checks every node.                                              *)
Start ==
  /\ pending = Tests
  /\ plan = [w \in Nodes |-> {}]
  /\ queue = [w \in Nodes |-> <<>>]
  /\ charge = [t \in Tests |-> NoCharge]
  /\ fixtures = [w \in Nodes |-> {}]
  /\ withdrawn = {}
  /\ waiting = <<>>
  /\ ask = [w \in Nodes |-> 0]
  /\ limit = Budget
  /\ reserved = [w \in Nodes |-> NoReservation]
  /\ forced = 0
  /\ live = [w \in Nodes |-> NoSnapshot]
  /\ requests = [w \in Nodes |-> NoRequest]
  /\ registered = Workers
  /\ told = {}
  /\ down = {}
  /\ session = [stopping |-> FALSE, failures |-> 0]
  /\ status = [w \in Nodes |-> IF w \in Workers THEN "up" ELSE "absent"]
  /\ inbox = [w \in Nodes |-> <<>>]
  /\ using = [w \in Nodes |-> Idling]
  /\ alive = [w \in Nodes |-> {}]
  /\ skip = [w \in Nodes |-> {}]
  /\ permit = [w \in Nodes |-> NoPermit]
  /\ grants = [w \in Nodes |-> <<>>]
  /\ events = [w \in Nodes |-> <<>>]
  /\ started = {}
  /\ reported = {}
  /\ crashed = {}
  /\ moves = 0

Init == Start /\ todo = <<Replan(Tests), Loop>>

Filler(w, out) ==
  \/ \E t \in Tests : FillDispatch(w, out, t)
  \/ \E donor \in Nodes, chunk \in SUBSET pending : FillBorrow(w, out, donor, chunk)
  \/ FillDone(w, out)
  \/ FillBlocked(w, out)
  \/ FillRefused(w, out)

(* What the two modes have in common, and what `load` does its own way.    *)
Common(w) ==
  \/ ShutdownRefused(w) \/ ShutdownSent(w) \/ ShutdownAgain(w)
  \/ Completed(w) \/ HoldsChanged(w) \/ Finished(w) \/ Ready(w) \/ Collected(w)
  \/ StopGranted(w) \/ StopBlocked(w) \/ StopWithdraws(w)
  \/ Requested(w) \/ ResolveForce(w) \/ ResolveForceRequest(w)
  \/ \E release \in BOOLEAN : RetryGranted(w, release) \/ RetryRefused(w, release)

Anywhere ==
  \/ AtOp("replan") /\ ReplanTests(Head(todo).tests)
  \/ AdmitWaiting \/ ResolveNothing \/ ResolveParked
  \/ RestartNode

Controller ==
  \/ \E w \in Nodes :
       \/ CheckSchedule(w) \/ CheckRest(w)
       \/ AtOp("fill") /\ Head(todo).node = w /\ Filler(w, Head(todo).out)
       \/ Crashed(w) \/ FinishedRemove(w)
       \/ Common(w)
  \/ Anywhere
  \/ LoopOnce

Worker(w) ==
  \/ Boot(w) \/ StartTest(w) \/ SkipTest(w) \/ FinishTest(w) \/ Exit(w)
  \/ Ask(w) \/ GrantArrives(w) \/ \E reached \in BOOLEAN : GoOn(w, reached)

Next ==
  \/ Controller
  \/ \E w \in Nodes : Worker(w) \/ GiveUp(w) \/ Crash(w)
  \/ Stopped

Spec == Init /\ [][Next]_vars

(* The controller's thread runs, every worker that can go on does so: a    *)
(* test ends, and a worker told to exit exits.  Crashes and time-outs are  *)
(* never owed.                                                             *)
Fairness == WF_vars(Controller) /\ \A w \in Nodes : WF_vars(Worker(w))

FairSpec == Spec /\ Fairness

-----------------------------------------------------------------------------
Calls ==
  [op : {"check", "rest", "shutdown", "remove", "stop"}, node : Nodes]
    \cup [op : {"fill"}, node : Nodes, out : Seq(Tests)]
    \cup [op : {"replan"}, tests : SUBSET Tests]
    \cup [op : {"admit", "stalls", "restart", "loop"}]
    \cup [op : {"retry"}, node : Nodes, release : BOOLEAN]

Messages ==
  ({"complete"} \X Tests) \cup ({"holds"} \X Nat)
    \cup ({"request"} \X [id : Nat, test : Tests, key : Fixtures, holds : Nat,
                          cancelled : BOOLEAN])
    \cup ({"ready", "collected", "finished", "down"} \X {0})

(* Every variable keeps its type. *)
TypeOK ==
  /\ todo \in Seq(Calls)
  /\ pending \in SUBSET Tests
  /\ plan \in [Nodes -> SUBSET Tests]
  /\ queue \in [Nodes -> Seq(Tests)]
  /\ charge \in [Tests -> [peak : Nat, holds : Nat, parts : SUBSET Fixtures]]
  /\ fixtures \in [Nodes -> SUBSET Fixtures]
  /\ withdrawn \in SUBSET Tests
  /\ waiting \in Seq(Nodes)
  /\ ask \in [Nodes -> Nat]
  /\ limit \in 1 .. Budget
  /\ reserved \in [Nodes -> [slots : Nat, busy : BOOLEAN]]
  /\ forced \in Nat
  /\ live \in [Nodes -> Nat \cup {NoSnapshot}]
  /\ requests \in [Nodes -> {NoRequest} \cup
       [id : 1 .. MaxAsks, test : Tests, key : Fixtures, cancelled : BOOLEAN]]
  /\ registered \in SUBSET Nodes
  /\ told \in SUBSET Nodes
  /\ down \in SUBSET Nodes
  /\ session \in [stopping : BOOLEAN, failures : 0 .. MaxCrashes]
  /\ status \in [Nodes -> {"absent", "booting", "up", "exited", "dead"}]
  /\ inbox \in [Nodes -> Seq(Tests)]
  /\ using \in [Nodes -> Nat \cup {Asking}]
  /\ \A w \in Nodes : permit[w].id \in 0 .. MaxAsks /\ grants[w] \in Seq(1 .. MaxAsks)
  /\ alive \in [Nodes -> SUBSET Fixtures]
  /\ skip \in [Nodes -> SUBSET Tests]
  /\ events \in [Nodes -> Seq(Messages)]
  /\ started \in SUBSET Tests
  /\ reported \in SUBSET Tests
  /\ crashed \in SUBSET Tests
  /\ moves \in 0 .. MaxMoves

(* No test is lost and none is in two places (node2pending, lane.plan,     *)
(* `pending` and the outcomes are kept by hand through dispatch, transfer, *)
(* replan and remove_node): each is undispatched, in one queue once, or    *)
(* reported once; a plan holds undispatched tests only, each in one plan.  *)
TestsConserved ==
  /\ \A t \in Tests :
       (IF t \in pending THEN 1 ELSE 0)
       + Cardinality({p \in Nodes \X (1 .. Cardinality(Tests)) :
                        p[2] <= Len(queue[p[1]]) /\ queue[p[1]][p[2]] = t})
       + (IF t \in reported THEN 1 ELSE 0)
       + (IF t \in crashed THEN 1 ELSE 0) = 1
  /\ \A v \in Nodes :
       /\ plan[v] \subseteq pending
       /\ \A w \in Nodes \ {v} : plan[v] \cap plan[w] = {}

(* The limit begins at the budget and moves by one: so many moves to where *)
(* it stands now took it no lower than this.                               *)
LowestLimit == Larger(1, Budget - (moves + Budget - limit) \div 2)

(* What a process takes is reserved for it: a running test its peak, and   *)
(* an idle worker what its fixtures hold, until it was told to exit and    *)
(* has nothing left to run (_reserve, _raise, _need).  A demand beyond the *)
(* limit is cut down to it, and the limit may be higher again when the     *)
(* test runs: what a heavy test is sure to have is the lowest limit there  *)
(* can have been.  As long as it stands at the budget nothing is cut off.  *)
UseIsReserved ==
  \A w \in registered :
    LET covered(slots) == Held(w) >= G!Least(slots, LowestLimit)
    IN  status[w] = "up" =>
          /\ using[w] > Idling => covered(using[w])
          /\ using[w] <= Idling /\ ~(w \in told /\ queue[w] = <<>>)
               => covered(HoldOf(alive[w]))

(* The line and the workers agree (_parked, _admitted, _withdraw,          *)
(* mark_test_complete).  Whoever is pledged slots has a head to run, is in *)
(* `waiting`, and is not running anything, or waits in a request of its    *)
(* running test: a worker that went on is forgotten in the gate's line     *)
(* too.  And when the controller turns to the next event every request it  *)
(* keeps stands in both lines: nothing else would ever answer it.          *)
WaitersBlocked ==
  /\ \A w \in Nodes :
       /\ ask[w] > 0 => w \in Elements(waiting) /\ queue[w] # <<>>
       /\ w \in Elements(waiting) => using[w] <= Idling /\ w \in registered
  /\ todo = <<>> => \A w \in Nodes :
       HasRequest(w) => w \in Elements(waiting) /\ ask[w] > 0

(* A worker that exited in order has nothing left in its queue: xdist      *)
(* asserts that removing it reports no crashed test.                       *)
ExitLeavesNothing ==
  \A w \in registered : status[w] = "exited" /\ events[w] \in {<<>>, <<<<"finished", 0>>>>}
    => queue[w] = <<>> /\ inbox[w] = <<>>

(* "the one test the worker cannot start without another word, is          *)
(* withdrawn" (ARCHITECTURE.md:330-332): no test that some worker began to *)
(* run is taken back while it stands in a queue.                           *)
WithdrawnNeverRuns ==
  \A w \in Nodes : \A t \in skip[w] \cap Elements(queue[w]) :
    t \notin started

(* What is true of it: the tail taken back from a worker when it is told   *)
(* to stop has not begun, and the worker hears of that before it could     *)
(* begin.  A worker told before knows its tail already (_withdraw).        *)
WithdrawnInTime ==
  [][\A w \in Nodes \ told : \A t \in skip'[w] \ skip[w] :
       t \notin started /\ w \in told']_vars

(* The session ends with every test run, unless it gave up on crashes.     *)
NothingAbandoned ==
  Terminated =>
    /\ session.stopping
    /\ session.failures <= MaxRestarts => pending = {} /\ withdrawn = {}
    /\ Tests = reported \cup crashed \cup pending

(* No test is started twice, whatever crashes.                             *)
NeverReplayed ==
  [][\A w \in Nodes : using[w] = Idling /\ using'[w] # Idling
       => Head(inbox[w]) \notin started]_vars

(* The limit is exceeded only when nothing runs.                           *)
ForcedAtStandstill ==
  [][forced' # forced => \A w \in Nodes : using[w] <= Idling]_vars

(* Run-time requests as PermitProtocol has them. *)
Permits == INSTANCE PermitProtocol WITH
  Workers <- Nodes,
  Gated   <- Nodes,
  issued  <- [w \in Nodes |-> permit[w].id],
  state   <- [w \in Nodes |-> IF status[w] \in {"exited", "dead"} THEN "gone"
                             ELSE IF permit[w].state = NotAsking THEN "running"
                             ELSE permit[w].state],
  granted <- [w \in Nodes |-> permit[w].granted],
  sent    <- [w \in Nodes |->
    LET asked == SelectSeq(events[w], LAMBDA m : m[1] = "request")
    IN  [i \in DOMAIN asked |-> [id |-> asked[i][2].id, cancelled |-> asked[i][2].cancelled]]],
  record  <- [w \in Nodes |-> requests[w].id]

(* The scheduler and the meters keep the protocol of run-time requests.    *)
PermitsKept == Permits!PermitSpec

(* The session comes to its end: no test stays blocked in its request      *)
(* either, though others may block in theirs for the slots it gave back.   *)
Terminates == <>Terminated

=============================================================================
