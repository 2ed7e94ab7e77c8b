# Formal models of pytest-timing

pytest-timing records where the time of a pytest run goes and, under pytest-xdist,
uses what earlier runs recorded to distribute tests: longest first, fixtures
together, and never more CPU slots or bytes of memory at once than the host offers.
This directory holds TLA+ models of the parts that are hard to test, the TLC runs
that check them and TLAPS proofs about them.

Source files below are under `src/pytest_timing/`.

## The system

| Component | State | Operations | What makes it correct |
|---|---|---|---|
| Admission gate (`admission.py`) | a moving limit, a reservation per worker, a line of waiters | fits, reserve, assign, release, wait, set_limit, observe | never over the budget unless counted; the oldest waiter is not delayed; whoever is alone fits |
| Scheduler, load mode (`xdist_scheduler.py`) | tests not sent, a plan and a queue per worker, charges, waiting workers, live holds | schedule, check_schedule, mark_test_complete, remove_node, worker_finished, update_holds, shutdown | no test lost, doubled or run unreserved; no standstill for ever |
| Scheduler, worksteal mode (`xdist_scheduler.py`) | plus one steal request in flight and the starving workers | _check_stealing, _steal_next, remove_pending_tests_from_node | the answer meets completions and departures; no test lost or doubled |
| Costs (`schedule.py`: Costs, Charge) | slots, seconds, bytes per test and fixture | charge, kept, hold, with_live_holds, learn | a test's peak covers its body, every set-up it owes and what is alive |
| Planner (`schedule.py`: plan, transfer, _balance) | lanes with projected end, fixtures, plan | plan, transfer | every test in one lane; the run ends no later than it was laid out |
| Estimates (`schedule.py`) | durations, set-ups, memory from an earlier run | from_run, estimate | worst case kept for memory, median for time |
| Declarations (`demand.py`) | slots parsed from markers and decorators | from_items, lookup | one number per test that covers every moment of it |
| Worker meter (`demand.py`: CpuMeter) | withdrawn tests, live holds, a pending run-time request | cancel, grant, fixture set-up, protocol | a withdrawn test is not run; a request is answered by its own grant, also after it was given up |
| xdist seams (`xdist_compat.py`) | routers in front of xdist's dispatchers | intercept, forward, cancel, grant | order of a worker's messages kept; every shutdown settles the reservation |
| Collector (`collector.py`) | open spans, last spans, executions | add_report, worker_down, add_wait, finish | each attempt one span, closed once, waits on their own attempt |
| Fixture timer (`fixtures.py`) | a stack of set-ups | set-up, finalizer | nested set-ups do not count twice |
| Memory sampler (`telemetry.py`) | an open window, base and peak; the latest total of the descendants | begin, end, _sample on a thread | the peak of a window is of the readings in it; descendants counted in it are not long gone |
| Host telemetry (`telemetry.py`) | what the last listing of the process tree found | cgroup, PSI, /proc readings | no CPU time counted twice or missed while the tree changes; the tightest limit found |
| Plugin (`plugin.py`) | options, termination, the collector and the scheduler | pytest's hooks | the first cause of the end is what is recorded |
| Run model, compare, command line (`model.py`, `compare.py`, `cli.py`) | run records | rebased, relabelled, merge_runs, compare_runs | merging keeps what is simultaneous and apart; a budget is passed on evidence |
| Outputs (`outputs.py`, `render/`) | none | write, render | layout only |

How they meet. xdist's controller runs one loop on one thread: it takes an event
from a queue, calls the scheduler's handler, and shuts the session down when
`tests_finished`. The scheduler asks the gate before it sends a worker the test that
lets the one before it start: a worker runs the head of its queue only when it knows
the next test or was told that there is none. Workers answer with completions and
with the holds of their fixtures, in order on one channel each. xdist also shuts
workers down without asking (`-x`, too many crashes); `intercept_shutdown` puts
`_withdraw` in front of that. Reports go to the collector, and at the end the waits
the scheduler recorded are added to its spans. The saved run is what the next one is
estimated, planned and compared with.

What is hard: the controller's handlers call each other in a cycle while workers run,
exit and crash; the gate's answers rest on projections that age; fixtures keep slots of
their own between tests, so a run can come to a standstill; the limit moves while slots
are out; a crash leaves the controller to infer what had started; a test may ask for
more slots while it runs, give up, and be answered all the same; a worker asked to give
tests back may have begun them. The list, with lines, is `hazards` in `PROJECT.json`.

## The modules

**Admission** is class `Admission`, driven by the calls of its only client.
`reserved` maps every worker to slots, projected end and busy (0 slots, not busy: not
in the dict); `line` and `ask` are the dict `waiting` with its insertion order.
`RaiseCovered`, `RaiseReserved` and `RaiseRefused` are the outcomes of `_raise`
(`fits`, then `reserve` or `wait`), `RefusedElsewhere` a worker sent into the line
because another gate refused it, `Recompute` is `_reserve`, `Withdraw` what `_withdraw`
makes of it for a worker in line, `ForceAdmit` is `_force`, `Release` is
`_release_runtime`, `SetLimit` what pressure feedback does.
Any worker may ask for anything at any time with any projection. The shadow, a loop
over sorted releases in the code, is stated as the first instant at which the head
could have its shortfall (`CouldHave`, `BeforeHead`); `MCAdmission` has the loop and
checks that both agree. Sums are cardinalities of sets of units, which TLC evaluates
and the provers can reason about.

**Backfill** extends Admission with a clock: one test per worker, dispatched with
`Lane.dispatch`'s projection (now + seconds), admitted at once or after a wait,
running for exactly its estimate. `_refresh` may happen at any check of a worker. It
asks whether a backfilled test really ends before the head could really start.

**Governor** is `observe`, which decides when the limit moves: counters of contended
and clean samples in a row, a cooldown, the run's own share of the load. A sample is
what `_sample` passes it. Counters and the time since the last move are kept up to
their thresholds, which makes the model finite without a bound; the throttling
counter is kept as whether it was read before, and a sample says whether it grew.
**GovernorLedger** adds history: what was seen since the beginning, what the moves
have used up of it, and the verdicts since the last one.

**Costs** are the slots of `Costs.charge`, `kept`, `hold` and
`Charge.with_live_holds` over constant demands.

**Scheduler** is `DurationScheduling` in load mode with one domain and its CPU gate,
the workers, and xdist's controller session. The handlers' mutual recursion
(`check_schedule`, `_fill`, `_shutdown`, `_replan`, `_admit_waiting`,
`_resolve_stalls`, `_force`, `request`, `_retry_request`) is a stack `todo` of calls
still to be made, one action per call, so that workers move between any two of them;
a handler runs to its end before the next event is taken (`Takes` requires an empty
stack). The gate is an `INSTANCE Admission` over the scheduler's variables, with
`waiting` and the gate's line as the two copies of who waits that the code keeps. A
running test may reach a fixture and ask for its slots (`Ask`), give the request up,
be granted late and report what its instances hold; the meter's side of it is in the
worker's record `permit`, the scheduler's in `requests`. Where tests are planned is
left open (any layout over the live lanes, any non-empty part of another's plan in
`transfer`), and so are projected times (a backfill may be judged early enough or
not): what is checked holds for every planner and every estimate. Each test is one
unit of queued seconds, `Ahead` is what the time budget of a queue is worth.

**Stealing** extends Scheduler by worksteal mode: every plan goes out as far as the
gate lets it (`Ahead` above the number of tests), `starving` is the waiting list,
`asked` the donor of the one request in flight, `steals` the commands on their way.
A worker answers with the whole chunk or nothing of what its main thread has not yet
taken. Which tail of which donor `_choose_steal` prefers is open. `before` is
`Charge.before`, the fixtures a dispatch found, to which a donor is rewound.

**PermitProtocol** is the run-time request by itself: numbers, the flag `_granted`,
cancellation, grants that arrive late, workers without a gate that are granted
whatever they send. When the scheduler grants is left open. It is the abstract
specification `PermitsKept` of Scheduler refines (`Permits`, an `INSTANCE ... WITH`
that reads the messages out of the worker's channel and the scheduler's records).

**TwoGates** has two instances of Admission, CPU and memory, and the handlers that
call one after the other: `_raise` (all or none), `_reserve`, `_force`, `_withdraw`,
`_resolve_stalls` and the worker's completion and exit. A standstill is looked for at
the first gate only, so the gates have to agree on who is busy. A test is what it asks
for and leaves behind of each (`Demands`, any subset of them `Tests`); an assumption
says that the bounds on demands reach the budgets, so that tests no budget holds are
among them. `GatesAdmit` is the refinement: each gate by itself is an Admission.

The parts below meet the scheduler in values only: a demand, a duration, a report.

* **Declaring**: `Declarations.from_items` and `Costs.charge` against the moments of
  one run of the test, its fixtures set up in any order, some alive from before.
* **Planner**: `plan` (`_split`, `_place`, `_balance`, `_order`) and `transfer` with
  their comparisons of projected ends, over inputs the instance names. `Balanced` is
  a recursive function, the rest folds. Times are whole seconds counted from
  `Origin`, which is what the code's EPSILON is there to make possible.
* **Recording**: the collector, with the worker whose reports it is fed: items that
  share a node id, retries, failures in any phase, a crash before, between or after
  the reports, and xdist's own report of the crashed item, after the
  worker's end. `runs` and `failed` say what really happened.
* **FixtureTimer**: the stack of set-ups, their clocks, waits at the gate, and
  instances cached by earlier tests. A set-up may raise: the code after the yield runs
  all the same, the exception is cached and the request resolves nothing. `truth` is
  what really happened.
* **MemorySampler**: the test's thread and the sampler's, every step what lies
  between two operations on the lock or an event. A reading is the process's own size
  and the latest total of its descendants, which is kept from one listing to the next,
  across windows: a test may be charged with a process of the one before. `inside`
  records what was read in a window and how long before its descendants were seen.
* **ProcessTree**: one reading of `ProcessTreeClock` on Linux while processes and
  threads start, fork, work, exit and are reaped: process by process, and of each the
  children of one thread after the other. What a thread that ends hands over in the
  middle of that may be missed, as ARCHITECTURE.md says; `before` leaves it out.
* **History**: `merge_runs`, `Run.rebased`, `Estimates.from_run` and `compare_runs`
  as operators over saved runs, loaded one after the other, merged or not.

**MCAdmission, MCBackfill, MCScheduler, MCOvertaking, MCStealing** instantiate them.
A suite in MCScheduler says which test needs which fixture and how far scopes reach: a
module fixture set up by test 2 and alive through test 3, two session fixtures, or
fixtures reached at run time. MCOvertaking adds a history variable. **MCParts** holds
the parts side by side: `part` is chosen in the initial state, that part moves and
the others stand still, so one exploration covers twelve of them, each over all its
interleavings and none multiplied by another. Its part *pressure* is Governor with the
thresholds of the code and a bit that flips with every sample, so that fairness can ask
for another sample without asking for one that changes something. The modules of seven
parts are extended, so that their properties are checked under the names they have
there; those of the others are instances, and what is checked of them says which part
it is of.

**AdmissionProofs** and, on it, **BackfillProofs** and **TwoGatesProofs**,
**ControlProofs, RecordingProofs, MeterProofs** and, one on the other,
**SchedulerProofs** and **SchedulerWaiting** hold the theorems.

### xdist, as assumed

Modelled from how `src/` uses it and marked external in the map: events of a worker
arrive in order; a worker runs a test once it has a second one or was told to stop; a
dead worker is replaced until more than `MaxRestarts` have crashed, then everything is
shut down; the main thread takes a test off its queue before it runs it, while the
receiver thread takes commands (shutdown, steal, cancel, grant) at any time; a worker
that finishes orderly is taken out by `worker_finished` and `remove_node`; after every
event but the re-posted ones the loop looks at `tests_finished`.

## The runs

| Run | Bounds | Shows |
|---|---|---|
| `admission` | 3 workers, budget 2, demand to 2, two instants, one clock reading, one forced admission | counted growth, the undelayed head, the loop of shadow |
| `backfill_stale` | 4 workers, budget 2, 5 tests of 1 or 2 s | **violated**: with the projections really passed a backfill does not end in time |
| `scheduler` | 2 workers, budget 3, 4 tests (one heavy), two session fixtures, the limit moves twice, fairness | use within reservations but for what the lowest limit so far cut off, forcing only at a standstill, the run ends |
| `scheduler_abort` | 3 workers, 3 tests that ask at run time, 1 crash, no restart allowed | a test taken back from a worker that is told to stop has not begun, an orderly exit leaves nothing queued, line and workers agree |
| `scheduler_restart` | 2 workers and a spare, 2 tests, 3 fixtures, budget 4, one request each, 1 crash, fairness | no test lost or started twice, nothing abandoned, the permit protocol refined, and the run ends |
| `scheduler_forced` | 2 workers, 4 tests, 3 tests ahead | **violated**: a forced admission while another test runs |
| `overtaking` | 2 workers, 6 tests, 5 ahead | **violated**: small tests pass the waiting head repeatedly |
| `scheduler_withdrawn` | 3 workers, 3 tests (one heavy), a fixture of one test's scope, budget 3, 1 crash, no restart allowed | **violated**: a test that is running is taken back |
| `stealing` | 2 workers, 5 tests, two of them with a session fixture of 2 slots, budget 4, 1 crash | conservation, use within reservations, an answer is expected exactly while one is under way, no worker starves beside work that may be taken |
| `stealing_stripped` | 2 workers, 6 tests (one heavy), no crash | **violated**: a donor left with its last test by the answer |
| `parts` | below | the parts of MCParts |
| `fixture_dynamic` | 3 fixtures, 2 tests, clock to 2 | **violated**: an instance reported without a fixture it asked for |

In `parts`: *ledger*, budget 3, thresholds 2, 3 and 4 s, 12 s; *permits*, a worker
with a gate and one without, three requests each; *recording*, three items, two of
one node id, one retry each and one wait; *tree*, two processes below the one that
reads, one of which may start a second thread, each working up to 1; *memory*, two
sizes, descendants or none, two windows, a tree interval of one unit and an idle interval
of two; *fixtures*, three fixtures, two tests, clock to 1; *declaring*, a shared and two inner fixtures, each number 0, 1 or
3; *planner*, four tests of 1 or 3 s in two modules on two lanes, six ways to share
two fixtures and one with a fixture that outlives its module, with a queue budget and
without, lanes free together and apart;
*gates*, three workers, both budgets 2 and demands to 3, four tests of three kinds,
each gate held against Admission's own specification; *backfill*, three
workers, four tests; *history*, up to three of three recorded runs under three names;
*pressure*, budget 3, the code's thresholds 3, 8 and 10 s, samples 1, 4 or 10 s apart,
with fairness.

Why the bounds are enough to be interesting. Three workers at the gate are a head, a
backfiller and a releaser; demands of 2 are clamped when the limit is 1; two instants
give early, equal and late ends. Who joins at one clock reading stands in the order of
the line; that the oldest may stand elsewhere in it is left to the proofs, which hold
for any number of readings. In Scheduler a heavy test does not fit next to a light one,
fixtures alone can fill the budget (parking, forcing and draining all occur: every
disjunct of the next-state relations fires), a queue holds more than the two tests a
worker needs, a crash can come at every step, and in `scheduler_restart` both workers
can be blocked in requests for what the other holds. A parked worker is let go of at a
standstill when the limit fell and rose again: two moves are enough. A steal needs a donor with more
than `Margin` tests: with five the donor can complete two of them while it is asked.
In *ledger* 12 s are three cooldowns: the limit can fall, fall again or recover.
Thresholds are constants, so small ones show what the code's would; *pressure*
has the code's own. In *permits* the third request meets the late grants of the first
two. In *tree* a grandchild can be reaped into its parent and the parent into the
reader while the walk is between them, or be handed to a thread that was read already or
is still to be read. In *memory* the second window can count a descendant that ended in
the first. In *fixtures* set-ups nest three deep and time is additive, so one tick in
any of them, own or waited, shows what it is added to. In *planner* a lane with a
fixture kept alive by a test it has sent is offered the tail of the other.

Bounds are constants and guards: `MaxDemand`, `Never`, `MaxSince`, `MaxForced` in
Admission, `MaxSlots`, `MaxBytes`, `MaxForced` in TwoGates, `MaxTests` in Backfill and
TwoGates, `MaxTimed` in FixtureTimer, `MaxAsks`, `MaxCrashes`, `MaxMoves` in Scheduler
and PermitProtocol, `Steps`, `Rates` in Governor, `MaxSeconds` in GovernorLedger,
`MaxReruns`, `MaxWaits` in Recording, `Threaded`, `MaxWork` in ProcessTree, `Sizes`,
`Totals`, `MaxWindows` in MemorySampler, `MaxClock` in FixtureTimer, `Declarable` in
Declaring, `MaxRuns` in History. `MaxRestarts` is xdist's own option.

`CHECK_DEADLOCK FALSE` is said where the model comes to an end of its own:
`backfill_stale`, `fixture_dynamic` and each part of `parts` stop when their bound is
reached. In `scheduler` and `scheduler_restart` it is said because `Terminates` covers
it: a standstill is a run that never ends. In the two runs of Stealing a worker may
really be left with a test that nothing makes it run, which is what
`stealing_stripped` is about. In the other runs of Scheduler deadlock is checked,
`Stopped` being the only step of an ended session.

Liveness is checked without symmetry.

**Fairness.** `FairSpec` asks weak fairness of the controller as one process and of
each worker: the main loop takes events and its handlers return, a test ends, one
that waits in a request goes on once its grant has arrived, and a worker told to
exit exits. Tests that hang for ever are outside what the scheduler
can do anything about. Crashes, time-outs of requests and moves of the limit are never
owed; they are bounded, because a host that kept crashing workers would end no run.
In *pressure* fairness asks for one more sample that sees something: tests keep
completing, each makes the scheduler sample once a second has passed, and a host that
has the signals keeps them. Nothing is asked of what a sample shows; both liveness properties name
the contention they are about.

## What disagrees with the documents

1. *Stale projections* (`backfill_stale`): `_raise` passes `lane.free`, counted from
   the dispatch, for a test that starts only when it is admitted.
2. *Overtaking* (`overtaking`): what a reservation covers is granted without regard
   to the line.
3. *Forced while running* (`scheduler_forced`): a reservation recomputed from live
   holds that outlive their fixture's scope can rise over the limit.
4. *A stripped donor* (`stealing_stripped`): the answer to a steal is booked without
   a look at the donor, which may have one test left and nobody to tell it to run it
   until another event comes.
5. *A dynamic request not recorded* (`fixture_dynamic`): what an instance asked for
   is what its request has resolved after the set-up and not before it, so a fixture
   the test had resolved already is missing for later tests that find the instance
   in the cache. `UsesReported` is what does hold.
6. *A running test taken back* (`scheduler_withdrawn`): `_withdraw` runs before every
   shutdown of a node, also of one that was told before and may already run the last
   test of its queue. A snapshot of live holds from the test before can make its need
   look larger than its reservation; the last test is then "withdrawn" while it runs,
   and the worker's reservation no longer contains it. `WithdrawnInTime` is what does
   hold, of a worker that is told for the first time. In load mode `UseIsReserved` is therefore
   checked of sessions without crashes (`scheduler`). The limit moves there: a demand
   beyond it is cut down to it, and the limit may have risen when the test runs, so a
   test is sure of what it needs up to the lowest limit so far, of all it needs as long
   as the limit has not moved. In `stealing`, whose limit stays and whose instance has
   a crash beyond the budget, it holds too.

Quotes and lines are in `findings`. A further case is documented in the code: a
worker that has died and cannot be told of a withdrawal is counted as forced while
others run, which is why `ForcedAtStandstill` is checked without crashes.

## What is proved

`AdmissionProofs`, for any number of workers, any budget, demand and horizon, from
the assumptions on the constants named in Admission:

| Theorem | Statement |
|---|---|
| `TypeCorrect` | `Spec => []TypeOK` |
| `GrowthCounted` | `Spec => GrowthPastLimitIsCounted` |
| `BudgetSafe` | `Spec => []BudgetKept` |
| `RunsAlone` | `Spec => []RunsAloneNotNever` |
| `HeadSafe` | `Spec => HeadNotDelayed` |
| `LineSafe` | `Spec => []LineWellFormed` |

`TypeOK` is inductive and gives what everything else needs: reservations are
functions into naturals, the limit is within 1 .. Budget. `OwnUnits`, `PledgedSplit`
and `UsedUpdate` turn sums into cardinalities and say how one reservation changes
them. `BudgetKept` is inductive with `TypeOK`: a rise through `Fits` stays within
the limit and hence the budget, an assignment past the limit is counted
(`AssignGrowth`), and `forced` never falls. `HeadSafe` compares, for one backfill
and one instant, what the head could have before and after (`ReturnedKept`,
`ReturnedGained`, `BackfillStep`): either the slots were spare, or they are back by
the instant at which the head could first have had its shortfall.

`LineSafe` rests on two lemmas about the line, one for the worker that leaves it
(`LeaveLine`) and one for a refusal, which joins only who is not in it (`JoinLine`);
every other action leaves line and needs alone.

`BackfillProofs`, for any number of workers and tests, any budget and any lengths:

| Theorem | Statement |
|---|---|
| `FreshBackfillSafe` | `ClockSpec => FreshBackfillEndsInTime` |

The rule of admission.py compares projected ends; here the clock says when tests really
end, and finding 1 is what the projections are in practice. The theorem says the rule
itself is right: when no projection is older than the start of its test, what others
give back by an instant was projected to be given back by it (`FreshStep`), and the rule
looked at every instant before the test's end. `ClockInv` says that slots are held
while a test runs and no longer, which is why a test starts with all it asks for, and
`HeadInLine` that a line has a head: of those who joined first, the first. `parts` checks
the same formula on its instance of the module.

`ControlProofs`, of pressure feedback, for any budget, any thresholds and any samples:

| Theorem | Statement |
|---|---|
| `GovernorTypeCorrect` | `Spec => []TypeOK` |
| `EvidenceIsOwn` | `LedgerSpec => []EvidenceCovers` |
| `MovesApart` | `LedgerSpec => []MovesSpaced` |
| `SustainedOnly` | `LedgerSpec => MovesOnSustained` |

None of the three is inductive: they do not say where the counters stand. `LedgerInv`
does: what is spent and what a counter holds together were seen, the seconds spent
and those since the last move have passed (the first move has a cooldown for free),
and each counter is a row at the end of the recorded verdicts. `SampleOutcome` reduces
a sample to a move on a full count after the cooldown, a sample that only counts, or
one that is overlooked; one lemma for each keeps it (`MoveKeeps`, `CountKeeps`,
`OverlookedKeeps`). A full counter and the sample that fills it are then a row of the
threshold's length (`RowFull`).

And of run-time requests, for any workers, with or without a gate, and any number of requests:

| Theorem | Statement |
|---|---|
| `PermitTypeCorrect` | `PermitSpec => []PermitTypeOK` |
| `OwnPermitOnly` | `PermitSpec => []OwnPermit` |
| `OnePermitEach` | `PermitSpec => []OnePermit` |

`OwnPermit` speaks of the moment the flag is set, which says nothing of the messages
that led there. `Own` does, for each worker: requests, the scheduler's record and
grants carry numbers no larger than the last one issued (`InOrder`), open requests
travel in the order of their numbers, and when the record or a grant has the last
number no open request with it is left (`NoneOpen`). `Single` is `OnePermit` of one
worker, with the fact that whatever is on its way has the number last issued; an
outdated grant then cannot exist behind a gate. Actions change one worker only
(`OneAtATime`), so each is looked at for the worker that acts.

`TwoGatesProofs`, for any workers, budgets, tests and bounds, from the assumptions
named in TwoGates:

| Theorem | Statement |
|---|---|
| `GatesInStep` | `GatesSpec => []GatesAgree` |
| `EachGateAdmits` | `GatesSpec => GatesAdmit` |
| `NeitherHeadDelayed` | `GatesSpec => Cpu!HeadNotDelayed /\ Memory!HeadNotDelayed` |
| `NeitherGrowsUncounted` | `GatesSpec => Cpu!GrowthPastLimitIsCounted /\ Memory!GrowthPastLimitIsCounted` |
| `AlwaysBothOrNone` | `GatesSpec => []BothOrNone` |
| `NeverStandoff` | `GatesSpec => []NoStandoff` |

Each call on the one gate is followed by the same call on the other; `Marks` says what
such a pair does to the busy marks, one lemma per kind of call, and `MarkedWithMode`
ties them to the worker's mode. `AgreeInv` adds that the tables have an entry per
worker, and `LineInv` that only workers stand in line: the head a standstill forces is
taken from the CPU gate's line and admitted at both.

`EachGateAdmits` is the refinement step by step (`CallStep`): whatever a handler makes
of the two gates, the one sees a call it serves or none. A worker that one gate refuses
joins the line of the other too (`RefusedElsewhere`), and one that is told to stop
leaves both with what it still holds (`Withdraw`). The theorems of AdmissionProofs then
hold of both gates. They are used through instances of that module, `CpuP` and
`MemoryP`; `CpuSame`, `CpuPromises` and their like say that those speak of the same
definitions as `Cpu` and `Memory` do, and `Sized` that the constants meet Admission's
assumptions.

`AlwaysBothOrNone` needs `Enough`: a running test holds what it asks for at both gates,
up to the budget. It is kept because every call is about one worker (`OthersKept`) and
`TakenEnough` says what a start takes, reserved or covered; the budgets are Admission's
`BudgetKept`, carried over. `NoStandoff` only speaks of a controller at rest. `StandInv`
says what holds in between: the check for stalls is the last thing any handler does
(`StallsLast`), except in the first round, where either something moves or nobody has
touched the gates, and untouched gates admit every test (`UntouchedAdmits`), including
those over the budget.

`RecordingProofs`, for any list of items (`NodeId \in Seq(S)`), any number of retries
and any waits:

| Theorem | Statement |
|---|---|
| `SpansAlwaysExecutions` | `RecordingSpec => []SpansAreExecutions` |
| `BadEndsAlwaysShown` | `RecordingSpec => []BadEndsShown` |

The collector never sees the worker's runs; it numbers spans by node id, by what the
last span of that id says and by what is open. The invariant, `RecordingInv`, is the
correspondence it relies on. `Matched`: the k-th span is of the k-th run, with its item,
attempt, occurrence and reports; after the worker's death there may be one more, for the
item it is taken to have died at. `Ordered`: runs follow the items, each again until it
is not retried. `Retries`: a span says "rerun" exactly when its run was run again or is
about to be. `Opening`: only the last span may be open, while its attempt has more to
report. `Timely`: what is closed ended before the lane stands. `Waited`: an execution
that has reported is on its span, and whoever waited without one is next (`Coming`).
That the number of an occurrence is right is counting: the occurrence of a node id is
one more than that of the run before with that id, and the items with the id before the
one are those before the other and that other (`Numbering`). Books are handled through
one lemma per method of the collector (`Closed`, `Opened`, `FirstReport`, `LaterReport`,
`BookDown`, `BookCrashed`, `BookFinished`), which say what it does field by field, and
each action of the worker and the controller has one that keeps the invariant.

`MeterProofs`, for any sizes (integers), totals of descendants (naturals), intervals that
meet `IntervalAssumption`, windows, fixtures, set-ups, declarations and readings of the
clock:

| Theorem | Statement |
|---|---|
| `PeaksAreOwn` | `SamplerSpec => []PeakOfItsOwn` |
| `AlwaysCountedWhileRecent` | `SamplerSpec => []CountedWhileRecent` |
| `AlwaysMeasuredApart` | `TimerSpec => []SetUpsMeasuredApart` |
| `AlwaysUsesReported` | `TimerSpec => []UsesReported` |
| `ReservationAlwaysFits` | `DeclaringSpec => []ReservationFits` |

For the sampler, `SamplerInv` says who holds the lock (`Locked`) and that the largest
reading of a window is its peak or what the sampler is about to make it (`PeakSoFar`):
a reading taken before the window cannot be kept in it, because the sampler takes and
keeps under the lock. `Listing` says that the next listing is put off by `tree_interval`
at most while the last one found descendants; `Reading` draws from it that descendants
which are counted without being listed anew were seen less than that before. For the fixture timer, `TimerInv` accounts for every frame of the
stack: from its start to that of the next one, or to now for the innermost, the clock
less the waits shows its own time and its nested set-ups' (`OwnTime`); what is counted
and what runs since the outermost frame began are the work (`OwnWork`); no key is on
the stack twice (`OpenOnce`); and what a set-up is the first to ask for is resolved
since it began, or being set up (`FirstRecorded`). Of reachability only one fact is
needed, that a wider map reaches no less (`ReachesMore`), and it is proved along the
eight steps of `Reached`. For the declarations, `SharedFirst` says what can be alive at a
moment: only what the test uses or found, the test's own fixtures after the shared ones.
What fixtures hold adds up over sets of them (`HoldsAddUp`), so each moment is within
one of the stages that the charge is the largest of (`ChargeCovers`).

`SchedulerProofs` and, on it, `SchedulerWaiting`, for any workers and spares, tests,
fixtures and costs, any budget, depth of the queues, number of requests, crashes,
restarts and moves of the limit:

| Theorem | Statement |
|---|---|
| `AlwaysTyped` | `Spec => []Typed` |
| `AlwaysShape` | `Spec => []Shape` |
| `AlwaysConsistent` | `Spec => []Consistent` |
| `TestsAlwaysConserved` | `Spec => []TestsConserved` |
| `ExitsLeaveNothing` | `Spec => []ExitLeavesNothing` |
| `AlwaysSettling` | `Spec => []Settling` |
| `WaitersAlwaysBlocked` | `Spec => []WaitersBlocked` |
| `TypesAlwaysOK` | `Spec => []TypeOK` |
| `AlwaysAccounted` | `Spec => []Accounted` |

`TestsConserved` and `ExitLeavesNothing` are not inductive, and the reason is the same:
`mark_test_complete` strikes a test off the queue of whichever worker the event names,
and `remove_node` counts a head as crashed, so the records stay right only if the
channels say nothing the records do not expect. The invariant is built in three layers,
each proved on top of the one before:

- `Typed`: what each variable holds. Beyond plain types: a worker that uses slots or
  asks for a permit is up and has a test in hand, and `down` is who has exited or died.
  `Greatest` and the sums of holds are numbers because the sets are finite
  (`GreatestMember`, `HoldOfNat`, `CostsTyped`).
- `Shape`: the calls left on the stack are for nodes the scheduler has met, only the
  call in progress carries tests, a batch is drawn up only for a registered node that
  was not told to finish, and `finished` and `down` are the last message of a process
  that has ended. A node is removed on that message, so no completion of it can follow.
- `Consistent`: `Conserved` says the records agree with each other; `ChannelAgrees`
  says that the queue of each node is, without overlap, its inbox, the batch on its way
  out and the completions in its channel. Neither half is kept without the other: a
  completion is of a queued test by the second, a queued test is nobody else's by the
  first.

`TypedStep`, `ShapeStep` and `ConsistentStep` have one case for each of the 41 actions
of `Next`; the work is in a lemma per kind of move: `LaidOutPlanned` (replan),
`SentKept` (fill), `CompletesTaken` and `CompletesPosted` (completions),
`RemovedSpread` and `RemovedAgrees` (remove_node), `FinishedAgrees` (a test ends).
Steps that move no test go through `QuietKept`, `StackIdle`, `TakenKept` and
`PostedKept`. `TestsConserved` then counts: no queue repeats a test, so none is longer
than there are tests (`DistinctShort`), and the places of a test are one or none. That
every completion is handled before the exit follows from `ChannelAgrees` with an empty
inbox and no completion in the channel.

`WaitersBlocked` relates the scheduler's line, the gate's line, the requests kept and
what the workers do; between a worker's step and the scheduler's knowledge of it lie
its channel, the permits on their way and a handler that is half done. `Settling` says
what holds in between, in six parts:

- `LineShape`: a node waits once; a handler retries only requests that are kept, each
  once, and makes none but steady calls (checks, fills, shutdowns) before.
- `Priced`: charges and reservations are numbers of slots, and a permit that was
  granted carries the number of a request.
- `Asked`: after a request a worker says nothing but that it gives up that request, or
  that it is gone (`Silent`). While a request is open, on its way or with the
  scheduler, its worker is blocked in it, in the test at the head of its inbox, with
  no answer on the way, that test is not done, and unless the worker was told to
  finish another one stands behind it (`Blocks`). No grant is ahead of the last
  request, and a worker runs its last test only when told to finish.
- `Supplied`: a node with a queue is registered; until it is told to finish some test
  there is not done and none was taken back; every test there costs more at its peak
  than it leaves held, so a head that is charged anew still needs slots; and what a
  blocked worker holds is within its last snapshot.
- `New`: a node the scheduler has not met has posted nothing before `ready`, so that
  message cannot restart the books of a node in line.
- `Line`: whoever waits is registered and either has a request kept or has one test at
  most (none if told to finish); whoever asks for slots waits; and while a handler
  runs, a request that is not in line is one it is about to retry (`ToRetry`).

Each part is proved from those before it, `Asked` and what follows from `Consistent` too.
That a waiting worker is idle follows at the end: a worker only goes on with a test when
it has the next one or was told to finish, and one in line without a request has
neither.

`TypeOK` bounds what plain typing does not: `Counted` says that the failures xdist has
counted, and the replacement that a handler is about to make, are no more than the
crashes whose last message was taken. `Buried` says that when that message was taken
the node is removed or about to be. With `Supplied`, no queue holds a test when the
session has come to its end (`AccountsClosed`), which is the last part of
`NothingAbandoned`.

Proved and therefore not run: the types of these modules, `BudgetKept`,
`RunsAloneNotNever`, `LineWellFormed`, `EvidenceCovers`, `MovesSpaced` and `GatesAgree`
by itself. They were explored by TLC before they were proved.

Only model-checked: all liveness (`Terminates`, `LimitRecovers`, `PressureYields`), which
is out of the prover's reach, as ENABLED is. What a fold or a sorted sequence comes to,
which is induction over data: `ShadowIsEarliestStart`, the plan of Planner
(`EachPlannedOnce`, `PromiseKept`, `EndsAsPromised`) and the merges of History
(`MergedAsRecorded`, `PassedOnEvidence`). `ReadingIsExact`, because ProcessTree declares
a RECURSIVE operator, which keeps it and MCParts from the prover. The refinement
`PermitsKept`, whose mapping selects from the channel with SelectSeq, which the provers
do not evaluate. And what is not done: `AnswersExpected` and `StarvingServed` of
Stealing, and of Scheduler `UseIsReserved`, `WithdrawnInTime`, `NeverReplayed`,
`ForcedAtStandstill` and the first parts of `NothingAbandoned`.

The properties of Scheduler that are left are not true of every session or rest on one
thing that is not proved yet. `_withdraw` takes back the tail of a queue when what the
node holds does not fit; in a session given up on crashes that can be the test that is
running (finding 6), so `UseIsReserved` needs a hypothesis on crashes. `NeverReplayed`,
`WithdrawnInTime` and the first parts of `NothingAbandoned` need that it does not happen
at an orderly stop, after which a crash can start another worker: arithmetic over the
charges of a queue, in the order in which they were set against the fixtures kept.
`ForcedAtStandstill` holds for costs as in MCScheduler only: MCSchedulerForced is a
counterexample for others.

## What is not modelled, and the plan

Not modelled at all: rendering, argument parsing and the parsing of markers and
sizes, reading files of the platform (cgroup, PSI, /proc), platforms that give no memory
reading or list processes in another way than Linux, JSON, terminal output, the
choice of the recorded termination, the observer that labels hosts. In Scheduler not:
several domains at once (they share nothing but the loop), `maxschedchunk` and the
seconds kept dispatched (both are `Ahead`), and `mark_test_pending`, which only
another plugin's crash hook calls. Learning from finished tests and the replacing of
parametrised instances change estimates, which are open where they are used. Known
and not stated as a property: a withdrawn test's fixtures stay in `lane.fixtures`; a
memory gate's leaving holder does not stop a forced admission; a retried span stays
open until the next set-up, so a worker that dies in between turns it into the
crashed one. Each is a hazard with a note, or a part of one.

What comes next:

1. That an orderly stop takes back no test that has begun, and from it `NeverReplayed`,
   `WithdrawnInTime` and the rest of `NothingAbandoned` as theorems; `UseIsReserved` for
   sessions without crashes. A started test then stands in a queue behind completed
   ones only.
2. That the gate of Scheduler implements Admission, as those of TwoGates do, with what
   is proved about Admission carried over.
3. Theorems for Stealing: what is proved of Scheduler holds of its handlers too, and
   from it `StarvingServed`.
4. Two domains with gates of their own and one controller.
