------------------------------ MODULE FixtureTimer ------------------------------
(***************************************************************************)
(* What FixtureTimer (pytest_timing/fixtures.py) records while tests ask   *)
(* for shared fixtures: by signature, in the test, or in the body of       *)
(* another fixture (getfixturevalue), where the set-ups nest; while the    *)
(* worker waits for slots in between; and when the instance asked for is   *)
(* in the cache since an earlier test.  A set-up may raise: pytest keeps   *)
(* the exception in the cache, to raise it for whoever asks again.  A key  *)
(* is a fixture: scopes, owners and parameters only tell instances apart.  *)
(***************************************************************************)
EXTENDS Integers, Sequences

CONSTANTS
  Fixtures,    \* keys of the shared fixtures
  MaxTimed,    \* bound: tests of the worker
  MaxClock     \* bound: time

VARIABLES
  cached,      \* fixtures that are set up, or whose set-up raised
  broken,      \* those whose set-up raised
  resolved,    \* what the test's request has resolved (_fixture_defs)
  stack,       \* open set-ups: [key, before, started, workStarted, nested]
  setups,      \* _setups: key -> seconds, or None
  dynamic,     \* _dynamic: key -> keys
  timer, work, \* perf_counter, CPU seconds of the process tree
  wait, waitWork, setupWork,
  tests,       \* tests begun
  truth        \* [time: key -> seconds its own body ran, work: CPU seconds in set-ups,
               \*  needs: key -> what its body asked for, first: what it was first to]

fixtures == <<cached, broken, resolved, stack, setups, dynamic, timer, work, wait,
              waitWork, setupWork, tests, truth>>

None == -1
Top  == stack[Len(stack)]
Pop  == SubSeq(stack, 1, Len(stack) - 1)
Larger(a, b) == IF a >= b THEN a ELSE b

(* Keys reached from `keys` along `map`: shared_fixtures. *)
Reached(keys, map) ==
  LET Step(S) == S \union UNION {map[k] : k \in S}
      reach[n \in 0 .. 8] == IF n = 0 THEN keys ELSE Step(reach[n - 1])
  IN  reach[8]

-----------------------------------------------------------------------------
(* pytest_runtest_setup, after the instances the last test was the last to *)
(* use are torn down, with those built on them.                            *)
RuntestSetup ==
  /\ stack = <<>> /\ tests < MaxTimed
  /\ \E kept \in SUBSET cached :
       /\ \A f \in kept : truth.needs[f] \subseteq kept
       /\ cached' = kept /\ broken' = broken \intersect kept
  /\ tests' = tests + 1
  /\ resolved' = {}
  /\ setups' = [f \in Fixtures |-> None]
  /\ setupWork' = 0 /\ wait' = 0 /\ waitWork' = 0
  /\ truth' = [truth EXCEPT !.time = [f \in Fixtures |-> None], !.work = 0]
  /\ UNCHANGED <<stack, dynamic, timer, work>>

(* Who asks: the body of the open set-up, or the test itself.              *)
AskedFor(f) ==
  IF stack = <<>> THEN truth
  ELSE [truth EXCEPT !.needs[Top.key] = @ \union {f},
                     !.first[Top.key] = IF f \in resolved THEN @ ELSE @ \union {f}]

(* The request finds what it resolved before, or the cached instance.      *)
Find(f) ==
  /\ tests > 0 /\ f \in cached \ broken
  /\ \A i \in DOMAIN stack : stack[i].key # f
  /\ resolved' = resolved \union {f}
  /\ truth' = AskedFor(f)
  /\ <<resolved', truth'>> # <<resolved, truth>>
  /\ UNCHANGED <<cached, broken, stack, setups, dynamic, timer, work, wait, waitWork,
                 setupWork, tests>>

(* pytest_fixture_setup, up to its yield. *)
FixtureSetup(f) ==
  /\ tests > 0 /\ f \notin cached
  /\ \A i \in DOMAIN stack : stack[i].key # f
  /\ stack' = Append(stack, [key |-> f, before |-> resolved, nested |-> 0,
                             started |-> timer - wait, workStarted |-> work - waitWork])
  /\ truth' = [AskedFor(f) EXCEPT !.time[f] = 0, !.needs[f] = {}, !.first[f] = {}]
  /\ UNCHANGED <<cached, broken, resolved, setups, dynamic, timer, work, wait, waitWork,
                 setupWork, tests>>

(* ... and after it. *)
WaitsIncluded == timer - Top.started           \* mutant: the clock runs on
BodySeconds == timer - wait - Top.started

Outermost(outer) == outer = <<>>

NothingPulled == {}                            \* mutant: dynamic requests are forgotten
Pulled == resolved \ Top.before

Measured ==
  /\ stack # <<>>
  /\ LET elapsed == BodySeconds
         outer   == Pop
     IN  /\ setups' = [setups EXCEPT ![Top.key] = elapsed - Top.nested]
         /\ stack' = IF outer = <<>> THEN <<>>
                     ELSE [outer EXCEPT ![Len(outer)].nested = @ + elapsed]
         /\ setupWork' = IF Outermost(outer)
                         THEN setupWork + Larger(0, work - waitWork - Top.workStarted)
                         ELSE setupWork
  /\ dynamic' = [dynamic EXCEPT ![Top.key] = Pulled]
  /\ cached' = cached \union {Top.key}
  /\ UNCHANGED <<timer, work, wait, waitWork, tests>>

FixtureDone ==
  /\ Measured
  /\ resolved' = resolved \union {Top.key}
  /\ UNCHANGED <<broken, truth>>

(* It raised; the body that asked for it may go on without it, or raise.   *)
FixtureRaised ==
  /\ Measured
  /\ broken' = broken \union {Top.key}
  /\ truth' = IF Pop = <<>> THEN truth
              ELSE LET asker == Pop[Len(Pop)].key
                   IN  [truth EXCEPT !.needs[asker] = @ \ {Top.key},
                                     !.first[asker] = @ \ {Top.key}]
  /\ UNCHANGED resolved

(* Time passes in the body on top, or in the test. *)
Run(cpu) ==
  /\ tests > 0 /\ timer < MaxClock
  /\ timer' = timer + 1 /\ work' = work + cpu
  /\ truth' = IF stack = <<>> THEN truth
              ELSE [truth EXCEPT !.time[Top.key] = @ + 1, !.work = @ + cpu]
  /\ UNCHANGED <<cached, broken, resolved, stack, setups, dynamic, wait, waitWork, setupWork,
                 tests>>

(* record_wait: the worker waited for slots, other processes worked.       *)
RecordWait(cpu) ==
  /\ tests > 0 /\ timer < MaxClock
  /\ timer' = timer + 1 /\ work' = work + cpu
  /\ wait' = wait + 1 /\ waitWork' = waitWork + cpu
  /\ UNCHANGED <<cached, broken, resolved, stack, setups, dynamic, setupWork, tests, truth>>

TimerInit ==
  /\ cached = {} /\ broken = {} /\ resolved = {} /\ stack = <<>>
  /\ setups = [f \in Fixtures |-> None]
  /\ dynamic = [f \in Fixtures |-> {}]
  /\ timer = 0 /\ work = 0 /\ wait = 0 /\ waitWork = 0 /\ setupWork = 0 /\ tests = 0
  /\ truth = [time |-> setups, work |-> 0, needs |-> dynamic, first |-> dynamic]

TimerNext ==
  \/ RuntestSetup \/ FixtureDone \/ FixtureRaised
  \/ \E f \in Fixtures : Find(f) \/ FixtureSetup(f)
  \/ \E cpu \in {0, 1} : Run(cpu) \/ RecordWait(cpu)

TimerSpec == TimerInit /\ [][TimerNext]_fixtures

-----------------------------------------------------------------------------
(* However set-ups nest and the worker waits in them, each is recorded     *)
(* with the time its own body took (fixtures.py:5, "Clocks exclude nested  *)
(* setup and runtime admission waits").                                    *)
OwnTimeRecorded ==
  \A f \in Fixtures : setups[f] # None => setups[f] = truth.time[f]

(* The CPU time of all set-ups of a test is counted once, without that of  *)
(* the waits (FixtureTimer, setup_work).                                   *)
WorkCountedOnce == stack = <<>> => setupWork = truth.work

(* Neither clock counts anything that is not the set-up's own.             *)
SetUpsMeasuredApart == OwnTimeRecorded /\ WorkCountedOnce

(* A test is reported with every fixture the instances it uses were built  *)
(* on, cached or not (shared_fixtures) - as far as the set-up of an        *)
(* instance was the first in its test to ask for them.                     *)
UsesReported ==
  stack = <<>> => Reached(resolved, truth.first) \subseteq Reached(resolved, dynamic)

(* "Dynamic fixture requests also count for consumers of cached instances" *)
(* (fixtures.py:4-5), whoever asked first.                                 *)
AllUsesReported ==
  stack = <<>> => Reached(resolved, truth.needs) \subseteq Reached(resolved, dynamic)
==============================================================================
