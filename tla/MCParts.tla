------------------------------- MODULE MCParts --------------------------------
(***************************************************************************)
(* The components that keep a state of their own and meet the others in    *)
(* values only (a demand, a duration, a span, a run) are checked side by   *)
(* side: which of them a behaviour is of is chosen at its beginning, and   *)
(* the others stand still.  Those that share no names are extended, the    *)
(* rest are instances.                                                     *)
(***************************************************************************)
EXTENDS GovernorLedger, PermitProtocol, TwoGates, Recording, MemorySampler, FixtureTimer,
        Declaring

VARIABLES
  part,                                                              \* the one that moves
  life, second, parent, own, waited,                                 \* ProcessTree
  reader, unread, spotted, found, visited, tids, total, before,
  case, lanes, living, dispatched, step, promise,                    \* Planner
  loaded, merged,                                                    \* History
  movingLimit, inARow, cleanRow, moved, read, taken, flip,             \* Governor
  gateLimit, reserved, line, ask, forced, now, head, free, ends, turn, sentOut   \* Backfill

-----------------------------------------------------------------------------
(* Three items, two of one node id. *)
ThreeItems == <<"a", "b", "a">>

T == INSTANCE ProcessTree WITH
  Processes <- {"a", "b"}, Me <- "me", Threaded <- {"a"}, MaxWork <- 1,
  todo <- unread, seen <- spotted

(* Four tests, the fixture of the first module on some of them, that of    *)
(* the second on the third; or one that stays for both modules' tests.     *)
Family(S) == [t \in 1 .. 4 |-> IF t \in S THEN {"f"} ELSE IF t = 3 THEN {"g"} ELSE {}]
Lasting == <<{"h"}, {"g", "h"}, {"g"}, {"h"}>>
Scopes  == [f |-> {"m"}, g |-> {"n"}, h |-> {"m", "n"}]
Seconds == [f |-> 2, g |-> 3, h |-> 7]
P == INSTANCE Planner WITH
  Tests <- 1 .. 4, Lanes <- 1 .. 2, Owns <- {s \in [1 .. 4 -> {1, 3}] : s[1] = 3},
  Families <- {[t \in 1 .. 4 |-> IF t = 4 THEN {"f"} ELSE {}], Lasting}
                \union {Family(S) : S \in {{1}, {1, 2}, {2, 4}, {1, 4}, {1, 2, 4}}},
  Clocks <- {<<0, 0>>, <<7, 9>>, <<0, 20>>}, Budgets <- {0, 3},
  Slots <- <<1, 2, 1, 1>>, Owner <- <<"m", "n", "n", "m">>, Home <- Scopes, Setup <- Seconds,
  SetupSlots <- [f |-> 3, g |-> 1, h |-> 1],
  alive <- living, sent <- dispatched

(* The same case, asked a thousand seconds later. *)
Hour == INSTANCE Planner WITH
  Tests <- 1 .. 4, Lanes <- 1 .. 2, Owns <- {}, Families <- {}, Clocks <- {}, Budgets <- {0, 3},
  Slots <- <<1, 2, 1, 1>>, Owner <- <<"m", "n", "n", "m">>, Home <- Scopes, Setup <- Seconds,
  SetupSlots <- [f |-> 3, g |-> 1, h |-> 1],
  alive <- living, sent <- dispatched,
  case <- [case EXCEPT !.free = [j \in 1 .. 2 |-> @[j] + 1000]]

(* Tests that want more of the one gate than of the other, that leave some *)
(* of it behind, and one that wants more bytes than there are.             *)
Demand(slot, byte, keepSlot, keepByte) ==
  [slots |-> slot, bytes |-> byte, keepSlots |-> keepSlot, keepBytes |-> keepByte]
MixedDemands == {Demand(2, 1, 1, 0), Demand(1, 2, 0, 1), Demand(1, 3, 0, 0)}

B == INSTANCE Backfill WITH
  Workers <- {"u", "v", "w"}, Budget <- 2, MaxDemand <- 2, Never <- 12, MaxSince <- 12,
  MaxForced <- 0, Lengths <- {1, 2}, MaxTests <- 4, limit <- gateLimit, tests <- sentOut

(* Recorded runs: a lane of one name in two of them, a retry, a test       *)
(* measured on one lane only, a fixture paid for, a run cut short.         *)
Span(n, w, attempt, outcome, from, length) ==
  [name |-> n, worker |-> <<w>>, occurrence |-> 0, attempt |-> attempt, outcome |-> outcome,
   start |-> from, stop |-> from + length, paid |-> {}, uses |-> {}, wait |-> 0,
   contended |-> FALSE, base |-> 4, peak |-> 5 + from, after |-> 4]
Recorded(from, length, termination, ids, recorded) ==
  [start |-> from, stop |-> from + length, termination |-> termination,
   workers |-> [i \in DOMAIN ids |-> [id |-> <<ids[i]>>, ready |-> 0]], spans |-> recorded]
H == INSTANCE History WITH
  Paths <- {<<"r">>, <<"r", "q">>, <<"z", "q">>}, Baseline <- {"s"}, Limit <- 1, MaxRuns <- 3,
  Runs <- {
    Recorded(5, 9, "finished", <<"g", "h">>,
      <<Span("t", "g", 0, "passed", 1, 2),
        [Span("u", "h", 0, "passed", 2, 1) EXCEPT !.paid = {"f"}, !.after = 6, !.stop = 6]>>),
    Recorded(3, 9, "finished", <<"g">>,
      <<Span("t", "g", 0, "rerun", 1, 2), Span("t", "g", 1, "passed", 4, 3),
        [Span("t", "h", 0, "passed", 7, 1) EXCEPT !.peak = 0, !.contended = TRUE]>>),
    Recorded(7, 9, "interrupted", <<>>,
      <<Span("t", "q", 0, "failed", 0, 1),
        [Span("t", "g", 0, "passed", 2, 4) EXCEPT !.paid = {"f", "s"}, !.after = 9],
        Span("u", "g", 0, "crashed", 6, 1)>>)}

(* The thresholds of the code.  Every sample is a step, also one that       *)
(* changes nothing, so that fairness asks for another sample and never for *)
(* one of its kind.                                                        *)
Pressure == INSTANCE Governor WITH
  StepDownAfter <- 3, RecoverAfter <- 8, Cooldown <- 10, Steps <- {1, 4, 10}, Rates <- 0 .. 3,
  limit <- movingLimit, contended <- inARow, clean <- cleanRow, since <- moved,
  baseline <- read, verdict <- taken

-----------------------------------------------------------------------------
tree ==
  <<life, second, parent, own, waited, reader, unread, spotted, found, visited, tids, total,
    before>>
governing == <<vars, ledger>>
planner == <<case, lanes, living, dispatched, step, promise>>
backfill ==
  <<gateLimit, reserved, line, ask, forced, now, head, free, ends, turn, sentOut>>
history == <<loaded, merged>>
pressure == <<movingLimit, inARow, cleanRow, moved, read, taken, flip>>
parts ==
  <<part, governing, permits, recording, tree, memory, fixtures, declaring, planner, gates,
    backfill, history, pressure>>

PartsInit ==
  /\ part \in {"ledger", "permits", "recording", "tree", "memory", "fixtures", "declaring",
               "planner", "gates", "backfill", "history", "pressure"}
  /\ LedgerInit /\ PermitInit /\ RecordingInit /\ T!Init /\ SamplerInit /\ TimerInit
  /\ DeclaringInit /\ P!Init /\ GatesInit /\ B!ClockInit
  /\ H!Init /\ Pressure!Init /\ flip = FALSE
  /\ todo = CHOOSE s \in Orders : TRUE  \* the members are interchangeable
  /\ part # "memory" => size = 1 /\ below = 0
  /\ part # "backfill" => turn = <<"u", "v", "w">>

PartsNext ==
  /\ UNCHANGED part
  /\ IF part = "ledger" THEN LedgerNext ELSE UNCHANGED governing
  /\ IF part = "permits" THEN PermitNext ELSE UNCHANGED permits
  /\ IF part = "recording" THEN RecordingNext ELSE UNCHANGED recording
  /\ IF part = "tree" THEN T!Next ELSE UNCHANGED tree
  /\ IF part = "memory" THEN SamplerNext ELSE UNCHANGED memory
  /\ IF part = "fixtures" THEN TimerNext ELSE UNCHANGED fixtures
  /\ IF part = "declaring" THEN DeclaringNext ELSE UNCHANGED declaring
  /\ IF part = "planner" THEN P!Next ELSE UNCHANGED planner
  /\ IF part = "gates" THEN GatesNext ELSE UNCHANGED gates
  /\ IF part = "backfill" THEN B!ClockNext ELSE UNCHANGED backfill
  /\ IF part = "history" THEN H!Next ELSE UNCHANGED history
  /\ IF part = "pressure" THEN Pressure!Next /\ flip' = ~flip ELSE UNCHANGED pressure

(* Tests keep completing, each a second after the one sampled before it,   *)
(* and the host keeps its signals: there is always another sample that     *)
(* sees something.                                                         *)
PartsSpec ==
  /\ PartsInit /\ [][PartsNext]_parts
  /\ WF_pressure(part = "pressure" /\ Pressure!Seeing /\ flip' = ~flip)

-----------------------------------------------------------------------------
(* A reading counts no CPU time twice while children are reaped, and       *)
(* misses no process that is in the tree all the while, unless its parent  *)
(* moved it between threads that were just being read (telemetry.py,       *)
(* ProcessTreeClock, proc_descendants).                                    *)
ReadingIsExact == part = "tree" => T!CountedOnce /\ T!NoneMissed

(* Every test is in one plan, once, whatever is split and moved            *)
(* (schedule.py, plan and transfer).                                       *)
EachPlannedOnce == part = "planner" => P!EachPlannedOnce

(* Balancing and reordering do not make the predicted run longer than the  *)
(* placement (schedule.py, _balance and _order), and a thousand seconds    *)
(* later in the day it is the same plan (schedule.py, EPSILON).            *)
PromiseKept == part = "planner" =>
  /\ P!OrderKeepsThePromise
  /\ step = "none" /\ case # P!None => P!Planned = Hour!Planned

(* Merged, every worker of every input is a lane of its own, every event   *)
(* keeps its time of day, and neither repeating a run nor merging in       *)
(* stages changes an estimate (cli.py, merge_runs; model.py, Run.rebased;  *)
(* schedule.py, Estimates.from_run).                                       *)
MergedAsRecorded == part = "history" =>
  H!LanesStayApart /\ H!EventsKeepTheirTime /\ H!MergingKeepsEstimates

(* A budget is passed on complete, measured and successful runs only, and  *)
(* no run is worse than itself, or than itself seen twice (compare.py,     *)
(* _tests and compare_runs).                                               *)
PassedOnEvidence == part = "history" => H!PassedOnEvidence /\ H!NoWorseThanItself

(* Dispatching and transferring in any order, the run is never predicted   *)
(* to end later than when it was laid out (schedule.py, Lane.dispatch and  *)
(* transfer).                                                              *)
EndsAsPromised == part = "planner" => P!EndsAsPromised

(* When from some time on no sample is contended, the limit comes back to  *)
(* the budget and stays there (admission.py, observe; README.md:275-277).  *)
LimitRecovers == part = "pressure" => Pressure!Recovers

(* Sustained contention from outside is yielded to, down to the one slot   *)
(* that is always left (admission.py, observe).                            *)
PressureYields == part = "pressure" => Pressure!Yields

(* When no projected end is older than the start of its test, a test let   *)
(* past the head of the line ends before the head could have had its slots *)
(* (admission.py:3-4).                                                     *)
FreshBackfillEndsInTime ==
  [][part = "backfill" => \A w \in {"u", "v", "w"} :
       B!PastHead(w) /\ B!FreshProjections(w) => B!EndsBeforeHeadCould(w)]_backfill
=============================================================================
