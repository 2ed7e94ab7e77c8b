------------------------------- MODULE TwoGates -------------------------------
(***************************************************************************)
(* A domain with a CPU and a memory gate (pytest_timing/xdist_scheduler.py,*)
(* _raise, _reserve, _withdraw, _resolve_stalls, _force over _gates): two  *)
(* objects of class Admission that the scheduler keeps in step by calling  *)
(* them one after the other.  A standstill is looked for at the CPU gate   *)
(* only (_any_gate), so the two must agree on who is busy.                 *)
(*                                                                         *)
(* A worker's queue is its head; what the tests ask for and leave behind   *)
(* is open, and so are the projected ends.  Longer queues, parked workers, *)
(* run-time requests and a moving limit are Scheduler's.                   *)
(***************************************************************************)
EXTENDS Integers, Sequences, FiniteSets

CONSTANTS
  Members,              \* the workers of the domain
  SlotBudget, ByteBudget,
  MaxSlots, MaxBytes,   \* bounds: the most a test asks for or leaves behind
  Tests,                \* what a test may be
  MaxTests,             \* bound: tests handed out
  MaxForced             \* bound: forced admissions counted

Demands ==
  [slots : 0 .. MaxSlots, bytes : 0 .. MaxBytes,
   keepSlots : 0 .. MaxSlots, keepBytes : 0 .. MaxBytes]
Stalls  == "stalls"

ASSUME GatedAssumption  == IsFiniteSet(Members) /\ Stalls \notin Members
ASSUME BudgetsAssumption ==
  /\ SlotBudget \in Nat \ {0} /\ ByteBudget \in Nat \ {0}
  /\ MaxSlots \in Nat /\ MaxSlots >= SlotBudget
  /\ MaxBytes \in Nat /\ MaxBytes >= ByteBudget
ASSUME TestsAssumption  == Tests \subseteq Demands
ASSUME CountsAssumption == MaxTests \in Nat /\ MaxForced \in Nat

VARIABLES
  slotLimit, slotReserved, slotLine, slotAsk, slotForced,
  byteLimit, byteReserved, byteLine, byteAsk, byteForced,
  mode,       \* worker -> "idle", "waiting", "running", "leaving", "gone"
  told,       \* workers told to shut down
  test,       \* worker -> its head, or the last one it ran
  todo,       \* workers the running handler has still to check, then Stalls
  count       \* tests handed out

slotGate == <<slotLimit, slotReserved, slotLine, slotAsk, slotForced>>
byteGate == <<byteLimit, byteReserved, byteLine, byteAsk, byteForced>>
gates    == <<slotGate, byteGate, mode, told, test, todo, count>>

Cpu == INSTANCE Admission WITH
  Workers <- Members, Budget <- SlotBudget, MaxDemand <- MaxSlots, Never <- 3, MaxSince <- 1,
  limit <- slotLimit, reserved <- slotReserved, line <- slotLine, ask <- slotAsk,
  forced <- slotForced
Memory == INSTANCE Admission WITH
  Workers <- Members, Budget <- ByteBudget, MaxDemand <- MaxBytes, Never <- 3, MaxSince <- 1,
  limit <- byteLimit, reserved <- byteReserved, line <- byteLine, ask <- byteAsk,
  forced <- byteForced

Ends   == {1, 2}    \* lane.free: past, or in the future
NoTest == [slots |-> 0, bytes |-> 0, keepSlots |-> 0, keepBytes |-> 0]
At(call) == todo # <<>> /\ Head(todo) = call

-----------------------------------------------------------------------------
(* _raise: all or none.                                                    *)
BothAdmit(w, t, end) ==
  /\ t.slots <= Cpu!Held(w) \/ Cpu!Fits(w, t.slots, end)
  /\ t.bytes <= Memory!Held(w) \/ Memory!Fits(w, t.bytes, end)

TakeBoth(w, t, end) ==
  /\ Cpu!RaiseCovered(w, t.slots, end) \/ Cpu!RaiseReserved(w, t.slots, end)
  /\ Memory!RaiseCovered(w, t.bytes, end) \/ Memory!RaiseReserved(w, t.bytes, end)

LineAnew(w, t) ==                        \* mutant: a retry joins the memory line anew
  /\ Cpu!Join(w, t.slots, 1) /\ Memory!JoinAgain(w, t.bytes, 1)
  /\ UNCHANGED <<slotLimit, slotReserved, slotForced, byteLimit, byteReserved, byteForced>>

Line(w, t) ==
  /\ Cpu!Join(w, t.slots, 1) /\ Memory!Join(w, t.bytes, 1)
  /\ UNCHANGED <<slotLimit, slotReserved, slotForced, byteLimit, byteReserved, byteForced>>

CpuAssigned(w, slots, bytes, busy) ==    \* mutant: memory forgotten
  Cpu!Assign(w, slots, 1, busy) /\ Memory!Assign(w, Memory!Held(w), 1, busy)
Assigned(w, slots, bytes, busy) ==
  Cpu!Assign(w, slots, 1, busy) /\ Memory!Assign(w, bytes, 1, busy)

Left(w) == Cpu!Leave(w) /\ Memory!Leave(w)

-----------------------------------------------------------------------------
(* check_schedule: the head is new, or stood in line.                      *)
Heads(w) ==
  CASE mode[w] = "waiting" -> {test[w]}
    [] mode[w] = "idle" /\ w \notin told /\ count < MaxTests -> Tests
    [] OTHER -> {}

Handed(w, t) ==
  /\ test' = [test EXCEPT ![w] = t]
  /\ count' = IF mode[w] = "idle" THEN count + 1 ELSE count
  /\ todo' = Tail(todo)
  /\ UNCHANGED told

Start(w, t, end) ==
  /\ At(w) /\ t \in Heads(w)
  /\ BothAdmit(w, t, end)
  /\ TakeBoth(w, t, end)
  /\ mode' = [mode EXCEPT ![w] = "running"]
  /\ Handed(w, t)

Refuse(w, t, end) ==
  /\ At(w) /\ t \in Heads(w)
  /\ ~BothAdmit(w, t, end)
  /\ Line(w, t)
  /\ mode' = [mode EXCEPT ![w] = "waiting"]
  /\ Handed(w, t)

Rest(w) ==
  /\ At(w) /\ Heads(w) = {}
  /\ todo' = Tail(todo)
  /\ UNCHANGED <<slotGate, byteGate, mode, told, test, count>>

(* mark_test_complete: _reserve, and then the line is retried.             *)
Complete(w) ==
  /\ todo = <<>> /\ mode[w] = "running"
  /\ IF w \in told
     THEN Assigned(w, 0, 0, FALSE) /\ mode' = [mode EXCEPT ![w] = "leaving"]
     ELSE Assigned(w, test[w].keepSlots, test[w].keepBytes, FALSE)
            /\ mode' = [mode EXCEPT ![w] = "idle"]
  /\ todo' = <<w>> \o slotLine \o <<Stalls>>
  /\ UNCHANGED <<slotLine, slotAsk, byteLine, byteAsk, told, test, count>>

(* xdist shuts a worker down: _withdraw.  A test that is taken back leaves  *)
(* its fixtures projected: they stay in the bytes reserved until the worker *)
(* exits, and in the slots unless it has reported what it holds.            *)

Stop(w, end) ==
  /\ todo = <<>> /\ w \notin told /\ mode[w] # "gone"
  /\ told' = told \union {w}
  /\ IF mode[w] # "waiting"
     THEN /\ UNCHANGED <<slotGate, byteGate>>
          /\ mode' = [mode EXCEPT ![w] = IF @ = "idle" THEN "leaving" ELSE @]
     ELSE IF BothAdmit(w, test[w], end)
     THEN TakeBoth(w, test[w], end) /\ mode' = [mode EXCEPT ![w] = "running"]
     ELSE /\ \E slots \in {Cpu!Held(w), test[w].keepSlots} :
               Assigned(w, slots, test[w].keepBytes, FALSE)
          /\ Left(w)
          /\ mode' = [mode EXCEPT ![w] = "leaving"]
  /\ UNCHANGED <<test, todo, count>>

(* The worker exits, or crashes: remove_node.                              *)
Remove(w) ==
  /\ todo = <<>> /\ mode[w] # "gone"
  /\ Cpu!Release(w) /\ Memory!Release(w)
  /\ mode' = [mode EXCEPT ![w] = "gone"]
  /\ told' = told \union {w}
  /\ todo' = Cpu!Without(slotLine, w) \o <<Stalls>>
  /\ UNCHANGED <<test, count>>

(* _resolve_stalls *)
Holding  == {w \in Members : Cpu!Held(w) > 0}      \* mutant: idle workers are waited for
Draining == {w \in Members : mode[w] = "leaving" /\ Cpu!Held(w) > 0}

Stalled == Cpu!Idle /\ slotLine # <<>> /\ Draining = {}

Resolve ==
  /\ At(Stalls)
  /\ IF Stalled
     THEN LET w == Head(slotLine)
          IN  /\ Assigned(w, test[w].slots, test[w].bytes, TRUE) /\ Left(w)
              /\ mode' = [mode EXCEPT ![w] = "running"]
     ELSE UNCHANGED <<slotGate, byteGate, mode>>
  /\ todo' = Tail(todo)
  /\ UNCHANGED <<told, test, count>>

(* schedule: every worker is checked once, heaviest head first.            *)
Orders ==
  {s \in [1 .. Cardinality(Members) -> Members] : \A i, j \in DOMAIN s : s[i] = s[j] => i = j}

GatesInit ==
  /\ Cpu!Init /\ Memory!Init
  /\ mode = [w \in Members |-> "idle"] /\ told = {} /\ test = [w \in Members |-> NoTest]
  /\ todo \in Orders
  /\ count = 0

GatesNext ==
  \/ \E w \in Members :
       \/ \E t \in Tests \union {test[w]}, end \in Ends : Start(w, t, end) \/ Refuse(w, t, end)
       \/ \E end \in Ends : Stop(w, end)
       \/ Rest(w) \/ Complete(w) \/ Remove(w)
  \/ Resolve

GatesSpec == GatesInit /\ [][GatesNext]_gates

-----------------------------------------------------------------------------
(* Each gate is called as an Admission is: whatever the handlers make of   *)
(* the two together, the one sees none of it but calls it serves (_raise,  *)
(* _reserve, _withdraw, _force, _release_runtime over _gates).             *)
GatesAdmit == Cpu!Spec /\ Memory!Spec

(* The two gates agree ("state they keep in step", _any_gate) on who runs  *)
(* and on who stands in line, and in which order: a worker that one of     *)
(* them alone took for busy would hide a standstill, or be taken for one.  *)
GatesAgree ==
  /\ slotLine = byteLine
  /\ \A w \in Members :
       /\ slotReserved[w].busy = byteReserved[w].busy
       /\ slotReserved[w].busy <=> mode[w] = "running"

(* A test runs with what it needs of both gates or not at all ("all or     *)
(* none", _raise), forced or not, the gates agree on it, and short of a    *)
(* forced admission neither budget is exceeded to that end.                *)
BothOrNone ==
  /\ GatesAgree
  /\ \A w \in Members : mode[w] = "running" =>
       Cpu!Held(w) >= Cpu!Clamp(test[w].slots) /\ Memory!Held(w) >= Memory!Clamp(test[w].bytes)
  /\ Cpu!BudgetKept /\ Memory!BudgetKept

(* Somebody waits only while somebody runs or is about to exit: workers    *)
(* that hold of one gate what the other waits for are not left standing.   *)
NoStandoff ==
  todo = <<>> /\ slotLine # <<>> => \E w \in Members : mode[w] \in {"running", "leaving"}
==============================================================================
