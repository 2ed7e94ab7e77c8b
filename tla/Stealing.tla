------------------------------- MODULE Stealing -------------------------------
(***************************************************************************)
(* The `worksteal` mode of DurationScheduling (xdist_scheduler.py).  Every *)
(* lane's plan goes out as far as the gate lets it; a worker down to its   *)
(* last test is put on a list, and the controller asks another for a part  *)
(* of its tail, one request at a time.  The worker gives back all of it or *)
(* nothing, from the thread that receives commands, while its main thread  *)
(* runs on: completions are on their way when the request is made, and     *)
(* the donor or the taker may be gone when it is answered.                 *)
(*                                                                         *)
(* Which tail is worth asking for (_choose_steal) is left open, as the     *)
(* planner is.                                                             *)
(***************************************************************************)
EXTENDS Scheduler

VARIABLES
  asked,     \* steal_requested_from_node
  starving,  \* workers waiting for work, oldest first
  steals,    \* node -> steal commands on their way to it
  before     \* test -> the fixtures its dispatch found (Charge.before)

stealing == <<asked, starving, steals, before>>

Nobody == "nobody"

Margin == MinPending + 1  \* tests of a donor that are never asked for

ASSUME WholePlansAssumption == Ahead > Cardinality(Tests)  \* WantsMore holds

Deal      == [op |-> "deal"]
Starve(w) == [op |-> "starve", node |-> w]
StealNext == [op |-> "steal"]
Dealt     == [op |-> "dealt"]  \* the plans were sent out once

(* _check_stealing *)
StealCheck(w) ==
  /\ At(Check(w))
  /\ IF ShuttingDown(w) \/ Len(queue[w]) >= MinPending THEN Return
     ELSE Call(<<Fill(w, <<>>), Starve(w)>>)
  /\ UNCHANGED <<still, work, gate, line, told, inbox, stealing>>

StealDispatch(w, out, t) ==
  /\ FillDispatch(w, out, t)
  /\ before' = [before EXCEPT ![t] = fixtures[w]]
  /\ UNCHANGED <<asked, starving, steals>>

(* Nothing is borrowed while the plans are sent out the first time.        *)
Borrow(w, out, donor, chunk) ==
  /\ \A i \in DOMAIN todo : todo[i] # Dealt
  /\ FillBorrow(w, out, donor, chunk)
  /\ UNCHANGED stealing

StealFiller(w, out) ==
  \/ \E t \in plan[w] : StealDispatch(w, out, t)
  \/ \E donor \in Nodes, chunk \in SUBSET pending : Borrow(w, out, donor, chunk)
  \/ (FillDone(w, out) \/ FillBlocked(w, out) \/ FillRefused(w, out)) /\ UNCHANGED stealing

(* The rest of _check_stealing: a worker whose head is not admitted        *)
(* neither steals nor shuts down.                                          *)
Served(w) == Len(queue[w]) >= MinPending \/ w \in Elements(starving)

StarveNot(w) ==
  /\ At(Starve(w))
  /\ \/ Served(w) /\ UNCHANGED <<gate, line>>
     \/ ~Served(w) /\ w \in Elements(waiting) /\ queue[w] # <<>> /\ NotGranted(w)
  /\ Return
  /\ UNCHANGED <<still, work, told, inbox, stealing>>

Starves(w) ==
  /\ At(Starve(w)) /\ ~Served(w)
  /\ IF w \in Elements(waiting) /\ queue[w] # <<>> THEN Granted(w) ELSE UNCHANGED <<gate, line>>
  /\ starving' = Append(starving, w)
  /\ Call(<<StealNext>>)
  /\ UNCHANGED <<still, work, told, inbox, asked, steals, before>>

(* _steal_next; each round of its loop is a step.                          *)
Gone(w) == ShuttingDown(w) \/ w \notin registered

NoneStarves == starving = <<>>  \* mutant: a second request while one is on its way
Idle        == asked # Nobody \/ starving = <<>>

StealIdle ==
  /\ At(StealNext) /\ Idle
  /\ Return
  /\ UNCHANGED <<still, work, gate, line, told, inbox, stealing>>

StealDropped ==
  /\ At(StealNext) /\ ~Idle
  /\ Gone(Head(starving))
  /\ starving' = Tail(starving)
  /\ UNCHANGED <<todo, still, work, gate, line, told, inbox, asked, steals, before>>

(* _choose_steal: the tail of a donor's queue but its running test, the    *)
(* next one, and one more for reports on their way.                        *)
Asks(donor, n) ==
  /\ n \in 1 .. Len(queue[donor]) - Margin
  /\ donor \in LiveNodes \ {Head(starving)}

TailOf(q, n) == SubSeq(q, Len(q) - n + 1, Len(q))

StealAsked(donor, n) ==
  /\ At(StealNext) /\ ~Idle
  /\ ~Gone(Head(starving))
  /\ Asks(donor, n)
  /\ asked' = donor
  /\ steals' = [steals EXCEPT ![donor] = Append(@, TailOf(queue[donor], n))]
  /\ Return
  /\ UNCHANGED <<still, work, gate, line, told, inbox, starving, before>>

(* Nothing is worth taking: it may run its last test.                      *)
StealHopeless ==
  /\ At(StealNext) /\ ~Idle
  /\ ~Gone(Head(starving))
  /\ starving' = Tail(starving)
  /\ Call(<<Shutdown(Head(starving)), StealNext>>)
  /\ UNCHANGED <<still, work, gate, line, told, inbox, asked, steals, before>>

(* remove_pending_tests_from_node                                          *)
StillThere(w, chunk) == fixtures[w]  \* mutant: the stolen tests' fixtures stay projected
Restored(w, chunk)   == before[Head(chunk)]

NoNewChoice == <<Admit, Loop>>  \* mutant: a refusal leaves the taker waiting
Refused     == <<StealNext, Admit, Loop>>

Unscheduled(w) ==
  /\ Takes(w, "unscheduled")
  /\ asked' = Nobody
  /\ LET chunk  == Head(events[w])[2]
         stolen == Elements(chunk)
         rest   == SelectSeq(queue[w], LAMBDA t : t \notin stolen)
         r      == Head(starving)
     IN  IF stolen = {}
         THEN /\ todo' = Refused
              /\ UNCHANGED <<work, withdrawn, gate, starving>>
         ELSE /\ queue' = [queue EXCEPT ![w] = rest]
              /\ charge' = [t \in Tests |-> IF t \in stolen THEN NoCharge ELSE charge[t]]
              /\ fixtures' = [fixtures EXCEPT ![w] = Restored(w, chunk)]
              /\ withdrawn' = withdrawn \ stolen
              /\ pending' = pending \cup stolen
              /\ Reserve(w, rest) /\ UNCHANGED limit
              /\ starving' = IF starving = <<>> THEN <<>> ELSE Tail(starving)
              /\ IF starving = <<>> \/ Gone(r)
                 THEN todo' = <<Replan(stolen), StealNext, Admit, Loop>> /\ UNCHANGED plan
                 ELSE /\ plan' = [plan EXCEPT ![r] = @ \cup stolen]
                      /\ todo' = <<Check(r), StealNext, Admit, Loop>>
  /\ UNCHANGED <<line, nodes, down, session, process, inbox, skip, grants, outcome, moves,
                 steals, before>>

(* remove_node: its answer will never come.                                *)
Forget(w) == asked' = IF asked = w THEN Nobody ELSE asked

Removed(w) ==
  /\ Crashed(w) \/ FinishedRemove(w)
  /\ Forget(w)
  /\ starving' = G!Without(starving, w)
  /\ UNCHANGED <<steals, before>>

(* tests_finished *)
StealLoop ==
  \/ LoopOnce /\ asked = Nobody
  \/ /\ At(Loop) /\ asked # Nobody
     /\ Return
     /\ UNCHANGED <<still, work, gate, line, told, inbox>>

(* WorkerInteractor.steal: nothing is given back unless the whole chunk is *)
(* still in the worker's queue, which the running test and the next one    *)
(* have left.                                                              *)
Untaken(w, taken) == SubSeq(inbox[w], taken + 1, Len(inbox[w]))

Answer(w, chunk, taken) ==
  IF Elements(chunk) \subseteq Elements(Untaken(w, taken)) THEN chunk ELSE <<>>

GiveBack(w) ==
  /\ status[w] = "up" /\ steals[w] # <<>>
  /\ steals' = [steals EXCEPT ![w] = Tail(@)]
  /\ \E taken \in (IF using[w] = Idling THEN {1, 2} ELSE {2}) :
       LET given == Answer(w, Head(steals[w]), taken)
           gone  == Elements(given) \cap Elements(Untaken(w, taken))
       IN  /\ inbox' = [inbox EXCEPT ![w] = SelectSeq(@, LAMBDA t : t \notin gone)]
           /\ Post(w, <<<<"unscheduled", given>>>>)
  /\ UNCHANGED <<central, down, process, skip, grants, asked, starving, before>>

-----------------------------------------------------------------------------
(* schedule sends every plan out, then looks at every worker.              *)
StealInit ==
  /\ Start
  /\ todo = <<Deal, Loop>>
  /\ asked = Nobody
  /\ starving = <<>>
  /\ steals = [w \in Nodes |-> <<>>]
  /\ before = [t \in Tests |-> {}]

DealOut ==
  /\ At(Deal)
  /\ LayOut(Tests)
  /\ \E order \in Orders(registered) :
       Call([i \in DOMAIN order |-> Fill(order[i], <<>>)] \o <<Dealt>> \o Each(Check, order))
  /\ UNCHANGED <<still, pending, queue, charge, fixtures, gate, line, told, inbox, stealing>>

DealDone ==
  /\ At(Dealt)
  /\ Return
  /\ UNCHANGED <<still, work, gate, line, told, inbox, stealing>>

StealController ==
  \/ \E w \in Nodes :
       \/ StealCheck(w) \/ StarveNot(w) \/ Starves(w)
       \/ AtOp("fill") /\ Head(todo).node = w /\ StealFiller(w, Head(todo).out)
       \/ Unscheduled(w) \/ Removed(w)
       \/ \E n \in 1 .. Cardinality(Tests) : StealAsked(w, n)
       \/ Common(w) /\ UNCHANGED stealing
  \/ DealOut \/ DealDone
  \/ StealIdle \/ StealDropped \/ StealHopeless
  \/ Anywhere /\ UNCHANGED stealing
  \/ StealLoop /\ UNCHANGED stealing

(* A command is taken before one sent after it: what only a worker told to *)
(* exit does, it does when it has answered.                                *)
Heard(w) ==
  w \in told /\ using[w] = Idling /\ Len(inbox[w]) < MinPending => steals[w] = <<>>

StealWorker(w) ==
  \/ GiveBack(w)
  \/ Heard(w) /\ Worker(w) /\ UNCHANGED stealing

StealCrash(w) ==
  /\ Crash(w)
  /\ steals' = [steals EXCEPT ![w] = <<>>]
  /\ UNCHANGED <<asked, starving, before>>

StealNextState ==
  \/ StealController
  \/ \E w \in Nodes : StealWorker(w) \/ StealCrash(w)
  \/ Stopped /\ UNCHANGED stealing

stealVars == <<vars, stealing>>

StealSpec == StealInit /\ [][StealNextState]_stealVars

(* As in Scheduler; the thread that receives commands runs too.            *)
FairStealSpec ==
  /\ StealSpec
  /\ WF_stealVars(StealController) /\ \A w \in Nodes : WF_stealVars(StealWorker(w))

-----------------------------------------------------------------------------
(* An answer comes from the worker that was asked, and the tests in it are *)
(* still in the controller's queue of that worker: the assertion, and the  *)
(* first = next(...), of remove_pending_tests_from_node.                   *)
AnswersExpected ==
  \A w \in registered : \A i \in DOMAIN events[w] :
    events[w][i][1] = "unscheduled" =>
      asked = w /\ Elements(events[w][i][2]) \subseteq Elements(queue[w])

(* A worker that waits for work is not forgotten: it "asks again or is shut *)
(* down" (ARCHITECTURE.md:221) before the controller turns to another      *)
(* event, unless a request is on its way.  Only while no worker is lost:    *)
(* when the worker asked dies, nobody looks at the list again (remove_node *)
(* drops the request, and _check_stealing passes over a worker on it).      *)
StarvingServed ==
  todo = <<>> /\ asked = Nobody /\ down = {} => starving = <<>>

(* "A worker down to its last test is put on a waiting list"               *)
(* (ARCHITECTURE.md:210): when no test runs, none can start and nothing is *)
(* on its way, so that only the controller could still move, a worker with *)
(* one test waits for work or for a grant.                                 *)
Silent(w) ==
  /\ events[w] = <<>> /\ steals[w] = <<>> /\ using[w] = Idling
  /\ Len(inbox[w]) < MinPending /\ ~ShuttingDown(w)

LastTestServed ==
  todo = <<>> /\ (\A w \in registered : Silent(w)) =>
    \A w \in registered :
      Len(queue[w]) = 1 => w \in Elements(starving) \cup Elements(waiting)
=============================================================================
