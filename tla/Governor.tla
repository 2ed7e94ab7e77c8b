------------------------------- MODULE Governor -------------------------------
(***************************************************************************)
(* Pressure feedback: when Admission.observe (pytest_timing/admission.py)  *)
(* moves the limit.  The scheduler passes it a sample of the host's        *)
(* signals when a test completes, at most once a second                    *)
(* (xdist_scheduler.py, _sample).                                          *)
(*                                                                         *)
(* Counters and the age of the last move are kept up to the threshold they *)
(* are compared with; math.inf since a move that never was is Cooldown.    *)
(* Of the cumulative counter of quota throttling only matters whether it   *)
(* grew since it was last read, of the PSI share on which side of          *)
(* PRESSURE_THRESHOLD it lies.  Rates are whole CPUs.                      *)
(***************************************************************************)
EXTENDS Integers

CONSTANTS
  Budget,        \* Admission.budget
  StepDownAfter, \* STEP_DOWN_AFTER
  RecoverAfter,  \* RECOVER_AFTER
  Cooldown,      \* COOLDOWN, seconds
  Steps,         \* bound: seconds that may pass between two samples
  Rates          \* bound: CPU rates the run's own workers may add up to

ASSUME BudgetAssumption   == Budget \in Nat \ {0}
ASSUME DownAssumption     == StepDownAfter \in Nat \ {0}
ASSUME RecoverAssumption  == RecoverAfter \in Nat \ {0}
ASSUME CooldownAssumption == Cooldown \in Nat
ASSUME StepsAssumption    == Steps \subseteq Nat \ {0}
ASSUME RatesAssumption    == Rates \subseteq Nat

VARIABLES
  limit,      \* the moving limit
  contended,  \* contended samples in a row
  clean,      \* clean samples in a row
  since,      \* seconds since the limit last moved
  baseline,   \* was the throttling counter read before (last_throttled)
  verdict     \* what the last sample was taken for

vars == <<limit, contended, clean, since, baseline, verdict>>

Verdicts == {"blind", "contended", "clean"}

Capped(n, bound) == IF n >= bound THEN bound ELSE n

(* A sample: the PSI share and the throttling counter, or no such signal.  *)
Samples == [some : {"none", "low", "high"}, throttled : {"none", "same", "more"},
            rate : Rates]

Throttled(s) == baseline /\ s.throttled = "more"

(* High pressure is held against others only: it is no contention when the *)
(* run's own rate explains it (OWN_SHARE, three quarters of the limit).    *)
External(s) == s.some = "high" /\ 4 * s.rate < 3 * limit

Contended(s) == Throttled(s) \/ External(s)

(* Both signals missing: the sample is not looked at. *)
Blind(s) == s.some = "none" /\ s.throttled = "none"

BelowBudget(target)  == target \in 1 .. Budget - 1    \* mutant: off by one at the top
AboveOne(target)     == target \in 2 .. Budget        \* mutant: off by one at the bottom
WithinBudget(target) == target \in 1 .. Budget

Ripe(count, threshold, elapsed) == count >= threshold /\ elapsed >= Cooldown

(* A move starts all over. *)
Moved(next, elapsed) ==
  /\ contended' = 0
  /\ clean' = 0
  /\ since' = 0

Stayed(next, elapsed) ==
  /\ limit' = limit
  /\ contended' = next.contended
  /\ clean' = next.clean
  /\ since' = elapsed

NotInARow(s) ==                   \* mutant: a clean sample does not interrupt
  IF Contended(s)
  THEN [contended |-> Capped(contended + 1, StepDownAfter), clean |-> clean]
  ELSE [contended |-> contended, clean |-> Capped(clean + 1, RecoverAfter)]

(* The counters after a sample: it interrupts what the other kind counts.  *)
Counted(s) ==
  IF Contended(s)
  THEN [contended |-> Capped(contended + 1, StepDownAfter), clean |-> 0]
  ELSE [contended |-> 0, clean |-> Capped(clean + 1, RecoverAfter)]

(* observe: one step at a time, on sustained evidence, within 1 .. Budget. *)
Observe(s, elapsed) ==
  LET next == Counted(s)
      down == Contended(s)
      ripe == IF down THEN Ripe(next.contended, StepDownAfter, elapsed)
                      ELSE Ripe(next.clean, RecoverAfter, elapsed)
      target == IF down THEN limit - 1 ELSE limit + 1
  IN  /\ IF ripe /\ WithinBudget(target)
         THEN limit' = target /\ Moved(next, elapsed)
         ELSE Stayed(next, elapsed)
      /\ baseline' = (baseline \/ s.throttled # "none")
      /\ verdict' = IF down THEN "contended" ELSE "clean"

Elapsed(dt) == Capped(since + dt, Cooldown)

Sample(s, dt) ==
  IF Blind(s)
  THEN /\ since' = Elapsed(dt)
       /\ verdict' = "blind"
       /\ UNCHANGED <<limit, contended, clean, baseline>>
  ELSE Observe(s, Elapsed(dt))

Init ==
  /\ limit = Budget
  /\ contended = 0
  /\ clean = 0
  /\ since = Cooldown
  /\ baseline = FALSE
  /\ verdict = "blind"

Next == \E s \in Samples, dt \in Steps : Sample(s, dt)

Spec == Init /\ [][Next]_vars

(* A sample that sees something. *)
Seeing == \E s \in Samples, dt \in Steps : ~Blind(s) /\ Sample(s, dt)

-----------------------------------------------------------------------------
(* Every variable keeps its type, the limit within the budget.             *)
TypeOK ==
  /\ limit \in 1 .. Budget
  /\ contended \in 0 .. StepDownAfter
  /\ clean \in 0 .. RecoverAfter
  /\ since \in 0 .. Cooldown
  /\ baseline \in BOOLEAN
  /\ verdict \in Verdicts

(* "Existing reservations are unchanged ... restored slowly after the      *)
(* pressure clears" (README.md:275-277): when from some time on no sample  *)
(* is contended, the limit comes back to the budget and stays there.       *)
Recovers == <>[](verdict # "contended") => <>[](limit = Budget)

(* Sustained contention from outside is yielded to, one slot at a time,    *)
(* down to the one slot that is always left.                               *)
Yields == <>[](verdict # "clean") => <>[](limit = 1)
=============================================================================
