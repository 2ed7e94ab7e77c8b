---------------------------- MODULE ControlProofs -----------------------------
(***************************************************************************)
(* What the gate is told and what it tells.  Pressure feedback, for every  *)
(* budget, every threshold and every sampling: the limit stays within      *)
(* 1 .. Budget, and what the moves rest on is there.  Run-time requests,   *)
(* for any workers, gates and number of requests: a waiting worker has     *)
(* exactly one permit on its way, and no permit but its own wakes it.      *)
(***************************************************************************)
EXTENDS GovernorLedger, PermitProtocol, SequenceTheorems, TLAPS

-----------------------------------------------------------------------------
(* Pressure feedback.                                                      *)


Entry == [contended : Nat, clean : Nat, seconds : Nat]

LedgerTypeOK ==
  /\ seen \in Entry
  /\ spent \in Entry
  /\ recent \in Seq({"contended", "clean"})

(* The last n verdicts since the limit moved are of one kind.              *)
Row(kind, n) ==
  /\ n <= Len(recent)
  /\ \A i \in Len(recent) - n + 1 .. Len(recent) : recent[i] = kind

(* What the counters of observe hold was seen, in a row, and is not spent. *)
LedgerInv ==
  /\ TypeOK
  /\ LedgerTypeOK
  /\ spent.contended + contended <= seen.contended
  /\ spent.clean + clean <= seen.clean
  /\ spent.seconds + since <= seen.seconds + Cooldown
  /\ Row("contended", contended)
  /\ Row("clean", clean)

Constants ==
  /\ Budget \in Nat \ {0} /\ StepDownAfter \in Nat \ {0} /\ RecoverAfter \in Nat \ {0}
  /\ Cooldown \in Nat /\ Steps \subseteq Nat \ {0} /\ Rates \subseteq Nat

(* The assumptions on the constants, gathered.                             *)
LEMMA ConstantsHold == Constants
BY BudgetAssumption, DownAssumption, RecoverAssumption, CooldownAssumption,
   StepsAssumption, RatesAssumption DEF Constants

-----------------------------------------------------------------------------
(* A sample, seen from outside: it is blind, or it moves the limit on a    *)
(* full count after the cooldown, or it only counts.                       *)
Moves(kind, count, threshold, step, dt) ==
  /\ verdict' = kind
  /\ count + 1 >= threshold
  /\ since + dt >= Cooldown
  /\ limit' = limit + step /\ limit' \in 1 .. Budget
  /\ contended' = 0 /\ clean' = 0 /\ since' = 0

Waits(kind, dt) ==
  /\ verdict' = kind
  /\ limit' = limit
  /\ since' = Elapsed(dt)
  /\ IF kind = "contended"
     THEN contended' = Capped(contended + 1, StepDownAfter) /\ clean' = 0
     ELSE contended' = 0 /\ clean' = Capped(clean + 1, RecoverAfter)

Overlooks(dt) ==
  /\ verdict' = "blind"
  /\ since' = Elapsed(dt)
  /\ UNCHANGED <<limit, contended, clean>>

Outcome(dt) ==
  \/ Overlooks(dt)
  \/ Moves("contended", contended, StepDownAfter, -1, dt)
  \/ Moves("clean", clean, RecoverAfter, 1, dt)
  \/ Waits("contended", dt)
  \/ Waits("clean", dt)

(* Every sample has one of these outcomes.                                 *)
LEMMA SampleOutcome ==
  ASSUME TypeOK, NEW s \in Samples, NEW dt \in Steps, Sample(s, dt)
  PROVE  Outcome(dt) /\ baseline' \in BOOLEAN
<1>1. /\ contended \in Nat /\ clean \in Nat /\ since \in Nat /\ limit \in Nat
      /\ dt \in Nat /\ baseline \in BOOLEAN
  BY ConstantsHold DEF TypeOK, Constants
<1>2. CASE Blind(s)
  BY <1>1, <1>2 DEF Sample, Outcome, Overlooks
<1>3. CASE ~Blind(s) /\ Contended(s)
  <2>1. Observe(s, Elapsed(dt))
    BY <1>3 DEF Sample
  <2>2. Counted(s) = [contended |-> Capped(contended + 1, StepDownAfter), clean |-> 0]
    BY <1>3 DEF Counted
  <2>3. \/ Moves("contended", contended, StepDownAfter, -1, dt)
        \/ Waits("contended", dt)
    BY <1>1, <1>3, <2>1, <2>2, ConstantsHold
    DEF Observe, Moves, Waits, Moved, Stayed, Ripe, Capped, Elapsed, WithinBudget, Constants
  <2>4. baseline' \in BOOLEAN
    BY <2>1, Zenon DEF Observe
  <2>5. QED
    BY <2>3, <2>4 DEF Outcome
<1>4. CASE ~Blind(s) /\ ~Contended(s)
  <2>1. Observe(s, Elapsed(dt))
    BY <1>4 DEF Sample
  <2>2. Counted(s) = [contended |-> 0, clean |-> Capped(clean + 1, RecoverAfter)]
    BY <1>4 DEF Counted
  <2>3. \/ Moves("clean", clean, RecoverAfter, 1, dt)
        \/ Waits("clean", dt)
    BY <1>1, <1>4, <2>1, <2>2, ConstantsHold
    DEF Observe, Moves, Waits, Moved, Stayed, Ripe, Capped, Elapsed, WithinBudget, Constants
  <2>4. baseline' \in BOOLEAN
    BY <2>1, Zenon DEF Observe
  <2>5. QED
    BY <2>3, <2>4 DEF Outcome
<1>5. QED
  BY <1>2, <1>3, <1>4

(* Each outcome keeps the types.                                           *)
LEMMA OutcomeType ==
  ASSUME TypeOK, NEW dt \in Steps, Outcome(dt), baseline' \in BOOLEAN
  PROVE  TypeOK'
<1>1. dt \in Nat
  BY ConstantsHold DEF Constants
<1>2. Elapsed(dt) \in 0 .. Cooldown
  BY <1>1, ConstantsHold DEF TypeOK, Elapsed, Capped, Constants
<1>3. /\ Capped(contended + 1, StepDownAfter) \in 0 .. StepDownAfter
      /\ Capped(clean + 1, RecoverAfter) \in 0 .. RecoverAfter
  BY ConstantsHold DEF TypeOK, Capped, Constants
<1>4. /\ 0 \in 0 .. StepDownAfter /\ 0 \in 0 .. RecoverAfter /\ 0 \in 0 .. Cooldown
      /\ "blind" \in Verdicts /\ "contended" \in Verdicts /\ "clean" \in Verdicts
  BY ConstantsHold DEF Constants, Verdicts
<1>5. CASE Overlooks(dt)
  BY <1>2, <1>4, <1>5 DEF TypeOK, Overlooks
<1>6. CASE Moves("contended", contended, StepDownAfter, -1, dt)
  BY <1>4, <1>6 DEF TypeOK, Moves
<1>7. CASE Moves("clean", clean, RecoverAfter, 1, dt)
  BY <1>4, <1>7 DEF TypeOK, Moves
<1>8. CASE Waits("contended", dt)
  BY <1>2, <1>3, <1>4, <1>8 DEF TypeOK, Waits
<1>9. CASE Waits("clean", dt)
  BY <1>2, <1>3, <1>4, <1>9 DEF TypeOK, Waits
<1>10. QED
  BY <1>5, <1>6, <1>7, <1>8, <1>9 DEF Outcome

(* The limit of the feedback stays within 1 .. Budget, its counters within *)
(* their thresholds.                                                       *)
THEOREM GovernorTypeCorrect == Spec => []TypeOK
<1>1. Init => TypeOK
  <2>1. Init => limit \in 1 .. Budget /\ contended \in 0 .. StepDownAfter
                /\ clean \in 0 .. RecoverAfter /\ since \in 0 .. Cooldown
    BY ConstantsHold DEF Init, Constants
  <2>2. Init => baseline \in BOOLEAN /\ verdict \in Verdicts
    BY DEF Init, Verdicts
  <2>3. QED
    BY <2>1, <2>2 DEF TypeOK
<1>2. TypeOK /\ [Next]_vars => TypeOK'
  <2>1. CASE Next
    BY <2>1, SampleOutcome, OutcomeType DEF Next
  <2>2. CASE UNCHANGED vars
    BY <2>2 DEF vars, TypeOK
  <2>3. QED
    BY <2>1, <2>2
<1>3. QED
  BY <1>1, <1>2, PTL DEF Spec

-----------------------------------------------------------------------------
(* The ledger.                                                             *)

(* A ledger entry after a step.                                            *)
LEMMA EntriesAfter ==
  ASSUME LedgerInv, NEW dt \in Nat, Entered(dt), Charged
  PROVE  /\ seen' \in Entry /\ spent' \in Entry
         /\ seen'.seconds = seen.seconds + dt
         /\ seen'.contended >= seen.contended
         /\ verdict' = "contended" => seen'.contended = seen.contended + 1
         /\ seen'.clean >= seen.clean
         /\ verdict' = "clean" => seen'.clean = seen.clean + 1
         /\ spent'.contended = spent.contended + (IF Lowered THEN StepDownAfter ELSE 0)
         /\ spent'.clean = spent.clean + (IF Raised THEN RecoverAfter ELSE 0)
         /\ spent'.seconds = spent.seconds + (IF Lowered \/ Raised THEN Cooldown ELSE 0)
<1>1. seen \in Entry /\ spent \in Entry
  BY DEF LedgerInv, LedgerTypeOK
<1>2. seen' \in Entry /\ spent' \in Entry
  BY <1>1, ConstantsHold DEF Entered, Charged, Entry, Constants
<1>3. QED
  BY <1>1, <1>2, ConstantsHold DEF Entered, Charged, Entry, Constants

(* A row one longer, and the rows of a fresh start.                        *)
LEMMA RowGrows ==
  ASSUME LedgerTypeOK, NEW kind \in {"contended", "clean"}, NEW n \in Nat, Row(kind, n),
         recent' = Append(recent, kind)
  PROVE  \A m \in 0 .. n + 1 : Row(kind, m)'
<1>1. recent \in Seq({"contended", "clean"}) /\ Len(recent) \in Nat
  BY DEF LedgerTypeOK
<1>2. Len(recent') = Len(recent) + 1 /\ recent'[Len(recent) + 1] = kind
  BY <1>1
<1>3. \A i \in 1 .. Len(recent) : recent'[i] = recent[i]
  BY <1>1
<1>4. TAKE m \in 0 .. n + 1
<1>5. SUFFICES ASSUME NEW i \in Len(recent') - m + 1 .. Len(recent')
               PROVE  recent'[i] = kind
  BY <1>1, <1>2 DEF Row
<1>6. CASE i = Len(recent) + 1
  BY <1>2, <1>6
<1>7. CASE i # Len(recent) + 1
  <2>1. i \in Len(recent) - n + 1 .. Len(recent) /\ i \in 1 .. Len(recent)
    BY <1>1, <1>2, <1>7 DEF Row
  <2>2. QED
    BY <2>1, <1>3 DEF Row
<1>8. QED
  BY <1>6, <1>7

(* An empty row asks for nothing.                                          *)
LEMMA RowEmpty ==
  ASSUME NEW kind, recent' \in Seq({"contended", "clean"})
  PROVE  Row(kind, 0)'
BY DEF Row

(* What is recorded of the verdicts when the limit moves, when a sample is *)
(* overlooked and when it counts.                                          *)
Recorded ==
  recent' = IF Lowered \/ Raised THEN <<>>
            ELSE IF verdict' = "blind" THEN recent
            ELSE Append(recent, verdict')

(* A sample that is overlooked keeps the invariant: only time passes.      *)
LEMMA OverlookedKeeps ==
  ASSUME LedgerInv, NEW dt \in Nat, Overlooks(dt), Entered(dt), Charged, Recorded
  PROVE  /\ LedgerTypeOK'
         /\ spent'.contended + contended' <= seen'.contended
         /\ spent'.clean + clean' <= seen'.clean
         /\ spent'.seconds + since' <= seen'.seconds + Cooldown
         /\ Row("contended", contended)' /\ Row("clean", clean)'
<1>1. ~Lowered /\ ~Raised
  BY DEF Overlooks, Lowered, Raised, LedgerInv, TypeOK
<1>2. recent' = recent
  BY <1>1 DEF Recorded, Overlooks
<1>3. LedgerTypeOK'
  BY <1>2, EntriesAfter DEF LedgerTypeOK, LedgerInv
<1>4. /\ spent.contended \in Nat /\ spent.clean \in Nat /\ spent.seconds \in Nat
      /\ seen.contended \in Nat /\ seen.clean \in Nat /\ seen.seconds \in Nat
      /\ seen'.contended \in Nat /\ seen'.clean \in Nat /\ seen'.seconds \in Nat
  BY EntriesAfter DEF LedgerInv, LedgerTypeOK, Entry
<1>5. /\ spent'.contended + contended' <= seen'.contended
      /\ spent'.clean + clean' <= seen'.clean
  BY <1>1, <1>4, EntriesAfter DEF LedgerInv, TypeOK, Overlooks
<1>6. spent'.seconds + since' <= seen'.seconds + Cooldown
  BY <1>1, <1>4, EntriesAfter, ConstantsHold
  DEF LedgerInv, TypeOK, Overlooks, Elapsed, Capped, Constants
<1>7. Row("contended", contended)' /\ Row("clean", clean)'
  BY <1>2 DEF LedgerInv, Row, Overlooks
<1>8. QED
  BY <1>3, <1>5, <1>6, <1>7

(* A move spends what the counters held, and starts them over.             *)
LEMMA MoveKeeps ==
  ASSUME LedgerInv, NEW dt \in Nat, Entered(dt), Charged, Recorded,
         \/ Moves("contended", contended, StepDownAfter, -1, dt)
         \/ Moves("clean", clean, RecoverAfter, 1, dt)
  PROVE  /\ LedgerTypeOK'
         /\ spent'.contended + contended' <= seen'.contended
         /\ spent'.clean + clean' <= seen'.clean
         /\ spent'.seconds + since' <= seen'.seconds + Cooldown
         /\ Row("contended", contended)' /\ Row("clean", clean)'
<1>1. /\ spent.contended \in Nat /\ spent.clean \in Nat /\ spent.seconds \in Nat
      /\ seen.contended \in Nat /\ seen.clean \in Nat /\ seen.seconds \in Nat
      /\ seen'.contended \in Nat /\ seen'.clean \in Nat /\ seen'.seconds \in Nat
      /\ limit \in Nat /\ contended \in Nat /\ clean \in Nat /\ since \in Nat
  BY EntriesAfter, ConstantsHold DEF LedgerInv, LedgerTypeOK, Entry, TypeOK, Constants
<1>2. Lowered \/ Raised
  BY <1>1 DEF Moves, Lowered, Raised
<1>3. recent' = <<>> /\ contended' = 0 /\ clean' = 0 /\ since' = 0 /\ since + dt >= Cooldown
  BY <1>2 DEF Recorded, Moves
<1>4. recent' \in Seq({"contended", "clean"})
  BY <1>3
<1>5. LedgerTypeOK'
  BY <1>4, EntriesAfter DEF LedgerTypeOK
<1>6. Row("contended", contended)' /\ Row("clean", clean)'
  BY <1>3 DEF Row
<1>7. /\ spent.contended + contended <= seen.contended
      /\ spent.clean + clean <= seen.clean
      /\ spent.seconds + since <= seen.seconds + Cooldown
      /\ Cooldown \in Nat /\ StepDownAfter \in Nat /\ RecoverAfter \in Nat
  BY ConstantsHold DEF LedgerInv, Constants
<1>8. /\ spent'.seconds = spent.seconds + Cooldown /\ seen'.seconds = seen.seconds + dt
      /\ seen'.contended >= seen.contended /\ seen'.clean >= seen.clean
  BY <1>1, <1>2, EntriesAfter
<1>9. spent'.seconds + since' <= seen'.seconds + Cooldown
  BY <1>1, <1>3, <1>7, <1>8
<1>10. CASE Moves("contended", contended, StepDownAfter, -1, dt)
  <2>1. Lowered /\ ~Raised /\ verdict' = "contended" /\ contended + 1 >= StepDownAfter
    BY <1>1, <1>10 DEF Moves, Lowered, Raised
  <2>2. /\ spent'.contended = spent.contended + StepDownAfter
        /\ spent'.clean = spent.clean /\ seen'.contended = seen.contended + 1
    BY <1>1, <2>1, EntriesAfter
  <2>3. spent.contended + StepDownAfter <= seen.contended + 1
    BY <1>1, <1>7, <2>1
  <2>4. spent'.contended + contended' <= seen'.contended
    BY <1>1, <1>3, <1>7, <2>2, <2>3
  <2>5. spent'.clean + clean' <= seen'.clean
    <3>1. spent.clean <= seen.clean
      BY <1>1, <1>7
    <3>2. spent.clean <= seen'.clean
      BY <1>1, <1>8, <3>1
    <3>3. spent'.clean + clean' = spent.clean
      BY <1>1, <1>3, <2>2
    <3>4. QED
      BY <3>2, <3>3
  <2>6. QED
    BY <1>5, <1>6, <1>9, <2>4, <2>5
<1>11. CASE Moves("clean", clean, RecoverAfter, 1, dt)
  <2>1. Raised /\ ~Lowered /\ verdict' = "clean" /\ clean + 1 >= RecoverAfter
    BY <1>1, <1>11 DEF Moves, Lowered, Raised
  <2>2. /\ spent'.clean = spent.clean + RecoverAfter
        /\ spent'.contended = spent.contended /\ seen'.clean = seen.clean + 1
    BY <1>1, <2>1, EntriesAfter
  <2>3. spent.clean + RecoverAfter <= seen.clean + 1
    BY <1>1, <1>7, <2>1
  <2>4. spent'.clean + clean' <= seen'.clean
    BY <1>1, <1>3, <1>7, <2>2, <2>3
  <2>5. spent'.contended + contended' <= seen'.contended
    <3>1. spent.contended <= seen.contended
      BY <1>1, <1>7
    <3>2. spent.contended <= seen'.contended
      BY <1>1, <1>8, <3>1
    <3>3. spent'.contended + contended' = spent.contended
      BY <1>1, <1>3, <2>2
    <3>4. QED
      BY <3>2, <3>3
  <2>6. QED
    BY <1>5, <1>6, <1>9, <2>4, <2>5
<1>12. QED
  BY <1>10, <1>11

(* A sample that only counts adds to one row and breaks the other.         *)
LEMMA CountKeeps ==
  ASSUME LedgerInv, NEW dt \in Nat, Entered(dt), Charged, Recorded,
         Waits("contended", dt) \/ Waits("clean", dt)
  PROVE  /\ LedgerTypeOK'
         /\ spent'.contended + contended' <= seen'.contended
         /\ spent'.clean + clean' <= seen'.clean
         /\ spent'.seconds + since' <= seen'.seconds + Cooldown
         /\ Row("contended", contended)' /\ Row("clean", clean)'
<1>1. /\ spent.contended \in Nat /\ spent.clean \in Nat /\ spent.seconds \in Nat
      /\ seen.contended \in Nat /\ seen.clean \in Nat /\ seen.seconds \in Nat
      /\ seen'.contended \in Nat /\ seen'.clean \in Nat /\ seen'.seconds \in Nat
      /\ limit \in Nat /\ contended \in Nat /\ clean \in Nat /\ since \in Nat
  BY EntriesAfter, ConstantsHold DEF LedgerInv, LedgerTypeOK, Entry, TypeOK, Constants
<1>2. ~Lowered /\ ~Raised
  BY <1>1 DEF Waits, Lowered, Raised
<1>3. recent' = Append(recent, verdict') /\ verdict' \in {"contended", "clean"}
  BY <1>2 DEF Recorded, Waits
<1>4. recent' \in Seq({"contended", "clean"})
  BY <1>3 DEF LedgerInv, LedgerTypeOK
<1>5. LedgerTypeOK'
  BY <1>4, EntriesAfter DEF LedgerTypeOK
<1>6. since' <= since + dt
  BY <1>1, ConstantsHold DEF Waits, Elapsed, Capped, Constants
<1>7. since' \in Nat
  BY <1>1, ConstantsHold DEF Waits, Elapsed, Capped, Constants
<1>8. /\ spent'.contended = spent.contended /\ spent'.clean = spent.clean
      /\ spent'.seconds = spent.seconds /\ seen'.seconds = seen.seconds + dt
      /\ seen'.contended >= seen.contended /\ seen'.clean >= seen.clean
  BY <1>1, <1>2, EntriesAfter
<1>9. /\ spent.contended + contended <= seen.contended
      /\ spent.clean + clean <= seen.clean
      /\ spent.seconds + since <= seen.seconds + Cooldown
  BY DEF LedgerInv
<1>10. Cooldown \in Nat
  BY ConstantsHold DEF Constants
<1>11. spent'.seconds + since' <= seen'.seconds + Cooldown
  BY <1>1, <1>6, <1>7, <1>8, <1>9, <1>10
<1>12. CASE Waits("contended", dt)
  <2>1. /\ verdict' = "contended" /\ clean' = 0
        /\ contended' \in 0 .. contended + 1
    BY <1>1, <1>12, ConstantsHold DEF Waits, Capped, Constants
  <2>2. seen'.contended = seen.contended + 1
    BY <2>1, EntriesAfter
  <2>3. /\ spent'.contended + contended' <= seen'.contended
        /\ spent'.clean + clean' <= seen'.clean
    BY <1>1, <1>8, <1>9, <2>1, <2>2
  <2>4. Row("contended", contended)'
    <3>1. \A m \in 0 .. contended + 1 : Row("contended", m)'
      BY <1>1, <1>3, <2>1, RowGrows DEF LedgerInv
    <3>2. QED
      BY <2>1, <3>1 DEF Row
  <2>5. Row("clean", clean)'
    BY <1>4, <2>1 DEF Row
  <2>6. QED
    BY <1>5, <1>11, <2>3, <2>4, <2>5
<1>13. CASE Waits("clean", dt)
  <2>1. /\ verdict' = "clean" /\ contended' = 0
        /\ clean' \in 0 .. clean + 1
    BY <1>1, <1>13, ConstantsHold DEF Waits, Capped, Constants
  <2>2. seen'.clean = seen.clean + 1
    BY <2>1, EntriesAfter
  <2>3. /\ spent'.contended + contended' <= seen'.contended
        /\ spent'.clean + clean' <= seen'.clean
    BY <1>1, <1>8, <1>9, <2>1, <2>2
  <2>4. Row("clean", clean)'
    <3>1. \A m \in 0 .. clean + 1 : Row("clean", m)'
      BY <1>1, <1>3, <2>1, RowGrows DEF LedgerInv
    <3>2. QED
      BY <2>1, <3>1 DEF Row
  <2>5. Row("contended", contended)'
    BY <1>4, <2>1 DEF Row
  <2>6. QED
    BY <1>5, <1>11, <2>3, <2>4, <2>5
<1>14. QED
  BY <1>12, <1>13

(* The ledger starts balanced.                                             *)
LEMMA InitInv == LedgerInit => LedgerInv
<1>1. SUFFICES ASSUME LedgerInit PROVE LedgerInv
  OBVIOUS
<1>2. limit \in 1 .. Budget /\ contended = 0 /\ clean = 0 /\ since = Cooldown
  BY <1>1, ConstantsHold DEF LedgerInit, Init, Constants
<1>3. baseline \in BOOLEAN /\ verdict \in Verdicts
  BY <1>1 DEF LedgerInit, Init, Verdicts
<1>4. TypeOK
  BY <1>2, <1>3, ConstantsHold DEF TypeOK, Constants
<1>5. seen = Nothing /\ spent = Nothing /\ recent = <<>>
  BY <1>1 DEF LedgerInit
<1>6. LedgerTypeOK
  BY <1>5 DEF LedgerTypeOK, Nothing, Entry
<1>7. Row("contended", contended) /\ Row("clean", clean)
  BY <1>2, <1>5 DEF Row
<1>8. QED
  BY <1>2, <1>4, <1>5, <1>6, <1>7, ConstantsHold DEF LedgerInv, Nothing, Constants

(* Every step keeps it balanced.                                           *)
LEMMA NextInv == LedgerInv /\ [LedgerNext]_<<vars, ledger>> => LedgerInv'
<1>1. CASE UNCHANGED <<vars, ledger>>
  BY <1>1 DEF LedgerInv, TypeOK, LedgerTypeOK, Row, vars, ledger
<1>2. ASSUME LedgerInv, NEW s \in Samples, NEW dt \in Steps,
             Sample(s, dt), Entered(dt), Charged, Recorded
      PROVE  LedgerInv'
  <2>1. dt \in Nat
    BY ConstantsHold DEF Constants
  <2>2. Outcome(dt) /\ baseline' \in BOOLEAN
    BY <1>2, SampleOutcome DEF LedgerInv
  <2>3. TypeOK'
    BY <1>2, <2>2, OutcomeType DEF LedgerInv
  <2>4. CASE Overlooks(dt)
    BY <1>2, <2>1, <2>3, <2>4, OverlookedKeeps DEF LedgerInv
  <2>5. CASE \/ Moves("contended", contended, StepDownAfter, -1, dt)
             \/ Moves("clean", clean, RecoverAfter, 1, dt)
    BY <1>2, <2>1, <2>3, <2>5, MoveKeeps DEF LedgerInv
  <2>6. CASE Waits("contended", dt) \/ Waits("clean", dt)
    BY <1>2, <2>1, <2>3, <2>6, CountKeeps DEF LedgerInv
  <2>7. QED
    BY <2>2, <2>4, <2>5, <2>6 DEF Outcome
<1>3. QED
  BY <1>1, <1>2 DEF LedgerNext, Recorded

(* The ledger is always balanced.                                          *)
LEMMA Balanced == LedgerSpec => []LedgerInv
BY InitInv, NextInv, PTL DEF LedgerSpec

(* No sample is evidence for two moves: whatever was seen, every step down *)
(* had its own three contended samples, every step up its eight clean ones.*)
THEOREM EvidenceIsOwn == LedgerSpec => []EvidenceCovers
<1>1. LedgerInv => EvidenceCovers
  BY DEF LedgerInv, EvidenceCovers, TypeOK, LedgerTypeOK, Entry
<1>2. QED
  BY <1>1, Balanced, PTL

(* However samples fall, moves are a cooldown apart.                       *)
THEOREM MovesApart == LedgerSpec => []MovesSpaced
<1>1. LedgerInv => MovesSpaced
  BY ConstantsHold DEF LedgerInv, MovesSpaced, TypeOK, LedgerTypeOK, Entry, Constants
<1>2. QED
  BY <1>1, Balanced, PTL

(* A full counter and the sample that fills it are a row.                  *)
LEMMA RowFull ==
  ASSUME LedgerInv, NEW kind \in {"contended", "clean"}, NEW n \in Nat, NEW bound \in Nat,
         Row(kind, n), n + 1 >= bound, bound >= 1, verdict' = kind
  PROVE  LastAre(kind, bound)
<1> DEFINE row == Append(recent, kind)
<1>1. recent \in Seq({"contended", "clean"}) /\ Len(recent) \in Nat
  BY DEF LedgerInv, LedgerTypeOK
<1>2. Len(row) = Len(recent) + 1 /\ row[Len(recent) + 1] = kind
  BY <1>1
<1>3. \A i \in 1 .. Len(recent) : row[i] = recent[i]
  BY <1>1
<1>4. Len(row) >= bound
  BY <1>1, <1>2 DEF Row
<1>5. ASSUME NEW i \in Len(row) - bound + 1 .. Len(row)
      PROVE  row[i] = kind
  <2>1. CASE i = Len(recent) + 1
    BY <1>2, <2>1
  <2>2. CASE i # Len(recent) + 1
    <3>1. i \in Len(recent) - n + 1 .. Len(recent) /\ i \in 1 .. Len(recent)
      BY <1>1, <1>2, <1>4, <1>5, <2>2
    <3>2. QED
      BY <3>1, <1>3 DEF Row
  <2>3. QED
    BY <2>1, <2>2
<1>6. QED
  BY <1>4, <1>5 DEF LastAre

(* The limit moves on nothing but sustained evidence since the last move:  *)
(* contended samples in a row to lower it, clean ones to raise it.         *)
THEOREM SustainedOnly == LedgerSpec => MovesOnSustained
<1>1. LedgerInv /\ [LedgerNext]_<<vars, ledger>> =>
        [/\ Lowered => LastAre("contended", StepDownAfter)
         /\ Raised => LastAre("clean", RecoverAfter)]_<<vars, ledger>>
  <2>1. ASSUME LedgerInv, NEW s \in Samples, NEW dt \in Steps, Sample(s, dt)
        PROVE  /\ Lowered => LastAre("contended", StepDownAfter)
               /\ Raised => LastAre("clean", RecoverAfter)
    <3>1. Outcome(dt)
      BY <2>1, SampleOutcome DEF LedgerInv
    <3>2. /\ limit \in Nat /\ contended \in Nat /\ clean \in Nat
          /\ StepDownAfter \in Nat /\ StepDownAfter >= 1
          /\ RecoverAfter \in Nat /\ RecoverAfter >= 1
      BY <2>1, ConstantsHold DEF LedgerInv, TypeOK, Constants
    <3>3. CASE Overlooks(dt) \/ Waits("contended", dt) \/ Waits("clean", dt)
      BY <3>2, <3>3 DEF Overlooks, Waits, Lowered, Raised
    <3>4. CASE Moves("contended", contended, StepDownAfter, -1, dt)
      <4>1. LastAre("contended", StepDownAfter)
        BY <2>1, <3>2, <3>4, RowFull DEF Moves, LedgerInv
      <4>2. QED
        BY <3>2, <3>4, <4>1 DEF Moves, Lowered, Raised
    <3>5. CASE Moves("clean", clean, RecoverAfter, 1, dt)
      <4>1. LastAre("clean", RecoverAfter)
        BY <2>1, <3>2, <3>5, RowFull DEF Moves, LedgerInv
      <4>2. QED
        BY <3>2, <3>5, <4>1 DEF Moves, Lowered, Raised
    <3>6. QED
      BY <3>1, <3>3, <3>4, <3>5 DEF Outcome
  <2>2. QED
    BY <2>1 DEF LedgerNext
<1>2. QED
  BY <1>1, Balanced, PTL DEF LedgerSpec, MovesOnSustained

-----------------------------------------------------------------------------
(* Run-time requests.                                                      *)


Messages == [id : Nat \ {0}, cancelled : BOOLEAN]

(* No request in flight asks for the permit the worker waits for.          *)
NoneOpen(w) == \A i \in 1..Len(sent[w]) : sent[w][i].cancelled \/ sent[w][i].id # issued[w]

(* Requests leave in the order of their numbers, and what has been taken   *)
(* of the last one is no longer in flight.                                 *)
InOrder(w) ==
  /\ \A i \in 1..Len(sent[w]) : sent[w][i].id <= issued[w]
  /\ \A i, j \in 1..Len(sent[w]) :
       i < j /\ ~sent[w][j].cancelled => sent[w][i].id < sent[w][j].id
  /\ record[w] <= issued[w]
  /\ record[w] # 0 /\ record[w] = issued[w] => NoneOpen(w)
  /\ \A i \in 1..Len(grants[w]) :
       grants[w][i] <= issued[w] /\ (grants[w][i] = issued[w] => NoneOpen(w))

(* OnePermit of one worker, and that every permit is for the last request. *)
Single(w) ==
  /\ Waiting(w) <=> Requested(w) \/ Kept(w) \/ Underway(w) \/ granted[w]
  /\ ~(Requested(w) /\ Kept(w)) /\ ~(Requested(w) /\ Underway(w))
  /\ ~(Kept(w) /\ Underway(w))
  /\ granted[w] => ~Requested(w) /\ ~Kept(w) /\ ~Underway(w)
  /\ Len(grants[w]) <= 1
  /\ \A i, j \in DOMAIN sent[w] : sent[w][i].cancelled \/ sent[w][j].cancelled \/ i = j
  /\ Kept(w) => record[w] = issued[w]
  /\ \A i \in DOMAIN sent[w] : ~sent[w][i].cancelled => sent[w][i].id = issued[w]
  /\ \A i \in DOMAIN grants[w] : grants[w][i] = issued[w]

Own(w) ==
  /\ state[w] = "gone" => ~granted[w]
  /\ granted[w] => NoneOpen(w)
  /\ state[w] # "gone" => InOrder(w)

OwnInv    == \A w \in Workers : Own(w)
SingleInv == \A w \in Workers : w \in Gated /\ state[w] # "gone" => Single(w)

(* Who waits has asked, so its request has a number. *)
Asked == \A w \in Workers : Waiting(w) => issued[w] # 0

(* Variables keep their types, and who waits has asked.                    *)
THEOREM TypedAndAsked == PermitSpec => [](PermitTypeOK /\ Asked)
<1> DEFINE Inv == PermitTypeOK /\ Asked
<1>1. PermitInit => Inv
  BY DEF PermitInit, PermitTypeOK, States, Asked, Waiting
<1>2. Inv /\ [PermitNext]_permits => Inv'
  <2> SUFFICES ASSUME Inv, [PermitNext]_permits PROVE Inv'
    OBVIOUS
  <2> USE DEF PermitTypeOK, States, Asked, Waiting
  <2>1. ASSUME NEW w \in Workers, Ask(w) PROVE Inv'
    BY <2>1 DEF Ask
  <2>2. ASSUME NEW w \in Workers, GiveUp(w) PROVE Inv'
    BY <2>2 DEF GiveUp
  <2>3. ASSUME NEW w \in Workers, Receive(w) PROVE Inv'
    BY <2>3 DEF Receive, Expected
  <2>4. ASSUME NEW w \in Workers, GoOn(w) PROVE Inv'
    BY <2>4 DEF GoOn
  <2>5. ASSUME NEW w \in Workers, Take(w) PROVE Inv'
    <3>1. Head(sent[w]) \in Messages /\ Tail(sent[w]) \in Seq(Messages)
      BY <2>5, HeadTailProperties DEF Take, Messages
    <3>2. sent' \in [Workers -> Seq(Messages)]
      BY <2>5, <3>1 DEF Take, Messages
    <3>3. record' \in [Workers -> Nat]
      BY <2>5, <3>1 DEF Take, Messages
    <3> QED
      BY <2>5, <3>2, <3>3 DEF Take, Messages
  <2>6. ASSUME NEW w \in Workers, TakeUngated(w) PROVE Inv'
    <3>1. Head(sent[w]) \in Messages /\ Tail(sent[w]) \in Seq(Messages)
      BY <2>6, HeadTailProperties DEF TakeUngated, Messages
    <3>2. sent' \in [Workers -> Seq(Messages)]
      BY <2>6, <3>1 DEF TakeUngated, Messages
    <3>3. Append(grants[w], Head(sent[w]).id) \in Seq(Nat)
      BY <3>1 DEF Messages
    <3>4. grants' \in [Workers -> Seq(Nat)]
      BY <2>6, <3>3 DEF TakeUngated
    <3> QED
      BY <2>6, <3>2, <3>4 DEF TakeUngated, Messages
  <2>7. ASSUME NEW w \in Workers, Grant(w) PROVE Inv'
    <3>1. Append(grants[w], record[w]) \in Seq(Nat)
      OBVIOUS
    <3>2. grants' \in [Workers -> Seq(Nat)]
      BY <2>7, <3>1 DEF Grant
    <3> QED
      BY <2>7, <3>2 DEF Grant
  <2>8. ASSUME NEW w \in Workers, Die(w) PROVE Inv'
    BY <2>8 DEF Die
  <2>9. ASSUME NEW w \in Workers, Drop(w) PROVE Inv'
    BY <2>9 DEF Drop
  <2>10. CASE UNCHANGED permits
    BY <2>10 DEF permits
  <2> QED
    BY <2>1, <2>2, <2>3, <2>4, <2>5, <2>6, <2>7, <2>8, <2>9, <2>10 DEF PermitNext
<1> QED
  BY <1>1, <1>2, PTL DEF PermitSpec

(* Every variable keeps its type, whatever is granted and whoever dies. *)
THEOREM PermitTypeCorrect == PermitSpec => []PermitTypeOK
<1> QED
  BY TypedAndAsked, PTL
-----------------------------------------------------------------------------
(* What a step does not touch keeps what is said of it. *)
LEMMA OthersKeep ==
  ASSUME NEW v \in Workers,
         issued'[v] = issued[v], state'[v] = state[v], granted'[v] = granted[v],
         sent'[v] = sent[v], record'[v] = record[v], grants'[v] = grants[v]
  PROVE  (Own(v) => Own(v)') /\ (Single(v) => Single(v)')
BY DEF Own, Single, InOrder, NoneOpen, Waiting, Requested, Kept, Underway

(* Only the worker that acts changes, whichever action it is. *)
LEMMA OneAtATime ==
  ASSUME PermitTypeOK, NEW w \in Workers, NEW v \in Workers, v # w,
         Ask(w) \/ GiveUp(w) \/ Receive(w) \/ GoOn(w) \/ Die(w)
           \/ Take(w) \/ TakeUngated(w) \/ Grant(w) \/ Drop(w)
  PROVE  /\ issued'[v] = issued[v] /\ state'[v] = state[v] /\ granted'[v] = granted[v]
         /\ sent'[v] = sent[v] /\ record'[v] = record[v] /\ grants'[v] = grants[v]
<1>1. CASE Ask(w)         BY <1>1 DEF Ask, PermitTypeOK
<1>2. CASE GiveUp(w)      BY <1>2 DEF GiveUp, PermitTypeOK
<1>3. CASE Receive(w)     BY <1>3 DEF Receive, PermitTypeOK
<1>4. CASE GoOn(w)        BY <1>4 DEF GoOn, PermitTypeOK
<1>5. CASE Die(w)         BY <1>5 DEF Die, PermitTypeOK
<1>6. CASE Take(w)        BY <1>6 DEF Take, PermitTypeOK
<1>7. CASE TakeUngated(w) BY <1>7 DEF TakeUngated, PermitTypeOK
<1>8. CASE Grant(w)       BY <1>8 DEF Grant, PermitTypeOK
<1>9. CASE Drop(w)        BY <1>9 DEF Drop, PermitTypeOK
<1> QED
  BY <1>1, <1>2, <1>3, <1>4, <1>5, <1>6, <1>7, <1>8, <1>9

-----------------------------------------------------------------------------
(* What is known of a worker's first message and of the rest. *)
LEMMA FirstMessage ==
  ASSUME PermitTypeOK, NEW w \in Workers, sent[w] # <<>>
  PROVE  /\ Head(sent[w]) = sent[w][1] /\ sent[w][1] \in Messages
         /\ Tail(sent[w]) \in Seq(Messages)
         /\ Len(sent[w]) \in Nat \ {0} /\ Len(Tail(sent[w])) = Len(sent[w]) - 1
         /\ \A i \in 1..Len(Tail(sent[w])) :
              i + 1 \in 1..Len(sent[w]) /\ Tail(sent[w])[i] = sent[w][i + 1]
<1>1. sent[w] \in Seq(Messages)
  BY DEF PermitTypeOK, Messages
<1> QED
  BY <1>1, HeadTailProperties

(* A message in flight has a number and says whether it cancels.           *)
LEMMA EachMessage ==
  ASSUME PermitTypeOK, NEW w \in Workers
  PROVE  /\ Len(sent[w]) \in Nat
         /\ \A i \in 1..Len(sent[w]) : sent[w][i].id \in Nat \ {0}
                                      /\ sent[w][i].cancelled \in BOOLEAN
<1>1. sent[w] \in Seq(Messages)
  BY DEF PermitTypeOK, Messages
<1>2. \A i \in 1..Len(sent[w]) : sent[w][i] \in Messages
  BY <1>1
<1>3. \A e \in Messages : e.id \in Nat \ {0} /\ e.cancelled \in BOOLEAN
  BY DEF Messages
<1> QED
  BY <1>1, <1>2, <1>3

(* The messages after one more request. *)
LEMMA OneMore ==
  ASSUME PermitTypeOK, NEW w \in Workers, NEW m \in Messages
  PROVE  /\ Len(sent[w]) \in Nat /\ Len(Append(sent[w], m)) = Len(sent[w]) + 1
         /\ \A i \in 1..Len(Append(sent[w], m)) :
              \/ i \in 1..Len(sent[w]) /\ Append(sent[w], m)[i] = sent[w][i]
              \/ i = Len(sent[w]) + 1 /\ Append(sent[w], m)[i] = m
<1>1. sent[w] \in Seq(Messages)
  BY DEF PermitTypeOK, Messages
<1>2. Len(sent[w]) \in Nat /\ Len(Append(sent[w], m)) = Len(sent[w]) + 1
  BY <1>1, AppendProperties
<1>3. \A i \in 1..Len(sent[w]) : Append(sent[w], m)[i] = sent[w][i]
  BY <1>1, AppendProperties
<1>4. Append(sent[w], m)[Len(sent[w]) + 1] = m
  BY <1>1, AppendProperties
<1>5. \A i \in 1..(Len(sent[w]) + 1) : i \in 1..Len(sent[w]) \/ i = Len(sent[w]) + 1
  BY <1>2
<1> QED
  BY <1>2, <1>3, <1>4, <1>5

(* The same for the grants. *)
LEMMA OneGrantMore ==
  ASSUME PermitTypeOK, NEW w \in Workers, NEW n \in Nat
  PROVE  /\ Len(grants[w]) \in Nat /\ Len(Append(grants[w], n)) = Len(grants[w]) + 1
         /\ \A i \in 1..Len(Append(grants[w], n)) :
              \/ i \in 1..Len(grants[w]) /\ Append(grants[w], n)[i] = grants[w][i]
              \/ i = Len(grants[w]) + 1 /\ Append(grants[w], n)[i] = n
<1>1. grants[w] \in Seq(Nat)
  BY DEF PermitTypeOK
<1>2. Len(grants[w]) \in Nat /\ Len(Append(grants[w], n)) = Len(grants[w]) + 1
  BY <1>1, AppendProperties
<1>3. \A i \in 1..Len(grants[w]) : Append(grants[w], n)[i] = grants[w][i]
  BY <1>1, AppendProperties
<1>4. Append(grants[w], n)[Len(grants[w]) + 1] = n
  BY <1>1, AppendProperties
<1>5. \A i \in 1..(Len(grants[w]) + 1) : i \in 1..Len(grants[w]) \/ i = Len(grants[w]) + 1
  BY <1>2
<1> QED
  BY <1>2, <1>3, <1>4, <1>5

(* The grant that is received is the oldest; the others stay in order.     *)
LEMMA FirstGrant ==
  ASSUME PermitTypeOK, NEW w \in Workers, grants[w] # <<>>
  PROVE  /\ Head(grants[w]) = grants[w][1] /\ grants[w][1] \in Nat
         /\ Tail(grants[w]) \in Seq(Nat)
         /\ Len(grants[w]) \in Nat \ {0} /\ Len(Tail(grants[w])) = Len(grants[w]) - 1
         /\ \A i \in 1..Len(Tail(grants[w])) :
              i + 1 \in 1..Len(grants[w]) /\ Tail(grants[w])[i] = grants[w][i + 1]
<1>1. grants[w] \in Seq(Nat)
  BY DEF PermitTypeOK
<1> QED
  BY <1>1, HeadTailProperties

-----------------------------------------------------------------------------
(* Own, action by action. *)
LEMMA OwnAsk ==
  ASSUME PermitTypeOK, NEW w \in Workers, Own(w), Ask(w)
  PROVE  Own(w)'
<1> DEFINE m == [id |-> issued[w] + 1, cancelled |-> FALSE]
<1>1. issued[w] \in Nat /\ m \in Messages
  BY DEF PermitTypeOK, Messages
<1>2. /\ issued'[w] = issued[w] + 1 /\ state'[w] = "asking" /\ granted'[w] = FALSE
      /\ sent'[w] = Append(sent[w], m) /\ record'[w] = record[w] /\ grants'[w] = grants[w]
  BY DEF Ask, PermitTypeOK
<1>3. InOrder(w)
  BY DEF Own, Ask
<1>4. \A i \in 1..Len(sent[w]) : sent[w][i].id \in Nat
  BY EachMessage
<1>5. record[w] \in Nat /\ \A i \in 1..Len(grants[w]) : grants[w][i] \in Nat
  BY DEF PermitTypeOK
<1> HIDE DEF m
<1>6. m.id = issued[w] + 1 /\ m.cancelled = FALSE
  BY DEF m
<1>7. \A i \in 1..Len(sent'[w]) : \/ i \in 1..Len(sent[w]) /\ sent'[w][i] = sent[w][i]
                                  \/ i = Len(sent[w]) + 1 /\ sent'[w][i] = m
  BY <1>1, <1>2, OneMore
<1>8. \A i \in 1..Len(sent'[w]) : sent'[w][i].id <= issued'[w]
  BY <1>1, <1>2, <1>3, <1>4, <1>6, <1>7 DEF InOrder
<1>9. \A i, j \in 1..Len(sent'[w]) :
        i < j /\ ~sent'[w][j].cancelled => sent'[w][i].id < sent'[w][j].id
  BY <1>1, <1>2, <1>3, <1>4, <1>6, <1>7, OneMore DEF InOrder
<1>10. record'[w] < issued'[w] /\ \A i \in 1..Len(grants'[w]) : grants'[w][i] < issued'[w]
  BY <1>1, <1>2, <1>3, <1>5 DEF InOrder
<1>11. /\ record'[w] \in Nat /\ issued'[w] \in Nat
       /\ \A i \in 1..Len(grants'[w]) : grants'[w][i] \in Nat
  BY <1>1, <1>2, <1>5
<1>12. InOrder(w)'
  BY <1>8, <1>9, <1>10, <1>11 DEF InOrder
<1> QED
  BY <1>2, <1>12 DEF Own

(* A cancellation carries the number of the request it cancels, so none is *)
(* open once it is sent.                                                   *)
LEMMA OwnGiveUp ==
  ASSUME PermitTypeOK, Asked, NEW w \in Workers, Own(w), GiveUp(w)
  PROVE  Own(w)'
<1> DEFINE m == [id |-> issued[w], cancelled |-> TRUE]
<1>1. issued[w] \in Nat /\ m \in Messages
  BY DEF PermitTypeOK, Asked, Waiting, GiveUp, Messages
<1>2. /\ issued'[w] = issued[w] /\ state'[w] = "giving_up" /\ granted'[w] = FALSE
      /\ sent'[w] = Append(sent[w], m) /\ record'[w] = record[w] /\ grants'[w] = grants[w]
  BY DEF GiveUp, PermitTypeOK
<1>3. InOrder(w)
  BY DEF Own, GiveUp
<1> HIDE DEF m
<1>4. m.id = issued[w] /\ m.cancelled = TRUE
  BY DEF m
<1>5. \A i \in 1..Len(sent'[w]) : \/ i \in 1..Len(sent[w]) /\ sent'[w][i] = sent[w][i]
                                  \/ i = Len(sent[w]) + 1 /\ sent'[w][i] = m
  BY <1>1, <1>2, OneMore
<1>6. \A i \in 1..Len(sent'[w]) : sent'[w][i].id <= issued'[w]
  BY <1>1, <1>2, <1>3, <1>4, <1>5 DEF InOrder
<1>7. \A i, j \in 1..Len(sent'[w]) :
        i < j /\ ~sent'[w][j].cancelled => sent'[w][i].id < sent'[w][j].id
  BY <1>1, <1>2, <1>3, <1>4, <1>5, OneMore DEF InOrder
<1>8. NoneOpen(w) => NoneOpen(w)'
  BY <1>2, <1>4, <1>5 DEF NoneOpen
<1>9. InOrder(w)'
  BY <1>2, <1>3, <1>6, <1>7, <1>8 DEF InOrder
<1> QED
  BY <1>2, <1>9 DEF Own

(* A request that is taken leaves none open for its number. *)
LEMMA TakenIsClosed ==
  ASSUME PermitTypeOK, NEW w \in Workers, InOrder(w), sent[w] # <<>>,
         issued'[w] = issued[w], sent'[w] = Tail(sent[w])
  PROVE  /\ \A i \in 1..Len(sent'[w]) : sent'[w][i].id <= issued'[w]
         /\ \A i, j \in 1..Len(sent'[w]) :
              i < j /\ ~sent'[w][j].cancelled => sent'[w][i].id < sent'[w][j].id
         /\ NoneOpen(w) => NoneOpen(w)'
         /\ Head(sent[w]).id \in Nat \ {0} /\ Head(sent[w]).id <= issued[w]
         /\ Head(sent[w]).id = issued[w] => NoneOpen(w)'
<1>1. \A i \in 1..Len(sent[w]) : sent[w][i].id \in Nat /\ sent[w][i].cancelled \in BOOLEAN
  BY EachMessage
<1>2. issued[w] \in Nat
  BY DEF PermitTypeOK
<1>3. \A i \in 1..Len(sent'[w]) : i + 1 \in 1..Len(sent[w]) /\ sent'[w][i] = sent[w][i + 1]
  BY FirstMessage
<1>4. \A i \in 1..Len(sent'[w]) : sent'[w][i].id <= issued'[w]
  BY <1>3 DEF InOrder
<1>5. \A i, j \in 1..Len(sent'[w]) :
        i < j /\ ~sent'[w][j].cancelled => sent'[w][i].id < sent'[w][j].id
  BY <1>3 DEF InOrder
<1>6. NoneOpen(w) => NoneOpen(w)'
  BY <1>3 DEF NoneOpen
<1>7. Head(sent[w]).id \in Nat \ {0} /\ Head(sent[w]).id <= issued[w]
  BY FirstMessage DEF InOrder, Messages
<1>8. ASSUME Head(sent[w]).id = issued[w] PROVE NoneOpen(w)'
  <2> SUFFICES ASSUME NEW i \in 1..Len(sent'[w]), ~sent'[w][i].cancelled
               PROVE  sent'[w][i].id # issued'[w]
    BY DEF NoneOpen
  <2>1. 1 \in 1..Len(sent[w]) /\ i + 1 \in 1..Len(sent[w]) /\ 1 < i + 1
    BY <1>3, FirstMessage
  <2>2. sent[w][1].id < sent[w][i + 1].id
    BY <1>3, <2>1 DEF InOrder
  <2> QED
    BY <1>1, <1>2, <1>3, <1>8, <2>1, <2>2, FirstMessage
<1> QED
  BY <1>4, <1>5, <1>6, <1>7, <1>8

(* Only the grant of the last request sets the flag; any other is dropped. *)
LEMMA OwnReceive ==
  ASSUME PermitTypeOK, NEW w \in Workers, Own(w), Receive(w)
  PROVE  Own(w)'
<1>1. /\ issued'[w] = issued[w] /\ state'[w] = state[w] /\ sent'[w] = sent[w]
      /\ record'[w] = record[w] /\ grants'[w] = Tail(grants[w]) /\ grants[w] # <<>>
      /\ granted'[w] = (granted[w] \/ Expected(w))
  BY DEF Receive, PermitTypeOK
<1>2. NoneOpen(w) => NoneOpen(w)'
  BY <1>1 DEF NoneOpen
<1>3. Expected(w) => NoneOpen(w)
  <2>1. Expected(w) => InOrder(w) /\ grants[w][1] = issued[w]
    BY <1>1, FirstGrant DEF Expected, Own
  <2>2. 1 \in 1..Len(grants[w])
    BY <1>1, FirstGrant
  <2> QED
    BY <2>1, <2>2 DEF InOrder
<1>4. InOrder(w) => InOrder(w)'
  <2> SUFFICES ASSUME InOrder(w) PROVE InOrder(w)'
    OBVIOUS
  <2>1. \A i \in 1..Len(grants'[w]) :
          i + 1 \in 1..Len(grants[w]) /\ grants'[w][i] = grants[w][i + 1]
    BY <1>1, FirstGrant
  <2>2. \A i \in 1..Len(grants'[w]) :
          grants'[w][i] <= issued'[w] /\ (grants'[w][i] = issued'[w] => NoneOpen(w)')
    BY <1>1, <1>2, <2>1 DEF InOrder
  <2> QED
    BY <1>1, <1>2, <2>2 DEF InOrder
<1>5. (granted[w] => NoneOpen(w)) /\ (state[w] = "gone" => ~granted[w] /\ ~Expected(w))
  BY DEF Own, Expected
<1> QED
  BY <1>1, <1>2, <1>3, <1>4, <1>5 DEF Own

(* What the scheduler takes down is the last request, or an older one.     *)
LEMMA OwnTake ==
  ASSUME PermitTypeOK, NEW w \in Workers, Own(w), Take(w)
  PROVE  Own(w)'
<1>1. /\ issued'[w] = issued[w] /\ state'[w] = state[w] /\ granted'[w] = granted[w]
      /\ sent[w] # <<>> /\ sent'[w] = Tail(sent[w]) /\ grants'[w] = grants[w]
      /\ record'[w] = record[w] \/ record'[w] = Head(sent[w]).id
  BY DEF Take, PermitTypeOK
<1>2. InOrder(w) => InOrder(w)'
  <2> SUFFICES ASSUME InOrder(w) PROVE InOrder(w)'
    OBVIOUS
  <2>1. /\ record'[w] <= issued'[w]
        /\ record'[w] # 0 /\ record'[w] = issued'[w] => NoneOpen(w)'
    BY <1>1, TakenIsClosed DEF InOrder
  <2>2. \A i \in 1..Len(grants'[w]) :
          grants'[w][i] <= issued'[w] /\ (grants'[w][i] = issued'[w] => NoneOpen(w)')
    BY <1>1, TakenIsClosed DEF InOrder
  <2> QED
    BY <1>1, <2>1, <2>2, TakenIsClosed DEF InOrder
<1>3. NoneOpen(w) => NoneOpen(w)'
  BY <1>1, FirstMessage DEF NoneOpen
<1> QED
  BY <1>1, <1>2, <1>3 DEF Own

(* Without a gate a request turns into its grant on the spot.              *)
LEMMA OwnTakeUngated ==
  ASSUME PermitTypeOK, NEW w \in Workers, Own(w), TakeUngated(w)
  PROVE  Own(w)'
<1> DEFINE n == Head(sent[w]).id
<1>1. /\ issued'[w] = issued[w] /\ state'[w] = state[w] /\ granted'[w] = granted[w]
      /\ sent[w] # <<>> /\ sent'[w] = Tail(sent[w]) /\ record'[w] = record[w]
      /\ grants'[w] = Append(grants[w], n)
  BY DEF TakeUngated, PermitTypeOK
<1>2. n \in Nat
  BY <1>1, FirstMessage DEF Messages
<1>3. InOrder(w) => InOrder(w)'
  <2> SUFFICES ASSUME InOrder(w) PROVE InOrder(w)'
    OBVIOUS
  <2>1. n <= issued[w] /\ (n = issued[w] => NoneOpen(w)') /\ (NoneOpen(w) => NoneOpen(w)')
    BY <1>1, TakenIsClosed
  <2> HIDE DEF n
  <2>2. \A i \in 1..Len(grants'[w]) : \/ i \in 1..Len(grants[w]) /\ grants'[w][i] = grants[w][i]
                                      \/ i = Len(grants[w]) + 1 /\ grants'[w][i] = n
    BY <1>1, <1>2, OneGrantMore
  <2>3. \A i \in 1..Len(grants'[w]) :
          grants'[w][i] <= issued'[w] /\ (grants'[w][i] = issued'[w] => NoneOpen(w)')
    BY <1>1, <2>1, <2>2 DEF InOrder
  <2> QED
    BY <1>1, <2>3, TakenIsClosed DEF InOrder
<1>4. NoneOpen(w) => NoneOpen(w)'
  BY <1>1, FirstMessage DEF NoneOpen
<1> QED
  BY <1>1, <1>3, <1>4 DEF Own

(* A grant carries the number that was taken down.                         *)
LEMMA OwnGrant ==
  ASSUME PermitTypeOK, NEW w \in Workers, Own(w), Grant(w)
  PROVE  Own(w)'
<1>1. /\ issued'[w] = issued[w] /\ state'[w] = state[w] /\ granted'[w] = granted[w]
      /\ sent'[w] = sent[w] /\ record[w] # 0 /\ record'[w] = 0
  BY DEF Grant, PermitTypeOK
<1>2. NoneOpen(w) => NoneOpen(w)'
  BY <1>1 DEF NoneOpen
<1>3. state[w] # "gone" /\ InOrder(w) => InOrder(w)'
  <2> SUFFICES ASSUME state[w] # "gone", InOrder(w) PROVE InOrder(w)'
    OBVIOUS
  <2>1. grants'[w] = Append(grants[w], record[w]) /\ record[w] \in Nat /\ issued[w] \in Nat
    BY DEF Grant, PermitTypeOK
  <2>2. \A i \in 1..Len(grants'[w]) : \/ i \in 1..Len(grants[w]) /\ grants'[w][i] = grants[w][i]
                                      \/ i = Len(grants[w]) + 1 /\ grants'[w][i] = record[w]
    BY <2>1, OneGrantMore
  <2>3. \A i \in 1..Len(grants'[w]) :
          grants'[w][i] <= issued'[w] /\ (grants'[w][i] = issued'[w] => NoneOpen(w)')
    BY <1>1, <1>2, <2>2 DEF InOrder
  <2>4. record'[w] <= issued'[w]
    BY <1>1, <2>1
  <2> QED
    BY <1>1, <1>2, <2>3, <2>4 DEF InOrder
<1> QED
  BY <1>1, <1>2, <1>3 DEF Own

(* Going on clears the flag; a worker that is gone asks for nothing.       *)
LEMMA OwnRest ==
  ASSUME PermitTypeOK, NEW w \in Workers, Own(w), GoOn(w) \/ Die(w) \/ Drop(w)
  PROVE  Own(w)'
<1>1. CASE GoOn(w)
  <2>1. /\ issued'[w] = issued[w] /\ state'[w] = "running" /\ granted'[w] = FALSE
        /\ sent'[w] = sent[w] /\ record'[w] = record[w] /\ grants'[w] = grants[w]
    BY <1>1 DEF GoOn, PermitTypeOK
  <2>2. InOrder(w)
    BY <1>1 DEF GoOn, Own
  <2> QED
    BY <2>1, <2>2 DEF Own, InOrder, NoneOpen
<1>2. CASE Die(w)
  BY <1>2 DEF Die, PermitTypeOK, Own
<1>3. CASE Drop(w)
  <2>1. /\ state[w] = "gone" /\ state'[w] = "gone" /\ granted'[w] = granted[w]
    BY <1>3 DEF Drop, PermitTypeOK
  <2> QED
    BY <2>1 DEF Own
<1> QED
  BY <1>1, <1>2, <1>3

(* However requests, grants and cancellations cross on their way.          *)
LEMMA OwnAlways == PermitSpec => []OwnInv
<1>1. PermitInit => OwnInv
  <2> SUFFICES ASSUME PermitInit, NEW w \in Workers PROVE Own(w)
    BY DEF OwnInv
  <2>1. /\ issued[w] = 0 /\ state[w] = "running" /\ granted[w] = FALSE /\ record[w] = 0
        /\ sent[w] = <<>> /\ grants[w] = <<>>
    BY DEF PermitInit
  <2>2. Len(sent[w]) = 0 /\ Len(grants[w]) = 0
    BY <2>1
  <2> QED
    BY <2>1, <2>2 DEF Own, InOrder, NoneOpen
<1>2. PermitTypeOK /\ Asked /\ OwnInv /\ [PermitNext]_permits => OwnInv'
  <2> SUFFICES ASSUME PermitTypeOK, Asked, OwnInv, [PermitNext]_permits, NEW v \in Workers
               PROVE  Own(v)'
    BY DEF OwnInv
  <2>1. Own(v)
    BY DEF OwnInv
  <2>2. CASE UNCHANGED permits
    BY <2>1, <2>2, OthersKeep DEF permits
  <2>3. ASSUME NEW w \in Workers,
               Ask(w) \/ GiveUp(w) \/ Receive(w) \/ GoOn(w) \/ Die(w)
                 \/ Take(w) \/ TakeUngated(w) \/ Grant(w) \/ Drop(w)
        PROVE  Own(v)'
    <3>1. CASE v # w
      BY <2>1, <2>3, <3>1, OneAtATime, OthersKeep
    <3>2. CASE v = w
      BY <2>1, <2>3, <3>2, OwnAsk, OwnGiveUp, OwnReceive, OwnTake, OwnTakeUngated,
         OwnGrant, OwnRest
    <3> QED
      BY <3>1, <3>2
  <2> QED
    BY <2>2, <2>3 DEF PermitNext
<1> QED
  BY <1>1, <1>2, TypedAndAsked, PTL DEF PermitSpec

(* No permit but the worker's own wakes it, at every step. *)
THEOREM OwnPermitOnly == PermitSpec => []OwnPermit
<1>1. PermitTypeOK /\ OwnInv => OwnPermit
  <2>1. \A w \in Workers : PermitTypeOK => DOMAIN sent[w] = 1..Len(sent[w])
    BY DEF PermitTypeOK
  <2> QED
    BY <2>1 DEF OwnInv, Own, NoneOpen, OwnPermit
<1> QED
  BY <1>1, PermitTypeCorrect, OwnAlways, PTL

-----------------------------------------------------------------------------
(* Single, action by action: the permit moves on, and stays one. *)
LEMMA SingleAsk ==
  ASSUME PermitTypeOK, NEW w \in Workers, Single(w), Ask(w)
  PROVE  Single(w)'
<1> DEFINE m == [id |-> issued[w] + 1, cancelled |-> FALSE]
<1>1. issued[w] \in Nat /\ m \in Messages
  BY DEF PermitTypeOK, Messages
<1>2. /\ issued'[w] = issued[w] + 1 /\ state'[w] = "asking" /\ granted'[w] = FALSE
      /\ sent'[w] = Append(sent[w], m) /\ record'[w] = record[w] /\ grants'[w] = grants[w]
  BY DEF Ask, PermitTypeOK
<1> HIDE DEF m
<1>3. m.id = issued[w] + 1 /\ m.cancelled = FALSE
  BY DEF m
<1>4. /\ \A i \in 1..Len(sent'[w]) : \/ i \in 1..Len(sent[w]) /\ sent'[w][i] = sent[w][i]
                                     \/ i = Len(sent[w]) + 1 /\ sent'[w][i] = m
      /\ Len(sent[w]) + 1 \in 1..Len(sent'[w]) /\ sent'[w][Len(sent[w]) + 1] = m
      /\ DOMAIN sent[w] = 1..Len(sent[w]) /\ DOMAIN sent'[w] = 1..Len(sent'[w])
  BY <1>1, <1>2, OneMore DEF PermitTypeOK
<1>5. ~Requested(w) /\ ~Kept(w) /\ ~Underway(w)
  BY DEF Single, Ask, Waiting
<1>6. \A i \in 1..Len(sent[w]) : sent[w][i].cancelled
  BY <1>4, <1>5 DEF Requested
<1>7. Requested(w)' /\ ~Kept(w)' /\ ~Underway(w)' /\ Waiting(w)'
  BY <1>2, <1>3, <1>4, <1>5 DEF Requested, Kept, Underway, Waiting
<1>8. \A i \in DOMAIN sent'[w] : ~sent'[w][i].cancelled => i = Len(sent[w]) + 1
  BY <1>4, <1>6
<1>9. Len(grants'[w]) <= 1 /\ \A i \in DOMAIN grants'[w] : grants'[w][i] = issued'[w]
  BY <1>2, <1>5 DEF Underway
<1> QED
  BY <1>2, <1>3, <1>4, <1>7, <1>8, <1>9 DEF Single

(* Giving up leaves nothing on its way that would wake the worker.         *)
LEMMA SingleGiveUp ==
  ASSUME PermitTypeOK, Asked, NEW w \in Workers, Single(w), GiveUp(w)
  PROVE  Single(w)'
<1> DEFINE m == [id |-> issued[w], cancelled |-> TRUE]
<1>1. issued[w] \in Nat /\ m \in Messages
  BY DEF PermitTypeOK, Asked, Waiting, GiveUp, Messages
<1>2. /\ issued'[w] = issued[w] /\ state'[w] = "giving_up" /\ granted'[w] = granted[w]
      /\ sent'[w] = Append(sent[w], m) /\ record'[w] = record[w] /\ grants'[w] = grants[w]
  BY DEF GiveUp, PermitTypeOK
<1> HIDE DEF m
<1>3. m.cancelled = TRUE
  BY DEF m
<1>4. /\ \A i \in 1..Len(sent'[w]) : \/ i \in 1..Len(sent[w]) /\ sent'[w][i] = sent[w][i]
                                     \/ i = Len(sent[w]) + 1 /\ sent'[w][i] = m
      /\ \A i \in 1..Len(sent[w]) : i \in 1..Len(sent'[w]) /\ i # Len(sent[w]) + 1
      /\ DOMAIN sent[w] = 1..Len(sent[w]) /\ DOMAIN sent'[w] = 1..Len(sent'[w])
  BY <1>1, <1>2, OneMore DEF PermitTypeOK
<1>5. Requested(w)' <=> Requested(w)
  BY <1>3, <1>4 DEF Requested
<1>6. (Kept(w)' <=> Kept(w)) /\ (Underway(w)' <=> Underway(w)) /\ Waiting(w) /\ Waiting(w)'
  BY <1>2 DEF Kept, Underway, Waiting, GiveUp
<1>7. \A i \in DOMAIN sent'[w] : ~sent'[w][i].cancelled =>
        i \in DOMAIN sent[w] /\ sent'[w][i] = sent[w][i]
  BY <1>3, <1>4
<1> QED
  BY <1>2, <1>5, <1>6, <1>7 DEF Single

(* A worker that is woken has used up its permit.                          *)
LEMMA SingleReceive ==
  ASSUME PermitTypeOK, NEW w \in Workers, Single(w), Receive(w)
  PROVE  Single(w)'
<1>1. /\ issued'[w] = issued[w] /\ state'[w] = state[w] /\ sent'[w] = sent[w]
      /\ record'[w] = record[w] /\ grants'[w] = Tail(grants[w]) /\ grants[w] # <<>>
      /\ granted'[w] = (granted[w] \/ Expected(w))
  BY DEF Receive, PermitTypeOK
<1>2. Waiting(w) /\ ~Requested(w) /\ ~Kept(w) /\ ~granted[w]
  BY <1>1 DEF Single, Underway
<1>3. Len(grants[w]) = 1 /\ grants[w][1] = issued[w] /\ grants'[w] = <<>>
  <2>1. grants[w] \in Seq(Nat) /\ Len(grants[w]) \in Nat /\ DOMAIN grants[w] = 1..Len(grants[w])
    BY DEF PermitTypeOK
  <2>2. Len(grants[w]) = 1
    <3>1. Len(grants[w]) <= 1
      BY DEF Single
    <3>2. Len(grants[w]) # 0
      BY <1>1, FirstGrant
    <3>3. Len(grants[w]) \in Nat
      BY <2>1
    <3>4. \A n \in Nat : n <= 1 /\ n # 0 => n = 1
      OBVIOUS
    <3> QED
      BY <3>1, <3>2, <3>3, <3>4, Zenon
  <2>3. grants[w][1] = issued[w]
    BY <2>1, <2>2 DEF Single
  <2>4. Tail(grants[w]) \in Seq(Nat) /\ Len(Tail(grants[w])) = 0
    BY <1>1, <2>2, FirstGrant
  <2> QED
    BY <1>1, <2>2, <2>3, <2>4, EmptySeq
<1>4. granted'[w] = TRUE
  BY <1>1, <1>2, <1>3, FirstGrant DEF Expected, Waiting
<1>5. Waiting(w)' /\ ~Requested(w)' /\ ~Kept(w)' /\ ~Underway(w)'
  BY <1>1, <1>2, <1>3 DEF Waiting, Requested, Kept, Underway
<1>6. Len(grants'[w]) <= 1 /\ \A i \in DOMAIN grants'[w] : grants'[w][i] = issued'[w]
  BY <1>3
<1>7. /\ \A i, j \in DOMAIN sent'[w] : sent'[w][i].cancelled \/ sent'[w][j].cancelled \/ i = j
      /\ \A i \in DOMAIN sent'[w] : ~sent'[w][i].cancelled => sent'[w][i].id = issued'[w]
  BY <1>1 DEF Single
<1> QED
  BY <1>4, <1>5, <1>6, <1>7 DEF Single

(* The permit moves from the request to the scheduler's record.            *)
LEMMA SingleTake ==
  ASSUME PermitTypeOK, NEW w \in Workers, Single(w), Take(w)
  PROVE  Single(w)'
<1> DEFINE m == sent[w][1]
<1>1. /\ issued'[w] = issued[w] /\ state'[w] = state[w] /\ granted'[w] = granted[w]
      /\ sent[w] # <<>> /\ sent'[w] = Tail(sent[w]) /\ grants'[w] = grants[w]
      /\ Head(sent[w]) = m
      /\ record'[w] = IF Outdated(w, m) THEN record[w] ELSE m.id
  BY FirstMessage DEF Take, PermitTypeOK
<1>2. m.id \in Nat \ {0} /\ m.cancelled \in BOOLEAN /\ 1 \in DOMAIN sent[w]
  <2>1. 1 \in 1..Len(sent[w]) /\ DOMAIN sent[w] = 1..Len(sent[w])
    BY <1>1, FirstMessage DEF PermitTypeOK
  <2> QED
    BY <2>1, EachMessage
<1>3. /\ \A i \in DOMAIN sent'[w] : i + 1 \in DOMAIN sent[w] /\ sent'[w][i] = sent[w][i + 1]
      /\ \A i \in DOMAIN sent'[w] : i \in Nat /\ i + 1 # 1
  <2>1. DOMAIN sent[w] = 1..Len(sent[w]) /\ DOMAIN Tail(sent[w]) = 1..Len(Tail(sent[w]))
    BY <1>1, FirstMessage DEF PermitTypeOK
  <2> QED
    BY <1>1, <2>1, FirstMessage
<1>4. /\ \A i \in DOMAIN sent'[w] : ~sent'[w][i].cancelled => sent'[w][i].id = issued'[w]
      /\ \A i, j \in DOMAIN sent'[w] : sent'[w][i].cancelled \/ sent'[w][j].cancelled \/ i = j
  BY <1>1, <1>3 DEF Single
<1>5. (Waiting(w)' <=> Waiting(w)) /\ (Underway(w)' <=> Underway(w))
  BY <1>1 DEF Waiting, Underway
<1> HIDE DEF m
<1>6. CASE m.cancelled
  <2>1. record'[w] = record[w]
    BY <1>1, <1>6 DEF Outdated
  <2>2. Requested(w) <=> Requested(w)'
    <3>1. ASSUME NEW i \in DOMAIN sent[w], ~sent[w][i].cancelled
          PROVE  i - 1 \in DOMAIN sent'[w] /\ sent'[w][i - 1] = sent[w][i]
      <4>1. i # 1
        BY <1>6, <3>1 DEF m
      <4>2. DOMAIN sent[w] = 1..Len(sent[w]) /\ DOMAIN Tail(sent[w]) = 1..Len(Tail(sent[w]))
        BY <1>1, FirstMessage DEF PermitTypeOK
      <4> QED
        BY <1>1, <1>3, <4>1, <4>2, FirstMessage
    <3>2. Requested(w) => Requested(w)'
      BY <3>1 DEF Requested
    <3>3. Requested(w)' => Requested(w)
      BY <1>3 DEF Requested
    <3> QED
      BY <3>2, <3>3
  <2> QED
    BY <1>1, <1>4, <1>5, <2>1, <2>2 DEF Single, Kept
<1>7. CASE ~m.cancelled
  <2>1. record'[w] = m.id /\ m.id = issued[w]
    BY <1>1, <1>2, <1>7 DEF Outdated, Single, m
  <2>2. Requested(w)
    BY <1>2, <1>7 DEF Requested, m
  <2>3. ~Requested(w)'
    <3> SUFFICES ASSUME NEW i \in DOMAIN sent'[w], ~sent'[w][i].cancelled PROVE FALSE
      BY DEF Requested
    <3>1. i + 1 \in DOMAIN sent[w] /\ ~sent[w][i + 1].cancelled /\ i + 1 # 1
      BY <1>3
    <3>2. \A a, b \in DOMAIN sent[w] : sent[w][a].cancelled \/ sent[w][b].cancelled \/ a = b
      BY DEF Single
    <3> QED
      BY <1>2, <1>7, <3>1, <3>2 DEF m
  <2>4. Kept(w)' /\ ~Underway(w)' /\ ~granted'[w] /\ Waiting(w)'
    <3>1. ~Underway(w) /\ ~granted[w] /\ Waiting(w)
      BY <2>2 DEF Single
    <3> QED
      BY <1>1, <1>2, <1>5, <2>1, <3>1 DEF Kept
  <2>5. Len(grants'[w]) <= 1 /\ \A i \in DOMAIN grants'[w] : grants'[w][i] = issued'[w]
    BY <1>1 DEF Single
  <2> QED
    BY <1>1, <1>4, <2>1, <2>3, <2>4, <2>5 DEF Single
<1> QED
  BY <1>2, <1>6, <1>7

(* And from the record to the grant.                                       *)
LEMMA SingleGrant ==
  ASSUME PermitTypeOK, NEW w \in Workers, state[w] # "gone", Single(w), Grant(w)
  PROVE  Single(w)'
<1>1. /\ issued'[w] = issued[w] /\ state'[w] = state[w] /\ granted'[w] = granted[w]
      /\ sent'[w] = sent[w] /\ record[w] # 0 /\ record'[w] = 0
      /\ grants'[w] = Append(grants[w], record[w])
  BY DEF Grant, PermitTypeOK
<1>2. Waiting(w) /\ ~Requested(w) /\ ~Underway(w) /\ ~granted[w] /\ record[w] = issued[w]
  BY <1>1 DEF Single, Kept
<1>3. Len(grants'[w]) = 1 /\ grants'[w][1] = issued'[w] /\ DOMAIN grants'[w] = {1}
  <2>1. grants[w] = <<>> /\ record[w] \in Nat
    BY <1>2 DEF Underway, PermitTypeOK
  <2>2. Append(grants[w], record[w]) = <<record[w]>>
    BY <2>1
  <2> QED
    BY <1>1, <1>2, <2>2
<1>4. Waiting(w)' /\ ~Requested(w)' /\ ~Kept(w)' /\ Underway(w)' /\ ~granted'[w]
  BY <1>1, <1>2, <1>3 DEF Waiting, Requested, Kept, Underway
<1>5. Len(grants'[w]) <= 1 /\ \A i \in DOMAIN grants'[w] : grants'[w][i] = issued'[w]
  BY <1>3
<1>6. /\ \A i, j \in DOMAIN sent'[w] : sent'[w][i].cancelled \/ sent'[w][j].cancelled \/ i = j
      /\ \A i \in DOMAIN sent'[w] : ~sent'[w][i].cancelled => sent'[w][i].id = issued'[w]
  BY <1>1 DEF Single
<1> QED
  BY <1>4, <1>5, <1>6 DEF Single

(* A worker that goes on leaves no permit behind.                          *)
LEMMA SingleGoOn ==
  ASSUME PermitTypeOK, NEW w \in Workers, Single(w), GoOn(w)
  PROVE  Single(w)'
<1>1. /\ issued'[w] = issued[w] /\ state'[w] = "running" /\ granted'[w] = FALSE
      /\ sent'[w] = sent[w] /\ record'[w] = record[w] /\ grants'[w] = grants[w] /\ granted[w]
  BY DEF GoOn, PermitTypeOK
<1>2. ~Requested(w) /\ ~Kept(w) /\ ~Underway(w)
  BY <1>1 DEF Single
<1>3. ~Waiting(w)' /\ ~Requested(w)' /\ ~Kept(w)' /\ ~Underway(w)'
  BY <1>1, <1>2 DEF Waiting, Requested, Kept, Underway
<1>4. Len(grants'[w]) <= 1 /\ \A i \in DOMAIN grants'[w] : grants'[w][i] = issued'[w]
  BY <1>1 DEF Single
<1>5. /\ \A i, j \in DOMAIN sent'[w] : sent'[w][i].cancelled \/ sent'[w][j].cancelled \/ i = j
      /\ \A i \in DOMAIN sent'[w] : ~sent'[w][i].cancelled => sent'[w][i].id = issued'[w]
  BY <1>1 DEF Single
<1> QED
  BY <1>1, <1>3, <1>4, <1>5 DEF Single

(* A waiting worker has exactly one permit on its way to it, a running one *)
(* none: the answer is never lost and none comes too late.                 *)
THEOREM OnePermitEach == PermitSpec => []OnePermit
<1>1. PermitInit => SingleInv
  <2> SUFFICES ASSUME PermitInit, NEW w \in Workers PROVE Single(w)
    BY DEF SingleInv
  <2>1. /\ state[w] = "running" /\ granted[w] = FALSE /\ record[w] = 0
        /\ sent[w] = <<>> /\ grants[w] = <<>>
    BY DEF PermitInit
  <2>2. Len(grants[w]) = 0 /\ DOMAIN sent[w] = {} /\ DOMAIN grants[w] = {}
    BY <2>1
  <2>3. ~Waiting(w) /\ ~Requested(w) /\ ~Kept(w) /\ ~Underway(w)
    BY <2>1, <2>2 DEF Waiting, Requested, Kept, Underway
  <2> QED
    BY <2>1, <2>2, <2>3 DEF Single
<1>2. PermitTypeOK /\ Asked /\ OwnInv /\ SingleInv /\ [PermitNext]_permits => SingleInv'
  <2> SUFFICES ASSUME PermitTypeOK, Asked, OwnInv, SingleInv, [PermitNext]_permits,
                      NEW v \in Workers, v \in Gated, state'[v] # "gone"
               PROVE  Single(v)'
    BY DEF SingleInv
  <2>1. state[v] # "gone" => Single(v)
    BY DEF SingleInv
  <2>2. CASE UNCHANGED permits
    BY <2>1, <2>2, OthersKeep DEF permits
  <2>3. ASSUME NEW w \in Workers,
               Ask(w) \/ GiveUp(w) \/ Receive(w) \/ GoOn(w) \/ Die(w)
                 \/ Take(w) \/ TakeUngated(w) \/ Grant(w) \/ Drop(w)
        PROVE  Single(v)'
    <3>1. CASE v # w
      <4>1. /\ issued'[v] = issued[v] /\ state'[v] = state[v] /\ granted'[v] = granted[v]
            /\ sent'[v] = sent[v] /\ record'[v] = record[v] /\ grants'[v] = grants[v]
        BY <2>3, <3>1, OneAtATime
      <4> QED
        BY <2>1, <4>1, OthersKeep
    <3>2. CASE v = w
      <4>1. ~Die(v) /\ state[v] # "gone"
        <5>1. ~Die(v)
          BY DEF Die, PermitTypeOK
        <5>2. Ask(v) \/ GiveUp(v) \/ GoOn(v) => state[v] # "gone"
          <6>1. Own(v)
            BY DEF OwnInv
          <6> QED
            BY <6>1 DEF Own, Ask, GiveUp, GoOn
        <5>3. Receive(v) \/ Take(v) \/ TakeUngated(v) \/ Grant(v) \/ Drop(v) => state'[v] = state[v]
          BY DEF Receive, Take, TakeUngated, Grant, Drop
        <5> QED
          BY <2>3, <3>2, <5>1, <5>2, <5>3
      <4>2. ~TakeUngated(v) /\ ~Drop(v)
        BY <4>1 DEF TakeUngated, Drop
      <4> QED
        BY <2>1, <2>3, <3>2, <4>1, <4>2, SingleAsk, SingleGiveUp, SingleReceive, SingleTake,
           SingleGrant, SingleGoOn
    <3> QED
      BY <3>1, <3>2
  <2> QED
    BY <2>2, <2>3 DEF PermitNext
<1>3. SingleInv => OnePermit
  BY DEF SingleInv, Single, OnePermit
<1> QED
  BY <1>1, <1>2, <1>3, TypedAndAsked, OwnAlways, PTL DEF PermitSpec
===============================================================================
