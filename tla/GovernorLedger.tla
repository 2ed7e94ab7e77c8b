---------------------------- MODULE GovernorLedger ----------------------------
(***************************************************************************)
(* Governor with a ledger: what was seen since the run began, and what the *)
(* moves of the limit have used up of it.  The ledger is history only; it  *)
(* states over whole runs what observe keeps in counters it resets.        *)
(***************************************************************************)
EXTENDS Governor, Sequences

CONSTANT MaxSeconds   \* bound: seconds entered in the ledger

ASSUME MaxSecondsAssumption == MaxSeconds \in Nat

VARIABLES
  seen,     \* contended and clean samples, and seconds, since the beginning
  spent,    \* what the moves so far had to show for themselves
  recent    \* verdicts of the samples since the last move that saw something

ledger == <<seen, spent, recent>>

Nothing == [contended |-> 0, clean |-> 0, seconds |-> 0]

Lowered == limit' < limit
Raised  == limit' > limit

Entered(dt) ==
  seen' = [contended |-> seen.contended + (IF verdict' = "contended" THEN 1 ELSE 0),
           clean     |-> seen.clean + (IF verdict' = "clean" THEN 1 ELSE 0),
           seconds   |-> seen.seconds + dt]

(* A step down is worth StepDownAfter contended samples, a step up         *)
(* RecoverAfter clean ones, and either Cooldown seconds.                   *)
Charged ==
  spent' = [contended |-> spent.contended + (IF Lowered THEN StepDownAfter ELSE 0),
            clean     |-> spent.clean + (IF Raised THEN RecoverAfter ELSE 0),
            seconds   |-> spent.seconds + (IF Lowered \/ Raised THEN Cooldown ELSE 0)]

LedgerInit == Init /\ seen = Nothing /\ spent = Nothing /\ recent = <<>>

LedgerNext ==
  /\ seen.seconds < MaxSeconds
  /\ \E s \in Samples, dt \in Steps : Sample(s, dt) /\ Entered(dt)
  /\ Charged
  /\ recent' = IF Lowered \/ Raised THEN <<>>
               ELSE IF verdict' = "blind" THEN recent
               ELSE Append(recent, verdict')

LedgerSpec == LedgerInit /\ [][LedgerNext]_<<vars, ledger>>

-----------------------------------------------------------------------------
(* No sample is evidence twice: the contended samples seen cover three for *)
(* each step down there was, the clean ones eight for each step up         *)
(* (ARCHITECTURE.md:521-523).                                              *)
EvidenceCovers ==
  /\ spent.contended <= seen.contended
  /\ spent.clean <= seen.clean

(* Moves are a cooldown apart however samples fall: all moves but the      *)
(* first have had their seconds.                                           *)
MovesSpaced == spent.seconds <= seen.seconds + Cooldown

(* Three contended samples in a row, or eight clean ones, since the last   *)
(* move: the one taken now and those before it.                            *)
LastAre(kind, n) ==
  LET row == Append(recent, kind)
  IN  /\ verdict' = kind
      /\ Len(row) >= n
      /\ \A i \in Len(row) - n + 1 .. Len(row) : row[i] = kind

MovesOnSustained ==
  [][/\ Lowered => LastAre("contended", StepDownAfter)
     /\ Raised => LastAre("clean", RecoverAfter)]_<<vars, ledger>>
=============================================================================
