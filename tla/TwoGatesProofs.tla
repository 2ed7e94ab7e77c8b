---------------------------- MODULE TwoGatesProofs ----------------------------
(***************************************************************************)
(* The two gates of a domain, for any workers, budgets and tests.  They     *)
(* agree on who runs and who waits at every call: each call does to the one *)
(* line what it does to the other, and the mark of a running test moves     *)
(* with the worker's mode.  Each gate by itself implements Admission, so    *)
(* all that is proved of Admission holds of both.  What runs holds enough   *)
(* of both or of neither, and nobody is left standing in the lines with     *)
(* nothing running.                                                        *)
(***************************************************************************)
EXTENDS TwoGates, FiniteSetTheorems, TLAPS

(* An entry for each worker, and nothing else.                             *)
IsTable(f) == f = [w \in Members |-> f[w]]

(* The tables have an entry for each worker. *)
Tables == IsTable(slotReserved) /\ IsTable(byteReserved) /\ IsTable(mode)

(* The inductive invariant of the lines.                                   *)
AgreeInv == Tables /\ GatesAgree

(* `new` is `old` but for w, who is marked busy or not. *)
Marks(new, old, w, busy) ==
  /\ IsTable(new)
  /\ new[w].busy = busy
  /\ \A v \in Members \ {w} : new[v] = old[v]

(* Replacing a worker's entry marks it as the new entry does.              *)
LEMMA Marking ==
  ASSUME NEW old, IsTable(old), NEW w \in Members, NEW r, NEW busy, r.busy = busy
  PROVE  Marks([old EXCEPT ![w] = r], old, w, busy)
BY DEF IsTable, Marks

(* Whoever runs is marked at both gates, by each kind of call. *)
LEMMA AssignMarks ==
  ASSUME Tables, NEW w \in Members, NEW slots, NEW bytes, NEW busy,
         Assigned(w, slots, bytes, busy)
  PROVE  /\ Marks(slotReserved', slotReserved, w, busy)
         /\ Marks(byteReserved', byteReserved, w, busy)
<1> DEFINE s == [slots |-> slots, until |-> IF busy THEN 1 ELSE 1, busy |-> busy]
           b == [slots |-> bytes, until |-> IF busy THEN 1 ELSE 1, busy |-> busy]
<1>1. /\ slotReserved' = [slotReserved EXCEPT ![w] = s]
      /\ byteReserved' = [byteReserved EXCEPT ![w] = b]
  BY DEF Assigned, Cpu!Assign, Memory!Assign
<1>2. s.busy = busy /\ b.busy = busy
  OBVIOUS
<1> HIDE DEF s, b
<1> QED
  BY <1>1, <1>2, Marking DEF Tables

(* Who starts is marked running at both gates and stands in neither line.  *)
LEMMA TakeMarks ==
  ASSUME Tables, slotLine = byteLine, NEW w \in Members, NEW t, NEW end, TakeBoth(w, t, end)
  PROVE  /\ Marks(slotReserved', slotReserved, w, TRUE)
         /\ Marks(byteReserved', byteReserved, w, TRUE)
         /\ slotLine' = byteLine'
<1>1. Marks(slotReserved', slotReserved, w, TRUE) /\ slotLine' = Cpu!Without(slotLine, w)
  <2> DEFINE covered == [slots |-> Cpu!Held(w), until |-> IF TRUE THEN end ELSE 1, busy |-> TRUE]
             raised  == [slots |-> Cpu!Clamp(t.slots), until |-> end, busy |-> TRUE]
  <2>1. \/ slotReserved' = [slotReserved EXCEPT ![w] = covered]
        \/ slotReserved' = [slotReserved EXCEPT ![w] = raised]
    BY DEF TakeBoth, Cpu!RaiseCovered, Cpu!RaiseReserved, Cpu!Assign
  <2>4. covered.busy = TRUE /\ raised.busy = TRUE
    OBVIOUS
  <2> HIDE DEF covered, raised
  <2>2. slotLine' = Cpu!Without(slotLine, w)
    BY DEF TakeBoth, Cpu!RaiseCovered, Cpu!RaiseReserved, Cpu!Leave
  <2>5. IsTable(slotReserved)
    BY DEF Tables
  <2>3. Marks(slotReserved', slotReserved, w, TRUE)
    <3>1. CASE slotReserved' = [slotReserved EXCEPT ![w] = covered]
      BY <2>4, <2>5, <3>1, Marking
    <3>2. CASE slotReserved' = [slotReserved EXCEPT ![w] = raised]
      BY <2>4, <2>5, <3>2, Marking
    <3> QED
      BY <2>1, <3>1, <3>2
  <2> QED
    BY <2>2, <2>3
<1>2. Marks(byteReserved', byteReserved, w, TRUE) /\ byteLine' = Memory!Without(byteLine, w)
  <2> DEFINE covered == [slots |-> Memory!Held(w), until |-> IF TRUE THEN end ELSE 1, busy |-> TRUE]
             raised  == [slots |-> Memory!Clamp(t.bytes), until |-> end, busy |-> TRUE]
  <2>1. \/ byteReserved' = [byteReserved EXCEPT ![w] = covered]
        \/ byteReserved' = [byteReserved EXCEPT ![w] = raised]
    BY DEF TakeBoth, Memory!RaiseCovered, Memory!RaiseReserved, Memory!Assign
  <2>4. covered.busy = TRUE /\ raised.busy = TRUE
    OBVIOUS
  <2> HIDE DEF covered, raised
  <2>2. byteLine' = Memory!Without(byteLine, w)
    BY DEF TakeBoth, Memory!RaiseCovered, Memory!RaiseReserved, Memory!Leave
  <2>5. IsTable(byteReserved)
    BY DEF Tables
  <2>3. Marks(byteReserved', byteReserved, w, TRUE)
    <3>1. CASE byteReserved' = [byteReserved EXCEPT ![w] = covered]
      BY <2>4, <2>5, <3>1, Marking
    <3>2. CASE byteReserved' = [byteReserved EXCEPT ![w] = raised]
      BY <2>4, <2>5, <3>2, Marking
    <3> QED
      BY <2>1, <3>1, <3>2
  <2> QED
    BY <2>2, <2>3
<1> QED
  BY <1>1, <1>2 DEF Cpu!Without, Memory!Without

(* A mark set together with the mode keeps the two gates in agreement. *)
LEMMA MarkedWithMode ==
  ASSUME AgreeInv, NEW w \in Members, NEW busy, NEW m,
         Marks(slotReserved', slotReserved, w, busy), Marks(byteReserved', byteReserved, w, busy),
         mode' = [mode EXCEPT ![w] = m], busy <=> m = "running", busy \in BOOLEAN,
         slotLine' = byteLine'
  PROVE  AgreeInv'
<1>1. IsTable(slotReserved)' /\ IsTable(byteReserved)' /\ IsTable(mode)'
  BY DEF Marks, AgreeInv, Tables, IsTable
<1>2. ASSUME NEW v \in Members
      PROVE  /\ slotReserved'[v].busy = byteReserved'[v].busy
             /\ slotReserved'[v].busy <=> mode'[v] = "running"
  <2>1. CASE v = w
    <3>1. mode'[v] = m
      BY <2>1 DEF AgreeInv, Tables, IsTable
    <3>2. slotReserved'[v].busy = busy /\ byteReserved'[v].busy = busy
      BY <2>1 DEF Marks
    <3> QED
      BY <3>1, <3>2
  <2>2. CASE v # w
    <3>1. mode'[v] = mode[v]
      BY <2>2 DEF AgreeInv, Tables, IsTable
    <3>2. slotReserved'[v] = slotReserved[v] /\ byteReserved'[v] = byteReserved[v]
      BY <2>2 DEF Marks
    <3> QED
      BY <3>1, <3>2 DEF AgreeInv, GatesAgree
  <2> QED
    BY <2>1, <2>2
<1> QED
  BY <1>1, <1>2 DEF AgreeInv, Tables, GatesAgree

(* So does a change of mode alone, unless it starts or ends a test. *)
LEMMA UnmarkedMode ==
  ASSUME AgreeInv, NEW w \in Members, NEW m,
         slotReserved' = slotReserved, byteReserved' = byteReserved, slotLine' = byteLine',
         mode' = [mode EXCEPT ![w] = m], mode[w] = "running" <=> m = "running"
  PROVE  AgreeInv'
<1>1. IsTable(mode)' /\ \A v \in Members : mode'[v] = IF v = w THEN m ELSE mode[v]
  BY DEF AgreeInv, Tables, IsTable
<1> QED
  BY <1>1 DEF AgreeInv, Tables, IsTable, GatesAgree

(* Whoever stops running is no longer marked. *)
LEMMA Stopped ==
  ASSUME AgreeInv, NEW w \in Members, NEW slots, NEW bytes, NEW m, m # "running",
         Assigned(w, slots, bytes, FALSE), mode' = [mode EXCEPT ![w] = m], slotLine' = byteLine'
  PROVE  AgreeInv'
<1>1. Tables
  BY DEF AgreeInv
<1>2. /\ Marks(slotReserved', slotReserved, w, FALSE)
      /\ Marks(byteReserved', byteReserved, w, FALSE)
  BY <1>1, AssignMarks
<1>3. (FALSE <=> m = "running") /\ FALSE \in BOOLEAN
  OBVIOUS
<1> QED
  BY <1>2, <1>3, MarkedWithMode

(* The lines stay the same when a worker leaves both.                      *)
LEMMA LinesLeft ==
  ASSUME slotLine = byteLine, NEW w, Left(w)
  PROVE  slotLine' = byteLine'
BY DEF Left, Cpu!Leave, Memory!Leave, Cpu!Without, Memory!Without

(* And when it joins both.                                                 *)
LEMMA LinesJoined ==
  ASSUME slotLine = byteLine, NEW w, NEW t, Line(w, t)
  PROVE  slotLine' = byteLine'
BY DEF Line, Cpu!Join, Memory!Join, Cpu!Waiting, Memory!Waiting

-----------------------------------------------------------------------------
(* The handlers, one by one.                                               *)

(* A test is started.                                                      *)
LEMMA StartAgrees ==
  ASSUME AgreeInv, NEW w \in Members, NEW t, NEW end, Start(w, t, end)
  PROVE  AgreeInv'
<1>1. TakeBoth(w, t, end) /\ mode' = [mode EXCEPT ![w] = "running"]
  BY DEF Start
<1>2. Tables /\ slotLine = byteLine
  BY DEF AgreeInv, GatesAgree
<1> QED
  BY <1>1, <1>2, TakeMarks, MarkedWithMode

(* A test is refused: no reservation moves.                                *)
LEMMA RefuseAgrees ==
  ASSUME AgreeInv, NEW w \in Members, NEW t, NEW end, Refuse(w, t, end)
  PROVE  AgreeInv'
<1>1. /\ slotReserved' = slotReserved /\ byteReserved' = byteReserved /\ Line(w, t)
      /\ mode' = [mode EXCEPT ![w] = "waiting"]
  BY DEF Refuse, Line
<1>2. mode[w] # "running"
  BY DEF Refuse, Heads
<1>3. slotLine' = byteLine'
  BY <1>1, LinesJoined DEF AgreeInv, GatesAgree
<1> QED
  BY <1>1, <1>2, <1>3, UnmarkedMode

(* A test ends: the worker keeps what its fixtures hold, or exits.         *)
LEMMA CompleteAgrees ==
  ASSUME AgreeInv, NEW w \in Members, Complete(w)
  PROVE  AgreeInv'
<1>1. slotLine' = byteLine'
  BY DEF Complete, AgreeInv, GatesAgree
<1>2. Tables
  BY DEF AgreeInv
<1>3. CASE w \in told
  <2>1. Assigned(w, 0, 0, FALSE) /\ mode' = [mode EXCEPT ![w] = "leaving"]
    BY <1>3 DEF Complete
  <2> QED
    BY <1>1, <2>1, Stopped
<1>4. CASE w \notin told
  <2>1. /\ Assigned(w, test[w].keepSlots, test[w].keepBytes, FALSE)
        /\ mode' = [mode EXCEPT ![w] = "idle"]
    BY <1>4 DEF Complete
  <2> QED
    BY <1>1, <2>1, Stopped
<1> QED
  BY <1>3, <1>4

(* A worker is told to stop: its waiting test is started or withdrawn.     *)
LEMMA StopAgrees ==
  ASSUME AgreeInv, NEW w \in Members, NEW end, Stop(w, end)
  PROVE  AgreeInv'
<1>1. Tables /\ slotLine = byteLine
  BY DEF AgreeInv, GatesAgree
<1>2. CASE mode[w] # "waiting"
  <2> DEFINE m == IF mode[w] = "idle" THEN "leaving" ELSE mode[w]
  <2>1. /\ slotReserved' = slotReserved /\ byteReserved' = byteReserved
        /\ slotLine' = slotLine /\ byteLine' = byteLine /\ mode' = [mode EXCEPT ![w] = m]
    BY <1>2 DEF Stop, slotGate, byteGate
  <2>2. mode[w] = "running" <=> m = "running"
    OBVIOUS
  <2> HIDE DEF m
  <2> QED
    BY <1>1, <2>1, <2>2, UnmarkedMode
<1>3. CASE mode[w] = "waiting" /\ BothAdmit(w, test[w], end)
  <2>1. TakeBoth(w, test[w], end) /\ mode' = [mode EXCEPT ![w] = "running"]
    BY <1>3 DEF Stop
  <2> QED
    BY <1>1, <2>1, TakeMarks, MarkedWithMode
<1>4. CASE mode[w] = "waiting" /\ ~BothAdmit(w, test[w], end)
  <2>1. /\ \E slots \in {Cpu!Held(w), test[w].keepSlots} :
             Assigned(w, slots, test[w].keepBytes, FALSE)
        /\ Left(w) /\ mode' = [mode EXCEPT ![w] = "leaving"]
    BY <1>4 DEF Stop
  <2>2. PICK slots \in {Cpu!Held(w), test[w].keepSlots} :
          Assigned(w, slots, test[w].keepBytes, FALSE)
    BY <2>1
  <2>3. slotLine' = byteLine'
    BY <1>1, <2>1, LinesLeft
  <2> QED
    BY <2>1, <2>2, <2>3, Stopped
<1> QED
  BY <1>2, <1>3, <1>4

(* A worker is gone from both gates.                                       *)
LEMMA RemoveAgrees ==
  ASSUME AgreeInv, NEW w \in Members, Remove(w)
  PROVE  AgreeInv'
<1>1. /\ slotReserved' = [slotReserved EXCEPT ![w] = Cpu!NoReservation]
      /\ byteReserved' = [byteReserved EXCEPT ![w] = Memory!NoReservation]
      /\ Left(w) /\ mode' = [mode EXCEPT ![w] = "gone"]
  BY DEF Remove, Cpu!Release, Memory!Release, Left
<1>2. Cpu!NoReservation.busy = FALSE /\ Memory!NoReservation.busy = FALSE
  BY DEF Cpu!NoReservation, Memory!NoReservation
<1>3. /\ Marks(slotReserved', slotReserved, w, FALSE)
      /\ Marks(byteReserved', byteReserved, w, FALSE)
  BY <1>1, <1>2, Marking DEF AgreeInv, Tables
<1>4. slotLine' = byteLine'
  BY <1>1, LinesLeft DEF AgreeInv, GatesAgree
<1> QED
  BY <1>1, <1>3, <1>4, MarkedWithMode

(* Only workers stand in line, so the one that is forced is a worker. *)
LineInv == slotLine \in Seq(Members)

(* A standstill is resolved by forcing the head of both lines.             *)
LEMMA ResolveAgrees ==
  ASSUME AgreeInv, LineInv, Resolve
  PROVE  AgreeInv'
<1>1. Tables /\ slotLine = byteLine
  BY DEF AgreeInv, GatesAgree
<1>2. CASE Stalled
  <2> DEFINE w == Head(slotLine)
  <2>1. w \in Members
    BY <1>2 DEF Stalled, LineInv
  <2>2. /\ Assigned(w, test[w].slots, test[w].bytes, TRUE) /\ Left(w)
        /\ mode' = [mode EXCEPT ![w] = "running"]
    BY <1>2 DEF Resolve
  <2> HIDE DEF w
  <2>3. slotLine' = byteLine'
    BY <1>1, <2>2, LinesLeft
  <2> QED
    BY <1>1, <2>1, <2>2, <2>3, AssignMarks, MarkedWithMode
<1>3. CASE ~Stalled
  <2>1. UNCHANGED <<slotReserved, byteReserved, slotLine, byteLine, mode>>
    BY <1>3 DEF Resolve, slotGate, byteGate
  <2> QED
    BY <2>1 DEF AgreeInv, Tables, IsTable, GatesAgree
<1> QED
  BY <1>2, <1>3

-----------------------------------------------------------------------------
(* Leaving a line of workers leaves a line of workers.                     *)
LEMMA WithoutType ==
  ASSUME NEW s \in Seq(Members), NEW w
  PROVE  Cpu!Without(s, w) \in Seq(Members)
<1>1. Len(s) \in Nat /\ DOMAIN s = 1 .. Len(s) /\ \A i \in 1 .. Len(s) : s[i] \in Members
  OBVIOUS
<1>2. CASE \E i \in DOMAIN s : s[i] = w
  <2> DEFINE k == CHOOSE i \in DOMAIN s : s[i] = w
             q == [i \in 1 .. Len(s) - 1 |-> IF i < k THEN s[i] ELSE s[i + 1]]
  <2>1. k \in DOMAIN s
    BY <1>2
  <2>2. Cpu!Without(s, w) = q
    BY <1>2 DEF Cpu!Without
  <2>3. Len(s) - 1 \in Nat
    BY <1>1, <2>1
  <2>4. \A i \in 1 .. Len(s) - 1 : q[i] \in Members
    BY <1>1, <2>1
  <2> QED
    BY <2>2, <2>3, <2>4
<1>3. CASE ~ \E i \in DOMAIN s : s[i] = w
  BY <1>3 DEF Cpu!Without
<1> QED
  BY <1>2, <1>3

(* Every handler leaves a line of workers behind. *)
LEMMA LineStep == LineInv /\ [GatesNext]_gates => LineInv'
<1> SUFFICES ASSUME LineInv, [GatesNext]_gates PROVE LineInv'
  OBVIOUS
<1>1. ASSUME slotLine' = slotLine PROVE LineInv'
  BY <1>1 DEF LineInv
<1>2. ASSUME NEW w, slotLine' = Cpu!Without(slotLine, w) PROVE LineInv'
  BY <1>2, WithoutType DEF LineInv
<1>3. ASSUME NEW w \in Members, NEW t, NEW end, TakeBoth(w, t, end) PROVE LineInv'
  BY <1>2, <1>3 DEF TakeBoth, Cpu!RaiseCovered, Cpu!RaiseReserved, Cpu!Leave
<1>4. ASSUME NEW w \in Members, NEW t, NEW end, Start(w, t, end) \/ Refuse(w, t, end)
      PROVE  LineInv'
  <2>1. CASE Start(w, t, end)
    BY <1>3, <2>1 DEF Start
  <2>2. CASE Refuse(w, t, end)
    <3>1. slotLine' = slotLine \/ slotLine' = Append(slotLine, w)
      BY <2>2 DEF Refuse, Line, Cpu!Join
    <3> QED
      BY <3>1 DEF LineInv
  <2> QED
    BY <1>4, <2>1, <2>2
<1>5. ASSUME NEW w \in Members, NEW end, Stop(w, end) PROVE LineInv'
  <2>1. CASE mode[w] = "waiting" /\ BothAdmit(w, test[w], end)
    BY <1>3, <1>5, <2>1 DEF Stop
  <2>2. CASE mode[w] = "waiting" /\ ~BothAdmit(w, test[w], end)
    BY <1>2, <1>5, <2>2 DEF Stop, Left, Cpu!Leave
  <2>3. CASE mode[w] # "waiting"
    BY <1>1, <1>5, <2>3 DEF Stop, slotGate
  <2> QED
    BY <2>1, <2>2, <2>3
<1>6. ASSUME NEW w \in Members, Rest(w) \/ Complete(w) \/ Remove(w) PROVE LineInv'
  BY <1>1, <1>2, <1>6 DEF Rest, Complete, Remove, slotGate, Cpu!Release, Cpu!Leave
<1>7. CASE Resolve
  <2>1. CASE Stalled
    BY <1>2, <1>7, <2>1 DEF Resolve, Left, Cpu!Leave
  <2>2. CASE ~Stalled
    BY <1>1, <1>7, <2>2 DEF Resolve, slotGate
  <2> QED
    BY <2>1, <2>2
<1>8. CASE UNCHANGED gates
  BY <1>1, <1>8 DEF gates, slotGate
<1> QED
  BY <1>4, <1>5, <1>6, <1>7, <1>8 DEF GatesNext

(* No handler disturbs the agreement.                                      *)
LEMMA AlwaysInStep == GatesSpec => [](AgreeInv /\ LineInv)
<1>1. GatesInit => AgreeInv /\ LineInv
  <2> SUFFICES ASSUME GatesInit PROVE AgreeInv /\ LineInv
    OBVIOUS
  <2>1. /\ slotReserved = [w \in Members |-> Cpu!NoReservation] /\ slotLine = <<>>
        /\ byteReserved = [w \in Members |-> Memory!NoReservation] /\ byteLine = <<>>
        /\ mode = [w \in Members |-> "idle"]
    BY DEF GatesInit, Cpu!Init, Memory!Init
  <2>2. Cpu!NoReservation.busy = FALSE /\ Memory!NoReservation.busy = FALSE
    BY DEF Cpu!NoReservation, Memory!NoReservation
  <2>3. Tables /\ \A w \in Members : /\ slotReserved[w].busy = FALSE
                                     /\ byteReserved[w].busy = FALSE /\ mode[w] = "idle"
    BY <2>1, <2>2 DEF Tables, IsTable
  <2>4. LineInv
    BY <2>1 DEF LineInv
  <2>5. GatesAgree
    BY <2>1, <2>3 DEF GatesAgree
  <2> QED
    BY <2>3, <2>4, <2>5 DEF AgreeInv
<1>2. AgreeInv /\ LineInv /\ [GatesNext]_gates => AgreeInv'
  <2> SUFFICES ASSUME AgreeInv, LineInv, [GatesNext]_gates PROVE AgreeInv'
    OBVIOUS
  <2>1. ASSUME UNCHANGED <<slotReserved, byteReserved, slotLine, byteLine, mode>>
        PROVE  AgreeInv'
    BY <2>1 DEF AgreeInv, Tables, IsTable, GatesAgree
  <2>2. CASE UNCHANGED gates
    BY <2>1, <2>2 DEF gates, slotGate, byteGate
  <2>3. ASSUME NEW w \in Members, Rest(w) PROVE AgreeInv'
    BY <2>1, <2>3 DEF Rest, slotGate, byteGate
  <2> QED
    BY <2>2, <2>3, StartAgrees, RefuseAgrees, CompleteAgrees, StopAgrees, RemoveAgrees,
       ResolveAgrees DEF GatesNext
<1> QED
  BY <1>1, <1>2, LineStep, PTL DEF GatesSpec

(* The CPU gate and the memory gate name the same running tests and the    *)
(* same line, and every running test is marked at both: looking for a      *)
(* standstill at one of them (_any_gate) is enough.                        *)
THEOREM GatesInStep == GatesSpec => []GatesAgree
<1>1. AgreeInv => GatesAgree
  BY DEF AgreeInv
<1> QED
  BY <1>1, AlwaysInStep, PTL

-----------------------------------------------------------------------------
(* Each gate is called as an Admission is.  What is proved about Admission  *)
(* holds of an instance of AdmissionProofs, whose definitions are those of  *)
(* the instance TwoGates works with.                                       *)

CpuP == INSTANCE AdmissionProofs WITH
  Workers <- Members, Budget <- SlotBudget, MaxDemand <- MaxSlots, Never <- 3, MaxSince <- 1,
  limit <- slotLimit, reserved <- slotReserved, line <- slotLine, ask <- slotAsk,
  forced <- slotForced
MemoryP == INSTANCE AdmissionProofs WITH
  Workers <- Members, Budget <- ByteBudget, MaxDemand <- MaxBytes, Never <- 3, MaxSince <- 1,
  limit <- byteLimit, reserved <- byteReserved, line <- byteLine, ask <- byteAsk,
  forced <- byteForced

(* The two instances say the same. *)
LEMMA CpuSame ==
  /\ Cpu!Next <=> CpuP!Next
  /\ Cpu!Init <=> CpuP!Init
  /\ Cpu!TypeOK <=> CpuP!TypeOK
  /\ Cpu!TypeOK' <=> CpuP!TypeOK'
  /\ Cpu!BudgetKept <=> CpuP!BudgetKept
  /\ [Cpu!Next]_(Cpu!vars) <=> [CpuP!Next]_(CpuP!vars)
BY DEF
  Cpu!Next, CpuP!Next, Cpu!Init, CpuP!Init, Cpu!TypeOK, CpuP!TypeOK, Cpu!BudgetKept,
  CpuP!BudgetKept, Cpu!vars, CpuP!vars, Cpu!RaiseCovered, CpuP!RaiseCovered,
  Cpu!RaiseReserved, CpuP!RaiseReserved, Cpu!RaiseRefused, CpuP!RaiseRefused,
  Cpu!RefusedElsewhere, CpuP!RefusedElsewhere, Cpu!Recompute, CpuP!Recompute, Cpu!Withdraw,
  CpuP!Withdraw, Cpu!ForceAdmit, CpuP!ForceAdmit, Cpu!Release, CpuP!Release, Cpu!SetLimit,
  CpuP!SetLimit, Cpu!Slots, CpuP!Slots, Cpu!Moments, CpuP!Moments, Cpu!Joins, CpuP!Joins,
  Cpu!Held, CpuP!Held, Cpu!Assign, CpuP!Assign, Cpu!Exceeds, CpuP!Exceeds, Cpu!Leave,
  CpuP!Leave, Cpu!Without, CpuP!Without, Cpu!Join, CpuP!Join, Cpu!Waiting, CpuP!Waiting,
  Cpu!Idle, CpuP!Idle, Cpu!Fits, CpuP!Fits, Cpu!Clamp, CpuP!Clamp, Cpu!Least, CpuP!Least,
  Cpu!Free, CpuP!Free, Cpu!Used, CpuP!Used, Cpu!UsedBy, CpuP!UsedBy, Cpu!Pledged,
  CpuP!Pledged, Cpu!Units, CpuP!Units, Cpu!LineHead, CpuP!LineHead, Cpu!Precedes,
  CpuP!Precedes, Cpu!Shortfall, CpuP!Shortfall, Cpu!BeforeHead, CpuP!BeforeHead,
  Cpu!CouldHave, CpuP!CouldHave, Cpu!Returned, CpuP!Returned, Cpu!Returning, CpuP!Returning,
  Cpu!NoReservation, CpuP!NoReservation, Cpu!NotWaiting, CpuP!NotWaiting, Cpu!Cardinality,
  CpuP!Cardinality

(* And promise the same.                                                   *)
LEMMA CpuPromises ==
  /\ Cpu!Spec <=> CpuP!Spec
  /\ Cpu!GrowthPastLimitIsCounted <=> CpuP!GrowthPastLimitIsCounted
  /\ Cpu!HeadNotDelayed <=> CpuP!HeadNotDelayed
BY DEF
  Cpu!Spec, CpuP!Spec, Cpu!Next, CpuP!Next, Cpu!Init, CpuP!Init, Cpu!GrowthPastLimitIsCounted,
  CpuP!GrowthPastLimitIsCounted, Cpu!HeadNotDelayed, CpuP!HeadNotDelayed, Cpu!vars, CpuP!vars,
  Cpu!RaiseCovered, CpuP!RaiseCovered, Cpu!RaiseReserved, CpuP!RaiseReserved,
  Cpu!RaiseRefused, CpuP!RaiseRefused, Cpu!RefusedElsewhere, CpuP!RefusedElsewhere,
  Cpu!Recompute, CpuP!Recompute, Cpu!Withdraw, CpuP!Withdraw, Cpu!ForceAdmit, CpuP!ForceAdmit,
  Cpu!Release, CpuP!Release, Cpu!SetLimit, CpuP!SetLimit, Cpu!Slots, CpuP!Slots, Cpu!Moments,
  CpuP!Moments, Cpu!Joins, CpuP!Joins, Cpu!Held, CpuP!Held, Cpu!Assign, CpuP!Assign,
  Cpu!Exceeds, CpuP!Exceeds, Cpu!Leave, CpuP!Leave, Cpu!Without, CpuP!Without, Cpu!Join,
  CpuP!Join, Cpu!Waiting, CpuP!Waiting, Cpu!Idle, CpuP!Idle, Cpu!Fits, CpuP!Fits, Cpu!Clamp,
  CpuP!Clamp, Cpu!Least, CpuP!Least, Cpu!Free, CpuP!Free, Cpu!Used, CpuP!Used, Cpu!UsedBy,
  CpuP!UsedBy, Cpu!Pledged, CpuP!Pledged, Cpu!Units, CpuP!Units, Cpu!LineHead, CpuP!LineHead,
  Cpu!Precedes, CpuP!Precedes, Cpu!Shortfall, CpuP!Shortfall, Cpu!BeforeHead, CpuP!BeforeHead,
  Cpu!CouldHave, CpuP!CouldHave, Cpu!Returned, CpuP!Returned, Cpu!Returning, CpuP!Returning,
  Cpu!NoReservation, CpuP!NoReservation, Cpu!NotWaiting, CpuP!NotWaiting, Cpu!Cardinality,
  CpuP!Cardinality

(* The two instances say the same. *)
LEMMA MemorySame ==
  /\ Memory!Next <=> MemoryP!Next
  /\ Memory!Init <=> MemoryP!Init
  /\ Memory!TypeOK <=> MemoryP!TypeOK
  /\ Memory!TypeOK' <=> MemoryP!TypeOK'
  /\ Memory!BudgetKept <=> MemoryP!BudgetKept
  /\ [Memory!Next]_(Memory!vars) <=> [MemoryP!Next]_(MemoryP!vars)
BY DEF
  Memory!Next, MemoryP!Next, Memory!Init, MemoryP!Init, Memory!TypeOK, MemoryP!TypeOK,
  Memory!BudgetKept, MemoryP!BudgetKept, Memory!vars, MemoryP!vars, Memory!RaiseCovered,
  MemoryP!RaiseCovered, Memory!RaiseReserved, MemoryP!RaiseReserved, Memory!RaiseRefused,
  MemoryP!RaiseRefused, Memory!RefusedElsewhere, MemoryP!RefusedElsewhere, Memory!Recompute,
  MemoryP!Recompute, Memory!Withdraw, MemoryP!Withdraw, Memory!ForceAdmit, MemoryP!ForceAdmit,
  Memory!Release, MemoryP!Release, Memory!SetLimit, MemoryP!SetLimit, Memory!Slots,
  MemoryP!Slots, Memory!Moments, MemoryP!Moments, Memory!Joins, MemoryP!Joins, Memory!Held,
  MemoryP!Held, Memory!Assign, MemoryP!Assign, Memory!Exceeds, MemoryP!Exceeds, Memory!Leave,
  MemoryP!Leave, Memory!Without, MemoryP!Without, Memory!Join, MemoryP!Join, Memory!Waiting,
  MemoryP!Waiting, Memory!Idle, MemoryP!Idle, Memory!Fits, MemoryP!Fits, Memory!Clamp,
  MemoryP!Clamp, Memory!Least, MemoryP!Least, Memory!Free, MemoryP!Free, Memory!Used,
  MemoryP!Used, Memory!UsedBy, MemoryP!UsedBy, Memory!Pledged, MemoryP!Pledged, Memory!Units,
  MemoryP!Units, Memory!LineHead, MemoryP!LineHead, Memory!Precedes, MemoryP!Precedes,
  Memory!Shortfall, MemoryP!Shortfall, Memory!BeforeHead, MemoryP!BeforeHead,
  Memory!CouldHave, MemoryP!CouldHave, Memory!Returned, MemoryP!Returned, Memory!Returning,
  MemoryP!Returning, Memory!NoReservation, MemoryP!NoReservation, Memory!NotWaiting,
  MemoryP!NotWaiting, Memory!Cardinality, MemoryP!Cardinality

(* And promise the same.                                                   *)
LEMMA MemoryPromises ==
  /\ Memory!Spec <=> MemoryP!Spec
  /\ Memory!GrowthPastLimitIsCounted <=> MemoryP!GrowthPastLimitIsCounted
  /\ Memory!HeadNotDelayed <=> MemoryP!HeadNotDelayed
BY DEF
  Memory!Spec, MemoryP!Spec, Memory!Next, MemoryP!Next, Memory!Init, MemoryP!Init,
  Memory!GrowthPastLimitIsCounted, MemoryP!GrowthPastLimitIsCounted, Memory!HeadNotDelayed,
  MemoryP!HeadNotDelayed, Memory!vars, MemoryP!vars, Memory!RaiseCovered,
  MemoryP!RaiseCovered, Memory!RaiseReserved, MemoryP!RaiseReserved, Memory!RaiseRefused,
  MemoryP!RaiseRefused, Memory!RefusedElsewhere, MemoryP!RefusedElsewhere, Memory!Recompute,
  MemoryP!Recompute, Memory!Withdraw, MemoryP!Withdraw, Memory!ForceAdmit, MemoryP!ForceAdmit,
  Memory!Release, MemoryP!Release, Memory!SetLimit, MemoryP!SetLimit, Memory!Slots,
  MemoryP!Slots, Memory!Moments, MemoryP!Moments, Memory!Joins, MemoryP!Joins, Memory!Held,
  MemoryP!Held, Memory!Assign, MemoryP!Assign, Memory!Exceeds, MemoryP!Exceeds, Memory!Leave,
  MemoryP!Leave, Memory!Without, MemoryP!Without, Memory!Join, MemoryP!Join, Memory!Waiting,
  MemoryP!Waiting, Memory!Idle, MemoryP!Idle, Memory!Fits, MemoryP!Fits, Memory!Clamp,
  MemoryP!Clamp, Memory!Least, MemoryP!Least, Memory!Free, MemoryP!Free, Memory!Used,
  MemoryP!Used, Memory!UsedBy, MemoryP!UsedBy, Memory!Pledged, MemoryP!Pledged, Memory!Units,
  MemoryP!Units, Memory!LineHead, MemoryP!LineHead, Memory!Precedes, MemoryP!Precedes,
  Memory!Shortfall, MemoryP!Shortfall, Memory!BeforeHead, MemoryP!BeforeHead,
  Memory!CouldHave, MemoryP!CouldHave, Memory!Returned, MemoryP!Returned, Memory!Returning,
  MemoryP!Returning, Memory!NoReservation, MemoryP!NoReservation, Memory!NotWaiting,
  MemoryP!NotWaiting, Memory!Cardinality, MemoryP!Cardinality

(* What a test asks for is within the bounds of the demands.               *)
TestsTyped == test \in [Members -> Demands]

(* The types of the three: the tests, the CPU gate and the memory gate.    *)
Typed == TestsTyped /\ Cpu!TypeOK /\ Memory!TypeOK

(* Every worker's test stays one of the demands.                           *)
LEMMA TestsStep == TestsTyped /\ [GatesNext]_gates => TestsTyped'
<1> SUFFICES ASSUME TestsTyped, [GatesNext]_gates PROVE TestsTyped'
  OBVIOUS
<1>1. ASSUME NEW w \in Members, NEW t \in Tests \union {test[w]}, NEW end \in Ends,
             Start(w, t, end) \/ Refuse(w, t, end)
      PROVE  TestsTyped'
  <2>1. t \in Demands
    BY TestsAssumption DEF TestsTyped
  <2>2. test' = [test EXCEPT ![w] = t]
    BY <1>1 DEF Start, Refuse, Handed
  <2> QED
    BY <2>1, <2>2 DEF TestsTyped
<1>2. ASSUME test' = test PROVE TestsTyped'
  BY <1>2 DEF TestsTyped
<1> QED
  BY <1>1, <1>2 DEF GatesNext, gates, Stop, Rest, Complete, Remove, Resolve

(* Each gate has room for what the tests ask for.                          *)
LEMMA DemandsFit ==
  ASSUME NEW t \in Demands
  PROVE  /\ t.slots \in Cpu!Slots /\ t.keepSlots \in Cpu!Slots
         /\ t.bytes \in Memory!Slots /\ t.keepBytes \in Memory!Slots
BY DEF Demands, Cpu!Slots, Memory!Slots

(* The instants the handlers name are instants of both gates.              *)
LEMMA Instants ==
  /\ Ends \subseteq Cpu!Moments /\ Ends \subseteq Memory!Moments
  /\ 1 \in Ends /\ 1 \in Cpu!Joins /\ 1 \in Memory!Joins
BY DEF Ends, Cpu!Moments, Memory!Moments, Cpu!Joins, Memory!Joins

(* What a worker takes of both, it takes of each by one call.              *)
LEMMA TakenOfEach ==
  ASSUME NEW w \in Members, NEW t \in Demands, NEW end \in Ends, TakeBoth(w, t, end)
  PROVE  Cpu!Next /\ Memory!Next
<1>1. Cpu!Next
  BY DemandsFit, Instants DEF TakeBoth, Cpu!Next
<1>2. Memory!Next
  BY DemandsFit, Instants DEF TakeBoth, Memory!Next
<1> QED
  BY <1>1, <1>2

(* A worker in line for both is, at each, refused by the other.            *)
LEMMA LinedAtEach ==
  ASSUME NEW w \in Members, NEW t \in Demands, Line(w, t)
  PROVE  Cpu!Next /\ Memory!Next
<1>1. Cpu!RefusedElsewhere(w, t.slots, 1) /\ Memory!RefusedElsewhere(w, t.bytes, 1)
  BY DEF Line, Cpu!RefusedElsewhere, Memory!RefusedElsewhere
<1> QED
  BY <1>1, DemandsFit, Instants DEF Cpu!Next, Memory!Next

(* What is assigned at both gates is so at each, whether the worker leaves  *)
(* the lines with it or not.                                               *)
LEMMA AssignedAtEach ==
  ASSUME NEW w \in Members, NEW slots \in Cpu!Slots, NEW bytes \in Memory!Slots,
         NEW busy \in BOOLEAN, Assigned(w, slots, bytes, busy),
         Left(w) \/ UNCHANGED <<slotLine, slotAsk, byteLine, byteAsk>>
  PROVE  Cpu!Next /\ Memory!Next
<1>1. \/ Cpu!Withdraw(w, slots, 1, busy) /\ Memory!Withdraw(w, bytes, 1, busy)
      \/ Cpu!Recompute(w, slots, 1, busy) /\ Memory!Recompute(w, bytes, 1, busy)
  BY DEF Assigned, Left, Cpu!Withdraw, Memory!Withdraw, Cpu!Recompute, Memory!Recompute
<1>2. busy = TRUE \/ busy = FALSE
  OBVIOUS
<1> QED
  BY <1>1, <1>2, Instants DEF Cpu!Next, Memory!Next

(* Every handler is one call of each gate, or none.                        *)
LEMMA CallStep ==
  Typed /\ [GatesNext]_gates => [Cpu!Next]_(Cpu!vars) /\ [Memory!Next]_(Memory!vars)
<1> DEFINE Called == [Cpu!Next]_(Cpu!vars) /\ [Memory!Next]_(Memory!vars)
<1> SUFFICES ASSUME Typed, [GatesNext]_gates PROVE Called
  OBVIOUS
<1>0. /\ \A w \in Members : test[w] \in Demands /\ Cpu!Held(w) \in Cpu!Slots
      /\ 0 \in Cpu!Slots /\ 0 \in Memory!Slots
  BY BudgetsAssumption
  DEF Typed, TestsTyped, Cpu!TypeOK, Cpu!Held, Cpu!Slots, Memory!Slots
<1>1. ASSUME UNCHANGED <<slotGate, byteGate>> PROVE Called
  BY <1>1 DEF slotGate, byteGate, Cpu!vars, Memory!vars
<1>2. ASSUME NEW w \in Members, NEW t \in Tests \union {test[w]}, NEW end \in Ends,
             Start(w, t, end) \/ Refuse(w, t, end)
      PROVE  Called
  <2>1. t \in Demands
    BY <1>0, TestsAssumption
  <2> QED
    BY <1>2, <2>1, TakenOfEach, LinedAtEach DEF Start, Refuse
<1>3. ASSUME NEW w \in Members, NEW end \in Ends, Stop(w, end) PROVE Called
  <2>1. CASE mode[w] # "waiting"
    BY <1>1, <1>3, <2>1 DEF Stop
  <2>2. CASE mode[w] = "waiting" /\ BothAdmit(w, test[w], end)
    <3>1. TakeBoth(w, test[w], end)
      BY <1>3, <2>2 DEF Stop
    <3> QED
      BY <1>0, <3>1, TakenOfEach
  <2>3. CASE mode[w] = "waiting" /\ ~BothAdmit(w, test[w], end)
    <3>1. PICK slots \in {Cpu!Held(w), test[w].keepSlots} :
            Assigned(w, slots, test[w].keepBytes, FALSE)
      BY <1>3, <2>3 DEF Stop
    <3>2. Left(w)
      BY <1>3, <2>3 DEF Stop
    <3>3. slots \in Cpu!Slots /\ test[w].keepBytes \in Memory!Slots
      BY <1>0, DemandsFit
    <3> QED
      BY <3>1, <3>2, <3>3, AssignedAtEach
  <2> QED
    BY <2>1, <2>2, <2>3
<1>4. ASSUME NEW w \in Members, Complete(w) PROVE Called
  <2>1. \/ Assigned(w, 0, 0, FALSE)
        \/ Assigned(w, test[w].keepSlots, test[w].keepBytes, FALSE)
    BY <1>4 DEF Complete
  <2>2. UNCHANGED <<slotLine, slotAsk, byteLine, byteAsk>>
    BY <1>4 DEF Complete
  <2>3. test[w].keepSlots \in Cpu!Slots /\ test[w].keepBytes \in Memory!Slots
    BY <1>0, DemandsFit
  <2> QED
    BY <1>0, <2>1, <2>2, <2>3, AssignedAtEach
<1>5. ASSUME NEW w \in Members, Remove(w) PROVE Called
  BY <1>5 DEF Remove, Cpu!Next, Memory!Next
<1>6. CASE Resolve
  <2>1. CASE Stalled
    <3> DEFINE w == Head(slotLine)
    <3>1. w \in Members
      BY <2>1 DEF Typed, Cpu!TypeOK, Stalled
    <3>2. Assigned(w, test[w].slots, test[w].bytes, TRUE) /\ Left(w)
      BY <1>6, <2>1 DEF Resolve
    <3> HIDE DEF w
    <3>3. test[w].slots \in Cpu!Slots /\ test[w].bytes \in Memory!Slots
      BY <1>0, <3>1, DemandsFit
    <3> QED
      BY <3>1, <3>2, <3>3, AssignedAtEach
  <2>2. CASE ~Stalled
    BY <1>1, <1>6, <2>2 DEF Resolve
  <2> QED
    BY <2>1, <2>2
<1>7. ASSUME NEW w \in Members, Rest(w) PROVE Called
  BY <1>1, <1>7 DEF Rest
<1> QED
  BY <1>1, <1>2, <1>3, <1>4, <1>5, <1>6, <1>7 DEF GatesNext, gates

(* Both gates have what Admission assumes of its constants.                *)
LEMMA Sized ==
  /\ CpuP!IsFiniteSet(Members) /\ MemoryP!IsFiniteSet(Members)
  /\ SlotBudget \in Nat \ {0} /\ MaxSlots \in Nat /\ MaxSlots >= SlotBudget
  /\ ByteBudget \in Nat \ {0} /\ MaxBytes \in Nat /\ MaxBytes >= ByteBudget
  /\ 3 \in Nat /\ 3 >= 2 /\ 1 \in Nat \ {0} /\ MaxForced \in Nat
BY GatedAssumption, BudgetsAssumption, CountsAssumption
DEF IsFiniteSet, CpuP!IsFiniteSet, MemoryP!IsFiniteSet

(* Every call keeps the types.                                             *)
LEMMA GatesTyped == GatesSpec => []Typed
<1>1. GatesInit => Typed
  <2> SUFFICES ASSUME GatesInit PROVE Typed
    OBVIOUS
  <2>1. TestsTyped
    BY BudgetsAssumption DEF GatesInit, TestsTyped, NoTest, Demands
  <2>2. CpuP!TypeOK
    BY Sized, CpuSame, CpuP!InitType DEF GatesInit
  <2>3. MemoryP!TypeOK
    BY Sized, MemorySame, MemoryP!InitType DEF GatesInit
  <2> QED
    BY <2>1, <2>2, <2>3, CpuSame, MemorySame DEF Typed
<1>2. Typed /\ [GatesNext]_gates => Typed'
  <2> SUFFICES ASSUME Typed, [GatesNext]_gates PROVE Typed'
    OBVIOUS
  <2>1. TestsTyped'
    BY TestsStep DEF Typed
  <2>2. CpuP!TypeOK'
    <3>1. CpuP!TypeOK /\ [CpuP!Next]_(CpuP!vars)
      BY CpuSame, CallStep DEF Typed
    <3> QED
      BY <3>1, Sized, CpuP!NextType
  <2>3. MemoryP!TypeOK'
    <3>1. MemoryP!TypeOK /\ [MemoryP!Next]_(MemoryP!vars)
      BY MemorySame, CallStep DEF Typed
    <3> QED
      BY <3>1, Sized, MemoryP!NextType
  <2>4. Cpu!TypeOK' /\ Memory!TypeOK'
    BY <2>2, <2>3, CpuSame, MemorySame
  <2> QED
    BY <2>1, <2>4 DEF Typed
<1> QED
  BY <1>1, <1>2, PTL DEF GatesSpec

(* Each gate by itself implements Admission, whatever the handlers make of  *)
(* the two together: all that is proved about Admission holds of both.     *)
THEOREM EachGateAdmits == GatesSpec => GatesAdmit
<1>1. GatesInit => Cpu!Init /\ Memory!Init
  BY DEF GatesInit
<1> QED
  BY <1>1, CallStep, GatesTyped, PTL DEF GatesSpec, GatesAdmit, Cpu!Spec, Memory!Spec

(* In neither line is the oldest waiter delayed by a backfill.             *)
THEOREM NeitherHeadDelayed == GatesSpec => Cpu!HeadNotDelayed /\ Memory!HeadNotDelayed
<1>1. CpuP!Spec => CpuP!HeadNotDelayed
  BY Sized, CpuP!HeadSafe
<1>2. MemoryP!Spec => MemoryP!HeadNotDelayed
  BY Sized, MemoryP!HeadSafe
<1> QED
  BY <1>1, <1>2, CpuPromises, MemoryPromises, EachGateAdmits DEF GatesAdmit

(* Whatever either gate promises past its limit is counted as forced.      *)
THEOREM NeitherGrowsUncounted ==
  GatesSpec => Cpu!GrowthPastLimitIsCounted /\ Memory!GrowthPastLimitIsCounted
<1>1. CpuP!Spec => CpuP!GrowthPastLimitIsCounted
  BY Sized, CpuP!GrowthCounted
<1>2. MemoryP!Spec => MemoryP!GrowthPastLimitIsCounted
  BY Sized, MemoryP!GrowthCounted
<1> QED
  BY <1>1, <1>2, CpuPromises, MemoryPromises, EachGateAdmits DEF GatesAdmit

-----------------------------------------------------------------------------
(* What runs has what it needs.                                            *)

(* A running test holds what it asks for, as far as there is so much.      *)
Enough(w) ==
  mode[w] = "running" =>
    Cpu!Held(w) >= Cpu!Clamp(test[w].slots) /\ Memory!Held(w) >= Memory!Clamp(test[w].bytes)

(* Of the others nothing changes that Enough speaks of.                    *)
OthersKept(w) ==
  /\ slotLimit' = slotLimit /\ byteLimit' = byteLimit
  /\ \A v \in Members \ {w} :
       /\ slotReserved'[v] = slotReserved[v] /\ byteReserved'[v] = byteReserved[v]
       /\ mode'[v] = mode[v] /\ test'[v] = test[v]

(* It is enough to look at the worker a call is about.                     *)
LEMMA EnoughOfOthers ==
  ASSUME \A v \in Members : Enough(v), NEW w \in Members, OthersKept(w), Enough(w)'
  PROVE  \A v \in Members : Enough(v)'
<1> SUFFICES ASSUME NEW v \in Members, v # w PROVE Enough(v)'
  OBVIOUS
<1> QED
  BY DEF Enough, OthersKept, Cpu!Held, Memory!Held, Cpu!Clamp, Memory!Clamp, Cpu!Least,
         Memory!Least

(* What is assigned is held.                                               *)
LEMMA AssignedHeld ==
  ASSUME Tables, NEW w \in Members, NEW slots, NEW bytes, NEW busy,
         Assigned(w, slots, bytes, busy)
  PROVE  /\ slotReserved'[w].slots = slots /\ byteReserved'[w].slots = bytes
         /\ slotLimit' = slotLimit /\ byteLimit' = byteLimit
         /\ \A v \in Members \ {w} : /\ slotReserved'[v] = slotReserved[v]
                                     /\ byteReserved'[v] = byteReserved[v]
<1>1. /\ Marks(slotReserved', slotReserved, w, busy)
      /\ Marks(byteReserved', byteReserved, w, busy)
  BY AssignMarks
<1>2. /\ slotReserved'[w].slots = slots /\ byteReserved'[w].slots = bytes
      /\ slotLimit' = slotLimit /\ byteLimit' = byteLimit
  BY DEF Assigned, Cpu!Assign, Memory!Assign, Tables, IsTable
<1> QED
  BY <1>1, <1>2 DEF Marks

(* What is taken of both gates is enough of each.                          *)
LEMMA TakenEnough ==
  ASSUME Tables, Typed, slotLine = byteLine, NEW w \in Members, NEW t \in Demands, NEW end,
         TakeBoth(w, t, end)
  PROVE  /\ slotReserved'[w].slots >= Cpu!Clamp(t.slots)
         /\ byteReserved'[w].slots >= Memory!Clamp(t.bytes)
         /\ slotLimit' = slotLimit /\ byteLimit' = byteLimit
         /\ \A v \in Members \ {w} : /\ slotReserved'[v] = slotReserved[v]
                                     /\ byteReserved'[v] = byteReserved[v]
<1>1. /\ Marks(slotReserved', slotReserved, w, TRUE)
      /\ Marks(byteReserved', byteReserved, w, TRUE)
  BY TakeMarks
<1>2. slotReserved'[w].slots >= Cpu!Clamp(t.slots) /\ slotLimit' = slotLimit
  <2>1. t.slots \in Int /\ slotLimit \in Int /\ Cpu!Held(w) \in Int
    BY BudgetsAssumption DEF Demands, Typed, Cpu!TypeOK, Cpu!Held, Cpu!Slots
  <2>2. CASE Cpu!RaiseCovered(w, t.slots, end)
    <3>1. slotReserved'[w].slots = Cpu!Held(w) /\ t.slots <= Cpu!Held(w) /\ slotLimit' = slotLimit
      BY <2>2 DEF Cpu!RaiseCovered, Cpu!Assign, Tables, IsTable
    <3> QED
      BY <2>1, <3>1 DEF Cpu!Clamp, Cpu!Least
  <2>3. CASE Cpu!RaiseReserved(w, t.slots, end)
    <3>1. slotReserved'[w].slots = Cpu!Clamp(t.slots) /\ slotLimit' = slotLimit
      BY <2>3 DEF Cpu!RaiseReserved, Tables, IsTable
    <3> QED
      BY <2>1, <3>1 DEF Cpu!Clamp, Cpu!Least
  <2> QED
    BY <2>2, <2>3 DEF TakeBoth
<1>3. byteReserved'[w].slots >= Memory!Clamp(t.bytes) /\ byteLimit' = byteLimit
  <2>1. t.bytes \in Int /\ byteLimit \in Int /\ Memory!Held(w) \in Int
    BY BudgetsAssumption DEF Demands, Typed, Memory!TypeOK, Memory!Held, Memory!Slots
  <2>2. CASE Memory!RaiseCovered(w, t.bytes, end)
    <3>1. /\ byteReserved'[w].slots = Memory!Held(w) /\ t.bytes <= Memory!Held(w)
          /\ byteLimit' = byteLimit
      BY <2>2 DEF Memory!RaiseCovered, Memory!Assign, Tables, IsTable
    <3> QED
      BY <2>1, <3>1 DEF Memory!Clamp, Memory!Least
  <2>3. CASE Memory!RaiseReserved(w, t.bytes, end)
    <3>1. byteReserved'[w].slots = Memory!Clamp(t.bytes) /\ byteLimit' = byteLimit
      BY <2>3 DEF Memory!RaiseReserved, Tables, IsTable
    <3> QED
      BY <2>1, <3>1 DEF Memory!Clamp, Memory!Least
  <2> QED
    BY <2>2, <2>3 DEF TakeBoth
<1> QED
  BY <1>1, <1>2, <1>3 DEF Marks

(* Who takes what its test asks for has enough; who does not run needs      *)
(* nothing.                                                                *)
LEMMA Started ==
  ASSUME Tables, Typed, slotLine = byteLine, \A v \in Members : Enough(v),
         NEW w \in Members, NEW t \in Demands, NEW end, TakeBoth(w, t, end),
         mode' = [mode EXCEPT ![w] = "running"],
         test'[w] = t, \A v \in Members \ {w} : test'[v] = test[v]
  PROVE  \A v \in Members : Enough(v)'
<1>1. OthersKept(w)
  BY TakenEnough DEF OthersKept, Tables, IsTable
<1>2. Enough(w)'
  BY TakenEnough DEF Enough, Cpu!Held, Memory!Held, Cpu!Clamp, Memory!Clamp, Cpu!Least, Memory!Least
<1> QED
  BY <1>1, <1>2, EnoughOfOthers

(* A call after which the worker does not run leaves enough for the rest.  *)
LEMMA NotRunning ==
  ASSUME Tables, \A v \in Members : Enough(v), NEW w \in Members, NEW m, m # "running",
         slotLimit' = slotLimit, byteLimit' = byteLimit, mode' = [mode EXCEPT ![w] = m],
         \A v \in Members \ {w} : /\ slotReserved'[v] = slotReserved[v]
                                  /\ byteReserved'[v] = byteReserved[v] /\ test'[v] = test[v]
  PROVE  \A v \in Members : Enough(v)'
<1>1. OthersKept(w) /\ mode'[w] = m
  BY DEF OthersKept, Tables, IsTable
<1> QED
  BY <1>1, EnoughOfOthers DEF Enough

(* Every handler keeps enough for whatever runs.                           *)
LEMMA EnoughStep ==
  ASSUME AgreeInv, LineInv, Typed, \A v \in Members : Enough(v), [GatesNext]_gates
  PROVE  \A v \in Members : Enough(v)'
<1> DEFINE Kept == \A v \in Members : Enough(v)'
<1>0. Tables /\ slotLine = byteLine /\ \A w \in Members : test[w] \in Demands
  BY DEF AgreeInv, GatesAgree, Typed, TestsTyped
<1>1. ASSUME UNCHANGED <<slotGate, byteGate>>, mode' = mode, test' = test PROVE Kept
  <2> SUFFICES ASSUME NEW v \in Members PROVE Enough(v)'
    OBVIOUS
  <2> QED
    BY <1>1 DEF slotGate, byteGate, Enough, Cpu!Held, Memory!Held, Cpu!Clamp, Memory!Clamp,
                Cpu!Least, Memory!Least
<1>2. ASSUME NEW w \in Members, NEW t \in Tests \union {test[w]}, NEW end \in Ends,
             Start(w, t, end) \/ Refuse(w, t, end)
      PROVE  Kept
  <2>1. t \in Demands
    BY <1>0, TestsAssumption
  <2>2. /\ test' = [test EXCEPT ![w] = t] /\ test'[w] = t
        /\ \A v \in Members \ {w} : test'[v] = test[v]
    BY <1>2 DEF Start, Refuse, Handed, Typed, TestsTyped
  <2>3. CASE Start(w, t, end)
    <3>1. TakeBoth(w, t, end) /\ mode' = [mode EXCEPT ![w] = "running"]
      BY <2>3 DEF Start
    <3> QED
      BY <1>0, <2>1, <2>2, <3>1, Started
  <2>4. CASE Refuse(w, t, end)
    <3>1. /\ mode' = [mode EXCEPT ![w] = "waiting"]
          /\ slotLimit' = slotLimit /\ byteLimit' = byteLimit
          /\ slotReserved' = slotReserved /\ byteReserved' = byteReserved
      BY <2>4 DEF Refuse, Line
    <3> QED
      BY <1>0, <2>2, <3>1, NotRunning
  <2> QED
    BY <1>2, <2>3, <2>4
<1>3. ASSUME NEW w \in Members, NEW end \in Ends, Stop(w, end) PROVE Kept
  <2>0. test' = test
    BY <1>3 DEF Stop
  <2>1. CASE mode[w] # "waiting"
    <3> DEFINE m == IF mode[w] = "idle" THEN "leaving" ELSE mode[w]
    <3>1. UNCHANGED <<slotGate, byteGate>> /\ mode' = [mode EXCEPT ![w] = m]
      BY <1>3, <2>1 DEF Stop
    <3>2. CASE mode[w] = "running"
      <4>1. mode' = mode
        BY <1>0, <3>1, <3>2 DEF Tables, IsTable
      <4> QED
        BY <1>1, <2>0, <3>1, <4>1
    <3>3. CASE mode[w] # "running"
      <4>1. m # "running"
        BY <3>3
      <4> HIDE DEF m
      <4> QED
        BY <1>0, <2>0, <3>1, <4>1, NotRunning DEF slotGate, byteGate
    <3> QED
      BY <3>2, <3>3
  <2>2. CASE mode[w] = "waiting" /\ BothAdmit(w, test[w], end)
    <3>1. TakeBoth(w, test[w], end) /\ mode' = [mode EXCEPT ![w] = "running"]
      BY <1>3, <2>2 DEF Stop
    <3> QED
      BY <1>0, <2>0, <3>1, Started
  <2>3. CASE mode[w] = "waiting" /\ ~BothAdmit(w, test[w], end)
    <3>1. PICK slots \in {Cpu!Held(w), test[w].keepSlots} :
            Assigned(w, slots, test[w].keepBytes, FALSE)
      BY <1>3, <2>3 DEF Stop
    <3>2. mode' = [mode EXCEPT ![w] = "leaving"]
      BY <1>3, <2>3 DEF Stop
    <3> QED
      BY <1>0, <2>0, <3>1, <3>2, AssignedHeld, NotRunning
  <2> QED
    BY <2>1, <2>2, <2>3
<1>4. ASSUME NEW w \in Members, Complete(w) PROVE Kept
  <2>1. PICK slots, bytes, m :
          /\ Assigned(w, slots, bytes, FALSE) /\ mode' = [mode EXCEPT ![w] = m]
          /\ m # "running"
    BY <1>4 DEF Complete
  <2>2. test' = test
    BY <1>4 DEF Complete
  <2> QED
    BY <1>0, <2>1, <2>2, AssignedHeld, NotRunning
<1>5. ASSUME NEW w \in Members, Remove(w) PROVE Kept
  <2>1. /\ mode' = [mode EXCEPT ![w] = "gone"] /\ test' = test
        /\ slotLimit' = slotLimit /\ byteLimit' = byteLimit
        /\ \A v \in Members \ {w} : /\ slotReserved'[v] = slotReserved[v]
                                    /\ byteReserved'[v] = byteReserved[v]
    BY <1>0, <1>5 DEF Remove, Cpu!Release, Memory!Release, Tables, IsTable
  <2> QED
    BY <1>0, <2>1, NotRunning
<1>6. CASE Resolve
  <2>1. CASE Stalled
    <3>0. Head(slotLine) \in Members
      BY <2>1 DEF LineInv, Stalled
    <3>1. PICK w \in Members : w = Head(slotLine)
      BY <3>0
    <3>2. /\ Assigned(w, test[w].slots, test[w].bytes, TRUE) /\ test' = test
          /\ mode' = [mode EXCEPT ![w] = "running"]
      BY <1>6, <2>1, <3>1 DEF Resolve
    <3>3. /\ slotReserved'[w].slots = test[w].slots /\ byteReserved'[w].slots = test[w].bytes
          /\ OthersKept(w)
      <4> DEFINE slots == test[w].slots
                 bytes == test[w].bytes
      <4>1. Assigned(w, slots, bytes, TRUE)
        BY <3>2
      <4> HIDE DEF slots, bytes
      <4>2. /\ slotReserved'[w].slots = slots /\ byteReserved'[w].slots = bytes
            /\ slotLimit' = slotLimit /\ byteLimit' = byteLimit
            /\ \A v \in Members \ {w} : /\ slotReserved'[v] = slotReserved[v]
                                        /\ byteReserved'[v] = byteReserved[v]
        BY <1>0, <4>1, AssignedHeld
      <4>3. \A v \in Members \ {w} : mode'[v] = mode[v] /\ test'[v] = test[v]
        BY <1>0, <3>2 DEF Tables, IsTable
      <4>4. OthersKept(w)
        BY <4>2, <4>3 DEF OthersKept
      <4> QED
        BY <4>2, <4>4 DEF slots, bytes
    <3>4. /\ test[w].slots \in Int /\ slotLimit \in Int
          /\ test[w].bytes \in Int /\ byteLimit \in Int
      BY <1>0, <3>1, BudgetsAssumption DEF Demands, Typed, Cpu!TypeOK, Memory!TypeOK
    <3>5. Enough(w)'
      BY <3>2, <3>3, <3>4
      DEF OthersKept, Enough, Cpu!Held, Memory!Held, Cpu!Clamp, Memory!Clamp, Cpu!Least,
          Memory!Least
    <3> QED
      BY <3>1, <3>3, <3>5, EnoughOfOthers
  <2>2. CASE ~Stalled
    BY <1>1, <1>6, <2>2 DEF Resolve
  <2> QED
    BY <2>1, <2>2
<1>7. ASSUME NEW w \in Members, Rest(w) PROVE Kept
  BY <1>1, <1>7 DEF Rest
<1>8. CASE UNCHANGED gates
  BY <1>1, <1>8 DEF gates
<1> QED
  BY <1>2, <1>3, <1>4, <1>5, <1>6, <1>7, <1>8 DEF GatesNext

(* A test runs with what it needs of both gates or not at all, and neither  *)
(* budget is exceeded before an admission was forced: for any workers,     *)
(* budgets and demands.                                                    *)
THEOREM AlwaysBothOrNone == GatesSpec => []BothOrNone
<1> DEFINE AllEnough == \A v \in Members : Enough(v)
<1>1. GatesInit => AllEnough
  BY DEF GatesInit, Enough
<1>2. AgreeInv /\ LineInv /\ Typed /\ AllEnough /\ [GatesNext]_gates => AllEnough'
  BY EnoughStep
<1>3. AgreeInv /\ AllEnough /\ Cpu!BudgetKept /\ Memory!BudgetKept => BothOrNone
  BY DEF AgreeInv, Enough, BothOrNone
<1>4. CpuP!Spec => []CpuP!BudgetKept
  BY Sized, CpuP!BudgetSafe
<1>5. MemoryP!Spec => []MemoryP!BudgetKept
  BY Sized, MemoryP!BudgetSafe
<1> HIDE DEF AllEnough
<1> QED
  BY <1>1, <1>2, <1>3, <1>4, <1>5, CpuSame, MemorySame, CpuPromises, MemoryPromises,
     EachGateAdmits, AlwaysInStep, GatesTyped, PTL
  DEF GatesSpec, GatesAdmit

-----------------------------------------------------------------------------
(* Nobody is left standing.  A handler that ends looks for a standstill     *)
(* last; only the first round, over gates nobody has touched, does not, and *)
(* its first test is always admitted.                                      *)

(* A test runs, or a worker is on its way out.                             *)
Moving == \E w \in Members : mode[w] \in {"running", "leaving"}

(* Nobody stands in line with nothing moving.                              *)
Settled == slotLine = <<>> \/ Moving

(* Gates at which nobody holds or waits for anything.                      *)
Untouched ==
  /\ slotLine = <<>> /\ byteLine = <<>>
  /\ \A w \in Members : slotReserved[w].slots = 0 /\ byteReserved[w].slots = 0

(* What is left of a handler: checks of workers, then the one for stalls.  *)
StallsLast == \E s \in Seq(Members) : todo = s \o <<Stalls>>
(* The first round checks workers alone.                                   *)
FirstRound == todo \in Seq(Members) /\ (Moving \/ Untouched)

(* The inductive invariant of the standstills.                             *)
StandInv == (todo = <<>> /\ Settled) \/ StallsLast \/ FirstRound

(* Head and tail of a list that ends in the check for stalls.              *)
LEMMA EndsInStalls ==
  ASSUME NEW s \in Seq(Members)
  PROVE  /\ s \o <<Stalls>> # <<>>
         /\ s # <<>> => /\ Head(s \o <<Stalls>>) = Head(s) /\ Head(s) \in Members
                        /\ Tail(s \o <<Stalls>>) = Tail(s) \o <<Stalls>> /\ Tail(s) \in Seq(Members)
         /\ s = <<>> => /\ Head(s \o <<Stalls>>) = Stalls
                        /\ Tail(s \o <<Stalls>>) = <<>>
<1>1. s \o <<Stalls>> # <<>>
  OBVIOUS
<1>2. CASE s = <<>>
  BY <1>2
<1>3. CASE s # <<>>
  <2>1. /\ Head(s \o <<Stalls>>) = Head(s) /\ Head(s) \in Members /\ Tail(s) \in Seq(Members)
    BY <1>3
  <2>2. Tail(s \o <<Stalls>>) = Tail(s) \o <<Stalls>>
    BY <1>3
  <2> QED
    BY <1>3, <2>1, <2>2
<1> QED
  BY <1>1, <1>2, <1>3

(* Of gates nobody has touched, both admit every test.                     *)
LEMMA UntouchedAdmits ==
  ASSUME Typed, Untouched, NEW w \in Members, NEW t \in Demands, NEW end
  PROVE  BothAdmit(w, t, end)
<1>1. Cpu!Cardinality({}) = 0 /\ Memory!Cardinality({}) = 0
  BY FS_EmptySet DEF Cardinality, Cpu!Cardinality, Memory!Cardinality
<1>2. Cpu!Fits(w, t.slots, end)
  <2>1. Cpu!Pledged(slotReserved) = {}
    BY BudgetsAssumption DEF Untouched, Cpu!Pledged, Cpu!Units
  <2>2. Cpu!Free = slotLimit - 0 /\ Cpu!Held(w) = 0
    BY <1>1, <2>1 DEF Untouched, Cpu!Free, Cpu!Used, Cpu!UsedBy, Cpu!Held
  <2>3. t.slots \in Int /\ slotLimit \in Int
    BY BudgetsAssumption DEF Demands, Typed, Cpu!TypeOK
  <2> QED
    BY <2>2, <2>3 DEF Untouched, Cpu!Fits, Cpu!Clamp, Cpu!Least
<1>3. Memory!Fits(w, t.bytes, end)
  <2>1. Memory!Pledged(byteReserved) = {}
    BY BudgetsAssumption DEF Untouched, Memory!Pledged, Memory!Units
  <2>2. Memory!Free = byteLimit - 0 /\ Memory!Held(w) = 0
    BY <1>1, <2>1 DEF Untouched, Memory!Free, Memory!Used, Memory!UsedBy, Memory!Held
  <2>3. t.bytes \in Int /\ byteLimit \in Int
    BY BudgetsAssumption DEF Demands, Typed, Memory!TypeOK
  <2> QED
    BY <2>2, <2>3 DEF Untouched, Memory!Fits, Memory!Clamp, Memory!Least
<1> QED
  BY <1>2, <1>3 DEF BothAdmit

(* A worker that is checked is taken off the list.                         *)
LEMMA Checked ==
  ASSUME StandInv, NEW w \in Members, At(w), todo' = Tail(todo)
  PROVE  StallsLast' \/ (todo' \in Seq(Members) /\ (Moving \/ Untouched))
<1>1. CASE StallsLast
  <2>1. PICK s \in Seq(Members) : todo = s \o <<Stalls>>
    BY <1>1 DEF StallsLast
  <2>2. s # <<>>
    BY <2>1, EndsInStalls, GatedAssumption DEF At
  <2> QED
    BY <2>1, <2>2, EndsInStalls DEF StallsLast
<1>2. CASE FirstRound
  BY <1>2 DEF FirstRound, At
<1> QED
  BY <1>1, <1>2 DEF StandInv, At

(* A controller with nothing left to check is settled.                     *)
LEMMA RestsSettled ==
  ASSUME StandInv, todo = <<>>
  PROVE  Settled
BY EndsInStalls DEF StandInv, StallsLast, FirstRound, Settled, Untouched

(* Every handler either leaves the check for stalls to do or is settled.   *)
LEMMA StandStep ==
  ASSUME AgreeInv, LineInv, Typed, StandInv, [GatesNext]_gates
  PROVE  StandInv'
<1>0. /\ \A w \in Members : test[w] \in Demands
      /\ IsTable(mode) /\ \A w \in Members : slotReserved[w].busy <=> mode[w] = "running"
  BY DEF AgreeInv, GatesAgree, Tables, Typed, TestsTyped
<1>1. ASSUME NEW w \in Members, NEW t \in Tests \union {test[w]}, NEW end \in Ends,
             Start(w, t, end)
      PROVE  StandInv'
  <2>1. At(w) /\ todo' = Tail(todo) /\ mode' = [mode EXCEPT ![w] = "running"]
    BY <1>1 DEF Start, Handed
  <2>2. Moving'
    BY <1>0, <2>1 DEF Moving, IsTable
  <2>3. StallsLast' \/ todo' \in Seq(Members)
    BY <2>1, Checked
  <2> QED
    BY <2>2, <2>3 DEF StandInv, FirstRound
<1>2. ASSUME NEW w \in Members, NEW t \in Tests \union {test[w]}, NEW end \in Ends,
             Refuse(w, t, end)
      PROVE  StandInv'
  <2>1. At(w) /\ todo' = Tail(todo) /\ mode' = [mode EXCEPT ![w] = "waiting"]
    BY <1>2 DEF Refuse, Handed
  <2>2. ~Untouched
    <3>1. t \in Demands
      BY <1>0, TestsAssumption
    <3> QED
      BY <1>2, <3>1, UntouchedAdmits DEF Refuse
  <2>3. mode[w] \notin {"running", "leaving"}
    BY <1>2 DEF Refuse, Heads
  <2>4. Moving => Moving'
    BY <1>0, <2>1, <2>3 DEF Moving, IsTable
  <2>5. StallsLast' \/ (todo' \in Seq(Members) /\ (Moving \/ Untouched))
    BY <2>1, Checked
  <2> QED
    BY <2>2, <2>4, <2>5 DEF StandInv, FirstRound
<1>3. ASSUME NEW w \in Members, Rest(w) PROVE StandInv'
  <2>1. At(w) /\ todo' = Tail(todo)
    BY <1>3 DEF Rest
  <2>2. (Moving \/ Untouched) => (Moving \/ Untouched)'
    BY <1>3 DEF Rest, slotGate, byteGate, Moving, Untouched
  <2>3. StallsLast' \/ (todo' \in Seq(Members) /\ (Moving \/ Untouched))
    BY <2>1, Checked
  <2> QED
    BY <2>2, <2>3 DEF StandInv, FirstRound
<1>4. ASSUME NEW w \in Members, Complete(w) PROVE StandInv'
  <2>1. todo' = (<<w>> \o slotLine) \o <<Stalls>>
    BY <1>4 DEF Complete
  <2>2. <<w>> \o slotLine \in Seq(Members)
    BY DEF LineInv
  <2> QED
    BY <2>1, <2>2 DEF StandInv, StallsLast
<1>5. ASSUME NEW w \in Members, Remove(w) PROVE StandInv'
  <2>1. todo' = Cpu!Without(slotLine, w) \o <<Stalls>>
    BY <1>5 DEF Remove
  <2>2. Cpu!Without(slotLine, w) \in Seq(Members)
    BY WithoutType DEF LineInv
  <2> QED
    BY <2>1, <2>2 DEF StandInv, StallsLast
<1>6. ASSUME NEW w \in Members, NEW end \in Ends, Stop(w, end) PROVE StandInv'
  <2>1. todo = <<>> /\ todo' = <<>> /\ Settled
    BY <1>6, RestsSettled DEF Stop
  <2>2. CASE mode[w] = "waiting"
    <3>1. \/ mode' = [mode EXCEPT ![w] = "running"]
          \/ mode' = [mode EXCEPT ![w] = "leaving"]
      BY <1>6, <2>2 DEF Stop
    <3>2. Moving'
      BY <1>0, <3>1 DEF Moving, IsTable
    <3> QED
      BY <2>1, <3>2 DEF StandInv, Settled
  <2>3. CASE mode[w] # "waiting"
    <3>1. slotLine' = slotLine /\ mode' = [mode EXCEPT ![w] = IF @ = "idle" THEN "leaving" ELSE @]
      BY <1>6, <2>3 DEF Stop, slotGate
    <3>2. Moving => Moving'
      BY <1>0, <3>1 DEF Moving, IsTable
    <3> QED
      BY <2>1, <3>1, <3>2 DEF StandInv, Settled
  <2> QED
    BY <2>2, <2>3
<1>7. CASE Resolve
  <2>1. todo' = <<>>
    <3>1. At(Stalls) /\ todo' = Tail(todo)
      BY <1>7 DEF Resolve
    <3>2. ~(todo \in Seq(Members))
      BY <3>1, GatedAssumption DEF At
    <3>3. PICK s \in Seq(Members) : todo = s \o <<Stalls>>
      BY <3>1, <3>2 DEF At, StandInv, FirstRound, StallsLast
    <3>4. s = <<>>
      BY <3>1, <3>3, EndsInStalls, GatedAssumption DEF At
    <3> QED
      BY <3>1, <3>3, <3>4, EndsInStalls
  <2>2. CASE Stalled
    <3>0. Head(slotLine) \in Members
      BY <2>2 DEF LineInv, Stalled
    <3>1. PICK w \in Members : w = Head(slotLine)
      BY <3>0
    <3>2. mode' = [mode EXCEPT ![w] = "running"]
      BY <1>7, <2>2, <3>1 DEF Resolve
    <3>3. Moving'
      BY <1>0, <3>2 DEF Moving, IsTable
    <3> QED
      BY <2>1, <3>3 DEF StandInv, Settled
  <2>3. CASE ~Stalled
    <3>1. slotLine' = slotLine /\ mode' = mode
      BY <1>7, <2>3 DEF Resolve, slotGate
    <3>2. Settled
      BY <1>0, <2>3 DEF Stalled, Cpu!Idle, Draining, Settled, Moving
    <3> QED
      BY <2>1, <3>1, <3>2 DEF StandInv, Settled, Moving
  <2> QED
    BY <2>2, <2>3
<1>8. CASE UNCHANGED gates
  BY <1>8 DEF gates, slotGate, byteGate, StandInv, Settled, StallsLast, FirstRound, Moving,
              Untouched
<1> QED
  BY <1>1, <1>2, <1>3, <1>4, <1>5, <1>6, <1>7, <1>8 DEF GatesNext

(* Whenever the controller rests and somebody waits, somebody runs or is    *)
(* about to exit: workers that hold of one gate what others need of the    *)
(* other never wait for each other for good.                               *)
THEOREM NeverStandoff == GatesSpec => []NoStandoff
<1>1. GatesInit => StandInv
  <2> SUFFICES ASSUME GatesInit PROVE FirstRound
    BY DEF StandInv
  <2>1. todo \in [1 .. Cardinality(Members) -> Members] /\ Cardinality(Members) \in Nat
    BY GatedAssumption, FS_CardinalityType DEF GatesInit, Orders
  <2>2. todo \in Seq(Members)
    BY <2>1
  <2>3. Untouched
    BY DEF GatesInit, Untouched, Cpu!Init, Memory!Init, Cpu!NoReservation, Memory!NoReservation
  <2> QED
    BY <2>2, <2>3 DEF FirstRound
<1>2. AgreeInv /\ LineInv /\ Typed /\ StandInv /\ [GatesNext]_gates => StandInv'
  BY StandStep
<1>3. StandInv => NoStandoff
  BY RestsSettled DEF NoStandoff, Settled, Moving
<1> QED
  BY <1>1, <1>2, <1>3, AlwaysInStep, GatesTyped, PTL DEF GatesSpec
===============================================================================
