------------------------------ MODULE MeterProofs ------------------------------
(***************************************************************************)
(* What a worker measures, for every process and every nesting of          *)
(* fixtures: a window's peak is the largest reading taken in it, and what  *)
(* it counts of others was there shortly before (MemorySampler); the       *)
(* clocks of a set-up count nothing else, and the tests that use a fixture *)
(* are all reported (FixtureTimer).  And what its tests declare covers     *)
(* what they need (Declaring).                                             *)
(***************************************************************************)
EXTENDS FixtureTimer, MemorySampler, Declaring, FiniteSetTheorems, TLAPS

-----------------------------------------------------------------------------
(* The memory sampler.                                                     *)

Readings == [bytes : Int, age : Nat]

(* Sizes are numbers, and so is all that is read.                          *)
Numbers ==
  /\ size \in Int /\ peak \in Int /\ inside \subseteq Readings
  /\ reading \in [{"test", "sampler"} -> Int]

(* The last listing.  As long as it found descendants, the next one is not *)
(* put off.                                                                *)
Listing ==
  /\ below \in Nat /\ children \in Nat /\ age \in Nat /\ every \in Nat
  /\ children # 0 => every = TreeInterval

(* Who holds the lock is in the middle of a reading.                       *)
Locked ==
  /\ lock = "test" <=> thread = "beginning"
  /\ lock = "sampler" <=> sampler = "reading"
  /\ lock \in {Nobody, "test", "sampler"}

(* The largest of what was read in the window is the peak, or what the     *)
(* sampler is about to make it.                                            *)
InWindow == thread \in {"opening", "inside", "ending"}
Kept     == IF sampler = "reading" THEN {peak, reading["sampler"]} ELSE {peak}
ReadAs(n) == \E r \in inside : r.bytes = n

PeakSoFar ==
  /\ thread = "beginning" =>
       ReadAs(reading["test"]) /\ \A r \in inside : r.bytes = reading["test"]
  /\ InWindow =>
       /\ \A m \in Kept : ReadAs(m)
       /\ \A r \in inside : \E m \in Kept : r.bytes <= m

SamplerInv ==
  Numbers /\ Listing /\ Locked /\ PeakSoFar /\ PeakOfItsOwn /\ CountedWhileRecent

(* A reading is a number, counts no descendants that were seen longer ago  *)
(* than tree_interval, and leaves the listing in order.                    *)
LEMMA Reading ==
  ASSUME Numbers, Listing
  PROVE  /\ Now \in Int /\ Taken \in Readings /\ Taken.bytes = Now
         /\ Taken.age < TreeInterval
         /\ List /\ UNCHANGED below => Listing'
<1> USE IntervalAssumption DEF Numbers, Listing, Readings
<1>1. Now \in Int
  BY DEF Now, Due
<1>2. Taken \in Readings /\ Taken.bytes = Now /\ Taken.age < TreeInterval
  BY <1>1 DEF Taken, Due
<1>3. ASSUME List, UNCHANGED below PROVE Listing'
  BY <1>3 DEF List, Due, NextEvery, Lower, listing
<1> QED
  BY <1>1, <1>2, <1>3

(* Every step of the two threads keeps it.                                 *)
LEMMA SamplerStep ==
  ASSUME Sizes \subseteq Int, Totals \subseteq Nat, SamplerInv, [SamplerNext]_(memory)
  PROVE  SamplerInv'
<1> USE DEF SamplerInv, Numbers, Locked, PeakSoFar, InWindow, Kept, ReadAs, PeakOfItsOwn,
            CountedWhileRecent, Higher, Nobody, host, listing
<1>0. /\ Now \in Int /\ Taken \in Readings /\ Taken.bytes = Now /\ Taken.age < TreeInterval
      /\ List /\ UNCHANGED below => Listing'
  BY Reading
<1>1. ASSUME NEW n \in Sizes, NEW m \in Totals, Grow(n, m) PROVE SamplerInv'
  BY <1>1 DEF Grow, Listing
<1>2. CASE Pass
  BY <1>2, IntervalAssumption DEF Pass, Listing
<1>3. CASE BeginWindow
  <2>1. Listing'
    BY <1>0, <1>3 DEF BeginWindow
  <2>2. Numbers' /\ CountedWhileRecent'
    BY <1>0, <1>3 DEF BeginWindow, Readings
  <2>3. Locked'
    BY <1>3 DEF BeginWindow
  <2>4. PeakSoFar' /\ PeakOfItsOwn'
    BY <1>0, <1>3 DEF BeginWindow, Readings
  <2> QED
    BY <2>1, <2>2, <2>3, <2>4
<1>4. CASE BeginSet
  BY <1>4 DEF BeginSet, StartFrom, Listing
<1>5. CASE Open
  BY <1>5 DEF Open, Listing
<1>6. CASE EndClear
  BY <1>6 DEF EndClear, Listing
<1>7. CASE End
  <2>1. Listing'
    BY <1>0, <1>7 DEF End
  <2>2. Numbers' /\ CountedWhileRecent'
    BY <1>0, <1>7 DEF End, Readings
  <2>3. Locked' /\ PeakSoFar'
    BY <1>7 DEF End
  <2>4. PeakOfItsOwn'
    <3>1. \A m \in Kept : m \in Int /\ ReadAs(m)
      BY <1>7 DEF End
    <3>2. \E r \in inside' : r.bytes = Higher(peak, Now)
      BY <1>0, <1>7, <3>1 DEF End
    <3>3. \A r \in inside' : r.bytes <= Higher(peak, Now)
      BY <1>0, <1>7, <3>1 DEF End, Readings
    <3> QED
      BY <1>7, <3>2, <3>3 DEF End
  <2> QED
    BY <2>1, <2>2, <2>3, <2>4
<1>8. CASE Wake
  BY <1>8 DEF Wake, Listing
<1>9. CASE TakeReading
  <2>1. Listing'
    BY <1>0, <1>9 DEF TakeReading
  <2>2. Numbers' /\ CountedWhileRecent'
    BY <1>0, <1>9 DEF TakeReading, Readings
  <2>3. Locked'
    BY <1>9 DEF TakeReading, UnderLock
  <2>4. PeakSoFar' /\ PeakOfItsOwn'
    BY <1>0, <1>9 DEF TakeReading, UnderLock, Readings
  <2> QED
    BY <2>1, <2>2, <2>3, <2>4
<1>10. CASE Keep
  <2>1. peak \in Int /\ reading["sampler"] \in Int /\ \A r \in inside : r.bytes \in Int
    BY DEF Readings
  <2>2. Numbers' /\ Listing' /\ Locked' /\ PeakOfItsOwn' /\ CountedWhileRecent'
    BY <1>10, <2>1 DEF Keep, Listing
  <2>3. thread' # "beginning"
    BY <1>10 DEF Keep
  <2>4. /\ peak' \in Kept /\ Kept' = {peak'} /\ InWindow' = InWindow /\ inside' = inside
        /\ \A m \in Kept : m <= peak'
    BY <1>10, <2>1 DEF Keep
  <2>5. PeakSoFar'
    <3> SUFFICES ASSUME InWindow PROVE (\A m \in Kept : ReadAs(m))'
                                      /\ (\A r \in inside : \E m \in Kept : r.bytes <= m)'
      BY <2>3, <2>4
    <3>1. ReadAs(peak')
      BY <2>4
    <3>2. ASSUME NEW r \in inside PROVE r.bytes <= peak'
      <4>1. PICK m \in Kept : r.bytes <= m
        OBVIOUS
      <4>2. m <= peak' /\ m \in Int /\ peak' \in Int /\ r.bytes \in Int
        BY <2>1, <2>4
      <4> QED
        BY <4>1, <4>2
    <3> QED
      BY <2>4, <3>1, <3>2
  <2> QED
    BY <2>2, <2>5
<1>11. CASE Sleep
  BY <1>11 DEF Sleep, Listing
<1>12. CASE CloseSampler
  BY <1>12 DEF CloseSampler, Listing
<1>13. CASE Joined
  BY <1>13 DEF Joined, Listing
<1>14. CASE UNCHANGED memory
  BY <1>14 DEF memory, Listing
<1> QED
  BY <1>1, <1>2, <1>3, <1>4, <1>5, <1>6, <1>7, <1>8, <1>9, <1>10, <1>11, <1>12, <1>13, <1>14
  DEF SamplerNext

LEMMA SamplerKept ==
  ASSUME Sizes \subseteq Int, Totals \subseteq Nat PROVE SamplerSpec => []SamplerInv
<1>1. SamplerInit => SamplerInv
  BY IntervalAssumption
  DEF SamplerInit, SamplerInv, Numbers, Listing, Locked, PeakSoFar, InWindow, PeakOfItsOwn,
      CountedWhileRecent, Nobody
<1>2. SamplerInv /\ [SamplerNext]_(memory) => SamplerInv'
  BY SamplerStep
<1> QED
  BY <1>1, <1>2, PTL DEF SamplerSpec

(* A window reports the largest of what was read inside it, descendants    *)
(* included, whatever sizes there are and however the two threads' steps   *)
(* fall.                                                                   *)
THEOREM PeaksAreOwn ==
  ASSUME Sizes \subseteq Int, Totals \subseteq Nat PROVE SamplerSpec => []PeakOfItsOwn
<1>1. SamplerInv => PeakOfItsOwn
  BY DEF SamplerInv
<1> QED
  BY <1>1, SamplerKept, PTL

(* What a window counts of the descendants of an earlier test was there    *)
(* less than tree_interval before it was counted, whatever the intervals.  *)
THEOREM AlwaysCountedWhileRecent ==
  ASSUME Sizes \subseteq Int, Totals \subseteq Nat
  PROVE  SamplerSpec => []CountedWhileRecent
<1>1. SamplerInv => CountedWhileRecent
  BY DEF SamplerInv
<1> QED
  BY <1>1, SamplerKept, PTL

-----------------------------------------------------------------------------
(* The fixture timer.                                                      *)

Frames == [key : Fixtures, before : SUBSET Fixtures, nested : Int, started : Int,
           workStarted : Int]

Truths == [time : [Fixtures -> Int], work : Int, needs : [Fixtures -> SUBSET Fixtures],
           first : [Fixtures -> SUBSET Fixtures]]

(* The clocks count, and keys are fixtures.                                *)
Clocks ==
  /\ timer \in Int /\ work \in Int /\ wait \in Int /\ waitWork \in Int /\ setupWork \in Int
  /\ stack \in Seq(Frames)
  /\ cached \subseteq Fixtures /\ resolved \subseteq Fixtures
  /\ setups \in [Fixtures -> Int] /\ dynamic \in [Fixtures -> SUBSET Fixtures]
  /\ truth \in Truths

IsOpen(f) == \E i \in DOMAIN stack : stack[i].key = f

(* A set-up is open once, before its instance is cached, and recorded      *)
(* after.                                                                  *)
OpenOnce ==
  /\ \A i, j \in DOMAIN stack : stack[i].key = stack[j].key => i = j
  /\ \A f \in cached : ~IsOpen(f)
  /\ \A f \in Fixtures : setups[f] # None => f \in cached

(* Where the timer of the i-th set-up stands: where the next one started,  *)
(* or, for the innermost, now.                                             *)
Stands(i) == IF i = Len(stack) THEN timer - wait ELSE stack[i + 1].started

OwnTime ==
  /\ \A i \in DOMAIN stack :
       truth.time[stack[i].key] = Stands(i) - stack[i].started - stack[i].nested
  /\ OwnTimeRecorded

(* The work since the outermost set-up began is still to be counted.       *)
OwnWork ==
  IF stack = <<>> THEN setupWork = truth.work
  ELSE /\ work - waitWork >= stack[1].workStarted
       /\ setupWork + (work - waitWork - stack[1].workStarted) = truth.work

(* What an open set-up was first to ask for is resolved since it began, or *)
(* being set up.                                                           *)
AskedSince(i) ==
  \A f \in truth.first[stack[i].key] :
    /\ f \notin stack[i].before
    /\ f \in resolved \/ (i # Len(stack) /\ stack[i + 1].key = f)

FirstRecorded ==
  /\ \A i \in DOMAIN stack : stack[i].before \subseteq resolved /\ AskedSince(i)
  /\ \A f \in Fixtures : ~IsOpen(f) => truth.first[f] \subseteq dynamic[f]

TimerInv == Clocks /\ OpenOnce /\ OwnTime /\ OwnWork /\ FirstRecorded

(* What Append and SubSeq make of a stack.                                 *)
LEMMA Pushed ==
  ASSUME NEW S, NEW s \in Seq(S), NEW e \in S
  PROVE  /\ Append(s, e) \in Seq(S) /\ Len(Append(s, e)) = Len(s) + 1
         /\ DOMAIN Append(s, e) = 1 .. Len(s) + 1
         /\ Append(s, e)[Len(s) + 1] = e
         /\ \A i \in 1 .. Len(s) : Append(s, e)[i] = s[i]
         /\ Append(s, e) # <<>> /\ DOMAIN s = 1 .. Len(s) /\ Len(s) \in Nat
OBVIOUS

(* An interval from 1 is no longer than it ends.                           *)
LEMMA SameEnd ==
  ASSUME NEW a \in Nat, NEW b \in Nat, 1 .. a = 1 .. b
  PROVE  a = b
<1>1. a # 0 => a \in 1 .. b
  OBVIOUS
<1>2. b # 0 => b \in 1 .. a
  OBVIOUS
<1> QED
  BY <1>1, <1>2

(* And SubSeq, of one that is not empty.                                   *)
LEMMA Popped ==
  ASSUME NEW S, NEW s \in Seq(S), s # <<>>
  PROVE  LET q == SubSeq(s, 1, Len(s) - 1)
         IN  /\ q \in Seq(S) /\ Len(q) = Len(s) - 1 /\ Len(s) \in Nat \ {0}
             /\ DOMAIN q = 1 .. Len(s) - 1 /\ DOMAIN s = 1 .. Len(s)
             /\ \A i \in 1 .. Len(s) - 1 : q[i] = s[i]
             /\ q = <<>> <=> Len(s) = 1
             /\ s[Len(s)] \in S
<1>1. Len(s) \in Nat \ {0} /\ DOMAIN s = 1 .. Len(s)
  OBVIOUS
<1> DEFINE q == SubSeq(s, 1, Len(s) - 1)
<1>2. q = [i \in 1 .. Len(s) - 1 |-> s[i]]
  BY <1>1
<1>3. Len(s) - 1 \in Nat /\ \A i \in 1 .. Len(s) - 1 : s[i] \in S
  BY <1>1
<1>4. q \in Seq(S)
  BY <1>2, <1>3
<1>5. Len(q) = Len(s) - 1 /\ DOMAIN q = 1 .. Len(s) - 1
  <2>1. DOMAIN q = 1 .. Len(s) - 1
    BY <1>2
  <2>2. DOMAIN q = 1 .. Len(q) /\ Len(q) \in Nat
    BY <1>4
  <2> QED
    BY <1>3, <2>1, <2>2, SameEnd
<1>6. q = <<>> <=> Len(s) = 1
  BY <1>1, <1>4, <1>5
<1> QED
  BY <1>1, <1>2, <1>3, <1>4, <1>5, <1>6

(* The set-ups that are open are of fixtures, and the innermost is one.    *)
LEMMA OpenKeys ==
  ASSUME Clocks
  PROVE  /\ DOMAIN stack = 1 .. Len(stack) /\ Len(stack) \in Nat
         /\ \A i \in DOMAIN stack : stack[i] \in Frames /\ stack[i].key \in Fixtures
         /\ stack # <<>> => Len(stack) \in DOMAIN stack
<1>1. stack \in Seq(Frames)
  BY DEF Clocks
<1>2. /\ DOMAIN stack = 1 .. Len(stack) /\ Len(stack) \in Nat
      /\ \A i \in DOMAIN stack : stack[i] \in Frames
  BY <1>1
<1>3. stack # <<>> => Len(stack) # 0
  BY <1>1
<1> QED
  BY <1>2, <1>3 DEF Frames

(* A new test, of a worker with no set-up open.                            *)
LEMMA SetupKeeps ==
  ASSUME TimerInv, RuntestSetup
  PROVE  TimerInv'
<1>1. /\ stack = <<>> /\ stack' = <<>> /\ resolved' = {} /\ cached' \subseteq cached
      /\ setups' = [f \in Fixtures |-> None] /\ dynamic' = dynamic /\ timer' = timer
      /\ work' = work /\ setupWork' = 0 /\ wait' = 0 /\ waitWork' = 0
      /\ truth' = [truth EXCEPT !.time = [f \in Fixtures |-> None], !.work = 0]
  BY DEF RuntestSetup
<1>2. truth'.first = truth.first /\ truth'.work = 0 /\ truth' \in Truths
  <2>1. truth \in Truths /\ [f \in Fixtures |-> None] \in [Fixtures -> Int] /\ 0 \in Int
    BY DEF TimerInv, Clocks, None
  <2> QED
    BY <1>1, <2>1 DEF Truths
<1>3. Clocks'
  BY <1>1, <1>2 DEF TimerInv, Clocks, None
<1>4. OpenOnce'
  BY <1>1 DEF OpenOnce, IsOpen, None
<1>5. OwnTime'
  BY <1>1 DEF OwnTime, OwnTimeRecorded, None
<1>6. OwnWork'
  BY <1>1, <1>2 DEF OwnWork
<1>7. FirstRecorded'
  BY <1>1, <1>2 DEF TimerInv, FirstRecorded, IsOpen
<1> QED
  BY <1>3, <1>4, <1>5, <1>6, <1>7 DEF TimerInv

(* What asking for a fixture notes down: nothing but what the innermost    *)
(* set-up asked for.                                                       *)
LEMMA Asking ==
  ASSUME Clocks, NEW f \in Fixtures
  PROVE  /\ AskedFor(f) \in Truths
         /\ AskedFor(f).time = truth.time /\ AskedFor(f).work = truth.work
         /\ stack = <<>> => AskedFor(f) = truth
         /\ stack # <<>> =>
              /\ Top \in Frames
              /\ \A g \in Fixtures \ {Top.key} : AskedFor(f).first[g] = truth.first[g]
              /\ AskedFor(f).first[Top.key] \subseteq
                   truth.first[Top.key] \union ({f} \ resolved)
<1>1. CASE stack = <<>>
  BY <1>1 DEF AskedFor, Clocks
<1>2. CASE stack # <<>>
  <2>1. Top \in Frames
    BY <1>2, Popped DEF Clocks, Top
  <2>2. Top.key \in Fixtures
    BY <2>1 DEF Frames
  <2> DEFINE k == Top.key
  <2>3. AskedFor(f) = [truth EXCEPT !.needs[k] = @ \union {f},
                         !.first[k] = IF f \in resolved THEN @ ELSE @ \union {f}]
    BY <1>2 DEF AskedFor
  <2>4. truth \in Truths
    BY DEF Clocks
  <2> HIDE DEF k
  <2>5. k \in Fixtures
    BY <2>2 DEF k
  <2> DEFINE needs == [truth.needs EXCEPT ![k] = @ \union {f}]
             first == [truth.first EXCEPT
                         ![k] = IF f \in resolved THEN @ ELSE @ \union {f}]
  <2>6. AskedFor(f) = [time |-> truth.time, work |-> truth.work, needs |-> needs,
                       first |-> first]
    BY <2>3, <2>4 DEF Truths
  <2>7. /\ truth.time \in [Fixtures -> Int] /\ truth.work \in Int
        /\ truth.needs \in [Fixtures -> SUBSET Fixtures]
        /\ truth.first \in [Fixtures -> SUBSET Fixtures]
    BY <2>4 DEF Truths
  <2>8. needs \in [Fixtures -> SUBSET Fixtures] /\ first \in [Fixtures -> SUBSET Fixtures]
    BY <2>5, <2>7
  <2>9. /\ \A g \in Fixtures \ {k} : first[g] = truth.first[g]
        /\ first[k] \subseteq truth.first[k] \union ({f} \ resolved)
    BY <2>5, <2>7
  <2> HIDE DEF needs, first
  <2>10. AskedFor(f) \in Truths /\ AskedFor(f).time = truth.time
         /\ AskedFor(f).work = truth.work /\ AskedFor(f).first = first
    BY <2>6, <2>7, <2>8 DEF Truths
  <2> QED
    BY <1>2, <2>1, <2>9, <2>10 DEF k
<1> QED
  BY <1>1, <1>2

(* The request finds what there is.                                        *)
LEMMA FindKeeps ==
  ASSUME TimerInv, NEW f \in Fixtures, Find(f)
  PROVE  TimerInv'
<1>1. /\ stack' = stack /\ resolved' = resolved \union {f} /\ cached' = cached
      /\ setups' = setups /\ dynamic' = dynamic /\ timer' = timer /\ work' = work
      /\ setupWork' = setupWork /\ wait' = wait /\ waitWork' = waitWork
      /\ truth' = AskedFor(f)
  BY DEF Find
<1>2. /\ truth' \in Truths
      /\ truth'.time = truth.time /\ truth'.work = truth.work
  BY <1>1, Asking DEF TimerInv
<1>3. Clocks'
  BY <1>1, <1>2 DEF TimerInv, Clocks
<1>4. OpenOnce'
  BY <1>1 DEF TimerInv, OpenOnce, IsOpen
<1>5. OwnTime'
  BY <1>1, <1>2 DEF TimerInv, OwnTime, OwnTimeRecorded, Stands
<1>6. OwnWork'
  BY <1>1, <1>2 DEF TimerInv, OwnWork
<1>7. FirstRecorded'
  <2>1. CASE stack = <<>>
    BY <1>1, <2>1, Asking DEF TimerInv, FirstRecorded, IsOpen
  <2>2. CASE stack # <<>>
    <3>1. /\ Top = stack[Len(stack)] /\ Len(stack) \in DOMAIN stack
          /\ \A i \in DOMAIN stack : stack[i].key \in Fixtures
      BY <2>2, OpenKeys DEF TimerInv, Top
    <3>2. /\ \A g \in Fixtures \ {Top.key} : truth'.first[g] = truth.first[g]
          /\ truth'.first[Top.key] \subseteq truth.first[Top.key] \union ({f} \ resolved)
      BY <1>1, <2>2, Asking DEF TimerInv
    <3>3. ASSUME NEW i \in DOMAIN stack PROVE stack[i].before \subseteq resolved' /\ AskedSince(i)'
      <4>1. CASE stack[i].key = Top.key
        BY <1>1, <3>1, <3>2, <4>1 DEF TimerInv, FirstRecorded, AskedSince, OpenOnce
      <4>2. CASE stack[i].key # Top.key
        BY <1>1, <3>1, <3>2, <4>2 DEF TimerInv, FirstRecorded, AskedSince
      <4> QED
        BY <4>1, <4>2
    <3>4. ASSUME NEW g \in Fixtures, ~IsOpen(g)' PROVE truth'.first[g] \subseteq dynamic'[g]
      BY <1>1, <3>1, <3>2, <3>4 DEF TimerInv, FirstRecorded, IsOpen
    <3> QED
      BY <1>1, <3>3, <3>4 DEF FirstRecorded
  <2> QED
    BY <2>1, <2>2
<1> QED
  BY <1>3, <1>4, <1>5, <1>6, <1>7 DEF TimerInv

(* A set-up begins: it is on top of the one that asked for it.             *)
LEMMA BeginKeeps ==
  ASSUME TimerInv, NEW f \in Fixtures, FixtureSetup(f)
  PROVE  TimerInv'
<1> DEFINE n == Len(stack)
           e == [key |-> f, before |-> resolved, nested |-> 0, started |-> timer - wait,
                 workStarted |-> work - waitWork]
<1>1. /\ stack' = Append(stack, e) /\ resolved' = resolved /\ cached' = cached
      /\ setups' = setups /\ dynamic' = dynamic /\ timer' = timer /\ work' = work
      /\ setupWork' = setupWork /\ wait' = wait /\ waitWork' = waitWork
      /\ truth' = [AskedFor(f) EXCEPT !.time[f] = 0, !.needs[f] = {}, !.first[f] = {}]
      /\ f \notin cached /\ \A i \in DOMAIN stack : stack[i].key # f
  BY DEF FixtureSetup
<1>2. Clocks
  BY DEF TimerInv
<1>3. /\ AskedFor(f) \in Truths
      /\ AskedFor(f).time = truth.time /\ AskedFor(f).work = truth.work
  BY <1>2, Asking
<1>4. /\ truth' \in Truths /\ truth'.work = truth.work
      /\ \A g \in Fixtures \ {f} : /\ truth'.time[g] = truth.time[g]
                                   /\ truth'.first[g] = AskedFor(f).first[g]
      /\ truth'.time[f] = 0 /\ truth'.first[f] = {}
  <2> DEFINE a == AskedFor(f)
  <2>1. a \in Truths
    BY <1>3
  <2> HIDE DEF a
  <2>2. /\ a.time \in [Fixtures -> Int] /\ a.work \in Int
        /\ a.needs \in [Fixtures -> SUBSET Fixtures] /\ a.first \in [Fixtures -> SUBSET Fixtures]
    BY <2>1 DEF Truths
  <2>3. truth' = [time |-> [a.time EXCEPT ![f] = 0], work |-> a.work,
                  needs |-> [a.needs EXCEPT ![f] = {}], first |-> [a.first EXCEPT ![f] = {}]]
    BY <1>1, <2>1 DEF Truths, a
  <2>4. /\ [a.time EXCEPT ![f] = 0] \in [Fixtures -> Int]
        /\ [a.needs EXCEPT ![f] = {}] \in [Fixtures -> SUBSET Fixtures]
        /\ [a.first EXCEPT ![f] = {}] \in [Fixtures -> SUBSET Fixtures]
    BY <2>2
  <2>5. truth' \in Truths
    BY <2>2, <2>3, <2>4 DEF Truths
  <2>6. /\ truth'.time = [a.time EXCEPT ![f] = 0] /\ truth'.work = a.work
        /\ truth'.first = [a.first EXCEPT ![f] = {}]
    BY <2>3
  <2> QED
    BY <1>3, <2>2, <2>5, <2>6 DEF a
<1>5. /\ e \in Frames /\ e.key = f /\ e.before = resolved /\ e.nested = 0
      /\ e.started = timer - wait /\ e.workStarted = work - waitWork
  BY <1>2 DEF Clocks, Frames
<1> HIDE DEF e
<1>6. /\ DOMAIN stack = 1 .. n /\ n \in Nat
      /\ \A i \in DOMAIN stack : stack[i] \in Frames /\ stack[i].key \in Fixtures
      /\ stack # <<>> => n \in DOMAIN stack
  BY <1>2, OpenKeys
<1>7. /\ stack' \in Seq(Frames) /\ Len(stack') = n + 1 /\ DOMAIN stack' = 1 .. n + 1
      /\ stack'[n + 1] = e /\ \A i \in 1 .. n : stack'[i] = stack[i]
      /\ stack' # <<>>
  BY <1>1, <1>2, <1>5, Pushed DEF Clocks
<1>8. Clocks'
  BY <1>1, <1>2, <1>4, <1>7 DEF Clocks
<1>9. OpenOnce'
  <2>1. \A i, j \in DOMAIN stack' : stack'[i].key = stack'[j].key => i = j
    BY <1>1, <1>5, <1>6, <1>7 DEF TimerInv, OpenOnce
  <2>2. \A g \in cached' : ~IsOpen(g)'
    BY <1>1, <1>5, <1>6, <1>7 DEF TimerInv, OpenOnce, IsOpen
  <2> QED
    BY <1>1, <2>1, <2>2 DEF TimerInv, OpenOnce
<1>10. OwnTime'
  <2>1. ASSUME NEW i \in DOMAIN stack'
        PROVE  truth'.time[stack'[i].key] = Stands(i)' - stack'[i].started - stack'[i].nested
    <3>1. CASE i = n + 1
      BY <1>1, <1>2, <1>4, <1>5, <1>7, <3>1 DEF Stands, Clocks
    <3>2. CASE i # n + 1
      <4>1. i \in DOMAIN stack /\ stack'[i] = stack[i] /\ stack[i].key \in Fixtures \ {f}
        BY <1>1, <1>6, <1>7, <3>2
      <4>2. Stands(i)' = Stands(i)
        BY <1>1, <1>5, <1>6, <1>7, <3>2, <4>1 DEF Stands
      <4> QED
        BY <1>4, <4>1, <4>2 DEF TimerInv, OwnTime
    <3> QED
      BY <3>1, <3>2
  <2>2. OwnTimeRecorded'
    BY <1>1, <1>4 DEF TimerInv, OwnTime, OwnTimeRecorded, OpenOnce
  <2> QED
    BY <2>1, <2>2 DEF OwnTime
<1>11. OwnWork'
  <2>1. CASE stack = <<>>
    <3>1. stack'[1] = e
      BY <1>7, <2>1
    <3> QED
      BY <1>1, <1>2, <1>4, <1>5, <1>7, <2>1, <3>1 DEF TimerInv, OwnWork, Clocks
  <2>2. CASE stack # <<>>
    <3>1. stack'[1] = stack[1]
      BY <1>6, <1>7, <2>2
    <3> QED
      BY <1>1, <1>4, <1>7, <2>2, <3>1 DEF TimerInv, OwnWork
  <2> QED
    BY <2>1, <2>2
<1>12. FirstRecorded'
  <2>1. ASSUME NEW i \in DOMAIN stack' PROVE stack'[i].before \subseteq resolved' /\ AskedSince(i)'
    <3>1. CASE i = n + 1
      BY <1>1, <1>4, <1>5, <1>7, <3>1 DEF AskedSince
    <3>2. CASE i # n + 1
      <4>1. i \in DOMAIN stack /\ stack'[i] = stack[i] /\ stack[i].key \in Fixtures \ {f}
        BY <1>1, <1>6, <1>7, <3>2
      <4>2. stack # <<>> /\ Top = stack[n] /\ n \in DOMAIN stack
        BY <1>6, <4>1 DEF Top
      <4>3. stack[i].before \subseteq resolved /\ AskedSince(i)
        BY <4>1 DEF TimerInv, FirstRecorded
      <4>4. CASE i = n
        <5>1. truth'.first[stack[i].key] \subseteq
                truth.first[stack[i].key] \union ({f} \ resolved)
          BY <1>2, <1>4, <4>1, <4>2, <4>4, Asking
        <5>2. Len(stack') = i + 1 /\ stack'[i + 1].key = f /\ i # Len(stack') /\ i \in Nat
          <6>1. stack'[n + 1].key = f /\ Len(stack') = n + 1 /\ n \in Nat
            BY <1>5, <1>6, <1>7
          <6> QED
            BY <4>4, <6>1
        <5>3. ASSUME NEW g \in truth'.first[stack[i].key]
              PROVE  /\ g \notin stack[i].before
                     /\ g \in resolved \/ g = f
          BY <4>3, <4>4, <5>1, <5>3 DEF AskedSince
        <5> QED
          BY <1>1, <4>1, <4>3, <5>2, <5>3 DEF AskedSince
      <4>5. CASE i # n
        <5>1. stack[i].key # Top.key
          BY <4>1, <4>2, <4>5 DEF TimerInv, OpenOnce
        <5>2. truth'.first[stack[i].key] = truth.first[stack[i].key]
          BY <1>2, <1>4, <4>1, <4>2, <5>1, Asking
        <5> QED
          BY <1>1, <1>6, <1>7, <4>1, <4>3, <4>5, <5>2 DEF AskedSince
      <4> QED
        BY <4>4, <4>5
    <3> QED
      BY <3>1, <3>2
  <2>2. ASSUME NEW g \in Fixtures, ~IsOpen(g)' PROVE truth'.first[g] \subseteq dynamic'[g]
    <3>1. g # f /\ ~IsOpen(g)
      BY <1>5, <1>6, <1>7, <2>2 DEF IsOpen
    <3>2. truth'.first[g] = truth.first[g]
      BY <1>2, <1>4, <1>6, <3>1, Asking DEF IsOpen, Top
    <3> QED
      BY <1>1, <3>1, <3>2 DEF TimerInv, FirstRecorded
  <2> QED
    BY <2>1, <2>2 DEF FirstRecorded
<1> QED
  BY <1>8, <1>9, <1>10, <1>11, <1>12 DEF TimerInv

(* A set-up ends or raises, and hands its time to the one around it.       *)
LEMMA DoneKeeps ==
  ASSUME TimerInv, FixtureDone \/ FixtureRaised
  PROVE  TimerInv'
<1> DEFINE n == Len(stack)
           k == Top.key
           spent == BodySeconds
<1>1. /\ stack # <<>> /\ cached' = cached \union {k}
      /\ setups' = [setups EXCEPT ![k] = spent - Top.nested]
      /\ dynamic' = [dynamic EXCEPT ![k] = resolved \ Top.before]
      /\ stack' = IF Pop = <<>> THEN <<>> ELSE [Pop EXCEPT ![Len(Pop)].nested = @ + spent]
      /\ setupWork' = IF Pop = <<>>
                      THEN setupWork + Larger(0, work - waitWork - Top.workStarted)
                      ELSE setupWork
      /\ timer' = timer /\ work' = work /\ wait' = wait /\ waitWork' = waitWork
  BY DEF FixtureDone, FixtureRaised, Measured, Outermost, Pulled
<1>2. Clocks
  BY DEF TimerInv
<1>3. /\ DOMAIN stack = 1 .. n /\ n \in Nat \ {0}
      /\ \A i \in DOMAIN stack : stack[i] \in Frames /\ stack[i].key \in Fixtures
      /\ n \in DOMAIN stack /\ Top = stack[n]
  BY <1>1, <1>2, OpenKeys DEF Top
<1>4. /\ k \in Fixtures /\ spent \in Int /\ spent = timer - wait - stack[n].started
      /\ Top \in Frames
  <2>1. Top \in Frames /\ stack[n] = Top
    BY <1>3
  <2>2. Top.started \in Int /\ Top.key \in Fixtures
    BY <2>1 DEF Frames
  <2>3. timer \in Int /\ wait \in Int
    BY <1>2 DEF Clocks
  <2>4. spent = timer - wait - Top.started
    BY DEF BodySeconds
  <2> QED
    BY <2>1, <2>2, <2>3, <2>4
<1>5. /\ Pop \in Seq(Frames) /\ Len(Pop) = n - 1 /\ DOMAIN Pop = 1 .. n - 1
      /\ \A i \in 1 .. n - 1 : Pop[i] = stack[i]
      /\ Pop = <<>> <=> n = 1
  BY <1>1, <1>2, Popped DEF Clocks, Pop
<1>6. /\ stack' \in Seq(Frames) /\ Len(stack') = n - 1 /\ DOMAIN stack' = 1 .. n - 1
      /\ \A i \in 1 .. n - 1 :
           /\ stack'[i].key = stack[i].key /\ stack'[i].before = stack[i].before
           /\ stack'[i].started = stack[i].started
           /\ stack'[i].workStarted = stack[i].workStarted
           /\ stack'[i].nested = IF i = n - 1 THEN stack[i].nested + spent ELSE stack[i].nested
      /\ stack' = <<>> <=> n = 1
  <2> HIDE DEF n, spent, k
  <2>1. CASE Pop = <<>>
    BY <1>1, <1>3, <1>5, <2>1
  <2>2. CASE Pop # <<>>
    <3>1. PICK m \in Nat : m = n - 1 /\ m # 0
      BY <1>3, <1>5, <2>2
    <3>2. stack' = [Pop EXCEPT ![m] = [Pop[m] EXCEPT !.nested = @ + spent]]
      BY <1>1, <1>5, <2>2, <3>1
    <3>3. /\ Pop[m] \in Frames /\ [Pop[m] EXCEPT !.nested = @ + spent] \in Frames
          /\ DOMAIN Pop = 1 .. m
      <4>1. Pop[m] \in Frames /\ DOMAIN Pop = 1 .. m
        BY <1>5, <3>1
      <4>2. Pop[m].nested + spent \in Int
        BY <1>4, <4>1 DEF Frames
      <4> QED
        BY <4>1, <4>2 DEF Frames
    <3>4. /\ stack' \in Seq(Frames) /\ DOMAIN stack' = 1 .. m /\ Len(stack') = m
          /\ \A i \in 1 .. m : stack'[i] = IF i = m THEN [Pop[m] EXCEPT !.nested = @ + spent]
                                           ELSE Pop[i]
      BY <1>5, <3>1, <3>2, <3>3
    <3>5. \A i \in 1 .. m : Pop[i] = stack[i] /\ Pop[i] \in Frames
      BY <1>5, <3>1
    <3>6. ASSUME NEW i \in 1 .. m
          PROVE  /\ stack'[i].key = stack[i].key /\ stack'[i].before = stack[i].before
                 /\ stack'[i].started = stack[i].started
                 /\ stack'[i].workStarted = stack[i].workStarted
                 /\ stack'[i].nested = IF i = m THEN stack[i].nested + spent ELSE stack[i].nested
      <4>1. Pop[i] = stack[i] /\ Pop[i] \in Frames
        BY <3>5
      <4>2. CASE i = m
        <5>1. stack'[i] = [Pop[i] EXCEPT !.nested = @ + spent]
          BY <3>4, <4>2
        <5> QED
          BY <4>1, <4>2, <5>1 DEF Frames
      <4>3. CASE i # m
        BY <3>4, <4>1, <4>3
      <4> QED
        BY <4>2, <4>3
    <3> QED
      BY <1>5, <2>2, <3>1, <3>4, <3>6
  <2> QED
    BY <2>1, <2>2
<1>13. /\ resolved \subseteq resolved' /\ resolved' \subseteq Fixtures
       /\ truth' \in Truths /\ truth'.time = truth.time /\ truth'.work = truth.work
       /\ \A g \in Fixtures : truth'.first[g] \subseteq truth.first[g]
       /\ \/ k \in resolved'
          \/ \A i \in DOMAIN stack : i = n - 1 => k \notin truth'.first[stack[i].key]
  <2> HIDE DEF n, spent, k
  <2>1. truth \in Truths /\ resolved \subseteq Fixtures
    BY <1>2 DEF Clocks
  <2>2. CASE FixtureDone
    BY <1>4, <2>1, <2>2 DEF FixtureDone, k
  <2>3. CASE FixtureRaised /\ Pop = <<>>
    <3>1. truth' = truth /\ resolved' = resolved
      BY <2>3 DEF FixtureRaised
    <3>2. n = 1
      BY <1>5, <2>3
    <3> QED
      BY <1>3, <2>1, <3>1, <3>2
  <2>4. CASE FixtureRaised /\ Pop # <<>>
    <3> DEFINE asker == Pop[Len(Pop)].key
    <3>1. /\ resolved' = resolved
          /\ truth' = [truth EXCEPT !.needs[asker] = @ \ {k}, !.first[asker] = @ \ {k}]
      BY <2>4 DEF FixtureRaised, k
    <3>2. asker \in Fixtures /\ asker = stack[n - 1].key
      <4>1. n - 1 \in 1 .. n - 1 /\ Len(Pop) = n - 1
        BY <1>3, <1>5, <2>4
      <4> QED
        BY <1>3, <1>5, <4>1
    <3> HIDE DEF asker
    <3> DEFINE needs == [truth.needs EXCEPT ![asker] = @ \ {k}]
               first == [truth.first EXCEPT ![asker] = @ \ {k}]
    <3>3. /\ truth.time \in [Fixtures -> Int] /\ truth.work \in Int
          /\ truth.needs \in [Fixtures -> SUBSET Fixtures]
          /\ truth.first \in [Fixtures -> SUBSET Fixtures]
      BY <2>1 DEF Truths
    <3>4. truth' = [time |-> truth.time, work |-> truth.work, needs |-> needs, first |-> first]
      BY <2>1, <3>1 DEF Truths
    <3>5. needs \in [Fixtures -> SUBSET Fixtures] /\ first \in [Fixtures -> SUBSET Fixtures]
      BY <3>2, <3>3
    <3>6. (\A g \in Fixtures : first[g] \subseteq truth.first[g]) /\ k \notin first[asker]
      BY <3>2, <3>3
    <3> HIDE DEF needs, first
    <3>7. /\ truth' \in Truths /\ truth'.time = truth.time /\ truth'.work = truth.work
          /\ truth'.first = first
      BY <3>3, <3>4, <3>5 DEF Truths
    <3> QED
      BY <2>1, <3>1, <3>2, <3>6, <3>7
  <2> QED
    BY <2>2, <2>3, <2>4
<1> HIDE DEF n, k, spent
<1>7. Clocks'
  <2>1. /\ k \in Fixtures /\ Top.nested \in Int /\ Top.workStarted \in Int
        /\ spent - Top.nested \in Int
    BY <1>4 DEF Frames
  <2>2. setups' \in [Fixtures -> Int] /\ dynamic' \in [Fixtures -> SUBSET Fixtures]
    BY <1>1, <1>2, <2>1 DEF Clocks
  <2>3. setupWork' \in Int
    BY <1>1, <1>2, <2>1 DEF Clocks, Larger
  <2> QED
    BY <1>1, <1>2, <1>6, <1>13, <2>1, <2>2, <2>3 DEF Clocks
<1>8. \A i \in 1 .. n - 1 : i \in DOMAIN stack /\ i # n /\ stack[i].key # k
  BY <1>3 DEF TimerInv, OpenOnce, k
<1>9. OpenOnce'
  <2>1. \A i, j \in DOMAIN stack' : stack'[i].key = stack'[j].key => i = j
    BY <1>3, <1>6 DEF TimerInv, OpenOnce
  <2>2. ASSUME NEW g \in cached', NEW i \in DOMAIN stack' PROVE stack'[i].key # g
    <3>1. i \in DOMAIN stack /\ stack'[i].key = stack[i].key /\ stack[i].key # k
      BY <1>6, <1>8
    <3> QED
      BY <1>1, <3>1 DEF TimerInv, OpenOnce, IsOpen
  <2>3. \A g \in Fixtures : setups'[g] # None => g \in cached'
    BY <1>1, <1>2, <1>4 DEF TimerInv, OpenOnce, Clocks
  <2> QED
    BY <2>1, <2>2, <2>3 DEF OpenOnce, IsOpen
<1>10. OwnTime'
  <2>1. truth.time[k] = spent - Top.nested
    BY <1>2, <1>3, <1>4 DEF TimerInv, OwnTime, Stands, n, k, Clocks, Frames
  <2>2. OwnTimeRecorded'
    BY <1>1, <1>2, <1>13, <2>1 DEF TimerInv, OwnTime, OwnTimeRecorded, Clocks
  <2>3. ASSUME NEW i \in DOMAIN stack'
        PROVE  truth'.time[stack'[i].key] = Stands(i)' - stack'[i].started - stack'[i].nested
    <3>1. /\ i \in 1 .. n - 1 /\ i \in DOMAIN stack /\ i # n
          /\ stack[i].started \in Int /\ stack[i].nested \in Int
          /\ i + 1 \in DOMAIN stack /\ stack[i + 1].started \in Int
      <4>1. i \in 1 .. n - 1 /\ i \in DOMAIN stack /\ i # n /\ i + 1 \in DOMAIN stack
        BY <1>3, <1>6, <1>8, <2>3
      <4>2. stack[i] \in Frames /\ stack[i + 1] \in Frames
        BY <1>3, <4>1
      <4> QED
        BY <4>1, <4>2 DEF Frames
    <3>2. truth.time[stack[i].key] = stack[i + 1].started - stack[i].started - stack[i].nested
      BY <3>1 DEF TimerInv, OwnTime, Stands, n
    <3>3. CASE i = n - 1
      <4>1. Stands(i)' = timer - wait /\ i + 1 = n
        BY <1>1, <1>3, <1>6, <3>3 DEF Stands
      <4>2. timer \in Int /\ wait \in Int
        BY <1>2 DEF Clocks
      <4>3. /\ stack[i + 1].started = stack[n].started
            /\ stack'[i].nested = stack[i].nested + spent
            /\ stack'[i].started = stack[i].started /\ stack'[i].key = stack[i].key
        BY <1>6, <3>1, <3>3, <4>1
      <4>4. truth'.time[stack'[i].key] = truth.time[stack[i].key]
        BY <1>13, <4>3
      <4>5. spent = timer - wait - stack[i + 1].started /\ spent \in Int
        BY <1>4, <4>1, <4>3
      <4> QED
        BY <3>1, <3>2, <4>1, <4>2, <4>3, <4>4, <4>5
    <3>4. CASE i # n - 1
      <4>1. Stands(i)' = stack[i + 1].started
        BY <1>3, <1>6, <3>1, <3>4 DEF Stands
      <4>2. /\ stack'[i].nested = stack[i].nested
            /\ stack'[i].started = stack[i].started /\ stack'[i].key = stack[i].key
        BY <1>6, <3>1, <3>4
      <4>3. truth'.time[stack'[i].key] = truth.time[stack[i].key]
        BY <1>13, <4>2
      <4> QED
        BY <3>2, <4>1, <4>2, <4>3
    <3> QED
      BY <3>3, <3>4
  <2> QED
    BY <2>2, <2>3 DEF OwnTime
<1>11. OwnWork'
  <2>1. CASE n = 1
    <3>1. stack' = <<>> /\ Pop = <<>> /\ Top = stack[1] /\ truth'.work = truth.work
      BY <1>1, <1>3, <1>5, <1>6, <1>13, <2>1
    <3>2. setupWork' = setupWork + Larger(0, work - waitWork - Top.workStarted)
      BY <1>1, <3>1
    <3>3. /\ work - waitWork >= Top.workStarted
          /\ setupWork + (work - waitWork - Top.workStarted) = truth.work
      BY <1>1, <3>1 DEF TimerInv, OwnWork
    <3>4. /\ work \in Int /\ waitWork \in Int /\ setupWork \in Int
          /\ Top.workStarted \in Int
      BY <1>2, <1>4 DEF Clocks, Frames
    <3>5. Larger(0, work - waitWork - Top.workStarted) = work - waitWork - Top.workStarted
      BY <3>3, <3>4 DEF Larger
    <3>6. setupWork' = truth'.work
      BY <3>1, <3>2, <3>3, <3>5
    <3> QED
      BY <3>1, <3>6 DEF OwnWork
  <2>2. CASE n # 1
    <3>1. stack'[1].workStarted = stack[1].workStarted
      BY <1>3, <1>6, <2>2
    <3> QED
      BY <1>1, <1>5, <1>6, <1>13, <2>2, <3>1 DEF TimerInv, OwnWork
  <2> QED
    BY <2>1, <2>2
<1>12. FirstRecorded'
  <2>1. ASSUME NEW i \in DOMAIN stack'
        PROVE  stack'[i].before \subseteq resolved' /\ AskedSince(i)'
    <3>1. /\ i \in 1 .. n - 1 /\ i \in DOMAIN stack /\ i # n
          /\ stack'[i].key = stack[i].key /\ stack'[i].before = stack[i].before
      BY <1>6, <1>8, <2>1
    <3>2. stack[i].before \subseteq resolved /\ AskedSince(i)
      BY <3>1 DEF TimerInv, FirstRecorded
    <3>3. ASSUME NEW g \in truth'.first[stack'[i].key]
          PROVE  /\ g \notin stack'[i].before
                 /\ g \in resolved' \/ (i # Len(stack') /\ stack'[i + 1].key = g)
      <4>1. /\ g \in truth'.first[stack[i].key]
            /\ g \notin stack[i].before /\ (g \in resolved \/ stack[i + 1].key = g)
        BY <1>3, <1>13, <3>1, <3>2, <3>3 DEF AskedSince
      <4>2. CASE i = n - 1
        <5>1. stack[i + 1].key = k
          BY <1>3, <4>2 DEF k
        <5> QED
          BY <1>13, <3>1, <4>1, <4>2, <5>1
      <4>3. CASE i # n - 1
        <5>1. i # Len(stack') /\ stack'[i + 1].key = stack[i + 1].key
          BY <1>3, <1>6, <3>1, <4>3
        <5> QED
          BY <1>13, <3>1, <4>1, <5>1
      <4> QED
        BY <4>2, <4>3
    <3> QED
      BY <1>13, <3>1, <3>2, <3>3 DEF AskedSince
  <2>2. ASSUME NEW g \in Fixtures, ~IsOpen(g)' PROVE truth'.first[g] \subseteq dynamic'[g]
    <3>1. CASE g = k
      <4>1. AskedSince(n) /\ stack[n].key = k /\ stack[n] = Top
        BY <1>3 DEF TimerInv, FirstRecorded, k
      <4>2. \A h \in truth.first[k] : h \notin Top.before /\ h \in resolved
        BY <4>1 DEF AskedSince, n
      <4>3. dynamic'[k] = resolved \ Top.before
        BY <1>1, <1>2, <1>4 DEF Clocks
      <4> QED
        BY <1>4, <1>13, <3>1, <4>2, <4>3
    <3>2. CASE g # k
      <4>1. ~IsOpen(g)
        BY <1>3, <1>6, <2>2, <3>2 DEF IsOpen, k
      <4>2. dynamic'[g] = dynamic[g]
        BY <1>1, <1>2, <3>2 DEF Clocks
      <4> QED
        BY <1>13, <4>1, <4>2 DEF TimerInv, FirstRecorded
    <3> QED
      BY <3>1, <3>2
  <2> QED
    BY <2>1, <2>2 DEF FirstRecorded
<1> QED
  BY <1>7, <1>9, <1>10, <1>11, <1>12 DEF TimerInv

(* Time passes, in the body on top if there is one.                        *)
LEMMA RunKeeps ==
  ASSUME TimerInv, NEW cpu \in {0, 1}, Run(cpu)
  PROVE  TimerInv'
<1>1. /\ timer' = timer + 1 /\ work' = work + cpu /\ stack' = stack /\ resolved' = resolved
      /\ cached' = cached /\ setups' = setups /\ dynamic' = dynamic /\ wait' = wait
      /\ waitWork' = waitWork /\ setupWork' = setupWork
  BY DEF Run
<1>6. truth' = IF stack = <<>> THEN truth
               ELSE [truth EXCEPT !.time[Top.key] = @ + 1, !.work = @ + cpu]
  BY DEF Run
<1>2. Clocks /\ truth \in Truths /\ timer \in Int /\ wait \in Int
  BY DEF TimerInv, Clocks
<1>3. /\ DOMAIN stack = 1 .. Len(stack) /\ Len(stack) \in Nat
      /\ \A i \in DOMAIN stack : stack[i] \in Frames /\ stack[i].key \in Fixtures
      /\ stack # <<>> => Len(stack) \in DOMAIN stack /\ Top = stack[Len(stack)]
  BY <1>2, OpenKeys DEF Top
<1>4. CASE stack = <<>>
  <2>1. Clocks' /\ OpenOnce' /\ OwnTime' /\ OwnWork' /\ FirstRecorded'
    BY <1>1, <1>4, <1>6 DEF TimerInv, Clocks, OpenOnce, IsOpen, OwnTime, OwnTimeRecorded, OwnWork,
       FirstRecorded
  <2> QED
    BY <2>1 DEF TimerInv
<1>5. CASE stack # <<>>
  <2> DEFINE k == Top.key
  <2>1. k \in Fixtures /\ \A i \in DOMAIN stack : stack[i].key = k <=> i = Len(stack)
    BY <1>3, <1>5 DEF TimerInv, OpenOnce
  <2>2. truth' = [truth EXCEPT !.time[k] = @ + 1, !.work = @ + cpu]
    BY <1>5, <1>6
  <2>3. k \notin cached
    BY <1>3, <1>5 DEF TimerInv, OpenOnce, IsOpen
  <2> HIDE DEF k
  <2>4. /\ truth.time \in [Fixtures -> Int] /\ truth.work \in Int
        /\ truth.needs \in [Fixtures -> SUBSET Fixtures]
        /\ truth.first \in [Fixtures -> SUBSET Fixtures]
    BY <1>2 DEF Truths
  <2>5. truth' = [time |-> [truth.time EXCEPT ![k] = @ + 1], work |-> truth.work + cpu,
                  needs |-> truth.needs, first |-> truth.first]
    BY <1>2, <2>2 DEF Truths
  <2>6. [truth.time EXCEPT ![k] = @ + 1] \in [Fixtures -> Int] /\ truth.work + cpu \in Int
    <3>1. truth.time[k] \in Int /\ cpu \in Int
      BY <2>1, <2>4
    <3> QED
      BY <2>1, <2>4, <3>1
  <2>7. /\ truth' \in Truths /\ truth'.work = truth.work + cpu /\ truth'.first = truth.first
        /\ truth'.time[k] = truth.time[k] + 1
        /\ \A f \in Fixtures \ {k} : truth'.time[f] = truth.time[f]
    BY <2>1, <2>4, <2>5, <2>6 DEF Truths
  <2>8. Clocks'
    BY <1>1, <1>2, <2>7 DEF Clocks
  <2>9. OpenOnce'
    BY <1>1 DEF TimerInv, OpenOnce, IsOpen
  <2>10. OwnTime'
    <3>1. OwnTimeRecorded'
      BY <1>1, <2>3, <2>7 DEF TimerInv, OpenOnce, OwnTime, OwnTimeRecorded
    <3>2. ASSUME NEW i \in DOMAIN stack
          PROVE  truth'.time[stack[i].key] = Stands(i)' - stack[i].started - stack[i].nested
      <4>1. stack[i].started \in Int /\ stack[i].nested \in Int /\ stack[i].key \in Fixtures
        BY <1>3 DEF Frames
      <4>2. truth.time[stack[i].key] = Stands(i) - stack[i].started - stack[i].nested
        BY DEF TimerInv, OwnTime
      <4>3. CASE i = Len(stack)
        <5>1. Stands(i) = timer - wait
          BY <4>3 DEF Stands
        <5>2. Stands(i)' = timer + 1 - wait
          <6>1. i = Len(stack')
            BY <1>1, <4>3
          <6>2. Stands(i)' = timer' - wait'
            BY <6>1 DEF Stands
          <6> QED
            BY <1>1, <1>2, <6>2
        <5>3. stack[i].key = k
          BY <2>1, <4>3
        <5>4. truth'.time[stack[i].key] = truth.time[stack[i].key] + 1
          BY <2>7, <5>3
        <5> QED
          BY <1>2, <4>1, <4>2, <5>1, <5>2, <5>4
      <4>4. CASE i # Len(stack)
        BY <1>1, <2>1, <2>7, <4>1, <4>2, <4>4 DEF Stands
      <4> QED
        BY <4>3, <4>4
    <3> QED
      BY <1>1, <3>1, <3>2 DEF OwnTime
  <2>11. OwnWork'
    <3>1. 1 \in DOMAIN stack /\ stack[1].workStarted \in Int
      BY <1>3, <1>5 DEF Frames
    <3>2. /\ work - waitWork >= stack[1].workStarted
          /\ setupWork + (work - waitWork - stack[1].workStarted) = truth.work
      BY <1>5 DEF TimerInv, OwnWork
    <3>3. work \in Int /\ waitWork \in Int /\ setupWork \in Int /\ cpu \in Int /\ cpu >= 0
      BY <1>2 DEF Clocks
    <3>4. work + cpu - waitWork >= stack[1].workStarted
      BY <3>1, <3>2, <3>3
    <3>5. setupWork + (work + cpu - waitWork - stack[1].workStarted) = truth.work + cpu
      BY <2>4, <3>1, <3>2, <3>3
    <3>6. /\ stack' # <<>> /\ stack'[1].workStarted = stack[1].workStarted
          /\ work' - waitWork' = work + cpu - waitWork /\ setupWork' = setupWork
          /\ truth'.work = truth.work + cpu
      BY <1>1, <1>5, <2>7, <3>3
    <3> QED
      BY <3>1, <3>3, <3>4, <3>5, <3>6 DEF OwnWork
  <2>12. FirstRecorded'
    BY <1>1, <2>7 DEF TimerInv, FirstRecorded, AskedSince, IsOpen
  <2> QED
    BY <2>8, <2>9, <2>10, <2>11, <2>12 DEF TimerInv
<1> QED
  BY <1>4, <1>5

(* The worker waits: both clocks and what is taken off them move together. *)
LEMMA WaitKeeps ==
  ASSUME TimerInv, NEW cpu \in {0, 1}, RecordWait(cpu)
  PROVE  TimerInv'
<1>1. /\ timer' = timer + 1 /\ work' = work + cpu /\ stack' = stack /\ resolved' = resolved
      /\ cached' = cached /\ setups' = setups /\ dynamic' = dynamic /\ wait' = wait + 1
      /\ waitWork' = waitWork + cpu /\ setupWork' = setupWork /\ truth' = truth
  BY DEF RecordWait
<1>2. Clocks'
  BY <1>1 DEF TimerInv, Clocks
<1>3. timer' - wait' = timer - wait /\ work' - waitWork' = work - waitWork
  BY <1>1 DEF TimerInv, Clocks
<1>4. OpenOnce'
  BY <1>1 DEF TimerInv, OpenOnce, IsOpen
<1>5. OwnTime'
  BY <1>1, <1>3 DEF TimerInv, OwnTime, OwnTimeRecorded, Stands
<1>6. OwnWork'
  BY <1>1, <1>3 DEF TimerInv, OwnWork
<1>7. FirstRecorded'
  BY <1>1 DEF TimerInv, FirstRecorded, AskedSince, IsOpen
<1> QED
  BY <1>2, <1>4, <1>5, <1>6, <1>7 DEF TimerInv

(* The timer's invariant holds throughout.                                 *)
LEMMA TimerKept == TimerSpec => []TimerInv
<1>1. TimerInit => TimerInv
  BY DEF TimerInit, TimerInv, Clocks, OpenOnce, IsOpen, OwnTime, OwnTimeRecorded, OwnWork,
         FirstRecorded, Truths, Frames, None
<1>2. TimerInv /\ [TimerNext]_fixtures => TimerInv'
  <2> SUFFICES ASSUME TimerInv, [TimerNext]_fixtures PROVE TimerInv'
    OBVIOUS
  <2>1. CASE UNCHANGED fixtures
    BY <2>1 DEF fixtures, TimerInv, Clocks, OpenOnce, IsOpen, OwnTime, OwnTimeRecorded, Stands,
                OwnWork, FirstRecorded, AskedSince
  <2> QED
    BY <2>1, SetupKeeps, FindKeeps, BeginKeeps, DoneKeeps, RunKeeps, WaitKeeps DEF TimerNext
<1> QED
  BY <1>1, <1>2, PTL DEF TimerSpec

(* However set-ups nest and wherever the worker waits in them, each is     *)
(* recorded with the time of its own body, and their work is counted once. *)
THEOREM AlwaysMeasuredApart == TimerSpec => []SetUpsMeasuredApart
<1>1. TimerInv => SetUpsMeasuredApart
  BY DEF TimerInv, OwnTime, OwnWork, SetUpsMeasuredApart, WorkCountedOnce
<1> QED
  BY <1>1, TimerKept, PTL

(* One step of Reached: the keys in S and those they lead to.              *)
Wider(S, map) == S \union UNION {map[k] : k \in S}

IsReach(g, keys, map) ==
  g = [n \in 0 .. 8 |-> IF n = 0 THEN keys ELSE Wider(g[n - 1], map)]

(* Reached is what eight steps lead to.                                    *)
LEMMA ReachedInSteps ==
  ASSUME NEW keys, NEW map
  PROVE  \E g : IsReach(g, keys, map) /\ Reached(keys, map) = g[8]
<1> DEFINE s1 == Wider(keys, map)
           s2 == Wider(s1, map)
           s3 == Wider(s2, map)
           s4 == Wider(s3, map)
           s5 == Wider(s4, map)
           s6 == Wider(s5, map)
           s7 == Wider(s6, map)
           s8 == Wider(s7, map)
           value(n) == CASE n = 0 -> keys [] n = 1 -> s1 [] n = 2 -> s2 [] n = 3 -> s3
                         [] n = 4 -> s4 [] n = 5 -> s5 [] n = 6 -> s6 [] n = 7 -> s7
                         [] n = 8 -> s8
           g == [n \in 0 .. 8 |-> value(n)]
<1>1. /\ s1 = Wider(keys, map) /\ s2 = Wider(s1, map) /\ s3 = Wider(s2, map)
      /\ s4 = Wider(s3, map) /\ s5 = Wider(s4, map) /\ s6 = Wider(s5, map)
      /\ s7 = Wider(s6, map) /\ s8 = Wider(s7, map)
  OBVIOUS
<1> HIDE DEF s1, s2, s3, s4, s5, s6, s7, s8
<1>2. /\ g[0] = keys /\ g[1] = s1 /\ g[2] = s2 /\ g[3] = s3 /\ g[4] = s4 /\ g[5] = s5
      /\ g[6] = s6 /\ g[7] = s7 /\ g[8] = s8
  OBVIOUS
<1>3. g = [n \in 0 .. 8 |-> g[n]]
  OBVIOUS
<1> HIDE DEF g
<1>4. ASSUME NEW n \in 0 .. 8
      PROVE  g[n] = IF n = 0 THEN keys ELSE Wider(g[n - 1], map)
  <2>1. \/ n = 0 \/ n = 1 \/ n = 2 \/ n = 3 \/ n = 4 \/ n = 5 \/ n = 6 \/ n = 7 \/ n = 8
    OBVIOUS
  <2> QED
    BY <1>1, <1>2, <2>1
<1>5. [n \in 0 .. 8 |-> g[n]] = [n \in 0 .. 8 |-> IF n = 0 THEN keys ELSE Wider(g[n - 1], map)]
  BY <1>4
<1>6. IsReach(g, keys, map)
  BY <1>3, <1>5 DEF IsReach
<1> DEFINE reach == CHOOSE h : IsReach(h, keys, map)
<1>7. IsReach(reach, keys, map)
  BY <1>6
<1>8. Reached(keys, map) = reach[8]
  BY DEF Reached, IsReach, Wider
<1> QED
  BY <1>7, <1>8

(* The wider the map, the more is reached along it.                        *)
LEMMA ReachesMore ==
  ASSUME NEW keys \in SUBSET Fixtures,
         NEW narrow \in [Fixtures -> SUBSET Fixtures],
         NEW broad \in [Fixtures -> SUBSET Fixtures],
         \A f \in Fixtures : narrow[f] \subseteq broad[f]
  PROVE  Reached(keys, narrow) \subseteq Reached(keys, broad)
<1> DEFINE Below(S, T) == S \subseteq T /\ T \subseteq Fixtures
<1>1. ASSUME NEW S, NEW T, Below(S, T) PROVE Below(Wider(S, narrow), Wider(T, broad))
  BY <1>1 DEF Wider
<1> HIDE DEF Below
<1>2. PICK a : IsReach(a, keys, narrow) /\ Reached(keys, narrow) = a[8]
  BY ReachedInSteps
<1>3. PICK b : IsReach(b, keys, broad) /\ Reached(keys, broad) = b[8]
  BY ReachedInSteps
<1>4. Below(a[0], b[0])
  BY <1>2, <1>3 DEF IsReach, Below
<1>5. ASSUME NEW n \in 0 .. 7, Below(a[n], b[n]) PROVE Below(a[n + 1], b[n + 1])
  <2>1. /\ n + 1 \in 0 .. 8 /\ n + 1 # 0 /\ n + 1 - 1 = n
    OBVIOUS
  <2>2. a[n + 1] = Wider(a[n], narrow) /\ b[n + 1] = Wider(b[n], broad)
    BY <1>2, <1>3, <2>1 DEF IsReach
  <2> QED
    BY <1>1, <1>5, <2>2
<1>6. Below(a[1], b[1]) /\ Below(a[2], b[2]) /\ Below(a[3], b[3]) /\ Below(a[4], b[4])
  BY <1>4, <1>5
<1>7. Below(a[8], b[8])
  BY <1>5, <1>6
<1> QED
  BY <1>2, <1>3, <1>7 DEF Below

(* A test is reported with every fixture its instances were built on, as   *)
(* far as their set-ups were the first to ask.                             *)
THEOREM AlwaysUsesReported == TimerSpec => []UsesReported
<1>1. ASSUME TimerInv, stack = <<>>
      PROVE  Reached(resolved, truth.first) \subseteq Reached(resolved, dynamic)
  <2>1. /\ resolved \in SUBSET Fixtures /\ truth.first \in [Fixtures -> SUBSET Fixtures]
        /\ dynamic \in [Fixtures -> SUBSET Fixtures]
    BY <1>1 DEF TimerInv, Clocks, Truths
  <2>2. \A f \in Fixtures : truth.first[f] \subseteq dynamic[f]
    <3>1. \A f \in Fixtures : ~IsOpen(f)
      BY <1>1 DEF IsOpen
    <3> QED
      BY <1>1, <3>1 DEF TimerInv, FirstRecorded
  <2> QED
    BY <2>1, <2>2, ReachesMore
<1>2. TimerInv => UsesReported
  BY <1>1 DEF UsesReported
<1> QED
  BY <1>2, TimerKept, PTL

-----------------------------------------------------------------------------
(* The declarations of a test.                                             *)

(* Fixtures are finitely many, each of one kind, and none is a state of    *)
(* the test; slots are numbers.                                            *)
Kinds ==
  /\ IsFiniteSet(Shared) /\ IsFiniteSet(Inner) /\ Shared \intersect Inner = {}
  /\ \A f \in Shared \union Inner : f \notin {"nothing", "call"}
  /\ Declarable \subseteq Nat

Declarations ==
  /\ slots \in Nat /\ setup \in [Shared \union Inner -> Nat]
  /\ hold \in [Shared \union Inner -> Nat]
  /\ uses \subseteq Shared \union Inner /\ warm \subseteq Shared

(* Only what the test uses is set up, the shared fixtures first.           *)
SharedFirst ==
  /\ warm \subseteq alive /\ alive \subseteq warm \union uses
  /\ busy \in {"nothing", "call"} \union (uses \ alive)
  /\ busy \in Inner \/ alive \intersect Inner # {} => uses \intersect Shared \subseteq alive

DeclaringInv == Declarations /\ SharedFirst /\ (~started => busy = "nothing")

(* Every step of the test keeps it.                                        *)
LEMMA DeclaringStep ==
  ASSUME Kinds, DeclaringInv, [DeclaringNext]_(declaring)
  PROVE  DeclaringInv'
<1> USE DEF DeclaringInv, Declarations, SharedFirst, Kinds
<1>1. CASE Choose
  BY <1>1 DEF Choose, AllFixtures
<1>2. CASE Call
  BY <1>2 DEF Call
<1>3. ASSUME NEW f \in AllFixtures, SetUp(f) PROVE DeclaringInv'
  BY <1>3 DEF SetUp, AllFixtures
<1>4. ASSUME NEW f \in AllFixtures, Ready(f) PROVE DeclaringInv'
  BY <1>4 DEF Ready, AllFixtures
<1>5. CASE UNCHANGED declaring
  BY <1>5 DEF declaring
<1> QED
  BY <1>1, <1>2, <1>3, <1>4, <1>5 DEF DeclaringNext

(* What a fixture holds, unit by unit.                                     *)
Units(f) == {f} \X (1 .. hold[f])

(* A fixture holds its slots.                                              *)
LEMMA HoldOfOne ==
  ASSUME Declarations, NEW f \in Shared \union Inner
  PROVE  /\ IsFiniteSet(Units(f)) /\ Cardinality(Units(f)) = hold[f]
         /\ HoldOf({f}) = hold[f]
<1>1. hold[f] \in Nat
  BY DEF Declarations
<1>2. IsFiniteSet(1 .. hold[f]) /\ Cardinality(1 .. hold[f]) = hold[f]
  <2> DEFINE h == hold[f]
  <2>1. h \in Nat /\ h \in Int /\ 1 \in Int
    BY <1>1
  <2> HIDE DEF h
  <2>2. /\ IsFiniteSet(1 .. h)
        /\ Cardinality(1 .. h) = IF 1 > h THEN 0 ELSE h - 1 + 1
    BY <2>1, FS_Interval
  <2>3. Cardinality(1 .. h) = h
    BY <2>1, <2>2
  <2> QED
    BY <2>2, <2>3 DEF h
<1>3. IsFiniteSet({f}) /\ Cardinality({f}) = 1
  BY FS_Singleton
<1>4. IsFiniteSet(Units(f)) /\ Cardinality(Units(f)) = 1 * hold[f]
  <2>1. /\ IsFiniteSet({f} \X (1 .. hold[f]))
        /\ Cardinality({f} \X (1 .. hold[f])) = Cardinality({f}) * Cardinality(1 .. hold[f])
    <3> DEFINE ones == {f}
               many == 1 .. hold[f]
    <3>1. IsFiniteSet(ones) /\ IsFiniteSet(many)
      BY <1>2, <1>3
    <3> HIDE DEF ones, many
    <3>2. /\ IsFiniteSet(ones \X many)
          /\ Cardinality(ones \X many) = Cardinality(ones) * Cardinality(many)
      BY <3>1, FS_Product
    <3> QED
      BY <3>2 DEF ones, many
  <2> QED
    BY <1>2, <1>3, <2>1 DEF Units
<1>5. UNION {Units(g) : g \in {f}} = Units(f)
  OBVIOUS
<1>6. HoldOf({f}) = Cardinality(Units(f))
  BY <1>5 DEF HoldOf, Units
<1> QED
  BY <1>1, <1>4, <1>6

(* Some fixtures hold a number of slots.                                   *)
LEMMA HoldOfMany ==
  ASSUME Kinds, Declarations, NEW F \in SUBSET (Shared \union Inner)
  PROVE  /\ IsFiniteSet(UNION {Units(f) : f \in F}) /\ HoldOf(F) \in Nat
         /\ HoldOf(F) = Cardinality(UNION {Units(f) : f \in F})
<1> DEFINE S == {Units(f) : f \in F}
           g == [f \in F |-> Units(f)]
<1>1. IsFiniteSet(F)
  <2>1. IsFiniteSet(Shared \union Inner)
    BY FS_Union DEF Kinds
  <2> QED
    BY <2>1, FS_Subset
<1>2. g \in Surjection(F, S)
  BY DEF Surjection
<1>3. \A T \in S : IsFiniteSet(T)
  BY HoldOfOne
<1> HIDE DEF S, g
<1>4. IsFiniteSet(S)
  BY <1>1, <1>2, FS_Surjection
<1>5. IsFiniteSet(UNION S)
  BY <1>3, <1>4, FS_UNION
<1>6. HoldOf(F) = Cardinality(UNION S)
  BY DEF HoldOf, S, Units
<1> QED
  BY <1>5, <1>6, FS_CardinalityType DEF S

(* More fixtures hold no less, and two sets of them what each holds.       *)
LEMMA HoldsAddUp ==
  ASSUME Kinds, Declarations, NEW F \in SUBSET (Shared \union Inner),
         NEW G \in SUBSET (Shared \union Inner)
  PROVE  /\ F \subseteq G => HoldOf(F) <= HoldOf(G)
         /\ F \intersect G = {} =>
              HoldOf(F \union G) = HoldOf(F) + HoldOf(G)
<1> DEFINE A == UNION {Units(f) : f \in F}
           B == UNION {Units(f) : f \in G}
           C == UNION {Units(f) : f \in F \union G}
<1>1. /\ IsFiniteSet(A) /\ HoldOf(F) = Cardinality(A)
      /\ IsFiniteSet(B) /\ HoldOf(G) = Cardinality(B)
      /\ HoldOf(F \union G) = Cardinality(C)
  BY HoldOfMany
<1>2. F \subseteq G => A \subseteq B
  OBVIOUS
<1>3. C = A \union B
  OBVIOUS
<1>4. F \intersect G = {} => A \intersect B = {}
  BY DEF Units
<1> HIDE DEF A, B, C
<1>5. F \subseteq G => Cardinality(A) <= Cardinality(B)
  BY <1>1, <1>2, FS_Subset
<1>6. /\ Cardinality(A) \in Nat /\ Cardinality(B) \in Nat
      /\ Cardinality(A \union B) = Cardinality(A) + Cardinality(B) - Cardinality(A \intersect B)
  BY <1>1, FS_Union, FS_CardinalityType
<1>7. Cardinality({}) = 0
  BY FS_EmptySet
<1>8. F \intersect G = {} => Cardinality(C) = Cardinality(A) + Cardinality(B)
  <2>1. SUFFICES ASSUME F \intersect G = {}
                 PROVE  Cardinality(C) = Cardinality(A) + Cardinality(B)
    OBVIOUS
  <2>2. Cardinality(A \intersect B) = 0
    BY <1>4, <1>7, <2>1
  <2> QED
    BY <1>3, <1>6, <2>2
<1> QED
  BY <1>1, <1>5, <1>8

(* A finite set of numbers has a largest, and Max is it.                   *)
LEMMA MaxOf ==
  ASSUME NEW S \in SUBSET Nat, IsFiniteSet(S), S # {}
  PROVE  Max(S) \in S /\ \A n \in S : Max(S) >= n
<1> DEFINE Topped(U) == \E m \in U : \A n \in U : m >= n
           Others == {U \in SUBSET S : U # {} /\ ~Topped(U)}
<1>1. Others = {}
  <2>1. SUFFICES ASSUME Others # {} PROVE FALSE
    OBVIOUS
  <2>2. Others \subseteq FiniteSubsetsOf(S)
    BY FS_Subset DEF FiniteSubsetsOf
  <2>3. PICK U \in Others : \A V \in Others : <<V, U>> \notin StrictSubsetOrdering(S)
    BY <2>1, <2>2, FS_StrictSubsetOrderingWellFounded, WFMin
  <2>4. PICK k \in U : TRUE
    BY <2>3
  <2>5. U \ {k} \notin Others
    BY <2>3, <2>4 DEF StrictSubsetOrdering
  <2>6. U \subseteq Nat /\ k \in Nat
    BY <2>3, <2>4
  <2>7. CASE U \ {k} = {}
    <3>1. \A n \in U : k >= n
      BY <2>6, <2>7
    <3> QED
      BY <2>3, <2>4, <3>1
  <2>8. CASE U \ {k} # {}
    <3>1. PICK m \in U \ {k} : \A n \in U \ {k} : m >= n
      BY <2>3, <2>5, <2>8
    <3>2. (\A n \in U : m >= n) \/ (\A n \in U : k >= n)
      BY <2>6, <3>1
    <3> QED
      BY <2>3, <2>4, <3>1, <3>2
  <2> QED
    BY <2>7, <2>8
<1>2. Topped(S)
  BY <1>1
<1> QED
  BY <1>2 DEF Max

(* The charge covers whatever is set up and whatever holds.                *)
LEMMA ChargeCovers ==
  ASSUME Kinds, DeclaringInv
  PROVE  ReservationFits
<1> DEFINE all    == Shared \union Inner
           inner  == uses \intersect Inner
           after  == warm \union (uses \intersect Shared)
           owed   == {setup[f] : f \in (uses \intersect Shared) \ warm}
           stages == Stages
           total  == HoldOf(after) + HoldOf(inner)
           most   == Max(owed \union {TestSlots}) + HoldOf(after)
<1> USE DEF Kinds
<1>1. Declarations /\ SharedFirst
  BY DEF DeclaringInv
<1>2. /\ inner \in SUBSET all /\ after \in SUBSET all /\ alive \in SUBSET all
      /\ after \intersect inner = {} /\ alive \subseteq after \union inner
  BY <1>1 DEF Declarations, SharedFirst
<1>3. /\ HoldOf(inner) \in Nat /\ HoldOf(after) \in Nat
      /\ HoldOf(alive) \in Nat
  BY <1>1, <1>2, HoldOfMany
<1>4. \A f \in all : setup[f] \in Nat /\ hold[f] \in Nat
  BY <1>1 DEF Declarations
<1>5. \A f \in inner :
        HoldOf(inner) = HoldOf(inner \ {f}) + hold[f]
  <2>1. SUFFICES ASSUME NEW f \in inner
                 PROVE  HoldOf(inner) = HoldOf(inner \ {f}) + hold[f]
    OBVIOUS
  <2>2. /\ inner \ {f} \in SUBSET all /\ {f} \in SUBSET all
        /\ (inner \ {f}) \intersect {f} = {} /\ (inner \ {f}) \union {f} = inner
    BY <1>2
  <2>3. HoldOf({f}) = hold[f]
    BY <1>1, <1>2, HoldOfOne
  <2> QED
    BY <1>1, <2>2, <2>3, HoldsAddUp
<1>6. \A f \in inner : HoldOf(inner \ {f}) \in Nat
  BY <1>1, <1>2, HoldOfMany
<1>7. IsFiniteSet(all)
  BY FS_Union
<1> HIDE DEF all
<1>8. /\ stages \in SUBSET Nat /\ IsFiniteSet(stages) /\ stages # {}
      /\ slots + HoldOf(inner) \in stages
      /\ \A f \in inner : setup[f] + HoldOf(inner \ {f}) \in stages
  <2> DEFINE g == [f \in inner |-> setup[f] + HoldOf(inner) - hold[f]]
             first == {setup[f] + HoldOf(inner) - hold[f] : f \in inner}
             last  == slots + HoldOf(inner)
  <2>1. stages = first \union {last}
    BY DEF Stages, InnerHolds
  <2>2. \A f \in inner :
          setup[f] + HoldOf(inner) - hold[f] = setup[f] + HoldOf(inner \ {f})
    <3>1. SUFFICES ASSUME NEW f \in inner
                   PROVE  setup[f] + HoldOf(inner) - hold[f]
                            = setup[f] + HoldOf(inner \ {f})
      OBVIOUS
    <3>2. /\ setup[f] \in Nat /\ hold[f] \in Nat
          /\ HoldOf(inner \ {f}) \in Nat
          /\ HoldOf(inner) = HoldOf(inner \ {f}) + hold[f]
      BY <1>2, <1>4, <1>5, <1>6, <3>1
    <3> HIDE DEF inner
    <3> QED
      BY <3>2
  <2>3. first = {setup[f] + HoldOf(inner \ {f}) : f \in inner}
    BY <2>2
  <2>4. first \in SUBSET Nat /\ last \in Nat
    <3>1. \A f \in inner : setup[f] + HoldOf(inner \ {f}) \in Nat
      <4>1. \A f \in inner : setup[f] \in Nat
        BY <1>2, <1>4
      <4> QED
        BY <1>6, <4>1
    <3>2. slots \in Nat
      BY <1>1 DEF Declarations
    <3>3. slots + HoldOf(inner) \in Nat
      BY <1>3, <3>2
    <3> HIDE DEF inner
    <3>4. first \subseteq Nat
      BY <2>3, <3>1
    <3> QED
      BY <3>3, <3>4 DEF inner
  <2>5. g \in Surjection(inner, first)
    BY DEF Surjection
  <2>6. IsFiniteSet(inner)
    BY <1>2, <1>7, FS_Subset
  <2> HIDE DEF g, first, last
  <2>7. IsFiniteSet(first)
    BY <2>5, <2>6, FS_Surjection
  <2>8. IsFiniteSet({last})
    BY FS_Singleton
  <2>9. IsFiniteSet(stages)
    BY <2>1, <2>7, <2>8, FS_Union
  <2>10. last \in stages /\ stages # {} /\ stages \in SUBSET Nat
    BY <2>1, <2>4
  <2>11. \A f \in inner : setup[f] + HoldOf(inner \ {f}) \in stages
    BY <2>1, <2>3
  <2> QED
    BY <2>9, <2>10, <2>11 DEF last
<1> HIDE DEF stages
<1>9. TestSlots \in stages /\ \A n \in stages : TestSlots >= n
  BY <1>8, MaxOf DEF TestSlots, stages
<1>10. TestSlots \in Nat
  BY <1>8, <1>9
<1>11. LET m == Max(owed \union {TestSlots})
       IN  m \in Nat /\ m >= TestSlots /\ \A n \in owed : m >= n
  <2> DEFINE owes == (uses \intersect Shared) \ warm
             g == [f \in owes |-> setup[f]]
  <2>1. owes \in SUBSET all
    BY <1>2 DEF all
  <2>2. g \in Surjection(owes, owed)
    BY DEF Surjection
  <2>3. owed \in SUBSET Nat
    BY <1>4, <2>1
  <2>4. IsFiniteSet(owes)
    BY <1>7, <2>1, FS_Subset
  <2> HIDE DEF g, owes
  <2> HIDE DEF owed
  <2>5. IsFiniteSet(owed)
    BY <2>2, <2>4, FS_Surjection
  <2>6. IsFiniteSet({TestSlots})
    BY FS_Singleton
  <2>7. IsFiniteSet(owed \union {TestSlots})
    BY <2>5, <2>6, FS_Union
  <2> DEFINE both == owed \union {TestSlots}
  <2>8. both \in SUBSET Nat /\ both # {}
    BY <1>10, <2>3
  <2> HIDE DEF both
  <2>9. Max(both) \in both /\ \A n \in both : Max(both) >= n
    BY <2>7, <2>8, MaxOf DEF both
  <2> QED
    BY <2>8, <2>9 DEF both
<1>12. Charge.peak = most /\ Charge.holds = total
  BY DEF Charge, InnerHolds
<1>13. HoldOf(alive) <= total
  <2>1. /\ after \union inner \in SUBSET all
        /\ HoldOf(after \union inner) = total
    BY <1>1, <1>2, HoldsAddUp DEF all
  <2> QED
    BY <1>1, <1>2, <2>1, HoldsAddUp DEF all
<1> HIDE DEF owed
<1>14. /\ most \in Nat /\ total \in Nat
       /\ most >= TestSlots + HoldOf(after)
       /\ \A n \in owed : n \in Nat => most >= n + HoldOf(after)
  <2> DEFINE m == Max(owed \union {TestSlots})
             h == HoldOf(after)
  <2>1. m \in Nat /\ m >= TestSlots /\ \A n \in owed : m >= n
    BY <1>11
  <2>2. h \in Nat /\ HoldOf(inner) \in Nat
    BY <1>3
  <2>3. most = m + h /\ total = h + HoldOf(inner)
    OBVIOUS
  <2> HIDE DEF m, h, most, total
  <2>4. most \in Nat /\ total \in Nat
    BY <2>1, <2>2, <2>3
  <2>5. most >= TestSlots + h
    BY <1>10, <2>1, <2>2, <2>3
  <2>6. \A n \in owed : n \in Nat => most >= n + h
    BY <2>1, <2>2, <2>3
  <2> QED
    BY <2>4, <2>5, <2>6 DEF h
<1> HIDE DEF most
<1>15. Needed <= most
  <2>1. TestSlots >= slots + HoldOf(inner) /\ slots \in Nat
    BY <1>1, <1>8, <1>9 DEF Declarations
  <2>2. CASE busy = "nothing"
    <3>1. Needed = HoldOf(alive)
      BY <1>3, <2>2 DEF Needed
    <3> QED
      BY <1>3, <1>10, <1>13, <1>14, <2>1, <3>1
  <2>3. CASE busy = "call"
    <3>1. Needed = HoldOf(alive) + slots
      BY <2>3 DEF Needed
    <3> QED
      BY <1>3, <1>10, <1>13, <1>14, <2>1, <3>1
  <2>4. CASE busy \in uses \ alive
    <3>1. busy \in all /\ busy # "nothing" /\ busy # "call"
      BY <1>1, <2>4 DEF Declarations, all
    <3>2. Needed = HoldOf(alive) + setup[busy]
      BY <3>1 DEF Needed
    <3>3. CASE busy \in Inner
      <4>1. busy \in inner /\ alive \subseteq after \union (inner \ {busy})
        BY <1>2, <2>4, <3>3
      <4>2. after \union (inner \ {busy}) \in SUBSET all /\ inner \ {busy} \in SUBSET all
        BY <1>2
      <4>3. HoldOf(after \union (inner \ {busy}))
              = HoldOf(after) + HoldOf(inner \ {busy})
        BY <1>1, <1>2, <4>2, HoldsAddUp DEF all
      <4>4. HoldOf(alive) <= HoldOf(after \union (inner \ {busy}))
        BY <1>1, <1>2, <4>1, <4>2, HoldsAddUp DEF all
      <4>5. TestSlots >= setup[busy] + HoldOf(inner \ {busy})
        BY <1>8, <1>9, <4>1
      <4>6. setup[busy] \in Nat /\ HoldOf(inner \ {busy}) \in Nat
        BY <1>4, <1>6, <3>1, <4>1
      <4> QED
        BY <1>3, <1>10, <1>14, <3>2, <4>3, <4>4, <4>5, <4>6
    <3>4. CASE busy \in Shared
      <4>1. alive \intersect Inner = {}
        BY <1>1, <2>4, <3>4 DEF SharedFirst
      <4>2. alive \subseteq after
        BY <1>1, <4>1 DEF SharedFirst, Declarations
      <4>3. HoldOf(alive) <= HoldOf(after)
        BY <1>1, <1>2, <4>2, HoldsAddUp DEF all
      <4>4. setup[busy] \in owed /\ setup[busy] \in Nat
        BY <1>1, <1>4, <2>4, <3>1, <3>4 DEF SharedFirst, owed
      <4> QED
        <5>1. most >= setup[busy] + HoldOf(after)
          BY <1>14, <4>4
        <5> QED
          BY <1>3, <1>14, <3>2, <4>3, <4>4, <5>1
    <3> QED
      BY <3>1, <3>3, <3>4 DEF all
  <2> QED
    BY <1>1, <2>2, <2>3, <2>4 DEF SharedFirst
<1>16. WithLiveHolds(HoldOf(alive)) = Charge.peak
  <2> DEFINE more == HoldOf(alive) - total
             both == {0, more}
  <2>1. more \in Int /\ more <= 0
    BY <1>3, <1>13, <1>14
  <2> HIDE DEF more
  <2>2. /\ 0 \in both /\ \A n \in both : 0 >= n
        /\ \A m \in both : (\A n \in both : m >= n) => m = 0
    BY <2>1
  <2> HIDE DEF both
  <2>3. Max(both) = 0
    BY <2>2 DEF Max
  <2>4. WithLiveHolds(HoldOf(alive))
          = Charge.peak + Max(both)
    BY <1>12 DEF WithLiveHolds, both, more
  <2> QED
    BY <1>12, <1>14, <2>3, <2>4
<1> QED
  BY <1>12, <1>15, <1>16
  DEF ReservationFits, EveryMomentCovered, HoldsCountedOnce

(* The one reservation a test gets covers every moment of it, and what the *)
(* worker reports of declared fixtures is not reserved a second time,      *)
(* whatever is declared, used and alive before.                            *)
THEOREM ReservationAlwaysFits ==
  ASSUME Kinds PROVE DeclaringSpec => []ReservationFits
<1>1. DeclaringInit => DeclaringInv
  BY DEF DeclaringInit, AllFixtures, DeclaringInv, Declarations, SharedFirst
<1>2. DeclaringInv /\ [DeclaringNext]_(declaring) => DeclaringInv'
  BY DeclaringStep
<1>3. DeclaringInv => ReservationFits
  BY ChargeCovers
<1> QED
  BY <1>1, <1>2, <1>3, PTL DEF DeclaringSpec
===============================================================================
