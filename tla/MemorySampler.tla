----------------------------- MODULE MemorySampler -----------------------------
(***************************************************************************)
(* The two threads of MemorySampler (pytest_timing/telemetry.py): the one  *)
(* that runs the tests opens and closes windows, the sampler's reads while *)
(* one is open.  The sizes they read change at any moment.  A reading is   *)
(* the process's own size and the latest total of its descendants, which   *)
(* are listed by whoever reads once the last listing is old enough, and    *)
(* kept from one window to the next.  Every step is what happens between   *)
(* two operations on the lock or an event.                                 *)
(***************************************************************************)
EXTENDS Integers

CONSTANTS
  Sizes,       \* bound: sizes the process takes
  Totals,      \* bound: what its descendants take together
  TreeInterval, IdleInterval,   \* tree_interval, idle_interval
  MaxWindows   \* bound: windows opened

ASSUME IntervalAssumption ==
  TreeInterval \in Nat \ {0} /\ IdleInterval \in Nat /\ IdleInterval >= TreeInterval

Nobody == "nobody"

VARIABLES
  size, below, \* what memory.own() and memory.descendants() would return now
  children,    \* _children
  age, every,  \* now - _children_at, _children_every
  lock,        \* _lock
  isOpen, isStopped,   \* _open, _stop
  base, peak,  \* _base, _peak
  thread,      \* where the tests' thread is
  sampler,     \* where the sampler's thread is, "none" before it is started
  reading,     \* thread -> the reading it holds
  windows,     \* windows opened so far
  inside,      \* the readings taken in the window of the test: [bytes, age: how long ago
               \*  descendants were seen that are counted in it]
  result       \* the last MemoryWindow: [base, peak, after]

host    == <<size, below>>
listing == <<children, age, every>>
memory  ==
  <<host, listing, lock, isOpen, isStopped, base, peak, thread, sampler, reading, windows,
    inside, result>>

NoWindow == [base |-> 0, peak |-> 0, after |-> 0]
Higher(a, b) == IF a >= b THEN a ELSE b
Lower(a, b)  == IF a <= b THEN a ELSE b

Grow(n, m) ==
  /\ <<n, m>> # <<size, below>>
  /\ size' = n /\ below' = m
  /\ UNCHANGED <<listing, lock, isOpen, isStopped, base, peak, thread, sampler, reading,
                 windows, inside, result>>

(* Time passes; older than the longest interval is old enough. *)
Pass ==
  /\ age < IdleInterval
  /\ age' = age + 1
  /\ UNCHANGED <<host, children, every, lock, isOpen, isStopped, base, peak, thread,
                 sampler, reading, windows, inside, result>>

-----------------------------------------------------------------------------
(* _reading: what it returns, and what it remembers.  While no descendants *)
(* are found they are looked for ever more seldom.                         *)
Due == age >= every
Now == size + (IF Due THEN below ELSE children)

SlowerStill(found) == Lower(IdleInterval, 2 * every)   \* mutant: the pace is not taken up again
NextEvery(found) == IF found > 0 THEN TreeInterval ELSE Lower(IdleInterval, 2 * every)

List ==
  IF Due
  THEN children' = below /\ age' = 0 /\ every' = NextEvery(below)
  ELSE UNCHANGED listing

Taken == [bytes |-> Now, age |-> IF Due \/ children = 0 THEN 0 ELSE age]

(* begin *)
BeginWindow ==
  /\ thread = "outside" /\ ~isStopped /\ windows < MaxWindows /\ lock = Nobody
  /\ lock' = "test" /\ thread' = "beginning"
  /\ reading' = [reading EXCEPT !["test"] = Now]
  /\ List
  /\ windows' = windows + 1
  /\ inside' = {Taken}
  /\ UNCHANGED <<host, isOpen, isStopped, base, peak, sampler, result>>

StartFrom(n) == base' = n /\ peak' = n

BeginSet ==
  /\ thread = "beginning"
  /\ StartFrom(reading["test"])
  /\ lock' = Nobody /\ thread' = "opening"
  /\ UNCHANGED <<host, listing, isOpen, isStopped, sampler, reading, windows, inside,
                 result>>

(* The sampler is started by the first window. *)
Open ==
  /\ thread = "opening"
  /\ sampler' = IF sampler = "none" THEN "waiting" ELSE sampler
  /\ isOpen' = TRUE /\ thread' = "inside"
  /\ UNCHANGED <<host, listing, lock, isStopped, base, peak, reading, windows, inside,
                 result>>

(* end *)
EndClear ==
  /\ thread = "inside" /\ isOpen
  /\ isOpen' = FALSE /\ thread' = "ending"
  /\ UNCHANGED <<host, listing, lock, isStopped, base, peak, sampler, reading, windows,
                 inside, result>>

End ==
  /\ thread = "ending" /\ lock = Nobody
  /\ inside' = inside \union {Taken}
  /\ result' = [base |-> base, peak |-> Higher(peak, Now), after |-> Now]
  /\ List
  /\ thread' = "outside"
  /\ UNCHANGED <<host, lock, isOpen, isStopped, base, peak, sampler, reading, windows>>

-----------------------------------------------------------------------------
(* _run, _sample *)
Wake ==
  /\ sampler = "waiting" /\ (isOpen \/ isStopped)
  /\ sampler' = IF isStopped THEN "gone" ELSE "woken"
  /\ UNCHANGED <<host, listing, lock, isOpen, isStopped, base, peak, thread, reading,
                 windows, inside, result>>

ReadAnyTime(free) == TRUE     \* mutant: the reading is taken before the lock
UnderLock(free)   == free

TakeReading ==
  /\ sampler = "woken" /\ UnderLock(lock = Nobody)
  /\ lock' = IF lock = Nobody THEN "sampler" ELSE lock
  /\ sampler' = "reading"
  /\ reading' = [reading EXCEPT !["sampler"] = Now]
  /\ List
  /\ inside' = IF thread = "outside" THEN inside ELSE inside \union {Taken}
  /\ UNCHANGED <<host, isOpen, isStopped, base, peak, thread, windows, result>>

Keep ==
  /\ sampler = "reading" /\ lock # "test"
  /\ peak' = Higher(peak, reading["sampler"])
  /\ lock' = Nobody
  /\ sampler' = "sleeping"
  /\ UNCHANGED <<host, listing, isOpen, isStopped, base, thread, reading, windows,
                 inside, result>>

(* _stop.wait(interval): at the latest when the interval is over.          *)
Sleep ==
  /\ sampler = "sleeping"
  /\ sampler' = "waiting"
  /\ UNCHANGED <<host, listing, lock, isOpen, isStopped, base, peak, thread, reading,
                 windows, inside, result>>

(* close: the sampler is woken to see the stop; then the event is cleared. *)
CloseSampler ==
  /\ thread = "outside" /\ ~isStopped
  /\ isStopped' = TRUE /\ isOpen' = TRUE /\ thread' = "joining"
  /\ UNCHANGED <<host, listing, lock, base, peak, sampler, reading, windows, inside,
                 result>>

Joined ==
  /\ thread = "joining"      \* the thread has ended, or join(1.0) has given up
  /\ isOpen' = FALSE /\ thread' = "closed"
  /\ UNCHANGED <<host, listing, lock, isStopped, base, peak, sampler, reading, windows,
                 inside, result>>

SamplerInit ==
  /\ size \in Sizes /\ below \in Totals
  /\ children = 0 /\ age = IdleInterval /\ every = TreeInterval   \* never listed
  /\ lock = Nobody /\ isOpen = FALSE /\ isStopped = FALSE
  /\ base = 0 /\ peak = 0 /\ thread = "outside" /\ sampler = "none"
  /\ reading = [t \in {"test", "sampler"} |-> 0]
  /\ windows = 0 /\ inside = {} /\ result = NoWindow

SamplerNext ==
  \/ \E n \in Sizes, m \in Totals : Grow(n, m)
  \/ Pass
  \/ BeginWindow \/ BeginSet \/ Open \/ EndClear \/ End
  \/ Wake \/ TakeReading \/ Keep \/ Sleep
  \/ CloseSampler \/ Joined

SamplerSpec == SamplerInit /\ [][SamplerNext]_memory

-----------------------------------------------------------------------------
(* A window reports what was read inside it (MemorySampler.end): its peak  *)
(* is the largest reading either thread took between the opening and the   *)
(* closing one, whatever the sampler was in the middle of when the window  *)
(* changed.  A reading may count descendants of the test before, as the    *)
(* next property has it.                                                   *)
PeakOfItsOwn ==
  thread = "outside" /\ windows > 0 =>
    /\ \E r \in inside : r.bytes = result.peak
    /\ \A r \in inside : r.bytes <= result.peak

(* "The latest descendant total" outlives the window it was listed in      *)
(* (telemetry.py:740, 778-785), but not by long: descendants that are      *)
(* counted in a test's window, and may be those of an earlier test, were   *)
(* there less than tree_interval before, however slowly they were looked   *)
(* for when there were none.                                               *)
CountedWhileRecent == \A r \in inside : r.age < TreeInterval
==============================================================================
