------------------------------ MODULE ProcessTree ------------------------------
(***************************************************************************)
(* One reading of ProcessTreeClock (pytest_timing/telemetry.py): the time  *)
(* of the process and its reaped children, then a walk over its live       *)
(* descendants, then the time of each that was found - while the tree goes *)
(* on: processes fork, work, exit and are waited for at any moment.  The   *)
(* process that reads may be waiting for children in another thread.       *)
(* Processes of a parent that exits leave the tree.  On Linux children are *)
(* listed by the thread that forked them, and those of a thread that ends  *)
(* go to another one of its process.                                       *)
(***************************************************************************)
EXTENDS Integers, Sequences, FiniteSets, Functions

CONSTANTS
  Processes,   \* besides the one that reads
  Me,          \* os.getpid()
  Threaded,    \* bound: the processes that may start a second thread
  MaxWork      \* bound: CPU time one process uses

All     == Processes \union {Me}
Main    == 1
Second  == 2
Outside == <<"outside", Main>>
Nobody  == "nobody"

VARIABLES
  life,        \* process -> "unborn", "live", "zombie", "gone"
  second,      \* processes whose second thread runs
  parent,      \* process -> the process and its thread that have it as a child
  own,         \* process -> utime + stime
  waited,      \* process -> cutime + cstime
  reader,      \* "idle", "walking", "adding"
  todo, seen, found,   \* of the walk
  visited, tids,       \* the process it is at, the threads of it still to be read
  total,       \* what the reading has added up to
  before       \* the tree when the reading began: process -> its time, if it was there,
               \*  and has not been handed to another thread while its parent was read

system == <<life, second, parent, own, waited>>
walk   == <<reader, todo, seen, found, visited, tids, total>>
tree   == <<system, walk, before>>

There(p)  == life[p] \in {"live", "zombie"}
TimeOf(p) == own[p] + waited[p]
Threads(p)     == {Main} \union (IF p \in second THEN {Second} ELSE {})
Children(p, t) == {c \in Processes : There(c) /\ parent[c] = <<p, t>>}

-----------------------------------------------------------------------------
(* The system.                                                             *)
Fork(p, t, c) ==
  /\ life[p] = "live" /\ t \in Threads(p) /\ life[c] = "unborn"
  /\ life' = [life EXCEPT ![c] = "live"]
  /\ parent' = [parent EXCEPT ![c] = <<p, t>>]
  /\ UNCHANGED <<second, own, waited, walk, before>>

Work(p) ==
  /\ life[p] = "live" /\ own[p] < MaxWork
  /\ own' = [own EXCEPT ![p] = @ + 1]
  /\ UNCHANGED <<life, second, parent, waited, walk, before>>

StartThread(p) ==
  /\ p \in Threaded \ second /\ life[p] = "live"
  /\ second' = second \union {p}
  /\ UNCHANGED <<life, parent, own, waited, walk, before>>

EndThread(p) ==
  /\ p \in second
  /\ second' = second \ {p}
  /\ parent' = [c \in Processes |->
       IF parent[c] = <<p, Second>> THEN <<p, Main>> ELSE parent[c]]
  /\ before' = [c \in All |->
       IF visited = p /\ c \in Children(p, Second) THEN -1 ELSE before[c]]
  /\ UNCHANGED <<life, own, waited, walk>>

Exit(p) ==
  /\ p # Me /\ life[p] = "live"
  /\ life' = [life EXCEPT ![p] = "zombie"]
  /\ second' = second \ {p}
  /\ parent' = [c \in Processes |-> IF parent[c][1] = p THEN Outside ELSE parent[c]]
  /\ UNCHANGED <<own, waited, walk, before>>

WaitFor(p) ==
  /\ p # Me /\ life[p] = "zombie"
  /\ life' = [life EXCEPT ![p] = "gone"]
  /\ waited' = IF parent[p] = Outside THEN waited
               ELSE [waited EXCEPT ![parent[p][1]] = @ + TimeOf(p)]
  /\ UNCHANGED <<second, parent, own, walk, before>>

-----------------------------------------------------------------------------
(* The reading.                                                            *)

(* seconds: os.times() comes first. *)
Seconds ==
  /\ reader = "idle"
  /\ reader' = "walking"
  /\ total' = TimeOf(Me)
  /\ todo' = <<Me>>
  /\ before' = [p \in All |-> IF There(p) THEN TimeOf(p) ELSE -1]
  /\ UNCHANGED <<system, seen, found, visited, tids>>

(* proc_descendants: the last of the list first.  The threads of a process *)
(* are listed, then the children of each are read, in no promised order.   *)
AtNone == reader = "walking" /\ visited = Nobody

AnyPid(pid) == TRUE           \* mutant: `seen` is not looked at
Unseen(pid) == pid \notin seen

Visit ==
  /\ AtNone /\ todo # <<>>
  /\ LET pid == todo[Len(todo)]
     IN  IF Unseen(pid) /\ There(pid)
         THEN visited' = pid /\ tids' = Threads(pid)
         ELSE UNCHANGED <<visited, tids>>
  /\ todo' = SubSeq(todo, 1, Len(todo) - 1)
  /\ seen' = seen \union {todo[Len(todo)]}
  /\ UNCHANGED <<system, reader, found, total, before>>

Orders(S) == {s \in [1 .. Cardinality(S) -> S] : \A i, j \in DOMAIN s : s[i] = s[j] => i = j}

ReadChildren(t) ==
  /\ t \in tids
  /\ \E s \in Orders(Children(visited, t)) : todo' = todo \o s
  /\ tids' = tids \ {t}
  /\ IF tids' # {} THEN UNCHANGED <<visited, found>>
     ELSE /\ visited' = Nobody
          /\ found' = IF visited = Me THEN found ELSE Append(found, visited)
  /\ UNCHANGED <<system, reader, seen, total, before>>

(* _live_proc, _proc_cpu: a process that is gone by now adds nothing.      *)
Add ==
  /\ reader = "adding" \/ (AtNone /\ todo = <<>>)
  /\ found # <<>>
  /\ reader' = "adding"
  /\ total' = total + (IF There(found[1]) THEN TimeOf(found[1]) ELSE 0)
  /\ found' = Tail(found)
  /\ UNCHANGED <<system, todo, seen, visited, tids, before>>

Read == todo = <<>> /\ visited = Nobody /\ found = <<>> /\ reader # "idle"

Init ==
  /\ life = [p \in All |-> IF p = Me THEN "live" ELSE "unborn"]
  /\ second = {}
  /\ parent = [p \in Processes |-> Outside]
  /\ own = [p \in All |-> 0] /\ waited = [p \in All |-> 0]
  /\ reader = "idle" /\ todo = <<>> /\ seen = {} /\ found = <<>>
  /\ visited = Nobody /\ tids = {} /\ total = 0
  /\ before = [p \in All |-> -1]

Next ==
  \/ \E p \in All :
       \/ Work(p) \/ StartThread(p) \/ EndThread(p) \/ Exit(p) \/ WaitFor(p)
       \/ \E t \in {Main, Second}, c \in Processes : Fork(p, t, c)
  \/ Seconds \/ Visit \/ Add
  \/ \E t \in {Main, Second} : ReadChildren(t)

-----------------------------------------------------------------------------
SumOf(f) == FoldFunction(LAMBDA a, b : a + b, 0, f)

(* No CPU time is counted twice while children move from the live total    *)
(* to the reaped one (ARCHITECTURE.md:461-462), nor for one that is listed *)
(* twice because it went from one thread to another: a reading never       *)
(* exceeds what has been used so far.                                      *)
CountedOnce == total <= SumOf(own)

(* A process that is in the tree, with all those above it, from the        *)
(* beginning of a reading to its end is not missed (proc_descendants) -    *)
(* unless it, or one above it, went to another thread of its parent while  *)
(* the threads of that parent were being read ("exits during traversal ... *)
(* can leave gaps", ARCHITECTURE.md:462-463).                              *)
RECURSIVE Stays(_)
Stays(p) == before[p] >= 0 /\ There(p) /\ (p = Me \/ (parent[p] # Outside /\ Stays(parent[p][1])))

NoneMissed ==
  Read => total >= SumOf([p \in All |-> IF Stays(p) THEN before[p] ELSE 0])
==============================================================================
