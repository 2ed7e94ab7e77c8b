--------------------------- MODULE SchedulerWaiting ---------------------------
(***************************************************************************)
(* The two lines of the scheduler, the gate's and its own, and the         *)
(* requests in them: who is in line has not gone on, and nobody is left    *)
(* waiting without a place in line. The inductive invariant (Settling) has *)
(* a part for each thing the others lean on: the shape of the line and of  *)
(* the calls that walk it, what tests cost, the requests and their answers *)
(* on the way, what a node has left to run, and the first message of a     *)
(* node. Then the end of a session: the workers that crashed and those     *)
(* that left, the failures xdist counts for them, and what becomes of      *)
(* their queues. With these every variable of Scheduler is known to keep   *)
(* its type, and no test is lost.                                          *)
(***************************************************************************)
EXTENDS SchedulerProofs

(* The calls that leave the controller inside the loops over the line and  *)
(* over the nodes.                                                         *)
Steady == {"check", "fill", "rest", "shutdown", "replan", "retry"}

(* None of these calls retries a request.                                  *)
NoRetry(s) == \A j \in DOMAIN s : s[j].op # "retry"

(* The retries among these calls are of nodes of N, each once; a retry     *)
(* that gives up held slots is the only one; and before a retry only       *)
(* steady calls come.                                                      *)
RetriesIn(s, N) ==
  \A j \in DOMAIN s : s[j].op = "retry" =>
    /\ s[j].node \in N
    /\ \A i \in DOMAIN s : i < j => s[i].op \in Steady
    /\ \A i \in DOMAIN s : i # j /\ s[i].op = "retry" =>
         s[i].node # s[j].node /\ ~s[i].release

(* The nodes whose request the scheduler keeps.                            *)
Requesters == {w \in Nodes : HasRequest(w)}

(* A node waits once, and the controller only retries requests it keeps.   *)
LineShape == Distinct(waiting) /\ RetriesIn(todo, Requesters)

(* Calls without a retry retry nobody's request.                           *)
LEMMA NoRetryIn ==
  ASSUME NEW s, NoRetry(s)
  PROVE  \A N : RetriesIn(s, N)
BY DEF NoRetry, RetriesIn

(* What is left when the first call returns.                               *)
LEMMA RetriesTail ==
  ASSUME NEW s \in Seq(Calls), s # <<>>, NEW N, RetriesIn(s, N)
  PROVE  /\ RetriesIn(Tail(s), N)
         /\ Head(s).op \notin Steady => NoRetry(s) /\ NoRetry(Tail(s))
         /\ Head(s).op = "retry" =>
              /\ Head(s).node \in N
              /\ RetriesIn(Tail(s), N \ {Head(s).node})
              /\ Head(s).release => NoRetry(Tail(s))
<1> DEFINE t == Tail(s)
<1>1. /\ Head(s) = s[1] /\ 1 \in DOMAIN s /\ \A i \in DOMAIN s : i # 1 => 1 < i
      /\ \A i \in DOMAIN t : i \in Nat /\ i + 1 \in DOMAIN s /\ t[i] = s[i + 1] /\ i + 1 # 1
  OBVIOUS
<1>2. \A i \in DOMAIN s : i # 1 => i - 1 \in DOMAIN t /\ i \in Nat /\ (i - 1) + 1 = i
  OBVIOUS
<1> HIDE DEF t
<1>3. ASSUME NEW j \in DOMAIN t, t[j].op = "retry"
      PROVE  /\ t[j].node \in N
             /\ \A i \in DOMAIN t : i < j => t[i].op \in Steady
             /\ \A i \in DOMAIN t : i # j /\ t[i].op = "retry" =>
                  t[i].node # t[j].node /\ ~t[i].release
             /\ s[1].op \in Steady
             /\ s[1].op = "retry" => s[1].node # t[j].node /\ ~s[1].release
  <2>1. j + 1 \in DOMAIN s /\ t[j] = s[j + 1] /\ 1 < j + 1 /\ j + 1 # 1
    BY <1>1
  <2>2. /\ s[j + 1].node \in N
        /\ \A i \in DOMAIN s : i < j + 1 => s[i].op \in Steady
        /\ \A i \in DOMAIN s : i # j + 1 /\ s[i].op = "retry" =>
             s[i].node # s[j + 1].node /\ ~s[i].release
    BY <1>3, <2>1 DEF RetriesIn
  <2>3. \A i \in DOMAIN t : i + 1 \in DOMAIN s /\ t[i] = s[i + 1]
        /\ (i < j => i + 1 < j + 1) /\ (i # j => i + 1 # j + 1)
    BY <1>1
  <2>4. QED BY <1>1, <2>1, <2>2, <2>3
<1>4. RetriesIn(t, N)
  BY <1>3 DEF RetriesIn
<1>5. s[1].op \notin Steady => NoRetry(s) /\ NoRetry(t)
  <2>1. s[1].op \notin Steady => NoRetry(t) /\ s[1].op # "retry"
    BY <1>3 DEF NoRetry, Steady
  <2>2. ASSUME s[1].op \notin Steady, NEW i \in DOMAIN s  PROVE s[i].op # "retry"
    <3>1. CASE i = 1
      BY <2>1, <2>2, <3>1
    <3>2. CASE i # 1
      <4>1. i - 1 \in DOMAIN t /\ t[i - 1] = s[i]
        BY <1>1, <1>2, <3>2
      <4>2. QED BY <2>1, <2>2, <4>1 DEF NoRetry
    <3>3. QED BY <3>1, <3>2
  <2>3. QED BY <2>1, <2>2 DEF NoRetry
<1>6. s[1].op = "retry" => /\ s[1].node \in N
                           /\ RetriesIn(t, N \ {s[1].node})
                           /\ s[1].release => NoRetry(t)
  <2>1. s[1].op = "retry" => s[1].node \in N
    BY <1>1 DEF RetriesIn
  <2>2. s[1].op = "retry" => RetriesIn(t, N \ {s[1].node})
    BY <1>3 DEF RetriesIn
  <2>3. s[1].op = "retry" /\ s[1].release => NoRetry(t)
    BY <1>3 DEF NoRetry
  <2>4. QED BY <2>1, <2>2, <2>3
<1>7. QED BY <1>1, <1>4, <1>5, <1>6 DEF t

(* Steady calls may be made before the ones that are left.                 *)
LEMMA SteadyCalls ==
  ASSUME NEW a \in Seq(Calls), NEW s \in Seq(Calls), NEW N, RetriesIn(s, N),
         \A i \in DOMAIN a : a[i].op \in Steady \ {"retry"}
  PROVE  RetriesIn(a \o s, N)
<1> DEFINE c == a \o s
<1>1. /\ \A i \in DOMAIN c : /\ i \in Nat
                             /\ i \in DOMAIN a => c[i] = a[i]
                             /\ i \notin DOMAIN a =>
                                    i - Len(a) \in DOMAIN s /\ c[i] = s[i - Len(a)]
      /\ Len(a) \in Nat
  OBVIOUS
<1> HIDE DEF c
<1>2. ASSUME NEW j \in DOMAIN c, c[j].op = "retry"
      PROVE  /\ c[j].node \in N
             /\ \A i \in DOMAIN c : i < j => c[i].op \in Steady
             /\ \A i \in DOMAIN c : i # j /\ c[i].op = "retry" =>
                  c[i].node # c[j].node /\ ~c[i].release
  <2>1. j \notin DOMAIN a
    BY <1>1, <1>2
  <2>2. j - Len(a) \in DOMAIN s /\ c[j] = s[j - Len(a)] /\ j \in Nat
    BY <1>1, <2>1
  <2>3. /\ s[j - Len(a)].node \in N
        /\ \A i \in DOMAIN s : i < j - Len(a) => s[i].op \in Steady
        /\ \A i \in DOMAIN s : i # j - Len(a) /\ s[i].op = "retry" =>
             s[i].node # s[j - Len(a)].node /\ ~s[i].release
    BY <1>2, <2>2 DEF RetriesIn
  <2>4. ASSUME NEW i \in DOMAIN c
        PROVE  /\ i < j => c[i].op \in Steady
               /\ i # j /\ c[i].op = "retry" => c[i].node # c[j].node /\ ~c[i].release
    <3>1. CASE i \in DOMAIN a
      BY <1>1, <3>1
    <3>2. CASE i \notin DOMAIN a
      <4>1. i - Len(a) \in DOMAIN s /\ c[i] = s[i - Len(a)] /\ i \in Nat
        BY <1>1, <3>2
      <4>2. (i < j => i - Len(a) < j - Len(a)) /\ (i # j => i - Len(a) # j - Len(a))
        BY <1>1, <2>2, <4>1
      <4>3. QED BY <2>2, <2>3, <4>1, <4>2
    <3>3. QED BY <3>1, <3>2
  <2>5. QED BY <2>2, <2>3, <2>4
<1>3. QED BY <1>2 DEF RetriesIn, c

(* Calls without retries, before others without.                           *)
LEMMA NoRetryJoined ==
  ASSUME NEW a \in Seq(Calls), NEW s \in Seq(Calls), NoRetry(a), NoRetry(s)
  PROVE  NoRetry(a \o s)
<1>1. \A i \in DOMAIN (a \o s) : \/ i \in DOMAIN a /\ (a \o s)[i] = a[i]
                                 \/ i - Len(a) \in DOMAIN s /\ (a \o s)[i] = s[i - Len(a)]
  OBVIOUS
<1>2. QED BY <1>1 DEF NoRetry

(* _parked puts a node into the line once, _admitted takes it out of it.   *)
LEMMA WaitElements ==
  ASSUME waiting \in Seq(Nodes), Distinct(waiting), NEW w \in Nodes
  PROVE  /\ Wait(w) => Distinct(waiting)' /\ Elements(waiting)' = Elements(waiting) \cup {w}
         /\ Admitted(w) => Distinct(waiting)' /\ Elements(waiting)' = Elements(waiting) \ {w}
<1>1. Wait(w) => Distinct(waiting') /\ Elements(waiting') = Elements(waiting) \cup {w}
  <2>1. CASE w \in Elements(waiting)
    BY <2>1 DEF Wait
  <2>2. CASE w \notin Elements(waiting)
    BY <2>2, AppendElements DEF Wait
  <2>3. QED BY <2>1, <2>2
<1>2. Admitted(w) => Distinct(waiting') /\ Elements(waiting') = Elements(waiting) \ {w}
  BY WithoutDistinct DEF Admitted
<1>3. QED BY <1>1, <1>2 DEF Distinct, Elements

(* The three things a step does to the line keep it without repetitions.   *)
LEMMA LineKept ==
  ASSUME NodesTyped, LineShape, NEW w \in Nodes,
         UNCHANGED waiting \/ Wait(w) \/ Admitted(w), RetriesIn(todo', Requesters')
  PROVE  LineShape'
<1>1. CASE UNCHANGED waiting
  BY <1>1 DEF LineShape, Distinct
<1>2. CASE Wait(w) \/ Admitted(w)
  BY <1>2, WaitElements DEF LineShape, NodesTyped
<1>3. QED BY <1>1, <1>2

(* The stack of the handler, its first call taken off.                     *)
LEMMA TailStack ==
  ASSUME StackTyped, LineShape, todo # <<>>
  PROVE  /\ Tail(todo) \in Seq(Calls)
         /\ RetriesIn(Tail(todo), Requesters)
         /\ Head(todo).op \notin Steady => NoRetry(Tail(todo))
         /\ Head(todo).op = "retry" =>
              /\ RetriesIn(Tail(todo), Requesters \ {Head(todo).node})
              /\ Head(todo).release => NoRetry(Tail(todo))
<1>1. todo \in Seq(Calls) /\ Tail(todo) \in Seq(Calls) /\ RetriesIn(todo, Requesters)
  BY DEF StackTyped, LineShape
<1>2. QED BY <1>1, RetriesTail

(* The stack after a call that makes steady calls.                         *)
LEMMA SteadyStack ==
  ASSUME StackTyped, LineShape, todo # <<>>, NEW a \in Seq(Calls), Call(a), UNCHANGED requests,
         \A i \in DOMAIN a : a[i].op \in Steady \ {"retry"}
  PROVE  RetriesIn(todo', Requesters')
<1>1. todo \in Seq(Calls) /\ Tail(todo) \in Seq(Calls) /\ RetriesIn(todo, Requesters)
  BY DEF StackTyped, LineShape
<1>2. RetriesIn(Tail(todo), Requesters)
  BY <1>1, RetriesTail
<1>3. Requesters' = Requesters
  BY DEF Requesters, HasRequest
<1>4. QED BY <1>1, <1>2, <1>3, SteadyCalls DEF Call

(* The stack after a return.                                               *)
LEMMA ReturnStack ==
  ASSUME StackTyped, LineShape, todo # <<>>, Return, UNCHANGED requests
  PROVE  RetriesIn(todo', Requesters')
BY RetriesTail DEF StackTyped, LineShape, Return, Requesters, HasRequest

(* A call that is not steady is made with no retry left: it may return, or *)
(* make any calls but retries.                                             *)
LEMMA UnsteadyStack ==
  ASSUME StackTyped, LineShape, todo # <<>>, Head(todo).op \notin Steady
  PROVE  /\ Return => RetriesIn(todo', Requesters')
         /\ \A a \in Seq(Calls) : NoRetry(a) /\ Call(a) => RetriesIn(todo', Requesters')
<1>1. todo \in Seq(Calls) /\ Tail(todo) \in Seq(Calls) /\ RetriesIn(todo, Requesters)
  BY DEF StackTyped, LineShape
<1>2. NoRetry(Tail(todo))
  BY <1>1, RetriesTail
<1>3. ASSUME NEW a \in Seq(Calls), NoRetry(a), Call(a)  PROVE RetriesIn(todo', Requesters')
  BY <1>1, <1>2, <1>3, NoRetryJoined, NoRetryIn DEF Call
<1>4. QED BY <1>2, <1>3, NoRetryIn DEF Return

(* What the loops over nodes put on the stack.                             *)
LEMMA CallsInALoop ==
  ASSUME NEW s \in Seq(Nodes)
  PROVE  /\ \A i \in DOMAIN Each(Check, s) : Each(Check, s)[i].op = "check"
         /\ NoRetry(Each(Check, s)) /\ NoRetry(Each(Stop, s))
         /\ DOMAIN Each(Visit, s) = DOMAIN s /\ \A i \in DOMAIN s :
                Each(Visit, s)[i] = Visit(s[i])
BY DEF Each, NoRetry, Check, Stop

(* Every step keeps the line without repetitions, and a request that is    *)
(* answered or forgotten is not about to be retried.                       *)
LEMMA LineShapeStep ==
  ASSUME Typed, Shape, LineShape, [Next]_vars
  PROVE  LineShape'
<1>1. ASSUME NEW w \in Nodes, CheckSchedule(w)  PROVE LineShape'
  <2> USE <1>1 DEF Typed, CheckSchedule, still, work, gate, line, nodes, process, outcome
  <2>1. todo # <<>>
    BY DEF At, Filling
  <2>2. RetriesIn(todo', Requesters')
    <3>1. CASE Return
      BY <2>1, <3>1, ReturnStack
    <3>2. CASE ~ShuttingDown(w) /\ ~Low(w)
      <4>1. <<Rest(w)>> \in Seq(Calls)
          /\ \A i \in DOMAIN <<Rest(w)>> : <<Rest(w)>>[i].op \in Steady \ {"retry"}
        BY CallsOfNodes, CallLists DEF Steady, Rest
      <4>2. Call(<<Rest(w)>>)
        BY <3>2 DEF Call
      <4>3. QED BY <2>1, <4>1, <4>2, SteadyStack
    <3>3. CASE ~ShuttingDown(w) /\ Low(w)
      <4> DEFINE a == <<Fill(w, <<>>), Rest(w)>>
      <4>1. <<>> \in Seq(Tests)
        OBVIOUS
      <4>2. Fill(w, <<>>) \in Calls /\ Rest(w) \in Calls
        BY <4>1, CallsOfNodes
      <4>5. Fill(w, <<>>).op = "fill" /\ Rest(w).op = "rest"
        BY DEF Fill, Rest
      <4>6. a \in Seq(Calls)
        BY <4>2, CallLists
      <4>7. \A i \in DOMAIN a : a[i] \in {Fill(w, <<>>), Rest(w)}
        OBVIOUS
      <4>8. \A i \in DOMAIN a : a[i].op \in Steady \ {"retry"}
        BY <4>5, <4>7 DEF Steady
      <4>3. Call(a)
        BY <3>3 DEF Call
      <4>4. QED BY <2>1, <4>3, <4>6, <4>8, SteadyStack
    <3>4. QED BY <3>1, <3>2, <3>3
  <2>3. QED BY <2>2, LineKept DEF Granted, NotGranted, Raised
<1>2. ASSUME NEW w \in Nodes, NEW out \in Seq(Tests), NEW t \in Tests,
         FillDispatch(w, out, t)
  PROVE LineShape'
  <2> USE <1>2 DEF Typed, FillDispatch, still, work, gate, line, nodes, process, outcome
  <2>1. todo # <<>>
    BY DEF At, Filling
  <2>2. RetriesIn(todo', Requesters')
    <3> DEFINE c == Fill(w, Append(out, t))
    <3>1. c \in Calls /\ c.op = "fill"
      <4>1. Append(out, t) \in Seq(Tests)
        OBVIOUS
      <4>2. c \in Calls
        BY <4>1, CallsOfNodes
      <4>3. QED BY <4>2 DEF Fill
    <3>2. Call(<<c>>)
      OBVIOUS
    <3> HIDE DEF c
    <3>3. <<c>> \in Seq(Calls) /\ \A i \in DOMAIN <<c>> : <<c>>[i].op \in Steady \ {"retry"}
      BY <3>1, CallLists DEF Steady
    <3>4. QED BY <2>1, <3>2, <3>3, SteadyStack
  <2>3. QED BY <2>2, LineKept DEF Granted, NotGranted, Raised
<1>3. ASSUME NEW w \in Nodes, NEW out \in Seq(Tests), NEW donor \in Nodes,
         NEW chunk \in SUBSET pending,
         FillBorrow(w, out, donor, chunk)
  PROVE LineShape'
  <2> USE <1>3 DEF Typed, FillBorrow, still, work, gate, line, nodes, process, outcome
  <2> QED BY DEF LineShape, Distinct, Requesters, HasRequest
<1>4. ASSUME NEW w \in Nodes, NEW out \in Seq(Tests), FillDone(w, out)  PROVE LineShape'
  <2> USE <1>4 DEF Typed, FillDone, still, work, gate, line, nodes, process, outcome
  <2>1. todo # <<>>
    BY DEF At, Filling
  <2>2. RetriesIn(todo', Requesters')
    BY <2>1, ReturnStack DEF Send
  <2>3. QED BY <2>2, LineKept DEF Granted, NotGranted, Raised
<1>5. ASSUME NEW w \in Nodes, NEW out \in Seq(Tests), FillBlocked(w, out)  PROVE LineShape'
  <2> USE <1>5 DEF Typed, FillBlocked, still, work, gate, line, nodes, process, outcome
  <2>1. todo # <<>>
    BY DEF At, Filling
  <2>2. RetriesIn(todo', Requesters')
    BY <2>1, ReturnStack DEF Send
  <2>3. QED BY <2>2, LineKept DEF Granted, NotGranted, Raised
<1>6. ASSUME NEW w \in Nodes, NEW out \in Seq(Tests), FillRefused(w, out)  PROVE LineShape'
  <2> USE <1>6 DEF Typed, FillRefused, still, work, gate, line, nodes, process, outcome
  <2>1. todo # <<>>
    BY DEF At, Filling
  <2>2. RetriesIn(todo', Requesters')
    BY <2>1, ReturnStack DEF Send
  <2>3. QED BY <2>2, LineKept DEF Granted, NotGranted, Raised
<1>7. ASSUME NEW w \in Nodes, CheckRest(w)  PROVE LineShape'
  <2> USE <1>7 DEF Typed, CheckRest, still, work, gate, line, nodes, process, outcome
  <2>1. todo # <<>>
    BY DEF At, Filling
  <2>2. RetriesIn(todo', Requesters')
    <3>1. CASE Return
      BY <2>1, <3>1, ReturnStack
    <3>2. CASE Call(<<Shutdown(w)>>)
      <4>1. <<Shutdown(w)>> \in Seq(Calls)
          /\ \A i \in DOMAIN <<Shutdown(w)>> : <<Shutdown(w)>>[i].op \in Steady \ {"retry"}
        BY CallsOfNodes, CallLists DEF Steady, Shutdown
      <4>2. QED BY <2>1, <3>2, <4>1, SteadyStack
    <3>3. QED BY <3>1, <3>2
  <2>3. QED BY <2>2, LineKept DEF Granted, NotGranted, Raised
<1>8. ASSUME NEW w \in Nodes, ShutdownRefused(w)  PROVE LineShape'
  <2> USE <1>8 DEF Typed, ShutdownRefused, still, work, gate, line, nodes, process, outcome
  <2>1. todo # <<>>
    BY DEF At, Filling
  <2>2. RetriesIn(todo', Requesters')
    BY <2>1, ReturnStack DEF Send
  <2>3. QED BY <2>2, LineKept DEF Granted, NotGranted, Raised
<1>9. ASSUME NEW w \in Nodes, ShutdownSent(w)  PROVE LineShape'
  <2> USE <1>9 DEF Typed, ShutdownSent, still, work, gate, line, nodes, process, outcome
  <2>1. todo # <<>>
    BY DEF At, Filling
  <2>2. RetriesIn(todo', Requesters')
    <3>1. CASE Return
      BY <2>1, <3>1, ReturnStack
    <3>2. CASE Call(<<Replan(plan[w])>>)
      <4>1. <<Replan(plan[w])>> \in Seq(Calls)
          /\ \A i \in DOMAIN <<Replan(plan[w])>> :
                 <<Replan(plan[w])>>[i].op \in Steady \ {"retry"}
        BY OtherCalls, CallLists DEF Steady, Replan, WorkTyped
      <4>2. QED BY <2>1, <3>2, <4>1, SteadyStack
    <3>3. QED BY <3>1, <3>2
  <2>3. QED BY <2>2, LineKept DEF Granted, NotGranted, Raised
<1>10. ASSUME NEW w \in Nodes, ShutdownAgain(w)  PROVE LineShape'
  <2> USE <1>10 DEF Typed, ShutdownAgain, still, work, gate, line, nodes, process, outcome
  <2>1. todo # <<>>
    BY DEF At, Filling
  <2>2. RetriesIn(todo', Requesters')
    BY <2>1, ReturnStack DEF Send
  <2>3. QED BY <2>2, LineKept DEF Granted, NotGranted, Raised
<1>11. ASSUME NEW S \in SUBSET Tests, ReplanTests(S)  PROVE LineShape'
  <2> USE <1>11 DEF Typed, ReplanTests, still, work, gate, line, nodes, process, outcome
  <2>1. todo # <<>>
    BY DEF At, Filling
  <2>2. RetriesIn(todo', Requesters')
    <3>1. CASE Return
      BY <2>1, <3>1, ReturnStack
    <3>2. CASE \E order \in Orders(registered) : Call(Each(Check, order))
      <4>1. PICK order \in Orders(registered) : Call(Each(Check, order))
        BY <3>2
      <4>2. order \in Seq(Nodes)
        BY <4>1, RegisteredInOrder DEF NodesTyped
      <4>3. Each(Check, order) \in Seq(Calls)
            /\ \A i \in DOMAIN Each(Check, order) :
                   Each(Check, order)[i].op \in Steady \ {"retry"}
        BY <4>2, CallsInOrder, CallsInALoop DEF Steady
      <4>4. QED BY <2>1, <4>1, <4>3, SteadyStack
    <3>3. QED BY <3>1, <3>2
  <2>3. QED BY <2>2 DEF LineShape, Distinct
<1>12. ASSUME AdmitWaiting  PROVE LineShape'
  <2> USE <1>12 DEF Typed, AdmitWaiting, still, work, gate, line, nodes, process, outcome
  <2>1. todo # <<>> /\ Head(todo).op \notin Steady
    BY DEF At, Admit, Steady
  <2>2. NoRetry(Tail(todo)) /\ Tail(todo) \in Seq(Calls)
    BY <2>1, TailStack
  <2> DEFINE a == Each(Visit, waiting)
             s == <<Stalls>> \o Tail(todo)
             c == a \o s
  <2>3. /\ a \in Seq(Calls) /\ DOMAIN a = DOMAIN waiting
        /\ \A i \in DOMAIN waiting : a[i] = Visit(waiting[i]) /\ waiting[i] \in Nodes
    <3>1. waiting \in Seq(Nodes)
      BY DEF NodesTyped
    <3>2. \A i \in DOMAIN waiting : waiting[i] \in Nodes
      BY <3>1
    <3>3. QED BY <3>1, <3>2, CallsInOrder, CallsInALoop
  <2>4. <<Stalls>> \in Seq(Calls) /\ NoRetry(<<Stalls>>)
    BY OtherCalls, CallLists DEF NoRetry, Stalls
  <2>5. s \in Seq(Calls) /\ NoRetry(s)
    BY <2>2, <2>4, NoRetryJoined, CallLists
  <2>6. todo' = c
    <3>1. todo' = Append(a, Stalls) \o Tail(todo)
      BY DEF Call
    <3> HIDE DEF a
    <3>2. QED BY <2>2, <2>3, <2>4, <3>1
  <2> HIDE DEF a, s
  <2>7. /\ Len(a) \in Nat
        /\ \A i \in DOMAIN c : /\ i \in Nat
                               /\ i \in DOMAIN a => c[i] = a[i]
                               /\ i \notin DOMAIN a =>
                                      i - Len(a) \in DOMAIN s /\ c[i] = s[i - Len(a)]
                               /\ \A j \in DOMAIN a : i < j => i \in DOMAIN a
    BY <2>3, <2>5
  <2> HIDE DEF c
  <2>8. \A i \in DOMAIN c : i \notin DOMAIN a => c[i].op # "retry"
    BY <2>5, <2>7 DEF NoRetry
  <2>9. \A i \in DOMAIN a : /\ a[i].op \in Steady
                            /\ a[i].op = "retry" => /\ a[i].node = waiting[i] /\ ~a[i].release
                                                    /\ waiting[i] \in Requesters
    <3>1. ASSUME NEW i \in DOMAIN waiting
          PROVE  \/ Visit(waiting[i]) = [op |-> "check", node |-> waiting[i]]
                 \/ /\ waiting[i] \in Requesters
                    /\ Visit(waiting[i]) =
                         [op |-> "retry", node |-> waiting[i], release |-> FALSE]
      BY <2>3 DEF Visit, Retry, Check, Requesters
    <3>2. QED BY <2>3, <3>1 DEF Steady
  <2>10. ASSUME NEW j \in DOMAIN c, c[j].op = "retry"
         PROVE  /\ c[j].node \in Requesters
                /\ \A i \in DOMAIN c : i < j => c[i].op \in Steady
                /\ \A i \in DOMAIN c : i # j /\ c[i].op = "retry" =>
                     c[i].node # c[j].node /\ ~c[i].release
    <3>1. j \in DOMAIN a /\ c[j] = a[j] /\ a[j].node = waiting[j] /\ waiting[j] \in Requesters
      BY <2>7, <2>8, <2>9, <2>10
    <3>2. \A i \in DOMAIN c : i < j => c[i] = a[i] /\ i \in DOMAIN a
      BY <2>7, <3>1
    <3>3. \A i \in DOMAIN c : i # j /\ c[i].op = "retry" =>
            c[i].node = waiting[i] /\ ~c[i].release /\ i \in DOMAIN waiting
      BY <2>3, <2>7, <2>8, <2>9
    <3>4. QED BY <2>3, <2>9, <3>1, <3>2, <3>3 DEF LineShape, Distinct
  <2>11. RetriesIn(c, Requesters) /\ Requesters' = Requesters
    BY <2>10 DEF RetriesIn, Requesters, HasRequest
  <2>12. QED BY <2>6, <2>11 DEF LineShape, Distinct
<1>13. ASSUME ResolveNothing  PROVE LineShape'
  <2> USE <1>13 DEF Typed, ResolveNothing, still, work, gate, line, nodes, process, outcome
  <2>1. todo # <<>> /\ Head(todo).op \notin Steady
    BY DEF At, Stalls, Steady
  <2>2. RetriesIn(todo', Requesters')
    BY <2>1, UnsteadyStack
  <2>3. QED BY <2>2, Zenon DEF LineShape, Distinct
<1>14. ASSUME ResolveParked  PROVE LineShape'
  <2> USE <1>14 DEF Typed, ResolveParked, still, work, gate, line, nodes, process, outcome
  <2>1. todo # <<>> /\ Head(todo).op \notin Steady
    BY DEF Standstill, At, Stalls, Steady
  <2>2. RetriesIn(todo', Requesters')
    <3>1. PICK i \in Candidates : Call(<<Shutdown(waiting[i])>>)
      OBVIOUS
    <3>2. waiting[i] \in Nodes
      BY DEF Candidates, NodesTyped
    <3>3. <<Shutdown(waiting[i])>> \in Seq(Calls) /\ NoRetry(<<Shutdown(waiting[i])>>)
      BY <3>2, CallsOfNodes, CallLists DEF NoRetry, Shutdown
    <3>4. QED BY <2>1, <3>1, <3>3, UnsteadyStack
  <2>3. QED BY <2>2, Zenon DEF LineShape, Distinct
<1>15. ASSUME NEW w \in Nodes, ResolveForce(w)  PROVE LineShape'
  <2> USE <1>15 DEF Typed, ResolveForce, still, work, gate, line, nodes, process, outcome
  <2>1. todo # <<>> /\ Head(todo).op \notin Steady
    BY DEF Forceable, Standstill, At, Stalls, Steady
  <2>2. RetriesIn(todo', Requesters')
    <3>1. <<Check(w)>> \in Seq(Calls) /\ NoRetry(<<Check(w)>>)
      BY CallsOfNodes, CallLists DEF NoRetry, Check
    <3>2. QED BY <2>1, <3>1, UnsteadyStack
  <2>3. QED BY <2>2, LineKept DEF Granted, NotGranted, Raised
<1>16. ASSUME NEW w \in Nodes, NEW release \in BOOLEAN,
         RetryGranted(w, release)
  PROVE LineShape'
  <2> USE <1>16 DEF Typed, RetryGranted, still, work, gate, line, nodes, process, outcome
  <2>1. todo # <<>> /\ Head(todo).op = "retry" /\ Head(todo).node = w
    BY DEF At, Retry
  <2>2. RetriesIn(Tail(todo), Requesters \ {w})
    BY <2>1, TailStack
  <2>3. Requesters' = Requesters \ {w}
    BY DEF CompleteRequest, Requesters, HasRequest, NodesTyped
  <2>4. QED BY <2>2, <2>3, LineKept DEF Raised, Return
<1>17. ASSUME NEW w \in Nodes, NEW release \in BOOLEAN,
         RetryRefused(w, release)
  PROVE LineShape'
  <2> USE <1>17 DEF Typed, RetryRefused, still, work, gate, line, nodes, process, outcome
  <2>1. todo # <<>> /\ Head(todo).op = "retry" /\ Head(todo).release = release
    BY DEF At, Retry
  <2>2. RetriesIn(todo', Requesters')
    <3>1. CASE ~release
      BY <2>1, <3>1, ReturnStack
    <3>2. CASE release
      <4>1. NoRetry(Tail(todo)) /\ Tail(todo) \in Seq(Calls)
        BY <2>1, <3>2, TailStack
      <4>2. <<Admit>> \in Seq(Calls) /\ NoRetry(<<Admit>>)
        BY OtherCalls, CallLists DEF NoRetry, Admit
      <4>3. QED BY <3>2, <4>1, <4>2, NoRetryJoined, NoRetryIn DEF Call
    <3>3. QED BY <3>1, <3>2
  <2>3. QED BY <2>2, LineKept
<1>18. ASSUME NEW w \in Nodes, ResolveForceRequest(w)  PROVE LineShape'
  <2> USE <1>18 DEF Typed, ResolveForceRequest, still, work, gate, line, nodes, process, outcome
  <2>1. todo # <<>> /\ Head(todo).op \notin Steady
    BY DEF Forceable, Standstill, At, Stalls, Steady
  <2>2. RetriesIn(todo', Requesters')
    BY <2>1, UnsteadyStack
  <2>3. QED BY <2>2, LineKept DEF LineShape
<1>19. ASSUME NEW w \in Nodes, Completed(w)  PROVE LineShape'
  <2> USE <1>19 DEF Typed, Completed, still, work, gate, line, nodes, process, outcome
  <2>1. RetriesIn(todo', Requesters')
    <3> DEFINE s == <<Check(w), Admit, Loop>>
    <3>1. NoRetry(s) /\ NoRetry(<<Admit>>)
      BY DEF NoRetry, Check, Admit, Loop
    <3>2. s \in Seq(Calls) /\ <<Admit>> \in Seq(Calls)
      BY CallsOfNodes, OtherCalls, CallLists
    <3>3. PICK step \in {-1, 0, 1} : todo' = (IF step = 1 THEN <<Admit>> ELSE <<>>) \o s
      OBVIOUS
    <3> HIDE DEF s
    <3>4. CASE todo' = <<Admit>> \o s
      BY <3>1, <3>2, <3>4, NoRetryJoined, NoRetryIn
    <3>5. CASE todo' = <<>> \o s
      <4>1. <<>> \o s = s
        BY <3>2
      <4>2. QED BY <3>1, <3>5, <4>1, NoRetryIn
    <3>6. QED BY <3>3, <3>4, <3>5
  <2>2. QED BY <2>1, LineKept DEF Reserve
<1>20. ASSUME NEW w \in Nodes, HoldsChanged(w)  PROVE LineShape'
  <2> USE <1>20 DEF Typed, HoldsChanged, still, work, gate, line, nodes, process, outcome
  <2>1. RetriesIn(todo', Requesters')
    BY DEF LineShape, Requesters, HasRequest
  <2>2. QED BY <2>1, LineKept DEF LineShape
<1>21. ASSUME NEW w \in Nodes, Requested(w)  PROVE LineShape'
  <2> USE <1>21 DEF Typed, Requested, still, work, gate, line, nodes, process, outcome
  <2>1. RetriesIn(todo', Requesters')
    <3>1. CASE todo' = <<Loop>>
      <4>1. NoRetry(<<Loop>>)
        BY DEF NoRetry, Loop
      <4>2. QED BY <3>1, <4>1, NoRetryIn
    <3>2. CASE todo' = <<Retry(w, TRUE), Loop>> /\ requests'[w].id # 0
      <4>1. w \in Requesters'
        BY <3>2 DEF Requesters, HasRequest, NoRequest
      <4> DEFINE s == <<Retry(w, TRUE), Loop>>
      <4>2. DOMAIN s = {1, 2} /\ s[1].op = "retry" /\ s[1].node = w /\ s[2].op = "loop"
        BY DEF Retry, Loop
      <4> HIDE DEF s
      <4>3. RetriesIn(s, Requesters')
        BY <4>1, <4>2 DEF RetriesIn
      <4>4. QED BY <3>2, <4>3 DEF s
    <3>3. Head(events[w])[2] \in Requesting
      BY HeadMail DEF Takes
    <3>4. Head(events[w])[2].id \in 1 .. MaxAsks
      BY <3>3 DEF Requesting
    <3>5. CASE Answered(w, Head(events[w])[2])
      BY <3>1, <3>5
    <3>6. CASE ~Answered(w, Head(events[w])[2])
      <4>1. requests' = [requests EXCEPT ![w] =
              [id |-> Head(events[w])[2].id, test |-> Head(events[w])[2].test,
               key |-> Head(events[w])[2].key, cancelled |-> Head(events[w])[2].cancelled]]
            /\ todo' = <<Retry(w, TRUE), Loop>>
        BY <3>6
      <4>2. requests'[w].id = Head(events[w])[2].id
        BY <4>1 DEF NodesTyped
      <4>3. QED BY <3>2, <3>4, <4>1, <4>2, ReachesAssumption
    <3>7. QED BY <3>5, <3>6
  <2>2. QED BY <2>1, LineKept
<1>22. ASSUME NEW w \in Nodes, Crashed(w)  PROVE LineShape'
  <2> USE <1>22 DEF Typed, Crashed, RemoveNode, ReleaseRuntime, still, work, gate, line, nodes,
      process, outcome
  <2>1. RetriesIn(todo', Requesters')
    <3>1. RemoveCalls(w) \in Seq(Calls) /\ NoRetry(RemoveCalls(w))
      BY RemoveCallsTyped DEF RemoveCalls, NoRetry, Replan, Admit
    <3>2. <<Restart, Loop>> \in Seq(Calls) /\ NoRetry(<<Restart, Loop>>)
      BY OtherCalls, CallLists DEF NoRetry, Restart, Loop
    <3>3. QED BY <3>1, <3>2, NoRetryJoined, NoRetryIn
  <2>2. QED BY <2>1, LineKept
<1>23. ASSUME NEW w \in Nodes, Finished(w)  PROVE LineShape'
  <2> USE <1>23 DEF Typed, Finished, still, work, gate, line, nodes, process, outcome
  <2>1. RetriesIn(todo', Requesters')
    <3>1. CASE todo' = <<Loop>>
      <4>1. NoRetry(<<Loop>>)
        BY DEF NoRetry, Loop
      <4>2. QED BY <3>1, <4>1, NoRetryIn
    <3>2. CASE todo' = <<Admit, Remove(w), Loop>>
      <4>1. NoRetry(<<Admit, Remove(w), Loop>>)
        BY DEF NoRetry, Loop, Admit, Remove
      <4>2. QED BY <3>2, <4>1, NoRetryIn
    <3>3. QED BY <3>1, <3>2
  <2>2. QED BY <2>1, LineKept DEF ReleaseRuntime
<1>24. ASSUME NEW w \in Nodes, FinishedRemove(w)  PROVE LineShape'
  <2> USE <1>24 DEF Typed, FinishedRemove, RemoveNode, ReleaseRuntime, still, work, gate, line,
      nodes, process, outcome
  <2>1. todo # <<>> /\ Head(todo).op \notin Steady
    BY DEF At, Remove, Steady
  <2>2. RetriesIn(todo', Requesters')
    <3>1. RemoveCalls(w) \in Seq(Calls) /\ NoRetry(RemoveCalls(w))
      BY RemoveCallsTyped DEF RemoveCalls, NoRetry, Replan, Admit
    <3>2. QED BY <2>1, <3>1, UnsteadyStack
  <2>3. QED BY <2>2, LineKept DEF Granted, NotGranted, Raised
<1>25. ASSUME NEW w \in Nodes, Ready(w)  PROVE LineShape'
  <2> USE <1>25 DEF Typed, Ready, still, work, gate, line, nodes, process, outcome
  <2>1. RetriesIn(todo', Requesters')
    <3>1. CASE todo' = <<Loop>>
      <4>1. NoRetry(<<Loop>>)
        BY DEF NoRetry, Loop
      <4>2. QED BY <3>1, <4>1, NoRetryIn
    <3>2. QED BY <3>1
  <2>2. QED BY <2>1, LineKept DEF LineShape
<1>26. ASSUME NEW w \in Nodes, Collected(w)  PROVE LineShape'
  <2> USE <1>26 DEF Typed, Collected, still, work, gate, line, nodes, process, outcome
  <2>1. RetriesIn(todo', Requesters')
    <3>1. CASE todo' = <<Loop>>
      <4>1. NoRetry(<<Loop>>)
        BY DEF NoRetry, Loop
      <4>2. QED BY <3>1, <4>1, NoRetryIn
    <3>2. CASE todo' = <<Replan(Orphans), Loop>>
      <4>1. NoRetry(<<Replan(Orphans), Loop>>)
        BY DEF NoRetry, Loop, Replan
      <4>2. QED BY <3>2, <4>1, NoRetryIn
    <3>3. CASE \E order \in Orders(registered) : todo' = Append(Each(Check, order), Loop)
      <4>1. PICK order \in Orders(registered) : todo' = Append(Each(Check, order), Loop)
        BY <3>3
      <4>2. order \in Seq(Nodes)
        BY <4>1, RegisteredInOrder DEF NodesTyped
      <4>3. Each(Check, order) \in Seq(Calls) /\ NoRetry(Each(Check, order))
        BY <4>2, CallsInOrder, CallsInALoop
      <4>4. NoRetry(<<Loop>>) /\ <<Loop>> \in Seq(Calls) /\ Loop \in Calls
        BY OtherCalls, CallLists DEF NoRetry, Loop
      <4>5. todo' = Each(Check, order) \o <<Loop>>
        BY <4>1, <4>3, <4>4
      <4>6. QED BY <4>3, <4>4, <4>5, NoRetryJoined, NoRetryIn
    <3>4. QED BY <3>1, <3>2, <3>3
  <2>2. QED BY <2>1, LineKept DEF LineShape
<1>27. ASSUME RestartNode  PROVE LineShape'
  <2> USE <1>27 DEF Typed, RestartNode, still, work, gate, line, nodes, process, outcome
  <2>1. todo # <<>> /\ Head(todo).op \notin Steady
    BY DEF At, Restart, Steady
  <2>2. RetriesIn(todo', Requesters')
    <3>1. CASE Return
      BY <2>1, <3>1, UnsteadyStack
    <3>2. CASE \E order \in Orders(registered) : Call(Each(Stop, order))
      <4>1. PICK order \in Orders(registered) : Call(Each(Stop, order))
        BY <3>2
      <4>2. order \in Seq(Nodes)
        BY <4>1, RegisteredInOrder DEF NodesTyped
      <4>3. Each(Stop, order) \in Seq(Calls) /\ NoRetry(Each(Stop, order))
        BY <4>2, CallsInOrder, CallsInALoop
      <4>4. QED BY <2>1, <4>1, <4>3, UnsteadyStack
    <3>3. QED BY <3>1, <3>2 DEF TriggerShutdown
  <2>3. QED BY <2>2, Zenon DEF LineShape, Distinct
<1>28. ASSUME LoopOnce  PROVE LineShape'
  <2> USE <1>28 DEF Typed, LoopOnce, still, work, gate, line, nodes, process, outcome
  <2>1. todo # <<>> /\ Head(todo).op \notin Steady
    BY DEF At, Loop, Steady
  <2>2. RetriesIn(todo', Requesters')
    <3>1. CASE Return
      BY <2>1, <3>1, UnsteadyStack
    <3>2. CASE \E order \in Orders(registered) : Call(Each(Stop, order))
      <4>1. PICK order \in Orders(registered) : Call(Each(Stop, order))
        BY <3>2
      <4>2. order \in Seq(Nodes)
        BY <4>1, RegisteredInOrder DEF NodesTyped
      <4>3. Each(Stop, order) \in Seq(Calls) /\ NoRetry(Each(Stop, order))
        BY <4>2, CallsInOrder, CallsInALoop
      <4>4. QED BY <2>1, <4>1, <4>3, UnsteadyStack
    <3>3. QED BY <3>1, <3>2 DEF TriggerShutdown
  <2>3. QED BY <2>2, Zenon DEF LineShape, Distinct
<1>29. ASSUME NEW w \in Nodes, StopGranted(w)  PROVE LineShape'
  <2> USE <1>29 DEF Typed, StopGranted, still, work, gate, line, nodes, process, outcome
  <2>1. todo # <<>> /\ Head(todo).op \notin Steady
    BY DEF At, Stop, Steady
  <2>2. RetriesIn(todo', Requesters')
    BY <2>1, UnsteadyStack
  <2>3. QED BY <2>2, LineKept DEF Granted, NotGranted, Raised
<1>30. ASSUME NEW w \in Nodes, StopBlocked(w)  PROVE LineShape'
  <2> USE <1>30 DEF Typed, StopBlocked, still, work, gate, line, nodes, process, outcome
  <2>1. todo # <<>> /\ Head(todo).op \notin Steady
    BY DEF At, Stop, Steady
  <2>2. RetriesIn(todo', Requesters')
    BY <2>1, UnsteadyStack
  <2>3. QED BY <2>2, LineKept DEF Granted, NotGranted, Raised
<1>31. ASSUME NEW w \in Nodes, StopWithdraws(w)  PROVE LineShape'
  <2> USE <1>31 DEF Typed, StopWithdraws, still, work, gate, line, nodes, process, outcome
  <2>1. todo # <<>> /\ Head(todo).op \notin Steady
    BY DEF At, Stop, Steady
  <2>2. RetriesIn(todo', Requesters')
    BY <2>1, UnsteadyStack
  <2>3. QED BY <2>2, LineKept DEF Granted, NotGranted, Raised
<1>32. ASSUME NEW w \in Nodes, Boot(w)  PROVE LineShape'
  <2> USE <1>32 DEF Typed, Boot, central, work, gate, line, nodes, process, outcome
  <2> QED BY DEF LineShape, Distinct, Requesters, HasRequest
<1>33. ASSUME NEW w \in Nodes, StartTest(w)  PROVE LineShape'
  <2> USE <1>33 DEF Typed, StartTest, central, work, gate, line, nodes, process, outcome
  <2> QED BY DEF LineShape, Distinct, Requesters, HasRequest
<1>34. ASSUME NEW w \in Nodes, SkipTest(w)  PROVE LineShape'
  <2> USE <1>34 DEF Typed, SkipTest, central, work, gate, line, nodes, process, outcome
  <2> QED BY DEF LineShape, Distinct, Requesters, HasRequest
<1>35. ASSUME NEW w \in Nodes, FinishTest(w)  PROVE LineShape'
  <2> USE <1>35 DEF Typed, FinishTest, central, work, gate, line, nodes, process, outcome
  <2> QED BY DEF LineShape, Distinct, Requesters, HasRequest
<1>36. ASSUME NEW w \in Nodes, Ask(w)  PROVE LineShape'
  <2> USE <1>36 DEF Typed, Ask, central, work, gate, line, nodes, process, outcome
  <2> QED BY DEF LineShape, Distinct, Requesters, HasRequest
<1>37. ASSUME NEW w \in Nodes, GiveUp(w)  PROVE LineShape'
  <2> USE <1>37 DEF Typed, GiveUp, central, work, gate, line, nodes, process, outcome
  <2> QED BY DEF LineShape, Distinct, Requesters, HasRequest
<1>38. ASSUME NEW w \in Nodes, GrantArrives(w)  PROVE LineShape'
  <2> USE <1>38 DEF Typed, GrantArrives, central, work, gate, line, nodes, process, outcome
  <2> QED BY DEF LineShape, Distinct, Requesters, HasRequest
<1>39. ASSUME NEW w \in Nodes, NEW reached \in BOOLEAN, GoOn(w, reached)  PROVE LineShape'
  <2> USE <1>39 DEF Typed, GoOn, central, work, gate, line, nodes, process, outcome
  <2> QED BY DEF LineShape, Distinct, Requesters, HasRequest
<1>40. ASSUME NEW w \in Nodes, Exit(w)  PROVE LineShape'
  <2> USE <1>40 DEF Typed, Exit, Leave, central, work, gate, line, nodes, process, outcome
  <2> QED BY DEF LineShape, Distinct, Requesters, HasRequest
<1>41. ASSUME NEW w \in Nodes, Crash(w)  PROVE LineShape'
  <2> USE <1>41 DEF Typed, Crash, Leave, central, work, gate, line, nodes, process, outcome
  <2> QED BY DEF LineShape, Distinct, Requesters, HasRequest
<1>42. ASSUME UNCHANGED vars  PROVE LineShape'
  BY <1>42 DEF vars, nodes, line, LineShape, Distinct, Requesters, HasRequest
<1>43. /\ AtOp("fill") => Head(todo).out \in Seq(Tests)
       /\ AtOp("replan") => Head(todo).tests \in SUBSET Tests
  BY StackMoves, CallFields DEF Typed, AtOp
<1>44. ASSUME NEW w \in Nodes, AtOp("fill"), Filler(w, Head(todo).out)  PROVE LineShape'
  BY <1>44, <1>43, <1>2, <1>3, <1>4, <1>5, <1>6 DEF Filler
<1>45. ASSUME NEW w \in Nodes, Common(w)  PROVE LineShape'
  BY <1>45, <1>8, <1>9, <1>10,
     <1>19, <1>20, <1>23, <1>25, <1>26,
     <1>29, <1>30, <1>31,
     <1>21, <1>15, <1>18, <1>16, <1>17 DEF Common
<1>46. ASSUME Anywhere  PROVE LineShape'
  BY <1>46, <1>43, <1>11, <1>12, <1>13, <1>14, <1>27
  DEF Anywhere
<1>47. ASSUME Controller  PROVE LineShape'
  BY <1>47, <1>44, <1>45, <1>46, <1>1, <1>7, <1>22, <1>24, <1>28
  DEF Controller
<1>48. ASSUME NEW w \in Nodes, Worker(w)  PROVE LineShape'
  BY <1>48, <1>32, <1>33, <1>34, <1>35, <1>40, <1>36, <1>38, <1>39 DEF Worker
<1>49. QED BY <1>42, <1>47, <1>48, <1>37, <1>41 DEF Next, Stopped

(* At the start nobody waits.                                              *)
LEMMA LineShapeInit == Init => LineShape
<1>1. ASSUME Init  PROVE LineShape
  <2>1. DOMAIN todo = {1, 2} /\ todo[1].op = "replan" /\ todo[2].op = "loop" /\ waiting = <<>>
    BY <1>1 DEF Init, Start, Replan, Loop
  <2>2. QED BY <2>1 DEF LineShape, Distinct, RetriesIn
<1>2. QED BY <1>1

(* A charge: what a test needs at its peak, what is held after it, and the *)
(* fixtures in it.                                                         *)
Charges == [peak : Nat, holds : Nat, parts : SUBSET Fixtures]

(* The gate: what each worker asks for and has reserved, the limit, and    *)
(* what was granted beyond it.                                             *)
GateTyped ==
  /\ ask \in [Nodes -> Nat]
  /\ limit \in 1 .. Budget
  /\ reserved \in [Nodes -> [slots : Nat, busy : BOOLEAN]]
  /\ forced \in Nat

(* What tests cost and workers have reserved is a number of slots, and     *)
(* what a permit was granted for is a request that was sent.               *)
Priced ==
  /\ GateTyped
  /\ charge \in [Tests -> Charges]
  /\ moves \in 0 .. MaxMoves
  /\ grants \in [Nodes -> Seq(1 .. MaxAsks)]

(* The request that is retried is one the scheduler keeps.                 *)
LEMMA RequesterRetried ==
  ASSUME StackTyped, LineShape, NEW w \in Nodes, NEW release \in BOOLEAN, At(Retry(w, release))
  PROVE  HasRequest(w)
<1>1. 1 \in DOMAIN todo /\ todo[1].op = "retry" /\ todo[1].node = w
  BY DEF At, Retry, StackTyped
<1>2. todo[1].node \in Requesters
  BY <1>1 DEF LineShape, RetriesIn
<1>3. QED BY <1>1, <1>2 DEF Requesters

(* A request the scheduler keeps is one a worker sent.                     *)
LEMMA RequestFields ==
  ASSUME NodesTyped, NEW w \in Nodes, HasRequest(w)
  PROVE  /\ requests[w] \in [id : 1 .. MaxAsks, test : Tests, key : Fixtures, cancelled : BOOLEAN]
         /\ requests[w].id \in 1 .. MaxAsks /\ requests[w].test \in Tests
         /\ requests[w].key \in Fixtures /\ requests[w].cancelled \in BOOLEAN
BY DEF NodesTyped, HasRequest

(* What a worker holds is a number of slots, and the last snapshot of it   *)
(* when there is one.                                                      *)
LEMMA HoldsNat ==
  ASSUME WorkTyped, NodesTyped, NEW w \in Nodes
  PROVE  /\ Holds(w) \in Nat /\ Larger(0, live[w]) \in Nat
         /\ live[w] # NoSnapshot => Holds(w) = live[w] /\ Larger(0, live[w]) = live[w]
<1>1. HoldOf(fixtures[w]) \in Nat /\ live[w] \in Nat \cup {NoSnapshot}
  BY HoldOfNat DEF WorkTyped, NodesTyped
<1>2. QED BY <1>1 DEF Holds, Larger, NoSnapshot

(* A node may run nothing but tests of its queue that were not withdrawn.  *)
LEMMA QueuedTests ==
  ASSUME NEW w \in Nodes, NEW q \in Seq(Tests)
  PROVE  /\ Elements(q) \in SUBSET Tests
         /\ Sendable(w, q) \subseteq Elements(q) \ withdrawn
         /\ GrantedOf(w, q) \subseteq Elements(q) \ withdrawn
<1>1. Elements(q) \in SUBSET Tests
  BY DEF Elements
<1>2. \A i \in 1 .. Len(q) - 1 : i \in DOMAIN q
  OBVIOUS
<1>3. \A i \in 1 .. Len(q) : i \in DOMAIN q
  OBVIOUS
<1>4. Sendable(w, q) \subseteq Elements(q) \ withdrawn
  BY <1>2, <1>3 DEF Sendable, Elements
<1>5. QED BY <1>1, <1>4 DEF GrantedOf

(* The values of a function on a finite set are finitely many.             *)
LEMMA ImageFinite ==
  ASSUME NEW S, IsFiniteSet(S), NEW f, DOMAIN f = S
  PROVE  IsFiniteSet({f[x] : x \in S})
<1> DEFINE T == {f[x] : x \in S}
           g == [x \in S |-> f[x]]
<1>1. g \in Surjection(S, T)
  BY DEF Surjection
<1> HIDE DEF T, g
<1>2. IsFiniteSet(T)
  BY <1>1, FS_Surjection
<1>3. QED BY <1>2 DEF T

(* _need is a number of slots, as many as any of the tests takes.          *)
LEMMA NeedNat ==
  ASSUME WorkTyped, NodesTyped, charge \in [Tests -> Charges], NEW w \in Nodes,
         NEW S \in SUBSET Tests
  PROVE  /\ Need(w, S) \in Nat
         /\ \A t \in S \ withdrawn : WithLiveHolds(charge[t], Larger(0, live[w])) <= Need(w, S)
<1> DEFINE run == S \ withdrawn
           N == {WithLiveHolds(charge[t], Larger(0, live[w])) : t \in run}
<1>1. CASE run = {}
  BY <1>1, HoldsNat DEF Need
<1>2. CASE run # {}
  <2>1. IsFiniteSet(run)
    BY TestsAssumption, FS_Subset
  <2>2. IsFiniteSet(N)
    <3> DEFINE f == [t \in run |-> WithLiveHolds(charge[t], Larger(0, live[w]))]
    <3>1. N = {f[t] : t \in run} /\ DOMAIN f = run
      OBVIOUS
    <3> HIDE DEF f, N, run
    <3>2. QED BY <2>1, <3>1, ImageFinite
  <2>3. N \subseteq Nat
    <3>1. ASSUME NEW t \in run  PROVE WithLiveHolds(charge[t], Larger(0, live[w])) \in Nat
      <4>1. charge[t] \in Charges /\ Larger(0, live[w]) \in Nat
        BY HoldsNat
      <4>2. QED BY <4>1, WithLiveHoldsNat DEF Charges
    <3>2. QED BY <3>1
  <2>4. N # {} /\ Need(w, S) = Greatest(N)
    BY <1>2 DEF Need
  <2> HIDE DEF N
  <2>5. Greatest(N) \in N /\ \A m \in N : m <= Greatest(N)
    BY <2>2, <2>3, <2>4, GreatestMember
  <2>6. QED BY <2>3, <2>4, <2>5 DEF N
<1>3. QED BY <1>1, <1>2

(* So is the need of the tests a node may run.                             *)
LEMMA TailNeedNat ==
  ASSUME WorkTyped, NodesTyped, charge \in [Tests -> Charges], NEW w \in Nodes
  PROVE  TailNeed(w) \in Nat
<1>1. Elements(queue[w]) \in SUBSET Tests
  BY QueuedTests DEF WorkTyped
<1>2. QED BY <1>1, NeedNat DEF TailNeed

(* The charge of a test that grew by a fixture is a charge, and its need a *)
(* number of slots.                                                        *)
LEMMA RequestTyped ==
  ASSUME WorkTyped, NodesTyped, charge \in [Tests -> Charges], NEW w \in Nodes, HasRequest(w)
  PROVE  RequestCharges(w) \in [Tests -> Charges] /\ RequestNeed(w) \in Nat
<1> DEFINE r == requests[w]
<1>1. r.test \in Tests /\ r.key \in Fixtures
  BY RequestFields
<1>2. Holds(w) \in Nat
  BY HoldsNat
<1>3. SetupSlots[r.key] \in Nat
  BY <1>1, SetupAssumption
<1>4. RequestCharges(w) \in [Tests -> Charges]
  <2>1. ASSUME NEW t \in Tests
        PROVE  /\ charge[t] \in Charges
               /\ AddingFixture(charge[t], r.key, SetupSlots[r.key], Holds(w)) \in Charges
               /\ AddingFixture(charge[t], r.key, 0, 0) \in Charges
    <3>1. charge[t] \in Charges
      OBVIOUS
    <3>2. QED BY <1>1, <1>2, <1>3, <3>1, AddingFixtureTyped DEF Charges
  <2>2. QED BY <2>1 DEF RequestCharges
<1> DEFINE T == (Sendable(w, queue[w]) \cup {r.test}) \ withdrawn
           setup == IF r.cancelled THEN 0 ELSE SetupSlots[r.key]
           N == {setup + Holds(w)} \cup {WithLiveHolds(RequestCharges(w)[t], Holds(w)) : t \in T}
<1>5. T \in SUBSET Tests
  BY <1>1, QueuedTests DEF WorkTyped
<1>6. IsFiniteSet(T)
  BY <1>5, TestsAssumption, FS_Subset
<1> DEFINE M == {WithLiveHolds(RequestCharges(w)[t], Holds(w)) : t \in T}
<1>7. IsFiniteSet(M)
  <2> DEFINE f == [t \in T |-> WithLiveHolds(RequestCharges(w)[t], Holds(w))]
  <2>1. M = {f[t] : t \in T} /\ DOMAIN f = T
    OBVIOUS
  <2> HIDE DEF f, M, T
  <2>2. QED BY <1>6, <2>1, ImageFinite
<1>8. M \subseteq Nat
  <2>1. ASSUME NEW t \in T  PROVE WithLiveHolds(RequestCharges(w)[t], Holds(w)) \in Nat
    <3>1. RequestCharges(w)[t] \in Charges
      BY <1>4, <1>5
    <3>2. QED BY <1>2, <3>1, WithLiveHoldsNat DEF Charges
  <2>2. QED BY <2>1
<1>9. setup + Holds(w) \in Nat
  BY <1>2, <1>3
<1> HIDE DEF M, setup
<1>10. IsFiniteSet(M \cup {setup + Holds(w)}) /\ M \cup {setup + Holds(w)} \subseteq Nat
  BY <1>7, <1>8, <1>9, FS_AddElement
<1>11. Greatest(M \cup {setup + Holds(w)}) \in Nat
  BY <1>10, GreatestMember
<1>12. RequestNeed(w) = Greatest(N)
  BY DEF RequestNeed, setup
<1>13. N = M \cup {setup + Holds(w)}
  BY DEF M
<1>14. QED BY <1>4, <1>11, <1>12, <1>13

(* Reserving slots for a node keeps the gate typed.                        *)
LEMMA AssignedTyped ==
  ASSUME GateTyped, NEW w \in Nodes, NEW slots \in Nat, NEW busy \in BOOLEAN,
         Assign(w, slots, busy)
  PROVE  reserved' \in [Nodes -> [slots : Nat, busy : BOOLEAN]] /\ forced' \in Nat
BY DEF GateTyped, Assign

(* Leaving the line keeps it typed.                                        *)
LEMMA AdmittedTyped ==
  ASSUME GateTyped, NEW w \in Nodes, Admitted(w)
  PROVE  ask' \in [Nodes -> Nat]
BY DEF GateTyped, Admitted

(* Raising a reservation keeps the gate typed.                             *)
LEMMA RaisedTyped ==
  ASSUME GateTyped, NEW w \in Nodes, NEW need \in Nat, Raised(w, need)
  PROVE  GateTyped'
<1>1. ask' \in [Nodes -> Nat]
  BY AdmittedTyped DEF Raised
<1>2. G!Clamp(need) \in Nat
  BY BudgetAssumption DEF GateTyped, G!Clamp, G!Least
<1>3. reserved' \in [Nodes -> [slots : Nat, busy : BOOLEAN]]
  <2>1. CASE reserved' = [reserved EXCEPT ![w].busy = TRUE]
    BY <2>1 DEF GateTyped
  <2>2. CASE reserved' = [reserved EXCEPT ![w] = [slots |-> G!Clamp(need), busy |-> TRUE]]
    BY <1>2, <2>2 DEF GateTyped
  <2>3. QED BY <2>1, <2>2 DEF Raised
<1>4. QED BY <1>1, <1>3 DEF GateTyped, Raised

(* Reserving what a queue needs keeps the gate typed.                      *)
LEMMA ReservedTyped ==
  ASSUME GateTyped, WorkTyped, NodesTyped, charge \in [Tests -> Charges], NEW w \in Nodes,
         NEW q \in Seq(Tests), Reserve(w, q)
  PROVE  reserved' \in [Nodes -> [slots : Nat, busy : BOOLEAN]] /\ forced' \in Nat
<1>1. Need(w, GrantedOf(w, q)) \in Nat /\ (GrantedOf(w, q) # {}) \in BOOLEAN
  BY QueuedTests, NeedNat
<1>2. QED BY <1>1, AssignedTyped DEF Reserve

(* Being refused keeps the gate typed.                                     *)
LEMMA NotGrantedTyped ==
  ASSUME GateTyped, WorkTyped, NodesTyped, charge \in [Tests -> Charges], NEW w \in Nodes,
         NotGranted(w)
  PROVE  GateTyped'
BY TailNeedNat DEF NotGranted, gate, line, GateTyped

(* Granting a request keeps costs and permits typed.                       *)
LEMMA CompletedRequestTyped ==
  ASSUME Priced, WorkTyped, NodesTyped, NEW w \in Nodes, HasRequest(w), CompleteRequest(w)
  PROVE  /\ charge' \in [Tests -> Charges] /\ moves' \in 0 .. MaxMoves
         /\ grants' \in [Nodes -> Seq(1 .. MaxAsks)]
<1>1. requests[w].id \in 1 .. MaxAsks
  BY RequestFields
<1>2. Append(grants[w], requests[w].id) \in Seq(1 .. MaxAsks)
  BY <1>1 DEF Priced
<1>3. grants' \in [Nodes -> Seq(1 .. MaxAsks)]
  BY <1>2 DEF Priced, CompleteRequest
<1>4. charge' \in [Tests -> Charges]
  BY RequestTyped DEF Priced, CompleteRequest, Learnt
<1>5. QED BY <1>3, <1>4 DEF Priced, CompleteRequest

(* Every step keeps costs, reservations and permits typed.                 *)
LEMMA PricedStep ==
  ASSUME Typed, Shape, LineShape, Priced, [Next]_vars
  PROVE  Priced'
<1>1. ASSUME NEW w \in Nodes, CheckSchedule(w)  PROVE Priced'
  <2> USE <1>1 DEF Typed, CheckSchedule, still, work, gate, line, nodes, process, outcome
  <2> QED BY DEF Priced, GateTyped
<1>2. ASSUME NEW w \in Nodes, NEW out \in Seq(Tests), NEW t \in Tests,
         FillDispatch(w, out, t)
  PROVE Priced'
  <2> USE <1>2 DEF Typed, FillDispatch, still, work, gate, line, nodes, process, outcome
  <2>1. TailNeed(w) \in Nat
    BY TailNeedNat DEF Priced
  <2>2. GateTyped'
    BY <2>1, RaisedTyped DEF Priced, GateTyped, Granted
  <2>3. Charge(t, fixtures[w]) \in Charges
    BY CostsTyped DEF WorkTyped, Charges
  <2>4. QED BY <2>1, <2>2, <2>3 DEF Priced, GateTyped
<1>3. ASSUME NEW w \in Nodes, NEW out \in Seq(Tests), NEW donor \in Nodes,
         NEW chunk \in SUBSET pending,
         FillBorrow(w, out, donor, chunk)
  PROVE Priced'
  <2> USE <1>3 DEF Typed, FillBorrow, still, work, gate, line, nodes, process, outcome
  <2> QED BY DEF Priced, GateTyped
<1>4. ASSUME NEW w \in Nodes, NEW out \in Seq(Tests), FillDone(w, out)  PROVE Priced'
  <2> USE <1>4 DEF Typed, FillDone, still, work, gate, line, nodes, process, outcome
  <2> QED BY DEF Priced, GateTyped
<1>5. ASSUME NEW w \in Nodes, NEW out \in Seq(Tests), FillBlocked(w, out)  PROVE Priced'
  <2> USE <1>5 DEF Typed, FillBlocked, still, work, gate, line, nodes, process, outcome
  <2> QED BY DEF Priced, GateTyped
<1>6. ASSUME NEW w \in Nodes, NEW out \in Seq(Tests), FillRefused(w, out)  PROVE Priced'
  <2> USE <1>6 DEF Typed, FillRefused, still, work, gate, line, nodes, process, outcome
  <2>1. GateTyped'
    BY NotGrantedTyped DEF Priced
  <2>2. QED BY <2>1 DEF Priced, GateTyped
<1>7. ASSUME NEW w \in Nodes, CheckRest(w)  PROVE Priced'
  <2> USE <1>7 DEF Typed, CheckRest, still, work, gate, line, nodes, process, outcome
  <2> QED BY DEF Priced, GateTyped
<1>8. ASSUME NEW w \in Nodes, ShutdownRefused(w)  PROVE Priced'
  <2> USE <1>8 DEF Typed, ShutdownRefused, still, work, gate, line, nodes, process, outcome
  <2>1. GateTyped'
    BY NotGrantedTyped DEF Priced
  <2>2. QED BY <2>1 DEF Priced, GateTyped
<1>9. ASSUME NEW w \in Nodes, ShutdownSent(w)  PROVE Priced'
  <2> USE <1>9 DEF Typed, ShutdownSent, still, work, gate, line, nodes, process, outcome
  <2>1. TailNeed(w) \in Nat
    BY TailNeedNat DEF Priced
  <2>2. GateTyped'
    BY <2>1, RaisedTyped DEF Priced, GateTyped, Granted
  <2>3. QED BY <2>1, <2>2 DEF Priced, GateTyped
<1>10. ASSUME NEW w \in Nodes, ShutdownAgain(w)  PROVE Priced'
  <2> USE <1>10 DEF Typed, ShutdownAgain, still, work, gate, line, nodes, process, outcome
  <2> QED BY DEF Priced, GateTyped
<1>11. ASSUME NEW S \in SUBSET Tests, ReplanTests(S)  PROVE Priced'
  <2> USE <1>11 DEF Typed, ReplanTests, still, work, gate, line, nodes, process, outcome
  <2> QED BY DEF Priced, GateTyped
<1>12. ASSUME AdmitWaiting  PROVE Priced'
  <2> USE <1>12 DEF Typed, AdmitWaiting, still, work, gate, line, nodes, process, outcome
  <2> QED BY DEF Priced, GateTyped
<1>13. ASSUME ResolveNothing  PROVE Priced'
  <2> USE <1>13 DEF Typed, ResolveNothing, still, work, gate, line, nodes, process, outcome
  <2> QED BY DEF Priced, GateTyped
<1>14. ASSUME ResolveParked  PROVE Priced'
  <2> USE <1>14 DEF Typed, ResolveParked, still, work, gate, line, nodes, process, outcome
  <2> QED BY DEF Priced, GateTyped
<1>15. ASSUME NEW w \in Nodes, ResolveForce(w)  PROVE Priced'
  <2> USE <1>15 DEF Typed, ResolveForce, still, work, gate, line, nodes, process, outcome
  <2>1. TailNeed(w) \in Nat
    BY TailNeedNat DEF Priced
  <2>2. reserved' \in [Nodes -> [slots : Nat, busy : BOOLEAN]] /\ forced' \in Nat
    BY <2>1, AssignedTyped DEF Priced
  <2>3. ask' \in [Nodes -> Nat]
    BY AdmittedTyped DEF Priced
  <2>4. QED BY <2>1, <2>2, <2>3 DEF Priced, GateTyped
<1>16. ASSUME NEW w \in Nodes, NEW release \in BOOLEAN, RetryGranted(w, release)  PROVE Priced'
  <2> USE <1>16 DEF Typed, RetryGranted, still, work, gate, line, nodes, process, outcome
  <2>1. HasRequest(w)
    BY RequesterRetried
  <2>2. RequestNeed(w) \in Nat
    BY <2>1, RequestTyped DEF Priced
  <2>3. GateTyped'
    BY <2>2, RaisedTyped DEF Priced
  <2>4. charge' \in [Tests -> Charges] /\ moves' \in 0 .. MaxMoves
        /\ grants' \in [Nodes -> Seq(1 .. MaxAsks)]
    BY <2>1, CompletedRequestTyped
  <2>5. QED BY <2>1, <2>2, <2>3, <2>4 DEF Priced, GateTyped
<1>17. ASSUME NEW w \in Nodes, NEW release \in BOOLEAN, RetryRefused(w, release)  PROVE Priced'
  <2> USE <1>17 DEF Typed, RetryRefused, still, work, gate, line, nodes, process, outcome
  <2>1. HasRequest(w)
    BY RequesterRetried
  <2>2. RequestNeed(w) \in Nat
    BY <2>1, RequestTyped DEF Priced
  <2>3. QED BY <2>1, <2>2 DEF Priced, GateTyped
<1>18. ASSUME NEW w \in Nodes, ResolveForceRequest(w)  PROVE Priced'
  <2> USE <1>18 DEF Typed, ResolveForceRequest, still, work, gate, line, nodes, process, outcome
  <2>1. RequestNeed(w) \in Nat
    BY RequestTyped DEF Priced
  <2>2. reserved' \in [Nodes -> [slots : Nat, busy : BOOLEAN]] /\ forced' \in Nat
    BY <2>1, AssignedTyped DEF Priced
  <2>3. ask' \in [Nodes -> Nat]
    BY AdmittedTyped DEF Priced
  <2>4. charge' \in [Tests -> Charges] /\ moves' \in 0 .. MaxMoves
        /\ grants' \in [Nodes -> Seq(1 .. MaxAsks)]
    BY CompletedRequestTyped
  <2>5. QED BY <2>1, <2>2, <2>3, <2>4 DEF Priced, GateTyped
<1>19. ASSUME NEW w \in Nodes, Completed(w)  PROVE Priced'
  <2> USE <1>19 DEF Typed, Completed, still, work, gate, line, nodes, process, outcome
  <2>1. Head(events[w])[2] \in Tests
    BY HeadMail DEF Takes
  <2>2. G!Without(queue[w], Head(events[w])[2]) \in Seq(Tests)
    BY WithoutTyped DEF WorkTyped
  <2>3. reserved' \in [Nodes -> [slots : Nat, busy : BOOLEAN]] /\ forced' \in Nat
    BY <2>2, ReservedTyped DEF Priced
  <2>4. ask' \in [Nodes -> Nat]
    BY AdmittedTyped DEF Priced, GateTyped
  <2>5. charge' \in [Tests -> Charges]
    BY <2>1 DEF Priced, NoCharge, Charges
  <2>6. limit' \in 1 .. Budget /\ moves' \in 0 .. MaxMoves
    BY CrashesAssumption, BudgetAssumption DEF Priced, GateTyped, MayMove
  <2>7. QED BY <2>1, <2>2, <2>3, <2>4, <2>5, <2>6 DEF Priced, GateTyped
<1>20. ASSUME NEW w \in Nodes, HoldsChanged(w)  PROVE Priced'
  <2> USE <1>20 DEF Typed, HoldsChanged, still, work, gate, line, nodes, process, outcome
  <2> QED BY DEF Priced, GateTyped
<1>21. ASSUME NEW w \in Nodes, Requested(w)  PROVE Priced'
  <2> USE <1>21 DEF Typed, Requested, still, work, gate, line, nodes, process, outcome
  <2>1. Head(events[w])[2].holds \in Nat
    BY HeadMail DEF Takes, Requesting
  <2>2. reserved' \in [Nodes -> [slots : Nat, busy : BOOLEAN]] /\ forced' \in Nat
    BY <2>1, AssignedTyped DEF Priced, GateTyped
  <2>3. ask' \in [Nodes -> Nat]
    BY AdmittedTyped DEF Priced, GateTyped
  <2>4. QED BY <2>1, <2>2, <2>3 DEF Priced, GateTyped
<1>22. ASSUME NEW w \in Nodes, Crashed(w)  PROVE Priced'
  <2> USE <1>22 DEF Typed, Crashed, RemoveNode, ReleaseRuntime, still, work, gate, line, nodes,
      process, outcome
  <2>1. ask' \in [Nodes -> Nat]
    BY AdmittedTyped DEF Priced
  <2>2. charge' \in [Tests -> Charges]
    BY DEF Priced, NoCharge, Charges
  <2>3. reserved' \in [Nodes -> [slots : Nat, busy : BOOLEAN]]
    BY DEF Priced, GateTyped, NoReservation
  <2>4. QED BY <2>1, <2>2, <2>3 DEF Priced, GateTyped
<1>23. ASSUME NEW w \in Nodes, Finished(w)  PROVE Priced'
  <2> USE <1>23 DEF Typed, Finished, still, work, gate, line, nodes, process, outcome
  <2>1. CASE w \in registered
    <3>1. ReleaseRuntime(w)
      BY <2>1
    <3>2. ask' \in [Nodes -> Nat]
      BY <3>1, AdmittedTyped DEF Priced, ReleaseRuntime
    <3>3. reserved' = [reserved EXCEPT ![w] = NoReservation] /\ limit' = limit /\ forced' = forced
      BY <3>1 DEF ReleaseRuntime
    <3>4. NoReservation \in [slots : Nat, busy : BOOLEAN]
      BY DEF NoReservation
    <3>5. QED BY <3>2, <3>3, <3>4 DEF Priced, GateTyped
  <2>2. CASE w \notin registered
    BY <2>2 DEF Priced, GateTyped
  <2>3. QED BY <2>1, <2>2
<1>24. ASSUME NEW w \in Nodes, FinishedRemove(w)  PROVE Priced'
  <2> USE <1>24 DEF Typed, FinishedRemove, RemoveNode, ReleaseRuntime, still, work, gate, line,
      nodes, process, outcome
  <2>1. ask' \in [Nodes -> Nat]
    BY AdmittedTyped DEF Priced
  <2>2. charge' \in [Tests -> Charges]
    BY DEF Priced, NoCharge, Charges
  <2>3. reserved' \in [Nodes -> [slots : Nat, busy : BOOLEAN]]
    BY DEF Priced, GateTyped, NoReservation
  <2>4. QED BY <2>1, <2>2, <2>3 DEF Priced, GateTyped
<1>25. ASSUME NEW w \in Nodes, Ready(w)  PROVE Priced'
  <2> USE <1>25 DEF Typed, Ready, still, work, gate, line, nodes, process, outcome
  <2> QED BY DEF Priced, GateTyped
<1>26. ASSUME NEW w \in Nodes, Collected(w)  PROVE Priced'
  <2> USE <1>26 DEF Typed, Collected, still, work, gate, line, nodes, process, outcome
  <2> QED BY DEF Priced, GateTyped
<1>27. ASSUME RestartNode  PROVE Priced'
  <2> USE <1>27 DEF Typed, RestartNode, still, work, gate, line, nodes, process, outcome
  <2> QED BY DEF Priced, GateTyped
<1>28. ASSUME LoopOnce  PROVE Priced'
  <2> USE <1>28 DEF Typed, LoopOnce, still, work, gate, line, nodes, process, outcome
  <2> QED BY DEF Priced, GateTyped
<1>29. ASSUME NEW w \in Nodes, StopGranted(w)  PROVE Priced'
  <2> USE <1>29 DEF Typed, StopGranted, still, work, gate, line, nodes, process, outcome
  <2>1. TailNeed(w) \in Nat
    BY TailNeedNat DEF Priced
  <2>2. GateTyped'
    BY <2>1, RaisedTyped DEF Priced, GateTyped, Granted
  <2>3. QED BY <2>1, <2>2 DEF Priced, GateTyped
<1>30. ASSUME NEW w \in Nodes, StopBlocked(w)  PROVE Priced'
  <2> USE <1>30 DEF Typed, StopBlocked, still, work, gate, line, nodes, process, outcome
  <2>1. reserved' \in [Nodes -> [slots : Nat, busy : BOOLEAN]] /\ forced' \in Nat
    BY ReservedTyped DEF Priced, WorkTyped
  <2>2. QED BY <2>1 DEF Priced, GateTyped
<1>31. ASSUME NEW w \in Nodes, StopWithdraws(w)  PROVE Priced'
  <2> USE <1>31 DEF Typed, StopWithdraws, still, work, gate, line, nodes, process, outcome
  <2>1. TailNeed(w) \in Nat
    BY TailNeedNat DEF Priced
  <2>2. Need(w, Elements(queue[w]) \ {LastOf(queue[w])}) \in Nat
    BY QueuedTests, NeedNat DEF Priced, WorkTyped
  <2>3. (Len(queue[w]) > 1) \in BOOLEAN
    OBVIOUS
  <2>4. reserved' \in [Nodes -> [slots : Nat, busy : BOOLEAN]] /\ forced' \in Nat
    BY <2>1, <2>2, <2>3, AssignedTyped DEF Priced
  <2>5. ask' \in [Nodes -> Nat]
    BY AdmittedTyped DEF Priced
  <2>6. QED BY <2>1, <2>2, <2>3, <2>4, <2>5 DEF Priced, GateTyped
<1>32. ASSUME NEW w \in Nodes, Boot(w)  PROVE Priced'
  <2> USE <1>32 DEF Typed, Boot, central, work, gate, line, nodes, process, outcome
  <2> QED BY DEF Priced, GateTyped
<1>33. ASSUME NEW w \in Nodes, StartTest(w)  PROVE Priced'
  <2> USE <1>33 DEF Typed, StartTest, central, work, gate, line, nodes, process, outcome
  <2> QED BY DEF Priced, GateTyped
<1>34. ASSUME NEW w \in Nodes, SkipTest(w)  PROVE Priced'
  <2> USE <1>34 DEF Typed, SkipTest, central, work, gate, line, nodes, process, outcome
  <2> QED BY DEF Priced, GateTyped
<1>35. ASSUME NEW w \in Nodes, FinishTest(w)  PROVE Priced'
  <2> USE <1>35 DEF Typed, FinishTest, central, work, gate, line, nodes, process, outcome
  <2> QED BY DEF Priced, GateTyped
<1>36. ASSUME NEW w \in Nodes, Ask(w)  PROVE Priced'
  <2> USE <1>36 DEF Typed, Ask, central, work, gate, line, nodes, process, outcome
  <2> QED BY DEF Priced, GateTyped
<1>37. ASSUME NEW w \in Nodes, GiveUp(w)  PROVE Priced'
  <2> USE <1>37 DEF Typed, GiveUp, central, work, gate, line, nodes, process, outcome
  <2> QED BY DEF Priced, GateTyped
<1>38. ASSUME NEW w \in Nodes, GrantArrives(w)  PROVE Priced'
  <2> USE <1>38 DEF Typed, GrantArrives, central, work, gate, line, nodes, process, outcome
  <2> QED BY DEF Priced, GateTyped
<1>39. ASSUME NEW w \in Nodes, NEW reached \in BOOLEAN, GoOn(w, reached)  PROVE Priced'
  <2> USE <1>39 DEF Typed, GoOn, central, work, gate, line, nodes, process, outcome
  <2> QED BY DEF Priced, GateTyped
<1>40. ASSUME NEW w \in Nodes, Exit(w)  PROVE Priced'
  <2> USE <1>40 DEF Typed, Exit, Leave, central, work, gate, line, nodes, process, outcome
  <2> QED BY DEF Priced, GateTyped
<1>41. ASSUME NEW w \in Nodes, Crash(w)  PROVE Priced'
  <2> USE <1>41 DEF Typed, Crash, Leave, central, work, gate, line, nodes, process, outcome
  <2> QED BY DEF Priced, GateTyped
<1>42. ASSUME UNCHANGED vars  PROVE Priced'
  BY <1>42 DEF vars, work, gate, line, Priced, GateTyped
<1>43. /\ AtOp("fill") => Head(todo).out \in Seq(Tests)
       /\ AtOp("replan") => Head(todo).tests \in SUBSET Tests
  BY StackMoves, CallFields DEF Typed, AtOp
<1>44. ASSUME NEW w \in Nodes, AtOp("fill"), Filler(w, Head(todo).out)  PROVE Priced'
  BY <1>44, <1>43, <1>2, <1>3, <1>4, <1>5, <1>6 DEF Filler
<1>45. ASSUME NEW w \in Nodes, Common(w)  PROVE Priced'
  BY <1>45, <1>8, <1>9, <1>10,
     <1>19, <1>20, <1>23, <1>25, <1>26,
     <1>29, <1>30, <1>31,
     <1>21, <1>15, <1>18, <1>16, <1>17 DEF Common
<1>46. ASSUME Anywhere  PROVE Priced'
  BY <1>46, <1>43, <1>11, <1>12, <1>13, <1>14, <1>27
  DEF Anywhere
<1>47. ASSUME Controller  PROVE Priced'
  BY <1>47, <1>44, <1>45, <1>46, <1>1, <1>7, <1>22, <1>24, <1>28
  DEF Controller
<1>48. ASSUME NEW w \in Nodes, Worker(w)  PROVE Priced'
  BY <1>48, <1>32, <1>33, <1>34, <1>35, <1>40, <1>36, <1>38, <1>39 DEF Worker
<1>49. QED BY <1>42, <1>47, <1>48, <1>37, <1>41 DEF Next, Stopped

(* At the start nothing is reserved.                                       *)
LEMMA PricedInit == Init => Priced
BY BudgetAssumption, CrashesAssumption
DEF Init, Start, Priced, GateTyped, Charges, NoCharge, NoReservation

(* The i-th message of w asks for slots, and does not give up.             *)
Asks(w, i) == Kind(w, i) = "request" /\ ~events[w][i][2].cancelled

(* After the i-th message w at most gives up request n of test t, or ends. *)
OnlyGivesUp(w, i, n, t) ==
  \A j \in DOMAIN events[w] : j > i =>
    \/ Kind(w, j) = "down"
    \/ /\ Kind(w, j) = "request" /\ events[w][j][2].cancelled
       /\ events[w][j][2].id = n /\ events[w][j][2].test = t

(* A worker says nothing else after a request: it is blocked in it.        *)
Silent(w) ==
  /\ \A i \in DOMAIN events[w] : Asks(w, i) =>
       OnlyGivesUp(w, i, events[w][i][2].id, events[w][i][2].test)
  /\ HasRequest(w) => OnlyGivesUp(w, 0, requests[w].id, requests[w].test)

(* Request n of test t is on its way or with the scheduler.                *)
Open(w, n, t) ==
  \/ \E i \in DOMAIN events[w] :
       Asks(w, i) /\ events[w][i][2].id = n /\ events[w][i][2].test = t
  \/ HasRequest(w) /\ requests[w].id = n /\ requests[w].test = t

(* The tests of the queue whose completion is not on its way.              *)
Unfinished(w) == Elements(queue[w]) \ Completes(w)

(* The worker that sent an open request still waits for its answer, in the *)
(* test at the head of its inbox, and no answer is on its way; a worker    *)
(* that was not told to finish has another test behind that one.           *)
Blocks(w) ==
  \A n \in 1 .. MaxAsks, t \in Tests : Open(w, n, t) =>
    /\ t \in Unfinished(w)
    /\ w \notin told => \E u \in Unfinished(w) : u # t
    /\ w \notin down =>
         /\ permit[w].id = n /\ permit[w].state # NotAsking /\ ~permit[w].granted
         /\ \A i \in DOMAIN grants[w] : grants[w][i] # n
         /\ t = Head(inbox[w])

(* What w's requests promise. Also, no grant is ahead of the last request, *)
(* and a worker runs its last test only when told to finish.               *)
AskedBy(w) ==
  /\ Silent(w)
  /\ Blocks(w)
  /\ w \notin down => \A i \in DOMAIN grants[w] : grants[w][i] <= permit[w].id
  /\ w \notin told /\ using[w] # Idling => Len(inbox[w]) > 1

(* So for every node: the requests the scheduler keeps, the ones on their  *)
(* way and the workers' permits tell one story.                            *)
Asked == \A w \in Nodes : AskedBy(w)

(* w has no request anywhere.                                              *)
Unasked(w) == ~HasRequest(w) /\ \A i \in DOMAIN events[w] : ~Asks(w, i)

(* What a request message carries.                                         *)
LEMMA AskKnown ==
  ASSUME ChannelsTyped, NEW w \in Nodes, NEW i \in DOMAIN events[w], Kind(w, i) = "request"
  PROVE  /\ events[w][i][2] \in Requesting
         /\ events[w][i][2].id \in 1 .. MaxAsks /\ events[w][i][2].test \in Tests
         /\ events[w][i][2].cancelled \in BOOLEAN
<1>1. events[w][i] \in Mail
  BY DEF ChannelsTyped
<1>2. events[w][i] \in {"request"} \X Requesting
  BY <1>1 DEF Kind, Mail
<1>3. events[w][i][2] \in Requesting
  BY <1>2
<1>4. QED BY <1>3 DEF Requesting

(* A worker that is not waiting for an answer has no request anywhere.     *)
LEMMA UnaskedWhenFree ==
  ASSUME ChannelsTyped, NodesTyped, ProcessTyped, NEW w \in Nodes, Blocks(w), w \notin down,
         permit[w].state = NotAsking \/ permit[w].granted
  PROVE  Unasked(w)
<1>1. ASSUME HasRequest(w)  PROVE FALSE
  <2>1. requests[w].id \in 1 .. MaxAsks /\ requests[w].test \in Tests
    BY <1>1, RequestFields
  <2>2. Open(w, requests[w].id, requests[w].test)
    BY <1>1 DEF Open
  <2>3. QED BY <2>1, <2>2 DEF Blocks
<1>2. ASSUME NEW i \in DOMAIN events[w], Asks(w, i)  PROVE FALSE
  <2>1. events[w][i][2].id \in 1 .. MaxAsks /\ events[w][i][2].test \in Tests
    BY <1>2, AskKnown DEF Asks
  <2>2. Open(w, events[w][i][2].id, events[w][i][2].test)
    BY <1>2 DEF Open
  <2>3. QED BY <2>1, <2>2 DEF Blocks
<1>3. QED BY <1>1, <1>2 DEF Unasked

(* The entries of a list.                                                  *)
LEMMA Members ==
  ASSUME NEW S, NEW s \in Seq(S)
  PROVE  \A i \in DOMAIN s : s[i] \in S
OBVIOUS

(* A worker that is up and runs a test, or is between tests, is not        *)
(* waiting for an answer.                                                  *)
LEMMA FreeWorker ==
  ASSUME ProcessTyped, NEW w \in Nodes,
         \/ status[w] \notin {"exited", "dead"} /\ using[w] # Asking
         \/ using[w] > Idling
  PROVE  w \notin down /\ permit[w].state = NotAsking
<1>1. /\ w \in down <=> status[w] \in {"exited", "dead"}
      /\ using[w] # Idling => status[w] = "up"
      /\ permit[w].state # NotAsking => using[w] = Asking
  BY DEF ProcessTyped
<1>2. using[w] > Idling => using[w] # Idling /\ using[w] # Asking
  BY DEF Idling, Asking
<1>3. QED BY <1>1, <1>2

(* One message more in the channel of w.                                   *)
LEMMA OneMore ==
  ASSUME ChannelsTyped, NEW w \in Nodes, NEW m \in Mail, Post(w, <<m>>)
  PROVE  /\ \A i \in DOMAIN events[w] : i \in DOMAIN events'[w] /\ events'[w][i] = events[w][i]
         /\ \A i \in DOMAIN events'[w] : i \notin DOMAIN events[w] =>
              events'[w][i] = m /\ \A j \in DOMAIN events'[w] : ~(j > i)
         /\ \A i \in DOMAIN events'[w], j \in DOMAIN events[w] : j > i => i \in DOMAIN events[w]
         /\ m[1] # "complete" => Completes(w)' = Completes(w)
         /\ \A v \in Nodes : v # w => events'[v] = events[v]
<1>1. <<m>> \in Seq(Mail) /\ \A i \in DOMAIN <<m>> : <<m>>[i] = m
  BY MailLists
<1>2. \A i \in DOMAIN events'[w] : i \notin DOMAIN events[w] =>
        /\ i - Len(events[w]) \in DOMAIN <<m>>
        /\ events'[w][i] = <<m>>[i - Len(events[w])]
  BY <1>1, NewMail
<1>3. \A i \in DOMAIN events[w] : i \in DOMAIN events'[w] /\ events'[w][i] = events[w][i]
  BY <1>1, NewMail
<1>4. Len(events'[w]) = Len(events[w]) + 1 /\ events'[w] \in Seq(Mail) /\ events[w] \in Seq(Mail)
  BY <1>1, NewMail DEF ChannelsTyped
<1>5. \A i \in DOMAIN events'[w] : i \notin DOMAIN events[w] => \A j \in DOMAIN events'[w] :
    ~(j > i)
  BY <1>4
<1>6. \A i \in DOMAIN events'[w], j \in DOMAIN events[w] : j > i => i \in DOMAIN events[w]
  BY <1>4
<1>7. m[1] # "complete" => Completes(w)' = Completes(w)
  BY <1>1, CompletesPosted
<1>8. \A v \in Nodes : v # w => events'[v] = events[v]
  BY <1>1, NewMail
<1>9. QED BY <1>1, <1>2, <1>3, <1>5, <1>6, <1>7, <1>8

(* A step that does not touch a node's channels, request and permit, and   *)
(* leaves its tests in its queue, keeps what its requests promise.         *)
LEMMA AskedKept ==
  ASSUME NEW v \in Nodes, AskedBy(v), ProcessTyped,
         events'[v] = events[v], requests'[v] = requests[v], permit'[v] = permit[v],
         grants'[v] = grants[v], using'[v] = using[v],
         inbox[v] # <<>> => Head(inbox'[v]) = Head(inbox[v]) /\ Len(inbox'[v]) >= Len(inbox[v]),
         inbox'[v] \in Seq(Tests),
         v \in told => v \in told', v \in down => v \in down',
         Elements(queue[v]) \subseteq Elements(queue'[v])
  PROVE  AskedBy(v)'
<1>1. Completes(v)' = Completes(v) /\ Unfinished(v) \subseteq Unfinished(v)'
  BY DEF Completes, Kind, Unfinished, Elements
<1>2. \A n, t : Open(v, n, t)' = Open(v, n, t)
  BY DEF Open, Asks, Kind, HasRequest
<1>3. Silent(v)'
  <2>1. \A i, n, t : OnlyGivesUp(v, i, n, t)' = OnlyGivesUp(v, i, n, t)
    BY DEF OnlyGivesUp, Kind
  <2>2. QED BY <2>1 DEF AskedBy, Silent, Asks, Kind, HasRequest
<1>4. permit[v].state # NotAsking => inbox[v] # <<>>
  BY DEF ProcessTyped, Asking, Idling
<1>5. Blocks(v)'
  <2>1. ASSUME NEW n \in 1 .. MaxAsks, NEW t \in Tests, Open(v, n, t)'
        PROVE  /\ t \in Unfinished(v)'
               /\ v \notin told' => \E u \in Unfinished(v)' : u # t
               /\ v \notin down' =>
                    /\ permit'[v].id = n /\ permit'[v].state # NotAsking /\ ~permit'[v].granted
                    /\ \A i \in DOMAIN grants'[v] : grants'[v][i] # n
                    /\ t = Head(inbox'[v])
    <3>1. Open(v, n, t)
      BY <1>2, <2>1
    <3>2. /\ t \in Unfinished(v)
          /\ v \notin told => \E u \in Unfinished(v) : u # t
          /\ v \notin down =>
               /\ permit[v].id = n /\ permit[v].state # NotAsking /\ ~permit[v].granted
               /\ \A i \in DOMAIN grants[v] : grants[v][i] # n
               /\ t = Head(inbox[v])
      BY <3>1 DEF AskedBy, Blocks
    <3>3. QED BY <1>1, <1>4, <3>2
  <2>2. QED BY <2>1 DEF Blocks
<1>6. v \notin told' /\ using'[v] # Idling => Len(inbox'[v]) > 1
  <2>1. using[v] # Idling => inbox[v] # <<>>
    BY DEF ProcessTyped
  <2>2. Len(inbox[v]) \in Nat /\ Len(inbox'[v]) \in Nat
    BY DEF ProcessTyped
  <2>3. QED BY <2>1, <2>2 DEF AskedBy
<1>7. QED BY <1>3, <1>5, <1>6 DEF AskedBy

(* The same, for all nodes.                                                *)
LEMMA AskedFrame ==
  ASSUME Asked, ProcessTyped, UNCHANGED <<events, requests, permit, grants, using, inbox, down>>,
         told \subseteq told', \A v \in Nodes : Elements(queue[v]) \subseteq Elements(queue'[v])
  PROVE  Asked'
<1>1. ASSUME NEW v \in Nodes  PROVE AskedBy(v)'
  <2>1. inbox'[v] \in Seq(Tests) /\ inbox'[v] = inbox[v] /\ Len(inbox[v]) \in Nat
    BY DEF ProcessTyped
  <2>2. AskedBy(v)
    BY DEF Asked
  <2>3. QED BY <2>1, <2>2, AskedKept
<1>2. QED BY <1>1 DEF Asked

(* A step of w alone.                                                      *)
LEMMA AskedElsewhere ==
  ASSUME Asked, ProcessTyped, NEW w \in Nodes,
         \A v \in Nodes \ {w} : /\ events'[v] = events[v] /\ requests'[v] = requests[v]
                                /\ permit'[v] = permit[v] /\ grants'[v] = grants[v]
                                /\ using'[v] = using[v] /\ inbox'[v] = inbox[v]
                                /\ queue'[v] = queue[v],
         told \subseteq told', down \subseteq down', AskedBy(w)'
  PROVE  Asked'
<1>1. ASSUME NEW v \in Nodes \ {w}  PROVE AskedBy(v)'
  <2>1. inbox'[v] \in Seq(Tests) /\ inbox'[v] = inbox[v] /\ Len(inbox[v]) \in Nat
    BY DEF ProcessTyped
  <2>2. AskedBy(v)
    BY DEF Asked
  <2>3. Elements(queue[v]) \subseteq Elements(queue'[v])
    OBVIOUS
  <2>4. QED BY <2>1, <2>2, <2>3, AskedKept
<1>2. QED BY <1>1 DEF Asked

(* Sending tests to a worker leaves the head of its inbox.                 *)
LEMMA AskedSent ==
  ASSUME Asked, ProcessTyped, NEW w \in Nodes, NEW out \in Seq(Tests), Send(w, out),
         UNCHANGED <<events, requests, permit, grants, using, down, told, queue>>
  PROVE  Asked'
<1>1. AskedBy(w)'
  <2>1. inbox[w] \in Seq(Tests) /\ inbox'[w] = inbox[w] \o out
    BY DEF ProcessTyped, Send
  <2>2. /\ inbox'[w] \in Seq(Tests)
        /\ inbox[w] # <<>> => Head(inbox'[w]) = Head(inbox[w]) /\ Len(inbox'[w]) >= Len(inbox[w])
    BY <2>1
  <2>3. AskedBy(w)
    BY DEF Asked
  <2>4. QED BY <2>2, <2>3, AskedKept
<1>2. \A v \in Nodes \ {w} : inbox'[v] = inbox[v]
  BY DEF ProcessTyped, Send
<1>3. QED BY <1>1, <1>2, AskedElsewhere

(* Taking a message forgets a request at most.                             *)
LEMMA AskedTaken ==
  ASSUME ChannelsTyped, NEW w \in Nodes, NEW kind, Takes(w, kind), AskedBy(w),
         requests'[w] = requests[w], permit'[w] = permit[w], grants'[w] = grants[w],
         using'[w] = using[w], inbox'[w] = inbox[w],
         w \in told => w \in told', w \in down => w \in down', Unfinished(w)' = Unfinished(w)
  PROVE  AskedBy(w)'
<1>1. \A i \in DOMAIN events'[w] :
        i + 1 \in DOMAIN events[w] /\ events'[w][i] = events[w][i + 1] /\ i \in Nat
  <2>1. events'[w] \in Seq(Mail)
    BY TakesTyped DEF ChannelsTyped
  <2>2. QED BY <2>1, NextMail
<1>2. \A n, t : Open(w, n, t)' => Open(w, n, t)
  BY <1>1 DEF Open, Asks, Kind, HasRequest
<1>3. \A i \in DOMAIN events'[w] : \A n, t :
    OnlyGivesUp(w, i + 1, n, t) => OnlyGivesUp(w, i, n, t)'
  BY <1>1 DEF OnlyGivesUp, Kind
<1>4. \A n, t : OnlyGivesUp(w, 0, n, t) => OnlyGivesUp(w, 0, n, t)'
  BY <1>1 DEF OnlyGivesUp, Kind
<1>5. Silent(w)'
  BY <1>1, <1>3, <1>4 DEF AskedBy, Silent, Asks, Kind, HasRequest
<1>6. Blocks(w)'
  BY <1>2 DEF AskedBy, Blocks
<1>7. QED BY <1>5, <1>6 DEF AskedBy

(* A handler that takes a message other than a completion and leaves       *)
(* requests alone keeps them.                                              *)
LEMMA AskedTakenBy ==
  ASSUME Asked, ProcessTyped, ChannelsTyped, NEW w \in Nodes, NEW kind, kind # "complete",
         Takes(w, kind), UNCHANGED <<requests, permit, grants, using, inbox, down, queue>>,
         told \subseteq told'
  PROVE  Asked'
<1>1. Unfinished(w)' = Unfinished(w)
  BY CompletesTaken DEF Unfinished, Elements
<1>2. AskedBy(w)'
  BY <1>1, AskedTaken DEF Asked
<1>3. \A v \in Nodes \ {w} : events'[v] = events[v]
  BY NextMail
<1>4. QED BY <1>2, <1>3, AskedElsewhere

(* A node that is gone and forgotten has no open request.                  *)
LEMMA AskedGone ==
  ASSUME Asked, ProcessTyped, NEW w \in Nodes, w \in down, events'[w] = <<>>,
         \A v \in Nodes \ {w} : /\ events'[v] = events[v] /\ requests'[v] = requests[v]
                                /\ queue'[v] = queue[v],
         requests'[w] = NoRequest, UNCHANGED <<permit, grants, using, inbox, down, told>>
  PROVE  Asked'
<1>1. Unasked(w)'
  BY DEF Unasked, HasRequest
<1>2. Silent(w)' /\ Blocks(w)'
  BY <1>1 DEF Unasked, Silent, Blocks, Open
<1>3. AskedBy(w)'
  BY <1>2 DEF AskedBy, Asked
<1>4. QED BY <1>3, AskedElsewhere

(* An answered request is no longer open, and its grant is the last one    *)
(* sent.                                                                   *)
LEMMA AskedAnswered ==
  ASSUME Asked, NodesTyped, ProcessTyped, ChannelsTyped, GateTyped, Priced, NEW w \in Nodes,
         HasRequest(w),
         CompleteRequest(w)
  PROVE  Asked'
<1>1. requests[w].id \in 1 .. MaxAsks /\ requests[w].test \in Tests
  BY RequestFields
<1>2. Open(w, requests[w].id, requests[w].test)
    /\ OnlyGivesUp(w, 0, requests[w].id, requests[w].test)
  BY DEF Open, Asked, AskedBy, Silent
<1>3. UNCHANGED <<events, permit, using, inbox, down, told, queue>>
  BY DEF CompleteRequest, process
<1>4. \A v \in Nodes : v # w => requests'[v] = requests[v] /\ grants'[v] = grants[v]
  BY DEF CompleteRequest, NodesTyped, ChannelsTyped
<1>5. Unasked(w)'
  <2>1. requests'[w] = NoRequest
    BY DEF CompleteRequest, NodesTyped
  <2>2. ASSUME NEW i \in DOMAIN events[w], Asks(w, i)  PROVE FALSE
    <3>1. i > 0
      BY DEF ChannelsTyped
    <3>2. QED BY <1>2, <2>2, <3>1 DEF OnlyGivesUp, Asks
  <2>3. QED BY <1>3, <2>1, <2>2 DEF Unasked, HasRequest, Asks, Kind
<1>6. Silent(w)' /\ Blocks(w)'
  BY <1>5 DEF Unasked, Silent, Blocks, Open
<1>7. ASSUME w \notin down'  PROVE \A i \in DOMAIN grants'[w] : grants'[w][i] <= permit'[w].id
  <2>1. permit[w].id = requests[w].id
    BY <1>1, <1>2, <1>3, <1>7 DEF Asked, AskedBy, Blocks
  <2>2. grants'[w] = Append(grants[w], requests[w].id) /\ grants[w] \in Seq(1 .. MaxAsks)
    BY <1>3, <1>7 DEF CompleteRequest, Priced
  <2>3. \A i \in DOMAIN Append(grants[w], requests[w].id) :
          \/ i \in DOMAIN grants[w] /\ Append(grants[w], requests[w].id)[i] = grants[w][i]
          \/ Append(grants[w], requests[w].id)[i] = requests[w].id
    BY <2>2, <1>1
  <2>4. QED BY <1>1, <1>3, <1>7, <2>1, <2>2, <2>3 DEF Asked, AskedBy
<1>8. AskedBy(w)'
  BY <1>3, <1>6, <1>7 DEF Asked, AskedBy
<1>9. QED BY <1>3, <1>4, <1>8, AskedElsewhere

(* A worker without a request posts what it likes, but a request.          *)
LEMMA UnaskedPosted ==
  ASSUME ChannelsTyped, NEW w \in Nodes, NEW messages \in Seq(Mail), Post(w, messages),
         Unasked(w), requests'[w] = requests[w],
         \A i \in DOMAIN messages : messages[i][1] # "request"
  PROVE  Unasked(w)' /\ Silent(w)' /\ Blocks(w)'
<1>1. Unasked(w)'
  <2>1. ASSUME NEW i \in DOMAIN events'[w], Asks(w, i)'  PROVE FALSE
    <3>1. CASE i \in DOMAIN events[w]
      BY <2>1, <3>1, NewMail DEF Unasked, Asks, Kind
    <3>2. CASE i \notin DOMAIN events[w]
      BY <2>1, <3>2, NewMail DEF Asks, Kind
    <3>3. QED BY <3>1, <3>2
  <2>2. QED BY <2>1 DEF Unasked, HasRequest
<1>2. QED BY <1>1 DEF Unasked, Silent, Blocks, Open

(* A worker that posts after its request gives it up or ends.              *)
LEMMA AskedPosted ==
  ASSUME ChannelsTyped, NodesTyped, NEW w \in Nodes, NEW m \in Mail, Post(w, <<m>>), AskedBy(w),
         requests'[w] = requests[w],
         \/ m[1] = "down"
         \/ /\ m[1] = "request" /\ m[2].cancelled
            /\ \A n \in 1 .. MaxAsks, t \in Tests : Open(w, n, t) => m[2].id = n /\ m[2].test = t
  PROVE  Silent(w)' /\ \A n, t : Open(w, n, t)' => Open(w, n, t)
<1>2. /\ \A i \in DOMAIN events[w] : i \in DOMAIN events'[w] /\ events'[w][i] = events[w][i]
      /\ \A i \in DOMAIN events'[w] : i \notin DOMAIN events[w] => events'[w][i] = m
      /\ \A i \in DOMAIN events'[w], j \in DOMAIN events[w] : j > i => i \in DOMAIN events[w]
  BY OneMore
<1>3. \A i \in DOMAIN events'[w] : Asks(w, i)' => i \in DOMAIN events[w] /\ Asks(w, i)
  BY <1>2 DEF Asks, Kind
<1>4. \A n, t : Open(w, n, t)' => Open(w, n, t)
  BY <1>2, <1>3 DEF Open, HasRequest
<1>5. ASSUME NEW i, NEW n \in 1 .. MaxAsks, NEW t \in Tests, OnlyGivesUp(w, i, n, t), Open(w,
    n, t)
      PROVE  OnlyGivesUp(w, i, n, t)'
  BY <1>2, <1>5 DEF OnlyGivesUp, Kind
<1>6. ASSUME NEW i \in DOMAIN events'[w], Asks(w, i)'
      PROVE  OnlyGivesUp(w, i, events[w][i][2].id, events[w][i][2].test)'
  <2>1. i \in DOMAIN events[w] /\ Asks(w, i) /\ events'[w][i] = events[w][i]
    BY <1>2, <1>3, <1>6
  <2>2. events[w][i][2].id \in 1 .. MaxAsks /\ events[w][i][2].test \in Tests
    BY <2>1, AskKnown DEF Asks
  <2>3. Open(w, events[w][i][2].id, events[w][i][2].test)
    BY <2>1 DEF Open
  <2>4. OnlyGivesUp(w, i, events[w][i][2].id, events[w][i][2].test)
    BY <2>1 DEF AskedBy, Silent
  <2>5. QED BY <1>5, <2>1, <2>2, <2>3, <2>4
<1>7. ASSUME HasRequest(w)'  PROVE OnlyGivesUp(w, 0, requests[w].id, requests[w].test)'
  <2>1. HasRequest(w)
    BY <1>7 DEF HasRequest
  <2>2. requests[w].id \in 1 .. MaxAsks /\ requests[w].test \in Tests
    BY <2>1, RequestFields
  <2>3. Open(w, requests[w].id, requests[w].test)
      /\ OnlyGivesUp(w, 0, requests[w].id, requests[w].test)
    BY <2>1 DEF Open, AskedBy, Silent
  <2>4. QED BY <1>5, <2>2, <2>3
<1>8. QED BY <1>4, <1>6, <1>7 DEF Silent

(* Whose request the scheduler keeps sends nothing but that it gives it up.*)
LEMMA SendsNothingElse ==
  ASSUME NEW w \in Nodes, AskedBy(w), 1 \in DOMAIN events[w],
         Kind(w, 1) \notin {"down", "request"}
  PROVE  ~HasRequest(w)
BY DEF AskedBy, Silent, OnlyGivesUp

(* Every step keeps the requests, the permits and the answers in           *)
(* agreement. The cases with work in them are the worker's asking, giving  *)
(* up and being answered, and the scheduler's taking and granting a        *)
(* request.                                                                *)
LEMMA AskedStep ==
  ASSUME Typed, Shape, Consistent, LineShape, Priced, Asked, [Next]_vars
  PROVE  Asked'
<1>1. ASSUME NEW w \in Nodes, CheckSchedule(w)  PROVE Asked'
  <2> USE <1>1 DEF Typed, CheckSchedule, still, work, gate, line, nodes, process, outcome
  <2> QED BY AskedFrame
<1>2. ASSUME NEW w \in Nodes, NEW out \in Seq(Tests), NEW t \in Tests,
         FillDispatch(w, out, t)
  PROVE Asked'
  <2> USE <1>2 DEF Typed, FillDispatch, still, work, gate, line, nodes, process, outcome
  <2>1. \A v \in Nodes : Elements(queue[v]) \subseteq Elements(queue'[v])
    <3>1. queue[w] \in Seq(Tests)
      BY DEF WorkTyped
    <3>2. Elements(queue[w]) \subseteq Elements(Append(queue[w], t))
      BY <3>1, AppendElements
    <3>3. QED BY <3>2 DEF WorkTyped
  <2>2. QED BY <2>1, AskedFrame
<1>3. ASSUME NEW w \in Nodes, NEW out \in Seq(Tests), NEW donor \in Nodes,
         NEW chunk \in SUBSET pending,
         FillBorrow(w, out, donor, chunk)
  PROVE Asked'
  <2> USE <1>3 DEF Typed, FillBorrow, still, work, gate, line, nodes, process, outcome
  <2> QED BY AskedFrame
<1>4. ASSUME NEW w \in Nodes, NEW out \in Seq(Tests), FillDone(w, out)  PROVE Asked'
  <2> USE <1>4 DEF Typed, FillDone, still, work, gate, line, nodes, process, outcome
  <2> QED BY AskedSent
<1>5. ASSUME NEW w \in Nodes, NEW out \in Seq(Tests), FillBlocked(w, out)  PROVE Asked'
  <2> USE <1>5 DEF Typed, FillBlocked, still, work, gate, line, nodes, process, outcome
  <2> QED BY AskedSent
<1>6. ASSUME NEW w \in Nodes, NEW out \in Seq(Tests), FillRefused(w, out)  PROVE Asked'
  <2> USE <1>6 DEF Typed, FillRefused, still, work, gate, line, nodes, process, outcome
  <2> QED BY AskedSent
<1>7. ASSUME NEW w \in Nodes, CheckRest(w)  PROVE Asked'
  <2> USE <1>7 DEF Typed, CheckRest, still, work, gate, line, nodes, process, outcome
  <2> QED BY AskedFrame
<1>8. ASSUME NEW w \in Nodes, ShutdownRefused(w)  PROVE Asked'
  <2> USE <1>8 DEF Typed, ShutdownRefused, still, work, gate, line, nodes, process, outcome
  <2> QED BY AskedFrame
<1>9. ASSUME NEW w \in Nodes, ShutdownSent(w)  PROVE Asked'
  <2> USE <1>9 DEF Typed, ShutdownSent, still, work, gate, line, nodes, process, outcome
  <2> QED BY AskedFrame
<1>10. ASSUME NEW w \in Nodes, ShutdownAgain(w)  PROVE Asked'
  <2> USE <1>10 DEF Typed, ShutdownAgain, still, work, gate, line, nodes, process, outcome
  <2> QED BY AskedFrame
<1>11. ASSUME NEW S \in SUBSET Tests, ReplanTests(S)  PROVE Asked'
  <2> USE <1>11 DEF Typed, ReplanTests, still, work, gate, line, nodes, process, outcome
  <2> QED BY AskedFrame
<1>12. ASSUME AdmitWaiting  PROVE Asked'
  <2> USE <1>12 DEF Typed, AdmitWaiting, still, work, gate, line, nodes, process, outcome
  <2> QED BY AskedFrame
<1>13. ASSUME ResolveNothing  PROVE Asked'
  <2> USE <1>13 DEF Typed, ResolveNothing, still, work, gate, line, nodes, process, outcome
  <2> QED BY AskedFrame
<1>14. ASSUME ResolveParked  PROVE Asked'
  <2> USE <1>14 DEF Typed, ResolveParked, still, work, gate, line, nodes, process, outcome
  <2> QED BY AskedFrame
<1>15. ASSUME NEW w \in Nodes, ResolveForce(w)  PROVE Asked'
  <2> USE <1>15 DEF Typed, ResolveForce, still, work, gate, line, nodes, process, outcome
  <2> QED BY AskedFrame
<1>16. ASSUME NEW w \in Nodes, NEW release \in BOOLEAN, RetryGranted(w, release)  PROVE Asked'
  <2> USE <1>16 DEF Typed, RetryGranted, still, work, gate, line, nodes, process, outcome
  <2>1. HasRequest(w)
    BY RequesterRetried
  <2>2. QED BY <2>1, AskedAnswered DEF Priced
<1>17. ASSUME NEW w \in Nodes, NEW release \in BOOLEAN, RetryRefused(w, release)  PROVE Asked'
  <2> USE <1>17 DEF Typed, RetryRefused, still, work, gate, line, nodes, process, outcome
  <2> QED BY AskedFrame
<1>18. ASSUME NEW w \in Nodes, ResolveForceRequest(w)  PROVE Asked'
  <2> USE <1>18 DEF Typed, ResolveForceRequest, still, work, gate, line, nodes, process, outcome
  <2> QED BY AskedAnswered DEF Priced
<1>19. ASSUME NEW w \in Nodes, Completed(w)  PROVE Asked'
  <2> USE <1>19 DEF Typed, Completed, still, work, gate, line, nodes, process, outcome
  <2> DEFINE t == Head(events[w])[2]
  <2>1. Kind(w, 1) = "complete" /\ 1 \in DOMAIN events[w] /\ t \in Tests /\ AskedBy(w)
      /\ Agrees(w)
    BY NextMail, HeadMail DEF Takes, Asked, Consistent, ChannelAgrees
  <2>2. ~HasRequest(w)
    BY <2>1, SendsNothingElse
  <2>3. UNCHANGED requests
    BY <2>2
  <2>4. queue[w] \in Seq(Tests) /\ Distinct(queue[w])
    BY DEF WorkTyped, Consistent, Conserved, Queued
  <2>5. Elements(queue'[w]) = Elements(queue[w]) \ {t}
    BY <2>4, WithoutDistinct DEF WorkTyped
  <2>6. Completes(w)' = Completes(w) \ {t} /\ t \in Completes(w)
    BY <2>1, CompletesTaken DEF Agrees
  <2>7. Unfinished(w)' = Unfinished(w)
    BY <2>5, <2>6 DEF Unfinished, Elements
  <2>8. AskedBy(w)'
    BY <2>1, <2>3, <2>7, AskedTaken
  <2>9. \A v \in Nodes \ {w} : events'[v] = events[v] /\ queue'[v] = queue[v]
    BY NextMail DEF WorkTyped
  <2>10. QED BY <2>3, <2>8, <2>9, AskedElsewhere
<1>20. ASSUME NEW w \in Nodes, HoldsChanged(w)  PROVE Asked'
  <2> USE <1>20 DEF Typed, HoldsChanged, still, work, gate, line, nodes, process, outcome
  <2> QED BY AskedTakenBy
<1>21. ASSUME NEW w \in Nodes, Requested(w)  PROVE Asked'
  <2> USE <1>21 DEF Typed, Requested, still, work, gate, line, nodes, process, outcome
  <2> DEFINE m == Head(events[w])[2]
  <2>1. /\ Kind(w, 1) = "request" /\ 1 \in DOMAIN events[w] /\ events[w][1][2] = m /\ AskedBy(w)
        /\ m.id \in 1 .. MaxAsks /\ m.test \in Tests /\ m.cancelled \in BOOLEAN
    <3>1. Kind(w, 1) = "request" /\ 1 \in DOMAIN events[w] /\ Head(events[w]) = events[w][1]
      BY NextMail
    <3>2. QED BY <3>1, AskKnown DEF Asked
  <2> HIDE DEF m
  <2>2. Unfinished(w)' = Unfinished(w)
    BY CompletesTaken DEF Unfinished, Elements
  <2>3. \A v \in Nodes \ {w} : events'[v] = events[v] /\ requests'[v] = requests[v]
    BY NextMail DEF NodesTyped
  <2>4. CASE Answered(w, m)
    <3>1. UNCHANGED requests
      BY <2>4 DEF m
    <3>2. QED BY <3>1, AskedTakenBy
  <2>5. CASE ~Answered(w, m) /\ m.cancelled
    <3>1. requests'[w] = [id |-> m.id, test |-> m.test, key |-> m.key, cancelled |-> m.cancelled]
      BY <2>5 DEF m, NodesTyped
    <3>2. requests[w].id = m.id /\ HasRequest(w)
      BY <2>1, <2>5 DEF Answered, HasRequest, NoRequest
    <3>3. requests[w].test = m.test
      BY <2>1, <3>2 DEF AskedBy, Silent, OnlyGivesUp, Kind
    <3>4. requests'[w].id = requests[w].id /\ requests'[w].test = requests[w].test
        /\ HasRequest(w)'
      BY <2>1, <3>1, <3>2, <3>3 DEF HasRequest, NoRequest
    <3>5. AskedBy(w)'
      <4>1. \A i \in DOMAIN events'[w] :
              i + 1 \in DOMAIN events[w] /\ events'[w][i] = events[w][i + 1] /\ i \in Nat
        <5>1. events'[w] \in Seq(Mail)
          BY TakesTyped DEF ChannelsTyped
        <5>2. QED BY <5>1, NextMail
      <4>2. \A n, t : Open(w, n, t)' => Open(w, n, t)
        BY <3>2, <3>4, <4>1 DEF Open, Asks, Kind
      <4>3. \A i \in DOMAIN events'[w] : \A n, t :
          OnlyGivesUp(w, i + 1, n, t) => OnlyGivesUp(w, i, n, t)'
        BY <4>1 DEF OnlyGivesUp, Kind
      <4>4. \A n, t : OnlyGivesUp(w, 0, n, t) => OnlyGivesUp(w, 0, n, t)'
        BY <4>1 DEF OnlyGivesUp, Kind
      <4>5. Silent(w)'
        BY <2>1, <3>2, <3>4, <4>1, <4>3, <4>4 DEF AskedBy, Silent, Asks, Kind
      <4>6. Blocks(w)'
        BY <2>1, <2>2, <4>2 DEF AskedBy, Blocks
      <4>7. QED BY <2>1, <4>5, <4>6 DEF AskedBy
    <3>6. QED BY <2>3, <3>5, AskedElsewhere
  <2>6. CASE ~m.cancelled
    <3>1. requests'[w] = [id |-> m.id, test |-> m.test, key |-> m.key, cancelled |-> m.cancelled]
      BY <2>6 DEF m, NodesTyped, Answered
    <3>2. requests'[w].id = m.id /\ requests'[w].test = m.test
      BY <3>1
    <3>3. Asks(w, 1) /\ Open(w, m.id, m.test)
      BY <2>1, <2>6 DEF Asks, Open
    <3>4. OnlyGivesUp(w, 1, m.id, m.test)
      BY <2>1, <3>3 DEF AskedBy, Silent
    <3>5. \A i \in DOMAIN events'[w] :
            i + 1 \in DOMAIN events[w] /\ events'[w][i] = events[w][i + 1] /\ i + 1 > 1
      <4>1. events'[w] \in Seq(Mail)
        BY TakesTyped DEF ChannelsTyped
      <4>2. QED BY <4>1, NextMail
    <3>6. OnlyGivesUp(w, 0, requests[w].id, requests[w].test)'
        /\ \A i \in DOMAIN events'[w] : ~Asks(w, i)'
      <4>1. \A i \in DOMAIN events'[w] :
              \/ events'[w][i][1] = "down"
              \/ /\ events'[w][i][1] = "request" /\ events'[w][i][2].cancelled
                 /\ events'[w][i][2].id = m.id /\ events'[w][i][2].test = m.test
        BY <3>4, <3>5 DEF OnlyGivesUp, Kind
      <4>2. QED BY <3>2, <4>1 DEF OnlyGivesUp, Asks, Kind
    <3>7. Silent(w)'
      BY <3>6 DEF Silent
    <3>8. \A n, t : Open(w, n, t)' => Open(w, n, t)
      BY <3>2, <3>3, <3>6 DEF Open
    <3>9. Blocks(w)'
      BY <2>1, <2>2, <3>8 DEF AskedBy, Blocks
    <3>10. AskedBy(w)'
      BY <2>1, <3>7, <3>9 DEF AskedBy
    <3>11. QED BY <2>3, <3>10, AskedElsewhere
  <2>7. QED BY <2>1, <2>4, <2>5, <2>6
<1>22. ASSUME NEW w \in Nodes, Crashed(w)  PROVE Asked'
  <2> USE <1>22 DEF Typed, Crashed, RemoveNode, ReleaseRuntime, still, work, gate, line, nodes,
      process, outcome
  <2>1. events'[w] = <<>> /\ w \in down
    BY LastMail DEF ProcessTyped, Shape
  <2>2. \A v \in Nodes \ {w} : /\ events'[v] = events[v] /\ requests'[v] = requests[v]
                               /\ queue'[v] = queue[v]
    BY NextMail DEF NodesTyped, WorkTyped
  <2>3. requests'[w] = NoRequest
    BY DEF NodesTyped
  <2>4. QED BY <2>1, <2>2, <2>3, AskedGone
<1>23. ASSUME NEW w \in Nodes, Finished(w)  PROVE Asked'
  <2> USE <1>23 DEF Typed, Finished, still, work, gate, line, nodes, process, outcome
  <2>1. CASE w \notin registered
    BY <2>1, AskedTakenBy
  <2>2. CASE w \in registered
    <3>1. events'[w] = <<>> /\ w \in down
      BY LastMail DEF ProcessTyped, Shape
    <3>2. ReleaseRuntime(w)
      BY <2>2
    <3>3. \A v \in Nodes \ {w} : /\ events'[v] = events[v] /\ requests'[v] = requests[v]
                                 /\ queue'[v] = queue[v]
      BY <3>2, NextMail DEF NodesTyped, ReleaseRuntime
    <3>4. requests'[w] = NoRequest
      BY <3>2 DEF NodesTyped, ReleaseRuntime
    <3>5. QED BY <3>1, <3>3, <3>4, AskedGone
  <2>3. QED BY <2>1, <2>2
<1>24. ASSUME NEW w \in Nodes, FinishedRemove(w)  PROVE Asked'
  <2> USE <1>24 DEF Typed, FinishedRemove, RemoveNode, ReleaseRuntime, still, work, gate, line,
      nodes, process, outcome
  <2>1. events'[w] = <<>> /\ w \in down
    BY HeadKnown DEF At, Remove, Shape
  <2>2. \A v \in Nodes \ {w} : /\ events'[v] = events[v] /\ requests'[v] = requests[v]
                               /\ queue'[v] = queue[v]
    BY DEF NodesTyped, WorkTyped
  <2>3. requests'[w] = NoRequest
    BY DEF NodesTyped
  <2>4. QED BY <2>1, <2>2, <2>3, AskedGone
<1>25. ASSUME NEW w \in Nodes, Ready(w)  PROVE Asked'
  <2> USE <1>25 DEF Typed, Ready, still, work, gate, line, nodes, process, outcome
  <2> QED BY AskedTakenBy
<1>26. ASSUME NEW w \in Nodes, Collected(w)  PROVE Asked'
  <2> USE <1>26 DEF Typed, Collected, still, work, gate, line, nodes, process, outcome
  <2> QED BY AskedTakenBy
<1>27. ASSUME RestartNode  PROVE Asked'
  <2> USE <1>27 DEF Typed, RestartNode, still, work, gate, line, nodes, process, outcome
  <2> QED BY AskedFrame
<1>28. ASSUME LoopOnce  PROVE Asked'
  <2> USE <1>28 DEF Typed, LoopOnce, still, work, gate, line, nodes, process, outcome
  <2> QED BY AskedFrame
<1>29. ASSUME NEW w \in Nodes, StopGranted(w)  PROVE Asked'
  <2> USE <1>29 DEF Typed, StopGranted, still, work, gate, line, nodes, process, outcome
  <2>1. told \subseteq told'
      /\ UNCHANGED <<events, requests, permit, grants, using, inbox, down, queue>>
    BY DEF Tell
  <2>2. QED BY <2>1, AskedFrame
<1>30. ASSUME NEW w \in Nodes, StopBlocked(w)  PROVE Asked'
  <2> USE <1>30 DEF Typed, StopBlocked, still, work, gate, line, nodes, process, outcome
  <2>1. told \subseteq told'
      /\ UNCHANGED <<events, requests, permit, grants, using, inbox, down, queue>>
    BY DEF Tell
  <2>2. QED BY <2>1, AskedFrame
<1>31. ASSUME NEW w \in Nodes, StopWithdraws(w)  PROVE Asked'
  <2> USE <1>31 DEF Typed, StopWithdraws, still, work, gate, line, nodes, process, outcome
  <2>1. told \subseteq told'
      /\ UNCHANGED <<events, requests, permit, grants, using, inbox, down, queue>>
    BY DEF Tell
  <2>2. QED BY <2>1, AskedFrame
<1>32. ASSUME NEW w \in Nodes, Boot(w)  PROVE Asked'
  <2> USE <1>32 DEF Typed, Boot, central, work, gate, line, nodes, process, outcome
  <2>0. status[w] \notin {"exited", "dead"} /\ using[w] # Asking
    <3>1. using[w] = Idling
      BY DEF ProcessTyped, MayStart
    <3>2. QED BY <3>1 DEF ProcessTyped, MayStart, Asking, Idling
  <2>1. w \notin down /\ (permit[w].state = NotAsking \/ permit[w].granted)
    BY <2>0, FreeWorker
  <2>2. Unasked(w)
    BY <2>1, UnaskedWhenFree DEF Asked, AskedBy
  <2>3. <<<<"ready", 0>>, <<"collected", 0>>>> \in Seq(Mail)
    BY MailTyped, MailLists
  <2>4. \A i \in DOMAIN <<<<"ready", 0>>, <<"collected", 0>>>> :
      <<<<"ready", 0>>, <<"collected", 0>>>>[i][1] # "request"
    BY DEF Mail
  <2>5. Silent(w)' /\ Blocks(w)'
    BY <2>2, <2>3, <2>4, UnaskedPosted
  <2>6. \A v \in Nodes \ {w} : /\ events'[v] = events[v] /\ permit'[v] = permit[v]
                               /\ grants'[v] = grants[v]
                               /\ using'[v] = using[v] /\ inbox'[v] = inbox[v]
    BY <2>3, NewMail DEF ProcessTyped, ChannelsTyped
  <2>7. AskedBy(w)'
    BY <2>5 DEF Asked, AskedBy
  <2>8. QED BY <2>6, <2>7, AskedElsewhere
<1>33. ASSUME NEW w \in Nodes, StartTest(w)  PROVE Asked'
  <2> USE <1>33 DEF Typed, StartTest, central, work, gate, line, nodes, process, outcome
  <2>0. status[w] \notin {"exited", "dead"} /\ using[w] # Asking
    <3>1. using[w] = Idling
      BY DEF ProcessTyped, MayStart
    <3>2. QED BY <3>1 DEF ProcessTyped, MayStart, Asking, Idling
  <2>1. w \notin down /\ (permit[w].state = NotAsking \/ permit[w].granted)
    BY <2>0, FreeWorker
  <2>2. Unasked(w)
    BY <2>1, UnaskedWhenFree DEF Asked, AskedBy
  <2>3. HoldsEvent(alive[w], After(Head(inbox[w]), alive[w])) \in Seq(Mail)
    BY HoldsEventTyped, CostsTyped DEF ProcessTyped, MayStart
  <2>4. \A i \in DOMAIN HoldsEvent(alive[w], After(Head(inbox[w]), alive[w])) :
      HoldsEvent(alive[w], After(Head(inbox[w]), alive[w]))[i][1] # "request"
    BY DEF HoldsEvent
  <2>5. Silent(w)' /\ Blocks(w)'
    BY <2>2, <2>3, <2>4, UnaskedPosted
  <2>6. \A v \in Nodes \ {w} : /\ events'[v] = events[v] /\ permit'[v] = permit[v]
                               /\ grants'[v] = grants[v]
                               /\ using'[v] = using[v] /\ inbox'[v] = inbox[v]
    BY <2>3, NewMail DEF ProcessTyped, ChannelsTyped
  <2>7. AskedBy(w)'
    BY <2>5 DEF Asked, AskedBy, ProcessTyped, MayStart, MinPending
  <2>8. QED BY <2>6, <2>7, AskedElsewhere
<1>34. ASSUME NEW w \in Nodes, SkipTest(w)  PROVE Asked'
  <2> USE <1>34 DEF Typed, SkipTest, central, work, gate, line, nodes, process, outcome
  <2>0. status[w] \notin {"exited", "dead"} /\ using[w] # Asking
    <3>1. using[w] = Idling
      BY DEF ProcessTyped, MayStart
    <3>2. QED BY <3>1 DEF ProcessTyped, MayStart, Asking, Idling
  <2>1. w \notin down /\ (permit[w].state = NotAsking \/ permit[w].granted)
    BY <2>0, FreeWorker
  <2>2. Unasked(w)
    BY <2>1, UnaskedWhenFree DEF Asked, AskedBy
  <2>3. Skipped(Head(inbox[w])) \in Seq(Mail)
    BY MailTyped, MailLists DEF ProcessTyped, MayStart, Skipped
  <2>4. \A i \in DOMAIN Skipped(Head(inbox[w])) : Skipped(Head(inbox[w]))[i][1] # "request"
    BY DEF Skipped
  <2>5. Silent(w)' /\ Blocks(w)'
    BY <2>2, <2>3, <2>4, UnaskedPosted
  <2>6. \A v \in Nodes \ {w} : /\ events'[v] = events[v] /\ permit'[v] = permit[v]
                               /\ grants'[v] = grants[v]
                               /\ using'[v] = using[v] /\ inbox'[v] = inbox[v]
    BY <2>3, NewMail DEF ProcessTyped, ChannelsTyped
  <2>7. AskedBy(w)'
    BY <2>5 DEF Asked, AskedBy, ProcessTyped, MayStart
  <2>8. QED BY <2>6, <2>7, AskedElsewhere
<1>35. ASSUME NEW w \in Nodes, FinishTest(w)  PROVE Asked'
  <2> USE <1>35 DEF Typed, FinishTest, central, work, gate, line, nodes, process, outcome
  <2>1. w \notin down /\ permit[w].state = NotAsking
    BY DEF ProcessTyped, Asking, Idling
  <2>2. Unasked(w)
    BY <2>1, UnaskedWhenFree DEF Asked, AskedBy
  <2>3. PICK left \in SUBSET Fixtures :
          events' = [events EXCEPT ![w] =
            @ \o Append(HoldsEvent(alive[w], left), <<"complete", Head(inbox[w])>>)]
    <3>1. inbox[w] \in Seq(Tests) /\ alive[w] \in SUBSET Fixtures
      BY DEF ProcessTyped
    <3>2. Len(inbox[w]) > 1 => Kept(inbox[w][2], alive[w]) \in SUBSET Fixtures
      BY <3>1 DEF Kept
    <3>3. QED BY <3>2 DEF Post
  <2> DEFINE hs == HoldsEvent(alive[w], left)
             all == Append(hs, <<"complete", Head(inbox[w])>>)
  <2>4. hs \in Seq(Mail) /\ \A i \in DOMAIN hs : hs[i][1] = "holds"
    <3>1. alive[w] \in SUBSET Fixtures
      BY DEF ProcessTyped
    <3>2. hs \in Seq(Mail)
      BY <3>1, HoldsEventTyped
    <3>3. QED BY <3>2 DEF HoldsEvent
  <2>5. <<"complete", Head(inbox[w])>> \in Mail
    BY MailTyped, Busy DEF ProcessTyped
  <2> HIDE DEF hs
  <2>6. all \in Seq(Mail)
    BY <2>4, <2>5
  <2>7. \A i \in DOMAIN all : all[i][1] # "request"
    <3>1. ASSUME NEW e \in Mail, e[1] = "complete", NEW i \in DOMAIN Append(hs, e)
          PROVE  Append(hs, e)[i][1] # "request"
      BY <2>4, <3>1
    <3>2. QED BY <2>5, <3>1
  <2>8. Post(w, all)
    BY <2>3 DEF Post, hs
  <2> HIDE DEF all
  <2>9. Silent(w)' /\ Blocks(w)'
    BY <2>2, <2>6, <2>7, <2>8, UnaskedPosted
  <2>10. \A v \in Nodes \ {w} : /\ events'[v] = events[v] /\ permit'[v] = permit[v]
                                /\ grants'[v] = grants[v]
                               /\ using'[v] = using[v] /\ inbox'[v] = inbox[v]
    BY <2>6, <2>8, NewMail DEF ProcessTyped, ChannelsTyped
  <2>11. AskedBy(w)'
    BY <2>9 DEF Asked, AskedBy, ProcessTyped
  <2>12. QED BY <2>10, <2>11, AskedElsewhere
<1>36. ASSUME NEW w \in Nodes, Ask(w)  PROVE Asked'
  <2> USE <1>36 DEF Typed, Ask, central, work, gate, line, nodes, process, outcome
  <2>1. w \notin down /\ inbox[w] # <<>> /\ permit[w] \in PermitRecords
      /\ permit[w].state = NotAsking
    BY FreeWorker, Busy DEF ProcessTyped
  <2>2. AskedBy(w) /\ Unasked(w)
    BY <2>1, UnaskedWhenFree DEF Asked, AskedBy
  <2>3. PICK f \in Reaches[Head(inbox[w])] \ alive[w] :
          /\ permit' = [permit EXCEPT ![w] =
               [id |-> permit[w].id + 1, state |-> "asking", granted |-> FALSE, key |-> f]]
          /\ Post(w, <<<<"request", [id |-> permit[w].id + 1, test |-> Head(inbox[w]), key |-> f,
                                     holds |-> HoldOf(alive[w]), cancelled |-> FALSE]>>>>)
    OBVIOUS
  <2> DEFINE q == [id |-> permit[w].id + 1, test |-> Head(inbox[w]), key |-> f,
                   holds |-> HoldOf(alive[w]), cancelled |-> FALSE]
             m == <<"request", q>>
             n0 == permit[w].id + 1
             t0 == Head(inbox[w])
  <2>4. inbox[w] \in Seq(Tests) /\ t0 \in Tests /\ f \in Fixtures /\ n0 \in 1 .. MaxAsks
    BY <2>1, ReachesAssumption, PermitFields DEF ProcessTyped
  <2>5. q \in Requesting /\ m \in Mail /\ m[1] = "request" /\ m[2] = q
        /\ q.id = n0 /\ q.test = t0 /\ q.cancelled = FALSE
    BY <2>4, MailTyped, HoldOfNat DEF Requesting, ProcessTyped
  <2>6. Post(w, <<m>>)
    BY <2>3
  <2>7. permit'[w].id = n0 /\ permit'[w].state = "asking" /\ permit'[w].granted = FALSE
    BY <2>3 DEF ProcessTyped
  <2> HIDE DEF q, m, n0, t0
  <2>8. <<m>> \in Seq(Mail) /\ \A i \in DOMAIN <<m>> : <<m>>[i] = m /\ <<m>>[i][1] # "complete"
    BY <2>5
  <2>9. /\ \A i \in DOMAIN events[w] : i \in DOMAIN events'[w] /\ events'[w][i] = events[w][i]
        /\ \A i \in DOMAIN events'[w] : i \notin DOMAIN events[w] =>
             events'[w][i] = m /\ \A j \in DOMAIN events'[w] : ~(j > i)
    BY <2>5, <2>6, OneMore
  <2>10. \A i \in DOMAIN events'[w] : Asks(w, i)' => i \notin DOMAIN events[w]
    BY <2>2, <2>9 DEF Unasked, Asks, Kind
  <2>11. Silent(w)'
    BY <2>2, <2>9, <2>10 DEF Silent, OnlyGivesUp, Unasked, HasRequest
  <2>12. \A n, t : Open(w, n, t)' => n = n0 /\ t = t0
    BY <2>2, <2>5, <2>9, <2>10 DEF Open, Unasked, HasRequest
  <2>13. Unfinished(w)' = Unfinished(w)
    BY <2>5, <2>6, OneMore DEF Unfinished, Elements
  <2>14. /\ Distinct(inbox[w]) /\ Elements(inbox[w]) \cap Completes(w) = {}
         /\ Elements(inbox[w]) \subseteq Elements(queue[w])
    BY <2>1 DEF Consistent, ChannelAgrees, Agrees
  <2>15. \A i \in DOMAIN inbox[w] : inbox[w][i] \in Unfinished(w)
    BY <2>14 DEF Unfinished, Elements
  <2>16. t0 \in Unfinished(w)
    BY <2>1, <2>4, <2>15 DEF t0
  <2>17. w \notin told => \E u \in Unfinished(w) : u # t0
    <3>1. SUFFICES ASSUME w \notin told  PROVE \E u \in Unfinished(w) : u # t0
      OBVIOUS
    <3>2. Len(inbox[w]) > 1
      BY <2>2, <3>1 DEF AskedBy, Idling
    <3>3. 1 \in DOMAIN inbox[w] /\ 2 \in DOMAIN inbox[w] /\ t0 = inbox[w][1] /\ 1 # 2
      BY <2>4, <3>2 DEF t0
    <3>4. QED BY <2>14, <2>15, <3>3 DEF Distinct
  <2>18. \A i \in DOMAIN grants[w] : grants[w][i] <= permit[w].id /\ grants[w][i] \in 0 .. MaxAsks
    <3>1. grants[w] \in Seq(0 .. MaxAsks)
        /\ \A i \in DOMAIN grants[w] : grants[w][i] <= permit[w].id
      BY <2>1, <2>2 DEF AskedBy, ChannelsTyped
    <3>2. \A i \in DOMAIN grants[w] : grants[w][i] \in 0 .. MaxAsks
      BY <3>1, Members
    <3>3. QED BY <3>1, <3>2
  <2>19. \A i \in DOMAIN grants'[w] : grants'[w][i] # n0 /\ grants'[w][i] <= n0
    BY <2>1, <2>18, PermitFields DEF n0
  <2>20. Blocks(w)'
    BY <2>7, <2>12, <2>13, <2>16, <2>17, <2>19 DEF Blocks, NotAsking, t0
  <2>21. AskedBy(w)'
    BY <2>2, <2>7, <2>11, <2>19, <2>20 DEF AskedBy, Idling
  <2>22. \A v \in Nodes \ {w} : /\ events'[v] = events[v] /\ permit'[v] = permit[v]
                                /\ grants'[v] = grants[v]
                               /\ using'[v] = using[v] /\ inbox'[v] = inbox[v]
    BY <2>3, <2>5, <2>6, OneMore DEF ProcessTyped, ChannelsTyped
  <2>23. QED BY <2>21, <2>22, AskedElsewhere
<1>37. ASSUME NEW w \in Nodes, GiveUp(w)  PROVE Asked'
  <2> USE <1>37 DEF Typed, GiveUp, central, work, gate, line, nodes, process, outcome
  <2>1. w \notin down /\ inbox[w] # <<>> /\ permit[w] \in PermitRecords
    BY Busy DEF ProcessTyped
  <2>2. AskedBy(w)
    BY DEF Asked
  <2>3. PICK q \in Requesting : /\ Post(w, <<<<"request", q>>>>)
                                /\ q.id = permit[w].id /\ q.test = Head(inbox[w]) /\ q.cancelled
    <3> DEFINE q == [id |-> permit[w].id, test |-> Head(inbox[w]), key |-> permit[w].key,
                     holds |-> HoldOf(alive[w]), cancelled |-> TRUE]
    <3>1. permit[w].key \in Fixtures /\ permit[w].id \in 1 .. MaxAsks
      BY <2>1, PermitFields, Busy
    <3>2. q \in Requesting
      BY <2>1, <3>1, HoldOfNat DEF Requesting, ProcessTyped
    <3>3. QED BY <3>2
  <2> DEFINE m == <<"request", q>>
  <2>4. m \in Mail /\ m[1] = "request" /\ m[2] = q
    BY MailTyped
  <2>5. \A n \in 1 .. MaxAsks, t \in Tests : Open(w, n, t) => m[2].id = n /\ m[2].test = t
    BY <2>1, <2>2, <2>3, <2>4 DEF AskedBy, Blocks
  <2>6. Post(w, <<m>>)
    BY <2>3
  <2> HIDE DEF m
  <2>7. Silent(w)' /\ \A n, t : Open(w, n, t)' => Open(w, n, t)
    BY <2>2, <2>3, <2>4, <2>5, <2>6, AskedPosted
  <2>8. <<m>> \in Seq(Mail) /\ \A i \in DOMAIN <<m>> : <<m>>[i][1] # "complete"
    BY <2>4
  <2>9. Unfinished(w)' = Unfinished(w)
    BY <2>6, <2>8, CompletesPosted DEF Unfinished, Elements
  <2>10. permit'[w].id = permit[w].id /\ permit'[w].state # NotAsking
         /\ permit'[w].granted = permit[w].granted
    BY <2>1 DEF ProcessTyped, PermitRecords, NotAsking
  <2>11. Blocks(w)'
    BY <2>2, <2>7, <2>9, <2>10 DEF AskedBy, Blocks
  <2>12. AskedBy(w)'
    BY <2>2, <2>7, <2>10, <2>11 DEF AskedBy
  <2>13. \A v \in Nodes \ {w} : /\ events'[v] = events[v] /\ permit'[v] = permit[v]
                                /\ grants'[v] = grants[v]
                               /\ using'[v] = using[v] /\ inbox'[v] = inbox[v]
    BY <2>6, <2>8, NewMail DEF ProcessTyped, ChannelsTyped
  <2>14. QED BY <2>12, <2>13, AskedElsewhere
<1>38. ASSUME NEW w \in Nodes, GrantArrives(w)  PROVE Asked'
  <2> USE <1>38 DEF Typed, GrantArrives, central, work, gate, line, nodes, process, outcome
  <2>1. AskedBy(w) /\ grants[w] \in Seq(0 .. MaxAsks) /\ permit[w] \in PermitRecords
    BY DEF Asked, ChannelsTyped, ProcessTyped
  <2>2. /\ \A i \in DOMAIN Tail(grants[w]) : i + 1 \in DOMAIN grants[w]
                                            /\ Tail(grants[w])[i] = grants[w][i + 1]
        /\ 1 \in DOMAIN grants[w] /\ Head(grants[w]) = grants[w][1]
    BY <2>1
  <2>3. \A i \in DOMAIN grants'[w] : \E j \in DOMAIN grants[w] : grants'[w][i] = grants[w][j]
    BY <2>2 DEF ChannelsTyped
  <2>4. /\ permit'[w].id = permit[w].id /\ permit'[w].state = permit[w].state
        /\ permit'[w].granted =
             (permit[w].granted \/ (permit[w].state # NotAsking
                 /\ Head(grants[w]) = permit[w].id))
    BY <2>1 DEF ProcessTyped, PermitRecords
  <2>5. Silent(w)'
    BY <2>1 DEF AskedBy, Silent, OnlyGivesUp, Asks, Kind, HasRequest
  <2>6. \A n, t : Open(w, n, t)' = Open(w, n, t)
    BY DEF Open, Asks, Kind, HasRequest
  <2>7. Unfinished(w)' = Unfinished(w)
    BY DEF Unfinished, Completes, Kind, Elements
  <2>8. Blocks(w)'
    <3>1. ASSUME NEW n \in 1 .. MaxAsks, NEW t \in Tests, Open(w, n, t), w \notin down
          PROVE  /\ permit'[w].id = n /\ permit'[w].state # NotAsking /\ ~permit'[w].granted
                 /\ \A i \in DOMAIN grants'[w] : grants'[w][i] # n
                 /\ t = Head(inbox[w])
      <4>1. /\ permit[w].id = n /\ permit[w].state # NotAsking /\ ~permit[w].granted
            /\ \A i \in DOMAIN grants[w] : grants[w][i] # n
            /\ t = Head(inbox[w])
        BY <2>1, <3>1 DEF AskedBy, Blocks
      <4>2. Head(grants[w]) # n
        BY <2>2, <4>1
      <4>3. QED BY <2>3, <2>4, <4>1, <4>2
    <3>2. \A n \in 1 .. MaxAsks, t \in Tests : Open(w, n, t) =>
            t \in Unfinished(w) /\ (w \notin told => \E u \in Unfinished(w) : u # t)
      BY <2>1 DEF AskedBy, Blocks
    <3>3. QED BY <2>6, <2>7, <3>1, <3>2 DEF Blocks
  <2>9. AskedBy(w)'
    BY <2>1, <2>3, <2>4, <2>5, <2>8 DEF AskedBy
  <2>10. \A v \in Nodes \ {w} : /\ events'[v] = events[v] /\ permit'[v] = permit[v]
                                /\ grants'[v] = grants[v]
                               /\ using'[v] = using[v] /\ inbox'[v] = inbox[v]
    BY DEF ProcessTyped, ChannelsTyped
  <2>11. QED BY <2>9, <2>10, AskedElsewhere
<1>39. ASSUME NEW w \in Nodes, NEW reached \in BOOLEAN, GoOn(w, reached)  PROVE Asked'
  <2> USE <1>39 DEF Typed, GoOn, central, work, gate, line, nodes, process, outcome
  <2>10. reached => alive[w] \cup {permit[w].key} \in SUBSET Fixtures
    BY PermitFields, Busy DEF ProcessTyped
  <2>1. w \notin down /\ (permit[w].state = NotAsking \/ permit[w].granted)
    BY Busy DEF ProcessTyped
  <2>2. Unasked(w)
    BY <2>1, UnaskedWhenFree DEF Asked, AskedBy
  <2>3. HoldsEvent(alive[w],
      IF reached THEN alive[w] \cup {permit[w].key} ELSE alive[w]) \in Seq(Mail)
    BY HoldsEventTyped, <2>10 DEF ProcessTyped
  <2>4. \A i \in DOMAIN HoldsEvent(alive[w],
      IF reached THEN alive[w] \cup {permit[w].key} ELSE alive[w]) :
          HoldsEvent(alive[w],
              IF reached THEN alive[w] \cup {permit[w].key} ELSE alive[w])[i][1] # "request"
    BY DEF HoldsEvent
  <2>5. Silent(w)' /\ Blocks(w)'
    BY <2>2, <2>3, <2>4, UnaskedPosted
  <2>6. \A v \in Nodes \ {w} : /\ events'[v] = events[v] /\ permit'[v] = permit[v]
                               /\ grants'[v] = grants[v]
                               /\ using'[v] = using[v] /\ inbox'[v] = inbox[v]
    BY <2>3, NewMail DEF ProcessTyped, ChannelsTyped
  <2>9. using[w] # Idling /\ permit'[w].id = permit[w].id
    BY Busy DEF ProcessTyped, Asking, Idling, NoPermit
  <2>7. AskedBy(w)'
    BY <2>5 , <2>9 DEF Asked, AskedBy, ProcessTyped, NoPermit
  <2>8. QED BY <2>6, <2>7, AskedElsewhere
<1>40. ASSUME NEW w \in Nodes, Exit(w)  PROVE Asked'
  <2> USE <1>40 DEF Typed, Exit, Leave, central, work, gate, line, nodes, process, outcome
  <2>0. status[w] \notin {"exited", "dead"} /\ using[w] # Asking
    <3>1. using[w] = Idling
      BY DEF ProcessTyped, MayStart
    <3>2. QED BY <3>1 DEF ProcessTyped, MayStart, Asking, Idling
  <2>1. w \notin down /\ (permit[w].state = NotAsking \/ permit[w].granted)
    BY <2>0, FreeWorker
  <2>2. Unasked(w)
    BY <2>1, UnaskedWhenFree DEF Asked, AskedBy
  <2>3. <<<<"finished", 0>>>> \in Seq(Mail)
    BY MailTyped, MailLists
  <2>4. \A i \in DOMAIN <<<<"finished", 0>>>> : <<<<"finished", 0>>>>[i][1] # "request"
    OBVIOUS
  <2>5. Silent(w)' /\ Blocks(w)'
    BY <2>2, <2>3, <2>4, UnaskedPosted
  <2>6. \A v \in Nodes \ {w} : /\ events'[v] = events[v] /\ permit'[v] = permit[v]
                               /\ grants'[v] = grants[v]
                               /\ using'[v] = using[v] /\ inbox'[v] = inbox[v]
    BY <2>3, NewMail DEF ProcessTyped, ChannelsTyped
  <2>7. AskedBy(w)'
    BY <2>5 DEF Asked, AskedBy, ProcessTyped
  <2>8. QED BY <2>6, <2>7, AskedElsewhere
<1>41. ASSUME NEW w \in Nodes, Crash(w)  PROVE Asked'
  <2> USE <1>41 DEF Typed, Crash, Leave, central, work, gate, line, nodes, process, outcome
  <2>1. AskedBy(w) /\ w \notin down
    BY DEF Asked, ProcessTyped
  <2> DEFINE m == <<"down", 0>>
  <2>2. m \in Mail /\ m[1] = "down" /\ Post(w, <<m>>)
    BY MailTyped
  <2> HIDE DEF m
  <2>3. Silent(w)' /\ \A n, t : Open(w, n, t)' => Open(w, n, t)
    BY <2>1, <2>2, AskedPosted
  <2>4. <<m>> \in Seq(Mail) /\ \A i \in DOMAIN <<m>> : <<m>>[i][1] # "complete"
    BY <2>2
  <2>5. Unfinished(w)' = Unfinished(w)
    BY <2>2, <2>4, CompletesPosted DEF Unfinished, Elements
  <2>6. Blocks(w)'
    BY <2>1, <2>3, <2>5 DEF AskedBy, Blocks
  <2>7. AskedBy(w)'
    BY <2>1, <2>3, <2>6 DEF AskedBy, ProcessTyped
  <2>8. \A v \in Nodes \ {w} : /\ events'[v] = events[v] /\ permit'[v] = permit[v]
                               /\ grants'[v] = grants[v]
                               /\ using'[v] = using[v] /\ inbox'[v] = inbox[v]
    BY <2>2, <2>4, NewMail DEF ProcessTyped, ChannelsTyped
  <2>9. QED BY <2>7, <2>8, AskedElsewhere
<1>42. ASSUME UNCHANGED vars  PROVE Asked'
  <2>1. UNCHANGED <<events, requests, permit, grants, using, inbox, down, told, queue>>
    BY <1>42 DEF vars, nodes, process, work
  <2>2. QED BY <2>1, AskedFrame DEF Typed
<1>43. /\ AtOp("fill") => Head(todo).out \in Seq(Tests)
       /\ AtOp("replan") => Head(todo).tests \in SUBSET Tests
  BY StackMoves, CallFields DEF Typed, AtOp
<1>44. ASSUME NEW w \in Nodes, AtOp("fill"), Filler(w, Head(todo).out)  PROVE Asked'
  BY <1>44, <1>43, <1>2, <1>3, <1>4, <1>5, <1>6 DEF Filler
<1>45. ASSUME NEW w \in Nodes, Common(w)  PROVE Asked'
  BY <1>45, <1>8, <1>9, <1>10,
     <1>19, <1>20, <1>23, <1>25, <1>26,
     <1>29, <1>30, <1>31,
     <1>21, <1>15, <1>18, <1>16, <1>17 DEF Common
<1>46. ASSUME Anywhere  PROVE Asked'
  BY <1>46, <1>43, <1>11, <1>12, <1>13, <1>14, <1>27
  DEF Anywhere
<1>47. ASSUME Controller  PROVE Asked'
  BY <1>47, <1>44, <1>45, <1>46, <1>1, <1>7, <1>22, <1>24, <1>28
  DEF Controller
<1>48. ASSUME NEW w \in Nodes, Worker(w)  PROVE Asked'
  BY <1>48, <1>32, <1>33, <1>34, <1>35, <1>40, <1>36, <1>38, <1>39 DEF Worker
<1>49. QED BY <1>42, <1>47, <1>48, <1>37, <1>41 DEF Next, Stopped

(* At the start nobody has asked.                                          *)
LEMMA AskedInit == Init => Asked
<1>1. ASSUME Init, NEW w \in Nodes  PROVE AskedBy(w)
  <2>1. events[w] = <<>> /\ grants[w] = <<>> /\ requests[w] = NoRequest /\ using[w] = Idling
    BY <1>1 DEF Init, Start
  <2>2. QED BY <2>1 DEF AskedBy, Silent, Blocks, Open, HasRequest
<1>2. QED BY <1>1 DEF Asked

(* What a blocked worker has reserved is no more than it said it holds.    *)
Covered(w) == HasRequest(w) => live[w] # NoSnapshot /\ Held(w) <= live[w]

(* A node with tests in its queue is registered; until it is told to       *)
(* finish it has one that is not done, and none was taken back; and every  *)
(* test there costs more than what it leaves held.                         *)
Stocked(w) ==
  /\ queue[w] # <<>> => w \in registered
  /\ w \notin told /\ queue[w] # <<>> => Unfinished(w) # {}
  /\ w \notin told => Elements(queue[w]) \cap withdrawn = {}
  /\ \A t \in Elements(queue[w]) : charge[t].peak > charge[t].holds

(* So for every node, and a test that was taken back is not pending.       *)
Supplied ==
  /\ \A w \in Nodes : Stocked(w) /\ Covered(w)
  /\ withdrawn \cap pending = {}

(* A test needs more at its peak than what is held after it: its own       *)
(* demand is at least one slot.                                            *)
LEMMA ChargePositive ==
  ASSUME NEW t \in Tests, NEW F \in SUBSET Fixtures
  PROVE  Charge(t, F).peak > Charge(t, F).holds
<1> DEFINE Owed == Uses[t] \ Kept(t, F)
           Setups == {SetupSlots[f] : f \in Owed}
           All == {Demand[t]} \cup Setups
<1>1. Owed \in SUBSET Fixtures /\ After(t, F) \in SUBSET Fixtures
  BY CostsTyped, UsesAssumption
<1>2. IsFiniteSet(Owed)
  BY <1>1, FixturesAssumption, FS_Subset
<1>3. IsFiniteSet(Setups)
  <2> DEFINE f == [g \in Owed |-> SetupSlots[g]]
  <2>1. Setups = {f[g] : g \in Owed} /\ DOMAIN f = Owed
    OBVIOUS
  <2> HIDE DEF f, Setups, Owed
  <2>2. QED BY <1>2, <2>1, ImageFinite
<1>4. Setups \subseteq Nat /\ Demand[t] \in Nat \ {0}
  BY <1>1, SetupAssumption, DemandAssumption
<1>5. Greatest(All) \in Nat /\ Demand[t] <= Greatest(All)
  <2> HIDE DEF Setups
  <2>1. IsFiniteSet(All) /\ All # {} /\ All \subseteq Nat
    BY <1>3, <1>4, FS_Singleton, FS_Union
  <2>2. QED BY <2>1, GreatestMember
<1>6. Peak(t, F) = Greatest(All) + HoldOf(After(t, F))
  BY DEF Peak
<1>7. HoldOf(After(t, F)) \in Nat
  BY <1>1, HoldOfNat
<1> HIDE DEF All
<1>8. Peak(t, F) > HoldOf(After(t, F))
  BY <1>4, <1>5, <1>6, <1>7
<1>9. QED BY <1>8 DEF Charge

(* Growing a charge by a fixture set up in mid-test keeps that.            *)
LEMMA AddingPositive ==
  ASSUME NEW c \in Charges, c.peak > c.holds, NEW f \in Fixtures, NEW setup \in Nat,
         NEW held \in Nat
  PROVE  AddingFixture(c, f, setup, held).peak > AddingFixture(c, f, setup, held).holds
<1>1. Hold[f] \in Nat /\ c.peak \in Nat /\ c.holds \in Nat
  BY HoldAssumption DEF Charges
<1>2. QED BY <1>1 DEF AddingFixture, Larger

(* The reservation of a node that asks is never raised for its queue: it   *)
(* holds what it reserved, and its other tests need more. So a request     *)
(* leaves the line by its answer, never by a grant of something else.      *)
LEMMA NotGrantedWhileAsking ==
  ASSUME Typed, Priced, Asked, Supplied, NEW w \in Nodes, HasRequest(w), w \notin told
  PROVE  ~Granted(w)
<1> DEFINE t == requests[w].test
<1>1. requests[w].id \in 1 .. MaxAsks /\ t \in Tests
  BY RequestFields DEF Typed
<1>2. Open(w, requests[w].id, t)
  BY DEF Open
<1>3. t \in Unfinished(w) /\ \E u \in Unfinished(w) : u # t
  BY <1>1, <1>2 DEF Asked, AskedBy, Blocks
<1>4. Len(queue[w]) > 1
  <2>1. queue[w] \in Seq(Tests)
    BY DEF Typed, WorkTyped
  <2>2. PICK i \in DOMAIN queue[w], j \in DOMAIN queue[w] : queue[w][i] # queue[w][j]
    BY <1>3 DEF Unfinished, Elements
  <2>3. QED BY <2>1, <2>2
<1>5. live[w] \in Nat /\ Held(w) <= live[w] /\ Larger(0, live[w]) = live[w] /\ Held(w) \in Nat
  BY HoldsNat DEF Supplied, Covered, Typed, NodesTyped, Priced, GateTyped, Held
<1>6. t \in Elements(queue[w]) \ withdrawn /\ charge[t].peak > charge[t].holds
  BY <1>3 DEF Supplied, Stocked, Unfinished
<1>7. Elements(queue[w]) \in SUBSET Tests
  BY QueuedTests DEF Typed, WorkTyped
<1>8. WithLiveHolds(charge[t], live[w]) <= TailNeed(w) /\ TailNeed(w) \in Nat
  BY <1>5, <1>6, <1>7, NeedNat DEF Typed, Priced, TailNeed
<1>9. charge[t].peak \in Nat /\ charge[t].holds \in Nat
  BY <1>1 DEF Priced, Charges
<1>10. WithLiveHolds(charge[t], live[w]) > live[w] /\ WithLiveHolds(charge[t], live[w]) \in Nat
  BY <1>5, <1>6, <1>9 DEF WithLiveHolds, Larger
<1>11. TailNeed(w) > Held(w)
  BY <1>5, <1>8, <1>10
<1>12. QED BY <1>4, <1>11 DEF Granted, Deferred

(* When the scheduler takes anything but a request from w, it keeps no     *)
(* request of w.                                                           *)
LEMMA SilentHead ==
  ASSUME NEW w \in Nodes, Asked, 1 \in DOMAIN events[w], Kind(w, 1) \notin {"request", "down"}
  PROVE  ~HasRequest(w)
BY DEF Asked, AskedBy, Silent, OnlyGivesUp

(* A step that leaves requests, snapshots and the blocked workers' slots   *)
(* alone keeps them covered.                                               *)
LEMMA CoveredKept ==
  ASSUME \A v \in Nodes : Covered(v), UNCHANGED <<requests, live>>,
         \A v \in Nodes : HasRequest(v) => reserved'[v] = reserved[v]
  PROVE  \A v \in Nodes : Covered(v)'
BY DEF Covered, HasRequest, Held

(* A step that leaves the queue and its completions alone keeps a node     *)
(* stocked.                                                                *)
LEMMA StockedKept ==
  ASSUME NEW v \in Nodes, Stocked(v), queue'[v] = queue[v], Completes(v)' = Completes(v),
         v \in registered => v \in registered', v \in told => v \in told',
         Elements(queue[v]) \cap withdrawn' \subseteq withdrawn,
         \A t \in Elements(queue[v]) : charge'[t] = charge[t]
  PROVE  Stocked(v)'
<1>1. Elements(queue[v])' = Elements(queue[v]) /\ Unfinished(v)' = Unfinished(v)
  BY DEF Elements, Unfinished
<1>2. QED BY <1>1 DEF Stocked

(* The same, for all nodes.                                                *)
LEMMA SuppliedKept ==
  ASSUME Supplied, UNCHANGED <<queue, withdrawn, charge, pending>>,
         registered \subseteq registered', told \subseteq told',
         \A v \in Nodes : Completes(v)' = Completes(v),
         \A v \in Nodes : Covered(v)'
  PROVE  Supplied'
BY StockedKept DEF Supplied

(* The same, for a step that posts and takes nothing.                      *)
LEMMA SuppliedCalm ==
  ASSUME Supplied, UNCHANGED <<queue, withdrawn, charge, pending, events, requests, live>>,
         registered \subseteq registered', told \subseteq told',
         \A v \in Nodes : HasRequest(v) => reserved'[v] = reserved[v]
  PROVE  Supplied'
<1>1. \A v \in Nodes : Completes(v)' = Completes(v)
  BY SameMail
<1>2. \A v \in Nodes : Covered(v)'
  BY CoveredKept DEF Supplied
<1>3. QED BY <1>1, <1>2, SuppliedKept

(* The same, for a handler that takes a message other than a completion.   *)
LEMMA SuppliedTaken ==
  ASSUME Supplied, ChannelsTyped, NEW w \in Nodes, NEW kind, kind # "complete", Takes(w, kind),
         UNCHANGED <<queue, withdrawn, charge, pending>>, registered \subseteq registered',
         told \subseteq told', \A v \in Nodes : Covered(v)'
  PROVE  Supplied'
BY CompletesTaken, SuppliedKept

(* The same, for a worker that posts no completion.                        *)
LEMMA SuppliedPosted ==
  ASSUME Supplied, ChannelsTyped, NEW w \in Nodes, NEW messages \in Seq(Mail), Post(w, messages),
         \A i \in DOMAIN messages : messages[i][1] # "complete",
         UNCHANGED <<queue, withdrawn, charge, pending, registered, told, requests, live,
             reserved>>
  PROVE  Supplied'
<1>1. \A v \in Nodes : Completes(v)' = Completes(v)
  BY CompletesPosted
<1>2. \A v \in Nodes : Covered(v)'
  BY CoveredKept DEF Supplied
<1>3. QED BY <1>1, <1>2, SuppliedKept

(* A worker that finishes a test before its last leaves one undone.        *)
LEMMA SuppliedFinished ==
  ASSUME Supplied, Consistent, WorkTyped, ProcessTyped, ChannelsTyped, NEW w \in Nodes,
         w \notin down,
         inbox[w] # <<>>, w \notin told => Len(inbox[w]) > 1,
         NEW messages \in Seq(Mail), CompletesLast(messages, Head(inbox[w])), Post(w, messages),
         UNCHANGED <<queue, withdrawn, charge, pending, registered, told, requests, live,
             reserved>>
  PROVE  Supplied'
<1> DEFINE t == Head(inbox[w])
<1>1. /\ Completes(w)' = Completes(w) \cup {t}
      /\ \A v \in Nodes : v # w => Completes(v)' = Completes(v)
  BY CompletesPosted
<1>2. /\ Distinct(inbox[w]) /\ Elements(inbox[w]) \cap Completes(w) = {}
      /\ Elements(inbox[w]) \subseteq Elements(queue[w])
  BY DEF Consistent, ChannelAgrees, Agrees
<1>3. inbox[w] \in Seq(Tests)
  BY DEF ProcessTyped
<1>4. w \notin told => Unfinished(w)' # {}
  <2>1. SUFFICES ASSUME w \notin told  PROVE Unfinished(w)' # {}
    OBVIOUS
  <2>2. 1 \in DOMAIN inbox[w] /\ 2 \in DOMAIN inbox[w] /\ t = inbox[w][1] /\ 1 # 2
    BY <1>3, <2>1
  <2>3. inbox[w][2] # t /\ inbox[w][2] \in Elements(inbox[w])
    BY <1>2, <2>2 DEF Distinct, Elements
  <2>4. inbox[w][2] \in Elements(queue[w])' /\ inbox[w][2] \notin Completes(w)'
    BY <1>1, <1>2, <2>3 DEF Elements
  <2>5. QED BY <2>4 DEF Unfinished
<1>5. Stocked(w)'
  BY <1>4 DEF Supplied, Stocked, Elements
<1>6. ASSUME NEW v \in Nodes, v # w  PROVE Stocked(v)'
  BY <1>1, <1>6, StockedKept DEF Supplied
<1>7. \A v \in Nodes : Covered(v)'
  BY CoveredKept DEF Supplied
<1>8. QED BY <1>5, <1>6, <1>7 DEF Supplied

(* Granting a request grows the charge of one test.                        *)
LEMMA SuppliedAnswered ==
  ASSUME Supplied, Typed, Priced, NEW w \in Nodes, HasRequest(w), CompleteRequest(w),
         \A v \in Nodes : v # w => reserved'[v] = reserved[v]
  PROVE  Supplied'
<1> DEFINE r == requests[w]
<1>1. r.key \in Fixtures /\ Holds(w) \in Nat /\ SetupSlots[r.key] \in Nat
  BY RequestFields, HoldsNat, SetupAssumption DEF Typed
<1>2. UNCHANGED <<queue, withdrawn, pending, registered, told, live, events>>
  BY DEF CompleteRequest
<1>3. \A v \in Nodes : Completes(v)' = Completes(v)
  BY <1>2, SameMail
<1>4. ASSUME NEW t \in Tests, charge[t].peak > charge[t].holds
      PROVE  charge'[t].peak > charge'[t].holds
  <2>1. charge[t] \in Charges
    BY DEF Priced
  <2>2. RequestCharges(w)[t].peak > RequestCharges(w)[t].holds
    <3>1. AddingFixture(charge[t], r.key, SetupSlots[r.key], Holds(w)).peak
            > AddingFixture(charge[t], r.key, SetupSlots[r.key], Holds(w)).holds
      BY <1>1, <1>4, <2>1, AddingPositive
    <3>2. AddingFixture(charge[t], r.key, 0, 0).peak > AddingFixture(charge[t], r.key, 0, 0).holds
      BY <1>1, <1>4, <2>1, AddingPositive
    <3>3. QED BY <1>4, <3>1, <3>2 DEF RequestCharges
  <2>3. charge'[t] = charge[t] \/ charge'[t] = RequestCharges(w)[t]
    BY DEF CompleteRequest, Learnt
  <2>4. QED BY <1>4, <2>2, <2>3
<1>5. \A v \in Nodes : Elements(queue[v]) \in SUBSET Tests
    /\ Elements(queue[v])' = Elements(queue[v])
                       /\ Unfinished(v)' = Unfinished(v)
  BY <1>2, <1>3, QueuedTests DEF Typed, WorkTyped, Elements, Unfinished
<1>6. \A v \in Nodes : Stocked(v)'
  BY <1>2, <1>4, <1>5 DEF Supplied, Stocked
<1>7. \A v \in Nodes : Covered(v)'
  <2>1. \A v \in Nodes : v # w => requests'[v] = requests[v]
    BY DEF CompleteRequest, Typed, NodesTyped
  <2>2. requests'[w] = NoRequest
    BY DEF CompleteRequest, Typed, NodesTyped
  <2>3. QED BY <1>2, <2>1, <2>2 DEF Supplied, Covered, HasRequest, Held
<1>8. QED BY <1>2, <1>6, <1>7 DEF Supplied

(* A node that is removed keeps no queue.                                  *)
LEMMA SuppliedRemoved ==
  ASSUME Supplied, Consistent, Typed, NEW w \in Nodes, RemoveNode(w), UNCHANGED told,
         \A v \in Nodes : v # w => events'[v] = events[v]
  PROVE  Supplied'
<1>1. Unstarted(w) \subseteq Elements(queue[w])
  BY QueueSplit DEF Typed, Consistent, Conserved
<1>2. withdrawn' \cap pending' = {}
  BY <1>1 DEF Supplied, RemoveNode
<1>3. Stocked(w)'
  <2>1. queue'[w] = <<>>
    BY DEF RemoveNode, Typed, WorkTyped
  <2>2. Elements(queue[w])' = {}
    BY <2>1 DEF Elements
  <2>3. QED BY <2>1, <2>2 DEF Stocked
<1>4. ASSUME NEW v \in Nodes, v # w  PROVE Stocked(v)'
  <2>1. queue'[v] = queue[v] /\ Completes(v)' = Completes(v)
    BY <1>4 DEF RemoveNode, Typed, WorkTyped, Completes, Kind
  <2>2. Elements(queue[v]) \cap Elements(queue[w]) = {} /\ Elements(queue[v]) \in SUBSET Tests
    BY <1>4, QueuedTests DEF Consistent, Conserved, Queued, Typed, WorkTyped
  <2>3. \A t \in Elements(queue[v]) : charge'[t] = charge[t]
    BY <2>2 DEF RemoveNode
  <2>4. v \in registered => v \in registered'
    BY <1>4 DEF RemoveNode
  <2>5. Elements(queue[v]) \cap withdrawn' \subseteq withdrawn
    BY DEF RemoveNode
  <2>6. QED BY <2>1, <2>3, <2>4, <2>5, StockedKept DEF Supplied
<1>5. \A v \in Nodes : Covered(v)'
  <2>1. requests'[w] = NoRequest
    BY DEF RemoveNode, ReleaseRuntime, Typed, NodesTyped
  <2>2. \A v \in Nodes : v # w =>
          requests'[v] = requests[v] /\ live'[v] = live[v] /\ reserved'[v] = reserved[v]
    BY DEF RemoveNode, ReleaseRuntime, Typed, NodesTyped, GateTyped
  <2>3. QED BY <2>1, <2>2 DEF Supplied, Covered, HasRequest, Held
<1>6. QED BY <1>2, <1>3, <1>4, <1>5 DEF Supplied

(* Every step keeps nodes stocked and blocked workers covered.             *)
LEMMA SuppliedStep ==
  ASSUME Typed, Shape, Consistent, LineShape, Priced, Asked, Supplied, [Next]_vars
  PROVE  Supplied'
<1>1. ASSUME NEW w \in Nodes, CheckSchedule(w)  PROVE Supplied'
  <2> USE <1>1 DEF CheckSchedule, still, work, gate, line, nodes, process, outcome
  <2> QED BY SuppliedCalm
<1>2. ASSUME NEW w \in Nodes, NEW out \in Seq(Tests), NEW t \in Tests,
         FillDispatch(w, out, t)
  PROVE Supplied'
  <2> USE <1>2 DEF FillDispatch, still, work, gate, line, nodes, process, outcome
  <2>1. w \in registered /\ w \notin told /\ Head(todo).op = "fill"
    BY HeadKnown DEF Shape, StackShape, AtOp, At, Filling, Fill
  <2>2. t \in pending /\ queue[w] \in Seq(Tests) /\ plan[w] \subseteq pending
    BY DEF Consistent, Conserved, Planned, Typed, WorkTyped
  <2>3. queue'[w] = Append(queue[w], t) /\ \A v \in Nodes : v # w => queue'[v] = queue[v]
    BY DEF Typed, WorkTyped
  <2>4. Elements(queue[w])' = Elements(queue[w]) \cup {t}
    <3>1. Elements(Append(queue[w], t)) = Elements(queue[w]) \cup {t}
      BY <2>2, AppendElements
    <3>2. Elements(queue[w])' = Elements(Append(queue[w], t))
      BY <2>3 DEF Elements
    <3>3. QED BY <3>1, <3>2
  <2>5. \A v \in Nodes : t \notin Elements(queue[v]) /\ Completes(v)' = Completes(v)
                          /\ Completes(v) \subseteq Elements(queue[v])
    BY <2>2, SameMail DEF Consistent, Conserved, Queued, ChannelAgrees, Agrees
  <2>6. charge'[t] = Charge(t, fixtures[w]) /\ \A u \in Tests : u # t => charge'[u] = charge[u]
    BY DEF Priced
  <2>7. charge'[t].peak > charge'[t].holds
    BY <2>6, ChargePositive DEF Typed, WorkTyped
  <2>8. \A v \in Nodes : Elements(queue[v]) \in SUBSET Tests
    BY QueuedTests DEF Typed, WorkTyped
  <2>9. t \in Unfinished(w)'
    BY <2>4, <2>5 DEF Unfinished
  <2>10. Stocked(w)'
    BY <2>1, <2>2, <2>4, <2>5, <2>6, <2>7, <2>8, <2>9 DEF Supplied, Stocked
  <2>11. ASSUME NEW v \in Nodes, v # w  PROVE Stocked(v)'
    BY <2>3, <2>5, <2>6, <2>8, <2>11, StockedKept DEF Supplied
  <2>12. \A v \in Nodes : HasRequest(v) => reserved'[v] = reserved[v]
    <3>1. CASE queue[w] = <<>>
      BY <3>1
    <3>2. CASE queue[w] # <<>>
      <4>1. Granted(w) /\ ~HasRequest(w)
        BY <2>1, <3>2, NotGrantedWhileAsking
      <4>2. \A v \in Nodes : v # w => reserved'[v] = reserved[v]
        BY <4>1 DEF Granted, Raised, Priced, GateTyped
      <4>3. QED BY <4>1, <4>2
    <3>3. QED BY <3>1, <3>2
  <2>13. \A v \in Nodes : Covered(v)'
    BY <2>12, CoveredKept DEF Supplied
  <2>14. QED BY <2>10, <2>11, <2>13 DEF Supplied
<1>3. ASSUME NEW w \in Nodes, NEW out \in Seq(Tests), NEW donor \in Nodes,
         NEW chunk \in SUBSET pending,
         FillBorrow(w, out, donor, chunk)
  PROVE Supplied'
  <2> USE <1>3 DEF FillBorrow, still, work, gate, line, nodes, process, outcome
  <2> QED BY SuppliedCalm
<1>4. ASSUME NEW w \in Nodes, NEW out \in Seq(Tests), FillDone(w, out)  PROVE Supplied'
  <2> USE <1>4 DEF FillDone, still, work, gate, line, nodes, process, outcome
  <2> QED BY SuppliedCalm
<1>5. ASSUME NEW w \in Nodes, NEW out \in Seq(Tests), FillBlocked(w, out)  PROVE Supplied'
  <2> USE <1>5 DEF FillBlocked, still, work, gate, line, nodes, process, outcome
  <2> QED BY SuppliedCalm
<1>6. ASSUME NEW w \in Nodes, NEW out \in Seq(Tests), FillRefused(w, out)  PROVE Supplied'
  <2> USE <1>6 DEF FillRefused, still, work, gate, line, nodes, process, outcome
  <2> QED BY SuppliedCalm DEF NotGranted
<1>7. ASSUME NEW w \in Nodes, CheckRest(w)  PROVE Supplied'
  <2> USE <1>7 DEF CheckRest, still, work, gate, line, nodes, process, outcome
  <2> QED BY SuppliedCalm
<1>8. ASSUME NEW w \in Nodes, ShutdownRefused(w)  PROVE Supplied'
  <2> USE <1>8 DEF ShutdownRefused, still, work, gate, line, nodes, process, outcome
  <2> QED BY SuppliedCalm DEF NotGranted
<1>9. ASSUME NEW w \in Nodes, ShutdownSent(w)  PROVE Supplied'
  <2> USE <1>9 DEF ShutdownSent, still, work, gate, line, nodes, process, outcome
  <2>1. w \notin told
    BY DEF ShuttingDown
  <2>2. \A v \in Nodes : HasRequest(v) => reserved'[v] = reserved[v]
    <3>1. CASE queue[w] = <<>>
      BY <3>1
    <3>2. CASE queue[w] # <<>>
      <4>1. Granted(w) /\ ~HasRequest(w)
        BY <2>1, <3>2, NotGrantedWhileAsking
      <4>2. \A v \in Nodes : v # w => reserved'[v] = reserved[v]
        BY <4>1 DEF Granted, Raised, Priced, GateTyped
      <4>3. QED BY <4>1, <4>2
    <3>3. QED BY <3>1, <3>2
  <2>3. UNCHANGED <<queue, withdrawn, charge, pending, events, requests, live, registered>>
        /\ told \subseteq told'
    OBVIOUS
  <2>4. QED BY <2>2, <2>3, SuppliedCalm
<1>10. ASSUME NEW w \in Nodes, ShutdownAgain(w)  PROVE Supplied'
  <2> USE <1>10 DEF ShutdownAgain, still, work, gate, line, nodes, process, outcome
  <2> QED BY SuppliedCalm
<1>11. ASSUME NEW S \in SUBSET Tests, ReplanTests(S)  PROVE Supplied'
  <2> USE <1>11 DEF ReplanTests, still, work, gate, line, nodes, process, outcome
  <2> QED BY SuppliedCalm
<1>12. ASSUME AdmitWaiting  PROVE Supplied'
  <2> USE <1>12 DEF AdmitWaiting, still, work, gate, line, nodes, process, outcome
  <2> QED BY SuppliedCalm
<1>13. ASSUME ResolveNothing  PROVE Supplied'
  <2> USE <1>13 DEF ResolveNothing, still, work, gate, line, nodes, process, outcome
  <2> QED BY SuppliedCalm
<1>14. ASSUME ResolveParked  PROVE Supplied'
  <2> USE <1>14 DEF ResolveParked, still, work, gate, line, nodes, process, outcome
  <2> QED BY SuppliedCalm
<1>15. ASSUME NEW w \in Nodes, ResolveForce(w)  PROVE Supplied'
  <2> USE <1>15 DEF ResolveForce, still, work, gate, line, nodes, process, outcome
  <2>1. \A v \in Nodes : HasRequest(v) => reserved'[v] = reserved[v]
    BY DEF Assign, Priced, GateTyped
  <2>2. QED BY <2>1, SuppliedCalm
<1>16. ASSUME NEW w \in Nodes, NEW release \in BOOLEAN,
         RetryGranted(w, release)
  PROVE Supplied'
  <2> USE <1>16 DEF RetryGranted, still, work, gate, line, nodes, process, outcome
  <2>1. HasRequest(w)
    BY RequesterRetried DEF Typed
  <2>2. \A v \in Nodes : v # w => reserved'[v] = reserved[v]
    BY DEF Raised, Priced, GateTyped
  <2>3. QED BY <2>1, <2>2, SuppliedAnswered
<1>17. ASSUME NEW w \in Nodes, NEW release \in BOOLEAN,
         RetryRefused(w, release)
  PROVE Supplied'
  <2> USE <1>17 DEF RetryRefused, still, work, gate, line, nodes, process, outcome
  <2> QED BY SuppliedCalm
<1>18. ASSUME NEW w \in Nodes, ResolveForceRequest(w)  PROVE Supplied'
  <2> USE <1>18 DEF ResolveForceRequest, still, work, gate, line, nodes, process, outcome
  <2>1. \A v \in Nodes : v # w => reserved'[v] = reserved[v]
    BY DEF Assign, Priced, GateTyped
  <2>2. QED BY <2>1, SuppliedAnswered
<1>19. ASSUME NEW w \in Nodes, Completed(w)  PROVE Supplied'
  <2> USE <1>19 DEF Completed, still, work, gate, line, nodes, process, outcome
  <2> DEFINE t == Head(events[w])[2]
  <2>1. Kind(w, 1) = "complete" /\ 1 \in DOMAIN events[w] /\ t \in Tests /\ AskedBy(w)
      /\ Agrees(w)
    BY NextMail, HeadMail DEF Takes, Asked, Consistent, ChannelAgrees, Typed
  <2>2. ~HasRequest(w)
    BY <2>1, SilentHead
  <2>3. UNCHANGED requests
    BY <2>2
  <2>4. queue[w] \in Seq(Tests) /\ Distinct(queue[w])
    BY DEF Typed, WorkTyped, Consistent, Conserved, Queued
  <2>5. Elements(queue[w])' = Elements(queue[w]) \ {t}
      /\ \A v \in Nodes : v # w => queue'[v] = queue[v]
    <3>1. Elements(G!Without(queue[w], t)) = Elements(queue[w]) \ {t}
      BY <2>4, WithoutDistinct
    <3>2. queue'[w] = G!Without(queue[w], t) /\ \A v \in Nodes : v # w => queue'[v] = queue[v]
      BY DEF Typed, WorkTyped
    <3>3. Elements(queue[w])' = Elements(G!Without(queue[w], t))
      BY <3>2 DEF Elements
    <3>4. QED BY <3>1, <3>2, <3>3
  <2>6. Completes(w)' = Completes(w) \ {t} /\ t \in Completes(w)
        /\ \A v \in Nodes : v # w => Completes(v)' = Completes(v)
    BY <2>1, CompletesTaken DEF Agrees, Typed
  <2>7. Unfinished(w)' = Unfinished(w)
    BY <2>5, <2>6 DEF Unfinished
  <2>8. t \in Elements(queue[w]) /\ \A u \in Tests : u # t => charge'[u] = charge[u]
    BY <2>1, <2>6 DEF Agrees, Priced
  <2>9. queue[w] # <<>>
    BY <2>8 DEF Elements
  <2>10. Elements(queue[w]) \in SUBSET Tests
    BY <2>4, QueuedTests
  <2>11. Stocked(w)'
    BY <2>5, <2>7, <2>8, <2>9, <2>10 DEF Supplied, Stocked
  <2>12. ASSUME NEW v \in Nodes, v # w  PROVE Stocked(v)'
    <3>1. Elements(queue[v]) \cap Elements(queue[w]) = {} /\ Elements(queue[v]) \in SUBSET Tests
      BY <2>12, QueuedTests DEF Consistent, Conserved, Queued, Typed, WorkTyped
    <3>2. \A u \in Elements(queue[v]) : charge'[u] = charge[u]
      BY <2>8, <3>1
    <3>3. queue'[v] = queue[v] /\ Completes(v)' = Completes(v)
      BY <2>5, <2>6, <2>12
    <3>4. QED BY <3>2, <3>3, StockedKept DEF Supplied
  <2>13. \A v \in Nodes : HasRequest(v) => reserved'[v] = reserved[v]
    BY <2>2 DEF Reserve, Assign, Priced, GateTyped
  <2>14. \A v \in Nodes : Covered(v)'
    BY <2>3, <2>13, CoveredKept DEF Supplied
  <2>15. QED BY <2>11, <2>12, <2>14 DEF Supplied
<1>20. ASSUME NEW w \in Nodes, HoldsChanged(w)  PROVE Supplied'
  <2> USE <1>20 DEF HoldsChanged, still, work, gate, line, nodes, process, outcome
  <2>1. ~HasRequest(w)
    BY NextMail DEF Typed, Asked, AskedBy, Silent, OnlyGivesUp
  <2>2. \A v \in Nodes : v # w => live'[v] = live[v]
    BY DEF Typed, NodesTyped
  <2>3. \A v \in Nodes : Covered(v)'
    BY <2>1, <2>2 DEF Supplied, Covered, HasRequest, Held
  <2>4. QED BY <2>3, SuppliedTaken DEF Typed
<1>21. ASSUME NEW w \in Nodes, Requested(w)  PROVE Supplied'
  <2> USE <1>21 DEF Requested, still, work, gate, line, nodes, process, outcome
  <2> DEFINE m == Head(events[w])[2]
  <2>1. m \in Requesting /\ m.holds \in Nat /\ m.id \in 1 .. MaxAsks
    BY HeadMail DEF Takes, Typed, Requesting
  <2>2. Kind(w, 1) = "request" /\ 1 \in DOMAIN events[w] /\ events[w][1] = Head(events[w])
    BY NextMail DEF Typed
  <2>3. live'[w] = m.holds /\ \A v \in Nodes : v # w => live'[v] = live[v]
    BY DEF Typed, NodesTyped
  <2>4. CASE Answered(w, m)
    <3>1. UNCHANGED <<gate, requests>>
      BY <2>4
    <3>2. ~HasRequest(w)
      BY <2>1, <2>2, <2>4 DEF Asked, AskedBy, Silent, OnlyGivesUp, Answered, Kind
    <3>3. \A v \in Nodes : Covered(v)'
      BY <2>3, <3>1, <3>2 DEF Supplied, Covered, HasRequest, Held
    <3>4. QED BY <3>3, SuppliedTaken DEF Typed
  <2>5. CASE ~Answered(w, m)
    <3>1. Assign(w, m.holds, FALSE) /\ \A v \in Nodes : v # w => requests'[v] = requests[v]
      BY <2>5 DEF Typed, NodesTyped
    <3>2. reserved'[w].slots = m.holds /\ \A v \in Nodes : v # w => reserved'[v] = reserved[v]
      BY <3>1 DEF Assign, Priced, GateTyped
    <3>3. Covered(w)'
      BY <2>1, <2>3, <3>2 DEF Covered, Held, NoSnapshot
    <3>4. \A v \in Nodes : v # w => Covered(v)'
      BY <2>3, <3>1, <3>2 DEF Supplied, Covered, HasRequest, Held
    <3>5. QED BY <3>3, <3>4, SuppliedTaken DEF Typed
  <2>6. QED BY <2>4, <2>5
<1>22. ASSUME NEW w \in Nodes, Crashed(w)  PROVE Supplied'
  <2> USE <1>22 DEF Crashed, RemoveNode, ReleaseRuntime, still, work, gate, line, nodes,
      process, outcome
  <2>1. \A v \in Nodes : v # w => events'[v] = events[v]
    BY NextMail DEF Typed
  <2>2. RemoveNode(w) /\ UNCHANGED told
    OBVIOUS
  <2>3. QED BY ONLY <2>1, <2>2, SuppliedRemoved, Supplied, Consistent, Typed, w \in Nodes
<1>23. ASSUME NEW w \in Nodes, Finished(w)  PROVE Supplied'
  <2> USE <1>23 DEF Finished, still, work, gate, line, nodes, process, outcome
  <2>1. \A v \in Nodes : Covered(v)'
    <3>1. CASE w \notin registered
      BY <3>1, CoveredKept DEF Supplied
    <3>2. CASE w \in registered
      <4>1. ReleaseRuntime(w)
        BY <3>2
      <4>2. requests'[w] = NoRequest
        BY <4>1 DEF ReleaseRuntime, Typed, NodesTyped
      <4>3. \A v \in Nodes : v # w =>
              requests'[v] = requests[v] /\ live'[v] = live[v] /\ reserved'[v] = reserved[v]
        BY <4>1 DEF ReleaseRuntime, Typed, NodesTyped, Priced, GateTyped
      <4>4. QED BY <4>2, <4>3 DEF Supplied, Covered, HasRequest, Held
    <3>3. QED BY <3>1, <3>2
  <2>2. QED BY <2>1, SuppliedTaken DEF Typed
<1>24. ASSUME NEW w \in Nodes, FinishedRemove(w)  PROVE Supplied'
  <2> USE <1>24 DEF FinishedRemove, RemoveNode, ReleaseRuntime, still, work, gate, line, nodes,
      process, outcome
  <2>1. RemoveNode(w) /\ UNCHANGED told /\ UNCHANGED events
    OBVIOUS
  <2>2. QED BY ONLY <2>1, SuppliedRemoved, Supplied, Consistent, Typed, w \in Nodes
<1>25. ASSUME NEW w \in Nodes, Ready(w)  PROVE Supplied'
  <2> USE <1>25 DEF Ready, still, work, gate, line, nodes, process, outcome
  <2>1. \A v \in Nodes : Covered(v)'
    BY CoveredKept DEF Supplied
  <2>2. registered \subseteq registered' /\ told \subseteq told'
    OBVIOUS
  <2>3. QED BY <2>1, <2>2, SuppliedTaken DEF Typed
<1>26. ASSUME NEW w \in Nodes, Collected(w)  PROVE Supplied'
  <2> USE <1>26 DEF Collected, still, work, gate, line, nodes, process, outcome
  <2>1. \A v \in Nodes : Covered(v)'
    BY CoveredKept DEF Supplied
  <2>2. registered \subseteq registered' /\ told \subseteq told'
    OBVIOUS
  <2>3. QED BY <2>1, <2>2, SuppliedTaken DEF Typed
<1>27. ASSUME RestartNode  PROVE Supplied'
  <2> USE <1>27 DEF RestartNode, still, work, gate, line, nodes, process, outcome
  <2> QED BY SuppliedCalm
<1>28. ASSUME LoopOnce  PROVE Supplied'
  <2> USE <1>28 DEF LoopOnce, still, work, gate, line, nodes, process, outcome
  <2> QED BY SuppliedCalm
<1>29. ASSUME NEW w \in Nodes, StopGranted(w)  PROVE Supplied'
  <2> USE <1>29 DEF StopGranted, still, work, gate, line, nodes, process, outcome
  <2>1. \A v \in Nodes : HasRequest(v) => reserved'[v] = reserved[v]
    BY DEF Raised, BlockedInTest, Priced, GateTyped
  <2>2. told \subseteq told'
    BY DEF Tell
  <2>3. UNCHANGED <<queue, withdrawn, charge, pending, events, requests, live, registered>>
    OBVIOUS
  <2>4. QED BY <2>1, <2>2, <2>3, SuppliedCalm
<1>30. ASSUME NEW w \in Nodes, StopBlocked(w)  PROVE Supplied'
  <2> USE <1>30 DEF StopBlocked, still, work, gate, line, nodes, process, outcome
  <2>1. HasRequest(w) /\ AskedBy(w) /\ Covered(w) /\ WorkTyped /\ NodesTyped
    BY DEF BlockedInTest, Asked, Supplied, Typed
  <2>2. requests[w].id \in 1 .. MaxAsks /\ requests[w].test \in Tests
    BY <2>1, RequestFields
  <2>3. requests[w].test \in Elements(queue[w])
    BY <2>1, <2>2 DEF AskedBy, Blocks, Open, Unfinished
  <2>4. GrantedOf(w, queue[w]) = {}
    BY <2>1, <2>3 DEF GrantedOf
  <2>5. Need(w, GrantedOf(w, queue[w])) = live[w] /\ live[w] \in Nat
    BY <2>1, <2>4, HoldsNat DEF Need, Covered, NodesTyped
  <2>6. reserved'[w].slots <= live[w]
    BY <2>5 DEF Reserve, Assign, Priced, GateTyped
  <2>7. \A v \in Nodes : v # w => reserved'[v] = reserved[v]
    BY DEF Reserve, Assign, Priced, GateTyped
  <2>8. \A v \in Nodes : Covered(v)'
    BY <2>1, <2>6, <2>7 DEF Supplied, Covered, HasRequest, Held
  <2>9. \A v \in Nodes : Completes(v)' = Completes(v)
    BY SameMail
  <2>10. told \subseteq told'
    BY DEF Tell
  <2>11. QED BY <2>8, <2>9, <2>10, SuppliedKept
<1>31. ASSUME NEW w \in Nodes, StopWithdraws(w)  PROVE Supplied'
  <2> USE <1>31 DEF StopWithdraws, still, work, gate, line, nodes, process, outcome
  <2>1. told \subseteq told' /\ (w \notin down => w \in told')
    BY DEF Tell
  <2>2. \A v \in Nodes : v # w => reserved'[v] = reserved[v]
    BY DEF Assign, Priced, GateTyped
  <2>3. ~HasRequest(w)
    BY DEF BlockedInTest
  <2>4. \A v \in Nodes : Covered(v)'
    BY <2>2, <2>3 DEF Supplied, Covered, HasRequest, Held
  <2>5. \A v \in Nodes : Completes(v)' = Completes(v)
    BY SameMail
  <2>6. LastOf(queue[w]) \in Elements(queue[w])
    BY DEF LastOf, Elements, Typed, WorkTyped
  <2>7. withdrawn' \subseteq withdrawn \cup Elements(queue[w])
      /\ (w \in down => withdrawn' = withdrawn)
    BY <2>6
  <2>8. withdrawn' \cap pending' = {}
    BY <2>7 DEF Supplied, Consistent, Conserved, Queued
  <2>9. ASSUME NEW v \in Nodes, v # w  PROVE Stocked(v)'
    <3>1. Elements(queue[v]) \cap withdrawn' \subseteq withdrawn
      BY <2>7, <2>9 DEF Consistent, Conserved, Queued
    <3>2. QED BY <2>1, <2>5, <3>1, StockedKept DEF Supplied
  <2>10. Stocked(w)'
    <3>1. CASE w \in down
      BY <2>1, <2>5, <2>7, <3>1, StockedKept DEF Supplied
    <3>2. CASE w \notin down
      BY <2>1, <2>5, <3>2 DEF Supplied, Stocked, Elements
    <3>3. QED BY <3>1, <3>2
  <2>11. QED BY <2>4, <2>8, <2>9, <2>10 DEF Supplied
<1>32. ASSUME NEW w \in Nodes, Boot(w)  PROVE Supplied'
  <2> USE <1>32 DEF Boot, central, work, gate, line, nodes, process, outcome
  <2>1. <<<<"ready", 0>>, <<"collected", 0>>>> \in Seq(Mail)
    BY MailTyped, MailLists
  <2>2. \A i \in DOMAIN <<<<"ready", 0>>, <<"collected", 0>>>> :
      <<<<"ready", 0>>, <<"collected", 0>>>>[i][1] # "complete"
    BY DEF Mail
  <2>3. QED BY <2>1, <2>2, SuppliedPosted DEF Typed
<1>33. ASSUME NEW w \in Nodes, StartTest(w)  PROVE Supplied'
  <2> USE <1>33 DEF StartTest, central, work, gate, line, nodes, process, outcome
  <2>10. alive[w] \in SUBSET Fixtures /\ After(Head(inbox[w]), alive[w]) \in SUBSET Fixtures
    <3>1. inbox[w] \in Seq(Tests) /\ inbox[w] # <<>> /\ alive[w] \in SUBSET Fixtures
      BY DEF Typed, ProcessTyped, MayStart
    <3>2. QED BY <3>1, CostsTyped

  <2>1. HoldsEvent(alive[w], After(Head(inbox[w]), alive[w])) \in Seq(Mail)
    BY <2>10, HoldsPlain
  <2>2. \A i \in DOMAIN HoldsEvent(alive[w], After(Head(inbox[w]), alive[w])) :
      HoldsEvent(alive[w], After(Head(inbox[w]), alive[w]))[i][1] # "complete"
    BY <2>10, HoldsPlain
  <2>3. QED BY <2>1, <2>2, SuppliedPosted DEF Typed
<1>34. ASSUME NEW w \in Nodes, SkipTest(w)  PROVE Supplied'
  <2> USE <1>34 DEF SkipTest, central, work, gate, line, nodes, process, outcome
  <2>1. w \notin down /\ inbox[w] # <<>> /\ Head(inbox[w]) \in Tests /\ inbox[w] \in Seq(Tests)
    <3>1. status[w] = "up" /\ inbox[w] # <<>>
      BY DEF MayStart
    <3>2. inbox[w] \in Seq(Tests) /\ (w \in down <=> status[w] \in {"exited", "dead"})
      BY DEF Typed, ProcessTyped
    <3>3. QED BY <3>1, <3>2
  <2>2. w \notin told => Len(inbox[w]) > 1
    BY <2>1 DEF MayStart, MinPending
  <2> DEFINE e == <<"complete", Head(inbox[w])>>
  <2>3. e \in Mail /\ Post(w, <<e>>)
    BY <2>1, MailTyped DEF Skipped
  <2>4. <<e>> \in Seq(Mail)
    BY <2>3, MailLists
  <2>5. CompletesLast(<<e>>, Head(inbox[w]))
    BY <2>4 DEF CompletesLast
  <2>6. QED BY <2>1, <2>2, <2>3, <2>4, <2>5, SuppliedFinished DEF Typed
<1>35. ASSUME NEW w \in Nodes, FinishTest(w)  PROVE Supplied'
  <2> USE <1>35 DEF FinishTest, central, work, gate, line, nodes, process, outcome
  <2>1. w \notin down /\ inbox[w] # <<>> /\ inbox[w] \in Seq(Tests)
    BY Busy DEF Typed, ProcessTyped
  <2>2. w \notin told => Len(inbox[w]) > 1
    BY DEF Asked, AskedBy, Idling
  <2>3. PICK left \in SUBSET Fixtures :
          Post(w, Append(HoldsEvent(alive[w], left), <<"complete", Head(inbox[w])>>))
    <3>1. alive[w] \in SUBSET Fixtures
      BY DEF Typed, ProcessTyped
    <3>2. Len(inbox[w]) > 1 => Kept(inbox[w][2], alive[w]) \in SUBSET Fixtures
      BY <3>1 DEF Kept
    <3>3. QED BY <3>2
  <2>4. HoldsEvent(alive[w], left) \in Seq(Mail)
        /\ \A i \in DOMAIN HoldsEvent(alive[w], left) :
               HoldsEvent(alive[w], left)[i][1] # "complete"
    BY HoldsPlain DEF Typed, ProcessTyped
  <2>5. <<"complete", Head(inbox[w])>> \in Mail
    BY <2>1, MailTyped
  <2> DEFINE all == Append(HoldsEvent(alive[w], left), <<"complete", Head(inbox[w])>>)
  <2>6. all \in Seq(Mail) /\ CompletesLast(all, Head(inbox[w]))
    BY <2>4, <2>5, LastCompletes
  <2> HIDE DEF all
  <2>7. Post(w, all)
    BY <2>3 DEF all
  <2>8. QED BY <2>1, <2>2, <2>6, <2>7, SuppliedFinished DEF Typed
<1>36. ASSUME NEW w \in Nodes, Ask(w)  PROVE Supplied'
  <2> USE <1>36 DEF Ask, central, work, gate, line, nodes, process, outcome
  <2>1. PICK m \in Requesting : Post(w, <<<<"request", m>>>>)
    BY AskPosts DEF Typed
  <2>2. <<<<"request", m>>>> \in Seq(Mail)
    BY MailTyped, MailLists
  <2>3. \A i \in DOMAIN <<<<"request", m>>>> : <<<<"request", m>>>>[i][1] # "complete"
    OBVIOUS
  <2>4. QED BY <2>1, <2>2, <2>3, SuppliedPosted DEF Typed
<1>37. ASSUME NEW w \in Nodes, GiveUp(w)  PROVE Supplied'
  <2> USE <1>37 DEF GiveUp, central, work, gate, line, nodes, process, outcome
  <2>1. PICK m \in Requesting : Post(w, <<<<"request", m>>>>)
    BY GiveUpPosts DEF Typed
  <2>2. <<<<"request", m>>>> \in Seq(Mail)
    BY MailTyped, MailLists
  <2>3. \A i \in DOMAIN <<<<"request", m>>>> : <<<<"request", m>>>>[i][1] # "complete"
    OBVIOUS
  <2>4. QED BY <2>1, <2>2, <2>3, SuppliedPosted DEF Typed
<1>38. ASSUME NEW w \in Nodes, GrantArrives(w)  PROVE Supplied'
  <2> USE <1>38 DEF GrantArrives, central, work, gate, line, nodes, process, outcome
  <2> QED BY SuppliedCalm
<1>39. ASSUME NEW w \in Nodes, NEW reached \in BOOLEAN, GoOn(w, reached)  PROVE Supplied'
  <2> USE <1>39 DEF GoOn, central, work, gate, line, nodes, process, outcome
  <2> DEFINE F == IF reached THEN alive[w] \cup {permit[w].key} ELSE alive[w]
  <2>1. F \in SUBSET Fixtures /\ alive[w] \in SUBSET Fixtures
    BY PermitFields, Busy DEF Typed, ProcessTyped
  <2>2. Post(w, HoldsEvent(alive[w], F))
    OBVIOUS
  <2> HIDE DEF F
  <2>3. HoldsEvent(alive[w], F) \in Seq(Mail)
        /\ \A i \in DOMAIN HoldsEvent(alive[w], F) : HoldsEvent(alive[w], F)[i][1] # "complete"
    BY <2>1, HoldsPlain
  <2>4. QED BY <2>2, <2>3, SuppliedPosted DEF Typed
<1>40. ASSUME NEW w \in Nodes, Exit(w)  PROVE Supplied'
  <2> USE <1>40 DEF Exit, Leave, central, work, gate, line, nodes, process, outcome
  <2>1. <<<<"finished", 0>>>> \in Seq(Mail)
    BY MailTyped, MailLists
  <2>2. \A i \in DOMAIN <<<<"finished", 0>>>> : <<<<"finished", 0>>>>[i][1] # "complete"
    OBVIOUS
  <2>3. QED BY <2>1, <2>2, SuppliedPosted DEF Typed
<1>41. ASSUME NEW w \in Nodes, Crash(w)  PROVE Supplied'
  <2> USE <1>41 DEF Crash, Leave, central, work, gate, line, nodes, process, outcome
  <2>1. <<<<"down", 0>>>> \in Seq(Mail)
    BY MailTyped, MailLists
  <2>2. \A i \in DOMAIN <<<<"down", 0>>>> : <<<<"down", 0>>>>[i][1] # "complete"
    OBVIOUS
  <2>3. QED BY <2>1, <2>2, SuppliedPosted DEF Typed
<1>42. ASSUME UNCHANGED vars  PROVE Supplied'
  <2>1. UNCHANGED <<queue, withdrawn, charge, pending, events, requests, live, registered,
      told, reserved>>
    BY <1>42 DEF vars, nodes, process, work, gate
  <2>2. QED BY <2>1, SuppliedCalm
<1>43. /\ AtOp("fill") => Head(todo).out \in Seq(Tests)
       /\ AtOp("replan") => Head(todo).tests \in SUBSET Tests
  BY StackMoves, CallFields DEF Typed, AtOp
<1>44. ASSUME NEW w \in Nodes, AtOp("fill"), Filler(w, Head(todo).out)  PROVE Supplied'
  BY <1>44, <1>43, <1>2, <1>3, <1>4, <1>5, <1>6 DEF Filler
<1>45. ASSUME NEW w \in Nodes, Common(w)  PROVE Supplied'
  BY <1>45, <1>8, <1>9, <1>10,
     <1>19, <1>20, <1>23, <1>25, <1>26,
     <1>29, <1>30, <1>31,
     <1>21, <1>15, <1>18, <1>16, <1>17 DEF Common
<1>46. ASSUME Anywhere  PROVE Supplied'
  BY <1>46, <1>43, <1>11, <1>12, <1>13, <1>14, <1>27
  DEF Anywhere
<1>47. ASSUME Controller  PROVE Supplied'
  BY <1>47, <1>44, <1>45, <1>46, <1>1, <1>7, <1>22, <1>24, <1>28
  DEF Controller
<1>48. ASSUME NEW w \in Nodes, Worker(w)  PROVE Supplied'
  BY <1>48, <1>32, <1>33, <1>34, <1>35, <1>40, <1>36, <1>38, <1>39 DEF Worker
<1>49. QED BY <1>42, <1>47, <1>48, <1>37, <1>41 DEF Next, Stopped

(* At the start no node has a queue.                                       *)
LEMMA SuppliedInit == Init => Supplied
<1>1. ASSUME Init, NEW w \in Nodes  PROVE Stocked(w) /\ Covered(w)
  <2>1. queue[w] = <<>> /\ requests[w] = NoRequest
    BY <1>1 DEF Init, Start
  <2>2. Elements(queue[w]) = {}
    BY <2>1 DEF Elements
  <2>3. QED BY <2>1, <2>2 DEF Stocked, Covered, HasRequest
<1>2. QED BY <1>1 DEF Supplied, Init, Start

(* A node the scheduler has not met has posted nothing before its ready    *)
(* message, and a node it has met posts no second one.                     *)
Unheard(w) ==
  /\ status[w] \in {"absent", "booting"} => ~IsKnown(w) /\ events[w] = <<>>
  /\ \A i \in DOMAIN events[w] : Kind(w, i) = "ready" => i = 1 /\ ~IsKnown(w)

(* So for every node.                                                      *)
New == \A w \in Nodes : Unheard(w)

(* A step that introduces nobody keeps that.                               *)
LEMMA NewKept ==
  ASSUME New, UNCHANGED <<events, status>>, \A v \in Nodes : IsKnown(v)' => IsKnown(v)
  PROVE  New'
BY DEF New, Unheard, Kind

(* Only taking a ready message makes a node known.                         *)
LEMMA NewTaken ==
  ASSUME New, ChannelsTyped, NEW w \in Nodes, NEW kind, Takes(w, kind), UNCHANGED status,
         \A v \in Nodes : v # w => (IsKnown(v)' => IsKnown(v)),
         kind # "ready" => (IsKnown(w)' => IsKnown(w))
  PROVE  New'
<1>1. ASSUME NEW v \in Nodes, v # w  PROVE Unheard(v)'
  <2>1. events'[v] = events[v]
    BY <1>1, NextMail
  <2>2. QED BY <1>1, <2>1 DEF New, Unheard, Kind
<1>2. Unheard(w)'
  <2>1. \A i \in DOMAIN events'[w] :
          i + 1 \in DOMAIN events[w] /\ events'[w][i] = events[w][i + 1] /\ i \in Nat /\ i # 0
    <3>1. events'[w] \in Seq(Mail)
      BY TakesTyped DEF ChannelsTyped
    <3>2. QED BY <3>1, NextMail
  <2>2. \A i \in DOMAIN events'[w] : Kind(w, i)' # "ready"
    BY <2>1 DEF New, Unheard, Kind
  <2>3. status'[w] \notin {"absent", "booting"}
    BY DEF New, Unheard, Takes
  <2>4. QED BY <2>2, <2>3 DEF Unheard
<1>3. QED BY <1>1, <1>2 DEF New

(* Only a worker that boots posts a ready message.                         *)
LEMMA NewPosted ==
  ASSUME New, ChannelsTyped, NEW w \in Nodes, NEW messages \in Seq(Mail), Post(w, messages),
         \A i \in DOMAIN messages : messages[i][1] # "ready",
         status'[w] \notin {"absent", "booting"}, \A v \in Nodes :
             v # w => status'[v] = status[v],
         \A v \in Nodes : IsKnown(v)' => IsKnown(v)
  PROVE  New'
<1>1. ASSUME NEW v \in Nodes, v # w  PROVE Unheard(v)'
  <2>1. events'[v] = events[v]
    BY <1>1, NewMail
  <2>2. QED BY <1>1, <2>1 DEF New, Unheard, Kind
<1>2. Unheard(w)'
  <2>1. ASSUME NEW i \in DOMAIN events'[w], Kind(w, i)' = "ready"  PROVE i = 1 /\ ~IsKnown(w)'
    <3>1. i \in DOMAIN events[w]
      BY <2>1, NewMail DEF Kind
    <3>2. Kind(w, i) = "ready"
      BY <2>1, <3>1, NewMail DEF Kind
    <3>3. QED BY <3>1, <3>2 DEF New, Unheard
  <2>2. QED BY <2>1 DEF Unheard
<1>3. QED BY <1>1, <1>2 DEF New

(* Every step keeps it.                                                    *)
LEMMA NewStep ==
  ASSUME Typed, Shape, New, [Next]_vars
  PROVE  New'
<1>1. ASSUME NEW w \in Nodes, CheckSchedule(w)  PROVE New'
  <2> USE <1>1 DEF CheckSchedule, still, work, gate, line, nodes, process, outcome
  <2> QED BY NewKept DEF IsKnown
<1>2. ASSUME NEW w \in Nodes, NEW out \in Seq(Tests), NEW t \in Tests,
         FillDispatch(w, out, t)
  PROVE New'
  <2> USE <1>2 DEF FillDispatch, still, work, gate, line, nodes, process, outcome
  <2> QED BY NewKept DEF IsKnown
<1>3. ASSUME NEW w \in Nodes, NEW out \in Seq(Tests), NEW donor \in Nodes,
         NEW chunk \in SUBSET pending,
         FillBorrow(w, out, donor, chunk)
  PROVE New'
  <2> USE <1>3 DEF FillBorrow, still, work, gate, line, nodes, process, outcome
  <2> QED BY NewKept DEF IsKnown
<1>4. ASSUME NEW w \in Nodes, NEW out \in Seq(Tests), FillDone(w, out)  PROVE New'
  <2> USE <1>4 DEF FillDone, still, work, gate, line, nodes, process, outcome
  <2> QED BY NewKept DEF IsKnown
<1>5. ASSUME NEW w \in Nodes, NEW out \in Seq(Tests), FillBlocked(w, out)  PROVE New'
  <2> USE <1>5 DEF FillBlocked, still, work, gate, line, nodes, process, outcome
  <2> QED BY NewKept DEF IsKnown
<1>6. ASSUME NEW w \in Nodes, NEW out \in Seq(Tests), FillRefused(w, out)  PROVE New'
  <2> USE <1>6 DEF FillRefused, still, work, gate, line, nodes, process, outcome
  <2> QED BY NewKept DEF IsKnown
<1>7. ASSUME NEW w \in Nodes, CheckRest(w)  PROVE New'
  <2> USE <1>7 DEF CheckRest, still, work, gate, line, nodes, process, outcome
  <2> QED BY NewKept DEF IsKnown
<1>8. ASSUME NEW w \in Nodes, ShutdownRefused(w)  PROVE New'
  <2> USE <1>8 DEF ShutdownRefused, still, work, gate, line, nodes, process, outcome
  <2> QED BY NewKept DEF IsKnown
<1>9. ASSUME NEW w \in Nodes, ShutdownSent(w)  PROVE New'
  <2> USE <1>9 DEF ShutdownSent, still, work, gate, line, nodes, process, outcome
  <2>1. IsKnown(w)
    BY HeadKnown DEF Shape, At, Shutdown, Stop, NodeOps
  <2>2. \A v \in Nodes : IsKnown(v)' => IsKnown(v)
    BY <2>1 DEF IsKnown, Tell
  <2>3. QED BY <2>2, NewKept
<1>10. ASSUME NEW w \in Nodes, ShutdownAgain(w)  PROVE New'
  <2> USE <1>10 DEF ShutdownAgain, still, work, gate, line, nodes, process, outcome
  <2> QED BY NewKept DEF IsKnown
<1>11. ASSUME NEW S \in SUBSET Tests, ReplanTests(S)  PROVE New'
  <2> USE <1>11 DEF ReplanTests, still, work, gate, line, nodes, process, outcome
  <2> QED BY NewKept DEF IsKnown
<1>12. ASSUME AdmitWaiting  PROVE New'
  <2> USE <1>12 DEF AdmitWaiting, still, work, gate, line, nodes, process, outcome
  <2> QED BY NewKept DEF IsKnown
<1>13. ASSUME ResolveNothing  PROVE New'
  <2> USE <1>13 DEF ResolveNothing, still, work, gate, line, nodes, process, outcome
  <2> QED BY NewKept DEF IsKnown
<1>14. ASSUME ResolveParked  PROVE New'
  <2> USE <1>14 DEF ResolveParked, still, work, gate, line, nodes, process, outcome
  <2> QED BY NewKept DEF IsKnown
<1>15. ASSUME NEW w \in Nodes, ResolveForce(w)  PROVE New'
  <2> USE <1>15 DEF ResolveForce, still, work, gate, line, nodes, process, outcome
  <2> QED BY NewKept DEF IsKnown
<1>16. ASSUME NEW w \in Nodes, NEW release \in BOOLEAN, RetryGranted(w, release)  PROVE New'
  <2> USE <1>16 DEF RetryGranted, still, work, gate, line, nodes, process, outcome
  <2> QED BY NewKept DEF IsKnown, CompleteRequest
<1>17. ASSUME NEW w \in Nodes, NEW release \in BOOLEAN, RetryRefused(w, release)  PROVE New'
  <2> USE <1>17 DEF RetryRefused, still, work, gate, line, nodes, process, outcome
  <2> QED BY NewKept DEF IsKnown
<1>18. ASSUME NEW w \in Nodes, ResolveForceRequest(w)  PROVE New'
  <2> USE <1>18 DEF ResolveForceRequest, still, work, gate, line, nodes, process, outcome
  <2> QED BY NewKept DEF IsKnown, CompleteRequest
<1>19. ASSUME NEW w \in Nodes, Completed(w)  PROVE New'
  <2> USE <1>19 DEF Completed, still, work, gate, line, nodes, process, outcome
  <2> QED BY NewTaken DEF IsKnown, Typed
<1>20. ASSUME NEW w \in Nodes, HoldsChanged(w)  PROVE New'
  <2> USE <1>20 DEF HoldsChanged, still, work, gate, line, nodes, process, outcome
  <2> QED BY NewTaken DEF IsKnown, Typed
<1>21. ASSUME NEW w \in Nodes, Requested(w)  PROVE New'
  <2> USE <1>21 DEF Requested, still, work, gate, line, nodes, process, outcome
  <2> QED BY NewTaken DEF IsKnown, Typed
<1>22. ASSUME NEW w \in Nodes, Crashed(w)  PROVE New'
  <2> USE <1>22 DEF Crashed, RemoveNode, ReleaseRuntime, still, work, gate, line, nodes,
      process, outcome
  <2> QED BY NewTaken DEF IsKnown, Typed
<1>23. ASSUME NEW w \in Nodes, Finished(w)  PROVE New'
  <2> USE <1>23 DEF Finished, still, work, gate, line, nodes, process, outcome
  <2> QED BY NewTaken DEF IsKnown, Typed
<1>24. ASSUME NEW w \in Nodes, FinishedRemove(w)  PROVE New'
  <2> USE <1>24 DEF FinishedRemove, RemoveNode, ReleaseRuntime, still, work, gate, line, nodes,
      process, outcome
  <2> QED BY NewKept DEF IsKnown
<1>25. ASSUME NEW w \in Nodes, Ready(w)  PROVE New'
  <2> USE <1>25 DEF Ready, still, work, gate, line, nodes, process, outcome
  <2> QED BY NewTaken DEF IsKnown, Typed
<1>26. ASSUME NEW w \in Nodes, Collected(w)  PROVE New'
  <2> USE <1>26 DEF Collected, still, work, gate, line, nodes, process, outcome
  <2> QED BY NewTaken DEF IsKnown, Typed
<1>27. ASSUME RestartNode  PROVE New'
  <2> USE <1>27 DEF RestartNode, still, work, gate, line, nodes, process, outcome
  <2>1. CASE UNCHANGED status
    BY <2>1, NewKept DEF IsKnown
  <2>2. CASE \E s \in Spares : status[s] = "absent" /\ status' = [status EXCEPT ![s] = "booting"]
    <3>1. PICK s \in Spares : status[s] = "absent" /\ status' = [status EXCEPT ![s] = "booting"]
      BY <2>2
    <3>2. s \in Nodes /\ \A v \in Nodes : v # s => status'[v] = status[v]
      BY <3>1 DEF Nodes, Typed, ProcessTyped
    <3>3. QED BY <3>1, <3>2 DEF New, Unheard, IsKnown, Kind
  <2>3. QED BY <2>1, <2>2
<1>28. ASSUME LoopOnce  PROVE New'
  <2> USE <1>28 DEF LoopOnce, still, work, gate, line, nodes, process, outcome
  <2> QED BY NewKept DEF IsKnown
<1>29. ASSUME NEW w \in Nodes, StopGranted(w)  PROVE New'
  <2> USE <1>29 DEF StopGranted, still, work, gate, line, nodes, process, outcome
  <2>1. IsKnown(w)
    BY HeadKnown DEF Shape, At, Shutdown, Stop, NodeOps
  <2>2. \A v \in Nodes : IsKnown(v)' => IsKnown(v)
    BY <2>1 DEF IsKnown, Tell
  <2>3. QED BY <2>2, NewKept
<1>30. ASSUME NEW w \in Nodes, StopBlocked(w)  PROVE New'
  <2> USE <1>30 DEF StopBlocked, still, work, gate, line, nodes, process, outcome
  <2>1. IsKnown(w)
    BY HeadKnown DEF Shape, At, Shutdown, Stop, NodeOps
  <2>2. \A v \in Nodes : IsKnown(v)' => IsKnown(v)
    BY <2>1 DEF IsKnown, Tell
  <2>3. QED BY <2>2, NewKept
<1>31. ASSUME NEW w \in Nodes, StopWithdraws(w)  PROVE New'
  <2> USE <1>31 DEF StopWithdraws, still, work, gate, line, nodes, process, outcome
  <2>1. IsKnown(w)
    BY HeadKnown DEF Shape, At, Shutdown, Stop, NodeOps
  <2>2. \A v \in Nodes : IsKnown(v)' => IsKnown(v)
    BY <2>1 DEF IsKnown, Tell
  <2>3. QED BY <2>2, NewKept
<1>32. ASSUME NEW w \in Nodes, Boot(w)  PROVE New'
  <2> USE <1>32 DEF Boot, central, work, gate, line, nodes, process, outcome
  <2> DEFINE ms == <<<<"ready", 0>>, <<"collected", 0>>>>
  <2>1. ~IsKnown(w) /\ events[w] = <<>> /\ Unheard(w)
    BY DEF New, Unheard
  <2>2. ms \in Seq(Mail) /\ ms[2] = <<"collected", 0>> /\ DOMAIN ms = {1, 2}
    BY MailTyped, MailLists
  <2> HIDE DEF ms
  <2>3. events'[w] = ms /\ \A v \in Nodes : v # w => events'[v] = events[v]
    <3>1. events'[w] = events[w] \o ms /\ \A v \in Nodes : v # w => events'[v] = events[v]
      BY DEF Post, ms, Typed, ChannelsTyped
    <3>2. QED BY <2>1, <2>2, <3>1
  <2>4. \A v \in Nodes : IsKnown(v)' = IsKnown(v)
    BY DEF IsKnown
  <2>5. Unheard(w)'
    BY <2>1, <2>2, <2>3, <2>4 DEF Unheard, Kind, Typed, ProcessTyped
  <2>6. ASSUME NEW v \in Nodes, v # w  PROVE Unheard(v)'
    BY <2>3, <2>4, <2>6 DEF New, Unheard, Kind, Typed, ProcessTyped
  <2>7. QED BY <2>5, <2>6 DEF New
<1>33. ASSUME NEW w \in Nodes, StartTest(w)  PROVE New'
  <2> USE <1>33 DEF StartTest, central, work, gate, line, nodes, process, outcome
  <2> DEFINE F == After(Head(inbox[w]), alive[w])
  <2>1. F \in SUBSET Fixtures /\ alive[w] \in SUBSET Fixtures
    <3>1. inbox[w] \in Seq(Tests) /\ inbox[w] # <<>> /\ alive[w] \in SUBSET Fixtures
      BY DEF Typed, ProcessTyped, MayStart
    <3>2. QED BY <3>1, CostsTyped
  <2>2. Post(w, HoldsEvent(alive[w], F))
    OBVIOUS
  <2>3. status[w] = "up"
    BY DEF MayStart
  <2> HIDE DEF F
  <2>4. HoldsEvent(alive[w], F) \in Seq(Mail)
    BY <2>1, HoldsPlain
  <2>5. \A i \in DOMAIN HoldsEvent(alive[w], F) : HoldsEvent(alive[w], F)[i][1] # "ready"
    BY DEF HoldsEvent
  <2>6. QED BY <2>2, <2>3, <2>4, <2>5, NewPosted DEF Typed, IsKnown
<1>34. ASSUME NEW w \in Nodes, SkipTest(w)  PROVE New'
  <2> USE <1>34 DEF SkipTest, central, work, gate, line, nodes, process, outcome
  <2>1. Head(inbox[w]) \in Tests
    <3>1. inbox[w] \in Seq(Tests) /\ inbox[w] # <<>>
      BY DEF MayStart, Typed, ProcessTyped
    <3>2. QED BY <3>1
  <2>2. Skipped(Head(inbox[w])) \in Seq(Mail)
    BY <2>1, MailTyped, MailLists DEF Skipped
  <2>3. \A i \in DOMAIN Skipped(Head(inbox[w])) : Skipped(Head(inbox[w]))[i][1] # "ready"
    BY DEF Skipped
  <2>4. QED BY <2>2, <2>3, NewPosted DEF Typed, IsKnown, MayStart
<1>35. ASSUME NEW w \in Nodes, FinishTest(w)  PROVE New'
  <2> USE <1>35 DEF FinishTest, central, work, gate, line, nodes, process, outcome
  <2>1. status[w] = "up" /\ inbox[w] # <<>> /\ inbox[w] \in Seq(Tests)
    BY Busy DEF Typed, ProcessTyped
  <2>2. PICK left \in SUBSET Fixtures :
          Post(w, Append(HoldsEvent(alive[w], left), <<"complete", Head(inbox[w])>>))
    <3>1. alive[w] \in SUBSET Fixtures
      BY DEF Typed, ProcessTyped
    <3>2. Len(inbox[w]) > 1 => Kept(inbox[w][2], alive[w]) \in SUBSET Fixtures
      BY <3>1 DEF Kept
    <3>3. QED BY <3>2
  <2>3. HoldsEvent(alive[w], left) \in Seq(Mail)
        /\ \A i \in DOMAIN HoldsEvent(alive[w], left) : HoldsEvent(alive[w], left)[i][1] # "ready"
    <3>1. HoldsEvent(alive[w], left) \in Seq(Mail)
      BY HoldsPlain DEF Typed, ProcessTyped
    <3>2. QED BY <3>1 DEF HoldsEvent
  <2>4. <<"complete", Head(inbox[w])>> \in Mail
    BY <2>1, MailTyped
  <2> DEFINE all == Append(HoldsEvent(alive[w], left), <<"complete", Head(inbox[w])>>)
  <2>5. all \in Seq(Mail) /\ \A i \in DOMAIN all : all[i][1] # "ready"
    <3>1. ASSUME NEW hs \in Seq(Mail), \A i \in DOMAIN hs : hs[i][1] # "ready",
                 NEW e \in Mail, e[1] = "complete"
          PROVE  Append(hs, e) \in Seq(Mail) /\ \A i \in DOMAIN Append(hs, e) : Append(hs,
         e)[i][1] # "ready"
      BY <3>1
    <3>2. QED BY <2>3, <2>4, <3>1
  <2>6. Post(w, all)
    BY <2>2
  <2> HIDE DEF all
  <2>7. QED BY <2>1, <2>5, <2>6, NewPosted DEF Typed, IsKnown
<1>36. ASSUME NEW w \in Nodes, Ask(w)  PROVE New'
  <2> USE <1>36 DEF Ask, central, work, gate, line, nodes, process, outcome
  <2>1. PICK m \in Requesting : Post(w, <<<<"request", m>>>>)
    BY AskPosts DEF Typed
  <2>2. <<<<"request", m>>>> \in Seq(Mail)
      /\ \A i \in DOMAIN <<<<"request", m>>>> : <<<<"request", m>>>>[i][1] # "ready"
    BY MailTyped, MailLists
  <2>3. status[w] = "up"
    BY Busy DEF Typed
  <2>4. QED BY <2>1, <2>2, <2>3, NewPosted DEF Typed, IsKnown
<1>37. ASSUME NEW w \in Nodes, GiveUp(w)  PROVE New'
  <2> USE <1>37 DEF GiveUp, central, work, gate, line, nodes, process, outcome
  <2>1. PICK m \in Requesting : Post(w, <<<<"request", m>>>>)
    BY GiveUpPosts DEF Typed
  <2>2. <<<<"request", m>>>> \in Seq(Mail)
      /\ \A i \in DOMAIN <<<<"request", m>>>> : <<<<"request", m>>>>[i][1] # "ready"
    BY MailTyped, MailLists
  <2>3. status[w] = "up"
    BY Busy DEF Typed
  <2>4. QED BY <2>1, <2>2, <2>3, NewPosted DEF Typed, IsKnown
<1>38. ASSUME NEW w \in Nodes, GrantArrives(w)  PROVE New'
  <2> USE <1>38 DEF GrantArrives, central, work, gate, line, nodes, process, outcome
  <2> QED BY NewKept DEF IsKnown
<1>39. ASSUME NEW w \in Nodes, NEW reached \in BOOLEAN, GoOn(w, reached)  PROVE New'
  <2> USE <1>39 DEF GoOn, central, work, gate, line, nodes, process, outcome
  <2> DEFINE F == IF reached THEN alive[w] \cup {permit[w].key} ELSE alive[w]
  <2>1. F \in SUBSET Fixtures /\ alive[w] \in SUBSET Fixtures
    BY PermitFields, Busy DEF Typed, ProcessTyped
  <2>2. Post(w, HoldsEvent(alive[w], F))
    OBVIOUS
  <2>3. status[w] = "up"
    BY Busy DEF Typed
  <2> HIDE DEF F
  <2>4. HoldsEvent(alive[w], F) \in Seq(Mail)
    BY <2>1, HoldsPlain
  <2>5. \A i \in DOMAIN HoldsEvent(alive[w], F) : HoldsEvent(alive[w], F)[i][1] # "ready"
    BY DEF HoldsEvent
  <2>6. QED BY <2>2, <2>3, <2>4, <2>5, NewPosted DEF Typed, IsKnown
<1>40. ASSUME NEW w \in Nodes, Exit(w)  PROVE New'
  <2> USE <1>40 DEF Exit, Leave, central, work, gate, line, nodes, process, outcome
  <2>1. <<<<"finished", 0>>>> \in Seq(Mail)
    BY MailTyped, MailLists
  <2>2. \A i \in DOMAIN <<<<"finished", 0>>>> : <<<<"finished", 0>>>>[i][1] # "ready"
    OBVIOUS
  <2>3. \A v \in Nodes : IsKnown(v)' => IsKnown(v)
    BY DEF IsKnown
  <2>4. status'[w] \notin {"absent", "booting"}
      /\ \A v \in Nodes : v # w => status'[v] = status[v]
    BY DEF MayStart, Typed, ProcessTyped
  <2>5. QED BY <2>1, <2>2, <2>3, <2>4, NewPosted DEF Typed
<1>41. ASSUME NEW w \in Nodes, Crash(w)  PROVE New'
  <2> USE <1>41 DEF Crash, Leave, central, work, gate, line, nodes, process, outcome
  <2>1. <<<<"down", 0>>>> \in Seq(Mail)
    BY MailTyped, MailLists
  <2>2. \A i \in DOMAIN <<<<"down", 0>>>> : <<<<"down", 0>>>>[i][1] # "ready"
    OBVIOUS
  <2>3. \A v \in Nodes : IsKnown(v)' => IsKnown(v)
    BY DEF IsKnown
  <2>4. status'[w] \notin {"absent", "booting"}
      /\ \A v \in Nodes : v # w => status'[v] = status[v]
    BY DEF MayStart, Typed, ProcessTyped
  <2>5. QED BY <2>1, <2>2, <2>3, <2>4, NewPosted DEF Typed
<1>42. ASSUME UNCHANGED vars  PROVE New'
  <2>1. UNCHANGED <<events, status, registered, told, down>>
    BY <1>42 DEF vars, nodes, process
  <2>2. QED BY <2>1, NewKept DEF IsKnown
<1>43. /\ AtOp("fill") => Head(todo).out \in Seq(Tests)
       /\ AtOp("replan") => Head(todo).tests \in SUBSET Tests
  BY StackMoves, CallFields DEF Typed, AtOp
<1>44. ASSUME NEW w \in Nodes, AtOp("fill"), Filler(w, Head(todo).out)  PROVE New'
  BY <1>44, <1>43, <1>2, <1>3, <1>4, <1>5, <1>6 DEF Filler
<1>45. ASSUME NEW w \in Nodes, Common(w)  PROVE New'
  BY <1>45, <1>8, <1>9, <1>10,
     <1>19, <1>20, <1>23, <1>25, <1>26,
     <1>29, <1>30, <1>31,
     <1>21, <1>15, <1>18, <1>16, <1>17 DEF Common
<1>46. ASSUME Anywhere  PROVE New'
  BY <1>46, <1>43, <1>11, <1>12, <1>13, <1>14, <1>27
  DEF Anywhere
<1>47. ASSUME Controller  PROVE New'
  BY <1>47, <1>44, <1>45, <1>46, <1>1, <1>7, <1>22, <1>24, <1>28
  DEF Controller
<1>48. ASSUME NEW w \in Nodes, Worker(w)  PROVE New'
  BY <1>48, <1>32, <1>33, <1>34, <1>35, <1>40, <1>36, <1>38, <1>39 DEF Worker
<1>49. QED BY <1>42, <1>47, <1>48, <1>37, <1>41 DEF Next, Stopped

(* At the start no worker is up.                                           *)
LEMMA NewInit == Init => New
<1>1. ASSUME Init, NEW w \in Nodes  PROVE Unheard(w)
  <2>1. events[w] = <<>> /\ (status[w] \in {"absent", "booting"} => ~IsKnown(w))
    BY <1>1 DEF Init, Start, IsKnown
  <2>2. QED BY <2>1 DEF Unheard
<1>2. QED BY <1>1 DEF New

(* The request of w is about to be retried.                                *)
ToRetry(w) == \E j \in DOMAIN todo : todo[j].op = "retry" /\ todo[j].node = w

(* Who waits is registered; who asks the gate for slots waits and has a    *)
(* test to run; who waits without a request has at most one test, and none *)
(* once it is told to finish; and who keeps a request stands in both lines *)
(* or is about to be retried.                                              *)
InLine(w) ==
  /\ w \in Elements(waiting) => w \in registered
  /\ ask[w] > 0 => w \in Elements(waiting) /\ queue[w] # <<>>
  /\ w \in Elements(waiting) /\ ~HasRequest(w) =>
       Len(queue[w]) <= 1 /\ (w \in told => queue[w] = <<>>)
  /\ HasRequest(w) => (w \in Elements(waiting) /\ ask[w] > 0) \/ ToRetry(w)

(* So for every node: `waiting` and the gate's line agree with the queues. *)
Line == \A w \in Nodes : InLine(w)

(* The retries on the stack stay there until they are made.                *)
LEMMA RetriesStay ==
  ASSUME StackTyped, todo # <<>>
  PROVE  /\ Return => \A w \in Nodes :
                ToRetry(w) /\ ~(Head(todo).op = "retry" /\ Head(todo).node = w)
                        => ToRetry(w)'
         /\ \A a \in Seq(Calls) : Call(a) =>
              \A w \in Nodes : ToRetry(w) /\ ~(Head(todo).op = "retry" /\ Head(todo).node = w)
                => ToRetry(w)'
<1>1. todo \in Seq(Calls) /\ Tail(todo) \in Seq(Calls)
  BY DEF StackTyped
<1>2. ASSUME NEW w \in Nodes, ToRetry(w), ~(Head(todo).op = "retry" /\ Head(todo).node = w)
      PROVE  \E j \in DOMAIN Tail(todo) : Tail(todo)[j].op = "retry" /\ Tail(todo)[j].node = w
  <2>1. PICK j \in DOMAIN todo : todo[j].op = "retry" /\ todo[j].node = w
    BY <1>2 DEF ToRetry
  <2>2. j # 1
    BY <1>1, <1>2, <2>1
  <2>3. j - 1 \in DOMAIN Tail(todo) /\ Tail(todo)[j - 1] = todo[j]
    BY <1>1, <2>2
  <2>4. QED BY <2>1, <2>3
<1>3. ASSUME NEW a \in Seq(Calls), NEW s \in Seq(Calls)
      PROVE  \A j \in DOMAIN s : j + Len(a) \in DOMAIN (a \o s) /\ (a \o s)[j + Len(a)] = s[j]
  OBVIOUS
<1>4. ASSUME Return, NEW w \in Nodes, ToRetry(w),
             ~(Head(todo).op = "retry" /\ Head(todo).node = w)
      PROVE  ToRetry(w)'
  <2>1. todo' = Tail(todo)
    BY <1>4 DEF Return
  <2>2. QED BY <1>2, <1>4, <2>1 DEF ToRetry
<1>5. ASSUME NEW a \in Seq(Calls), Call(a), NEW w \in Nodes, ToRetry(w),
             ~(Head(todo).op = "retry" /\ Head(todo).node = w)
      PROVE  ToRetry(w)'
  <2>1. todo' = a \o Tail(todo)
    BY <1>5 DEF Call
  <2>2. PICK j \in DOMAIN Tail(todo) : Tail(todo)[j].op = "retry" /\ Tail(todo)[j].node = w
    BY <1>2, <1>5
  <2>3. j + Len(a) \in DOMAIN todo' /\ todo'[j + Len(a)] = Tail(todo)[j]
    BY <1>1, <1>3, <2>1
  <2>4. QED BY <2>2, <2>3 DEF ToRetry
<1>6. QED BY <1>4, <1>5

(* Who is in the line after _parked and _admitted.                         *)
LEMMA WaitsIn ==
  ASSUME NodesTyped, LineShape, NEW w \in Nodes
  PROVE  /\ Wait(w) => Elements(waiting)' = Elements(waiting) \cup {w}
         /\ Admitted(w) => Elements(waiting)' = Elements(waiting) \ {w}
BY WaitElements DEF NodesTyped, LineShape

(* A call that leaves line, queues and requests alone, and tells nobody    *)
(* with a test in the line, keeps it.                                      *)
LEMMA LineCalled ==
  ASSUME Line, StackTyped, todo # <<>>, UNCHANGED <<requests, queue, registered>>,
         Return \/ \E a \in Seq(Calls) : Call(a),
         UNCHANGED line, Head(todo).op # "retry",
         \A v \in Nodes : v \in told' /\ v \notin told /\ v \in Elements(waiting)
             /\ ~HasRequest(v)
                            => queue[v] = <<>>
  PROVE  Line'
<1>1. \A v \in Nodes : ToRetry(v) => ToRetry(v)'
  BY RetriesStay
<1>2. Elements(waiting)' = Elements(waiting)
  BY DEF line, Elements
<1>3. UNCHANGED <<ask, waiting>>
  BY DEF line
<1>4. QED BY <1>1, <1>2, <1>3 DEF Line, InLine, HasRequest

(* w leaves the line, without a request or with an answer to it.           *)
LEMMA LineLeft ==
  ASSUME Line, NodesTyped, GateTyped, LineShape, NEW w \in Nodes,
         Admitted(w), ~HasRequest(w)',
         \A v \in Nodes : v # w =>
           /\ requests'[v] = requests[v] /\ queue'[v] = queue[v]
           /\ v \in registered => v \in registered'
           /\ v \in told' => v \in told
           /\ ToRetry(v) => ToRetry(v)'
  PROVE  Line'
<1>1. Elements(waiting)' = Elements(waiting) \ {w}
  BY WaitsIn
<1>2. ask'[w] = 0 /\ \A v \in Nodes : v # w => ask'[v] = ask[v]
  BY DEF Admitted, GateTyped
<1>3. InLine(w)'
  BY <1>1, <1>2 DEF InLine
<1>4. ASSUME NEW v \in Nodes, v # w  PROVE InLine(v)'
  BY <1>1, <1>2, <1>4 DEF Line, InLine, HasRequest
<1>5. QED BY <1>3, <1>4 DEF Line

(* w joins the line.                                                       *)
LEMMA LineJoined ==
  ASSUME Line, NodesTyped, GateTyped, LineShape, NEW w \in Nodes, NEW slots \in Nat,
         Wait(w), ask' = [ask EXCEPT ![w] = slots], w \in registered,
         slots > 0 => queue[w] # <<>>, HasRequest(w) => slots > 0,
         ~HasRequest(w) => Len(queue[w]) <= 1 /\ (w \in told => queue[w] = <<>>),
         UNCHANGED <<requests, queue, registered, told>>,
         \A v \in Nodes : v # w /\ ToRetry(v) => ToRetry(v)'
  PROVE  Line'
<1>1. Elements(waiting)' = Elements(waiting) \cup {w}
  BY WaitsIn
<1>2. ask'[w] = slots /\ \A v \in Nodes : v # w => ask'[v] = ask[v]
  BY DEF GateTyped
<1>3. InLine(w)'
  BY <1>1, <1>2 DEF InLine, HasRequest
<1>4. ASSUME NEW v \in Nodes, v # w  PROVE InLine(v)'
  BY <1>1, <1>2, <1>4 DEF Line, InLine, HasRequest
<1>5. QED BY <1>3, <1>4 DEF Line

(* The controller turns to the next event.                                 *)
LEMMA LineAtEvent ==
  ASSUME Line, todo = <<>>, UNCHANGED <<requests, queue, registered, told, waiting, ask>>
  PROVE  Line'
<1>1. \A v \in Nodes : ~ToRetry(v)
  BY DEF ToRetry
<1>2. Elements(waiting)' = Elements(waiting)
  BY DEF Elements
<1>3. QED BY <1>1, <1>2 DEF Line, InLine, HasRequest

(* A node that is refused joins the line with what it needs.               *)
LEMMA LineRefused ==
  ASSUME Line, Typed, Priced, Asked, Supplied, LineShape, NEW w \in Nodes,
         NotGranted(w), w \in registered, w \notin told, queue[w] # <<>>, todo # <<>>, Return,
         Head(todo).op # "retry", UNCHANGED <<requests, queue, registered, told>>
  PROVE  Line'
<1>1. CASE UNCHANGED line
  BY <1>1, LineCalled DEF Typed
<1>2. CASE ~Deferred(w) /\ Refusable(w, TailNeed(w)) /\ Wait(w)
    /\ ask' = [ask EXCEPT ![w] = TailNeed(w)]
  <2>1. TailNeed(w) \in Nat /\ Held(w) \in Nat
    BY TailNeedNat DEF Typed, Priced, GateTyped, Held
  <2>2. TailNeed(w) > Held(w)
    BY <1>2 DEF Refusable
  <2>3. Len(queue[w]) <= 1
    <3>1. Len(queue[w]) \in Nat
      BY DEF Typed, WorkTyped
    <3>2. QED BY <1>2, <2>2, <3>1 DEF Deferred
  <2>4. \A v \in Nodes : ToRetry(v) => ToRetry(v)'
    BY RetriesStay DEF Typed
  <2>5. TailNeed(w) > 0
    BY <2>1, <2>2
  <2>6. QED BY <1>2, <2>1, <2>3, <2>4, <2>5, LineJoined DEF Typed, Priced
<1>3. QED BY <1>1, <1>2 DEF NotGranted

(* A node whose request is kept has a test to run, and is registered.      *)
LEMMA RequesterStocked ==
  ASSUME Typed, Asked, Supplied, NEW w \in Nodes, HasRequest(w)
  PROVE  queue[w] # <<>> /\ w \in registered
<1>1. requests[w].id \in 1 .. MaxAsks /\ requests[w].test \in Tests
  BY RequestFields DEF Typed
<1>2. requests[w].test \in Unfinished(w)
  BY <1>1 DEF Asked, AskedBy, Blocks, Open
<1>3. QED BY <1>2 DEF Unfinished, Elements, Supplied, Stocked

(* Every step keeps the line: one case for each action of Next. The cases  *)
(* with work in them are the ones in which a node joins it (fill,          *)
(* shutdown, retry), leaves it (fill, shutdown, stop, force, retry, crash, *)
(* exit) or is told to finish while it waits.                              *)
LEMMA LineStep ==
  ASSUME Typed, Shape, Consistent, LineShape, Priced, Asked, Supplied, New, Line, [Next]_vars
  PROVE  Line'
<1>1. ASSUME NEW w \in Nodes, CheckSchedule(w)  PROVE Line'
  <2> USE <1>1 DEF CheckSchedule, still, work, gate, line, nodes, process, outcome
  <2>1. todo # <<>> /\ Head(todo).op # "retry"
    BY DEF At, Check, Fill, Rest, Shutdown, Admit, Stalls, Loop, Restart, Stop, Standstill,
        Filling
  <2>2. Return \/ \E a \in Seq(Calls) : Call(a)
    <3>1. (IF Low(w) THEN <<Fill(w, <<>>)>> ELSE <<>>) \o <<Rest(w)>> \in Seq(Calls)
      <4>1. <<>> \in Seq(Tests) /\ <<>> \in Seq(Calls)
        OBVIOUS
      <4>2. <<Fill(w, <<>>)>> \in Seq(Calls) /\ <<Rest(w)>> \in Seq(Calls)
        BY <4>1, CallsOfNodes, CallLists
      <4>3. QED BY <4>1, <4>2, CallLists
    <3>2. QED BY <3>1
  <2>3. QED BY <2>1, <2>2, LineCalled DEF Typed
<1>2. ASSUME NEW w \in Nodes, NEW out \in Seq(Tests), NEW t \in Tests,
         FillDispatch(w, out, t)
  PROVE Line'
  <2> USE <1>2 DEF FillDispatch, still, work, gate, line, nodes, process, outcome
  <2>1. todo # <<>> /\ Head(todo).op # "retry"
    BY DEF At, Fill, Shutdown, Stop, Filling, Forceable, Standstill, Stalls, Remove
  <2>2. w \in registered /\ w \notin told
    BY HeadKnown DEF Shape, StackShape, AtOp, At, Filling, Fill
  <2>3. \A v \in Nodes : ToRetry(v) => ToRetry(v)'
    <3>1. Append(out, t) \in Seq(Tests)
      OBVIOUS
    <3>2. <<Fill(w, Append(out, t))>> \in Seq(Calls)
      BY <3>1, CallsOfNodes, CallLists
    <3>3. QED BY <2>1, <3>2, RetriesStay DEF Typed
  <2>4. queue[w] \in Seq(Tests) /\ queue'[w] = Append(queue[w], t) /\ queue'[w] # <<>>
        /\ \A v \in Nodes : v # w => queue'[v] = queue[v]
    BY DEF Typed, WorkTyped
  <2>5. CASE queue[w] = <<>>
    <3>1. Len(queue'[w]) <= 1
      BY <2>4, <2>5
    <3>2. Elements(waiting)' = Elements(waiting)
      BY <2>5 DEF Elements
    <3>3. InLine(w)'
      BY <2>2, <2>3, <2>4, <2>5, <3>1, <3>2 DEF Line, InLine, HasRequest
    <3>4. ASSUME NEW v \in Nodes, v # w  PROVE InLine(v)'
      BY <2>3, <2>4, <2>5, <3>2, <3>4 DEF Line, InLine, HasRequest
    <3>5. QED BY <3>3, <3>4 DEF Line
  <2>6. CASE queue[w] # <<>>
    <3>1. Granted(w) /\ ~HasRequest(w)
      BY <2>2, <2>6, NotGrantedWhileAsking
    <3>2. Admitted(w) /\ ~HasRequest(w)'
      BY <3>1 DEF Granted, Raised, HasRequest
    <3>3. QED BY <2>3, <2>4, <3>2, LineLeft DEF Typed, Priced
  <2>7. QED BY <2>5, <2>6
<1>3. ASSUME NEW w \in Nodes, NEW out \in Seq(Tests), NEW donor \in Nodes,
         NEW chunk \in SUBSET pending,
         FillBorrow(w, out, donor, chunk)
  PROVE Line'
  <2> USE <1>3 DEF FillBorrow, still, work, gate, line, nodes, process, outcome
  <2> QED BY DEF Line, InLine, HasRequest, ToRetry, Elements
<1>4. ASSUME NEW w \in Nodes, NEW out \in Seq(Tests), FillDone(w, out)  PROVE Line'
  <2> USE <1>4 DEF FillDone, still, work, gate, line, nodes, process, outcome
  <2>1. todo # <<>> /\ Head(todo).op # "retry"
    BY DEF At, Check, Fill, Rest, Shutdown, Admit, Stalls, Loop, Restart, Stop, Standstill,
        Filling
  <2>2. Return \/ \E a \in Seq(Calls) : Call(a)
    BY DEF Send
  <2>3. QED BY <2>1, <2>2, LineCalled DEF Typed
<1>5. ASSUME NEW w \in Nodes, NEW out \in Seq(Tests), FillBlocked(w, out)  PROVE Line'
  <2> USE <1>5 DEF FillBlocked, still, work, gate, line, nodes, process, outcome
  <2>1. todo # <<>> /\ Head(todo).op # "retry"
    BY DEF At, Fill, Shutdown, Stop, Filling, Forceable, Standstill, Stalls, Remove
  <2>2. w \in registered /\ w \notin told
    BY HeadKnown DEF Shape, StackShape, AtOp, At, Filling, Fill
  <2>3. CASE queue[w] = <<>>
    <3>1. \A v \in Nodes : ToRetry(v) => ToRetry(v)'
      BY <2>1, RetriesStay DEF Typed, Send
    <3>2. Wait(w) /\ UNCHANGED ask
      BY <2>3
    <3>3. ask[w] = 0
      <4>1. ask[w] \in Nat /\ ~(ask[w] > 0)
        BY <2>3 DEF Line, InLine, Priced, GateTyped
      <4>2. QED BY <4>1
    <3>4. ask' = [ask EXCEPT ![w] = 0]
      BY <3>2, <3>3 DEF Priced, GateTyped
    <3>5. ~HasRequest(w) /\ Len(queue[w]) <= 1
      BY <2>3, RequesterStocked
    <3>6. UNCHANGED <<requests, queue, registered, told>> /\ 0 \in Nat /\ ~(0 > 0)
      BY DEF Send
    <3>7. NodesTyped /\ GateTyped
      BY DEF Typed, Priced
    <3>8. QED BY ONLY Line, LineShape, <2>2, <2>3, <3>1, <3>2, <3>4, <3>5, <3>6, <3>7,
        LineJoined, w \in Nodes
  <2>4. CASE queue[w] # <<>>
    BY <2>1, <2>4, LineCalled DEF Typed, Send
  <2>5. QED BY <2>3, <2>4
<1>6. ASSUME NEW w \in Nodes, NEW out \in Seq(Tests), FillRefused(w, out)  PROVE Line'
  <2> USE <1>6 DEF FillRefused, still, work, gate, line, nodes, process, outcome
  <2>1. todo # <<>> /\ Head(todo).op # "retry"
    BY DEF At, Fill, Shutdown, Stop, Filling, Forceable, Standstill, Stalls, Remove
  <2>2. w \in registered /\ w \notin told
    BY HeadKnown DEF Shape, StackShape, AtOp, At, Filling, Fill
  <2>3. QED BY <2>1, <2>2, LineRefused DEF Send
<1>7. ASSUME NEW w \in Nodes, CheckRest(w)  PROVE Line'
  <2> USE <1>7 DEF CheckRest, still, work, gate, line, nodes, process, outcome
  <2>1. todo # <<>> /\ Head(todo).op # "retry"
    BY DEF At, Check, Fill, Rest, Shutdown, Admit, Stalls, Loop, Restart, Stop, Standstill,
        Filling
  <2>2. Return \/ \E a \in Seq(Calls) : Call(a)
    BY CallsOfNodes, CallLists
  <2>3. QED BY <2>1, <2>2, LineCalled DEF Typed
<1>8. ASSUME NEW w \in Nodes, ShutdownRefused(w)  PROVE Line'
  <2> USE <1>8 DEF ShutdownRefused, still, work, gate, line, nodes, process, outcome
  <2>1. todo # <<>> /\ Head(todo).op # "retry"
    BY DEF At, Fill, Shutdown, Stop, Filling, Forceable, Standstill, Stalls, Remove
  <2>2. w \in registered /\ w \notin told
    BY DEF ShuttingDown, Supplied, Stocked
  <2>3. QED BY <2>1, <2>2, LineRefused
<1>9. ASSUME NEW w \in Nodes, ShutdownSent(w)  PROVE Line'
  <2> USE <1>9 DEF ShutdownSent, still, work, gate, line, nodes, process, outcome
  <2>1. todo # <<>> /\ Head(todo).op # "retry"
    BY DEF At, Fill, Shutdown, Stop, Filling, Forceable, Standstill, Stalls, Remove
  <2>2. w \notin told
    BY DEF ShuttingDown
  <2>3. Return \/ \E a \in Seq(Calls) : Call(a)
    BY OtherCalls, CallLists DEF Typed, WorkTyped
  <2>4. \A v \in Nodes : ToRetry(v) => ToRetry(v)'
    BY <2>1, <2>3, RetriesStay DEF Typed
  <2>5. CASE queue[w] = <<>>
    BY <2>1, <2>3, <2>5, LineCalled DEF Typed
  <2>6. CASE queue[w] # <<>>
    <3>1. Granted(w) /\ ~HasRequest(w)
      BY <2>2, <2>6, NotGrantedWhileAsking
    <3>2. Admitted(w) /\ ~HasRequest(w)'
      BY <3>1 DEF Granted, Raised, HasRequest
    <3>3. \A v \in Nodes : v # w /\ v \in told' => v \in told
      OBVIOUS
    <3>4. QED BY <2>4, <3>2, <3>3, LineLeft DEF Typed, Priced
  <2>7. QED BY <2>5, <2>6
<1>10. ASSUME NEW w \in Nodes, ShutdownAgain(w)  PROVE Line'
  <2> USE <1>10 DEF ShutdownAgain, still, work, gate, line, nodes, process, outcome
  <2>1. todo # <<>> /\ Head(todo).op # "retry"
    BY DEF At, Check, Fill, Rest, Shutdown, Admit, Stalls, Loop, Restart, Stop, Standstill,
        Filling
  <2>2. Return \/ \E a \in Seq(Calls) : Call(a)
    OBVIOUS
  <2>3. QED BY <2>1, <2>2, LineCalled DEF Typed
<1>11. ASSUME NEW S \in SUBSET Tests, ReplanTests(S)  PROVE Line'
  <2> USE <1>11 DEF ReplanTests, still, work, gate, line, nodes, process, outcome
  <2>1. todo # <<>> /\ Head(todo).op # "retry"
    <3>1. todo # <<>> /\ Head(todo) = Replan(S)
      BY DEF At
    <3>2. Head(todo).op = "replan"
      BY <3>1 DEF Replan
    <3>3. QED BY <3>1, <3>2
  <2>2. Return \/ \E a \in Seq(Calls) : Call(a)
    <3>1. ASSUME NEW order \in Orders(registered), Call(Each(Check, order))
          PROVE  \E a \in Seq(Calls) : Call(a)
      <4>1. order \in Seq(Nodes)
        BY RegisteredInOrder DEF Typed, NodesTyped
      <4>2. QED BY <3>1, <4>1, CallsInOrder
    <3>2. QED BY <3>1
  <2>3. QED BY <2>1, <2>2, LineCalled DEF Typed
<1>12. ASSUME AdmitWaiting  PROVE Line'
  <2> USE <1>12 DEF AdmitWaiting, still, work, gate, line, nodes, process, outcome
  <2>1. todo # <<>> /\ Head(todo).op # "retry"
    BY DEF At, Check, Fill, Rest, Shutdown, Admit, Stalls, Loop, Restart, Stop, Standstill,
        Filling
  <2>2. Return \/ \E a \in Seq(Calls) : Call(a)
    <3>1. waiting \in Seq(Nodes)
      BY DEF Typed, NodesTyped
    <3>2. Each(Visit, waiting) \in Seq(Calls) /\ Stalls \in Calls
      BY <3>1, CallsInOrder, OtherCalls
    <3>3. Append(Each(Visit, waiting), Stalls) \in Seq(Calls)
      BY <3>2
    <3>4. QED BY <3>3
  <2>3. QED BY <2>1, <2>2, LineCalled DEF Typed
<1>13. ASSUME ResolveNothing  PROVE Line'
  <2> USE <1>13 DEF ResolveNothing, still, work, gate, line, nodes, process, outcome
  <2>1. todo # <<>> /\ Head(todo).op # "retry"
    BY DEF At, Check, Fill, Rest, Shutdown, Admit, Stalls, Loop, Restart, Stop, Standstill,
        Filling
  <2>2. Return \/ \E a \in Seq(Calls) : Call(a)
    OBVIOUS
  <2>3. QED BY <2>1, <2>2, LineCalled DEF Typed
<1>14. ASSUME ResolveParked  PROVE Line'
  <2> USE <1>14 DEF ResolveParked, still, work, gate, line, nodes, process, outcome
  <2>1. todo # <<>> /\ Head(todo).op # "retry"
    BY DEF At, Check, Fill, Rest, Shutdown, Admit, Stalls, Loop, Restart, Stop, Standstill,
        Filling
  <2>2. Return \/ \E a \in Seq(Calls) : Call(a)
    <3>1. PICK i \in Candidates : Call(<<Shutdown(waiting[i])>>)
      OBVIOUS
    <3>2. waiting[i] \in Nodes
      BY DEF Candidates, Typed, NodesTyped
    <3>3. QED BY <3>1, <3>2, CallsOfNodes, CallLists
  <2>3. QED BY <2>1, <2>2, LineCalled DEF Typed
<1>15. ASSUME NEW w \in Nodes, ResolveForce(w)  PROVE Line'
  <2> USE <1>15 DEF ResolveForce, still, work, gate, line, nodes, process, outcome
  <2>1. todo # <<>> /\ Head(todo).op # "retry"
    BY DEF At, Fill, Shutdown, Stop, Filling, Forceable, Standstill, Stalls, Remove
  <2>2. \A v \in Nodes : ToRetry(v) => ToRetry(v)'
    BY <2>1, RetriesStay, CallsOfNodes, CallLists DEF Typed
  <2>3. ~HasRequest(w)'
    BY DEF HasRequest
  <2>4. QED BY <2>2, <2>3, LineLeft DEF Typed, Priced
<1>16. ASSUME NEW w \in Nodes, NEW release \in BOOLEAN, RetryGranted(w, release)  PROVE Line'
  <2> USE <1>16 DEF RetryGranted, still, work, gate, line, nodes, process, outcome
  <2>1. todo # <<>> /\ Head(todo).op = "retry" /\ Head(todo).node = w
    BY DEF At, Retry
  <2>2. \A v \in Nodes : v # w /\ ToRetry(v) => ToRetry(v)'
    BY <2>1, RetriesStay DEF Typed
  <2>3. /\ requests'[w] = NoRequest
        /\ \A v \in Nodes : v # w => requests'[v] = requests[v]
    BY DEF CompleteRequest, Typed, NodesTyped
  <2>4. UNCHANGED <<queue, registered, told>> /\ ~HasRequest(w)'
    BY <2>3 DEF CompleteRequest, HasRequest
  <2>5. Admitted(w)
    BY DEF Raised
  <2>6. QED BY <2>2, <2>3, <2>4, <2>5, LineLeft DEF Typed, Priced
<1>17. ASSUME NEW w \in Nodes, NEW release \in BOOLEAN, RetryRefused(w, release)  PROVE Line'
  <2> USE <1>17 DEF RetryRefused, still, work, gate, line, nodes, process, outcome
  <2>1. todo # <<>> /\ Head(todo).op = "retry" /\ Head(todo).node = w
    BY DEF At, Retry
  <2>2. \A v \in Nodes : v # w /\ ToRetry(v) => ToRetry(v)'
    BY <2>1, RetriesStay, OtherCalls, CallLists DEF Typed
  <2>3. HasRequest(w)
    BY RequesterRetried DEF Typed
  <2>4. RequestNeed(w) \in Nat /\ Held(w) \in Nat
    BY <2>3, RequestTyped DEF Typed, Priced, GateTyped, Held
  <2>5. RequestNeed(w) > 0
    BY <2>4 DEF Refusable
  <2>6. queue[w] # <<>> /\ w \in registered
    BY <2>3, RequesterStocked
  <2>7. QED BY <2>2, <2>3, <2>4, <2>5, <2>6, LineJoined DEF Typed, Priced
<1>18. ASSUME NEW w \in Nodes, ResolveForceRequest(w)  PROVE Line'
  <2> USE <1>18 DEF ResolveForceRequest, still, work, gate, line, nodes, process, outcome
  <2>1. todo # <<>> /\ Head(todo).op # "retry"
    BY DEF At, Fill, Shutdown, Stop, Filling, Forceable, Standstill, Stalls, Remove
  <2>2. \A v \in Nodes : ToRetry(v) => ToRetry(v)'
    BY <2>1, RetriesStay DEF Typed
  <2>3. /\ requests'[w] = NoRequest
        /\ \A v \in Nodes : v # w => requests'[v] = requests[v]
    BY DEF CompleteRequest, Typed, NodesTyped
  <2>4. UNCHANGED <<queue, registered, told>> /\ ~HasRequest(w)'
    BY <2>3 DEF CompleteRequest, HasRequest
  <2>5. QED BY <2>2, <2>3, <2>4, LineLeft DEF Typed, Priced
<1>19. ASSUME NEW w \in Nodes, Completed(w)  PROVE Line'
  <2> USE <1>19 DEF Completed, still, work, gate, line, nodes, process, outcome
  <2>1. todo = <<>> /\ \A v \in Nodes : ~ToRetry(v)
    BY DEF ToRetry, Takes
  <2> DEFINE t == Head(events[w])[2]
  <2>2. Kind(w, 1) = "complete" /\ 1 \in DOMAIN events[w] /\ t \in Tests /\ Agrees(w)
    BY NextMail, HeadMail DEF Takes, Consistent, ChannelAgrees, Typed
  <2>3. ~HasRequest(w)
    BY <2>2, SilentHead
  <2>4. UNCHANGED <<requests, line, registered, told>>
    BY <2>3
  <2>5. queue[w] \in Seq(Tests) /\ \A v \in Nodes : v # w => queue'[v] = queue[v]
    BY DEF Typed, WorkTyped
  <2>6. t \in Completes(w) /\ t \in Elements(queue[w])
    BY <2>2, CompletesTaken DEF Agrees, Typed
  <2>7. w \notin Elements(waiting)
    <3>1. SUFFICES ASSUME w \in Elements(waiting)  PROVE FALSE
      OBVIOUS
    <3>2. queue[w] # <<>>
      BY <2>6 DEF Elements
    <3>3. Len(queue[w]) = 1 /\ w \notin told
      <4>1. InLine(w)
        BY DEF Line
      <4>2. Len(queue[w]) <= 1 /\ (w \in told => queue[w] = <<>>)
        BY <2>3, <3>1, <4>1 DEF InLine
      <4>3. Len(queue[w]) \in Nat /\ Len(queue[w]) # 0
        BY <2>5, <3>2
      <4>4. \A n \in Nat : n <= 1 /\ n # 0 => n = 1
        OBVIOUS
      <4>5. Len(queue[w]) = 1
        BY ONLY <4>2, <4>3, <4>4
      <4>6. QED BY ONLY <3>2, <4>2, <4>5
    <3>4. DOMAIN queue[w] = {1}
      BY <2>5, <3>3
    <3>5. Elements(queue[w]) = {t}
      BY <2>6, <3>4 DEF Elements
    <3>6. QED BY <2>6, <3>2, <3>3, <3>5 DEF Supplied, Stocked, Unfinished
  <2>8. Elements(waiting)' = Elements(waiting) /\ UNCHANGED ask
    BY <2>4 DEF Elements
  <2>9. InLine(w)'
    BY <2>3, <2>4, <2>7, <2>8 DEF Line, InLine, HasRequest
  <2>10. ASSUME NEW v \in Nodes, v # w  PROVE InLine(v)'
    BY <2>1, <2>4, <2>5, <2>8, <2>10 DEF Line, InLine, HasRequest
  <2>11. QED BY <2>9, <2>10 DEF Line
<1>20. ASSUME NEW w \in Nodes, HoldsChanged(w)  PROVE Line'
  <2> USE <1>20 DEF HoldsChanged, still, work, gate, line, nodes, process, outcome
  <2> QED BY LineAtEvent DEF Takes
<1>21. ASSUME NEW w \in Nodes, Requested(w)  PROVE Line'
  <2> USE <1>21 DEF Requested, still, work, gate, line, nodes, process, outcome
  <2>1. todo = <<>> /\ \A v \in Nodes : ~ToRetry(v)
    BY DEF ToRetry, Takes
  <2> DEFINE m == Head(events[w])[2]
  <2>2. m.id \in 1 .. MaxAsks
    BY HeadMail DEF Takes, Typed, Requesting
  <2>3. CASE Answered(w, m)
    BY <2>1, <2>3, LineAtEvent
  <2>4. CASE ~Answered(w, m)
    <3>1. requests'[w].id = m.id /\ \A v \in Nodes : v # w => requests'[v] = requests[v]
      BY <2>4 DEF Typed, NodesTyped
    <3>2. HasRequest(w)'
      BY <2>2, <3>1 DEF HasRequest, NoRequest
    <3>3. todo' = <<Retry(w, TRUE), Loop>>
      BY <2>4
    <3>4. ToRetry(w)'
      <4>1. 1 \in DOMAIN todo' /\ todo'[1].op = "retry" /\ todo'[1].node = w
        BY <3>3 DEF Retry
      <4>2. QED BY <4>1 DEF ToRetry
    <3>5. UNCHANGED <<queue, registered, told>>
      OBVIOUS
    <3>6. CASE UNCHANGED line
      <4>1. Elements(waiting)' = Elements(waiting) /\ UNCHANGED ask
        BY <3>6 DEF Elements
      <4>2. InLine(w)'
        BY <3>2, <3>4, <3>5, <4>1 DEF Line, InLine
      <4>3. ASSUME NEW v \in Nodes, v # w  PROVE InLine(v)'
        BY <2>1, <3>1, <3>5, <4>1, <4>3 DEF Line, InLine, HasRequest
      <4>4. QED BY <4>2, <4>3 DEF Line
    <3>7. CASE Admitted(w)
      <4>1. Elements(waiting)' = Elements(waiting) \ {w}
        BY <3>7, WaitsIn DEF Typed
      <4>2. ask'[w] = 0 /\ \A v \in Nodes : v # w => ask'[v] = ask[v]
        BY <3>7 DEF Admitted, Priced, GateTyped
      <4>3. InLine(w)'
        BY <3>2, <3>4, <3>5, <4>1, <4>2 DEF InLine
      <4>4. ASSUME NEW v \in Nodes, v # w  PROVE InLine(v)'
        BY <2>1, <3>1, <3>5, <4>1, <4>2, <4>4 DEF Line, InLine, HasRequest
      <4>5. QED BY <4>3, <4>4 DEF Line
    <3>8. QED BY <2>4, <3>6, <3>7
  <2>5. QED BY <2>3, <2>4
<1>22. ASSUME NEW w \in Nodes, Crashed(w)  PROVE Line'
  <2> USE <1>22 DEF Crashed, RemoveNode, ReleaseRuntime, still, work, gate, line, nodes,
      process, outcome
  <2>1. todo = <<>> /\ \A v \in Nodes : ~ToRetry(v)
    BY DEF ToRetry, Takes
  <2>2. /\ requests'[w] = NoRequest /\ ~HasRequest(w)' /\ Admitted(w)
        /\ \A v \in Nodes : v # w => requests'[v] = requests[v] /\ queue'[v] = queue[v]
    BY DEF HasRequest, Typed, NodesTyped, WorkTyped
  <2>3. \A v \in Nodes : v # w /\ v \in registered => v \in registered'
    OBVIOUS
  <2>4. QED BY <2>1, <2>2, <2>3, LineLeft DEF Typed, Priced
<1>23. ASSUME NEW w \in Nodes, Finished(w)  PROVE Line'
  <2> USE <1>23 DEF Finished, still, work, gate, line, nodes, process, outcome
  <2>1. todo = <<>> /\ \A v \in Nodes : ~ToRetry(v)
    BY DEF ToRetry, Takes
  <2>2. CASE w \notin registered
    BY <2>1, <2>2, LineAtEvent
  <2>3. CASE w \in registered
    <3>1. ReleaseRuntime(w)
      BY <2>3
    <3>2. /\ requests'[w] = NoRequest /\ ~HasRequest(w)' /\ Admitted(w)
          /\ \A v \in Nodes : v # w => requests'[v] = requests[v]
      BY <3>1 DEF ReleaseRuntime, HasRequest, Typed, NodesTyped
    <3>3. QED BY <2>1, <3>2, LineLeft DEF Typed, Priced
  <2>4. QED BY <2>2, <2>3
<1>24. ASSUME NEW w \in Nodes, FinishedRemove(w)  PROVE Line'
  <2> USE <1>24 DEF FinishedRemove, RemoveNode, ReleaseRuntime, still, work, gate, line, nodes,
      process, outcome
  <2>1. \A v \in Nodes : ToRetry(v) => ToRetry(v)'
    <3>1. todo # <<>> /\ Head(todo).op # "retry"
      BY DEF At, Remove
    <3>2. RemoveCalls(w) \in Seq(Calls)
      BY RemoveCallsTyped DEF Typed
    <3>3. QED BY <3>1, <3>2, RetriesStay DEF Typed
  <2>2. /\ requests'[w] = NoRequest /\ ~HasRequest(w)' /\ Admitted(w)
        /\ \A v \in Nodes : v # w => requests'[v] = requests[v] /\ queue'[v] = queue[v]
    BY DEF HasRequest, Typed, NodesTyped, WorkTyped
  <2>3. \A v \in Nodes : v # w /\ v \in registered => v \in registered'
    OBVIOUS
  <2>4. QED BY <2>1, <2>2, <2>3, LineLeft DEF Typed, Priced
<1>25. ASSUME NEW w \in Nodes, Ready(w)  PROVE Line'
  <2> USE <1>25 DEF Ready, still, work, gate, line, nodes, process, outcome
  <2>1. ~IsKnown(w)
    BY NextMail DEF New, Unheard, Typed
  <2>2. w \notin Elements(waiting)
    BY <2>1 DEF Line, InLine, IsKnown
  <2>3. \A v \in Nodes : ~ToRetry(v)
    BY DEF ToRetry, Takes
  <2>4. Elements(waiting)' = Elements(waiting)
    BY DEF Elements
  <2>5. \A v \in Nodes : v # w => (v \in told' <=> v \in told)
    OBVIOUS
  <2>6. QED BY <2>2, <2>3, <2>4, <2>5 DEF Line, InLine, HasRequest
<1>26. ASSUME NEW w \in Nodes, Collected(w)  PROVE Line'
  <2> USE <1>26 DEF Collected, still, work, gate, line, nodes, process, outcome
  <2> QED BY LineAtEvent DEF Takes
<1>27. ASSUME RestartNode  PROVE Line'
  <2> USE <1>27 DEF RestartNode, still, work, gate, line, nodes, process, outcome
  <2>1. todo # <<>> /\ Head(todo).op # "retry"
    BY DEF At, Check, Fill, Rest, Shutdown, Admit, Stalls, Loop, Restart, Stop, Standstill,
        Filling
  <2>2. Return \/ \E a \in Seq(Calls) : Call(a)
    <3>1. ASSUME NEW order \in Orders(registered), Call(Each(Stop, order))
          PROVE  \E a \in Seq(Calls) : Call(a)
      <4>1. order \in Seq(Nodes)
        BY RegisteredInOrder DEF Typed, NodesTyped
      <4>2. QED BY <3>1, <4>1, CallsInOrder
    <3>2. QED BY <3>1 DEF TriggerShutdown
  <2>3. QED BY <2>1, <2>2, LineCalled DEF Typed
<1>28. ASSUME LoopOnce  PROVE Line'
  <2> USE <1>28 DEF LoopOnce, still, work, gate, line, nodes, process, outcome
  <2>1. todo # <<>> /\ Head(todo).op # "retry"
    BY DEF At, Check, Fill, Rest, Shutdown, Admit, Stalls, Loop, Restart, Stop, Standstill,
        Filling
  <2>2. Return \/ \E a \in Seq(Calls) : Call(a)
    <3>1. ASSUME NEW order \in Orders(registered), Call(Each(Stop, order))
          PROVE  \E a \in Seq(Calls) : Call(a)
      <4>1. order \in Seq(Nodes)
        BY RegisteredInOrder DEF Typed, NodesTyped
      <4>2. QED BY <3>1, <4>1, CallsInOrder
    <3>2. QED BY <3>1 DEF TriggerShutdown
  <2>3. QED BY <2>1, <2>2, LineCalled DEF Typed
<1>29. ASSUME NEW w \in Nodes, StopGranted(w)  PROVE Line'
  <2> USE <1>29 DEF StopGranted, still, work, gate, line, nodes, process, outcome
  <2>1. todo # <<>> /\ Head(todo).op # "retry"
    BY DEF At, Fill, Shutdown, Stop, Filling, Forceable, Standstill, Stalls, Remove
  <2>2. \A v \in Nodes : ToRetry(v) => ToRetry(v)'
    BY <2>1, RetriesStay DEF Typed
  <2>3. \A v \in Nodes : v # w /\ v \in told' => v \in told
    BY DEF Tell
  <2>4. CASE queue[w] = <<>>
    BY <2>1, <2>3, <2>4, LineCalled DEF Typed
  <2>5. CASE queue[w] # <<>>
    <3>1. Admitted(w) /\ ~HasRequest(w)'
      BY <2>5 DEF Raised, BlockedInTest, HasRequest
    <3>2. QED BY <2>2, <2>3, <3>1, LineLeft DEF Typed, Priced
  <2>6. QED BY <2>4, <2>5
<1>30. ASSUME NEW w \in Nodes, StopBlocked(w)  PROVE Line'
  <2> USE <1>30 DEF StopBlocked, still, work, gate, line, nodes, process, outcome
  <2>1. todo # <<>> /\ Head(todo).op # "retry"
    BY DEF At, Fill, Shutdown, Stop, Filling, Forceable, Standstill, Stalls, Remove
  <2>2. \A v \in Nodes : ToRetry(v) => ToRetry(v)'
    BY <2>1, RetriesStay DEF Typed
  <2>3. \A v \in Nodes : v # w /\ v \in told' => v \in told
    BY DEF Tell
  <2>4. QED BY <2>1, <2>3, LineCalled DEF Typed, BlockedInTest
<1>31. ASSUME NEW w \in Nodes, StopWithdraws(w)  PROVE Line'
  <2> USE <1>31 DEF StopWithdraws, still, work, gate, line, nodes, process, outcome
  <2>1. todo # <<>> /\ Head(todo).op # "retry"
    BY DEF At, Fill, Shutdown, Stop, Filling, Forceable, Standstill, Stalls, Remove
  <2>2. \A v \in Nodes : ToRetry(v) => ToRetry(v)'
    BY <2>1, RetriesStay DEF Typed
  <2>3. \A v \in Nodes : v # w /\ v \in told' => v \in told
    BY DEF Tell
  <2>4. ~HasRequest(w)'
    BY DEF BlockedInTest, HasRequest
  <2>5. QED BY <2>2, <2>3, <2>4, LineLeft DEF Typed, Priced
<1>32. ASSUME NEW w \in Nodes, Boot(w)  PROVE Line'
  <2> USE <1>32 DEF Boot, central, work, gate, line, nodes, process, outcome
  <2> QED BY DEF Line, InLine, HasRequest, ToRetry, Elements
<1>33. ASSUME NEW w \in Nodes, StartTest(w)  PROVE Line'
  <2> USE <1>33 DEF StartTest, central, work, gate, line, nodes, process, outcome
  <2> QED BY DEF Line, InLine, HasRequest, ToRetry, Elements
<1>34. ASSUME NEW w \in Nodes, SkipTest(w)  PROVE Line'
  <2> USE <1>34 DEF SkipTest, central, work, gate, line, nodes, process, outcome
  <2> QED BY DEF Line, InLine, HasRequest, ToRetry, Elements
<1>35. ASSUME NEW w \in Nodes, FinishTest(w)  PROVE Line'
  <2> USE <1>35 DEF FinishTest, central, work, gate, line, nodes, process, outcome
  <2> QED BY DEF Line, InLine, HasRequest, ToRetry, Elements
<1>36. ASSUME NEW w \in Nodes, Ask(w)  PROVE Line'
  <2> USE <1>36 DEF Ask, central, work, gate, line, nodes, process, outcome
  <2> QED BY DEF Line, InLine, HasRequest, ToRetry, Elements
<1>37. ASSUME NEW w \in Nodes, GiveUp(w)  PROVE Line'
  <2> USE <1>37 DEF GiveUp, central, work, gate, line, nodes, process, outcome
  <2> QED BY DEF Line, InLine, HasRequest, ToRetry, Elements
<1>38. ASSUME NEW w \in Nodes, GrantArrives(w)  PROVE Line'
  <2> USE <1>38 DEF GrantArrives, central, work, gate, line, nodes, process, outcome
  <2> QED BY DEF Line, InLine, HasRequest, ToRetry, Elements
<1>39. ASSUME NEW w \in Nodes, NEW reached \in BOOLEAN, GoOn(w, reached)  PROVE Line'
  <2> USE <1>39 DEF GoOn, central, work, gate, line, nodes, process, outcome
  <2> QED BY DEF Line, InLine, HasRequest, ToRetry, Elements
<1>40. ASSUME NEW w \in Nodes, Exit(w)  PROVE Line'
  <2> USE <1>40 DEF Exit, Leave, central, work, gate, line, nodes, process, outcome
  <2> QED BY DEF Line, InLine, HasRequest, ToRetry, Elements
<1>41. ASSUME NEW w \in Nodes, Crash(w)  PROVE Line'
  <2> USE <1>41 DEF Crash, Leave, central, work, gate, line, nodes, process, outcome
  <2> QED BY DEF Line, InLine, HasRequest, ToRetry, Elements
<1>42. ASSUME UNCHANGED vars  PROVE Line'
  <2>1. UNCHANGED <<todo, requests, queue, registered, told, waiting, ask>>
    BY <1>42 DEF vars, nodes, work, line
  <2>2. QED BY <2>1 DEF Line, InLine, HasRequest, ToRetry, Elements
<1>43. /\ AtOp("fill") => Head(todo).out \in Seq(Tests)
       /\ AtOp("replan") => Head(todo).tests \in SUBSET Tests
  BY StackMoves, CallFields DEF Typed, AtOp
<1>44. ASSUME NEW w \in Nodes, AtOp("fill"), Filler(w, Head(todo).out)  PROVE Line'
  BY <1>44, <1>43, <1>2, <1>3, <1>4, <1>5, <1>6 DEF Filler
<1>45. ASSUME NEW w \in Nodes, Common(w)  PROVE Line'
  BY <1>45, <1>8, <1>9, <1>10,
     <1>19, <1>20, <1>23, <1>25, <1>26,
     <1>29, <1>30, <1>31,
     <1>21, <1>15, <1>18, <1>16, <1>17 DEF Common
<1>46. ASSUME Anywhere  PROVE Line'
  BY <1>46, <1>43, <1>11, <1>12, <1>13, <1>14, <1>27
  DEF Anywhere
<1>47. ASSUME Controller  PROVE Line'
  BY <1>47, <1>44, <1>45, <1>46, <1>1, <1>7, <1>22, <1>24, <1>28
  DEF Controller
<1>48. ASSUME NEW w \in Nodes, Worker(w)  PROVE Line'
  BY <1>48, <1>32, <1>33, <1>34, <1>35, <1>40, <1>36, <1>38, <1>39 DEF Worker
<1>49. QED BY <1>42, <1>47, <1>48, <1>37, <1>41 DEF Next, Stopped

(* At the start nobody waits.                                              *)
LEMMA LineInit == Init => Line
<1>1. ASSUME Init, NEW w \in Nodes  PROVE InLine(w)
  <2>1. waiting = <<>> /\ ask[w] = 0 /\ requests[w] = NoRequest
    BY <1>1 DEF Init, Start
  <2>2. Elements(waiting) = {}
    BY <2>1 DEF Elements
  <2>3. QED BY <2>1, <2>2 DEF InLine, HasRequest
<1>2. QED BY <1>1 DEF Line

(* The inductive invariant. The parts lean on each other: the line on the  *)
(* requests being the workers' own (Asked), that on the reservation of a   *)
(* blocked worker never being raised for its queue (Supplied), and both on *)
(* a node introducing itself once (New).                                   *)
Settling == LineShape /\ Priced /\ Asked /\ Supplied /\ New /\ Line

(* The scheduler's two lines, its requests and its reservations agree with *)
(* the workers' permits and with what is on its way, at every moment of    *)
(* every session: for any tests, fixtures, budget, limit moves, crashes    *)
(* and restarts.                                                           *)
THEOREM AlwaysSettling == Spec => []Settling
<1>1. Init => Settling
  BY LineShapeInit, PricedInit, AskedInit, SuppliedInit, NewInit, LineInit DEF Settling
<1>2. Typed /\ Shape /\ Consistent /\ Settling /\ [Next]_vars => Settling'
  <2>1. ASSUME Typed, Shape, Consistent, Settling, [Next]_vars  PROVE Settling'
    <3>1. LineShape /\ Priced /\ Asked /\ Supplied /\ New /\ Line
      BY <2>1 DEF Settling
    <3>2. LineShape' /\ Priced' /\ New'
      BY <2>1, <3>1, LineShapeStep, PricedStep, NewStep
    <3>3. Asked' /\ Supplied' /\ Line'
      BY <2>1, <3>1, AskedStep, SuppliedStep, LineStep
    <3>4. QED BY <3>2, <3>3 DEF Settling
  <2>2. QED BY <2>1
<1>3. QED BY <1>1, <1>2, AlwaysTyped, AlwaysShape, AlwaysConsistent, PTL DEF Spec

(* A worker that waits without a request has at most one test: it has gone *)
(* on to nothing, as it runs a test only when it knows the next one.       *)
LEMMA WaitersAreBlocked ==
  ASSUME Typed, Consistent, Settling
  PROVE  WaitersBlocked
<1>1. LineShape /\ Asked /\ Supplied /\ Line /\ ProcessTyped /\ NodesTyped /\ ChannelsTyped
  BY DEF Settling, Typed
<1>2. ASSUME NEW w \in Nodes, w \in Elements(waiting)  PROVE using[w] <= Idling
  <2>1. SUFFICES ASSUME using[w] > Idling  PROVE FALSE
    <3>1. using[w] \in Nat \cup {Asking}
      BY <1>1 DEF ProcessTyped
    <3>2. QED BY <2>1, <3>1 DEF Asking, Idling
  <2>2. w \notin down /\ permit[w].state = NotAsking
    BY <1>1, <2>1, FreeWorker
  <2>3. ~HasRequest(w)
    BY <1>1, <2>2, UnaskedWhenFree DEF Asked, AskedBy, Unasked
  <2>4. Len(queue[w]) <= 1 /\ (w \in told => queue[w] = <<>>)
    BY <1>1, <1>2, <2>3 DEF Line, InLine
  <2>5. inbox[w] \in Seq(Tests) /\ inbox[w] # <<>> /\ queue[w] \in Seq(Tests)
    BY <1>1, <2>1 DEF ProcessTyped, Idling, Typed, WorkTyped
  <2>6. Distinct(inbox[w]) /\ Elements(inbox[w]) \subseteq Elements(queue[w])
    BY <2>2 DEF Consistent, ChannelAgrees, Agrees
  <2>7. w \notin told
    <3>1. inbox[w][1] \in Elements(queue[w])
      BY <2>5, <2>6 DEF Elements
    <3>2. QED BY <2>4, <3>1 DEF Elements
  <2>8. Len(inbox[w]) > 1
    BY <1>1, <2>1, <2>7 DEF Asked, AskedBy, Idling
  <2>9. 1 \in DOMAIN inbox[w] /\ 2 \in DOMAIN inbox[w] /\ 1 # 2
    BY <2>5, <2>8
  <2>10. inbox[w][1] # inbox[w][2]
    BY <2>6, <2>9 DEF Distinct
  <2>11. PICK i \in DOMAIN queue[w], j \in DOMAIN queue[w] :
           queue[w][i] = inbox[w][1] /\ queue[w][j] = inbox[w][2]
    BY <2>6, <2>9 DEF Elements
  <2>12. i = 1 /\ j = 1
    BY <2>4, <2>5, <2>11
  <2>13. QED BY <2>10, <2>11, <2>12
<1>3. ASSUME todo = <<>>, NEW w \in Nodes, HasRequest(w)
      PROVE  w \in Elements(waiting) /\ ask[w] > 0
  BY <1>1, <1>3 DEF Line, InLine, ToRetry
<1>4. QED BY <1>1, <1>2, <1>3 DEF WaitersBlocked, Line, InLine

(* Nobody holds a place in line while it runs: whoever is pledged slots    *)
(* has a test to run and is known as waiting, whoever waits is idle or     *)
(* blocked in a request, and when a handler is done every request kept     *)
(* stands in both lines, so that there is someone left to answer it.       *)
THEOREM WaitersAlwaysBlocked == Spec => []WaitersBlocked
<1>1. Typed /\ Consistent /\ Settling => WaitersBlocked
  BY WaitersAreBlocked
<1>2. QED BY <1>1, AlwaysTyped, AlwaysConsistent, AlwaysSettling, PTL

-----------------------------------------------------------------------------
(* The workers that crashed.                                               *)
Dead  == {w \in Nodes : status[w] = "dead"}

(* Those whose crash the scheduler has heard of: nothing of them is left   *)
(* in the channel.                                                         *)
Heard == {w \in Dead : events[w] = <<>>}

(* None of these calls replaces a crashed worker.                          *)
NoRestart(s) == \A j \in DOMAIN s : s[j].op # "restart"

(* A crashed worker is replaced at the end of a handler.                   *)
RestartLast == \A j \in DOMAIN todo : todo[j].op = "restart" => j = Len(todo) - 1

(* No more failures are counted than crashes the scheduler has heard of,   *)
(* the replacement about to be made among them, and no more workers crash  *)
(* than may.                                                               *)
Counted ==
  /\ RestartLast
  /\ Cardinality(Dead) <= MaxCrashes
  /\ session.failures + (IF NoRestart(todo) THEN 0 ELSE 1) <= Cardinality(Heard)

(* The handler in progress is still to remove the node.                    *)
ToRemove(w) == \E j \in DOMAIN todo : todo[j] = Remove(w)

(* The last word of a worker that is down is that it finished or went      *)
(* down; and when that was taken the node is gone, or about to be.         *)
Ended(w) ==
  /\ w \in down /\ events[w] # <<>> => Kind(w, Len(events[w])) \in {"finished", "down"}
  /\ w \in down /\ events[w] = <<>> /\ w \in registered => ToRemove(w)

(* So for every node.                                                      *)
Buried == \A w \in Nodes : Ended(w)

(* Both sets of workers are finite.                                        *)
LEMMA DeadFinite == IsFiniteSet(Dead) /\ IsFiniteSet(Heard) /\ Heard \subseteq Dead
<1>1. Dead \subseteq Nodes /\ Heard \subseteq Dead
  BY DEF Dead, Heard
<1>2. QED BY <1>1, NodesFinite, FS_Subset

(* Their numbers.                                                          *)
LEMMA DeadTyped ==
  /\ Cardinality(Dead) \in Nat /\ Cardinality(Heard) \in Nat
  /\ Cardinality(Heard) <= Cardinality(Dead)
BY DeadFinite, FS_CardinalityType, FS_Subset

(* Where the replacement stands after calls are put before others.         *)
LEMMA RestartsCalled ==
  ASSUME NEW a \in Seq(Calls), NEW s \in Seq(Calls), NoRestart(a)
  PROVE  /\ NoRestart(s) => NoRestart(a \o s)
         /\ \A j \in DOMAIN (a \o s) : (a \o s)[j].op = "restart" =>
              j - Len(a) \in DOMAIN s /\ s[j - Len(a)].op = "restart"
         /\ Len(a \o s) = Len(a) + Len(s) /\ Len(a) \in Nat /\ Len(s) \in Nat
<1>1. \A j \in DOMAIN (a \o s) : \/ j \in DOMAIN a /\ (a \o s)[j] = a[j]
                                 \/ j - Len(a) \in DOMAIN s /\ (a \o s)[j] = s[j - Len(a)]
  OBVIOUS
<1>2. Len(a \o s) = Len(a) + Len(s) /\ Len(a) \in Nat /\ Len(s) \in Nat
  OBVIOUS
<1>3. QED BY <1>1, <1>2 DEF NoRestart

(* Where it stands when the first call returns: nowhere, if that was it.   *)
LEMMA RestartsLeft ==
  ASSUME StackTyped, todo # <<>>, RestartLast
  PROVE  /\ NoRestart(todo) => NoRestart(Tail(todo))
         /\ \A j \in DOMAIN Tail(todo) : Tail(todo)[j].op = "restart" => j = Len(Tail(todo)) - 1
         /\ Head(todo).op = "restart" => NoRestart(Tail(todo)) /\ ~NoRestart(todo)
<1>1. /\ todo \in Seq(Calls) /\ Len(Tail(todo)) = Len(todo) - 1 /\ Len(todo) \in Nat
      /\ Head(todo) = todo[1] /\ 1 \in DOMAIN todo
  BY DEF StackTyped
<1>2. \A j \in DOMAIN Tail(todo) : j \in Nat /\ j >= 1 /\ j + 1 \in DOMAIN todo
                                   /\ Tail(todo)[j] = todo[j + 1]
  BY <1>1
<1>3. NoRestart(todo) => NoRestart(Tail(todo))
  BY <1>2 DEF NoRestart
<1>4. \A j \in DOMAIN Tail(todo) : Tail(todo)[j].op = "restart" => j = Len(Tail(todo)) - 1
  BY <1>1, <1>2 DEF RestartLast
<1>5. ASSUME Head(todo).op = "restart"  PROVE NoRestart(Tail(todo)) /\ ~NoRestart(todo)
  <2>1. 1 = Len(todo) - 1
    BY <1>1, <1>5 DEF RestartLast
  <2>2. ASSUME NEW j \in DOMAIN Tail(todo), Tail(todo)[j].op = "restart"  PROVE FALSE
    <3>1. j = Len(Tail(todo)) - 1
      BY <1>4, <2>2
    <3>2. j \in Nat /\ j >= 1
      BY <1>2
    <3>3. QED BY <1>1, <2>1, <3>1, <3>2
  <2>3. QED BY <1>1, <1>5, <2>2 DEF NoRestart
<1>6. QED BY <1>3, <1>4, <1>5

(* A return, or calls that replace nobody, leave it at the end of the      *)
(* handler.                                                                *)
LEMMA RestartsStay ==
  ASSUME StackTyped, todo # <<>>, RestartLast,
         Return \/ \E a \in Seq(Calls) : NoRestart(a) /\ Call(a)
  PROVE  /\ NoRestart(todo) => NoRestart(todo)'
         /\ Head(todo).op = "restart" => NoRestart(todo)' /\ ~NoRestart(todo)
         /\ RestartLast'
<1>1. Tail(todo) \in Seq(Calls)
  BY DEF StackTyped
<1>2. CASE Return
  BY <1>2, RestartsLeft DEF Return, RestartLast
<1>3. ASSUME NEW a \in Seq(Calls), NoRestart(a), Call(a)
      PROVE  /\ NoRestart(todo) => NoRestart(todo)'
             /\ Head(todo).op = "restart" => NoRestart(todo)' /\ ~NoRestart(todo)
             /\ RestartLast'
  <2> DEFINE s == Tail(todo)
  <2>1. todo' = a \o s
    BY <1>3 DEF Call
  <2>2. /\ NoRestart(s) => NoRestart(a \o s)
        /\ \A j \in DOMAIN (a \o s) : (a \o s)[j].op = "restart" =>
              j - Len(a) \in DOMAIN s /\ s[j - Len(a)].op = "restart"
        /\ Len(a \o s) = Len(a) + Len(s) /\ Len(a) \in Nat /\ Len(s) \in Nat
    BY <1>1, <1>3, RestartsCalled
  <2>3. ASSUME NEW j \in DOMAIN (a \o s), (a \o s)[j].op = "restart"
        PROVE  j = Len(a \o s) - 1
    <3>1. j - Len(a) = Len(s) - 1
      BY <2>2, <2>3, RestartsLeft
    <3>2. j \in Int
      <4>1. a \o s \in Seq(Calls)
        BY <1>1
      <4>2. QED BY <4>1
    <3>3. QED BY <2>2, <3>1, <3>2
  <2>4. RestartLast'
    BY <2>1, <2>3 DEF RestartLast
  <2>5. QED BY <2>1, <2>2, <2>4, RestartsLeft
<1>4. QED BY <1>2, <1>3

(* A call that replaces nobody keeps the count.                            *)
LEMMA CountedCalled ==
  ASSUME Counted, StackTyped, NodesTyped, todo # <<>>, UNCHANGED <<status, events, session>>,
         Return \/ \E a \in Seq(Calls) : NoRestart(a) /\ Call(a)
  PROVE  Counted'
<1>1. NoRestart(todo) => NoRestart(todo)'
  BY RestartsStay DEF Counted
<1>2. RestartLast'
  BY RestartsStay DEF Counted
<1>3. Dead' = Dead /\ Heard' = Heard
  BY DEF Dead, Heard
<1>4. session.failures \in Nat /\ Cardinality(Heard) \in Nat
  BY DeadTyped DEF NodesTyped
<1>5. session'.failures + (IF NoRestart(todo)' THEN 0 ELSE 1) <= Cardinality(Heard)'
  BY <1>1, <1>3, <1>4 DEF Counted
<1>6. QED BY <1>2, <1>3, <1>5 DEF Counted

(* So does a living worker that posts a message.                           *)
LEMMA CountedPosted ==
  ASSUME Counted, NodesTyped, UNCHANGED <<todo, session>>, NEW w \in Nodes,
         status[w] # "dead", status'[w] # "dead",
         \A v \in Nodes : v # w => status'[v] = status[v] /\ events'[v] = events[v]
  PROVE  Counted'
<1>1. Dead' = Dead /\ Heard' = Heard
  BY DEF Dead, Heard
<1>2. QED BY <1>1 DEF Counted, RestartLast

(* And so does taking a message: it makes no fewer crashes heard of.       *)
LEMMA CountedTaken ==
  ASSUME Counted, NodesTyped, NEW w \in Nodes, NEW kind, Takes(w, kind),
         UNCHANGED <<status, session>>,
         NoRestart(todo')
  PROVE  Counted'
<1>1. Dead' = Dead /\ Heard \subseteq Heard'
  <2>1. \A v \in Nodes : events[v] = <<>> => events'[v] = <<>>
    BY DEF Takes
  <2>2. QED BY <2>1 DEF Dead, Heard
<1>2. IsFiniteSet(Heard')
  BY <1>1, DeadFinite, FS_Subset DEF Heard
<1>3. Cardinality(Heard) <= Cardinality(Heard') /\ Cardinality(Heard') \in Nat
  BY <1>1, <1>2, FS_Subset, FS_CardinalityType
<1>4. session.failures \in Nat /\ Cardinality(Heard) \in Nat /\ NoRestart(todo)
  <2>1. todo = <<>>
    BY DEF Takes
  <2>2. NoRestart(todo)
    BY <2>1 DEF NoRestart
  <2>3. QED BY <2>2, DeadTyped DEF NodesTyped
<1>5. session'.failures + (IF NoRestart(todo)' THEN 0 ELSE 1) <= Cardinality(Heard)'
  BY <1>3, <1>4 DEF Counted
<1>6. RestartLast'
  BY DEF NoRestart, RestartLast
<1>7. QED BY <1>1, <1>5, <1>6 DEF Counted

(* The loops over nodes replace nobody.                                    *)
LEMMA CallsWithoutRestart ==
  ASSUME NEW s \in Seq(Nodes)
  PROVE  /\ NoRestart(Each(Check, s)) /\ NoRestart(Each(Stop, s)) /\ NoRestart(Each(Visit, s))
         /\ NoRestart(Append(Each(Check, s), Loop)) /\ NoRestart(Append(Each(Visit, s), Stalls))
<1>1. /\ Each(Check, s) \in Seq(Calls) /\ Each(Stop, s) \in Seq(Calls)
      /\ Each(Visit, s) \in Seq(Calls)
      /\ Loop \in Calls /\ Stalls \in Calls
  BY CallsInOrder, OtherCalls
<1>2. NoRestart(Each(Check, s)) /\ NoRestart(Each(Stop, s)) /\ NoRestart(Each(Visit, s))
  BY DEF NoRestart, Each, Check, Stop, Visit, Retry
<1>3. ASSUME NEW a \in Seq(Calls), NEW c \in Calls, NoRestart(a), c.op # "restart"
      PROVE  NoRestart(Append(a, c))
  <2>1. \A j \in DOMAIN Append(a, c) : \/ j \in DOMAIN a /\ Append(a, c)[j] = a[j]
                                       \/ Append(a, c)[j] = c
    OBVIOUS
  <2>2. QED BY <1>3, <2>1 DEF NoRestart
<1>4. Loop.op # "restart" /\ Stalls.op # "restart"
  BY DEF Loop, Stalls
<1>5. QED BY <1>1, <1>2, <1>3, <1>4

(* Nor do one or two calls that are no replacement.                        *)
LEMMA FewCalls ==
  ASSUME NEW c \in Calls, NEW d \in Calls, c.op # "restart", d.op # "restart"
  PROVE  /\ <<c>> \in Seq(Calls) /\ <<c, d>> \in Seq(Calls)
         /\ NoRestart(<<c>>) /\ NoRestart(<<c, d>>) /\ NoRestart(<<>>)
<1>1. /\ \A j \in DOMAIN <<c>> : <<c>>[j] = c
      /\ \A j \in DOMAIN <<c, d>> : <<c, d>>[j] \in {c, d}
  OBVIOUS
<1>2. <<c>> \in Seq(Calls) /\ <<c, d>> \in Seq(Calls)
  BY CallLists
<1>3. QED BY <1>1, <1>2 DEF NoRestart

(* A channel something was posted to is not empty.                         *)
LEMMA OneMessage ==
  ASSUME NEW s \in Seq(Mail), NEW m
  PROVE  s \o <<m>> # <<>>
OBVIOUS

(* Every step keeps the count: a failure is counted for a crash the        *)
(* scheduler has just heard of, and each worker crashes once.              *)
LEMMA CountedStep ==
  ASSUME Typed, Shape, Counted, [Next]_vars
  PROVE  Counted'
<1>1. ASSUME NEW w \in Nodes, CheckSchedule(w)  PROVE Counted'
  <2> USE <1>1 DEF CheckSchedule, still, work, gate, line, nodes, process, outcome
  <2>1. todo # <<>>
    BY DEF At, Filling, Forceable, Standstill
  <2>2. UNCHANGED <<status, events, session>>
    BY DEF CompleteRequest
  <2>3. Return \/ \E a \in Seq(Calls) : NoRestart(a) /\ Call(a)
    <3>1. <<>> \in Seq(Tests)
      OBVIOUS
    <3>2. /\ Fill(w, <<>>) \in Calls /\ Fill(w, <<>>).op # "restart"
          /\ Rest(w) \in Calls /\ Rest(w).op # "restart"
      BY <3>1, CallsOfNodes DEF Fill, Rest
    <3>3. /\ <<Rest(w)>> \in Seq(Calls) /\ <<Fill(w, <<>>), Rest(w)>> \in Seq(Calls)
          /\ NoRestart(<<Rest(w)>>) /\ NoRestart(<<Fill(w, <<>>), Rest(w)>>)
      BY <3>2, FewCalls
    <3>4. CASE ShuttingDown(w)
      BY <3>4
    <3>5. CASE ~ShuttingDown(w) /\ Low(w)
      <4>1. Call(<<Fill(w, <<>>), Rest(w)>>)
        BY <3>5 DEF Call
      <4>2. QED BY <3>3, <4>1
    <3>6. CASE ~ShuttingDown(w) /\ ~Low(w)
      <4>1. Call(<<Rest(w)>>)
        BY <3>6 DEF Call
      <4>2. QED BY <3>3, <4>1
    <3>7. QED BY <3>4, <3>5, <3>6
  <2>4. QED BY <2>1, <2>2, <2>3, CountedCalled DEF Typed
<1>2. ASSUME NEW w \in Nodes, NEW out \in Seq(Tests), NEW t \in Tests,
         FillDispatch(w, out, t)
  PROVE Counted'
  <2> USE <1>2 DEF FillDispatch, still, work, gate, line, nodes, process, outcome
  <2>1. todo # <<>>
    BY DEF At, Filling, Forceable, Standstill
  <2>2. UNCHANGED <<status, events, session>>
    BY DEF CompleteRequest
  <2>3. Return \/ \E a \in Seq(Calls) : NoRestart(a) /\ Call(a)
    <3>1. Append(out, t) \in Seq(Tests)
      OBVIOUS
    <3>2. Fill(w, Append(out, t)) \in Calls /\ Fill(w, Append(out, t)).op # "restart"
      BY <3>1, CallsOfNodes DEF Fill
    <3>3. <<Fill(w, Append(out, t))>> \in Seq(Calls) /\ NoRestart(<<Fill(w, Append(out, t))>>)
      BY <3>2, FewCalls
    <3>4. QED BY <3>3
  <2>4. QED BY <2>1, <2>2, <2>3, CountedCalled DEF Typed
<1>3. ASSUME NEW w \in Nodes, NEW out \in Seq(Tests), NEW donor \in Nodes,
         NEW chunk \in SUBSET pending,
         FillBorrow(w, out, donor, chunk)
  PROVE Counted'
  <2> USE <1>3 DEF FillBorrow, still, work, gate, line, nodes, process, outcome
  <2> QED BY DEF Counted, RestartLast, NoRestart, Dead, Heard
<1>4. ASSUME NEW w \in Nodes, NEW out \in Seq(Tests), FillDone(w, out)  PROVE Counted'
  <2> USE <1>4 DEF FillDone, still, work, gate, line, nodes, process, outcome
  <2>1. todo # <<>>
    BY DEF At, Filling, Forceable, Standstill
  <2>2. UNCHANGED <<status, events, session>>
    BY DEF CompleteRequest
  <2>3. Return \/ \E a \in Seq(Calls) : NoRestart(a) /\ Call(a)
    BY DEF Send
  <2>4. QED BY <2>1, <2>2, <2>3, CountedCalled DEF Typed
<1>5. ASSUME NEW w \in Nodes, NEW out \in Seq(Tests), FillBlocked(w, out)  PROVE Counted'
  <2> USE <1>5 DEF FillBlocked, still, work, gate, line, nodes, process, outcome
  <2>1. todo # <<>>
    BY DEF At, Filling, Forceable, Standstill
  <2>2. UNCHANGED <<status, events, session>>
    BY DEF CompleteRequest
  <2>3. Return \/ \E a \in Seq(Calls) : NoRestart(a) /\ Call(a)
    BY DEF Send
  <2>4. QED BY <2>1, <2>2, <2>3, CountedCalled DEF Typed
<1>6. ASSUME NEW w \in Nodes, NEW out \in Seq(Tests), FillRefused(w, out)  PROVE Counted'
  <2> USE <1>6 DEF FillRefused, still, work, gate, line, nodes, process, outcome
  <2>1. todo # <<>>
    BY DEF At, Filling, Forceable, Standstill
  <2>2. UNCHANGED <<status, events, session>>
    BY DEF CompleteRequest
  <2>3. Return \/ \E a \in Seq(Calls) : NoRestart(a) /\ Call(a)
    BY DEF Send
  <2>4. QED BY <2>1, <2>2, <2>3, CountedCalled DEF Typed
<1>7. ASSUME NEW w \in Nodes, CheckRest(w)  PROVE Counted'
  <2> USE <1>7 DEF CheckRest, still, work, gate, line, nodes, process, outcome
  <2>1. todo # <<>>
    BY DEF At, Filling, Forceable, Standstill
  <2>2. UNCHANGED <<status, events, session>>
    BY DEF CompleteRequest
  <2>3. Return \/ \E a \in Seq(Calls) : NoRestart(a) /\ Call(a)
    <3>1. Shutdown(w) \in Calls /\ Shutdown(w).op # "restart"
      BY CallsOfNodes DEF Shutdown
    <3>2. <<Shutdown(w)>> \in Seq(Calls) /\ NoRestart(<<Shutdown(w)>>)
      BY <3>1, FewCalls
    <3>3. QED BY <3>2
  <2>4. QED BY <2>1, <2>2, <2>3, CountedCalled DEF Typed
<1>8. ASSUME NEW w \in Nodes, ShutdownRefused(w)  PROVE Counted'
  <2> USE <1>8 DEF ShutdownRefused, still, work, gate, line, nodes, process, outcome
  <2>1. todo # <<>>
    BY DEF At, Filling, Forceable, Standstill
  <2>2. UNCHANGED <<status, events, session>>
    BY DEF CompleteRequest
  <2>3. Return \/ \E a \in Seq(Calls) : NoRestart(a) /\ Call(a)
    OBVIOUS
  <2>4. QED BY <2>1, <2>2, <2>3, CountedCalled DEF Typed
<1>9. ASSUME NEW w \in Nodes, ShutdownSent(w)  PROVE Counted'
  <2> USE <1>9 DEF ShutdownSent, still, work, gate, line, nodes, process, outcome
  <2>1. todo # <<>>
    BY DEF At, Filling, Forceable, Standstill
  <2>2. UNCHANGED <<status, events, session>>
    BY DEF CompleteRequest
  <2>3. Return \/ \E a \in Seq(Calls) : NoRestart(a) /\ Call(a)
    <3>1. Replan(plan[w]) \in Calls /\ Replan(plan[w]).op # "restart"
      BY OtherCalls DEF Replan, Typed, WorkTyped
    <3>2. <<Replan(plan[w])>> \in Seq(Calls) /\ NoRestart(<<Replan(plan[w])>>)
      BY <3>1, FewCalls
    <3>3. QED BY <3>2
  <2>4. QED BY <2>1, <2>2, <2>3, CountedCalled DEF Typed
<1>10. ASSUME NEW w \in Nodes, ShutdownAgain(w)  PROVE Counted'
  <2> USE <1>10 DEF ShutdownAgain, still, work, gate, line, nodes, process, outcome
  <2>1. todo # <<>>
    BY DEF At, Filling, Forceable, Standstill
  <2>2. UNCHANGED <<status, events, session>>
    BY DEF CompleteRequest
  <2>3. Return \/ \E a \in Seq(Calls) : NoRestart(a) /\ Call(a)
    OBVIOUS
  <2>4. QED BY <2>1, <2>2, <2>3, CountedCalled DEF Typed
<1>11. ASSUME NEW S \in SUBSET Tests, ReplanTests(S)  PROVE Counted'
  <2> USE <1>11 DEF ReplanTests, still, work, gate, line, nodes, process, outcome
  <2>1. todo # <<>>
    BY DEF At, Filling, Forceable, Standstill
  <2>2. UNCHANGED <<status, events, session>>
    BY DEF CompleteRequest
  <2>3. Return \/ \E a \in Seq(Calls) : NoRestart(a) /\ Call(a)
    <3>1. ASSUME NEW order \in Orders(registered), Call(Each(Check, order))
          PROVE  \E a \in Seq(Calls) : NoRestart(a) /\ Call(a)
      <4>1. order \in Seq(Nodes)
        BY RegisteredInOrder DEF Typed, NodesTyped
      <4>2. QED BY <3>1, <4>1, CallsInOrder, CallsWithoutRestart
    <3>2. QED BY <3>1
  <2>4. QED BY <2>1, <2>2, <2>3, CountedCalled DEF Typed
<1>12. ASSUME AdmitWaiting  PROVE Counted'
  <2> USE <1>12 DEF AdmitWaiting, still, work, gate, line, nodes, process, outcome
  <2>1. todo # <<>>
    BY DEF At, Filling, Forceable, Standstill
  <2>2. UNCHANGED <<status, events, session>>
    BY DEF CompleteRequest
  <2>3. Return \/ \E a \in Seq(Calls) : NoRestart(a) /\ Call(a)
    <3>1. waiting \in Seq(Nodes)
      BY DEF Typed, NodesTyped
    <3>2. Each(Visit, waiting) \in Seq(Calls) /\ Stalls \in Calls
      BY <3>1, CallsInOrder, OtherCalls
    <3>3. Append(Each(Visit, waiting), Stalls) \in Seq(Calls)
      BY <3>2
    <3>4. NoRestart(Append(Each(Visit, waiting), Stalls))
      BY <3>1, CallsWithoutRestart
    <3>5. QED BY <3>3, <3>4
  <2>4. QED BY <2>1, <2>2, <2>3, CountedCalled DEF Typed
<1>13. ASSUME ResolveNothing  PROVE Counted'
  <2> USE <1>13 DEF ResolveNothing, still, work, gate, line, nodes, process, outcome
  <2>1. todo # <<>>
    BY DEF At, Filling, Forceable, Standstill
  <2>2. UNCHANGED <<status, events, session>>
    BY DEF CompleteRequest
  <2>3. Return \/ \E a \in Seq(Calls) : NoRestart(a) /\ Call(a)
    OBVIOUS
  <2>4. QED BY <2>1, <2>2, <2>3, CountedCalled DEF Typed
<1>14. ASSUME ResolveParked  PROVE Counted'
  <2> USE <1>14 DEF ResolveParked, still, work, gate, line, nodes, process, outcome
  <2>1. todo # <<>>
    BY DEF At, Filling, Forceable, Standstill
  <2>2. UNCHANGED <<status, events, session>>
    BY DEF CompleteRequest
  <2>3. Return \/ \E a \in Seq(Calls) : NoRestart(a) /\ Call(a)
    <3>1. PICK i \in Candidates : Call(<<Shutdown(waiting[i])>>)
      OBVIOUS
    <3>2. waiting[i] \in Nodes
      BY DEF Candidates, Typed, NodesTyped
    <3>3. Shutdown(waiting[i]) \in Calls /\ Shutdown(waiting[i]).op # "restart"
      BY <3>2, CallsOfNodes DEF Shutdown
    <3>4. QED BY <3>1, <3>3, FewCalls
  <2>4. QED BY <2>1, <2>2, <2>3, CountedCalled DEF Typed
<1>15. ASSUME NEW w \in Nodes, ResolveForce(w)  PROVE Counted'
  <2> USE <1>15 DEF ResolveForce, still, work, gate, line, nodes, process, outcome
  <2>1. todo # <<>>
    BY DEF At, Filling, Forceable, Standstill
  <2>2. UNCHANGED <<status, events, session>>
    BY DEF CompleteRequest
  <2>3. Return \/ \E a \in Seq(Calls) : NoRestart(a) /\ Call(a)
    <3>1. Check(w) \in Calls /\ Check(w).op # "restart"
      BY CallsOfNodes DEF Check
    <3>2. <<Check(w)>> \in Seq(Calls) /\ NoRestart(<<Check(w)>>)
      BY <3>1, FewCalls
    <3>3. QED BY <3>2
  <2>4. QED BY <2>1, <2>2, <2>3, CountedCalled DEF Typed
<1>16. ASSUME NEW w \in Nodes, NEW release \in BOOLEAN, RetryGranted(w, release)  PROVE Counted'
  <2> USE <1>16 DEF RetryGranted, still, work, gate, line, nodes, process, outcome
  <2>1. todo # <<>>
    BY DEF At, Filling, Forceable, Standstill
  <2>2. UNCHANGED <<status, events, session>>
    BY DEF CompleteRequest
  <2>3. Return \/ \E a \in Seq(Calls) : NoRestart(a) /\ Call(a)
    OBVIOUS
  <2>4. QED BY <2>1, <2>2, <2>3, CountedCalled DEF Typed
<1>17. ASSUME NEW w \in Nodes, NEW release \in BOOLEAN, RetryRefused(w, release)  PROVE Counted'
  <2> USE <1>17 DEF RetryRefused, still, work, gate, line, nodes, process, outcome
  <2>1. todo # <<>>
    BY DEF At, Filling, Forceable, Standstill
  <2>2. UNCHANGED <<status, events, session>>
    BY DEF CompleteRequest
  <2>3. Return \/ \E a \in Seq(Calls) : NoRestart(a) /\ Call(a)
    <3>1. Admit \in Calls /\ Admit.op # "restart"
      BY OtherCalls DEF Admit
    <3>2. <<Admit>> \in Seq(Calls) /\ NoRestart(<<Admit>>)
      BY <3>1, FewCalls
    <3>3. QED BY <3>2
  <2>4. QED BY <2>1, <2>2, <2>3, CountedCalled DEF Typed
<1>18. ASSUME NEW w \in Nodes, ResolveForceRequest(w)  PROVE Counted'
  <2> USE <1>18 DEF ResolveForceRequest, still, work, gate, line, nodes, process, outcome
  <2>1. todo # <<>>
    BY DEF At, Filling, Forceable, Standstill
  <2>2. UNCHANGED <<status, events, session>>
    BY DEF CompleteRequest
  <2>3. Return \/ \E a \in Seq(Calls) : NoRestart(a) /\ Call(a)
    OBVIOUS
  <2>4. QED BY <2>1, <2>2, <2>3, CountedCalled DEF Typed
<1>19. ASSUME NEW w \in Nodes, Completed(w)  PROVE Counted'
  <2> USE <1>19 DEF Completed, still, work, gate, line, nodes, process, outcome
  <2>1. Takes(w, "complete") /\ UNCHANGED <<status, session>>
    OBVIOUS
  <2>2. NoRestart(todo')
    BY DEF NoRestart, Admit, Check, Loop
  <2>3. QED BY <2>1, <2>2, CountedTaken DEF Typed
<1>20. ASSUME NEW w \in Nodes, HoldsChanged(w)  PROVE Counted'
  <2> USE <1>20 DEF HoldsChanged, still, work, gate, line, nodes, process, outcome
  <2>1. Takes(w, "holds") /\ UNCHANGED <<status, session>>
    OBVIOUS
  <2>2. NoRestart(todo')
    <3>1. todo' = <<>>
      BY DEF Takes
    <3>2. QED BY <3>1 DEF NoRestart
  <2>3. QED BY <2>1, <2>2, CountedTaken DEF Typed
<1>21. ASSUME NEW w \in Nodes, Requested(w)  PROVE Counted'
  <2> USE <1>21 DEF Requested, still, work, gate, line, nodes, process, outcome
  <2>1. Takes(w, "request") /\ UNCHANGED <<status, session>>
    OBVIOUS
  <2>2. NoRestart(todo')
    <3>1. todo' = <<Loop>> \/ todo' = <<Retry(w, TRUE), Loop>>
      OBVIOUS
    <3>2. QED BY <3>1 DEF NoRestart, Loop, Retry
  <2>3. QED BY <2>1, <2>2, CountedTaken DEF Typed
<1>22. ASSUME NEW w \in Nodes, Crashed(w)  PROVE Counted'
  <2> USE <1>22 DEF Crashed, RemoveNode, ReleaseRuntime, still, work, gate, line, nodes,
      process, outcome
  <2>1. Kind(w, 1) = "down" /\ 1 \in DOMAIN events[w]
    BY NextMail DEF Takes, Typed
  <2>2. status[w] = "dead" /\ 1 = Len(events[w])
    BY <2>1 DEF Shape, ChannelEnds
  <2>3. events[w] # <<>> /\ events'[w] = <<>> /\ \A v \in Nodes : v # w => events'[v] = events[v]
    BY <2>1, <2>2 DEF Takes, Typed, ChannelsTyped
  <2>4. Dead' = Dead /\ Heard' = Heard \cup {w} /\ w \notin Heard
    BY <2>2, <2>3 DEF Dead, Heard
  <2>5. Cardinality(Heard') = Cardinality(Heard) + 1 /\ Cardinality(Heard) \in Nat
    BY <2>4, DeadFinite, DeadTyped, FS_AddElement
  <2>6. todo = <<>> /\ NoRestart(todo) /\ session.failures \in Nat
    <3>1. todo = <<>>
      BY DEF Takes
    <3>2. QED BY <3>1 DEF NoRestart, Typed, NodesTyped
  <2>7. session'.failures + (IF NoRestart(todo)' THEN 0 ELSE 1) <= Cardinality(Heard)'
    BY <2>5, <2>6 DEF Counted
  <2>8. RestartLast'
    BY DEF RestartLast, RemoveCalls, Replan, Admit, Restart, Loop
  <2>9. QED BY <2>4, <2>7, <2>8 DEF Counted
<1>23. ASSUME NEW w \in Nodes, Finished(w)  PROVE Counted'
  <2> USE <1>23 DEF Finished, still, work, gate, line, nodes, process, outcome
  <2>1. Takes(w, "finished") /\ UNCHANGED <<status, session>>
    OBVIOUS
  <2>2. NoRestart(todo')
    BY DEF NoRestart, Loop, Admit, Remove
  <2>3. QED BY <2>1, <2>2, CountedTaken DEF Typed
<1>24. ASSUME NEW w \in Nodes, FinishedRemove(w)  PROVE Counted'
  <2> USE <1>24 DEF FinishedRemove, RemoveNode, ReleaseRuntime, still, work, gate, line, nodes,
      process, outcome
  <2>1. todo # <<>>
    BY DEF At
  <2>2. UNCHANGED <<status, events, session>>
    OBVIOUS
  <2>3. Return \/ \E a \in Seq(Calls) : NoRestart(a) /\ Call(a)
    <3>1. RemoveCalls(w) \in Seq(Calls)
      BY RemoveCallsTyped DEF Typed
    <3>2. NoRestart(RemoveCalls(w))
      BY DEF NoRestart, RemoveCalls, Replan, Admit
    <3>3. QED BY <3>1, <3>2
  <2>4. QED BY <2>1, <2>2, <2>3, CountedCalled DEF Typed
<1>25. ASSUME NEW w \in Nodes, Ready(w)  PROVE Counted'
  <2> USE <1>25 DEF Ready, still, work, gate, line, nodes, process, outcome
  <2>1. Takes(w, "ready") /\ UNCHANGED <<status, session>>
    OBVIOUS
  <2>2. NoRestart(todo')
    BY DEF NoRestart, Loop
  <2>3. QED BY <2>1, <2>2, CountedTaken DEF Typed
<1>26. ASSUME NEW w \in Nodes, Collected(w)  PROVE Counted'
  <2> USE <1>26 DEF Collected, still, work, gate, line, nodes, process, outcome
  <2>1. Takes(w, "collected") /\ UNCHANGED <<status, session>>
    OBVIOUS
  <2>2. NoRestart(todo')
    <3>1. CASE todo' = <<Loop>> \/ todo' = <<Replan(Orphans), Loop>>
      BY <3>1 DEF NoRestart, Loop, Replan
    <3>2. ASSUME NEW order \in Orders(registered), todo' = Append(Each(Check, order), Loop)
          PROVE  NoRestart(todo')
      <4>1. order \in Seq(Nodes)
        BY RegisteredInOrder DEF Typed, NodesTyped
      <4>2. QED BY <3>2, <4>1, CallsWithoutRestart
    <3>3. QED BY <3>1, <3>2
  <2>3. QED BY <2>1, <2>2, CountedTaken DEF Typed
<1>27. ASSUME RestartNode  PROVE Counted'
  <2> USE <1>27 DEF RestartNode, still, work, gate, line, nodes, process, outcome
  <2>1. todo # <<>> /\ StackTyped
    BY DEF At, Typed
  <2>2. Return \/ \E a \in Seq(Calls) : NoRestart(a) /\ Call(a)
    <3>1. ASSUME NEW order \in Orders(registered), Call(Each(Stop, order))
          PROVE  \E a \in Seq(Calls) : NoRestart(a) /\ Call(a)
      <4>1. order \in Seq(Nodes)
        BY RegisteredInOrder DEF Typed, NodesTyped
      <4>2. QED BY <3>1, <4>1, CallsInOrder, CallsWithoutRestart
    <3>2. QED BY <3>1 DEF TriggerShutdown
  <2>3. /\ NoRestart(todo) => NoRestart(todo)'
        /\ Head(todo).op = "restart" => NoRestart(todo)' /\ ~NoRestart(todo)
        /\ RestartLast'
    BY <2>1, <2>2, RestartsStay DEF Counted
  <2>4. NoRestart(todo)' /\ ~NoRestart(todo)
    BY <2>3 DEF At, Restart
  <2>5. Dead' = Dead /\ Heard' = Heard
    <3>1. UNCHANGED events /\ status \in [Nodes -> {"absent", "booting", "up", "exited", "dead"}]
      BY DEF Typed, ProcessTyped
    <3>2. \A v \in Nodes : status'[v] = "dead" <=> status[v] = "dead"
      BY <3>1
    <3>3. QED BY <3>1, <3>2 DEF Dead, Heard
  <2>6. session.failures \in Nat /\ session'.failures = session.failures + 1
    <3>1. session \in [stopping : BOOLEAN, failures : Nat]
      BY DEF Typed, NodesTyped
    <3>2. CASE session.failures + 1 > MaxRestarts
      <4>1. TriggerShutdown([session EXCEPT !.failures = session.failures + 1])
        BY <3>2
      <4>2. [session EXCEPT !.failures = session.failures + 1].failures = session.failures + 1
        BY <3>1
      <4>3. QED BY <3>1, <4>1, <4>2 DEF TriggerShutdown
    <3>3. CASE ~(session.failures + 1 > MaxRestarts)
      BY <3>1, <3>3
    <3>4. QED BY <3>1, <3>2, <3>3
  <2>7. Cardinality(Heard) \in Nat
    BY DeadTyped
  <2>8. QED BY <2>3, <2>4, <2>5, <2>6, <2>7 DEF Counted
<1>28. ASSUME LoopOnce  PROVE Counted'
  <2> USE <1>28 DEF LoopOnce, still, work, gate, line, nodes, process, outcome
  <2>1. todo # <<>> /\ StackTyped
    BY DEF At, Typed
  <2>2. Return \/ \E a \in Seq(Calls) : NoRestart(a) /\ Call(a)
    <3>1. ASSUME NEW order \in Orders(registered), Call(Each(Stop, order))
          PROVE  \E a \in Seq(Calls) : NoRestart(a) /\ Call(a)
      <4>1. order \in Seq(Nodes)
        BY RegisteredInOrder DEF Typed, NodesTyped
      <4>2. QED BY <3>1, <4>1, CallsInOrder, CallsWithoutRestart
    <3>2. QED BY <3>1 DEF TriggerShutdown
  <2>3. /\ NoRestart(todo) => NoRestart(todo)'
        /\ Head(todo).op = "restart" => NoRestart(todo)' /\ ~NoRestart(todo)
        /\ RestartLast'
    BY <2>1, <2>2, RestartsStay DEF Counted
  <2>4. Dead' = Dead /\ Heard' = Heard
    BY DEF Dead, Heard
  <2>5. session.failures \in Nat /\ session'.failures = session.failures
    BY DEF TriggerShutdown, Typed, NodesTyped
  <2>6. Cardinality(Heard) \in Nat
    BY DeadTyped
  <2>7. session'.failures + (IF NoRestart(todo)' THEN 0 ELSE 1) <= Cardinality(Heard)'
    BY <2>3, <2>4, <2>5, <2>6 DEF Counted
  <2>8. QED BY <2>3, <2>4, <2>7 DEF Counted
<1>29. ASSUME NEW w \in Nodes, StopGranted(w)  PROVE Counted'
  <2> USE <1>29 DEF StopGranted, still, work, gate, line, nodes, process, outcome
  <2>1. todo # <<>>
    BY DEF At, Filling, Forceable, Standstill
  <2>2. UNCHANGED <<status, events, session>>
    BY DEF CompleteRequest
  <2>3. Return \/ \E a \in Seq(Calls) : NoRestart(a) /\ Call(a)
    OBVIOUS
  <2>4. QED BY <2>1, <2>2, <2>3, CountedCalled DEF Typed
<1>30. ASSUME NEW w \in Nodes, StopBlocked(w)  PROVE Counted'
  <2> USE <1>30 DEF StopBlocked, still, work, gate, line, nodes, process, outcome
  <2>1. todo # <<>>
    BY DEF At, Filling, Forceable, Standstill
  <2>2. UNCHANGED <<status, events, session>>
    BY DEF CompleteRequest
  <2>3. Return \/ \E a \in Seq(Calls) : NoRestart(a) /\ Call(a)
    OBVIOUS
  <2>4. QED BY <2>1, <2>2, <2>3, CountedCalled DEF Typed
<1>31. ASSUME NEW w \in Nodes, StopWithdraws(w)  PROVE Counted'
  <2> USE <1>31 DEF StopWithdraws, still, work, gate, line, nodes, process, outcome
  <2>1. todo # <<>>
    BY DEF At, Filling, Forceable, Standstill
  <2>2. UNCHANGED <<status, events, session>>
    BY DEF CompleteRequest
  <2>3. Return \/ \E a \in Seq(Calls) : NoRestart(a) /\ Call(a)
    OBVIOUS
  <2>4. QED BY <2>1, <2>2, <2>3, CountedCalled DEF Typed
<1>32. ASSUME NEW w \in Nodes, Boot(w)  PROVE Counted'
  <2> USE <1>32 DEF Boot, central, work, gate, line, nodes, process, outcome
  <2>1. status[w] # "dead" /\ status'[w] # "dead"
    BY DEF Typed, ProcessTyped
  <2>2. \A v \in Nodes : v # w => status'[v] = status[v] /\ events'[v] = events[v]
    BY DEF Post
  <2>3. QED BY <2>1, <2>2, CountedPosted DEF Typed
<1>33. ASSUME NEW w \in Nodes, StartTest(w)  PROVE Counted'
  <2> USE <1>33 DEF StartTest, central, work, gate, line, nodes, process, outcome
  <2>1. status[w] # "dead" /\ status'[w] # "dead"
    BY DEF MayStart
  <2>2. \A v \in Nodes : v # w => status'[v] = status[v] /\ events'[v] = events[v]
    BY DEF Post
  <2>3. QED BY <2>1, <2>2, CountedPosted DEF Typed
<1>34. ASSUME NEW w \in Nodes, SkipTest(w)  PROVE Counted'
  <2> USE <1>34 DEF SkipTest, central, work, gate, line, nodes, process, outcome
  <2>1. status[w] # "dead" /\ status'[w] # "dead"
    BY DEF MayStart
  <2>2. \A v \in Nodes : v # w => status'[v] = status[v] /\ events'[v] = events[v]
    BY DEF Post
  <2>3. QED BY <2>1, <2>2, CountedPosted DEF Typed
<1>35. ASSUME NEW w \in Nodes, FinishTest(w)  PROVE Counted'
  <2> USE <1>35 DEF FinishTest, central, work, gate, line, nodes, process, outcome
  <2>1. status[w] # "dead" /\ status'[w] # "dead"
    <3>1. ProcessTyped /\ using[w] \in Nat \cup {Asking} /\ permit[w] \in PermitRecords
      BY DEF Typed, ProcessTyped
    <3>2. using[w] # Idling
      BY <3>1 DEF Idling, Asking
    <3>3. status[w] = "up"
      BY <3>1, <3>2 DEF ProcessTyped
    <3>4. QED BY <3>3
  <2>2. \A v \in Nodes : v # w => status'[v] = status[v] /\ events'[v] = events[v]
    BY DEF Post
  <2>3. QED BY <2>1, <2>2, CountedPosted DEF Typed
<1>36. ASSUME NEW w \in Nodes, Ask(w)  PROVE Counted'
  <2> USE <1>36 DEF Ask, central, work, gate, line, nodes, process, outcome
  <2>1. status[w] # "dead" /\ status'[w] # "dead"
    <3>1. ProcessTyped /\ using[w] \in Nat \cup {Asking} /\ permit[w] \in PermitRecords
      BY DEF Typed, ProcessTyped
    <3>2. using[w] # Idling
      BY <3>1 DEF Idling, Asking
    <3>3. status[w] = "up"
      BY <3>1, <3>2 DEF ProcessTyped
    <3>4. QED BY <3>3
  <2>2. \A v \in Nodes : v # w => status'[v] = status[v] /\ events'[v] = events[v]
    BY DEF Post
  <2>3. QED BY <2>1, <2>2, CountedPosted DEF Typed
<1>37. ASSUME NEW w \in Nodes, GiveUp(w)  PROVE Counted'
  <2> USE <1>37 DEF GiveUp, central, work, gate, line, nodes, process, outcome
  <2>1. status[w] # "dead" /\ status'[w] # "dead"
    <3>1. ProcessTyped /\ using[w] \in Nat \cup {Asking} /\ permit[w] \in PermitRecords
      BY DEF Typed, ProcessTyped
    <3>2. using[w] # Idling
      BY <3>1 DEF ProcessTyped, PermitRecords, NotAsking, Idling, Asking
    <3>3. status[w] = "up"
      BY <3>1, <3>2 DEF ProcessTyped
    <3>4. QED BY <3>3
  <2>2. \A v \in Nodes : v # w => status'[v] = status[v] /\ events'[v] = events[v]
    BY DEF Post
  <2>3. QED BY <2>1, <2>2, CountedPosted DEF Typed
<1>38. ASSUME NEW w \in Nodes, GrantArrives(w)  PROVE Counted'
  <2> USE <1>38 DEF GrantArrives, central, work, gate, line, nodes, process, outcome
  <2> QED BY DEF Counted, RestartLast, NoRestart, Dead, Heard
<1>39. ASSUME NEW w \in Nodes, NEW reached \in BOOLEAN, GoOn(w, reached)  PROVE Counted'
  <2> USE <1>39 DEF GoOn, central, work, gate, line, nodes, process, outcome
  <2>1. status[w] # "dead" /\ status'[w] # "dead"
    <3>1. ProcessTyped /\ using[w] \in Nat \cup {Asking} /\ permit[w] \in PermitRecords
      BY DEF Typed, ProcessTyped
    <3>2. using[w] # Idling
      <4>1. permit[w].granted
        OBVIOUS
      <4>2. permit[w].state # NotAsking
        BY <3>1, <4>1 DEF PermitRecords, NotAsking
      <4>3. using[w] = Asking
        BY <3>1, <4>2 DEF ProcessTyped
      <4>4. QED BY <4>3 DEF Idling, Asking
    <3>3. status[w] = "up"
      BY <3>1, <3>2 DEF ProcessTyped
    <3>4. QED BY <3>3
  <2>2. \A v \in Nodes : v # w => status'[v] = status[v] /\ events'[v] = events[v]
    BY DEF Post
  <2>3. QED BY <2>1, <2>2, CountedPosted DEF Typed
<1>40. ASSUME NEW w \in Nodes, Exit(w)  PROVE Counted'
  <2> USE <1>40 DEF Exit, Leave, central, work, gate, line, nodes, process, outcome
  <2>1. status[w] # "dead" /\ status'[w] # "dead"
    BY DEF Leave, Typed, ProcessTyped
  <2>2. \A v \in Nodes : v # w => status'[v] = status[v] /\ events'[v] = events[v]
    BY DEF Leave, Post
  <2>3. QED BY <2>1, <2>2, CountedPosted DEF Typed
<1>41. ASSUME NEW w \in Nodes, Crash(w)  PROVE Counted'
  <2> USE <1>41 DEF Crash, Leave, central, work, gate, line, nodes, process, outcome
  <2>1. status[w] # "dead" /\ status' = [status EXCEPT ![w] = "dead"]
                           /\ Post(w, <<<<"down", 0>>>>)
    BY DEF Leave
  <2>2. events'[w] # <<>> /\ \A v \in Nodes : v # w => events'[v] = events[v]
    BY <2>1, OneMessage DEF Post, Typed, ChannelsTyped
  <2>3. Dead' = Dead \cup {w} /\ w \notin Dead /\ Heard' = Heard
    BY <2>1, <2>2 DEF Dead, Heard, Typed, ProcessTyped
  <2>4. Cardinality(Dead') = Cardinality(Dead) + 1 /\ Cardinality(Dead) \in Nat
                                                   /\ MaxCrashes \in Nat
    BY <2>3, DeadFinite, DeadTyped, FS_AddElement, CrashesAssumption
  <2>5. Cardinality(Dead) < MaxCrashes
    BY DEF Dead
  <2>6. QED BY <2>3, <2>4, <2>5 DEF Counted, RestartLast, Leave
<1>42. ASSUME UNCHANGED vars  PROVE Counted'
  BY <1>42 DEF vars, process, Counted, RestartLast, NoRestart, Dead, Heard
<1>43. /\ AtOp("fill") => Head(todo).out \in Seq(Tests)
       /\ AtOp("replan") => Head(todo).tests \in SUBSET Tests
  BY StackMoves, CallFields DEF Typed, AtOp
<1>44. ASSUME NEW w \in Nodes, AtOp("fill"), Filler(w, Head(todo).out)  PROVE Counted'
  BY <1>44, <1>43, <1>2, <1>3, <1>4, <1>5, <1>6 DEF Filler
<1>45. ASSUME NEW w \in Nodes, Common(w)  PROVE Counted'
  BY <1>45, <1>8, <1>9, <1>10,
     <1>19, <1>20, <1>23, <1>25, <1>26,
     <1>29, <1>30, <1>31,
     <1>21, <1>15, <1>18, <1>16, <1>17 DEF Common
<1>46. ASSUME Anywhere  PROVE Counted'
  BY <1>46, <1>43, <1>11, <1>12, <1>13, <1>14, <1>27
  DEF Anywhere
<1>47. ASSUME Controller  PROVE Counted'
  BY <1>47, <1>44, <1>45, <1>46, <1>1, <1>7, <1>22, <1>24, <1>28
  DEF Controller
<1>48. ASSUME NEW w \in Nodes, Worker(w)  PROVE Counted'
  BY <1>48, <1>32, <1>33, <1>34, <1>35, <1>40, <1>36, <1>38, <1>39 DEF Worker
<1>49. QED BY <1>42, <1>47, <1>48, <1>37, <1>41 DEF Next, Stopped

(* At the start nobody has crashed.                                        *)
LEMMA CountedInit == Init => Counted
<1>1. ASSUME Init  PROVE Counted
  <2>1. Dead = {} /\ Heard = {} /\ session.failures = 0
    BY <1>1 DEF Init, Start, Dead, Heard
  <2>2. todo = <<Replan(Tests), Loop>>
    BY <1>1 DEF Init
  <2>3. NoRestart(todo) /\ RestartLast
    BY <2>2 DEF NoRestart, RestartLast, Replan, Loop
  <2>4. Cardinality(Dead) = 0 /\ Cardinality(Heard) = 0
    BY <2>1, FS_EmptySet
  <2>5. QED BY <2>1, <2>3, <2>4, CrashesAssumption DEF Counted
<1>2. QED BY <1>1

(* A step that leaves the nodes and their channels alone keeps them        *)
(* buried, unless it drops a removal.                                      *)
LEMMA BuriedStays ==
  ASSUME Buried, UNCHANGED <<registered, down>>,
         \A v \in Nodes : events'[v] = events[v],
         \A v \in Nodes : ToRemove(v) => ToRemove(v)'
  PROVE  Buried'
BY DEF Buried, Ended, Kind

(* A removal that is not the first call is still to be made after the      *)
(* first.                                                                  *)
LEMMA RemovalsStay ==
  ASSUME StackTyped, todo # <<>>, NEW w \in Nodes, ToRemove(w), Head(todo) # Remove(w),
         Return \/ \E a \in Seq(Calls) : Call(a)
  PROVE  ToRemove(w)'
<1>1. todo \in Seq(Calls) /\ Tail(todo) \in Seq(Calls)
  BY DEF StackTyped
<1>2. PICK j \in DOMAIN todo : todo[j] = Remove(w)
  BY DEF ToRemove
<1>3. j # 1
  BY <1>1, <1>2
<1>4. j - 1 \in DOMAIN Tail(todo) /\ Tail(todo)[j - 1] = Remove(w)
  BY <1>1, <1>2, <1>3
<1>5. CASE Return
  BY <1>4, <1>5 DEF Return, ToRemove
<1>6. ASSUME NEW a \in Seq(Calls), Call(a)  PROVE ToRemove(w)'
  <2> DEFINE s == Tail(todo)
             k == j - 1
  <2>1. s \in Seq(Calls) /\ k \in DOMAIN s /\ s[k] = Remove(w) /\ todo' = a \o s
    BY <1>1, <1>4, <1>6 DEF Call
  <2> HIDE DEF s, k
  <2>2. k + Len(a) \in DOMAIN (a \o s) /\ (a \o s)[k + Len(a)] = s[k]
    BY <2>1
  <2>3. QED BY <2>1, <2>2 DEF ToRemove
<1>7. QED BY <1>5, <1>6

(* So a call that is no removal keeps the nodes buried.                    *)
LEMMA BuriedCalled ==
  ASSUME Buried, StackTyped, UNCHANGED <<registered, down, events>>, todo # <<>>,
         Return \/ \E a \in Seq(Calls) : Call(a), Head(todo).op # "remove"
  PROVE  Buried'
<1>1. \A v \in Nodes : ToRemove(v) => ToRemove(v)'
  <2>1. \A v \in Nodes : Head(todo) # Remove(v)
    BY DEF Remove
  <2>2. QED BY <2>1, RemovalsStay
<1>2. QED BY <1>1, BuriedStays

(* A sequence is empty exactly when its length is zero.                    *)
LEMMA NoLength ==
  ASSUME NEW S, NEW s \in Seq(S)
  PROVE  s = <<>> <=> Len(s) = 0
OBVIOUS

(* Taking the only message of a channel empties it, and taking one of      *)
(* several leaves the last.                                                *)
LEMMA TailOnly ==
  ASSUME NEW s \in Seq(Mail), s # <<>>
  PROVE  /\ Len(s) = 1 => Tail(s) = <<>>
         /\ Len(s) # 1 => /\ Tail(s) # <<>> /\ Len(Tail(s)) \in Nat
                          /\ Tail(s)[Len(Tail(s))] = s[Len(s)]
<1>1. Len(s) \in Nat /\ Len(s) # 0
  OBVIOUS
<1>2. Tail(s) \in Seq(Mail) /\ Len(Tail(s)) = Len(s) - 1
  BY <1>1
<1>3. CASE Len(s) = 1
  <2>1. Len(Tail(s)) = 0
    BY <1>2, <1>3
  <2>2. Tail(s) = <<>>
    BY <1>2, <2>1, NoLength
  <2>3. QED BY <1>3, <2>2
<1>4. CASE Len(s) # 1
  <2>1. Len(Tail(s)) \in Nat /\ Len(Tail(s)) >= 1 /\ Len(Tail(s)) # 0
    BY <1>1, <1>2, <1>4
  <2>2. Tail(s) # <<>>
    BY ONLY <1>2, <2>1, NoLength
  <2>3. \A j \in 1 .. Len(Tail(s)) : Tail(s)[j] = s[j + 1]
    BY <1>1, <1>2
  <2>4. Tail(s)[Len(Tail(s))] = s[Len(Tail(s)) + 1]
    BY <2>1, <2>3
  <2>5. Len(Tail(s)) + 1 = Len(s)
    BY <1>1, <1>2
  <2>6. QED BY <1>4, <2>1, <2>2, <2>4, <2>5
<1>5. QED BY <1>3, <1>4

(* So does taking a message: what is not the last leaves the last, and who *)
(* takes the last buries the node.                                         *)
LEMMA BuriedTaken ==
  ASSUME Buried, ChannelsTyped, ChannelEnds, NEW w \in Nodes, NEW kind, Takes(w, kind),
         UNCHANGED down,
         registered' \subseteq registered \cup {w},
         kind \in {"finished", "down"} => w \notin registered' \/ ToRemove(w)'
  PROVE  Buried'
<1>1. \A v \in Nodes : ~ToRemove(v)
  <2>1. todo = <<>>
    BY DEF Takes
  <2>2. QED BY <2>1 DEF ToRemove
<1>2. ASSUME NEW v \in Nodes, v # w  PROVE Ended(v)'
  <2>1. events'[v] = events[v]
    BY <1>2 DEF Takes
  <2>2. v \in registered' => v \in registered
    BY <1>2
  <2>3. QED BY <1>1, <1>2, <2>1, <2>2 DEF Buried, Ended, Kind
<1>3. Ended(w)'
  <2>1. events[w] \in Seq(Mail) /\ events[w] # <<>> /\ events'[w] = Tail(events[w])
        /\ Kind(w, 1) = kind /\ 1 \in DOMAIN events[w]
    BY DEF Takes, ChannelsTyped, Kind
  <2>2. CASE Len(events[w]) = 1
    <3>1. events'[w] = <<>>
      BY <2>1, <2>2, TailOnly
    <3>2. w \in down => kind \in {"finished", "down"}
      BY <2>1, <2>2 DEF Buried, Ended
    <3>3. QED BY <3>1, <3>2 DEF Ended
  <2>3. CASE Len(events[w]) # 1
    <3>1. /\ events'[w] # <<>> /\ Len(events'[w]) \in Nat
          /\ events'[w][Len(events'[w])] = events[w][Len(events[w])]
      BY <2>1, <2>3, TailOnly
    <3>2. QED BY <2>1, <3>1 DEF Buried, Ended, Kind
  <2>4. QED BY <2>2, <2>3
<1>4. QED BY <1>2, <1>3 DEF Buried

(* Whoever posts is not down, or is by its last message.                   *)
LEMMA BuriedPosted ==
  ASSUME Buried, NEW w \in Nodes, UNCHANGED <<todo, registered>>, w \notin down,
         \A v \in Nodes : v # w => events'[v] = events[v] /\ (v \in down' <=> v \in down),
         \/ w \notin down'
         \/ events'[w] # <<>> /\ Kind(w, Len(events[w]))' \in {"finished", "down"}
  PROVE  Buried'
BY DEF Buried, Ended, Kind, ToRemove

(* What is posted is the last message.                                     *)
LEMMA LastMessage ==
  ASSUME NEW s \in Seq(Mail), NEW m
  PROVE  s \o <<m>> # <<>> /\ (s \o <<m>>)[Len(s \o <<m>>)] = m
OBVIOUS

(* Every step keeps the nodes buried: none is forgotten when its last      *)
(* message is taken.                                                       *)
LEMMA BuriedStep ==
  ASSUME Typed, Shape, Counted, Buried, [Next]_vars
  PROVE  Buried'
<1>1. ASSUME NEW w \in Nodes, CheckSchedule(w)  PROVE Buried'
  <2> USE <1>1 DEF CheckSchedule, still, work, gate, line, nodes, process, outcome
  <2>1. todo # <<>> /\ Head(todo).op # "remove"
    BY DEF At, Check
  <2>2. UNCHANGED <<registered, down, events>>
    BY DEF CompleteRequest
  <2>3. Return \/ \E a \in Seq(Calls) : Call(a)
    <3>1. <<>> \in Seq(Tests)
      OBVIOUS
    <3>2. /\ Fill(w, <<>>) \in Calls /\ Fill(w, <<>>).op # "restart"
          /\ Rest(w) \in Calls /\ Rest(w).op # "restart"
      BY <3>1, CallsOfNodes DEF Fill, Rest
    <3>3. /\ <<Rest(w)>> \in Seq(Calls) /\ <<Fill(w, <<>>), Rest(w)>> \in Seq(Calls)
          /\ NoRestart(<<Rest(w)>>) /\ NoRestart(<<Fill(w, <<>>), Rest(w)>>)
      BY <3>2, FewCalls
    <3>4. CASE ShuttingDown(w)
      BY <3>4
    <3>5. CASE ~ShuttingDown(w) /\ Low(w)
      <4>1. Call(<<Fill(w, <<>>), Rest(w)>>)
        BY <3>5 DEF Call
      <4>2. QED BY <3>3, <4>1
    <3>6. CASE ~ShuttingDown(w) /\ ~Low(w)
      <4>1. Call(<<Rest(w)>>)
        BY <3>6 DEF Call
      <4>2. QED BY <3>3, <4>1
    <3>7. QED BY <3>4, <3>5, <3>6
  <2>4. QED BY <2>1, <2>2, <2>3, BuriedCalled DEF Typed
<1>2. ASSUME NEW w \in Nodes, NEW out \in Seq(Tests), NEW t \in Tests,
         FillDispatch(w, out, t)
  PROVE Buried'
  <2> USE <1>2 DEF FillDispatch, still, work, gate, line, nodes, process, outcome
  <2>1. todo # <<>> /\ Head(todo).op # "remove"
    BY DEF At, Filling, Fill
  <2>2. UNCHANGED <<registered, down, events>>
    BY DEF CompleteRequest
  <2>3. Return \/ \E a \in Seq(Calls) : Call(a)
    <3>1. Append(out, t) \in Seq(Tests)
      OBVIOUS
    <3>2. Fill(w, Append(out, t)) \in Calls /\ Fill(w, Append(out, t)).op # "restart"
      BY <3>1, CallsOfNodes DEF Fill
    <3>3. <<Fill(w, Append(out, t))>> \in Seq(Calls) /\ NoRestart(<<Fill(w, Append(out, t))>>)
      BY <3>2, FewCalls
    <3>4. QED BY <3>3
  <2>4. QED BY <2>1, <2>2, <2>3, BuriedCalled DEF Typed
<1>3. ASSUME NEW w \in Nodes, NEW out \in Seq(Tests), NEW donor \in Nodes,
         NEW chunk \in SUBSET pending,
         FillBorrow(w, out, donor, chunk)
  PROVE Buried'
  <2> USE <1>3 DEF FillBorrow, still, work, gate, line, nodes, process, outcome
  <2> QED BY DEF Buried, Ended, Kind, ToRemove
<1>4. ASSUME NEW w \in Nodes, NEW out \in Seq(Tests), FillDone(w, out)  PROVE Buried'
  <2> USE <1>4 DEF FillDone, still, work, gate, line, nodes, process, outcome
  <2>1. todo # <<>> /\ Head(todo).op # "remove"
    BY DEF At, Filling, Fill
  <2>2. UNCHANGED <<registered, down, events>>
    BY DEF CompleteRequest
  <2>3. Return \/ \E a \in Seq(Calls) : Call(a)
    BY DEF Send
  <2>4. QED BY <2>1, <2>2, <2>3, BuriedCalled DEF Typed
<1>5. ASSUME NEW w \in Nodes, NEW out \in Seq(Tests), FillBlocked(w, out)  PROVE Buried'
  <2> USE <1>5 DEF FillBlocked, still, work, gate, line, nodes, process, outcome
  <2>1. todo # <<>> /\ Head(todo).op # "remove"
    BY DEF At, Filling, Fill
  <2>2. UNCHANGED <<registered, down, events>>
    BY DEF CompleteRequest
  <2>3. Return \/ \E a \in Seq(Calls) : Call(a)
    BY DEF Send
  <2>4. QED BY <2>1, <2>2, <2>3, BuriedCalled DEF Typed
<1>6. ASSUME NEW w \in Nodes, NEW out \in Seq(Tests), FillRefused(w, out)  PROVE Buried'
  <2> USE <1>6 DEF FillRefused, still, work, gate, line, nodes, process, outcome
  <2>1. todo # <<>> /\ Head(todo).op # "remove"
    BY DEF At, Filling, Fill
  <2>2. UNCHANGED <<registered, down, events>>
    BY DEF CompleteRequest
  <2>3. Return \/ \E a \in Seq(Calls) : Call(a)
    BY DEF Send
  <2>4. QED BY <2>1, <2>2, <2>3, BuriedCalled DEF Typed
<1>7. ASSUME NEW w \in Nodes, CheckRest(w)  PROVE Buried'
  <2> USE <1>7 DEF CheckRest, still, work, gate, line, nodes, process, outcome
  <2>1. todo # <<>> /\ Head(todo).op # "remove"
    BY DEF At, Rest
  <2>2. UNCHANGED <<registered, down, events>>
    BY DEF CompleteRequest
  <2>3. Return \/ \E a \in Seq(Calls) : Call(a)
    <3>1. Shutdown(w) \in Calls /\ Shutdown(w).op # "restart"
      BY CallsOfNodes DEF Shutdown
    <3>2. <<Shutdown(w)>> \in Seq(Calls) /\ NoRestart(<<Shutdown(w)>>)
      BY <3>1, FewCalls
    <3>3. QED BY <3>2
  <2>4. QED BY <2>1, <2>2, <2>3, BuriedCalled DEF Typed
<1>8. ASSUME NEW w \in Nodes, ShutdownRefused(w)  PROVE Buried'
  <2> USE <1>8 DEF ShutdownRefused, still, work, gate, line, nodes, process, outcome
  <2>1. todo # <<>> /\ Head(todo).op # "remove"
    BY DEF At, Shutdown
  <2>2. UNCHANGED <<registered, down, events>>
    BY DEF CompleteRequest
  <2>3. Return \/ \E a \in Seq(Calls) : Call(a)
    OBVIOUS
  <2>4. QED BY <2>1, <2>2, <2>3, BuriedCalled DEF Typed
<1>9. ASSUME NEW w \in Nodes, ShutdownSent(w)  PROVE Buried'
  <2> USE <1>9 DEF ShutdownSent, still, work, gate, line, nodes, process, outcome
  <2>1. todo # <<>> /\ Head(todo).op # "remove"
    BY DEF At, Shutdown
  <2>2. UNCHANGED <<registered, down, events>>
    BY DEF CompleteRequest
  <2>3. Return \/ \E a \in Seq(Calls) : Call(a)
    <3>1. Replan(plan[w]) \in Calls /\ Replan(plan[w]).op # "restart"
      BY OtherCalls DEF Replan, Typed, WorkTyped
    <3>2. <<Replan(plan[w])>> \in Seq(Calls) /\ NoRestart(<<Replan(plan[w])>>)
      BY <3>1, FewCalls
    <3>3. QED BY <3>2
  <2>4. QED BY <2>1, <2>2, <2>3, BuriedCalled DEF Typed
<1>10. ASSUME NEW w \in Nodes, ShutdownAgain(w)  PROVE Buried'
  <2> USE <1>10 DEF ShutdownAgain, still, work, gate, line, nodes, process, outcome
  <2>1. todo # <<>> /\ Head(todo).op # "remove"
    BY DEF At, Shutdown
  <2>2. UNCHANGED <<registered, down, events>>
    BY DEF CompleteRequest
  <2>3. Return \/ \E a \in Seq(Calls) : Call(a)
    OBVIOUS
  <2>4. QED BY <2>1, <2>2, <2>3, BuriedCalled DEF Typed
<1>11. ASSUME NEW S \in SUBSET Tests, ReplanTests(S)  PROVE Buried'
  <2> USE <1>11 DEF ReplanTests, still, work, gate, line, nodes, process, outcome
  <2>1. todo # <<>> /\ Head(todo).op # "remove"
    <3>1. todo # <<>> /\ Head(todo) = Replan(S)
      BY DEF At
    <3>2. QED BY <3>1 DEF Replan
  <2>2. UNCHANGED <<registered, down, events>>
    BY DEF CompleteRequest
  <2>3. Return \/ \E a \in Seq(Calls) : Call(a)
    <3>1. ASSUME NEW order \in Orders(registered), Call(Each(Check, order))
          PROVE  \E a \in Seq(Calls) : Call(a)
      <4>1. order \in Seq(Nodes)
        BY RegisteredInOrder DEF Typed, NodesTyped
      <4>2. QED BY <3>1, <4>1, CallsInOrder, CallsWithoutRestart
    <3>2. QED BY <3>1
  <2>4. QED BY <2>1, <2>2, <2>3, BuriedCalled DEF Typed
<1>12. ASSUME AdmitWaiting  PROVE Buried'
  <2> USE <1>12 DEF AdmitWaiting, still, work, gate, line, nodes, process, outcome
  <2>1. todo # <<>> /\ Head(todo).op # "remove"
    BY DEF At, Admit
  <2>2. UNCHANGED <<registered, down, events>>
    BY DEF CompleteRequest
  <2>3. Return \/ \E a \in Seq(Calls) : Call(a)
    <3>1. waiting \in Seq(Nodes)
      BY DEF Typed, NodesTyped
    <3>2. Each(Visit, waiting) \in Seq(Calls) /\ Stalls \in Calls
      BY <3>1, CallsInOrder, OtherCalls
    <3>3. Append(Each(Visit, waiting), Stalls) \in Seq(Calls)
      BY <3>2
    <3>4. NoRestart(Append(Each(Visit, waiting), Stalls))
      BY <3>1, CallsWithoutRestart
    <3>5. QED BY <3>3, <3>4
  <2>4. QED BY <2>1, <2>2, <2>3, BuriedCalled DEF Typed
<1>13. ASSUME ResolveNothing  PROVE Buried'
  <2> USE <1>13 DEF ResolveNothing, still, work, gate, line, nodes, process, outcome
  <2>1. todo # <<>> /\ Head(todo).op # "remove"
    BY DEF At, Stalls
  <2>2. UNCHANGED <<registered, down, events>>
    BY DEF CompleteRequest
  <2>3. Return \/ \E a \in Seq(Calls) : Call(a)
    OBVIOUS
  <2>4. QED BY <2>1, <2>2, <2>3, BuriedCalled DEF Typed
<1>14. ASSUME ResolveParked  PROVE Buried'
  <2> USE <1>14 DEF ResolveParked, still, work, gate, line, nodes, process, outcome
  <2>1. todo # <<>> /\ Head(todo).op # "remove"
    BY DEF At, Standstill, Stalls
  <2>2. UNCHANGED <<registered, down, events>>
    BY DEF CompleteRequest
  <2>3. Return \/ \E a \in Seq(Calls) : Call(a)
    <3>1. PICK i \in Candidates : Call(<<Shutdown(waiting[i])>>)
      OBVIOUS
    <3>2. waiting[i] \in Nodes
      BY DEF Candidates, Typed, NodesTyped
    <3>3. Shutdown(waiting[i]) \in Calls /\ Shutdown(waiting[i]).op # "restart"
      BY <3>2, CallsOfNodes DEF Shutdown
    <3>4. QED BY <3>1, <3>3, FewCalls
  <2>4. QED BY <2>1, <2>2, <2>3, BuriedCalled DEF Typed
<1>15. ASSUME NEW w \in Nodes, ResolveForce(w)  PROVE Buried'
  <2> USE <1>15 DEF ResolveForce, still, work, gate, line, nodes, process, outcome
  <2>1. todo # <<>> /\ Head(todo).op # "remove"
    BY DEF At, Forceable, Standstill, Stalls
  <2>2. UNCHANGED <<registered, down, events>>
    BY DEF CompleteRequest
  <2>3. Return \/ \E a \in Seq(Calls) : Call(a)
    <3>1. Check(w) \in Calls /\ Check(w).op # "restart"
      BY CallsOfNodes DEF Check
    <3>2. <<Check(w)>> \in Seq(Calls) /\ NoRestart(<<Check(w)>>)
      BY <3>1, FewCalls
    <3>3. QED BY <3>2
  <2>4. QED BY <2>1, <2>2, <2>3, BuriedCalled DEF Typed
<1>16. ASSUME NEW w \in Nodes, NEW release \in BOOLEAN, RetryGranted(w, release)  PROVE Buried'
  <2> USE <1>16 DEF RetryGranted, still, work, gate, line, nodes, process, outcome
  <2>1. todo # <<>> /\ Head(todo).op # "remove"
    BY DEF At, Retry
  <2>2. UNCHANGED <<registered, down, events>>
    BY DEF CompleteRequest
  <2>3. Return \/ \E a \in Seq(Calls) : Call(a)
    OBVIOUS
  <2>4. QED BY <2>1, <2>2, <2>3, BuriedCalled DEF Typed
<1>17. ASSUME NEW w \in Nodes, NEW release \in BOOLEAN, RetryRefused(w, release)  PROVE Buried'
  <2> USE <1>17 DEF RetryRefused, still, work, gate, line, nodes, process, outcome
  <2>1. todo # <<>> /\ Head(todo).op # "remove"
    BY DEF At, Retry
  <2>2. UNCHANGED <<registered, down, events>>
    BY DEF CompleteRequest
  <2>3. Return \/ \E a \in Seq(Calls) : Call(a)
    <3>1. Admit \in Calls /\ Admit.op # "restart"
      BY OtherCalls DEF Admit
    <3>2. <<Admit>> \in Seq(Calls) /\ NoRestart(<<Admit>>)
      BY <3>1, FewCalls
    <3>3. QED BY <3>2
  <2>4. QED BY <2>1, <2>2, <2>3, BuriedCalled DEF Typed
<1>18. ASSUME NEW w \in Nodes, ResolveForceRequest(w)  PROVE Buried'
  <2> USE <1>18 DEF ResolveForceRequest, still, work, gate, line, nodes, process, outcome
  <2>1. todo # <<>> /\ Head(todo).op # "remove"
    BY DEF At, Forceable, Standstill, Stalls
  <2>2. UNCHANGED <<registered, down, events>>
    BY DEF CompleteRequest
  <2>3. Return \/ \E a \in Seq(Calls) : Call(a)
    OBVIOUS
  <2>4. QED BY <2>1, <2>2, <2>3, BuriedCalled DEF Typed
<1>19. ASSUME NEW w \in Nodes, Completed(w)  PROVE Buried'
  <2> USE <1>19 DEF Completed, still, work, gate, line, nodes, process, outcome
  <2>1. Takes(w, "complete") /\ UNCHANGED down /\ registered' \subseteq registered \cup {w}
    OBVIOUS
  <2>2. QED BY <2>1, BuriedTaken DEF Typed, Shape
<1>20. ASSUME NEW w \in Nodes, HoldsChanged(w)  PROVE Buried'
  <2> USE <1>20 DEF HoldsChanged, still, work, gate, line, nodes, process, outcome
  <2>1. Takes(w, "holds") /\ UNCHANGED down /\ registered' \subseteq registered \cup {w}
    OBVIOUS
  <2>2. QED BY <2>1, BuriedTaken DEF Typed, Shape
<1>21. ASSUME NEW w \in Nodes, Requested(w)  PROVE Buried'
  <2> USE <1>21 DEF Requested, still, work, gate, line, nodes, process, outcome
  <2>1. Takes(w, "request") /\ UNCHANGED down /\ registered' \subseteq registered \cup {w}
    OBVIOUS
  <2>2. QED BY <2>1, BuriedTaken DEF Typed, Shape
<1>22. ASSUME NEW w \in Nodes, Crashed(w)  PROVE Buried'
  <2> USE <1>22 DEF Crashed, RemoveNode, ReleaseRuntime, still, work, gate, line, nodes,
      process, outcome
  <2>1. Takes(w, "down") /\ UNCHANGED down /\ registered' \subseteq registered \cup {w}
    OBVIOUS
  <2>2. w \notin registered'
    OBVIOUS
  <2>3. QED BY <2>1, <2>2, BuriedTaken DEF Typed, Shape
<1>23. ASSUME NEW w \in Nodes, Finished(w)  PROVE Buried'
  <2> USE <1>23 DEF Finished, still, work, gate, line, nodes, process, outcome
  <2>1. Takes(w, "finished") /\ UNCHANGED down /\ registered' \subseteq registered \cup {w}
    OBVIOUS
  <2>2. w \notin registered' \/ ToRemove(w)'
    <3>1. CASE w \in registered
      <4>1. todo' = <<Admit, Remove(w), Loop>>
        BY <3>1
      <4>2. 2 \in DOMAIN todo' /\ todo'[2] = Remove(w)
        BY <4>1
      <4>3. QED BY <4>2 DEF ToRemove
    <3>2. QED BY <3>1
  <2>3. QED BY <2>1, <2>2, BuriedTaken DEF Typed, Shape
<1>24. ASSUME NEW w \in Nodes, FinishedRemove(w)  PROVE Buried'
  <2> USE <1>24 DEF FinishedRemove, RemoveNode, ReleaseRuntime, still, work, gate, line, nodes,
      process, outcome
  <2>1. todo # <<>> /\ Head(todo) = Remove(w)
    BY DEF At
  <2>2. ASSUME NEW v \in Nodes, v # w  PROVE Ended(v)'
    <3>1. RemoveCalls(w) \in Seq(Calls) /\ Head(todo) # Remove(v)
      BY <2>1, <2>2, RemoveCallsTyped DEF Typed, Remove
    <3>2. ToRemove(v) => ToRemove(v)'
      BY <2>1, <3>1, RemovalsStay DEF Typed
    <3>3. QED BY <2>2, <3>2 DEF Buried, Ended, Kind
  <2>3. Ended(w)'
    BY DEF Buried, Ended, Kind
  <2>4. QED BY <2>2, <2>3 DEF Buried
<1>25. ASSUME NEW w \in Nodes, Ready(w)  PROVE Buried'
  <2> USE <1>25 DEF Ready, still, work, gate, line, nodes, process, outcome
  <2>1. Takes(w, "ready") /\ UNCHANGED down /\ registered' \subseteq registered \cup {w}
    OBVIOUS
  <2>2. QED BY <2>1, BuriedTaken DEF Typed, Shape
<1>26. ASSUME NEW w \in Nodes, Collected(w)  PROVE Buried'
  <2> USE <1>26 DEF Collected, still, work, gate, line, nodes, process, outcome
  <2>1. Takes(w, "collected") /\ UNCHANGED down /\ registered' \subseteq registered \cup {w}
    OBVIOUS
  <2>2. QED BY <2>1, BuriedTaken DEF Typed, Shape
<1>27. ASSUME RestartNode  PROVE Buried'
  <2> USE <1>27 DEF RestartNode, still, work, gate, line, nodes, process, outcome
  <2>1. todo # <<>> /\ Head(todo).op # "remove"
    BY DEF At, Restart
  <2>2. UNCHANGED <<registered, down, events>>
    BY DEF CompleteRequest
  <2>3. Return \/ \E a \in Seq(Calls) : Call(a)
    <3>1. ASSUME NEW order \in Orders(registered), Call(Each(Stop, order))
          PROVE  \E a \in Seq(Calls) : Call(a)
      <4>1. order \in Seq(Nodes)
        BY RegisteredInOrder DEF Typed, NodesTyped
      <4>2. QED BY <3>1, <4>1, CallsInOrder, CallsWithoutRestart
    <3>2. QED BY <3>1 DEF TriggerShutdown
  <2>4. QED BY <2>1, <2>2, <2>3, BuriedCalled DEF Typed
<1>28. ASSUME LoopOnce  PROVE Buried'
  <2> USE <1>28 DEF LoopOnce, still, work, gate, line, nodes, process, outcome
  <2>1. todo # <<>> /\ Head(todo).op # "remove"
    BY DEF At, Loop
  <2>2. UNCHANGED <<registered, down, events>>
    BY DEF CompleteRequest
  <2>3. Return \/ \E a \in Seq(Calls) : Call(a)
    <3>1. ASSUME NEW order \in Orders(registered), Call(Each(Stop, order))
          PROVE  \E a \in Seq(Calls) : Call(a)
      <4>1. order \in Seq(Nodes)
        BY RegisteredInOrder DEF Typed, NodesTyped
      <4>2. QED BY <3>1, <4>1, CallsInOrder, CallsWithoutRestart
    <3>2. QED BY <3>1 DEF TriggerShutdown
  <2>4. QED BY <2>1, <2>2, <2>3, BuriedCalled DEF Typed
<1>29. ASSUME NEW w \in Nodes, StopGranted(w)  PROVE Buried'
  <2> USE <1>29 DEF StopGranted, still, work, gate, line, nodes, process, outcome
  <2>1. todo # <<>> /\ Head(todo).op # "remove"
    BY DEF At, Stop
  <2>2. UNCHANGED <<registered, down, events>>
    BY DEF CompleteRequest
  <2>3. Return \/ \E a \in Seq(Calls) : Call(a)
    OBVIOUS
  <2>4. QED BY <2>1, <2>2, <2>3, BuriedCalled DEF Typed
<1>30. ASSUME NEW w \in Nodes, StopBlocked(w)  PROVE Buried'
  <2> USE <1>30 DEF StopBlocked, still, work, gate, line, nodes, process, outcome
  <2>1. todo # <<>> /\ Head(todo).op # "remove"
    BY DEF At, Stop
  <2>2. UNCHANGED <<registered, down, events>>
    BY DEF CompleteRequest
  <2>3. Return \/ \E a \in Seq(Calls) : Call(a)
    OBVIOUS
  <2>4. QED BY <2>1, <2>2, <2>3, BuriedCalled DEF Typed
<1>31. ASSUME NEW w \in Nodes, StopWithdraws(w)  PROVE Buried'
  <2> USE <1>31 DEF StopWithdraws, still, work, gate, line, nodes, process, outcome
  <2>1. todo # <<>> /\ Head(todo).op # "remove"
    BY DEF At, Stop
  <2>2. UNCHANGED <<registered, down, events>>
    BY DEF CompleteRequest
  <2>3. Return \/ \E a \in Seq(Calls) : Call(a)
    OBVIOUS
  <2>4. QED BY <2>1, <2>2, <2>3, BuriedCalled DEF Typed
<1>32. ASSUME NEW w \in Nodes, Boot(w)  PROVE Buried'
  <2> USE <1>32 DEF Boot, central, work, gate, line, nodes, process, outcome
  <2>1. w \notin down
    BY DEF Typed, ProcessTyped
  <2>2. UNCHANGED <<todo, registered, down>> /\ \A v \in Nodes : v # w => events'[v] = events[v]
    BY DEF Post
  <2>3. QED BY <2>1, <2>2, BuriedPosted
<1>33. ASSUME NEW w \in Nodes, StartTest(w)  PROVE Buried'
  <2> USE <1>33 DEF StartTest, central, work, gate, line, nodes, process, outcome
  <2>1. w \notin down
    BY DEF MayStart, Typed, ProcessTyped
  <2>2. UNCHANGED <<todo, registered, down>> /\ \A v \in Nodes : v # w => events'[v] = events[v]
    BY DEF Post
  <2>3. QED BY <2>1, <2>2, BuriedPosted
<1>34. ASSUME NEW w \in Nodes, SkipTest(w)  PROVE Buried'
  <2> USE <1>34 DEF SkipTest, central, work, gate, line, nodes, process, outcome
  <2>1. w \notin down
    BY DEF MayStart, Typed, ProcessTyped
  <2>2. UNCHANGED <<todo, registered, down>> /\ \A v \in Nodes : v # w => events'[v] = events[v]
    BY DEF Post
  <2>3. QED BY <2>1, <2>2, BuriedPosted
<1>35. ASSUME NEW w \in Nodes, FinishTest(w)  PROVE Buried'
  <2> USE <1>35 DEF FinishTest, central, work, gate, line, nodes, process, outcome
  <2>1. w \notin down
    <3>1. ProcessTyped /\ using[w] \in Nat \cup {Asking} /\ permit[w] \in PermitRecords
      BY DEF Typed, ProcessTyped
    <3>2. using[w] # Idling
      BY <3>1 DEF Idling, Asking
    <3>3. status[w] = "up"
      BY <3>1, <3>2 DEF ProcessTyped
    <3>4. QED BY <3>1, <3>3 DEF ProcessTyped
  <2>2. UNCHANGED <<todo, registered, down>> /\ \A v \in Nodes : v # w => events'[v] = events[v]
    BY DEF Post
  <2>3. QED BY <2>1, <2>2, BuriedPosted
<1>36. ASSUME NEW w \in Nodes, Ask(w)  PROVE Buried'
  <2> USE <1>36 DEF Ask, central, work, gate, line, nodes, process, outcome
  <2>1. w \notin down
    <3>1. ProcessTyped /\ using[w] \in Nat \cup {Asking} /\ permit[w] \in PermitRecords
      BY DEF Typed, ProcessTyped
    <3>2. using[w] # Idling
      BY <3>1 DEF Idling, Asking
    <3>3. status[w] = "up"
      BY <3>1, <3>2 DEF ProcessTyped
    <3>4. QED BY <3>1, <3>3 DEF ProcessTyped
  <2>2. UNCHANGED <<todo, registered, down>> /\ \A v \in Nodes : v # w => events'[v] = events[v]
    BY DEF Post
  <2>3. QED BY <2>1, <2>2, BuriedPosted
<1>37. ASSUME NEW w \in Nodes, GiveUp(w)  PROVE Buried'
  <2> USE <1>37 DEF GiveUp, central, work, gate, line, nodes, process, outcome
  <2>1. w \notin down
    <3>1. ProcessTyped /\ using[w] \in Nat \cup {Asking} /\ permit[w] \in PermitRecords
      BY DEF Typed, ProcessTyped
    <3>2. using[w] # Idling
      BY <3>1 DEF ProcessTyped, PermitRecords, NotAsking, Idling, Asking
    <3>3. status[w] = "up"
      BY <3>1, <3>2 DEF ProcessTyped
    <3>4. QED BY <3>1, <3>3 DEF ProcessTyped
  <2>2. UNCHANGED <<todo, registered, down>> /\ \A v \in Nodes : v # w => events'[v] = events[v]
    BY DEF Post
  <2>3. QED BY <2>1, <2>2, BuriedPosted
<1>38. ASSUME NEW w \in Nodes, GrantArrives(w)  PROVE Buried'
  <2> USE <1>38 DEF GrantArrives, central, work, gate, line, nodes, process, outcome
  <2> QED BY DEF Buried, Ended, Kind, ToRemove
<1>39. ASSUME NEW w \in Nodes, NEW reached \in BOOLEAN, GoOn(w, reached)  PROVE Buried'
  <2> USE <1>39 DEF GoOn, central, work, gate, line, nodes, process, outcome
  <2>1. w \notin down
    <3>1. ProcessTyped /\ using[w] \in Nat \cup {Asking} /\ permit[w] \in PermitRecords
      BY DEF Typed, ProcessTyped
    <3>2. using[w] # Idling
      <4>1. permit[w].granted
        OBVIOUS
      <4>2. permit[w].state # NotAsking
        BY <3>1, <4>1 DEF PermitRecords, NotAsking
      <4>3. using[w] = Asking
        BY <3>1, <4>2 DEF ProcessTyped
      <4>4. QED BY <4>3 DEF Idling, Asking
    <3>3. status[w] = "up"
      BY <3>1, <3>2 DEF ProcessTyped
    <3>4. QED BY <3>1, <3>3 DEF ProcessTyped
  <2>2. UNCHANGED <<todo, registered, down>> /\ \A v \in Nodes : v # w => events'[v] = events[v]
    BY DEF Post
  <2>3. QED BY <2>1, <2>2, BuriedPosted
<1>40. ASSUME NEW w \in Nodes, Exit(w)  PROVE Buried'
  <2> USE <1>40 DEF Exit, Leave, central, work, gate, line, nodes, process, outcome
  <2>1. w \notin down /\ down' = down \cup {w} /\ Post(w, <<<<"finished", 0>>>>)
    BY DEF Leave, Typed, ProcessTyped
  <2>2. UNCHANGED <<todo, registered>> /\ \A v \in Nodes : v # w => events'[v] = events[v]
    BY <2>1 DEF Leave, Post
  <2>3. events[w] \in Seq(Mail) /\ events'[w] = events[w] \o <<<<"finished", 0>>>>
    BY <2>1 DEF Post, Typed, ChannelsTyped
  <2>4. events'[w] # <<>> /\ Kind(w, Len(events[w]))' = "finished"
    BY <2>3, LastMessage DEF Kind
  <2>5. QED BY <2>1, <2>2, <2>4, BuriedPosted
<1>41. ASSUME NEW w \in Nodes, Crash(w)  PROVE Buried'
  <2> USE <1>41 DEF Crash, Leave, central, work, gate, line, nodes, process, outcome
  <2>1. w \notin down /\ down' = down \cup {w} /\ Post(w, <<<<"down", 0>>>>)
    BY DEF Leave, Typed, ProcessTyped
  <2>2. UNCHANGED <<todo, registered>> /\ \A v \in Nodes : v # w => events'[v] = events[v]
    BY <2>1 DEF Leave, Post
  <2>3. events[w] \in Seq(Mail) /\ events'[w] = events[w] \o <<<<"down", 0>>>>
    BY <2>1 DEF Post, Typed, ChannelsTyped
  <2>4. events'[w] # <<>> /\ Kind(w, Len(events[w]))' = "down"
    BY <2>3, LastMessage DEF Kind
  <2>5. QED BY <2>1, <2>2, <2>4, BuriedPosted
<1>42. ASSUME UNCHANGED vars  PROVE Buried'
  BY <1>42 DEF vars, nodes, process, Buried, Ended, Kind, ToRemove
<1>43. /\ AtOp("fill") => Head(todo).out \in Seq(Tests)
       /\ AtOp("replan") => Head(todo).tests \in SUBSET Tests
  BY StackMoves, CallFields DEF Typed, AtOp
<1>44. ASSUME NEW w \in Nodes, AtOp("fill"), Filler(w, Head(todo).out)  PROVE Buried'
  BY <1>44, <1>43, <1>2, <1>3, <1>4, <1>5, <1>6 DEF Filler
<1>45. ASSUME NEW w \in Nodes, Common(w)  PROVE Buried'
  BY <1>45, <1>8, <1>9, <1>10,
     <1>19, <1>20, <1>23, <1>25, <1>26,
     <1>29, <1>30, <1>31,
     <1>21, <1>15, <1>18, <1>16, <1>17 DEF Common
<1>46. ASSUME Anywhere  PROVE Buried'
  BY <1>46, <1>43, <1>11, <1>12, <1>13, <1>14, <1>27
  DEF Anywhere
<1>47. ASSUME Controller  PROVE Buried'
  BY <1>47, <1>44, <1>45, <1>46, <1>1, <1>7, <1>22, <1>24, <1>28
  DEF Controller
<1>48. ASSUME NEW w \in Nodes, Worker(w)  PROVE Buried'
  BY <1>48, <1>32, <1>33, <1>34, <1>35, <1>40, <1>36, <1>38, <1>39 DEF Worker
<1>49. QED BY <1>42, <1>47, <1>48, <1>37, <1>41 DEF Next, Stopped

(* At the start nobody is down.                                            *)
LEMMA BuriedInit == Init => Buried
BY DEF Init, Start, Buried, Ended

(* No failure is counted twice and no worker that left stays registered,   *)
(* in every session.                                                       *)
THEOREM AlwaysCounted == Spec => [](Counted /\ Buried)
<1>1. Init => Counted /\ Buried
  BY CountedInit, BuriedInit
<1>2. Typed /\ Shape /\ (Counted /\ Buried) /\ [Next]_vars => (Counted /\ Buried)'
  BY CountedStep, BuriedStep
<1>3. QED BY <1>1, <1>2, AlwaysTyped, AlwaysShape, PTL DEF Spec

(* What the invariants say of the types.                                   *)
LEMMA TypesOK ==
  ASSUME Typed, Settling, Counted
  PROVE  TypeOK
<1>1. Priced /\ GateTyped
  BY DEF Settling, Priced
<1>2. session \in [stopping : BOOLEAN, failures : 0 .. MaxCrashes]
  <2>1. session \in [stopping : BOOLEAN, failures : Nat]
    BY DEF Typed, NodesTyped
  <2>2. session.failures <= MaxCrashes
    <3>1. session.failures \in Nat
      BY <2>1
    <3>2. CASE NoRestart(todo)
      BY <3>1, <3>2, DeadTyped, CrashesAssumption DEF Counted
    <3>3. CASE ~NoRestart(todo)
      BY <3>1, <3>3, DeadTyped, CrashesAssumption DEF Counted
    <3>4. QED BY <3>2, <3>3
  <2>3. session.failures \in 0 .. MaxCrashes
    BY <2>1, <2>2, CrashesAssumption
  <2>4. session = [stopping |-> session.stopping, failures |-> session.failures]
    BY <2>1
  <2>5. QED BY <2>1, <2>3, <2>4
<1>3. ASSUME NEW w \in Nodes
      PROVE  permit[w].id \in 0 .. MaxAsks /\ grants[w] \in Seq(1 .. MaxAsks)
  <2>1. permit[w] \in PermitRecords
    BY DEF Typed, ProcessTyped
  <2>2. permit[w].id \in 0 .. MaxAsks
    <3>1. CASE permit[w] \in [id : 0 .. MaxAsks, state : {NotAsking}, granted : {FALSE}]
      BY <3>1
    <3>2. CASE permit[w] \in [id : 1 .. MaxAsks, state : {"asking", "giving_up"},
                              granted : BOOLEAN, key : Fixtures]
      <4>1. permit[w].id \in 1 .. MaxAsks
        BY <3>2
      <4>2. \A n \in 1 .. MaxAsks : n \in 0 .. MaxAsks
        BY ReachesAssumption
      <4>3. QED BY <4>1, <4>2
    <3>3. QED BY <2>1, <3>1, <3>2 DEF PermitRecords
  <2>3. QED BY <1>1, <2>2 DEF Priced
<1>4. events \in [Nodes -> Seq(Messages)]
  <2>1. Mail \subseteq Messages
    <3>1. Requesting \subseteq [id : Nat, test : Tests, key : Fixtures, holds : Nat,
                                cancelled : BOOLEAN]
      BY DEF Requesting
    <3>2. QED BY <3>1 DEF Mail, Messages
  <2>2. Seq(Mail) \subseteq Seq(Messages)
    BY <2>1
  <2>3. QED BY <2>2 DEF Typed, ChannelsTyped
<1>5. charge \in [Tests -> [peak : Nat, holds : Nat, parts : SUBSET Fixtures]]
      /\ moves \in 0 .. MaxMoves
  BY <1>1 DEF Priced, Charges
<1>6. QED
  BY <1>1, <1>2, <1>3, <1>4, <1>5
  DEF TypeOK, GateTyped, Typed, StackTyped, WorkTyped, OutcomeTyped, NodesTyped, ProcessTyped

(* Every variable keeps its type: no slot count goes below zero, no more   *)
(* failures are counted than workers crashed, and no permit is granted     *)
(* under a number no worker asked with.                                    *)
THEOREM TypesAlwaysOK == Spec => []TypeOK
<1>1. Typed /\ Settling /\ (Counted /\ Buried) => TypeOK
  BY TypesOK
<1>2. QED BY <1>1, AlwaysTyped, AlwaysSettling, AlwaysCounted, PTL

(* When everything is over every test was reported, or blamed for a crash, *)
(* or is one nobody was left to run.                                       *)
Accounted == Terminated => Tests = reported \cup crashed \cup pending

(* When all is over no queue holds a test: its node would be registered,   *)
(* and a registered node that is down was buried.                          *)
LEMMA AccountsClosed ==
  ASSUME Typed, Consistent, Settling, Buried
  PROVE  Accounted
<1> SUFFICES ASSUME Terminated  PROVE Tests = reported \cup crashed \cup pending
  BY DEF Accounted
<1>1. todo = <<>> /\ \A v \in Nodes : ~ToRemove(v)
  BY DEF Terminated, ToRemove
<1>2. ASSUME NEW v \in Nodes  PROVE queue[v] = <<>>
  <2>1. SUFFICES ASSUME queue[v] # <<>>  PROVE FALSE
    OBVIOUS
  <2>2. v \in registered
    BY <2>1 DEF Settling, Supplied, Stocked
  <2>3. IsKnown(v)
    BY <2>2 DEF IsKnown
  <2>4. status[v] \in {"exited", "dead"} /\ events[v] = <<>>
    BY <2>3 DEF Terminated, Settling, New, Unheard
  <2>5. v \in down
    BY <2>4 DEF Typed, ProcessTyped
  <2>6. QED BY <1>1, <2>2, <2>4, <2>5 DEF Buried, Ended
<1>3. \A v \in Nodes : Elements(queue[v]) = {}
  BY <1>2 DEF Elements
<1>4. \A t \in Tests : t \in pending \cup reported \cup crashed
  BY <1>3 DEF Consistent, Conserved, Settled
<1>5. QED BY <1>4 DEF Typed, WorkTyped, OutcomeTyped

(* No test is lost with a worker: a session that has come to its end has   *)
(* taken over the queue of every worker that left, however it left.        *)
THEOREM AlwaysAccounted == Spec => []Accounted
<1>1. Typed /\ Consistent /\ Settling /\ (Counted /\ Buried) => Accounted
  BY AccountsClosed
<1>2. QED BY <1>1, AlwaysTyped, AlwaysConsistent, AlwaysSettling, AlwaysCounted, PTL
===============================================================================
