--------------------------- MODULE SchedulerProofs ----------------------------
(***************************************************************************)
(* What each variable of Scheduler holds, for any workers, tests, fixtures *)
(* and budget (Typed), and who the scheduler can be talking about (Shape): *)
(* the calls left on the stack of a handler are for nodes the scheduler    *)
(* has met, a batch is only being drawn up for a node that still takes     *)
(* tests, and nothing follows the last message of a worker. pytest_xdist   *)
(* promises the second with its events, and every handler relies on it     *)
(* when it looks a node up. From both: no test is lost or run by two       *)
(* workers, and a worker that exits has left nothing behind. The inductive *)
(* invariant relates the scheduler's records to each other (Conserved) and *)
(* to what is still on its way to and from each worker (ChannelAgrees).    *)
(***************************************************************************)
EXTENDS Scheduler, FiniteSetTheorems, SequenceTheorems, TLAPS

(* A finite set of numbers has a greatest member: Greatest, the max() of a *)
(* test's demand and its fixtures' set-ups, is one of them.                *)
LEMMA GreatestMember ==
  ASSUME NEW S, IsFiniteSet(S), S # {}, S \subseteq Nat
  PROVE  Greatest(S) \in S /\ \A m \in S : m <= Greatest(S)
<1> DEFINE HasMax(U) == \E n \in U : \A m \in U : m <= n
           Bad == {U \in SUBSET S : U # {} /\ ~HasMax(U)}
           R == StrictSubsetOrdering(S)
<1>1. HasMax(S)
  <2>1. SUFFICES ASSUME ~HasMax(S)  PROVE FALSE
    OBVIOUS
  <2>2. S \in Bad
    BY <2>1
  <2>3. IsWellFoundedOn(R, FiniteSubsetsOf(S)) /\ Bad \subseteq FiniteSubsetsOf(S)
    BY FS_StrictSubsetOrderingWellFounded, FS_Subset DEF FiniteSubsetsOf
  <2>4. PICK U \in Bad : \A V \in Bad : ~(<<V, U>> \in R)
    BY <2>2, <2>3, WFMin
  <2>5. PICK x \in U : TRUE
    BY <2>4
  <2>6. U \ {x} \in SUBSET S /\ <<U \ {x}, U>> \in R
    BY <2>4, <2>5 DEF StrictSubsetOrdering
  <2>7. CASE U \ {x} = {}
    <3>1. \A m \in U : m = x
      BY <2>7
    <3>2. QED BY <3>1, <2>4, <2>5
  <2>8. CASE U \ {x} # {}
    <3>1. HasMax(U \ {x})
      BY <2>4, <2>6, <2>8
    <3>2. PICK n \in U \ {x} : \A m \in U \ {x} : m <= n
      BY <3>1
    <3>3. x \in Nat /\ n \in Nat /\ U \subseteq Nat
      BY <2>4, <2>5, <3>2
    <3>4. CASE x <= n
      BY <3>2, <3>3, <3>4, <2>4
    <3>5. CASE ~(x <= n)
      <4>1. \A m \in U : m <= x
        BY <3>2, <3>3, <3>5
      <4>2. QED BY <4>1, <2>4, <2>5
    <3>6. QED BY <3>4, <3>5
  <2>9. QED BY <2>7, <2>8
<1>2. QED BY <1>1 DEF Greatest

(* What a set of fixtures holds is a number of slots: the scheduler may    *)
(* sum it, compare it with the limit and send it.                          *)
LEMMA HoldOfNat ==
  ASSUME NEW F \in SUBSET Fixtures
  PROVE  HoldOf(F) \in Nat
<1> DEFINE Slots(f) == {f} \X (1 .. Hold[f])
           S == {Slots(f) : f \in F}
           g == [f \in F |-> Slots(f)]
<1>1. IsFiniteSet(F)
  BY FixturesAssumption, FS_Subset
<1>2. g \in Surjection(F, S)
  BY DEF Surjection
<1>3. IsFiniteSet(S)
  <2> HIDE DEF S, g
  <2> QED BY <1>1, <1>2, FS_Surjection
<1>4. ASSUME NEW f \in F  PROVE IsFiniteSet(Slots(f))
  <2>1. Hold[f] \in Nat
    BY HoldAssumption
  <2>2. IsFiniteSet(1 .. Hold[f])
    BY <2>1, FS_Interval
  <2>3. IsFiniteSet({f})
    BY FS_Singleton
  <2>4. QED BY <2>2, <2>3, FS_Product
<1>5. IsFiniteSet(UNION S)
  <2>1. \A T \in S : IsFiniteSet(T)
    BY <1>4
  <2> HIDE DEF S
  <2> QED BY <1>3, <2>1, FS_UNION
<1>6. QED BY <1>5, FS_CardinalityType DEF HoldOf

(* What a test costs on a worker with fixtures F alive: its charge (peak,  *)
(* holds and parts) is well formed whatever the worker keeps.              *)
LEMMA CostsTyped ==
  ASSUME NEW t \in Tests, NEW F \in SUBSET Fixtures
  PROVE  /\ Kept(t, F) \in SUBSET Fixtures
         /\ After(t, F) \in SUBSET Fixtures
         /\ Peak(t, F) \in Nat
         /\ Charge(t, F) \in [peak : Nat, holds : Nat, parts : SUBSET Fixtures]
<1>1. Kept(t, F) \in SUBSET Fixtures /\ After(t, F) \in SUBSET Fixtures
  BY UsesAssumption DEF Kept, After
<1> DEFINE Owed == Uses[t] \ Kept(t, F)
           Setups == {SetupSlots[f] : f \in Owed}
           g == [f \in Owed |-> SetupSlots[f]]
<1>2. Owed \in SUBSET Fixtures
  BY UsesAssumption
<1>3. IsFiniteSet(Owed)
  BY <1>2, FixturesAssumption, FS_Subset
<1>4. g \in Surjection(Owed, Setups)
  BY DEF Surjection
<1>5. IsFiniteSet(Setups)
  <2> HIDE DEF Owed, Setups, g
  <2> QED BY <1>3, <1>4, FS_Surjection
<1>6. Setups \subseteq Nat /\ Demand[t] \in Nat
  BY <1>2, SetupAssumption, DemandAssumption
<1>7. IsFiniteSet({Demand[t]} \cup Setups)
  BY <1>5, FS_Singleton, FS_Union
<1>8. Greatest({Demand[t]} \cup Setups) \in Nat
  <2> HIDE DEF Setups
  <2> QED BY <1>6, <1>7, GreatestMember
<1>9. Peak(t, F) \in Nat
  BY <1>1, <1>8, HoldOfNat DEF Peak
<1>10. QED BY <1>1, <1>9, HoldOfNat DEF Charge

(* Correcting a charge by the holds a worker reported never takes it below *)
(* zero.                                                                   *)
LEMMA WithLiveHoldsNat ==
  ASSUME NEW c \in [peak : Nat, holds : Nat, parts : SUBSET Fixtures], NEW held \in Nat
  PROVE  WithLiveHolds(c, held) \in Nat
<1>1. c.peak \in Nat /\ c.holds \in Nat
  OBVIOUS
<1>2. held - c.holds \in Int
  BY <1>1
<1>3. Larger(0, held - c.holds) \in Nat
  BY <1>2 DEF Larger
<1>4. QED BY <1>1, <1>3 DEF WithLiveHolds

(* Growing a charge by a fixture set up in mid-test gives a charge.        *)
LEMMA AddingFixtureTyped ==
  ASSUME NEW c \in [peak : Nat, holds : Nat, parts : SUBSET Fixtures],
         NEW f \in Fixtures, NEW setup \in Nat, NEW held \in Nat
  PROVE  AddingFixture(c, f, setup, held) \in [peak : Nat, holds : Nat, parts : SUBSET Fixtures]
<1>1. Hold[f] \in Nat
  BY HoldAssumption
<1>2. QED BY <1>1 DEF AddingFixture, Larger

(* There are finitely many nodes: the workers of the session and those     *)
(* that may replace them.                                                  *)
LEMMA NodesFinite == IsFiniteSet(Nodes)
BY CrashesAssumption, FS_Union DEF Nodes

(* An order of a set of nodes is a list of exactly those nodes: a loop     *)
(* over a dict of nodes visits each of them.                               *)
LEMMA OrdersTyped ==
  ASSUME NEW S \in SUBSET Nodes, NEW order \in Orders(S)
  PROVE  order \in Seq(S) /\ Elements(order) = S
<1>1. Cardinality(S) \in Nat
  BY NodesFinite, FS_Subset, FS_CardinalityType
<1>2. QED BY <1>1 DEF Orders

(* Striking one entry off a queue leaves a queue of the same entries.      *)
LEMMA WithoutTyped ==
  ASSUME NEW S, NEW s \in Seq(S), NEW x
  PROVE  G!Without(s, x) \in Seq(S)
<1>1. CASE \E i \in DOMAIN s : s[i] = x
  <2> DEFINE k == CHOOSE i \in DOMAIN s : s[i] = x
  <2>1. k \in 1 .. Len(s)
    BY <1>1
  <2>2. G!Without(s, x) = [i \in 1 .. Len(s) - 1 |-> IF i < k THEN s[i] ELSE s[i + 1]]
    BY <1>1 DEF G!Without
  <2>3. Len(s) - 1 \in Nat
    BY <2>1
  <2>4. \A i \in 1 .. Len(s) - 1 : s[i] \in S /\ s[i + 1] \in S
    BY <2>1
  <2> HIDE DEF k
  <2>5. QED BY <2>1, <2>2, <2>3, <2>4
<1>2. CASE ~\E i \in DOMAIN s : s[i] = x
  BY <1>2 DEF G!Without
<1>3. QED BY <1>1, <1>2

(* The calls a handler makes for one node are calls.                       *)
LEMMA CallsOfNodes ==
  ASSUME NEW w \in Nodes
  PROVE  /\ {Check(w), Rest(w), Shutdown(w), Remove(w), Stop(w)} \subseteq Calls
         /\ \A out \in Seq(Tests) : Fill(w, out) \in Calls
         /\ \A release \in BOOLEAN : Retry(w, release) \in Calls
BY DEF Calls, Check, Rest, Shutdown, Remove, Stop, Fill, Retry

(* What the calls that carry something carry: fill a batch of tests,       *)
(* replan a set of tests.                                                  *)
LEMMA CallFields ==
  ASSUME NEW c \in Calls
  PROVE  /\ c.op = "fill" => c.node \in Nodes /\ c.out \in Seq(Tests)
         /\ c.op = "replan" => c.tests \in SUBSET Tests
BY DEF Calls

(* The calls that are for no node in particular are calls.                 *)
LEMMA OtherCalls ==
  /\ {Admit, Stalls, Restart, Loop} \subseteq Calls
  /\ \A S \in SUBSET Tests : Replan(S) \in Calls
BY DEF Calls, Admit, Stalls, Restart, Loop, Replan

(* A loop over nodes puts one call for each of them on the stack.          *)
LEMMA CallsInOrder ==
  ASSUME NEW s \in Seq(Nodes)
  PROVE  /\ Each(Check, s) \in Seq(Calls)
         /\ Each(Stop, s) \in Seq(Calls)
         /\ Each(Visit, s) \in Seq(Calls)
<1>1. \A i \in DOMAIN s : s[i] \in Nodes
  OBVIOUS
<1>2. \A i \in DOMAIN s : Check(s[i]) \in Calls /\ Stop(s[i]) \in Calls /\ Visit(s[i]) \in Calls
  BY <1>1, CallsOfNodes DEF Visit
<1>3. QED BY <1>2 DEF Each

-----------------------------------------------------------------------------

(* A worker's side of a permit: it keeps the number of its last request,   *)
(* is granted only while it asks or gives up, and names a fixture then.    *)
PermitRecords ==
  [id : 0 .. MaxAsks, state : {NotAsking}, granted : {FALSE}]
    \cup [id : 1 .. MaxAsks, state : {"asking", "giving_up"}, granted : BOOLEAN, key : Fixtures]

(* The request message, as the worker meter sends it and the scheduler     *)
(* receives it.                                                            *)
Requesting == [id : 1 .. MaxAsks, test : Tests, key : Fixtures, holds : Nat, cancelled : BOOLEAN]

(* The messages of a worker, each with what it carries.                    *)
Mail ==
  ({"complete"} \X Tests) \cup ({"holds"} \X Nat) \cup ({"request"} \X Requesting)
    \cup ({"ready", "collected", "finished", "down"} \X {0})

(* What the handler in progress still has to do.                           *)
StackTyped == todo \in Seq(Calls)

(* Where the tests are: to be laid out, planned for a node, sent to one;   *)
(* and the fixtures the scheduler believes a node keeps.                   *)
WorkTyped ==
  /\ pending \in SUBSET Tests
  /\ plan \in [Nodes -> SUBSET Tests]
  /\ queue \in [Nodes -> Seq(Tests)]
  /\ fixtures \in [Nodes -> SUBSET Fixtures]

(* What has become of the tests.                                           *)
OutcomeTyped ==
  /\ withdrawn \in SUBSET Tests
  /\ skip \in [Nodes -> SUBSET Tests]
  /\ started \in SUBSET Tests
  /\ reported \in SUBSET Tests
  /\ crashed \in SUBSET Tests

(* What the scheduler knows of each node: who waits, the snapshots and     *)
(* requests, who is registered and who was told to finish.                 *)
NodesTyped ==
  /\ waiting \in Seq(Nodes)
  /\ live \in [Nodes -> Nat \cup {NoSnapshot}]
  /\ requests \in [Nodes -> {NoRequest} \cup
       [id : 1 .. MaxAsks, test : Tests, key : Fixtures, cancelled : BOOLEAN]]
  /\ registered \in SUBSET Nodes
  /\ told \in SUBSET Nodes
  /\ session \in [stopping : BOOLEAN, failures : Nat]

(* The worker processes. A worker that uses slots is up with a test in     *)
(* hand, and one that asks or gives up has said so: using and permit       *)
(* agree.                                                                  *)
ProcessTyped ==
  /\ down \in SUBSET Nodes
  /\ status \in [Nodes -> {"absent", "booting", "up", "exited", "dead"}]
  /\ inbox \in [Nodes -> Seq(Tests)]
  /\ using \in [Nodes -> Nat \cup {Asking}]
  /\ permit \in [Nodes -> PermitRecords]
  /\ alive \in [Nodes -> SUBSET Fixtures]
  /\ \A w \in Nodes :
       /\ w \in down <=> status[w] \in {"exited", "dead"}
       /\ using[w] # Idling => status[w] = "up" /\ inbox[w] # <<>>
       /\ permit[w].state # NotAsking => using[w] = Asking

(* What is on its way, either way.                                         *)
ChannelsTyped ==
  /\ grants \in [Nodes -> Seq(0 .. MaxAsks)]
  /\ events \in [Nodes -> Seq(Mail)]

(* Every variable holds what the code puts there.                          *)
Typed == StackTyped /\ WorkTyped /\ OutcomeTyped /\ NodesTyped /\ ProcessTyped /\ ChannelsTyped

(* What a handler may rely on about the message it takes: the kind tells   *)
(* what it carries.                                                        *)
LEMMA HeadMail ==
  ASSUME ChannelsTyped, NEW w \in Nodes, events[w] # <<>>
  PROVE  /\ Head(events[w]) \in Mail
         /\ Head(events[w])[1] = "complete" => Head(events[w])[2] \in Tests
         /\ Head(events[w])[1] = "holds" => Head(events[w])[2] \in Nat
         /\ Head(events[w])[1] = "request" => Head(events[w])[2] \in Requesting
<1>1. events[w] \in Seq(Mail)
  BY DEF ChannelsTyped
<1>2. Head(events[w]) \in Mail
  BY <1>1
<1>3. QED BY <1>2 DEF Mail

(* The messages workers send are messages.                                 *)
LEMMA MailTyped ==
  /\ <<"ready", 0>> \in Mail /\ <<"collected", 0>> \in Mail
  /\ <<"finished", 0>> \in Mail /\ <<"down", 0>> \in Mail
  /\ \A t \in Tests : <<"complete", t>> \in Mail
  /\ \A n \in Nat : <<"holds", n>> \in Mail
  /\ \A m \in Requesting : <<"request", m>> \in Mail
BY DEF Mail

(* The report of a change of holds is a list of messages (empty when       *)
(* nothing changed).                                                       *)
LEMMA HoldsEventTyped ==
  ASSUME NEW F \in SUBSET Fixtures, NEW H \in SUBSET Fixtures
  PROVE  HoldsEvent(F, H) \in Seq(Mail)
<1>1. <<"holds", HoldOf(H)>> \in Mail
  BY HoldOfNat, MailTyped
<1>2. QED BY <1>1 DEF HoldsEvent

(* Posting messages keeps the channels typed.                              *)
LEMMA PostTyped ==
  ASSUME events \in [Nodes -> Seq(Mail)], NEW w \in Nodes, NEW messages \in Seq(Mail),
         Post(w, messages)
  PROVE  events' \in [Nodes -> Seq(Mail)]
<1>1. events[w] \o messages \in Seq(Mail)
  OBVIOUS
<1>2. QED BY <1>1 DEF Post

(* Taking a message keeps the channels typed.                              *)
LEMMA TakesTyped ==
  ASSUME events \in [Nodes -> Seq(Mail)], NEW w \in Nodes, NEW kind, Takes(w, kind)
  PROVE  events' \in [Nodes -> Seq(Mail)]
<1>1. Tail(events[w]) \in Seq(Mail)
  BY DEF Takes
<1>2. QED BY <1>1 DEF Takes

(* Returning from a call, or replacing it with the calls it makes, keeps   *)
(* the stack typed.                                                        *)
LEMMA StackMoves ==
  ASSUME StackTyped, todo # <<>>
  PROVE  /\ Head(todo) \in Calls
         /\ Return => StackTyped'
         /\ \A calls \in Seq(Calls) : Call(calls) => StackTyped'
<1>1. Head(todo) \in Calls /\ Tail(todo) \in Seq(Calls)
  BY DEF StackTyped
<1>2. \A calls \in Seq(Calls) : calls \o Tail(todo) \in Seq(Calls)
  BY <1>1
<1>3. QED BY <1>1, <1>2 DEF StackTyped, Return, Call

(* The planner gives nodes tests, and only tests.                          *)
LEMMA LayOutTyped ==
  ASSUME plan \in [Nodes -> SUBSET Tests], NEW S \in SUBSET Tests, LayOut(S),
         registered \in SUBSET Nodes
  PROVE  plan' \in [Nodes -> SUBSET Tests]
<1> DEFINE open == S \cup UNION {plan[v] : v \in LiveNodes}
<1>1. LiveNodes \subseteq Nodes
  BY DEF LiveNodes
<1>2. open \subseteq Tests
  BY <1>1
<1>3. CASE LiveNodes = {}
  BY <1>3 DEF LayOut
<1>4. CASE LiveNodes # {}
  <2>1. PICK lane \in [open -> LiveNodes] :
          plan' = [v \in Nodes |->
                     IF v \in LiveNodes THEN {t \in open : lane[t] = v} ELSE plan[v]]
    BY <1>4 DEF LayOut
  <2> HIDE DEF open
  <2>2. QED BY <2>1, <1>2
<1>5. QED BY <1>3, <1>4

(* What a node has not begun is a set of tests.                            *)
LEMMA UnstartedTyped ==
  ASSUME NEW w \in Nodes, WorkTyped
  PROVE  Unstarted(w) \in SUBSET Tests /\ Elements(queue[w]) \in SUBSET Tests
<1>1. queue[w] \in Seq(Tests)
  BY DEF WorkTyped
<1>2. Begun(w) => Tail(queue[w]) \in Seq(Tests)
  BY <1>1 DEF Begun
<1>3. QED BY <1>1, <1>2 DEF Unstarted, Elements

(* remove_node calls for a new plan and for admission, both well formed.   *)
LEMMA RemoveCallsTyped ==
  ASSUME NEW w \in Nodes, WorkTyped
  PROVE  RemoveCalls(w) \in Seq(Calls)
<1>1. Stranded(w) \in SUBSET Tests
  BY UnstartedTyped DEF Stranded, WorkTyped
<1>2. Replan(Stranded(w)) \in Calls /\ Admit \in Calls
  BY <1>1, OtherCalls
<1>3. QED BY <1>2 DEF RemoveCalls

(* Sending a batch keeps the inboxes typed, and no busy worker's empties.  *)
LEMMA SentTyped ==
  ASSUME ProcessTyped, NEW w \in Nodes, NEW out \in Seq(Tests), Send(w, out),
         UNCHANGED <<down, status, using, permit, alive>>
  PROVE  ProcessTyped'
<1>1. inbox[w] \o out \in Seq(Tests)
  BY DEF ProcessTyped
<1>2. inbox' = [inbox EXCEPT ![w] = @ \o out]
  BY DEF Send
<1>3. inbox' \in [Nodes -> Seq(Tests)] /\ \A v \in Nodes : inbox[v] # <<>> => inbox'[v] # <<>>
  BY <1>1, <1>2 DEF ProcessTyped
<1>4. QED BY <1>3 DEF ProcessTyped

(* A worker starts with a permit record that asks for nothing.             *)
LEMMA NoPermitTyped == NoPermit \in PermitRecords
BY ReachesAssumption DEF NoPermit, PermitRecords, NotAsking

(* What can be read off a permit record.                                   *)
LEMMA PermitFields ==
  ASSUME NEW p \in PermitRecords
  PROVE  /\ p.id \in 0 .. MaxAsks
         /\ p.state \in {NotAsking, "asking", "giving_up"}
         /\ p.granted \in BOOLEAN
         /\ p.state # NotAsking => p.key \in Fixtures /\ p.id \in 1 .. MaxAsks
         /\ p.granted => p.state # NotAsking
<1>1. CASE p \in [id : 0 .. MaxAsks, state : {NotAsking}, granted : {FALSE}]
  BY <1>1
<1>2. CASE p \in [id : 1 .. MaxAsks, state : {"asking", "giving_up"}, granted : BOOLEAN,
                  key : Fixtures]
  <2>1. p.id \in 1 .. MaxAsks /\ p.state \in {"asking", "giving_up"} /\ p.granted \in BOOLEAN
        /\ p.key \in Fixtures
    BY <1>2
  <2>2. p.state # NotAsking /\ p.id \in 0 .. MaxAsks
    BY <2>1, ReachesAssumption DEF NotAsking
  <2>3. QED BY <2>1, <2>2
<1>3. QED BY <1>1, <1>2 DEF PermitRecords

(* A new request takes the next number and leaves a record that asks.      *)
LEMMA AskingTyped ==
  ASSUME NEW p \in PermitRecords, p.id < MaxAsks, NEW f \in Fixtures
  PROVE  [id |-> p.id + 1, state |-> "asking", granted |-> FALSE, key |-> f] \in PermitRecords
<1>1. p.id + 1 \in 1 .. MaxAsks
  BY PermitFields, ReachesAssumption
<1>2. QED BY <1>1 DEF PermitRecords

(* Short lists of calls, and lists put end to end, are lists of calls.     *)
LEMMA CallLists ==
  /\ \A a \in Calls : <<a>> \in Seq(Calls)
  /\ \A a, b \in Calls : <<a, b>> \in Seq(Calls)
  /\ \A a, b, c \in Calls : <<a, b, c>> \in Seq(Calls)
  /\ \A s, t \in Seq(Calls) : s \o t \in Seq(Calls)
OBVIOUS

(* Short lists of messages are lists of messages.                          *)
LEMMA MailLists ==
  /\ \A a \in Mail : <<a>> \in Seq(Mail)
  /\ \A a, b \in Mail : <<a, b>> \in Seq(Mail)
  /\ \A s \in Seq(Mail), a \in Mail : Append(s, a) \in Seq(Mail)
OBVIOUS

(* Joining and leaving the waiting line leaves a list of nodes.            *)
LEMMA WaitTyped ==
  ASSUME waiting \in Seq(Nodes), NEW w \in Nodes
  PROVE  (Wait(w) => waiting' \in Seq(Nodes)) /\ (Admitted(w) => waiting' \in Seq(Nodes))
BY WithoutTyped DEF Wait, Admitted

(* Granting, giving up and forgetting a permit keep its record well        *)
(* formed.                                                                 *)
LEMMA PermitMoves ==
  ASSUME NEW p \in PermitRecords
  PROVE  /\ \A b \in BOOLEAN : (b => p.state # NotAsking) =>
              [p EXCEPT !.granted = b] \in PermitRecords
         /\ p.state = "asking" => [p EXCEPT !.state = "giving_up"] \in PermitRecords
         /\ [NoPermit EXCEPT !.id = p.id] \in PermitRecords
<1>1. CASE p \in [id : 0 .. MaxAsks, state : {NotAsking}, granted : {FALSE}]
  <2>1. p.state = NotAsking /\ p.id \in 0 .. MaxAsks /\ p.granted = FALSE
    BY <1>1
  <2>2. ASSUME NEW b \in BOOLEAN, b => p.state # NotAsking
        PROVE  [p EXCEPT !.granted = b] \in PermitRecords
    <3>1. b = FALSE
      BY <2>1, <2>2
    <3>2. QED BY <3>1, <1>1 DEF PermitRecords
  <2>3. QED BY <2>1, <2>2 DEF PermitRecords, NoPermit, NotAsking
<1>2. CASE p \in [id : 1 .. MaxAsks, state : {"asking", "giving_up"}, granted : BOOLEAN,
                  key : Fixtures]
  <2>1. p.id \in 0 .. MaxAsks
    BY <1>2, PermitFields
  <2>2. [NoPermit EXCEPT !.id = p.id] \in PermitRecords
    BY <2>1 DEF NoPermit, PermitRecords
  <2>3. \A b \in BOOLEAN : [p EXCEPT !.granted = b] \in PermitRecords
    BY <1>2 DEF PermitRecords
  <2>4. [p EXCEPT !.state = "giving_up"] \in PermitRecords
    BY <1>2 DEF PermitRecords
  <2>5. QED BY <2>2, <2>3, <2>4
<1>3. QED BY <1>1, <1>2 DEF PermitRecords

(* Every step of the scheduler, of a worker and of the session keeps the   *)
(* types: one case for each action of Next, one conjunct for each group of *)
(* variables.                                                              *)
LEMMA TypedStep ==
  ASSUME Typed, [Next]_vars
  PROVE  Typed'
<1>1. ASSUME NEW w \in Nodes, CheckSchedule(w)  PROVE Typed'
  <2> USE <1>1 DEF Typed, CheckSchedule, still, work, gate, line, nodes, process, outcome
  <2>1. StackTyped'
    <3>1. <<>> \in Seq(Tests)
      OBVIOUS
    <3>2. Fill(w, <<>>) \in Calls /\ Rest(w) \in Calls
      BY <3>1, CallsOfNodes
    <3>3. <<Fill(w, <<>>)>> \in Seq(Calls) /\ <<Rest(w)>> \in Seq(Calls)
      BY <3>2, CallLists
    <3>4. <<Fill(w, <<>>)>> \o <<Rest(w)>> \in Seq(Calls) /\ <<>> \o <<Rest(w)>> \in Seq(Calls)
      BY <3>3
    <3>5. QED BY <3>4, StackMoves DEF At
  <2>2. WorkTyped'
    BY DEF WorkTyped
  <2>3. OutcomeTyped'
    BY DEF OutcomeTyped
  <2>4. NodesTyped'
    BY DEF NodesTyped
  <2>5. ProcessTyped'
    BY DEF ProcessTyped
  <2>6. ChannelsTyped'
    BY DEF ChannelsTyped
  <2>7. QED BY <2>1, <2>2, <2>3, <2>4, <2>5, <2>6
<1>2. ASSUME NEW w \in Nodes, NEW out \in Seq(Tests), NEW t \in Tests,
         FillDispatch(w, out, t)
  PROVE Typed'
  <2> USE <1>2 DEF Typed, FillDispatch, still, work, gate, line, nodes, process, outcome
  <2>1. StackTyped'
    <3>1. Append(out, t) \in Seq(Tests)
      OBVIOUS
    <3>2. <<Fill(w, Append(out, t))>> \in Seq(Calls)
      BY <3>1, CallsOfNodes, CallLists
    <3>3. QED BY <3>2, StackMoves DEF At, Filling
  <2>2. WorkTyped'
    BY CostsTyped DEF WorkTyped
  <2>3. OutcomeTyped'
    BY DEF OutcomeTyped
  <2>4. NodesTyped'
    BY WithoutTyped DEF NodesTyped, Granted, Raised, Admitted
  <2>5. ProcessTyped'
    BY DEF ProcessTyped
  <2>6. ChannelsTyped'
    BY DEF ChannelsTyped
  <2>7. QED BY <2>1, <2>2, <2>3, <2>4, <2>5, <2>6
<1>3. ASSUME NEW w \in Nodes, NEW out \in Seq(Tests), NEW donor \in Nodes,
         NEW chunk \in SUBSET pending,
         FillBorrow(w, out, donor, chunk)
  PROVE Typed'
  <2> USE <1>3 DEF Typed, FillBorrow, still, work, gate, line, nodes, process, outcome
  <2>1. StackTyped'
    BY DEF StackTyped
  <2>2. WorkTyped'
    BY DEF WorkTyped, Transferred
  <2>3. OutcomeTyped'
    BY DEF OutcomeTyped
  <2>4. NodesTyped'
    BY DEF NodesTyped
  <2>5. ProcessTyped'
    BY DEF ProcessTyped
  <2>6. ChannelsTyped'
    BY DEF ChannelsTyped
  <2>7. QED BY <2>1, <2>2, <2>3, <2>4, <2>5, <2>6
<1>4. ASSUME NEW w \in Nodes, NEW out \in Seq(Tests), FillDone(w, out)  PROVE Typed'
  <2> USE <1>4 DEF Typed, FillDone, still, work, gate, line, nodes, process, outcome
  <2>1. StackTyped'
    BY StackMoves DEF At, Send, Filling
  <2>2. WorkTyped'
    BY DEF WorkTyped
  <2>3. OutcomeTyped'
    BY DEF OutcomeTyped
  <2>4. NodesTyped'
    BY DEF NodesTyped
  <2>5. ProcessTyped'
    BY SentTyped DEF Send
  <2>6. ChannelsTyped'
    BY DEF ChannelsTyped
  <2>7. QED BY <2>1, <2>2, <2>3, <2>4, <2>5, <2>6
<1>5. ASSUME NEW w \in Nodes, NEW out \in Seq(Tests), FillBlocked(w, out)  PROVE Typed'
  <2> USE <1>5 DEF Typed, FillBlocked, still, work, gate, line, nodes, process, outcome
  <2>1. StackTyped'
    BY StackMoves DEF At, Send, Filling
  <2>2. WorkTyped'
    BY DEF WorkTyped
  <2>3. OutcomeTyped'
    BY DEF OutcomeTyped
  <2>4. NodesTyped'
    BY WaitTyped DEF NodesTyped
  <2>5. ProcessTyped'
    BY SentTyped DEF Send
  <2>6. ChannelsTyped'
    BY DEF ChannelsTyped
  <2>7. QED BY <2>1, <2>2, <2>3, <2>4, <2>5, <2>6
<1>6. ASSUME NEW w \in Nodes, NEW out \in Seq(Tests), FillRefused(w, out)  PROVE Typed'
  <2> USE <1>6 DEF Typed, FillRefused, still, work, gate, line, nodes, process, outcome
  <2>1. StackTyped'
    BY StackMoves DEF At, Send, Filling
  <2>2. WorkTyped'
    BY DEF WorkTyped
  <2>3. OutcomeTyped'
    BY DEF OutcomeTyped
  <2>4. NodesTyped'
    BY WaitTyped DEF NodesTyped, NotGranted
  <2>5. ProcessTyped'
    BY SentTyped DEF Send
  <2>6. ChannelsTyped'
    BY DEF ChannelsTyped
  <2>7. QED BY <2>1, <2>2, <2>3, <2>4, <2>5, <2>6
<1>7. ASSUME NEW w \in Nodes, CheckRest(w)  PROVE Typed'
  <2> USE <1>7 DEF Typed, CheckRest, still, work, gate, line, nodes, process, outcome
  <2>1. StackTyped'
    <3>1. <<Shutdown(w)>> \in Seq(Calls)
      BY CallsOfNodes, CallLists
    <3>2. QED BY <3>1, StackMoves DEF At
  <2>2. WorkTyped'
    BY DEF WorkTyped
  <2>3. OutcomeTyped'
    BY DEF OutcomeTyped
  <2>4. NodesTyped'
    BY DEF NodesTyped
  <2>5. ProcessTyped'
    BY DEF ProcessTyped
  <2>6. ChannelsTyped'
    BY DEF ChannelsTyped
  <2>7. QED BY <2>1, <2>2, <2>3, <2>4, <2>5, <2>6
<1>8. ASSUME NEW w \in Nodes, ShutdownRefused(w)  PROVE Typed'
  <2> USE <1>8 DEF Typed, ShutdownRefused, still, work, gate, line, nodes, process, outcome
  <2>1. StackTyped'
    BY StackMoves DEF At
  <2>2. WorkTyped'
    BY DEF WorkTyped
  <2>3. OutcomeTyped'
    BY DEF OutcomeTyped
  <2>4. NodesTyped'
    BY WaitTyped DEF NodesTyped, NotGranted
  <2>5. ProcessTyped'
    BY DEF ProcessTyped
  <2>6. ChannelsTyped'
    BY DEF ChannelsTyped
  <2>7. QED BY <2>1, <2>2, <2>3, <2>4, <2>5, <2>6
<1>9. ASSUME NEW w \in Nodes, ShutdownSent(w)  PROVE Typed'
  <2> USE <1>9 DEF Typed, ShutdownSent, still, work, gate, line, nodes, process, outcome
  <2>1. StackTyped'
    <3>1. <<Replan(plan[w])>> \in Seq(Calls)
      BY OtherCalls, CallLists DEF WorkTyped
    <3>2. QED BY <3>1, StackMoves DEF At
  <2>2. WorkTyped'
    BY DEF WorkTyped
  <2>3. OutcomeTyped'
    BY DEF OutcomeTyped
  <2>4. NodesTyped'
    BY WithoutTyped DEF NodesTyped, Granted, Raised, Admitted
  <2>5. ProcessTyped'
    BY DEF ProcessTyped
  <2>6. ChannelsTyped'
    BY DEF ChannelsTyped
  <2>7. QED BY <2>1, <2>2, <2>3, <2>4, <2>5, <2>6
<1>10. ASSUME NEW w \in Nodes, ShutdownAgain(w)  PROVE Typed'
  <2> USE <1>10 DEF Typed, ShutdownAgain, still, work, gate, line, nodes, process, outcome
  <2>1. StackTyped'
    BY StackMoves DEF At
  <2>2. WorkTyped'
    BY DEF WorkTyped
  <2>3. OutcomeTyped'
    BY DEF OutcomeTyped
  <2>4. NodesTyped'
    BY DEF NodesTyped
  <2>5. ProcessTyped'
    BY DEF ProcessTyped
  <2>6. ChannelsTyped'
    BY DEF ChannelsTyped
  <2>7. QED BY <2>1, <2>2, <2>3, <2>4, <2>5, <2>6
<1>11. ASSUME NEW S \in SUBSET Tests, ReplanTests(S)  PROVE Typed'
  <2> USE <1>11 DEF Typed, ReplanTests, still, work, gate, line, nodes, process, outcome
  <2>1. StackTyped'
    BY StackMoves, OrdersTyped, CallsInOrder DEF At, NodesTyped
  <2>2. WorkTyped'
    BY LayOutTyped DEF WorkTyped, NodesTyped
  <2>3. OutcomeTyped'
    BY DEF OutcomeTyped
  <2>4. NodesTyped'
    BY DEF NodesTyped
  <2>5. ProcessTyped'
    BY DEF ProcessTyped
  <2>6. ChannelsTyped'
    BY DEF ChannelsTyped
  <2>7. QED BY <2>1, <2>2, <2>3, <2>4, <2>5, <2>6
<1>12. ASSUME AdmitWaiting  PROVE Typed'
  <2> USE <1>12 DEF Typed, AdmitWaiting, still, work, gate, line, nodes, process, outcome
  <2>1. StackTyped'
    <3>1. Append(Each(Visit, waiting), Stalls) \in Seq(Calls)
      BY CallsInOrder, OtherCalls DEF NodesTyped
    <3>2. QED BY <3>1, StackMoves DEF At
  <2>2. WorkTyped'
    BY DEF WorkTyped
  <2>3. OutcomeTyped'
    BY DEF OutcomeTyped
  <2>4. NodesTyped'
    BY DEF NodesTyped
  <2>5. ProcessTyped'
    BY DEF ProcessTyped
  <2>6. ChannelsTyped'
    BY DEF ChannelsTyped
  <2>7. QED BY <2>1, <2>2, <2>3, <2>4, <2>5, <2>6
<1>13. ASSUME ResolveNothing  PROVE Typed'
  <2> USE <1>13 DEF Typed, ResolveNothing, still, work, gate, line, nodes, process, outcome
  <2>1. StackTyped'
    BY StackMoves DEF At
  <2>2. WorkTyped'
    BY DEF WorkTyped
  <2>3. OutcomeTyped'
    BY DEF OutcomeTyped
  <2>4. NodesTyped'
    BY DEF NodesTyped
  <2>5. ProcessTyped'
    BY DEF ProcessTyped
  <2>6. ChannelsTyped'
    BY DEF ChannelsTyped
  <2>7. QED BY <2>1, <2>2, <2>3, <2>4, <2>5, <2>6
<1>14. ASSUME ResolveParked  PROVE Typed'
  <2> USE <1>14 DEF Typed, ResolveParked, still, work, gate, line, nodes, process, outcome
  <2>1. StackTyped'
    <3>1. PICK i \in Candidates : Call(<<Shutdown(waiting[i])>>)
      OBVIOUS
    <3>2. waiting[i] \in Nodes
      BY DEF Candidates, NodesTyped
    <3>3. <<Shutdown(waiting[i])>> \in Seq(Calls)
      BY <3>2, CallsOfNodes, CallLists
    <3>4. QED BY <3>1, <3>3, StackMoves DEF At, Standstill
  <2>2. WorkTyped'
    BY DEF WorkTyped
  <2>3. OutcomeTyped'
    BY DEF OutcomeTyped
  <2>4. NodesTyped'
    BY DEF NodesTyped
  <2>5. ProcessTyped'
    BY DEF ProcessTyped
  <2>6. ChannelsTyped'
    BY DEF ChannelsTyped
  <2>7. QED BY <2>1, <2>2, <2>3, <2>4, <2>5, <2>6
<1>15. ASSUME NEW w \in Nodes, ResolveForce(w)  PROVE Typed'
  <2> USE <1>15 DEF Typed, ResolveForce, still, work, gate, line, nodes, process, outcome
  <2>1. StackTyped'
    <3>1. <<Check(w)>> \in Seq(Calls)
      BY CallsOfNodes, CallLists
    <3>2. QED BY <3>1, StackMoves DEF At, Forceable, Standstill
  <2>2. WorkTyped'
    BY DEF WorkTyped
  <2>3. OutcomeTyped'
    BY DEF OutcomeTyped
  <2>4. NodesTyped'
    BY WithoutTyped DEF NodesTyped, Admitted
  <2>5. ProcessTyped'
    BY DEF ProcessTyped
  <2>6. ChannelsTyped'
    BY DEF ChannelsTyped
  <2>7. QED BY <2>1, <2>2, <2>3, <2>4, <2>5, <2>6
<1>16. ASSUME NEW w \in Nodes, NEW release \in BOOLEAN, RetryGranted(w, release)  PROVE Typed'
  <2> USE <1>16 DEF Typed, RetryGranted, still, work, gate, line, nodes, process, outcome
  <2>1. StackTyped'
    BY StackMoves DEF At
  <2>2. WorkTyped'
    BY ReachesAssumption DEF WorkTyped, CompleteRequest, Learnt
  <2>3. OutcomeTyped'
    BY DEF OutcomeTyped, CompleteRequest
  <2>4. NodesTyped'
    BY WithoutTyped DEF NodesTyped, CompleteRequest, Raised, Admitted
  <2>5. ProcessTyped'
    BY DEF ProcessTyped, CompleteRequest
  <2>6. ChannelsTyped'
    <3>1. requests[w].id \in 0 .. MaxAsks
      BY ReachesAssumption DEF NodesTyped, NoRequest
    <3>2. Append(grants[w], requests[w].id) \in Seq(0 .. MaxAsks)
      BY <3>1 DEF ChannelsTyped
    <3>3. QED BY <3>2 DEF ChannelsTyped, CompleteRequest
  <2>7. QED BY <2>1, <2>2, <2>3, <2>4, <2>5, <2>6
<1>17. ASSUME NEW w \in Nodes, NEW release \in BOOLEAN, RetryRefused(w, release)  PROVE Typed'
  <2> USE <1>17 DEF Typed, RetryRefused, still, work, gate, line, nodes, process, outcome
  <2>1. StackTyped'
    <3>1. <<Admit>> \in Seq(Calls)
      BY OtherCalls, CallLists
    <3>2. QED BY <3>1, StackMoves DEF At
  <2>2. WorkTyped'
    BY DEF WorkTyped
  <2>3. OutcomeTyped'
    BY DEF OutcomeTyped
  <2>4. NodesTyped'
    BY DEF NodesTyped, Wait
  <2>5. ProcessTyped'
    BY DEF ProcessTyped
  <2>6. ChannelsTyped'
    BY DEF ChannelsTyped
  <2>7. QED BY <2>1, <2>2, <2>3, <2>4, <2>5, <2>6
<1>18. ASSUME NEW w \in Nodes, ResolveForceRequest(w)  PROVE Typed'
  <2> USE <1>18 DEF Typed, ResolveForceRequest, still, work, gate, line, nodes, process, outcome
  <2>1. StackTyped'
    BY StackMoves DEF At, Forceable, Standstill
  <2>2. WorkTyped'
    BY ReachesAssumption DEF WorkTyped, CompleteRequest, Learnt
  <2>3. OutcomeTyped'
    BY DEF OutcomeTyped, CompleteRequest
  <2>4. NodesTyped'
    BY WithoutTyped DEF NodesTyped, CompleteRequest, Raised, Admitted
  <2>5. ProcessTyped'
    BY DEF ProcessTyped, CompleteRequest
  <2>6. ChannelsTyped'
    <3>1. requests[w].id \in 0 .. MaxAsks
      BY ReachesAssumption DEF NodesTyped, NoRequest
    <3>2. Append(grants[w], requests[w].id) \in Seq(0 .. MaxAsks)
      BY <3>1 DEF ChannelsTyped
    <3>3. QED BY <3>2 DEF ChannelsTyped, CompleteRequest
  <2>7. QED BY <2>1, <2>2, <2>3, <2>4, <2>5, <2>6
<1>19. ASSUME NEW w \in Nodes, Completed(w)  PROVE Typed'
  <2> USE <1>19 DEF Typed, Completed, still, work, gate, line, nodes, process, outcome
  <2>1. StackTyped'
    BY CallsOfNodes, OtherCalls DEF StackTyped
  <2>2. WorkTyped'
    BY WithoutTyped DEF WorkTyped
  <2>3. OutcomeTyped'
    BY HeadMail DEF OutcomeTyped, Takes
  <2>4. NodesTyped'
    BY WaitTyped DEF NodesTyped
  <2>5. ProcessTyped'
    BY DEF ProcessTyped
  <2>6. ChannelsTyped'
    BY TakesTyped DEF ChannelsTyped
  <2>7. QED BY <2>1, <2>2, <2>3, <2>4, <2>5, <2>6
<1>20. ASSUME NEW w \in Nodes, HoldsChanged(w)  PROVE Typed'
  <2> USE <1>20 DEF Typed, HoldsChanged, still, work, gate, line, nodes, process, outcome
  <2>1. StackTyped'
    BY DEF StackTyped
  <2>2. WorkTyped'
    BY DEF WorkTyped
  <2>3. OutcomeTyped'
    BY DEF OutcomeTyped
  <2>4. NodesTyped'
    BY HeadMail DEF NodesTyped, Takes
  <2>5. ProcessTyped'
    BY DEF ProcessTyped
  <2>6. ChannelsTyped'
    BY TakesTyped DEF ChannelsTyped
  <2>7. QED BY <2>1, <2>2, <2>3, <2>4, <2>5, <2>6
<1>21. ASSUME NEW w \in Nodes, Requested(w)  PROVE Typed'
  <2> USE <1>21 DEF Typed, Requested, still, work, gate, line, nodes, process, outcome
  <2>1. StackTyped'
    <3>1. <<Loop>> \in Seq(Calls) /\ <<Retry(w, TRUE), Loop>> \in Seq(Calls)
      BY CallsOfNodes, OtherCalls, CallLists
    <3>2. QED BY <3>1, Zenon DEF StackTyped
  <2>2. WorkTyped'
    BY DEF WorkTyped
  <2>3. OutcomeTyped'
    BY DEF OutcomeTyped
  <2>4. NodesTyped'
    <3> DEFINE m == Head(events[w])[2]
    <3>1. m \in Requesting
      BY HeadMail DEF Takes
    <3>2. waiting' \in Seq(Nodes)
      BY WaitTyped DEF NodesTyped
    <3>3. live' = [live EXCEPT ![w] = m.holds]
          /\ \/ UNCHANGED requests
             \/ requests' = [requests EXCEPT ![w] =
                    [id |-> m.id, test |-> m.test, key |-> m.key, cancelled |-> m.cancelled]]
      OBVIOUS
    <3> HIDE DEF m
    <3>4. m.holds \in Nat
           /\ [id |-> m.id, test |-> m.test, key |-> m.key, cancelled |-> m.cancelled]
                 \in [id : 1 .. MaxAsks, test : Tests, key : Fixtures, cancelled : BOOLEAN]
      BY <3>1 DEF Requesting
    <3>5. QED BY <3>2, <3>3, <3>4 DEF NodesTyped
  <2>5. ProcessTyped'
    BY DEF ProcessTyped
  <2>6. ChannelsTyped'
    BY TakesTyped DEF ChannelsTyped
  <2>7. QED BY <2>1, <2>2, <2>3, <2>4, <2>5, <2>6
<1>22. ASSUME NEW w \in Nodes, Crashed(w)  PROVE Typed'
  <2> USE <1>22 DEF Typed, Crashed, RemoveNode, ReleaseRuntime, still, work, gate, line, nodes,
      process, outcome
  <2>1. StackTyped'
    BY RemoveCallsTyped, OtherCalls DEF StackTyped
  <2>2. WorkTyped'
    <3>1. Unstarted(w) \in SUBSET Tests
      BY UnstartedTyped
    <3>2. queue' \in [Nodes -> Seq(Tests)]
      BY DEF WorkTyped
    <3>3. QED BY <3>1, <3>2 DEF WorkTyped
  <2>3. OutcomeTyped'
    BY DEF OutcomeTyped, WorkTyped, Begun
  <2>4. NodesTyped'
    BY WithoutTyped DEF NodesTyped, Admitted
  <2>5. ProcessTyped'
    BY DEF ProcessTyped
  <2>6. ChannelsTyped'
    BY TakesTyped DEF ChannelsTyped
  <2>7. QED BY <2>1, <2>2, <2>3, <2>4, <2>5, <2>6
<1>23. ASSUME NEW w \in Nodes, Finished(w)  PROVE Typed'
  <2> USE <1>23 DEF Typed, Finished, still, work, gate, line, nodes, process, outcome
  <2>1. StackTyped'
    <3>1. <<Loop>> \in Seq(Calls) /\ <<Admit, Remove(w), Loop>> \in Seq(Calls)
      BY CallsOfNodes, OtherCalls, CallLists
    <3>2. QED BY <3>1, Zenon DEF StackTyped
  <2>2. WorkTyped'
    BY DEF WorkTyped
  <2>3. OutcomeTyped'
    BY DEF OutcomeTyped
  <2>4. NodesTyped'
    BY WithoutTyped DEF NodesTyped, ReleaseRuntime, Admitted
  <2>5. ProcessTyped'
    BY DEF ProcessTyped
  <2>6. ChannelsTyped'
    BY TakesTyped DEF ChannelsTyped
  <2>7. QED BY <2>1, <2>2, <2>3, <2>4, <2>5, <2>6
<1>24. ASSUME NEW w \in Nodes, FinishedRemove(w)  PROVE Typed'
  <2> USE <1>24 DEF Typed, FinishedRemove, RemoveNode, ReleaseRuntime, still, work, gate, line,
      nodes, process, outcome
  <2>1. StackTyped'
    BY StackMoves, RemoveCallsTyped DEF At
  <2>2. WorkTyped'
    <3>1. Unstarted(w) \in SUBSET Tests
      BY UnstartedTyped
    <3>2. queue' \in [Nodes -> Seq(Tests)]
      BY DEF WorkTyped
    <3>3. QED BY <3>1, <3>2 DEF WorkTyped
  <2>3. OutcomeTyped'
    BY DEF OutcomeTyped, WorkTyped, Begun
  <2>4. NodesTyped'
    BY WithoutTyped DEF NodesTyped, Admitted
  <2>5. ProcessTyped'
    BY DEF ProcessTyped
  <2>6. ChannelsTyped'
    BY DEF ChannelsTyped
  <2>7. QED BY <2>1, <2>2, <2>3, <2>4, <2>5, <2>6
<1>25. ASSUME NEW w \in Nodes, Ready(w)  PROVE Typed'
  <2> USE <1>25 DEF Typed, Ready, still, work, gate, line, nodes, process, outcome
  <2>1. StackTyped'
    BY CallsOfNodes, OtherCalls DEF StackTyped
  <2>2. WorkTyped'
    BY DEF WorkTyped
  <2>3. OutcomeTyped'
    BY DEF OutcomeTyped
  <2>4. NodesTyped'
    BY DEF NodesTyped
  <2>5. ProcessTyped'
    BY DEF ProcessTyped
  <2>6. ChannelsTyped'
    BY TakesTyped DEF ChannelsTyped
  <2>7. QED BY <2>1, <2>2, <2>3, <2>4, <2>5, <2>6
<1>26. ASSUME NEW w \in Nodes, Collected(w)  PROVE Typed'
  <2> USE <1>26 DEF Typed, Collected, still, work, gate, line, nodes, process, outcome
  <2>1. StackTyped'
    <3>1. <<Loop>> \in Seq(Calls) /\ <<Replan(Orphans), Loop>> \in Seq(Calls)
      BY OtherCalls, CallLists DEF Orphans, WorkTyped
    <3>2. ASSUME NEW order \in Orders(registered)
          PROVE  Append(Each(Check, order), Loop) \in Seq(Calls)
      <4>1. order \in Seq(registered) /\ registered \in SUBSET Nodes
        BY <3>2, OrdersTyped DEF NodesTyped
      <4>2. order \in Seq(Nodes)
        BY <4>1
      <4>3. QED BY <4>2, CallsInOrder, OtherCalls
    <3>3. todo' \in Seq(Calls)
      BY <3>1, <3>2
    <3>4. QED BY <3>3 DEF StackTyped
  <2>2. WorkTyped'
    BY DEF WorkTyped
  <2>3. OutcomeTyped'
    BY DEF OutcomeTyped
  <2>4. NodesTyped'
    BY DEF NodesTyped
  <2>5. ProcessTyped'
    BY DEF ProcessTyped
  <2>6. ChannelsTyped'
    BY TakesTyped DEF ChannelsTyped
  <2>7. QED BY <2>1, <2>2, <2>3, <2>4, <2>5, <2>6
<1>27. ASSUME RestartNode  PROVE Typed'
  <2> USE <1>27 DEF Typed, RestartNode, still, work, gate, line, nodes, process, outcome
  <2>1. StackTyped'
    BY StackMoves, CallsInOrder, OrdersTyped DEF At, TriggerShutdown, NodesTyped
  <2>2. WorkTyped'
    BY DEF WorkTyped
  <2>3. OutcomeTyped'
    BY DEF OutcomeTyped
  <2>4. NodesTyped'
    <3> DEFINE s == [session EXCEPT !.failures = session.failures + 1]
    <3>1. session.failures + 1 \in Nat /\ session.stopping \in BOOLEAN
          /\ session = [stopping |-> session.stopping, failures |-> session.failures]
      BY DEF NodesTyped
    <3>2. s \in [stopping : BOOLEAN, failures : Nat]
      BY <3>1
    <3>3. [s EXCEPT !.stopping = TRUE] \in [stopping : BOOLEAN, failures : Nat]
      BY <3>2
    <3>4. session' \in [stopping : BOOLEAN, failures : Nat]
      <4>1. session' = s \/ session' = [s EXCEPT !.stopping = TRUE]
           
              \/ session' = [stopping |-> FALSE, failures |-> session.failures + 1]
        <5>1. TriggerShutdown(s) => session' = s \/ session' = [s EXCEPT !.stopping = TRUE]
          <6> HIDE DEF s
          <6>1. QED BY DEF TriggerShutdown
        <5>2. TriggerShutdown(s)
              \/ session' = [stopping |-> FALSE, failures |-> session.failures + 1]
          BY Zenon
        <5> HIDE DEF s
        <5>3. QED BY <5>1, <5>2
      <4> HIDE DEF s
      <4>2. [stopping |-> FALSE, failures |-> session.failures + 1]
              \in [stopping : BOOLEAN, failures : Nat]
        BY <3>1
      <4>3. QED BY ONLY <4>1, <4>2, <3>2, <3>3
    <3>5. QED BY <3>4 DEF NodesTyped
  <2>5. ProcessTyped'
    BY DEF ProcessTyped, Nodes
  <2>6. ChannelsTyped'
    BY DEF ChannelsTyped
  <2>7. QED BY <2>1, <2>2, <2>3, <2>4, <2>5, <2>6
<1>28. ASSUME LoopOnce  PROVE Typed'
  <2> USE <1>28 DEF Typed, LoopOnce, still, work, gate, line, nodes, process, outcome
  <2>1. StackTyped'
    BY StackMoves, CallsInOrder, OrdersTyped DEF At, TriggerShutdown, NodesTyped
  <2>2. WorkTyped'
    BY DEF WorkTyped
  <2>3. OutcomeTyped'
    BY DEF OutcomeTyped
  <2>4. NodesTyped'
    BY DEF NodesTyped, TriggerShutdown
  <2>5. ProcessTyped'
    BY DEF ProcessTyped
  <2>6. ChannelsTyped'
    BY DEF ChannelsTyped
  <2>7. QED BY <2>1, <2>2, <2>3, <2>4, <2>5, <2>6
<1>29. ASSUME NEW w \in Nodes, StopGranted(w)  PROVE Typed'
  <2> USE <1>29 DEF Typed, StopGranted, still, work, gate, line, nodes, process, outcome
  <2>1. StackTyped'
    BY StackMoves DEF At
  <2>2. WorkTyped'
    BY DEF WorkTyped
  <2>3. OutcomeTyped'
    BY DEF OutcomeTyped
  <2>4. NodesTyped'
    BY WithoutTyped DEF NodesTyped, Raised, Admitted, Tell
  <2>5. ProcessTyped'
    BY DEF ProcessTyped
  <2>6. ChannelsTyped'
    BY DEF ChannelsTyped
  <2>7. QED BY <2>1, <2>2, <2>3, <2>4, <2>5, <2>6
<1>30. ASSUME NEW w \in Nodes, StopBlocked(w)  PROVE Typed'
  <2> USE <1>30 DEF Typed, StopBlocked, still, work, gate, line, nodes, process, outcome
  <2>1. StackTyped'
    BY StackMoves DEF At
  <2>2. WorkTyped'
    BY DEF WorkTyped
  <2>3. OutcomeTyped'
    BY DEF OutcomeTyped
  <2>4. NodesTyped'
    BY DEF NodesTyped, Tell
  <2>5. ProcessTyped'
    BY DEF ProcessTyped
  <2>6. ChannelsTyped'
    BY DEF ChannelsTyped
  <2>7. QED BY <2>1, <2>2, <2>3, <2>4, <2>5, <2>6
<1>31. ASSUME NEW w \in Nodes, StopWithdraws(w)  PROVE Typed'
  <2> USE <1>31 DEF Typed, StopWithdraws, still, work, gate, line, nodes, process, outcome
  <2>1. StackTyped'
    BY StackMoves DEF At
  <2>2. WorkTyped'
    BY DEF WorkTyped
  <2>3. OutcomeTyped'
    <3>1. LastOf(queue[w]) \in Tests
      BY DEF WorkTyped, LastOf
    <3>2. QED BY <3>1 DEF OutcomeTyped
  <2>4. NodesTyped'
    BY WithoutTyped DEF NodesTyped, Admitted, Tell
  <2>5. ProcessTyped'
    BY DEF ProcessTyped
  <2>6. ChannelsTyped'
    BY DEF ChannelsTyped
  <2>7. QED BY <2>1, <2>2, <2>3, <2>4, <2>5, <2>6
<1>32. ASSUME NEW w \in Nodes, Boot(w)  PROVE Typed'
  <2> USE <1>32 DEF Typed, Boot, central, work, gate, line, nodes, process, outcome
  <2>1. StackTyped'
    BY DEF StackTyped
  <2>2. WorkTyped'
    BY DEF WorkTyped
  <2>3. OutcomeTyped'
    BY DEF OutcomeTyped
  <2>4. NodesTyped'
    BY DEF NodesTyped
  <2>5. ProcessTyped'
    BY DEF ProcessTyped
  <2>6. ChannelsTyped'
    <3>1. <<<<"ready", 0>>, <<"collected", 0>>>> \in Seq(Mail)
      BY MailTyped, MailLists
    <3>2. QED BY <3>1, PostTyped DEF ChannelsTyped
  <2>7. QED BY <2>1, <2>2, <2>3, <2>4, <2>5, <2>6
<1>33. ASSUME NEW w \in Nodes, StartTest(w)  PROVE Typed'
  <2> USE <1>33 DEF Typed, StartTest, central, work, gate, line, nodes, process, outcome
  <2>1. StackTyped'
    BY DEF StackTyped
  <2>2. WorkTyped'
    BY DEF WorkTyped
  <2>3. OutcomeTyped'
    BY DEF OutcomeTyped, MayStart, ProcessTyped
  <2>4. NodesTyped'
    BY DEF NodesTyped
  <2>5. ProcessTyped'
    BY CostsTyped DEF ProcessTyped, MayStart, Idling, Asking
  <2>6. ChannelsTyped'
    <3>1. Head(inbox[w]) \in Tests /\ alive[w] \in SUBSET Fixtures
      BY DEF ProcessTyped, MayStart
    <3>2. HoldsEvent(alive[w], After(Head(inbox[w]), alive[w])) \in Seq(Mail)
      BY <3>1, CostsTyped, HoldsEventTyped
    <3>3. QED BY <3>2, PostTyped DEF ChannelsTyped
  <2>7. QED BY <2>1, <2>2, <2>3, <2>4, <2>5, <2>6
<1>34. ASSUME NEW w \in Nodes, SkipTest(w)  PROVE Typed'
  <2> USE <1>34 DEF Typed, SkipTest, central, work, gate, line, nodes, process, outcome
  <2>1. StackTyped'
    BY DEF StackTyped
  <2>2. WorkTyped'
    BY DEF WorkTyped
  <2>3. OutcomeTyped'
    BY DEF OutcomeTyped
  <2>4. NodesTyped'
    BY DEF NodesTyped
  <2>5. ProcessTyped'
    BY DEF ProcessTyped, MayStart
  <2>6. ChannelsTyped'
    <3>1. Head(inbox[w]) \in Tests
      BY DEF ProcessTyped, MayStart
    <3>2. Skipped(Head(inbox[w])) \in Seq(Mail)
      BY <3>1, MailTyped, MailLists DEF Skipped
    <3>3. QED BY <3>2, PostTyped DEF ChannelsTyped
  <2>7. QED BY <2>1, <2>2, <2>3, <2>4, <2>5, <2>6
<1>35. ASSUME NEW w \in Nodes, FinishTest(w)  PROVE Typed'
  <2> USE <1>35 DEF Typed, FinishTest, central, work, gate, line, nodes, process, outcome
  <2>1. StackTyped'
    BY DEF StackTyped
  <2>2. WorkTyped'
    BY DEF WorkTyped
  <2>3. OutcomeTyped'
    BY DEF OutcomeTyped
  <2>4. NodesTyped'
    BY DEF NodesTyped
  <2>5. ProcessTyped'
    <3>1. inbox[w] \in Seq(Tests) /\ inbox[w] # <<>> /\ alive[w] \in SUBSET Fixtures
      BY DEF ProcessTyped, Idling
    <3>2. Tail(inbox[w]) \in Seq(Tests) /\ (Len(inbox[w]) > 1 => inbox[w][2] \in Tests)
      BY <3>1
    <3>3. (IF Len(inbox[w]) > 1 THEN Kept(inbox[w][2], alive[w]) ELSE {}) \in SUBSET Fixtures
      BY <3>1, <3>2, CostsTyped
    <3>4. permit[w].state = NotAsking
      BY DEF ProcessTyped, Idling, Asking
    <3>5. QED BY <3>2, <3>3, <3>4 DEF ProcessTyped, Idling
  <2>6. ChannelsTyped'
    <3>1. inbox[w] \in Seq(Tests) /\ inbox[w] # <<>> /\ alive[w] \in SUBSET Fixtures
      BY DEF ProcessTyped, Idling
    <3>2. Head(inbox[w]) \in Tests /\ (Len(inbox[w]) > 1 => inbox[w][2] \in Tests)
      BY <3>1
    <3>3. (IF Len(inbox[w]) > 1 THEN Kept(inbox[w][2], alive[w]) ELSE {}) \in SUBSET Fixtures
      BY <3>1, <3>2, CostsTyped
    <3> DEFINE left == IF Len(inbox[w]) > 1 THEN Kept(inbox[w][2], alive[w]) ELSE {}
    <3>4. Post(w, Append(HoldsEvent(alive[w], left), <<"complete", Head(inbox[w])>>))
      OBVIOUS
    <3> HIDE DEF left
    <3>5. Append(HoldsEvent(alive[w], left), <<"complete", Head(inbox[w])>>) \in Seq(Mail)
      BY <3>1, <3>2, <3>3, HoldsEventTyped, MailTyped, MailLists DEF left
    <3>6. QED BY <3>4, <3>5, PostTyped DEF ChannelsTyped
  <2>7. QED BY <2>1, <2>2, <2>3, <2>4, <2>5, <2>6
<1>36. ASSUME NEW w \in Nodes, Ask(w)  PROVE Typed'
  <2> USE <1>36 DEF Typed, Ask, central, work, gate, line, nodes, process, outcome
  <2>1. StackTyped'
    BY DEF StackTyped
  <2>2. WorkTyped'
    BY DEF WorkTyped
  <2>3. OutcomeTyped'
    BY DEF OutcomeTyped
  <2>4. NodesTyped'
    BY DEF NodesTyped
  <2>5. ProcessTyped'
    BY AskingTyped, ReachesAssumption DEF ProcessTyped, Idling, Asking, NotAsking
  <2>6. ChannelsTyped'
    <3>1. Head(inbox[w]) \in Tests /\ alive[w] \in SUBSET Fixtures /\ permit[w] \in PermitRecords
      BY DEF ProcessTyped, Idling
    <3>2. permit[w].id + 1 \in 1 .. MaxAsks /\ HoldOf(alive[w]) \in Nat
      BY <3>1, PermitFields, HoldOfNat, ReachesAssumption
    <3>3. PICK f \in Reaches[Head(inbox[w])] :
            Post(w, <<<<"request", [id |-> permit[w].id + 1, test |-> Head(inbox[w]), key |-> f,
                                    holds |-> HoldOf(alive[w]), cancelled |-> FALSE]>>>>)
      OBVIOUS
    <3>4. f \in Fixtures
      BY <3>1, <3>3, ReachesAssumption
    <3>5. [id |-> permit[w].id + 1, test |-> Head(inbox[w]), key |-> f,
           holds |-> HoldOf(alive[w]), cancelled |-> FALSE] \in Requesting
      BY <3>1, <3>2, <3>4 DEF Requesting
    <3>6. QED BY <3>3, <3>5, PostTyped, MailTyped, MailLists DEF ChannelsTyped
  <2>7. QED BY <2>1, <2>2, <2>3, <2>4, <2>5, <2>6
<1>37. ASSUME NEW w \in Nodes, GiveUp(w)  PROVE Typed'
  <2> USE <1>37 DEF Typed, GiveUp, central, work, gate, line, nodes, process, outcome
  <2>1. StackTyped'
    BY DEF StackTyped
  <2>2. WorkTyped'
    BY DEF WorkTyped
  <2>3. OutcomeTyped'
    BY DEF OutcomeTyped
  <2>4. NodesTyped'
    BY DEF NodesTyped
  <2>5. ProcessTyped'
    <3>1. permit[w] \in PermitRecords /\ using[w] = Asking
      BY DEF ProcessTyped, NotAsking
    <3>2. [permit[w] EXCEPT !.state = "giving_up"] \in PermitRecords
      BY <3>1, PermitMoves
    <3>3. permit' = [permit EXCEPT ![w] = [permit[w] EXCEPT !.state = "giving_up"]]
      OBVIOUS
    <3>4. QED BY <3>1, <3>2, <3>3 DEF ProcessTyped
  <2>6. ChannelsTyped'
    <3>1. permit[w] \in PermitRecords /\ permit[w].state # NotAsking /\ alive[w] \in SUBSET Fixtures
      BY DEF ProcessTyped, NotAsking
    <3>2. Head(inbox[w]) \in Tests
      BY <3>1 DEF ProcessTyped, Idling, Asking
    <3>3. permit[w].id \in 1 .. MaxAsks /\ permit[w].key \in Fixtures /\ HoldOf(alive[w]) \in Nat
      BY <3>1, PermitFields, HoldOfNat
    <3>4. [id |-> permit[w].id, test |-> Head(inbox[w]), key |-> permit[w].key,
           holds |-> HoldOf(alive[w]), cancelled |-> TRUE] \in Requesting
      BY <3>2, <3>3 DEF Requesting
    <3>5. QED BY <3>4, PostTyped, MailTyped, MailLists DEF ChannelsTyped
  <2>7. QED BY <2>1, <2>2, <2>3, <2>4, <2>5, <2>6
<1>38. ASSUME NEW w \in Nodes, GrantArrives(w)  PROVE Typed'
  <2> USE <1>38 DEF Typed, GrantArrives, central, work, gate, line, nodes, process, outcome
  <2>1. StackTyped'
    BY DEF StackTyped
  <2>2. WorkTyped'
    BY DEF WorkTyped
  <2>3. OutcomeTyped'
    BY DEF OutcomeTyped
  <2>4. NodesTyped'
    BY DEF NodesTyped
  <2>5. ProcessTyped'
    <3> DEFINE b == permit[w].granted
                   \/ (permit[w].state # NotAsking /\ Head(grants[w]) = permit[w].id)
               p == [permit[w] EXCEPT !.granted = b]
    <3>1. permit[w] \in PermitRecords
      BY DEF ProcessTyped
    <3>2. permit' = [permit EXCEPT ![w] = p]
      OBVIOUS
    <3>3. b \in BOOLEAN /\ (b => permit[w].state # NotAsking)
      BY <3>1, PermitFields
    <3>4. p \in PermitRecords
      <4> HIDE DEF b
      <4>1. QED BY <3>1, <3>3, PermitMoves
    <3>5. p.state = permit[w].state
      BY <3>1 DEF PermitRecords
    <3> HIDE DEF p
    <3>6. QED BY <3>2, <3>4, <3>5 DEF ProcessTyped
  <2>6. ChannelsTyped'
    BY DEF ChannelsTyped
  <2>7. QED BY <2>1, <2>2, <2>3, <2>4, <2>5, <2>6
<1>39. ASSUME NEW w \in Nodes, NEW reached \in BOOLEAN, GoOn(w, reached)  PROVE Typed'
  <2> USE <1>39 DEF Typed, GoOn, central, work, gate, line, nodes, process, outcome
  <2>1. StackTyped'
    BY DEF StackTyped
  <2>2. WorkTyped'
    BY DEF WorkTyped
  <2>3. OutcomeTyped'
    BY DEF OutcomeTyped
  <2>4. NodesTyped'
    BY DEF NodesTyped
  <2>5. ProcessTyped'
    <3> DEFINE f     == permit[w].key
               t     == Head(inbox[w])
               setup == IF permit[w].state = "asking" THEN SetupSlots[f] ELSE 0
               after == IF reached THEN alive[w] \cup {f} ELSE alive[w]
               n     == Larger(setup + HoldOf(alive[w]), Demand[t] + HoldOf(after))
    <3>1. permit[w] \in PermitRecords /\ alive[w] \in SUBSET Fixtures
      BY DEF ProcessTyped
    <3>2. permit[w].state # NotAsking /\ f \in Fixtures
      BY <3>1, PermitFields
    <3>3. status[w] = "up" /\ inbox[w] # <<>> /\ t \in Tests
      BY <3>2 DEF ProcessTyped, Idling, Asking
    <3>4. after \in SUBSET Fixtures
      BY <3>1, <3>2
    <3>5. HoldOf(alive[w]) \in Nat /\ HoldOf(after) \in Nat
      <4> HIDE DEF after
      <4>1. QED BY <3>1, <3>4, HoldOfNat
    <3>6. setup \in Nat /\ Demand[t] \in Nat
      <4> HIDE DEF t, f
      <4>1. QED BY <3>2, <3>3, SetupAssumption, DemandAssumption
    <3>7. n \in Nat
      <4> HIDE DEF after, setup, t
      <4>1. QED BY <3>5, <3>6 DEF Larger
    <3>8. [NoPermit EXCEPT !.id = permit[w].id] \in PermitRecords
          /\ [NoPermit EXCEPT !.id = permit[w].id].state = NotAsking
      BY <3>1, PermitMoves DEF NoPermit
    <3>9. using' = [using EXCEPT ![w] = n] /\ alive' = [alive EXCEPT ![w] = after]
      OBVIOUS
    <3> HIDE DEF n, after
    <3>10. QED BY <3>3, <3>4, <3>7, <3>8, <3>9 DEF ProcessTyped
  <2>6. ChannelsTyped'
    BY PostTyped, HoldsEventTyped, PermitFields DEF ChannelsTyped, ProcessTyped, NotAsking
  <2>7. QED BY <2>1, <2>2, <2>3, <2>4, <2>5, <2>6
<1>40. ASSUME NEW w \in Nodes, Exit(w)  PROVE Typed'
  <2> USE <1>40 DEF Typed, Exit, Leave, central, work, gate, line, nodes, process, outcome
  <2>1. StackTyped'
    BY DEF StackTyped
  <2>2. WorkTyped'
    BY DEF WorkTyped
  <2>3. OutcomeTyped'
    BY DEF OutcomeTyped
  <2>4. NodesTyped'
    BY DEF NodesTyped
  <2>5. ProcessTyped'
    BY NoPermitTyped DEF ProcessTyped, Idling, NoPermit, NotAsking
  <2>6. ChannelsTyped'
    <3>1. <<<<"finished", 0>>>> \in Seq(Mail)
      BY MailTyped, MailLists
    <3>2. events' \in [Nodes -> Seq(Mail)]
      BY <3>1, PostTyped DEF ChannelsTyped
    <3>3. <<>> \in Seq(0 .. MaxAsks)
      OBVIOUS
    <3>4. grants' \in [Nodes -> Seq(0 .. MaxAsks)]
      BY <3>3 DEF ChannelsTyped
    <3>5. QED BY <3>2, <3>4 DEF ChannelsTyped
  <2>7. QED BY <2>1, <2>2, <2>3, <2>4, <2>5, <2>6
<1>41. ASSUME NEW w \in Nodes, Crash(w)  PROVE Typed'
  <2> USE <1>41 DEF Typed, Crash, Leave, central, work, gate, line, nodes, process, outcome
  <2>1. StackTyped'
    BY DEF StackTyped
  <2>2. WorkTyped'
    BY DEF WorkTyped
  <2>3. OutcomeTyped'
    BY DEF OutcomeTyped
  <2>4. NodesTyped'
    BY DEF NodesTyped
  <2>5. ProcessTyped'
    BY NoPermitTyped DEF ProcessTyped, Idling, NoPermit, NotAsking
  <2>6. ChannelsTyped'
    <3>1. <<<<"down", 0>>>> \in Seq(Mail)
      BY MailTyped, MailLists
    <3>2. events' \in [Nodes -> Seq(Mail)]
      BY <3>1, PostTyped DEF ChannelsTyped
    <3>3. <<>> \in Seq(0 .. MaxAsks)
      OBVIOUS
    <3>4. grants' \in [Nodes -> Seq(0 .. MaxAsks)]
      BY <3>3 DEF ChannelsTyped
    <3>5. QED BY <3>2, <3>4 DEF ChannelsTyped
  <2>7. QED BY <2>1, <2>2, <2>3, <2>4, <2>5, <2>6
<1>42. ASSUME UNCHANGED vars  PROVE Typed'
  <2> USE <1>42 DEF Typed, vars, work, gate, line, nodes, process, outcome
  <2>1. StackTyped'
    BY DEF StackTyped
  <2>2. WorkTyped'
    BY DEF WorkTyped
  <2>3. OutcomeTyped'
    BY DEF OutcomeTyped
  <2>4. NodesTyped'
    BY DEF NodesTyped
  <2>5. ProcessTyped'
    BY DEF ProcessTyped
  <2>6. ChannelsTyped'
    BY DEF ChannelsTyped
  <2>7. QED BY <2>1, <2>2, <2>3, <2>4, <2>5, <2>6
<1>43. /\ AtOp("fill") => Head(todo).out \in Seq(Tests)
       /\ AtOp("replan") => Head(todo).tests \in SUBSET Tests
  BY StackMoves, CallFields DEF Typed, AtOp
<1>44. ASSUME NEW w \in Nodes, AtOp("fill"), Filler(w, Head(todo).out)  PROVE Typed'
  BY <1>44, <1>43, <1>2, <1>3, <1>4, <1>5, <1>6 DEF Filler
<1>45. ASSUME NEW w \in Nodes, Common(w)  PROVE Typed'
  BY <1>45, <1>8, <1>9, <1>10,
     <1>19, <1>20, <1>23, <1>25, <1>26,
     <1>29, <1>30, <1>31,
     <1>21, <1>15, <1>18, <1>16, <1>17 DEF Common
<1>46. ASSUME Anywhere  PROVE Typed'
  BY <1>46, <1>43, <1>11, <1>12, <1>13, <1>14, <1>27
  DEF Anywhere
<1>47. ASSUME Controller  PROVE Typed'
  BY <1>47, <1>44, <1>45, <1>46, <1>1, <1>7, <1>22, <1>24, <1>28
  DEF Controller
<1>48. ASSUME NEW w \in Nodes, Worker(w)  PROVE Typed'
  BY <1>48, <1>32, <1>33, <1>34, <1>35, <1>40, <1>36, <1>38, <1>39 DEF Worker
<1>49. QED BY <1>42, <1>47, <1>48, <1>37, <1>41 DEF Next, Stopped

(* The session starts with the types in place.                             *)
LEMMA TypedInit == Init => Typed
<1> SUFFICES ASSUME Init  PROVE Typed
  OBVIOUS
<1> USE DEF Init, Start
<1>1. StackTyped
  <2>1. <<Replan(Tests), Loop>> \in Seq(Calls)
    BY OtherCalls, CallLists
  <2>2. QED BY <2>1 DEF StackTyped
<1>2. WorkTyped
  <2>1. <<>> \in Seq(Tests)
    OBVIOUS
  <2>2. QED BY <2>1 DEF WorkTyped
<1>3. OutcomeTyped
  BY DEF OutcomeTyped
<1>4. NodesTyped
  BY DEF NodesTyped, Nodes
<1>5. ProcessTyped
  <2>1. <<>> \in Seq(Tests)
    OBVIOUS
  <2>2. QED BY <2>1, NoPermitTyped DEF ProcessTyped, Idling, NoPermit, NotAsking
<1>6. ChannelsTyped
  <2>1. <<>> \in Seq(0 .. MaxAsks) /\ <<>> \in Seq(Mail)
    OBVIOUS
  <2>2. QED BY <2>1 DEF ChannelsTyped
<1>7. QED BY <1>1, <1>2, <1>3, <1>4, <1>5, <1>6 DEF Typed

(* Every variable always holds what the code puts there: in particular the *)
(* holds a worker reports and the demand corrected by them never go below  *)
(* zero, a worker that uses slots or asks for a permit is up with a test   *)
(* in hand, and the scheduler has taken a node down only if its process    *)
(* ended.                                                                  *)
THEOREM AlwaysTyped == Spec => []Typed
BY TypedInit, TypedStep, PTL DEF Spec

-------------------------------------------------------------------------------
(* The scheduler has met the node: it is registered, or was told to        *)
(* finish, or is gone. A handler may look it up.                           *)
IsKnown(w) == w \in registered \/ w \in told \/ w \in down

(* The kind of the i-th message of w.                                      *)
Kind(w, i) == events[w][i][1]

(* The calls that are for one node.                                        *)
NodeOps    == {"check", "rest", "shutdown", "remove", "stop", "fill", "retry"}

(* Calls that make sense: for a node the scheduler has met, and            *)
(* remove_node only for one that is gone and has nothing more to say.      *)
KnownCalls == {c \in Calls : /\ c.op \in NodeOps => IsKnown(c.node)
                             /\ c.op = "remove" => c.node \in down /\ events[c.node] = <<>>}

(* Calls that have no tests in hand.                                       *)
PlainCalls == {c \in Calls : c.op \notin {"fill", "replan"}}

(* The stack of a handler. Only the call in progress may have tests in     *)
(* hand (to lay out, or the batch of a node); a batch is drawn up only for *)
(* a node that is registered and was not told to finish.                   *)
StackShape ==
  /\ todo \in Seq(KnownCalls)
  /\ todo # <<>> => Tail(todo) \in Seq(PlainCalls)
  /\ AtOp("fill") => Head(todo).node \in registered \ told

(* Only nodes the scheduler has met wait for a slot.                       *)
WaitersKnown == \A i \in DOMAIN waiting : IsKnown(waiting[i])

(* Only a worker the scheduler has met has tests, and only such a worker   *)
(* sends more than its greetings.                                          *)
MailKnown ==
  \A w \in Nodes :
    /\ inbox[w] # <<>> => IsKnown(w)
    /\ \A i \in DOMAIN events[w] :
         Kind(w, i) \notin {"ready", "collected", "holds"} => IsKnown(w)

(* Nothing follows the last message of a worker, and its process has ended *)
(* by then.                                                                *)
ChannelEnds ==
  \A w \in Nodes : \A i \in DOMAIN events[w] :
    /\ Kind(w, i) = "finished" => i = Len(events[w]) /\ status[w] = "exited"
    /\ Kind(w, i) = "down" => i = Len(events[w]) /\ status[w] = "dead"

(* The stack and the channels fit the nodes the scheduler knows.           *)
Shape == StackShape /\ WaitersKnown /\ MailKnown /\ ChannelEnds

(* Being known, and being gone with an empty channel, are forever.         *)
Grows ==
  /\ \A v \in Nodes : IsKnown(v) => IsKnown(v)'
  /\ \A v \in Nodes : v \in down /\ events[v] = <<>> => v \in down' /\ events'[v] = <<>>

(* A call that made sense goes on making sense.                            *)
LEMMA KnownCallsGrow ==
  ASSUME Grows
  PROVE  \A c \in KnownCalls : c \in KnownCalls'
<1> SUFFICES ASSUME NEW c \in KnownCalls  PROVE c \in KnownCalls'
  OBVIOUS
<1>1. c \in Calls /\ (c.op \in NodeOps => c.node \in Nodes)
  BY DEF KnownCalls, Calls, NodeOps
<1>2. c.op = "remove" => c.op \in NodeOps
  BY DEF NodeOps
<1>3. QED BY <1>1, <1>2 DEF KnownCalls, Grows

(* The stack after a call is replaced with the calls it makes: those       *)
(* calls, then what was left.                                              *)
LEMMA StackCalled ==
  ASSUME Grows, StackShape, StackTyped, todo # <<>>, NEW calls \in Seq(KnownCalls),
         calls # <<>> => Tail(calls) \in Seq(PlainCalls), Call(calls)
  PROVE  /\ todo' \in Seq(KnownCalls')
         /\ todo' # <<>> => Tail(todo') \in Seq(PlainCalls)
         /\ calls # <<>> => todo' # <<>> /\ Head(todo') = Head(calls)
         /\ calls = <<>> => ~AtOp("fill")' /\ ~AtOp("replan")'
<1>1. Tail(todo) \in Seq(KnownCalls) /\ Tail(todo) \in Seq(PlainCalls)
  BY DEF StackShape
<1>2. Tail(todo) \in Seq(KnownCalls') /\ calls \in Seq(KnownCalls')
  BY <1>1, KnownCallsGrow
<1>3. todo' = calls \o Tail(todo)
  BY DEF Call
<1>4. CASE calls = <<>>
  <2>1. todo' = Tail(todo)
    BY <1>1, <1>3, <1>4
  <2>2. todo' # <<>> => Head(todo') \in PlainCalls /\ Tail(todo') \in Seq(PlainCalls)
    BY <1>1, <2>1
  <2>3. QED BY <1>2, <1>4, <2>1, <2>2 DEF PlainCalls, AtOp
<1>5. CASE calls # <<>>
  <2> DEFINE rest == Tail(todo)
  <2>1. rest \in Seq(KnownCalls') /\ rest \in Seq(PlainCalls)
    BY <1>1, <1>2
  <2> HIDE DEF rest
  <2>2. calls \o rest \in Seq(KnownCalls') /\ calls \o rest # <<>>
        /\ Head(calls \o rest) = Head(calls)
    BY <1>2, <1>5, <2>1
  <2>3. Tail(calls \o rest) = Tail(calls) \o rest
    BY <1>5, <2>1
  <2>4. Tail(calls) \o rest \in Seq(PlainCalls)
    BY <1>5, <2>1
  <2>5. QED BY <1>3, <1>5, <2>2, <2>3, <2>4 DEF rest
<1>6. QED BY <1>4, <1>5

(* The stack after a return.                                               *)
LEMMA StackReturned ==
  ASSUME Grows, StackShape, StackTyped, todo # <<>>, Return
  PROVE  StackShape' /\ ~AtOp("fill")' /\ ~AtOp("replan")'
<1>1. <<>> \in Seq(KnownCalls) /\ Call(<<>>)
  BY DEF Call, Return, StackTyped
<1>2. QED BY <1>1, StackCalled DEF StackShape

(* The calls for a known node, and those for no node, make sense.          *)
LEMMA KnownCallLists ==
  /\ \A w \in Nodes : IsKnown(w) =>
       /\ {Check(w), Rest(w), Shutdown(w), Stop(w)} \subseteq KnownCalls \cap PlainCalls
       /\ \A release \in BOOLEAN : Retry(w, release) \in KnownCalls \cap PlainCalls
       /\ \A out \in Seq(Tests) : Fill(w, out) \in KnownCalls
  /\ {Admit, Stalls, Restart, Loop} \subseteq KnownCalls \cap PlainCalls
  /\ \A S \in SUBSET Tests : Replan(S) \in KnownCalls
  /\ \A w \in Nodes : w \in down /\ events[w] = <<>> => Remove(w) \in KnownCalls \cap PlainCalls
<1>1. ASSUME NEW w \in Nodes, IsKnown(w)
      PROVE  /\ {Check(w), Rest(w), Shutdown(w), Stop(w)} \subseteq KnownCalls \cap PlainCalls
             /\ \A release \in BOOLEAN : Retry(w, release) \in KnownCalls \cap PlainCalls
             /\ \A out \in Seq(Tests) : Fill(w, out) \in KnownCalls
  <2>1. {Check(w), Rest(w), Shutdown(w), Stop(w)} \subseteq KnownCalls \cap PlainCalls
    BY <1>1, CallsOfNodes DEF KnownCalls, PlainCalls, Check, Rest, Shutdown, Stop
  <2>2. \A release \in BOOLEAN : Retry(w, release) \in KnownCalls \cap PlainCalls
    BY <1>1, CallsOfNodes DEF KnownCalls, PlainCalls, Retry
  <2>3. \A out \in Seq(Tests) : Fill(w, out) \in KnownCalls
    BY <1>1, CallsOfNodes DEF KnownCalls, Fill
  <2>4. QED BY <2>1, <2>2, <2>3
<1>2. {Admit, Stalls, Restart, Loop} \subseteq KnownCalls \cap PlainCalls
  BY OtherCalls DEF KnownCalls, PlainCalls, Admit, Stalls, Restart, Loop, NodeOps
<1>3. \A S \in SUBSET Tests : Replan(S) \in KnownCalls
  BY OtherCalls DEF KnownCalls, Replan, NodeOps
<1>4. ASSUME NEW w \in Nodes, w \in down, events[w] = <<>>
      PROVE  Remove(w) \in KnownCalls \cap PlainCalls
  BY <1>4, CallsOfNodes DEF KnownCalls, PlainCalls, Remove, IsKnown
<1>5. QED BY <1>1, <1>2, <1>3, <1>4

(* A loop over known nodes makes calls that make sense.                    *)
LEMMA KnownInOrder ==
  ASSUME NEW s \in Seq(Nodes), \A i \in DOMAIN s : IsKnown(s[i])
  PROVE  /\ Each(Check, s) \in Seq(KnownCalls \cap PlainCalls)
         /\ Each(Stop, s) \in Seq(KnownCalls \cap PlainCalls)
         /\ Each(Visit, s) \in Seq(KnownCalls \cap PlainCalls)
<1>1. \A i \in DOMAIN s : s[i] \in Nodes /\ IsKnown(s[i])
  OBVIOUS
<1>2. \A i \in DOMAIN s : /\ Check(s[i]) \in KnownCalls \cap PlainCalls
                          /\ Stop(s[i]) \in KnownCalls \cap PlainCalls
                          /\ Visit(s[i]) \in KnownCalls \cap PlainCalls
  BY <1>1, KnownCallLists DEF Visit
<1>3. QED BY <1>2 DEF Each

(* A call that makes one call keeps the shape of the stack.                *)
LEMMA StackPushed ==
  ASSUME Grows, StackShape, StackTyped, todo # <<>>, NEW c \in KnownCalls,
         c \in PlainCalls \/ c.op = "replan", Call(<<c>>)
  PROVE  StackShape' /\ todo' # <<>> /\ Head(todo') = c
<1>1. <<c>> \in Seq(KnownCalls) /\ <<c>> # <<>>
      /\ Head(<<c>>) = c /\ Tail(<<c>>) \in Seq(PlainCalls)
  OBVIOUS
<1>2. c.op # "fill"
  BY DEF PlainCalls
<1>3. QED BY <1>1, <1>2, StackCalled DEF StackShape, AtOp

(* A call that makes any number of calls without tests in hand keeps the   *)
(* shape of the stack.                                                     *)
LEMMA StackExtended ==
  ASSUME Grows, StackShape, StackTyped, todo # <<>>,
         NEW calls \in Seq(KnownCalls \cap PlainCalls), Call(calls)
  PROVE  StackShape' /\ ~AtOp("fill")' /\ ~AtOp("replan")'
<1>1. calls \in Seq(KnownCalls) /\ (calls # <<>> => Tail(calls) \in Seq(PlainCalls))
  OBVIOUS
<1>2. calls # <<>> => Head(calls) \in PlainCalls
  OBVIOUS
<1>3. CASE calls # <<>>
  BY <1>1, <1>2, <1>3, StackCalled DEF StackShape, AtOp, PlainCalls
<1>4. CASE calls = <<>>
  BY <1>1, <1>4, StackCalled DEF StackShape
<1>5. QED BY <1>3, <1>4

(* A stack of calls without tests in hand, for nodes known by then, has    *)
(* the shape.                                                              *)
LEMMA StackBegunKnown ==
  ASSUME todo' \in Seq(KnownCalls' \cap PlainCalls)
  PROVE  StackShape' /\ ~AtOp("fill")' /\ ~AtOp("replan")'
<1>1. todo' \in Seq(KnownCalls') /\ todo' \in Seq(PlainCalls)
  OBVIOUS
<1>2. todo' # <<>> => Tail(todo') \in Seq(PlainCalls) /\ Head(todo') \in PlainCalls
  BY <1>1
<1>3. QED BY <1>1, <1>2 DEF StackShape, AtOp, PlainCalls

(* A handler starts on a stack that has the shape, when its calls are for  *)
(* nodes already known.                                                    *)
LEMMA StackBegun ==
  ASSUME Grows, todo' \in Seq(KnownCalls \cap PlainCalls)
  PROVE  StackShape' /\ ~AtOp("fill")' /\ ~AtOp("replan")'
<1>1. todo' \in Seq(KnownCalls' \cap PlainCalls)
  BY KnownCallsGrow
<1>2. QED BY <1>1, StackBegunKnown

(* A step outside the handlers keeps the shape of the stack.               *)
LEMMA StackKept ==
  ASSUME Grows, StackShape, UNCHANGED <<todo, registered, told>>
  PROVE  StackShape'
<1>1. todo \in Seq(KnownCalls')
  BY KnownCallsGrow DEF StackShape
<1>2. QED BY <1>1 DEF StackShape, AtOp

(* What the call in progress may rely on: its node is known, and           *)
(* remove_node's is gone.                                                  *)
LEMMA HeadKnown ==
  ASSUME StackShape, todo # <<>>
  PROVE  /\ Head(todo) \in KnownCalls
         /\ Head(todo).op \in NodeOps => IsKnown(Head(todo).node)
         /\ Head(todo).op = "remove" =>
              Head(todo).node \in down /\ events[Head(todo).node] = <<>>
<1>1. Head(todo) \in KnownCalls
  BY DEF StackShape
<1>2. QED BY <1>1 DEF KnownCalls

(* A loop over the registered nodes visits known nodes.                    *)
LEMMA RegisteredInOrder ==
  ASSUME registered \in SUBSET Nodes, NEW order \in Orders(registered)
  PROVE  order \in Seq(Nodes) /\ \A i \in DOMAIN order : IsKnown(order[i])
<1>1. order \in Seq(registered)
  BY OrdersTyped
<1>2. QED BY <1>1 DEF IsKnown

(* Lists of one, two or three members of S.                                *)
LEMMA ShortLists ==
  ASSUME NEW S, NEW a \in S, NEW b \in S, NEW c \in S
  PROVE  /\ <<a>> \in Seq(S) /\ <<a, b>> \in Seq(S) /\ <<a, b, c>> \in Seq(S)
         /\ Head(<<a, b, c>>) = a /\ Tail(<<a, b, c>>) = <<b, c>>
OBVIOUS

(* One or two members in front of a list.                                  *)
LEMMA Joined ==
  ASSUME NEW S, NEW a \in S, NEW b \in S, NEW s \in Seq(S)
  PROVE  <<>> \o s = s /\ Tail(<<a>> \o s) = s /\ Head(<<a>> \o s) = a
         /\ <<a>> \o s \in Seq(S) /\ <<a>> \o s # <<>>
         /\ Tail(<<a, b>> \o s) = <<b>> \o s /\ Head(<<a, b>> \o s) = a
         /\ <<a, b>> \o s \in Seq(S) /\ <<a, b>> \o s # <<>>
<1>1. <<a>> \in Seq(S) /\ <<b>> \in Seq(S) /\ <<a, b>> \in Seq(S)
  OBVIOUS
<1>2. <<>> \o s = s
  OBVIOUS
<1>3. Tail(<<a>> \o s) = s /\ Head(<<a>> \o s) = a /\ <<a>> \o s # <<>>
  BY <1>1
<1>4. Tail(<<a, b>> \o s) = <<b>> \o s /\ Head(<<a, b>> \o s) = a /\ <<a, b>> \o s # <<>>
  BY <1>1
<1>5. QED BY <1>1, <1>2, <1>3, <1>4

(* A worker that uses slots, asks or gives up is up, was not taken down,   *)
(* and has a test in hand.                                                 *)
LEMMA Busy ==
  ASSUME ProcessTyped, NEW w \in Nodes
  PROVE  /\ using[w] # Idling \/ using[w] > Idling \/ permit[w].state # NotAsking =>
              status[w] = "up" /\ w \notin down /\ inbox[w] # <<>>
         /\ permit[w].state = "asking" \/ permit[w].granted => permit[w].state # NotAsking
<1>1. permit[w].state # NotAsking => using[w] # Idling
  BY DEF ProcessTyped, Idling, Asking
<1>2. using[w] > Idling => using[w] # Idling
  BY DEF ProcessTyped, Idling
<1>3. using[w] # Idling => status[w] = "up" /\ w \notin down /\ inbox[w] # <<>>
  BY DEF ProcessTyped
<1>4. permit[w].state = "asking" \/ permit[w].granted => permit[w].state # NotAsking
  BY PermitFields DEF ProcessTyped, NotAsking
<1>5. QED BY <1>1, <1>2, <1>3, <1>4

(* Taking a message moves the others one place up, on that channel only.   *)
LEMMA NextMail ==
  ASSUME ChannelsTyped, NEW w \in Nodes, NEW kind, Takes(w, kind)
  PROVE  /\ 1 \in DOMAIN events[w] /\ Head(events[w]) = events[w][1] /\ Kind(w, 1) = kind
         /\ Len(events'[w]) = Len(events[w]) - 1
         /\ \A i \in DOMAIN events'[w] :
              i + 1 \in DOMAIN events[w] /\ events'[w][i] = events[w][i + 1]
         /\ \A v \in Nodes : v # w => events'[v] = events[v]
<1>1. events[w] \in Seq(Mail) /\ events[w] # <<>> /\ events'[w] = Tail(events[w])
  BY DEF ChannelsTyped, Takes
<1>2. \A v \in Nodes : v # w => events'[v] = events[v]
  BY DEF ChannelsTyped, Takes
<1>3. 1 \in DOMAIN events[w] /\ Head(events[w]) = events[w][1] /\ Len(events[w]) \in Nat
  BY <1>1
<1>4. /\ Len(events'[w]) = Len(events[w]) - 1
      /\ \A i \in DOMAIN events'[w] :
           i + 1 \in DOMAIN events[w] /\ events'[w][i] = events[w][i + 1]
  BY <1>1
<1>5. QED BY <1>2, <1>3, <1>4 DEF Takes, Kind

(* A handler that takes a message keeps what is said of the channels.      *)
LEMMA TakenMail ==
  ASSUME ChannelsTyped, NEW w \in Nodes, NEW kind, Takes(w, kind), Grows, MailKnown, ChannelEnds,
         UNCHANGED <<inbox, status>>
  PROVE  MailKnown' /\ ChannelEnds'
<1>1. MailKnown'
  <2>1. ASSUME NEW v \in Nodes, NEW i \in DOMAIN events'[v],
               Kind(v, i)' \notin {"ready", "collected", "holds"}
        PROVE  IsKnown(v)'
    BY <2>1, NextMail DEF MailKnown, Grows, Kind
  <2>2. QED BY <2>1 DEF MailKnown, Grows
<1>2. ChannelEnds'
  <2>1. ASSUME NEW v \in Nodes, NEW i \in DOMAIN events'[v]
        PROVE  /\ Kind(v, i)' = "finished" => i = Len(events'[v]) /\ status[v] = "exited"
               /\ Kind(v, i)' = "down" => i = Len(events'[v]) /\ status[v] = "dead"
    <3>1. CASE v = w
      <4>1. i + 1 \in DOMAIN events[w] /\ Kind(w, i)' = Kind(w, i + 1)
        BY <2>1, <3>1, NextMail DEF Kind
      <4>2. i \in Nat /\ Len(events'[w]) = Len(events[w]) - 1 /\ Len(events[w]) \in Nat
        <5>1. events[w] \in Seq(Mail) /\ events'[w] \in Seq(Mail)
          BY TakesTyped DEF ChannelsTyped
        <5>2. QED BY <2>1, <3>1, <5>1, NextMail
      <4>3. QED BY <3>1, <4>1, <4>2 DEF ChannelEnds
    <3>2. CASE v # w
      BY <2>1, <3>2, NextMail DEF ChannelEnds, Kind
    <3>3. QED BY <3>1, <3>2
  <2>2. QED BY <2>1 DEF ChannelEnds
<1>3. QED BY <1>1, <1>2

(* Posting puts the messages behind those already in the channel.          *)
LEMMA NewMail ==
  ASSUME ChannelsTyped, NEW w \in Nodes, NEW messages \in Seq(Mail), Post(w, messages)
  PROVE  /\ Len(events'[w]) = Len(events[w]) + Len(messages)
         /\ events'[w] \in Seq(Mail)
         /\ \A i \in DOMAIN events[w] : i \in DOMAIN events'[w] /\ events'[w][i] = events[w][i]
         /\ \A i \in DOMAIN events'[w] : i \notin DOMAIN events[w] =>
              /\ i - Len(events[w]) \in DOMAIN messages
              /\ events'[w][i] = messages[i - Len(events[w])]
         /\ \A v \in Nodes : v # w => events'[v] = events[v]
<1>1. events[w] \in Seq(Mail) /\ events'[w] = events[w] \o messages
  BY DEF ChannelsTyped, Post
<1>2. \A v \in Nodes : v # w => events'[v] = events[v]
  BY DEF ChannelsTyped, Post
<1>3. QED BY <1>1, <1>2

(* A worker that is up may post anything but a last message; more than its *)
(* greetings only once the scheduler has met it.                           *)
LEMMA PostedMail ==
  ASSUME ChannelsTyped, NEW w \in Nodes, NEW messages \in Seq(Mail), Post(w, messages),
         Grows, MailKnown, ChannelEnds, status[w] \notin {"exited", "dead"},
         \A i \in DOMAIN messages : messages[i][1] \notin {"finished", "down"},
         IsKnown(w) \/
           \A i \in DOMAIN messages : messages[i][1] \in {"ready", "collected", "holds"},
         \A v \in Nodes : v # w => status'[v] = status[v] /\ inbox'[v] = inbox[v],
         inbox'[w] # <<>> => inbox[w] # <<>>
  PROVE  MailKnown' /\ ChannelEnds'
<1>1. MailKnown'
  <2>1. ASSUME NEW v \in Nodes, NEW i \in DOMAIN events'[v],
               Kind(v, i)' \notin {"ready", "collected", "holds"}
        PROVE  IsKnown(v)'
    BY <2>1, NewMail DEF MailKnown, Grows, Kind
  <2>2. QED BY <2>1 DEF MailKnown, Grows
<1>2. ChannelEnds'
  <2>1. ASSUME NEW v \in Nodes, NEW i \in DOMAIN events'[v]
        PROVE  /\ Kind(v, i)' = "finished" => i = Len(events'[v]) /\ status'[v] = "exited"
               /\ Kind(v, i)' = "down" => i = Len(events'[v]) /\ status'[v] = "dead"
    <3>1. CASE v = w
      BY <2>1, <3>1, NewMail DEF ChannelEnds, Kind
    <3>2. CASE v # w
      BY <2>1, <3>2, NewMail DEF ChannelEnds, Kind
    <3>3. QED BY <3>1, <3>2
  <2>2. QED BY <2>1 DEF ChannelEnds
<1>3. QED BY <1>1, <1>2

(* Striking an entry off a queue adds none.                                *)
LEMMA WithoutElements ==
  ASSUME NEW S, NEW s \in Seq(S), NEW x
  PROVE  \A i \in DOMAIN G!Without(s, x) : \E j \in DOMAIN s : G!Without(s, x)[i] = s[j]
<1>1. CASE \E i \in DOMAIN s : s[i] = x
  <2> DEFINE k == CHOOSE i \in DOMAIN s : s[i] = x
  <2>1. k \in 1 .. Len(s) /\ Len(s) - 1 \in Nat
    BY <1>1
  <2>2. G!Without(s, x) = [i \in 1 .. Len(s) - 1 |-> IF i < k THEN s[i] ELSE s[i + 1]]
    BY <1>1 DEF G!Without
  <2> HIDE DEF k
  <2>3. QED BY <2>1, <2>2
<1>2. CASE ~\E i \in DOMAIN s : s[i] = x
  BY <1>2 DEF G!Without
<1>3. QED BY <1>1, <1>2

(* Joining and leaving the waiting line keeps its nodes known.             *)
LEMMA WaitersStayKnown ==
  ASSUME Grows, WaitersKnown, waiting \in Seq(Nodes), NEW w \in Nodes,
         \/ UNCHANGED waiting
         \/ Admitted(w)
         \/ Wait(w) /\ IsKnown(w)
  PROVE  WaitersKnown'
<1>1. CASE UNCHANGED waiting
  BY <1>1 DEF WaitersKnown, Grows
<1>2. CASE Admitted(w)
  <2>1. waiting' = G!Without(waiting, w)
    BY <1>2 DEF Admitted
  <2>2. ASSUME NEW i \in DOMAIN waiting'  PROVE IsKnown(waiting[i])'
    <3>1. PICK j \in DOMAIN waiting : waiting'[i] = waiting[j]
      BY <2>1, WithoutElements
    <3>2. waiting[j] \in Nodes /\ IsKnown(waiting[j])
      BY <3>1 DEF WaitersKnown
    <3>3. QED BY <3>1, <3>2 DEF Grows, IsKnown
  <2>3. QED BY <2>2 DEF WaitersKnown
<1>3. CASE Wait(w) /\ IsKnown(w)
  <2>1. \A i \in DOMAIN waiting' : waiting'[i] \in Nodes /\ IsKnown(waiting'[i])
    BY <1>3 DEF Wait, WaitersKnown
  <2>2. QED BY <2>1 DEF WaitersKnown, Grows
<1>4. QED BY <1>1, <1>2, <1>3

(* When a last message is taken the channel is empty and the process has   *)
(* ended as the message says.                                              *)
LEMMA LastMail ==
  ASSUME ChannelsTyped, ChannelEnds, NEW w \in Nodes, NEW kind \in {"finished", "down"},
         Takes(w, kind)
  PROVE  /\ events'[w] = <<>>
         /\ kind = "finished" => status[w] = "exited"
         /\ kind = "down" => status[w] = "dead"
<1>1. 1 \in DOMAIN events[w] /\ Kind(w, 1) = kind
  BY NextMail
<1>2. Len(events[w]) = 1
  BY <1>1 DEF ChannelEnds
<1>3. events[w] \in Seq(Mail) /\ events'[w] = Tail(events[w])
  BY DEF ChannelsTyped, Takes
<1>4. QED BY <1>1, <1>2, <1>3 DEF ChannelEnds

(* A worker that asks for a permit posts one request.                      *)
LEMMA AskPosts ==
  ASSUME ProcessTyped, NEW w \in Nodes, Ask(w)
  PROVE  \E m \in Requesting : Post(w, <<<<"request", m>>>>)
<1> USE DEF Ask
<1>1. Head(inbox[w]) \in Tests /\ alive[w] \in SUBSET Fixtures /\ permit[w] \in PermitRecords
  BY DEF ProcessTyped, Idling
<1>2. permit[w].id + 1 \in 1 .. MaxAsks /\ HoldOf(alive[w]) \in Nat
  BY <1>1, PermitFields, HoldOfNat, ReachesAssumption
<1>3. PICK f \in Reaches[Head(inbox[w])] :
        Post(w, <<<<"request", [id |-> permit[w].id + 1, test |-> Head(inbox[w]), key |-> f,
                                holds |-> HoldOf(alive[w]), cancelled |-> FALSE]>>>>)
  OBVIOUS
<1>4. f \in Fixtures
  BY <1>1, <1>3, ReachesAssumption
<1>5. [id |-> permit[w].id + 1, test |-> Head(inbox[w]), key |-> f,
       holds |-> HoldOf(alive[w]), cancelled |-> FALSE] \in Requesting
  BY <1>1, <1>2, <1>4 DEF Requesting
<1>6. QED BY <1>3, <1>5

(* A worker that gives up posts one request, marked as cancelled.          *)
LEMMA GiveUpPosts ==
  ASSUME ProcessTyped, NEW w \in Nodes, GiveUp(w)
  PROVE  \E m \in Requesting : Post(w, <<<<"request", m>>>>)
<1> USE DEF GiveUp
<1>1. permit[w] \in PermitRecords /\ permit[w].state # NotAsking /\ alive[w] \in SUBSET Fixtures
  BY DEF ProcessTyped, NotAsking
<1>2. Head(inbox[w]) \in Tests
  BY <1>1 DEF ProcessTyped, Idling, Asking
<1>3. permit[w].id \in 1 .. MaxAsks /\ permit[w].key \in Fixtures /\ HoldOf(alive[w]) \in Nat
  BY <1>1, PermitFields, HoldOfNat
<1>4. [id |-> permit[w].id, test |-> Head(inbox[w]), key |-> permit[w].key,
       holds |-> HoldOf(alive[w]), cancelled |-> TRUE] \in Requesting
  BY <1>2, <1>3 DEF Requesting
<1>5. QED BY <1>4

(* Every step keeps the shape: one case for each action of Next, one       *)
(* conjunct for each part of Shape the action can disturb.                 *)
LEMMA ShapeStep ==
  ASSUME Typed, Shape, [Next]_vars
  PROVE  Shape'
<1>1. ASSUME NEW w \in Nodes, CheckSchedule(w)  PROVE Shape'
  <2> USE <1>1 DEF Typed, Shape, CheckSchedule, still, work, gate, line, nodes, process, outcome
  <2>1. Grows
    BY DEF Grows, IsKnown, NodesTyped
  <2>2. StackShape'
    <3>1. IsKnown(w) /\ (~ShuttingDown(w) => w \in registered \ told)
      BY HeadKnown DEF At, Check, NodeOps, ShuttingDown, IsKnown
    <3>2. <<>> \in Seq(Tests)
      OBVIOUS
    <3>3. Fill(w, <<>>) \in KnownCalls /\ Rest(w) \in KnownCalls \cap PlainCalls
      BY <3>1, <3>2, KnownCallLists
    <3>4. CASE Return
      BY <2>1, <3>4, StackReturned DEF At
    <3>5. CASE ~ShuttingDown(w) /\ Low(w)
      <4>1. <<Fill(w, <<>>), Rest(w)>> \in Seq(KnownCalls)
            /\ Tail(<<Fill(w, <<>>), Rest(w)>>) \in Seq(PlainCalls)
            /\ Head(<<Fill(w, <<>>), Rest(w)>>) = Fill(w, <<>>)
            /\ <<Fill(w, <<>>), Rest(w)>> # <<>>
        BY <3>3
      <4>2. Call(<<Fill(w, <<>>), Rest(w)>>)
        BY <3>5 DEF Call
      <4>3. todo' \in Seq(KnownCalls') /\ Tail(todo') \in Seq(PlainCalls)
            /\ Head(todo') = Fill(w, <<>>)
        BY <2>1, <4>1, <4>2, StackCalled DEF At
      <4>4. QED BY <3>1, <3>5, <4>3 DEF StackShape, AtOp, Fill
    <3>6. CASE ~ShuttingDown(w) /\ ~Low(w)
      <4>1. Call(<<Rest(w)>>)
        BY <3>6 DEF Call
      <4>2. QED BY <2>1, <3>3, <4>1, StackPushed DEF At
    <3>7. QED BY <3>4, <3>5, <3>6
  <2>3. WaitersKnown'
    BY <2>1 DEF WaitersKnown, Grows, NodesTyped
  <2>4. MailKnown'
    BY <2>1 DEF MailKnown, Grows, Kind
  <2>5. ChannelEnds'
    BY DEF ChannelEnds, Kind
  <2>6. QED BY <2>2, <2>3, <2>4, <2>5
<1>2. ASSUME NEW w \in Nodes, NEW out \in Seq(Tests), NEW t \in Tests,
         FillDispatch(w, out, t)
  PROVE Shape'
  <2> USE <1>2 DEF Typed, Shape, FillDispatch, still, work, gate, line, nodes, process, outcome
  <2>1. Grows
    BY DEF Grows, IsKnown, Send
  <2>2. StackShape'
    <3>1. IsKnown(w) /\ w \in registered \ told /\ todo # <<>>
      BY HeadKnown DEF Filling, At, AtOp, Fill, NodeOps, StackShape
    <3>2. Append(out, t) \in Seq(Tests)
      OBVIOUS
    <3>3. <<Fill(w, Append(out, t))>> \in Seq(KnownCalls)
          /\ Tail(<<Fill(w, Append(out, t))>>) \in Seq(PlainCalls)
          /\ Head(<<Fill(w, Append(out, t))>>) = Fill(w, Append(out, t))
          /\ <<Fill(w, Append(out, t))>> # <<>>
      <4>1. Fill(w, Append(out, t)) \in KnownCalls
        BY <3>1, <3>2, KnownCallLists
      <4>2. QED BY <4>1
    <3>4. todo' \in Seq(KnownCalls') /\ Tail(todo') \in Seq(PlainCalls)
          /\ Head(todo') = Fill(w, Append(out, t))
      BY <2>1, <3>1, <3>3, StackCalled
    <3>5. QED BY <3>1, <3>4 DEF StackShape, AtOp, Fill
  <2>3. WaitersKnown'
    BY <2>1, WaitersStayKnown DEF NodesTyped, Granted, Raised
  <2>4. MailKnown'
    BY <2>1 DEF MailKnown, Grows, Kind
  <2>5. ChannelEnds'
    BY DEF ChannelEnds, Kind
  <2>6. QED BY <2>2, <2>3, <2>4, <2>5
<1>3. ASSUME NEW w \in Nodes, NEW out \in Seq(Tests), NEW donor \in Nodes,
         NEW chunk \in SUBSET pending,
         FillBorrow(w, out, donor, chunk)
  PROVE Shape'
  <2> USE <1>3 DEF Typed, Shape, FillBorrow, still, work, gate, line, nodes, process, outcome
  <2>1. Grows
    BY DEF Grows, IsKnown, Send
  <2>2. StackShape'
    BY <2>1, StackKept
  <2>3. WaitersKnown'
    BY <2>1 DEF WaitersKnown, Grows, NodesTyped
  <2>4. MailKnown'
    BY <2>1 DEF MailKnown, Grows, Kind
  <2>5. ChannelEnds'
    BY DEF ChannelEnds, Kind
  <2>6. QED BY <2>2, <2>3, <2>4, <2>5
<1>4. ASSUME NEW w \in Nodes, NEW out \in Seq(Tests), FillDone(w, out)  PROVE Shape'
  <2> USE <1>4 DEF Typed, Shape, FillDone, still, work, gate, line, nodes, process, outcome
  <2>1. Grows
    BY DEF Grows, IsKnown, Send
  <2>2. StackShape'
    BY <2>1, StackReturned DEF At, Filling, Send
  <2>3. WaitersKnown'
    BY <2>1 DEF WaitersKnown, Grows, NodesTyped
  <2>4. MailKnown'
    <3>1. IsKnown(w)
      BY HeadKnown DEF At, Filling, Fill, NodeOps
    <3>2. \A v \in Nodes : v # w => inbox'[v] = inbox[v]
      BY DEF Send, ProcessTyped
    <3>3. QED BY <2>1, <3>1, <3>2 DEF MailKnown, Grows, Kind
  <2>5. ChannelEnds'
    BY DEF ChannelEnds, Kind
  <2>6. QED BY <2>2, <2>3, <2>4, <2>5
<1>5. ASSUME NEW w \in Nodes, NEW out \in Seq(Tests), FillBlocked(w, out)  PROVE Shape'
  <2> USE <1>5 DEF Typed, Shape, FillBlocked, still, work, gate, line, nodes, process, outcome
  <2>1. Grows
    BY DEF Grows, IsKnown, Send
  <2>2. StackShape'
    BY <2>1, StackReturned DEF At, Filling, Send
  <2>3. WaitersKnown'
    BY <2>1, WaitersStayKnown, HeadKnown DEF NodesTyped, Filling, At, Fill, NodeOps
  <2>4. MailKnown'
    <3>1. IsKnown(w)
      BY HeadKnown DEF At, Filling, Fill, NodeOps
    <3>2. \A v \in Nodes : v # w => inbox'[v] = inbox[v]
      BY DEF Send, ProcessTyped
    <3>3. QED BY <2>1, <3>1, <3>2 DEF MailKnown, Grows, Kind
  <2>5. ChannelEnds'
    BY DEF ChannelEnds, Kind
  <2>6. QED BY <2>2, <2>3, <2>4, <2>5
<1>6. ASSUME NEW w \in Nodes, NEW out \in Seq(Tests), FillRefused(w, out)  PROVE Shape'
  <2> USE <1>6 DEF Typed, Shape, FillRefused, still, work, gate, line, nodes, process, outcome
  <2>1. Grows
    BY DEF Grows, IsKnown, Send
  <2>2. StackShape'
    BY <2>1, StackReturned DEF At, Filling, Send
  <2>3. WaitersKnown'
    BY <2>1, WaitersStayKnown, HeadKnown DEF NodesTyped, Filling, At, Fill, NodeOps, NotGranted
  <2>4. MailKnown'
    <3>1. IsKnown(w)
      BY HeadKnown DEF At, Filling, Fill, NodeOps
    <3>2. \A v \in Nodes : v # w => inbox'[v] = inbox[v]
      BY DEF Send, ProcessTyped
    <3>3. QED BY <2>1, <3>1, <3>2 DEF MailKnown, Grows, Kind
  <2>5. ChannelEnds'
    BY DEF ChannelEnds, Kind
  <2>6. QED BY <2>2, <2>3, <2>4, <2>5
<1>7. ASSUME NEW w \in Nodes, CheckRest(w)  PROVE Shape'
  <2> USE <1>7 DEF Typed, Shape, CheckRest, still, work, gate, line, nodes, process, outcome
  <2>1. Grows
    BY DEF Grows, IsKnown, NodesTyped
  <2>2. StackShape'
    <3>1. IsKnown(w)
      BY HeadKnown DEF At, Rest, NodeOps
    <3>2. Shutdown(w) \in KnownCalls \cap PlainCalls
      BY <3>1, KnownCallLists
    <3>3. QED BY <2>1, <3>2, StackPushed, StackReturned DEF At
  <2>3. WaitersKnown'
    BY <2>1 DEF WaitersKnown, Grows, NodesTyped
  <2>4. MailKnown'
    BY <2>1 DEF MailKnown, Grows, Kind
  <2>5. ChannelEnds'
    BY DEF ChannelEnds, Kind
  <2>6. QED BY <2>2, <2>3, <2>4, <2>5
<1>8. ASSUME NEW w \in Nodes, ShutdownRefused(w)  PROVE Shape'
  <2> USE <1>8 DEF Typed, Shape, ShutdownRefused, still, work, gate, line, nodes, process,
      outcome
  <2>1. Grows
    BY DEF Grows, IsKnown, Send
  <2>2. StackShape'
    BY <2>1, StackReturned DEF At
  <2>3. WaitersKnown'
    BY <2>1, WaitersStayKnown, HeadKnown DEF NodesTyped, At, Shutdown, NodeOps, NotGranted
  <2>4. MailKnown'
    BY <2>1 DEF MailKnown, Grows, Kind
  <2>5. ChannelEnds'
    BY DEF ChannelEnds, Kind
  <2>6. QED BY <2>2, <2>3, <2>4, <2>5
<1>9. ASSUME NEW w \in Nodes, ShutdownSent(w)  PROVE Shape'
  <2> USE <1>9 DEF Typed, Shape, ShutdownSent, still, work, gate, line, nodes, process, outcome
  <2>1. Grows
    BY DEF Grows, IsKnown, NodesTyped
  <2>2. StackShape'
    <3>1. CASE Return
      BY <2>1, <3>1, StackReturned DEF At
    <3>2. CASE Call(<<Replan(plan[w])>>)
      <4>1. Replan(plan[w]) \in KnownCalls
        BY KnownCallLists DEF WorkTyped
      <4>2. QED BY <2>1, <3>2, <4>1, StackPushed DEF At, Replan
    <3>3. QED BY <3>1, <3>2
  <2>3. WaitersKnown'
    BY <2>1, WaitersStayKnown DEF NodesTyped, Granted, Raised
  <2>4. MailKnown'
    BY <2>1 DEF MailKnown, Grows, Kind
  <2>5. ChannelEnds'
    BY DEF ChannelEnds, Kind
  <2>6. QED BY <2>2, <2>3, <2>4, <2>5
<1>10. ASSUME NEW w \in Nodes, ShutdownAgain(w)  PROVE Shape'
  <2> USE <1>10 DEF Typed, Shape, ShutdownAgain, still, work, gate, line, nodes, process,
      outcome
  <2>1. Grows
    BY DEF Grows, IsKnown, NodesTyped
  <2>2. StackShape'
    BY <2>1, StackReturned DEF At
  <2>3. WaitersKnown'
    BY <2>1 DEF WaitersKnown, Grows, NodesTyped
  <2>4. MailKnown'
    BY <2>1 DEF MailKnown, Grows, Kind
  <2>5. ChannelEnds'
    BY DEF ChannelEnds, Kind
  <2>6. QED BY <2>2, <2>3, <2>4, <2>5
<1>11. ASSUME NEW S \in SUBSET Tests, ReplanTests(S)  PROVE Shape'
  <2> USE <1>11 DEF Typed, Shape, ReplanTests, still, work, gate, line, nodes, process, outcome
  <2>1. Grows
    BY DEF Grows, IsKnown, NodesTyped
  <2>2. StackShape'
    <3>1. CASE Return
      BY <2>1, <3>1, StackReturned DEF At
    <3>2. CASE \E order \in Orders(registered) : Call(Each(Check, order))
      <4>1. PICK order \in Orders(registered) : Call(Each(Check, order))
        BY <3>2
      <4>2. order \in Seq(Nodes) /\ \A i \in DOMAIN order : IsKnown(order[i])
        BY <4>1, RegisteredInOrder DEF NodesTyped
      <4>3. Each(Check, order) \in Seq(KnownCalls \cap PlainCalls)
        BY <4>2, KnownInOrder
      <4>4. QED BY <2>1, <4>1, <4>3, StackExtended DEF At
    <3>3. QED BY <3>1, <3>2
  <2>3. WaitersKnown'
    BY <2>1 DEF WaitersKnown, Grows, NodesTyped
  <2>4. MailKnown'
    BY <2>1 DEF MailKnown, Grows, Kind
  <2>5. ChannelEnds'
    BY DEF ChannelEnds, Kind
  <2>6. QED BY <2>2, <2>3, <2>4, <2>5
<1>12. ASSUME AdmitWaiting  PROVE Shape'
  <2> USE <1>12 DEF Typed, Shape, AdmitWaiting, still, work, gate, line, nodes, process, outcome
  <2>1. Grows
    BY DEF Grows, IsKnown, NodesTyped
  <2>2. StackShape'
    <3>1. Each(Visit, waiting) \in Seq(KnownCalls \cap PlainCalls)
      BY KnownInOrder DEF WaitersKnown, NodesTyped
    <3>2. Append(Each(Visit, waiting), Stalls) \in Seq(KnownCalls \cap PlainCalls)
      BY <3>1, KnownCallLists
    <3>3. QED BY <2>1, <3>2, StackExtended DEF At
  <2>3. WaitersKnown'
    BY <2>1 DEF WaitersKnown, Grows, NodesTyped
  <2>4. MailKnown'
    BY <2>1 DEF MailKnown, Grows, Kind
  <2>5. ChannelEnds'
    BY DEF ChannelEnds, Kind
  <2>6. QED BY <2>2, <2>3, <2>4, <2>5
<1>13. ASSUME ResolveNothing  PROVE Shape'
  <2> USE <1>13 DEF Typed, Shape, ResolveNothing, still, work, gate, line, nodes, process,
      outcome
  <2>1. Grows
    BY DEF Grows, IsKnown, NodesTyped
  <2>2. StackShape'
    BY <2>1, StackReturned DEF At
  <2>3. WaitersKnown'
    BY <2>1 DEF WaitersKnown, Grows, NodesTyped
  <2>4. MailKnown'
    BY <2>1 DEF MailKnown, Grows, Kind
  <2>5. ChannelEnds'
    BY DEF ChannelEnds, Kind
  <2>6. QED BY <2>2, <2>3, <2>4, <2>5
<1>14. ASSUME ResolveParked  PROVE Shape'
  <2> USE <1>14 DEF Typed, Shape, ResolveParked, still, work, gate, line, nodes, process,
      outcome
  <2>1. Grows
    BY DEF Grows, IsKnown, NodesTyped
  <2>2. StackShape'
    <3>1. PICK i \in Candidates : Call(<<Shutdown(waiting[i])>>)
      OBVIOUS
    <3>2. waiting[i] \in Nodes /\ IsKnown(waiting[i])
      BY DEF Candidates, NodesTyped, WaitersKnown
    <3>3. Shutdown(waiting[i]) \in KnownCalls \cap PlainCalls
      BY <3>2, KnownCallLists
    <3>4. QED BY <2>1, <3>1, <3>3, StackPushed DEF At, Standstill
  <2>3. WaitersKnown'
    BY <2>1 DEF WaitersKnown, Grows, NodesTyped
  <2>4. MailKnown'
    BY <2>1 DEF MailKnown, Grows, Kind
  <2>5. ChannelEnds'
    BY DEF ChannelEnds, Kind
  <2>6. QED BY <2>2, <2>3, <2>4, <2>5
<1>15. ASSUME NEW w \in Nodes, ResolveForce(w)  PROVE Shape'
  <2> USE <1>15 DEF Typed, Shape, ResolveForce, still, work, gate, line, nodes, process, outcome
  <2>1. Grows
    BY DEF Grows, IsKnown, NodesTyped
  <2>2. StackShape'
    <3>1. Check(w) \in KnownCalls \cap PlainCalls
      BY KnownCallLists DEF Forceable, Candidates, WaitersKnown
    <3>2. QED BY <2>1, <3>1, StackPushed DEF At, Forceable, Standstill
  <2>3. WaitersKnown'
    BY <2>1, WaitersStayKnown DEF NodesTyped
  <2>4. MailKnown'
    BY <2>1 DEF MailKnown, Grows, Kind
  <2>5. ChannelEnds'
    BY DEF ChannelEnds, Kind
  <2>6. QED BY <2>2, <2>3, <2>4, <2>5
<1>16. ASSUME NEW w \in Nodes, NEW release \in BOOLEAN, RetryGranted(w, release)  PROVE Shape'
  <2> USE <1>16 DEF Typed, Shape, RetryGranted, still, work, gate, line, nodes, process, outcome
  <2>1. Grows
    BY DEF Grows, IsKnown, CompleteRequest
  <2>2. StackShape'
    BY <2>1, StackReturned DEF At
  <2>3. WaitersKnown'
    BY <2>1, WaitersStayKnown DEF NodesTyped, Raised
  <2>4. MailKnown'
    BY <2>1 DEF MailKnown, Grows, Kind, CompleteRequest
  <2>5. ChannelEnds'
    BY DEF ChannelEnds, Kind, CompleteRequest
  <2>6. QED BY <2>2, <2>3, <2>4, <2>5
<1>17. ASSUME NEW w \in Nodes, NEW release \in BOOLEAN, RetryRefused(w, release)  PROVE Shape'
  <2> USE <1>17 DEF Typed, Shape, RetryRefused, still, work, gate, line, nodes, process, outcome
  <2>1. Grows
    BY DEF Grows, IsKnown, NodesTyped
  <2>2. StackShape'
    <3>1. Admit \in KnownCalls \cap PlainCalls
      BY KnownCallLists
    <3>2. QED BY <2>1, <3>1, StackPushed, StackReturned DEF At
  <2>3. WaitersKnown'
    BY <2>1, WaitersStayKnown, HeadKnown DEF NodesTyped, At, Retry, NodeOps
  <2>4. MailKnown'
    BY <2>1 DEF MailKnown, Grows, Kind
  <2>5. ChannelEnds'
    BY DEF ChannelEnds, Kind
  <2>6. QED BY <2>2, <2>3, <2>4, <2>5
<1>18. ASSUME NEW w \in Nodes, ResolveForceRequest(w)  PROVE Shape'
  <2> USE <1>18 DEF Typed, Shape, ResolveForceRequest, still, work, gate, line, nodes, process,
      outcome
  <2>1. Grows
    BY DEF Grows, IsKnown, CompleteRequest
  <2>2. StackShape'
    BY <2>1, StackReturned DEF At, Forceable, Standstill
  <2>3. WaitersKnown'
    BY <2>1, WaitersStayKnown DEF NodesTyped
  <2>4. MailKnown'
    BY <2>1 DEF MailKnown, Grows, Kind, CompleteRequest
  <2>5. ChannelEnds'
    BY DEF ChannelEnds, Kind, CompleteRequest
  <2>6. QED BY <2>2, <2>3, <2>4, <2>5
<1>19. ASSUME NEW w \in Nodes, Completed(w)  PROVE Shape'
  <2> USE <1>19 DEF Typed, Shape, Completed, still, work, gate, line, nodes, process, outcome
  <2>1. Grows
    BY NextMail DEF Grows, IsKnown, Takes
  <2>2. StackShape'
    <3> DEFINE s == <<Check(w), Admit, Loop>>
               K == KnownCalls \cap PlainCalls
    <3>1. IsKnown(w)
      BY NextMail DEF MailKnown
    <3>2. Check(w) \in K /\ Admit \in K /\ Loop \in K
      BY <3>1, KnownCallLists
    <3>3. s \in Seq(K)
      <4> HIDE DEF K
      <4>1. QED BY <3>2, ShortLists
    <3>4. PICK step \in {-1, 0, 1} : todo' = (IF step = 1 THEN <<Admit>> ELSE <<>>) \o s
      OBVIOUS
    <3>5. todo' \in Seq(K)
      <4> HIDE DEF K, s
      <4>1. <<Admit>> \o s \in Seq(K) /\ <<>> \o s = s
        BY <3>2, <3>3, Joined
      <4>2. QED BY <3>3, <3>4, <4>1
    <3>6. QED BY <2>1, <3>5, StackBegun
  <2>3. WaitersKnown'
    BY <2>1, WaitersStayKnown DEF NodesTyped
  <2>4. MailKnown' /\ ChannelEnds'
    BY <2>1, TakenMail
  <2>5. QED BY <2>2, <2>3, <2>4
<1>20. ASSUME NEW w \in Nodes, HoldsChanged(w)  PROVE Shape'
  <2> USE <1>20 DEF Typed, Shape, HoldsChanged, still, work, gate, line, nodes, process, outcome
  <2>1. Grows
    BY NextMail DEF Grows, IsKnown, Takes
  <2>2. StackShape'
    BY <2>1, StackKept
  <2>3. WaitersKnown'
    BY <2>1 DEF WaitersKnown, Grows, NodesTyped
  <2>4. MailKnown' /\ ChannelEnds'
    BY <2>1, TakenMail
  <2>5. QED BY <2>2, <2>3, <2>4
<1>21. ASSUME NEW w \in Nodes, Requested(w)  PROVE Shape'
  <2> USE <1>21 DEF Typed, Shape, Requested, still, work, gate, line, nodes, process, outcome
  <2>1. Grows
    BY NextMail DEF Grows, IsKnown, Takes
  <2>2. StackShape'
    <3> DEFINE K == KnownCalls \cap PlainCalls
    <3>1. IsKnown(w)
      BY NextMail DEF MailKnown
    <3>2. Retry(w, TRUE) \in K /\ Loop \in K
      BY <3>1, KnownCallLists
    <3>3. <<Loop>> \in Seq(K) /\ <<Retry(w, TRUE), Loop>> \in Seq(K)
      <4> HIDE DEF K
      <4>1. QED BY <3>2, ShortLists
    <3>4. todo' = <<Loop>> \/ todo' = <<Retry(w, TRUE), Loop>>
      OBVIOUS
    <3>5. QED BY <2>1, <3>3, <3>4, StackBegun
  <2>3. WaitersKnown'
    BY <2>1, WaitersStayKnown DEF NodesTyped
  <2>4. MailKnown' /\ ChannelEnds'
    BY <2>1, TakenMail
  <2>5. QED BY <2>2, <2>3, <2>4
<1>22. ASSUME NEW w \in Nodes, Crashed(w)  PROVE Shape'
  <2> USE <1>22 DEF Typed, Shape, Crashed, RemoveNode, ReleaseRuntime, still, work, gate, line,
      nodes, process, outcome
  <2>1. Grows
    <3>1. w \in down
      BY NextMail DEF ChannelEnds, ProcessTyped
    <3>2. QED BY <3>1, NextMail DEF Grows, IsKnown, Takes
  <2>2. StackShape'
    <3> DEFINE K == KnownCalls \cap PlainCalls
               r == Replan(Stranded(w))
               s == <<Restart, Loop>>
    <3>1. Stranded(w) \in SUBSET Tests
      BY UnstartedTyped DEF Stranded, WorkTyped
    <3>2. r \in KnownCalls /\ r.op = "replan" /\ Admit \in K /\ Restart \in K /\ Loop \in K
      BY <3>1, KnownCallLists DEF Replan
    <3>3. s \in Seq(K)
      <4> HIDE DEF K
      <4>1. QED BY <3>2, ShortLists
    <3>4. CASE todo' = <<Admit>> \o s
      <4> HIDE DEF s
      <4>1. todo' \in Seq(K)
        <5> HIDE DEF K
        <5>1. <<Admit>> \o s \in Seq(K)
          BY ONLY <3>2, <3>3, Joined
        <5>2. QED BY <3>4, <5>1
      <4>2. QED BY <2>1, <4>1, StackBegun
    <3>5. CASE todo' = <<r, Admit>> \o s
      <4>1. r \in KnownCalls' /\ Admit \in KnownCalls' /\ s \in Seq(KnownCalls')
            /\ Admit \in PlainCalls /\ s \in Seq(PlainCalls)
        <5> HIDE DEF r, s
        <5>1. \A c \in K : c \in KnownCalls' /\ c \in PlainCalls
          BY <2>1, KnownCallsGrow
        <5>2. QED BY <2>1, <3>2, <3>3, <5>1, KnownCallsGrow
      <4> HIDE DEF r, s, K
      <4>2. todo' \in Seq(KnownCalls') /\ Tail(todo') = <<Admit>> \o s /\ Head(todo') = r
        <5>1. <<r, Admit>> \o s \in Seq(KnownCalls') /\ Tail(<<r, Admit>> \o s) = <<Admit>> \o s
              /\ Head(<<r, Admit>> \o s) = r
          BY ONLY <4>1, Joined
        <5>2. QED BY ONLY <3>5, <5>1
      <4>3. <<Admit>> \o s \in Seq(PlainCalls)
        BY <4>1, Joined
      <4>4. QED BY <3>2, <4>2, <4>3 DEF StackShape, AtOp
    <3>6. QED BY <3>4, <3>5 DEF RemoveCalls
  <2>3. WaitersKnown'
    BY <2>1, WaitersStayKnown DEF NodesTyped
  <2>4. MailKnown' /\ ChannelEnds'
    BY <2>1, TakenMail
  <2>5. QED BY <2>2, <2>3, <2>4
<1>23. ASSUME NEW w \in Nodes, Finished(w)  PROVE Shape'
  <2> USE <1>23 DEF Typed, Shape, Finished, still, work, gate, line, nodes, process, outcome
  <2>1. Grows
    BY NextMail DEF Grows, IsKnown, Takes
  <2>2. StackShape'
    <3> DEFINE K == KnownCalls' \cap PlainCalls
    <3>1. CASE w \in registered
      <4>1. w \in down /\ events'[w] = <<>>
        BY LastMail DEF ProcessTyped
      <4>2. Remove(w) \in Calls /\ Admit \in KnownCalls \cap PlainCalls
            /\ Loop \in KnownCalls \cap PlainCalls
        BY CallsOfNodes, KnownCallLists
      <4>3. Remove(w) \in K
        BY <4>1, <4>2 DEF KnownCalls, PlainCalls, Remove, IsKnown
      <4>4. Admit \in K /\ Loop \in K
        BY <2>1, <4>2, KnownCallsGrow
      <4>5. todo' = <<Admit, Remove(w), Loop>>
        BY <3>1
      <4> HIDE DEF K
      <4>6. todo' \in Seq(K)
        BY <4>3, <4>4, <4>5, ShortLists
      <4>7. QED BY <2>1, <4>6, StackBegunKnown DEF K
    <3>2. CASE w \notin registered
      <4>1. Loop \in KnownCalls \cap PlainCalls
        BY KnownCallLists
      <4>2. <<Loop>> \in Seq(KnownCalls \cap PlainCalls)
        BY <4>1, ShortLists
      <4>3. QED BY <2>1, <3>2, <4>2, StackBegun
    <3>3. QED BY <3>1, <3>2
  <2>3. WaitersKnown'
    BY <2>1, WaitersStayKnown DEF NodesTyped, ReleaseRuntime
  <2>4. MailKnown' /\ ChannelEnds'
    BY <2>1, TakenMail
  <2>5. QED BY <2>2, <2>3, <2>4
<1>24. ASSUME NEW w \in Nodes, FinishedRemove(w)  PROVE Shape'
  <2> USE <1>24 DEF Typed, Shape, FinishedRemove, RemoveNode, ReleaseRuntime, still, work, gate,
      line, nodes, process, outcome
  <2>1. Grows
    <3>1. w \in down
      BY HeadKnown DEF At, Remove
    <3>2. QED BY <3>1 DEF Grows, IsKnown
  <2>2. StackShape'
    <3>1. Stranded(w) \in SUBSET Tests
      BY UnstartedTyped DEF Stranded, WorkTyped
    <3>2. Replan(Stranded(w)) \in KnownCalls /\ Admit \in KnownCalls \cap PlainCalls
      BY <3>1, KnownCallLists
    <3>3. CASE Call(<<Admit>>)
      BY <2>1, <3>2, <3>3, StackPushed DEF At
    <3>4. CASE Call(<<Replan(Stranded(w)), Admit>>)
      <4> DEFINE r == Replan(Stranded(w))
      <4>1. r.op = "replan"
        BY DEF Replan
      <4> HIDE DEF r
      <4>2. <<r, Admit>> \in Seq(KnownCalls) /\ Tail(<<r, Admit>>) \in Seq(PlainCalls)
            /\ Head(<<r, Admit>>) = r /\ <<r, Admit>> # <<>>
        BY <3>2 DEF r
      <4>3. todo' \in Seq(KnownCalls') /\ Tail(todo') \in Seq(PlainCalls) /\ Head(todo') = r
        BY <2>1, <3>4, <4>2, StackCalled DEF At, r
      <4>4. QED BY <4>1, <4>3 DEF StackShape, AtOp
    <3>5. QED BY <3>3, <3>4 DEF RemoveCalls
  <2>3. WaitersKnown'
    BY <2>1, WaitersStayKnown DEF NodesTyped
  <2>4. MailKnown'
    BY <2>1 DEF MailKnown, Grows, Kind
  <2>5. ChannelEnds'
    BY DEF ChannelEnds, Kind
  <2>6. QED BY <2>2, <2>3, <2>4, <2>5
<1>25. ASSUME NEW w \in Nodes, Ready(w)  PROVE Shape'
  <2> USE <1>25 DEF Typed, Shape, Ready, still, work, gate, line, nodes, process, outcome
  <2>1. Grows
    BY NextMail DEF Grows, IsKnown, Takes
  <2>2. StackShape'
    <3>1. <<Loop>> \in Seq(KnownCalls \cap PlainCalls)
      BY KnownCallLists
    <3>2. QED BY <2>1, <3>1, StackBegun
  <2>3. WaitersKnown'
    BY <2>1 DEF WaitersKnown, Grows, NodesTyped
  <2>4. MailKnown' /\ ChannelEnds'
    BY <2>1, TakenMail
  <2>5. QED BY <2>2, <2>3, <2>4
<1>26. ASSUME NEW w \in Nodes, Collected(w)  PROVE Shape'
  <2> USE <1>26 DEF Typed, Shape, Collected, still, work, gate, line, nodes, process, outcome
  <2>1. Grows
    BY NextMail DEF Grows, IsKnown, Takes
  <2>2. StackShape'
    <3>1. Loop \in KnownCalls \cap PlainCalls
      BY KnownCallLists
    <3>2. CASE todo' = <<Loop>>
      <4>1. <<Loop>> \in Seq(KnownCalls \cap PlainCalls)
        BY <3>1
      <4>2. QED BY <2>1, <3>2, <4>1, StackBegun
    <3>3. CASE todo' = <<Replan(Orphans), Loop>>
      <4> DEFINE r == Replan(Orphans)
      <4>1. r \in KnownCalls /\ r.op = "replan"
        BY KnownCallLists DEF Replan, Orphans, WorkTyped
      <4>2. r \in KnownCalls' /\ Loop \in KnownCalls' \cap PlainCalls
        BY <2>1, <3>1, <4>1, KnownCallsGrow
      <4> HIDE DEF r
      <4>3. todo' \in Seq(KnownCalls') /\ Tail(todo') \in Seq(PlainCalls) /\ Head(todo') = r
        BY <3>3, <4>2 DEF r
      <4>4. QED BY <4>1, <4>3 DEF StackShape, AtOp
    <3>4. CASE \E order \in Orders(registered) : todo' = Append(Each(Check, order), Loop)
      <4>1. PICK order \in Orders(registered) : todo' = Append(Each(Check, order), Loop)
        BY <3>4
      <4>2. order \in Seq(Nodes) /\ \A i \in DOMAIN order : IsKnown(order[i])
        BY <4>1, RegisteredInOrder DEF NodesTyped
      <4>3. Each(Check, order) \in Seq(KnownCalls \cap PlainCalls)
        BY <4>2, KnownInOrder
      <4>4. Append(Each(Check, order), Loop) \in Seq(KnownCalls \cap PlainCalls)
        BY <3>1, <4>3
      <4>5. QED BY <2>1, <4>1, <4>4, StackBegun
    <3>5. QED BY <3>2, <3>3, <3>4
  <2>3. WaitersKnown'
    BY <2>1 DEF WaitersKnown, Grows, NodesTyped
  <2>4. MailKnown' /\ ChannelEnds'
    BY <2>1, TakenMail
  <2>5. QED BY <2>2, <2>3, <2>4
<1>27. ASSUME RestartNode  PROVE Shape'
  <2> USE <1>27 DEF Typed, Shape, RestartNode, still, work, gate, line, nodes, process, outcome
  <2>1. Grows
    BY DEF Grows, IsKnown, NodesTyped
  <2>2. StackShape'
    <3>1. CASE Return
      BY <2>1, <3>1, StackReturned DEF At
    <3>2. CASE \E order \in Orders(registered) : Call(Each(Stop, order))
      <4>1. PICK order \in Orders(registered) : Call(Each(Stop, order))
        BY <3>2
      <4>2. order \in Seq(Nodes) /\ \A i \in DOMAIN order : IsKnown(order[i])
        BY <4>1, RegisteredInOrder DEF NodesTyped
      <4>3. Each(Stop, order) \in Seq(KnownCalls \cap PlainCalls)
        BY <4>2, KnownInOrder
      <4>4. QED BY <2>1, <4>1, <4>3, StackExtended DEF At
    <3>3. QED BY <3>1, <3>2 DEF TriggerShutdown
  <2>3. WaitersKnown'
    BY <2>1 DEF WaitersKnown, Grows, NodesTyped
  <2>4. MailKnown'
    BY <2>1 DEF MailKnown, Grows, Kind
  <2>5. ChannelEnds'
    <3>1. \A v \in Nodes : status[v] \in {"exited", "dead"} => status'[v] = status[v]
      BY DEF ProcessTyped, Nodes
    <3>2. QED BY <3>1 DEF ChannelEnds, Kind
  <2>6. QED BY <2>2, <2>3, <2>4, <2>5
<1>28. ASSUME LoopOnce  PROVE Shape'
  <2> USE <1>28 DEF Typed, Shape, LoopOnce, still, work, gate, line, nodes, process, outcome
  <2>1. Grows
    BY DEF Grows, IsKnown, NodesTyped
  <2>2. StackShape'
    <3>1. CASE Return
      BY <2>1, <3>1, StackReturned DEF At
    <3>2. CASE \E order \in Orders(registered) : Call(Each(Stop, order))
      <4>1. PICK order \in Orders(registered) : Call(Each(Stop, order))
        BY <3>2
      <4>2. order \in Seq(Nodes) /\ \A i \in DOMAIN order : IsKnown(order[i])
        BY <4>1, RegisteredInOrder DEF NodesTyped
      <4>3. Each(Stop, order) \in Seq(KnownCalls \cap PlainCalls)
        BY <4>2, KnownInOrder
      <4>4. QED BY <2>1, <4>1, <4>3, StackExtended DEF At
    <3>3. QED BY <3>1, <3>2 DEF TriggerShutdown
  <2>3. WaitersKnown'
    BY <2>1 DEF WaitersKnown, Grows, NodesTyped
  <2>4. MailKnown'
    BY <2>1 DEF MailKnown, Grows, Kind
  <2>5. ChannelEnds'
    BY DEF ChannelEnds, Kind
  <2>6. QED BY <2>2, <2>3, <2>4, <2>5
<1>29. ASSUME NEW w \in Nodes, StopGranted(w)  PROVE Shape'
  <2> USE <1>29 DEF Typed, Shape, StopGranted, still, work, gate, line, nodes, process, outcome
  <2>1. Grows
    BY DEF Grows, IsKnown, Tell
  <2>2. StackShape'
    BY <2>1, StackReturned DEF At
  <2>3. WaitersKnown'
    BY <2>1, WaitersStayKnown DEF NodesTyped, Raised
  <2>4. MailKnown'
    BY <2>1 DEF MailKnown, Grows, Kind
  <2>5. ChannelEnds'
    BY DEF ChannelEnds, Kind
  <2>6. QED BY <2>2, <2>3, <2>4, <2>5
<1>30. ASSUME NEW w \in Nodes, StopBlocked(w)  PROVE Shape'
  <2> USE <1>30 DEF Typed, Shape, StopBlocked, still, work, gate, line, nodes, process, outcome
  <2>1. Grows
    BY DEF Grows, IsKnown, Tell
  <2>2. StackShape'
    BY <2>1, StackReturned DEF At
  <2>3. WaitersKnown'
    BY <2>1 DEF WaitersKnown, Grows, NodesTyped
  <2>4. MailKnown'
    BY <2>1 DEF MailKnown, Grows, Kind
  <2>5. ChannelEnds'
    BY DEF ChannelEnds, Kind
  <2>6. QED BY <2>2, <2>3, <2>4, <2>5
<1>31. ASSUME NEW w \in Nodes, StopWithdraws(w)  PROVE Shape'
  <2> USE <1>31 DEF Typed, Shape, StopWithdraws, still, work, gate, line, nodes, process,
      outcome
  <2>1. Grows
    BY DEF Grows, IsKnown, Tell
  <2>2. StackShape'
    BY <2>1, StackReturned DEF At
  <2>3. WaitersKnown'
    BY <2>1, WaitersStayKnown DEF NodesTyped
  <2>4. MailKnown'
    BY <2>1 DEF MailKnown, Grows, Kind
  <2>5. ChannelEnds'
    BY DEF ChannelEnds, Kind
  <2>6. QED BY <2>2, <2>3, <2>4, <2>5
<1>32. ASSUME NEW w \in Nodes, Boot(w)  PROVE Shape'
  <2> USE <1>32 DEF Typed, Shape, Boot, central, work, gate, line, nodes, process, outcome
  <2>1. Grows
    <3>1. w \notin down
      BY DEF ProcessTyped, Idling, Asking, NotAsking
    <3>2. \A v \in Nodes : v # w => events'[v] = events[v]
      BY DEF Post, ChannelsTyped
    <3>3. QED BY <3>1, <3>2 DEF Grows, IsKnown
  <2>2. StackShape'
    BY <2>1, StackKept
  <2>3. WaitersKnown'
    BY <2>1 DEF WaitersKnown, Grows, NodesTyped
  <2>4. MailKnown' /\ ChannelEnds'
    <3> DEFINE ms == <<<<"ready", 0>>, <<"collected", 0>>>>
    <3>1. ms \in Seq(Mail)
      BY MailTyped, MailLists
    <3>2. \A i \in DOMAIN ms : ms[i][1] \in {"ready", "collected", "holds"}
      OBVIOUS
    <3>3. Post(w, ms) /\ \A v \in Nodes : v # w => status'[v] = status[v] /\ inbox'[v] = inbox[v]
      BY DEF ProcessTyped
    <3> HIDE DEF ms
    <3>4. QED BY <2>1, <3>1, <3>2, <3>3, PostedMail
  <2>5. QED BY <2>2, <2>3, <2>4
<1>33. ASSUME NEW w \in Nodes, StartTest(w)  PROVE Shape'
  <2> USE <1>33 DEF Typed, Shape, StartTest, central, work, gate, line, nodes, process, outcome
  <2>1. Grows
    <3>1. w \notin down
      BY DEF ProcessTyped, MayStart
    <3>2. \A v \in Nodes : v # w => events'[v] = events[v]
      BY DEF Post, ChannelsTyped
    <3>3. QED BY <3>1, <3>2 DEF Grows, IsKnown
  <2>2. StackShape'
    BY <2>1, StackKept
  <2>3. WaitersKnown'
    BY <2>1 DEF WaitersKnown, Grows, NodesTyped
  <2>4. MailKnown' /\ ChannelEnds'
    <3> DEFINE F == After(Head(inbox[w]), alive[w])
    <3>1. Head(inbox[w]) \in Tests /\ alive[w] \in SUBSET Fixtures
      BY DEF ProcessTyped, MayStart
    <3>2. F \in SUBSET Fixtures
      BY <3>1, CostsTyped
    <3>3. HoldsEvent(alive[w], F) \in Seq(Mail)
          /\ \A i \in DOMAIN HoldsEvent(alive[w], F) : HoldsEvent(alive[w], F)[i][1] = "holds"
      BY <3>1, <3>2, HoldsEventTyped DEF HoldsEvent
    <3>4. Post(w, HoldsEvent(alive[w], F)) /\ status[w] = "up"
      BY DEF MayStart
    <3> HIDE DEF F
    <3>5. QED BY <2>1, <3>3, <3>4, PostedMail
  <2>5. QED BY <2>2, <2>3, <2>4
<1>34. ASSUME NEW w \in Nodes, SkipTest(w)  PROVE Shape'
  <2> USE <1>34 DEF Typed, Shape, SkipTest, central, work, gate, line, nodes, process, outcome
  <2>1. Grows
    <3>1. w \notin down
      BY DEF ProcessTyped, MayStart
    <3>2. \A v \in Nodes : v # w => events'[v] = events[v]
      BY DEF Post, ChannelsTyped
    <3>3. QED BY <3>1, <3>2 DEF Grows, IsKnown
  <2>2. StackShape'
    BY <2>1, StackKept
  <2>3. WaitersKnown'
    BY <2>1 DEF WaitersKnown, Grows, NodesTyped
  <2>4. MailKnown' /\ ChannelEnds'
    <3>1. inbox[w] \in Seq(Tests) /\ inbox[w] # <<>> /\ status[w] = "up"
      BY DEF ProcessTyped, MayStart
    <3>2. <<"complete", Head(inbox[w])>> \in Mail /\ IsKnown(w)
      BY <3>1, MailTyped DEF MailKnown
    <3>3. Skipped(Head(inbox[w])) \in Seq(Mail)
          /\ \A i \in DOMAIN Skipped(Head(inbox[w])) : Skipped(Head(inbox[w]))[i][1] = "complete"
      BY <3>2, MailLists DEF Skipped
    <3>4. \A v \in Nodes : v # w => status'[v] = status[v] /\ inbox'[v] = inbox[v]
      BY DEF ProcessTyped
    <3>5. QED BY <2>1, <3>1, <3>2, <3>3, <3>4, PostedMail
  <2>5. QED BY <2>2, <2>3, <2>4
<1>35. ASSUME NEW w \in Nodes, FinishTest(w)  PROVE Shape'
  <2> USE <1>35 DEF Typed, Shape, FinishTest, central, work, gate, line, nodes, process, outcome
  <2>1. Grows
    <3>1. w \notin down
      BY Busy DEF ProcessTyped, Idling
    <3>2. \A v \in Nodes : v # w => events'[v] = events[v]
      BY DEF Post, ChannelsTyped
    <3>3. QED BY <3>1, <3>2 DEF Grows, IsKnown
  <2>2. StackShape'
    BY <2>1, StackKept
  <2>3. WaitersKnown'
    BY <2>1 DEF WaitersKnown, Grows, NodesTyped
  <2>4. MailKnown' /\ ChannelEnds'
    <3> DEFINE left == IF Len(inbox[w]) > 1 THEN Kept(inbox[w][2], alive[w]) ELSE {}
               ms   == Append(HoldsEvent(alive[w], left), <<"complete", Head(inbox[w])>>)
    <3>1. inbox[w] \in Seq(Tests) /\ inbox[w] # <<>> /\ status[w] = "up"
          /\ alive[w] \in SUBSET Fixtures
      BY DEF ProcessTyped, Idling
    <3>2. <<"complete", Head(inbox[w])>> \in Mail /\ IsKnown(w)
      BY <3>1, MailTyped DEF MailKnown
    <3>3. left \in SUBSET Fixtures
      BY <3>1 DEF Kept
    <3>4. HoldsEvent(alive[w], left) \in Seq(Mail)
          /\ \A i \in DOMAIN HoldsEvent(alive[w], left) : HoldsEvent(alive[w], left)[i][1] = "holds"
      <4> HIDE DEF left
      <4>1. QED BY <3>1, <3>3, HoldsEventTyped DEF HoldsEvent
    <3>5. Post(w, ms) /\ \A v \in Nodes : v # w => status'[v] = status[v] /\ inbox'[v] = inbox[v]
      BY DEF ProcessTyped
    <3>6. ms \in Seq(Mail) /\ \A i \in DOMAIN ms : ms[i][1] \in {"holds", "complete"}
      <4> HIDE DEF left
      <4>1. QED BY <3>2, <3>4
    <3> HIDE DEF ms
    <3>7. QED BY <2>1, <3>1, <3>2, <3>5, <3>6, PostedMail
  <2>5. QED BY <2>2, <2>3, <2>4
<1>36. ASSUME NEW w \in Nodes, Ask(w)  PROVE Shape'
  <2> USE <1>36 DEF Typed, Shape, Ask, central, work, gate, line, nodes, process, outcome
  <2>1. Grows
    <3>1. w \notin down
      BY Busy DEF ProcessTyped, Idling
    <3>2. \A v \in Nodes : v # w => events'[v] = events[v]
      BY DEF Post, ChannelsTyped
    <3>3. QED BY <3>1, <3>2 DEF Grows, IsKnown
  <2>2. StackShape'
    BY <2>1, StackKept
  <2>3. WaitersKnown'
    BY <2>1 DEF WaitersKnown, Grows, NodesTyped
  <2>4. MailKnown' /\ ChannelEnds'
    <3>1. inbox[w] # <<>> /\ status[w] = "up" /\ IsKnown(w)
      BY DEF ProcessTyped, Idling, MailKnown
    <3>2. PICK m \in Requesting : Post(w, <<<<"request", m>>>>)
      BY AskPosts DEF Typed
    <3>3. <<<<"request", m>>>> \in Seq(Mail)
          /\ \A i \in DOMAIN <<<<"request", m>>>> : <<<<"request", m>>>>[i][1] = "request"
      BY <3>2, MailTyped, MailLists
    <3>4. QED BY <2>1, <3>1, <3>2, <3>3, PostedMail
  <2>5. QED BY <2>2, <2>3, <2>4
<1>37. ASSUME NEW w \in Nodes, GiveUp(w)  PROVE Shape'
  <2> USE <1>37 DEF Typed, Shape, GiveUp, central, work, gate, line, nodes, process, outcome
  <2>1. Grows
    <3>1. w \notin down
      BY Busy DEF ProcessTyped, Idling
    <3>2. \A v \in Nodes : v # w => events'[v] = events[v]
      BY DEF Post, ChannelsTyped
    <3>3. QED BY <3>1, <3>2 DEF Grows, IsKnown
  <2>2. StackShape'
    BY <2>1, StackKept
  <2>3. WaitersKnown'
    BY <2>1 DEF WaitersKnown, Grows, NodesTyped
  <2>4. MailKnown' /\ ChannelEnds'
    <3>1. inbox[w] # <<>> /\ status[w] = "up" /\ IsKnown(w)
      BY Busy DEF MailKnown
    <3>2. PICK m \in Requesting : Post(w, <<<<"request", m>>>>)
      BY GiveUpPosts DEF Typed
    <3>3. <<<<"request", m>>>> \in Seq(Mail)
          /\ \A i \in DOMAIN <<<<"request", m>>>> : <<<<"request", m>>>>[i][1] = "request"
      BY <3>2, MailTyped, MailLists
    <3>4. QED BY <2>1, <3>1, <3>2, <3>3, PostedMail
  <2>5. QED BY <2>2, <2>3, <2>4
<1>38. ASSUME NEW w \in Nodes, GrantArrives(w)  PROVE Shape'
  <2> USE <1>38 DEF Typed, Shape, GrantArrives, central, work, gate, line, nodes, process,
      outcome
  <2>1. Grows
    BY DEF Grows, IsKnown, NodesTyped
  <2>2. StackShape'
    BY <2>1, StackKept
  <2>3. WaitersKnown'
    BY <2>1 DEF WaitersKnown, Grows, NodesTyped
  <2>4. MailKnown'
    BY <2>1 DEF MailKnown, Grows, Kind
  <2>5. ChannelEnds'
    BY DEF ChannelEnds, Kind
  <2>6. QED BY <2>2, <2>3, <2>4, <2>5
<1>39. ASSUME NEW w \in Nodes, NEW reached \in BOOLEAN, GoOn(w, reached)  PROVE Shape'
  <2> USE <1>39 DEF Typed, Shape, GoOn, central, work, gate, line, nodes, process, outcome
  <2>1. Grows
    <3>1. w \notin down
      BY Busy DEF ProcessTyped, Idling
    <3>2. \A v \in Nodes : v # w => events'[v] = events[v]
      BY DEF Post, ChannelsTyped
    <3>3. QED BY <3>1, <3>2 DEF Grows, IsKnown
  <2>2. StackShape'
    BY <2>1, StackKept
  <2>3. WaitersKnown'
    BY <2>1 DEF WaitersKnown, Grows, NodesTyped
  <2>4. MailKnown' /\ ChannelEnds'
    <3> DEFINE F == IF reached THEN alive[w] \cup {permit[w].key} ELSE alive[w]
    <3>1. permit[w] \in PermitRecords /\ alive[w] \in SUBSET Fixtures
      BY DEF ProcessTyped
    <3>2. permit[w].state # NotAsking /\ permit[w].key \in Fixtures
      BY <3>1, PermitFields
    <3>3. F \in SUBSET Fixtures /\ status[w] = "up"
      BY <3>1, <3>2 DEF ProcessTyped, Idling, Asking
    <3>4. HoldsEvent(alive[w], F) \in Seq(Mail)
          /\ \A i \in DOMAIN HoldsEvent(alive[w], F) : HoldsEvent(alive[w], F)[i][1] = "holds"
      BY <3>1, <3>3, HoldsEventTyped DEF HoldsEvent
    <3>5. Post(w, HoldsEvent(alive[w], F))
      OBVIOUS
    <3> HIDE DEF F
    <3>6. QED BY <2>1, <3>3, <3>4, <3>5, PostedMail
  <2>5. QED BY <2>2, <2>3, <2>4
<1>40. ASSUME NEW w \in Nodes, Exit(w)  PROVE Shape'
  <2> USE <1>40 DEF Typed, Shape, Exit, Leave, central, work, gate, line, nodes, process,
      outcome
  <2>1. Grows
    <3>1. w \notin down
      BY DEF ProcessTyped
    <3>2. \A v \in Nodes : v # w => events'[v] = events[v]
      BY DEF Post, ChannelsTyped
    <3>3. QED BY <3>1, <3>2 DEF Grows, IsKnown
  <2>2. StackShape'
    BY <2>1, StackKept
  <2>3. WaitersKnown'
    BY <2>1 DEF WaitersKnown, Grows, NodesTyped
  <2>4. MailKnown' /\ ChannelEnds'
    <3> DEFINE ms == <<<<"finished", 0>>>>
    <3>1. ms \in Seq(Mail) /\ Len(ms) = 1 /\ Post(w, ms) /\ ms[1][1] = "finished"
      BY MailTyped, MailLists
    <3> HIDE DEF ms
    <3>2. w \in down' /\ status'[w] = "exited" /\ inbox'[w] = <<>>
          /\ \A v \in Nodes : v # w => status'[v] = status[v] /\ inbox'[v] = inbox[v]
      BY DEF ProcessTyped
    <3>3. MailKnown'
      BY <2>1, <3>1, <3>2, NewMail DEF MailKnown, Grows, Kind, IsKnown
    <3>4. ChannelEnds'
      <4>1. ASSUME NEW i \in DOMAIN events'[w]
            PROVE  /\ Kind(w, i)' = "finished" => i = Len(events'[w]) /\ status'[w] = "exited"
                   /\ Kind(w, i)' = "down" => i = Len(events'[w]) /\ status'[w] = "dead"
        <5>1. CASE i \in DOMAIN events[w]
          BY <3>1, <5>1, NewMail DEF ChannelEnds, Kind
        <5>2. CASE i \notin DOMAIN events[w]
          <6>1. i = Len(events'[w]) /\ events'[w][i] = ms[1]
            <7>1. events[w] \in Seq(Mail) /\ events'[w] \in Seq(Mail)
              BY <3>1, NewMail DEF ChannelsTyped
            <7>2. i - Len(events[w]) \in DOMAIN ms /\ events'[w][i] = ms[i - Len(events[w])]
                  /\ Len(events'[w]) = Len(events[w]) + 1
              BY <3>1, <4>1, <5>2, NewMail
            <7>3. QED BY <3>1, <4>1, <7>1, <7>2
          <6>2. QED BY <3>1, <3>2, <6>1 DEF Kind
        <5>3. QED BY <5>1, <5>2
      <4>2. ASSUME NEW v \in Nodes, v # w, NEW i \in DOMAIN events'[v]
            PROVE  /\ Kind(v, i)' = "finished" => i = Len(events'[v]) /\ status'[v] = "exited"
                   /\ Kind(v, i)' = "down" => i = Len(events'[v]) /\ status'[v] = "dead"
        BY <3>1, <3>2, <4>2, NewMail DEF ChannelEnds, Kind
      <4>3. QED BY <4>1, <4>2 DEF ChannelEnds
    <3>5. QED BY <3>3, <3>4
  <2>5. QED BY <2>2, <2>3, <2>4
<1>41. ASSUME NEW w \in Nodes, Crash(w)  PROVE Shape'
  <2> USE <1>41 DEF Typed, Shape, Crash, Leave, central, work, gate, line, nodes, process,
      outcome
  <2>1. Grows
    <3>1. w \notin down
      BY DEF ProcessTyped
    <3>2. \A v \in Nodes : v # w => events'[v] = events[v]
      BY DEF Post, ChannelsTyped
    <3>3. QED BY <3>1, <3>2 DEF Grows, IsKnown
  <2>2. StackShape'
    BY <2>1, StackKept
  <2>3. WaitersKnown'
    BY <2>1 DEF WaitersKnown, Grows, NodesTyped
  <2>4. MailKnown' /\ ChannelEnds'
    <3> DEFINE ms == <<<<"down", 0>>>>
    <3>1. ms \in Seq(Mail) /\ Len(ms) = 1 /\ Post(w, ms) /\ ms[1][1] = "down"
      BY MailTyped, MailLists
    <3> HIDE DEF ms
    <3>2. w \in down' /\ status'[w] = "dead" /\ inbox'[w] = <<>>
          /\ \A v \in Nodes : v # w => status'[v] = status[v] /\ inbox'[v] = inbox[v]
      BY DEF ProcessTyped
    <3>3. MailKnown'
      BY <2>1, <3>1, <3>2, NewMail DEF MailKnown, Grows, Kind, IsKnown
    <3>4. ChannelEnds'
      <4>1. ASSUME NEW i \in DOMAIN events'[w]
            PROVE  /\ Kind(w, i)' = "finished" => i = Len(events'[w]) /\ status'[w] = "exited"
                   /\ Kind(w, i)' = "down" => i = Len(events'[w]) /\ status'[w] = "dead"
        <5>1. CASE i \in DOMAIN events[w]
          BY <3>1, <5>1, NewMail DEF ChannelEnds, Kind
        <5>2. CASE i \notin DOMAIN events[w]
          <6>1. i = Len(events'[w]) /\ events'[w][i] = ms[1]
            <7>1. events[w] \in Seq(Mail) /\ events'[w] \in Seq(Mail)
              BY <3>1, NewMail DEF ChannelsTyped
            <7>2. i - Len(events[w]) \in DOMAIN ms /\ events'[w][i] = ms[i - Len(events[w])]
                  /\ Len(events'[w]) = Len(events[w]) + 1
              BY <3>1, <4>1, <5>2, NewMail
            <7>3. QED BY <3>1, <4>1, <7>1, <7>2
          <6>2. QED BY <3>1, <3>2, <6>1 DEF Kind
        <5>3. QED BY <5>1, <5>2
      <4>2. ASSUME NEW v \in Nodes, v # w, NEW i \in DOMAIN events'[v]
            PROVE  /\ Kind(v, i)' = "finished" => i = Len(events'[v]) /\ status'[v] = "exited"
                   /\ Kind(v, i)' = "down" => i = Len(events'[v]) /\ status'[v] = "dead"
        BY <3>1, <3>2, <4>2, NewMail DEF ChannelEnds, Kind
      <4>3. QED BY <4>1, <4>2 DEF ChannelEnds
    <3>5. QED BY <3>3, <3>4
  <2>5. QED BY <2>2, <2>3, <2>4
<1>42. ASSUME UNCHANGED vars  PROVE Shape'
  <2> USE <1>42 DEF Typed, Shape, vars, work, gate, line, nodes, process, outcome
  <2>1. Grows
    BY DEF Grows, IsKnown
  <2>2. StackShape'
    BY <2>1, StackKept
  <2>3. WaitersKnown'
    BY DEF WaitersKnown, IsKnown
  <2>4. MailKnown'
    BY DEF MailKnown, IsKnown, Kind
  <2>5. ChannelEnds'
    BY DEF ChannelEnds, Kind
  <2>6. QED BY <2>2, <2>3, <2>4, <2>5
<1>43. /\ AtOp("fill") => Head(todo).out \in Seq(Tests)
       /\ AtOp("replan") => Head(todo).tests \in SUBSET Tests
  BY StackMoves, CallFields DEF Typed, AtOp
<1>44. ASSUME NEW w \in Nodes, AtOp("fill"), Filler(w, Head(todo).out)  PROVE Shape'
  BY <1>44, <1>43, <1>2, <1>3, <1>4, <1>5, <1>6 DEF Filler
<1>45. ASSUME NEW w \in Nodes, Common(w)  PROVE Shape'
  BY <1>45, <1>8, <1>9, <1>10,
     <1>19, <1>20, <1>23, <1>25, <1>26,
     <1>29, <1>30, <1>31,
     <1>21, <1>15, <1>18, <1>16, <1>17 DEF Common
<1>46. ASSUME Anywhere  PROVE Shape'
  BY <1>46, <1>43, <1>11, <1>12, <1>13, <1>14, <1>27
  DEF Anywhere
<1>47. ASSUME Controller  PROVE Shape'
  BY <1>47, <1>44, <1>45, <1>46, <1>1, <1>7, <1>22, <1>24, <1>28
  DEF Controller
<1>48. ASSUME NEW w \in Nodes, Worker(w)  PROVE Shape'
  BY <1>48, <1>32, <1>33, <1>34, <1>35, <1>40, <1>36, <1>38, <1>39 DEF Worker
<1>49. QED BY <1>42, <1>47, <1>48, <1>37, <1>41 DEF Next, Stopped

(* The session starts on an initial plan and the loop, with nobody known.  *)
LEMMA ShapeInit == Init => Shape
<1> SUFFICES ASSUME Init  PROVE Shape
  OBVIOUS
<1> USE DEF Init, Start
<1>1. StackShape
  <2> DEFINE r == Replan(Tests)
  <2>1. r \in KnownCalls /\ r.op = "replan" /\ Loop \in KnownCalls /\ Loop \in PlainCalls
    BY KnownCallLists DEF Replan
  <2> HIDE DEF r
  <2>2. todo = <<r, Loop>>
    BY DEF r
  <2>3. todo \in Seq(KnownCalls) /\ Tail(todo) \in Seq(PlainCalls) /\ Head(todo) = r
    BY <2>1, <2>2
  <2>4. QED BY <2>1, <2>3 DEF StackShape, AtOp
<1>2. WaitersKnown /\ MailKnown /\ ChannelEnds
  BY DEF WaitersKnown, MailKnown, ChannelEnds
<1>3. QED BY <1>1, <1>2 DEF Shape

(* The scheduler never has a call to make for a node it has not met, draws *)
(* a batch up only for a registered node that was not told to finish, and  *)
(* removes a node only when its process is gone and nothing of it is left  *)
(* in the channel: a handler that looks a node up finds it, and no message *)
(* arrives from a worker that said it was done.                            *)
THEOREM AlwaysShape == Spec => []Shape
<1>1. Typed /\ Shape /\ [Next]_vars => Shape'
  BY ShapeStep
<1>2. QED BY <1>1, ShapeInit, AlwaysTyped, PTL DEF Spec

-----------------------------------------------------------------------------
(* No entry occurs twice.                                                  *)
Distinct(s) == \A i, j \in DOMAIN s : s[i] = s[j] => i = j

(* Planned tests are pending, of a registered node, and of one node only.  *)
Planned ==
  /\ \A v \in Nodes : plan[v] \subseteq pending
  /\ \A v \in Nodes : plan[v] # {} => v \in registered
  /\ \A v, w \in Nodes : v # w => plan[v] \cap plan[w] = {}

(* A test is sent to one node, once, and is then neither pending nor done. *)
Queued ==
  /\ \A v \in Nodes : Distinct(queue[v])
  /\ \A v \in Nodes : Elements(queue[v]) \cap (pending \cup reported \cup crashed) = {}
  /\ \A v, w \in Nodes : v # w => Elements(queue[v]) \cap Elements(queue[w]) = {}

(* A test is pending, reported or crashed, never two of them; one that is  *)
(* none of them was sent to a node.                                        *)
Settled ==
  /\ pending \cap reported = {} /\ pending \cap crashed = {} /\ reported \cap crashed = {}
  /\ \A t \in Tests : t \notin pending \cup reported \cup crashed =>
       \E v \in Nodes : t \in Elements(queue[v])

(* The tests about to be laid out are pending and in nobody's plan.        *)
ToReplan ==
  AtOp("replan") =>
    /\ Head(todo).tests \subseteq pending
    /\ \A v \in Nodes : Head(todo).tests \cap plan[v] = {}

(* The scheduler's records agree with each other.                          *)
Conserved == Planned /\ Queued /\ Settled /\ ToReplan

(* The tests whose completion is in the channel of w.                      *)
Completes(w) == {events[w][i][2] : i \in {k \in DOMAIN events[w] : Kind(w, k) = "complete"}}

(* No completion is in the channel of w twice.                             *)
CompleteOnce(w) ==
  \A i, j \in DOMAIN events[w] :
    Kind(w, i) = "complete" /\ Kind(w, j) = "complete" /\ events[w][i][2] = events[w][j][2]
      => i = j

(* What check_schedule has taken from the plan of w and not sent yet.      *)
Out(w) == IF AtOp("fill") /\ Head(todo).node = w THEN Head(todo).out ELSE <<>>

(* The queue the scheduler keeps for w is what w has not finished, what is *)
(* being sent to it and what it has finished without the scheduler         *)
(* knowing; these do not overlap. A dead worker may have lost some of it,  *)
(* never completed what it was not sent; one that exited was told to and   *)
(* has completed everything.                                               *)
Agrees(w) ==
  /\ CompleteOnce(w)
  /\ Completes(w) \subseteq Elements(queue[w])
  /\ w \notin down =>
       /\ Distinct(inbox[w]) /\ Distinct(Out(w))
       /\ Elements(inbox[w]) \cap Elements(Out(w)) = {}
       /\ Elements(inbox[w]) \cap Completes(w) = {}
       /\ Elements(Out(w)) \cap Completes(w) = {}
       /\ Elements(queue[w]) = Elements(inbox[w]) \cup Elements(Out(w)) \cup Completes(w)
  /\ status[w] = "exited" =>
       w \in told /\ inbox[w] = <<>> /\ Elements(queue[w]) \subseteq Completes(w)

(* The records agree with what is on its way.                              *)
ChannelAgrees == \A w \in Nodes : Agrees(w)

(* The inductive invariant: neither half is kept without the other.        *)
Consistent == Conserved /\ ChannelAgrees

(* No call with tests in hand is in progress.                              *)
Quiet == ~AtOp("fill") /\ ~AtOp("replan")

-----------------------------------------------------------------------------

(* An entry at the end of a list of others.                                *)
LEMMA AppendElements ==
  ASSUME NEW S, NEW s \in Seq(S), NEW x \in S
  PROVE  /\ Elements(Append(s, x)) = Elements(s) \cup {x}
         /\ Distinct(s) /\ x \notin Elements(s) => Distinct(Append(s, x))
<1>1. Append(s, x) \in Seq(S) /\ Len(Append(s, x)) = Len(s) + 1 /\ Append(s, x)[Len(s) + 1] = x
      /\ \A i \in 1 .. Len(s) : Append(s, x)[i] = s[i]
  OBVIOUS
<1>2. DOMAIN Append(s, x) = 1 .. Len(s) + 1 /\ DOMAIN s = 1 .. Len(s) /\ Len(s) \in Nat
  BY <1>1
<1>3. \A i \in 1 .. Len(s) + 1 : i \in 1 .. Len(s) \/ i = Len(s) + 1
  BY <1>2
<1> DEFINE a == Append(s, x)
<1> HIDE DEF a
<1>4. Elements(a) = Elements(s) \cup {x}
  BY <1>1, <1>2, <1>3 DEF Elements, a
<1>5. Distinct(s) /\ x \notin Elements(s) => Distinct(a)
  BY <1>1, <1>2, <1>3 DEF Elements, Distinct, a
<1>6. QED BY <1>4, <1>5 DEF a

(* Taking the head of a list without repetitions takes that entry.         *)
LEMMA TailElements ==
  ASSUME NEW S, NEW s \in Seq(S), s # <<>>
  PROVE  /\ Head(s) \in Elements(s)
         /\ Elements(s) = Elements(Tail(s)) \cup {Head(s)}
         /\ Distinct(s) => Distinct(Tail(s)) /\ Head(s) \notin Elements(Tail(s))
<1>1. Tail(s) \in Seq(S) /\ Len(Tail(s)) = Len(s) - 1 /\ Len(s) \in Nat \ {0} /\ Head(s) = s[1]
      /\ \A i \in 1 .. Len(s) - 1 : Tail(s)[i] = s[i + 1]
  OBVIOUS
<1>2. DOMAIN Tail(s) = 1 .. Len(s) - 1 /\ DOMAIN s = 1 .. Len(s)
  BY <1>1
<1>3. \A i \in 1 .. Len(s) : i = 1 \/ (i - 1 \in 1 .. Len(s) - 1 /\ (i - 1) + 1 = i)
  BY <1>1
<1>4. \A i \in 1 .. Len(s) - 1 : i + 1 \in 1 .. Len(s) /\ i + 1 # 1
  BY <1>1
<1> DEFINE a == Tail(s)
<1> HIDE DEF a
<1>5. \A i \in DOMAIN s : i = 1 \/ (i - 1 \in DOMAIN a /\ s[i] = a[i - 1])
  BY <1>1, <1>2, <1>3 DEF a
<1>6. \A i \in DOMAIN a : i + 1 \in DOMAIN s /\ a[i] = s[i + 1] /\ i + 1 # 1 /\ i \in Nat
  BY <1>1, <1>2, <1>4 DEF a
<1>7. 1 \in DOMAIN s
  BY <1>1, <1>2
<1>8. Elements(s) = Elements(a) \cup {Head(s)} /\ Head(s) \in Elements(s)
  BY <1>1, <1>5, <1>6, <1>7 DEF Elements
<1>9. Distinct(s) => Distinct(a) /\ Head(s) \notin Elements(a)
  BY <1>1, <1>6, <1>7 DEF Elements, Distinct
<1>10. QED BY <1>8, <1>9 DEF a

(* Two lists without a common entry, end to end.                           *)
LEMMA ConcatElements ==
  ASSUME NEW S, NEW s \in Seq(S), NEW t \in Seq(S)
  PROVE  /\ Elements(s \o t) = Elements(s) \cup Elements(t)
         /\ Distinct(s) /\ Distinct(t) /\ Elements(s) \cap Elements(t) = {} => Distinct(s \o t)
<1>1. s \o t \in Seq(S) /\ Len(s \o t) = Len(s) + Len(t) /\ Len(s) \in Nat /\ Len(t) \in Nat
      /\ (\A i \in 1 .. Len(s) : (s \o t)[i] = s[i])
      /\ (\A j \in 1 .. Len(t) : (s \o t)[Len(s) + j] = t[j])
  OBVIOUS
<1> DEFINE a == s \o t
<1> HIDE DEF a
<1>2. DOMAIN a = 1 .. Len(s) + Len(t) /\ DOMAIN s = 1 .. Len(s) /\ DOMAIN t = 1 .. Len(t)
  BY <1>1 DEF a
<1>3. \A i \in DOMAIN s : i \in DOMAIN a /\ a[i] = s[i]
  BY <1>1, <1>2 DEF a
<1>4. \A i \in DOMAIN t : Len(s) + i \in DOMAIN a /\ a[Len(s) + i] = t[i]
  BY <1>1, <1>2 DEF a
<1>5. \A i \in DOMAIN a : \/ i \in DOMAIN s /\ a[i] = s[i]
                          \/ i - Len(s) \in DOMAIN t /\ a[i] = t[i - Len(s)]
  <2>1. SUFFICES ASSUME NEW i \in DOMAIN a, i \notin DOMAIN s
        PROVE  i - Len(s) \in DOMAIN t /\ a[i] = t[i - Len(s)]
    BY <1>3
  <2>2. i - Len(s) \in 1 .. Len(t) /\ Len(s) + (i - Len(s)) = i
    BY <1>1, <1>2, <2>1
  <2>3. QED BY <1>2, <1>4, <2>2
<1>6. Elements(a) = Elements(s) \cup Elements(t)
  BY <1>3, <1>4, <1>5 DEF Elements
<1>7. ASSUME Distinct(s), Distinct(t), Elements(s) \cap Elements(t) = {}
      PROVE  Distinct(a)
  <2>1. SUFFICES ASSUME NEW i \in DOMAIN a, NEW j \in DOMAIN a, a[i] = a[j]  PROVE i = j
    BY DEF Distinct
  <2>2. CASE i \in DOMAIN s /\ a[i] = s[i] /\ j \in DOMAIN s /\ a[j] = s[j]
    BY <1>7, <2>1, <2>2 DEF Distinct
  <2>3. CASE i - Len(s) \in DOMAIN t /\ a[i] = t[i - Len(s)]
             /\ j - Len(s) \in DOMAIN t /\ a[j] = t[j - Len(s)]
    <3>1. i - Len(s) = j - Len(s)
      BY <1>7, <2>1, <2>3 DEF Distinct
    <3>2. QED BY <1>1, <1>2, <2>1, <3>1
  <2>4. CASE i \in DOMAIN s /\ a[i] = s[i] /\ j - Len(s) \in DOMAIN t /\ a[j] = t[j - Len(s)]
    BY <1>7, <2>1, <2>4 DEF Elements
  <2>5. CASE j \in DOMAIN s /\ a[j] = s[j] /\ i - Len(s) \in DOMAIN t /\ a[i] = t[i - Len(s)]
    BY <1>7, <2>1, <2>5 DEF Elements
  <2>6. QED BY <1>5, <2>1, <2>2, <2>3, <2>4, <2>5
<1>8. QED BY <1>6, <1>7 DEF a

(* Striking an entry off a list without repetitions strikes it off         *)
(* altogether.                                                             *)
LEMMA WithoutDistinct ==
  ASSUME NEW S, NEW s \in Seq(S), NEW x, Distinct(s)
  PROVE  Elements(G!Without(s, x)) = Elements(s) \ {x} /\ Distinct(G!Without(s, x))
<1>1. CASE \E i \in DOMAIN s : s[i] = x
  <2> DEFINE k == CHOOSE i \in DOMAIN s : s[i] = x
             a == G!Without(s, x)
  <2>1. k \in DOMAIN s /\ s[k] = x /\ DOMAIN s = 1 .. Len(s) /\ Len(s) \in Nat
    BY <1>1
  <2>2. a = [i \in 1 .. Len(s) - 1 |-> IF i < k THEN s[i] ELSE s[i + 1]]
    BY <1>1 DEF G!Without
  <2> HIDE DEF k, a
  <2>3. DOMAIN a = 1 .. Len(s) - 1
        /\ \A i \in DOMAIN a : (i < k /\ a[i] = s[i]) \/ (~(i < k) /\ a[i] = s[i + 1])
    BY <2>2
  <2>4. \A i \in DOMAIN s : i # k =>
          (i \in DOMAIN a /\ a[i] = s[i]) \/ (i - 1 \in DOMAIN a /\ a[i - 1] = s[i])
    <3>1. SUFFICES ASSUME NEW i \in DOMAIN s, i # k
          PROVE  (i \in DOMAIN a /\ a[i] = s[i]) \/ (i - 1 \in DOMAIN a /\ a[i - 1] = s[i])
      OBVIOUS
    <3>2. CASE i < k
      BY <2>1, <2>2, <3>1, <3>2
    <3>3. CASE ~(i < k)
      <4>1. i - 1 \in 1 .. Len(s) - 1 /\ ~(i - 1 < k) /\ (i - 1) + 1 = i
        BY <2>1, <3>1, <3>3
      <4>2. QED BY <2>2, <4>1
    <3>4. QED BY <3>2, <3>3
  <2>5. \A i \in DOMAIN a : \E j \in DOMAIN s : /\ j # k /\ a[i] = s[j]
                                               /\ j = IF i < k THEN i ELSE i + 1
    BY <2>1, <2>3
  <2>6. Elements(a) = Elements(s) \ {x}
    BY <2>1, <2>4, <2>5 DEF Elements, Distinct
  <2>7. ASSUME NEW i \in DOMAIN a, NEW j \in DOMAIN a, a[i] = a[j]
        PROVE  i = j
    <3>1. (IF i < k THEN i ELSE i + 1) = (IF j < k THEN j ELSE j + 1)
      BY <2>5, <2>7 DEF Distinct
    <3>2. i \in Int /\ j \in Int /\ k \in Int
      BY <2>1, <2>3
    <3>3. QED BY <3>1, <3>2
  <2>8. QED BY <2>6, <2>7 DEF Distinct, a
<1>2. CASE ~\E i \in DOMAIN s : s[i] = x
  BY <1>2 DEF G!Without, Elements
<1>3. QED BY <1>1, <1>2

(* Taking a message takes its completion from the channel, if it is one.   *)
LEMMA CompletesTaken ==
  ASSUME ChannelsTyped, NEW w \in Nodes, NEW kind, Takes(w, kind)
  PROVE  /\ kind = "complete" => Head(events[w])[2] \in Completes(w)
         /\ kind = "complete" /\ CompleteOnce(w) =>
              Completes(w)' = Completes(w) \ {Head(events[w])[2]}
         /\ kind # "complete" => Completes(w)' = Completes(w)
         /\ CompleteOnce(w) => CompleteOnce(w)'
         /\ \A v \in Nodes : v # w =>
              Completes(v)' = Completes(v) /\ (CompleteOnce(v) => CompleteOnce(v)')
<1>1. events[w] \in Seq(Mail) /\ events'[w] \in Seq(Mail)
  BY TakesTyped DEF ChannelsTyped
<1>2. /\ 1 \in DOMAIN events[w] /\ Head(events[w]) = events[w][1] /\ Kind(w, 1) = kind
      /\ \A i \in DOMAIN events'[w] : i + 1 \in DOMAIN events[w] /\ events'[w][i] = events[w][i + 1]
  BY NextMail
<1>3. \A i \in DOMAIN events'[w] : i \in Nat /\ i + 1 # 1
  BY <1>1
<1>4. \A i \in DOMAIN events[w] : i # 1 => i - 1 \in DOMAIN events'[w] /\ (i - 1) + 1 = i
  BY <1>1, NextMail
<1>5. \A i \in DOMAIN events[w] : i # 1 => events'[w][i - 1] = events[w][i]
  BY <1>2, <1>4
<1>6. CompleteOnce(w) => CompleteOnce(w)'
  BY <1>2, <1>3 DEF CompleteOnce, Kind
<1>7. kind # "complete" => Completes(w)' = Completes(w)
  BY <1>2, <1>3, <1>4, <1>5 DEF Completes, Kind
<1>8. kind = "complete" => Head(events[w])[2] \in Completes(w)
  BY <1>2 DEF Completes, Kind
<1>9. kind = "complete" /\ CompleteOnce(w) => Completes(w)' = Completes(w) \ {Head(events[w])[2]}
  BY <1>2, <1>3, <1>4, <1>5 DEF Completes, CompleteOnce, Kind
<1>10. \A v \in Nodes : v # w =>
              Completes(v)' = Completes(v) /\ (CompleteOnce(v) => CompleteOnce(v)')
  BY NextMail DEF Completes, CompleteOnce, Kind
<1>11. QED BY <1>6, <1>7, <1>8, <1>9, <1>10

(* The messages end with the completion of t, and complete nothing else.   *)
CompletesLast(messages, t) ==
  /\ messages # <<>> /\ messages[Len(messages)] = <<"complete", t>>
  /\ \A i \in DOMAIN messages : i # Len(messages) => messages[i][1] # "complete"

(* Posting messages adds the completion they end with, if any.             *)
LEMMA CompletesPosted ==
  ASSUME ChannelsTyped, NEW w \in Nodes, NEW messages \in Seq(Mail), Post(w, messages)
  PROVE  /\ (\A i \in DOMAIN messages : messages[i][1] # "complete") =>
              /\ Completes(w)' = Completes(w)
              /\ CompleteOnce(w) => CompleteOnce(w)'
         /\ \A t : CompletesLast(messages, t) =>
              /\ Completes(w)' = Completes(w) \cup {t}
              /\ CompleteOnce(w) /\ t \notin Completes(w) => CompleteOnce(w)'
         /\ \A v \in Nodes : v # w =>
              Completes(v)' = Completes(v) /\ (CompleteOnce(v) => CompleteOnce(v)')
<1>1. events[w] \in Seq(Mail) /\ events'[w] \in Seq(Mail)
      /\ Len(events'[w]) = Len(events[w]) + Len(messages)
  BY NewMail DEF ChannelsTyped
<1>2. \A i \in DOMAIN events[w] : i \in DOMAIN events'[w] /\ events'[w][i] = events[w][i]
  BY NewMail
<1>3. \A i \in DOMAIN events'[w] : i \notin DOMAIN events[w] =>
        i - Len(events[w]) \in DOMAIN messages /\ events'[w][i] = messages[i - Len(events[w])]
  BY NewMail
<1>4. ASSUME \A i \in DOMAIN messages : messages[i][1] # "complete"
      PROVE  Completes(w)' = Completes(w) /\ (CompleteOnce(w) => CompleteOnce(w)')
  <2>1. \A i \in DOMAIN events'[w] : Kind(w, i)' = "complete" =>
          i \in DOMAIN events[w] /\ events'[w][i] = events[w][i]
    BY <1>2, <1>3, <1>4 DEF Kind
  <2>2. QED BY <1>2, <2>1 DEF Completes, CompleteOnce, Kind
<1>5. ASSUME NEW t, CompletesLast(messages, t)
      PROVE  /\ Completes(w)' = Completes(w) \cup {t}
             /\ CompleteOnce(w) /\ t \notin Completes(w) => CompleteOnce(w)'
  <2> DEFINE n == Len(events'[w])
  <2>1. n \in DOMAIN events'[w] /\ n \notin DOMAIN events[w]
        /\ n - Len(events[w]) = Len(messages)
    BY <1>1, <1>5 DEF CompletesLast
  <2>2. events'[w][n] = <<"complete", t>>
    BY <1>3, <1>5, <2>1 DEF CompletesLast
  <2>3. \A i \in DOMAIN events'[w] : Kind(w, i)' = "complete" =>
          (i \in DOMAIN events[w] /\ events'[w][i] = events[w][i]) \/ i = n
    <3>1. SUFFICES ASSUME NEW i \in DOMAIN events'[w], i \notin DOMAIN events[w],
                          Kind(w, i)' = "complete"
          PROVE  i = n
      BY <1>2
    <3>2. i - Len(events[w]) = Len(messages)
      BY <1>3, <1>5, <3>1 DEF Kind, CompletesLast
    <3>3. QED BY <1>1, <2>1, <3>1, <3>2
  <2> HIDE DEF n
  <2>4. Completes(w)' = Completes(w) \cup {t}
    BY <1>2, <2>1, <2>2, <2>3 DEF Completes, Kind
  <2>5. ASSUME CompleteOnce(w), t \notin Completes(w)
        PROVE  CompleteOnce(w)'
    <3>1. \A i \in DOMAIN events[w] : Kind(w, i) = "complete" => events[w][i][2] # t
      BY <2>5 DEF Completes
    <3>2. QED BY <1>2, <2>1, <2>2, <2>3, <2>5, <3>1 DEF CompleteOnce, Kind
  <2>6. QED BY <2>4, <2>5
<1>6. \A v \in Nodes : v # w =>
              Completes(v)' = Completes(v) /\ (CompleteOnce(v) => CompleteOnce(v)')
  BY NewMail DEF Completes, CompleteOnce, Kind
<1>7. QED BY <1>4, <1>5, <1>6

-----------------------------------------------------------------------------

(* After a return the call in progress has no tests in hand.               *)
LEMMA ReturnQuiet ==
  ASSUME StackShape, todo # <<>>, Return
  PROVE  Quiet'
<1>1. Tail(todo) \in Seq(PlainCalls) /\ todo' = Tail(todo)
  BY DEF StackShape, Return
<1>2. todo' # <<>> => Head(todo') \in PlainCalls
  BY <1>1
<1>3. QED BY <1>2 DEF Quiet, AtOp, PlainCalls

(* A stack of plain calls is quiet.                                        *)
LEMMA BegunQuiet ==
  ASSUME todo' \in Seq(PlainCalls)
  PROVE  Quiet'
<1>1. todo' # <<>> => Head(todo') \in PlainCalls
  OBVIOUS
<1>2. QED BY <1>1 DEF Quiet, AtOp, PlainCalls

(* So is the stack after a call that makes plain calls.                    *)
LEMMA CallQuiet ==
  ASSUME StackShape, todo # <<>>, NEW calls \in Seq(PlainCalls), Call(calls)
  PROVE  Quiet'
<1>1. Tail(todo) \in Seq(PlainCalls) /\ todo' = calls \o Tail(todo)
  BY DEF StackShape, Call
<1>2. todo' \in Seq(PlainCalls)
  BY <1>1
<1>3. QED BY <1>2, BegunQuiet

(* The first call made is the one in progress next.                        *)
LEMMA CallHead ==
  ASSUME StackTyped, todo # <<>>, NEW calls \in Seq(Calls), calls # <<>>, Call(calls)
  PROVE  todo' # <<>> /\ Head(todo') = Head(calls)
<1>1. Tail(todo) \in Seq(Calls) /\ todo' = calls \o Tail(todo)
  BY DEF StackTyped, Call
<1>2. QED BY <1>1

(* The calls without tests in hand.                                        *)
LEMMA PlainCallLists ==
  /\ \A w \in Nodes :
       /\ Check(w) \in PlainCalls /\ Rest(w) \in PlainCalls /\ Shutdown(w) \in PlainCalls
       /\ Stop(w) \in PlainCalls /\ Remove(w) \in PlainCalls
       /\ \A release \in BOOLEAN : Retry(w, release) \in PlainCalls
  /\ Admit \in PlainCalls /\ Stalls \in PlainCalls /\ Restart \in PlainCalls /\ Loop \in PlainCalls
<1>1. ASSUME NEW w \in Nodes
      PROVE  /\ Check(w) \in PlainCalls /\ Rest(w) \in PlainCalls /\ Shutdown(w) \in PlainCalls
             /\ Stop(w) \in PlainCalls /\ Remove(w) \in PlainCalls
             /\ \A release \in BOOLEAN : Retry(w, release) \in PlainCalls
  BY CallsOfNodes DEF PlainCalls, Check, Rest, Shutdown, Stop, Remove, Retry
<1>2. Admit \in PlainCalls /\ Stalls \in PlainCalls /\ Restart \in PlainCalls /\ Loop \in PlainCalls
  BY OtherCalls DEF PlainCalls, Admit, Stalls, Restart, Loop
<1>3. QED BY <1>1, <1>2

(* A loop over nodes makes calls without tests in hand.                    *)
LEMMA PlainInOrder ==
  ASSUME NEW s \in Seq(Nodes)
  PROVE  /\ Each(Check, s) \in Seq(PlainCalls)
         /\ Each(Stop, s) \in Seq(PlainCalls)
         /\ Each(Visit, s) \in Seq(PlainCalls)
<1>1. \A i \in DOMAIN s : s[i] \in Nodes
  OBVIOUS
<1>2. \A i \in DOMAIN s : /\ Check(s[i]) \in PlainCalls
                          /\ Stop(s[i]) \in PlainCalls
                          /\ Visit(s[i]) \in PlainCalls
  BY <1>1, PlainCallLists DEF Visit
<1>3. QED BY <1>2 DEF Each

-----------------------------------------------------------------------------

(* A step that moves no test between the records keeps what they say.      *)
LEMMA SpreadKept ==
  ASSUME Conserved, UNCHANGED <<pending, plan, queue, reported, crashed>>,
         registered \subseteq registered'
  PROVE  Planned' /\ Queued' /\ Settled'
BY DEF Conserved, Planned, Queued, Settled

(* A step that moves no test to or from a worker keeps them in agreement   *)
(* with the channels.                                                      *)
LEMMA AgreesKept ==
  ASSUME ChannelAgrees, UNCHANGED <<queue, inbox, down>>, told \subseteq told',
         \A v \in Nodes : Completes(v)' = Completes(v) /\ (CompleteOnce(v) => CompleteOnce(v)'),
         \A v \in Nodes : Out(v)' = Out(v),
         \A v \in Nodes : status'[v] = "exited" => status[v] = "exited"
  PROVE  ChannelAgrees'
<1> SUFFICES ASSUME NEW v \in Nodes  PROVE Agrees(v)'
  BY DEF ChannelAgrees
<1>1. Agrees(v)
  BY DEF ChannelAgrees
<1>2. Completes(v)' = Completes(v) /\ CompleteOnce(v)' /\ Out(v)' = Out(v)
  BY <1>1 DEF Agrees
<1>3. QED BY <1>1, <1>2 DEF Agrees

(* A step that leaves the channels alone leaves the completions alone.     *)
LEMMA SameMail ==
  ASSUME UNCHANGED events
  PROVE  \A v \in Nodes : Completes(v)' = Completes(v) /\ (CompleteOnce(v) => CompleteOnce(v)')
BY DEF Completes, CompleteOnce, Kind

(* Outside fill no batch is on its way out.                                *)
LEMMA NothingOut ==
  /\ ~AtOp("fill") => \A v \in Nodes : Out(v) = <<>>
  /\ ~AtOp("fill")' => \A v \in Nodes : Out(v)' = <<>>
BY DEF Out

(* A call that plans and sends nothing keeps the invariant.                *)
LEMMA QuietKept ==
  ASSUME Consistent, UNCHANGED <<pending, plan, queue, reported, crashed, inbox, events, down>>,
         registered \subseteq registered', told \subseteq told',
         \A v \in Nodes : status'[v] = "exited" => status[v] = "exited",
         ~AtOp("fill"), Quiet'
  PROVE  Consistent'
<1>1. Planned' /\ Queued' /\ Settled'
  BY SpreadKept DEF Consistent
<1>2. ToReplan'
  BY DEF Quiet, ToReplan
<1>3. ChannelAgrees'
  BY SameMail, NothingOut, AgreesKept DEF Consistent, Quiet
<1>4. QED BY <1>1, <1>2, <1>3 DEF Consistent, Conserved

(* A step outside the handlers keeps the records consistent.               *)
LEMMA StackIdle ==
  ASSUME Consistent, UNCHANGED <<todo, pending, plan, queue, reported, crashed>>,
         registered \subseteq registered', ChannelAgrees'
  PROVE  Consistent'
<1>1. Planned' /\ Queued' /\ Settled'
  BY SpreadKept DEF Consistent
<1>2. ToReplan'
  BY DEF ToReplan, Consistent, Conserved, AtOp
<1>3. QED BY <1>1, <1>2 DEF Consistent, Conserved

(* So does a handler that takes mail and moves no test.                    *)
LEMMA TakenKept ==
  ASSUME Consistent, ChannelsTyped, NEW w \in Nodes, NEW kind, kind # "complete", Takes(w, kind),
         UNCHANGED <<pending, plan, queue, reported, crashed, inbox, down, status>>,
         registered \subseteq registered', told \subseteq told', ~AtOp("fill")', ToReplan'
  PROVE  Consistent'
<1>1. Planned' /\ Queued' /\ Settled'
  BY SpreadKept DEF Consistent
<1>2. ~AtOp("fill")
  BY DEF Takes, AtOp
<1>3. ASSUME NEW v \in Nodes
      PROVE  Completes(v)' = Completes(v) /\ (CompleteOnce(v) => CompleteOnce(v)')
  <2>1. CASE v = w
    BY <2>1, CompletesTaken
  <2>2. CASE v # w
    BY <2>2, CompletesTaken
  <2>3. QED BY <2>1, <2>2
<1>4. ChannelAgrees'
  BY <1>2, <1>3, NothingOut, AgreesKept DEF Consistent
<1>5. QED BY <1>1, <1>4 DEF Consistent, Conserved

(* So does a worker that posts mail and completes no test.                 *)
LEMMA PostedKept ==
  ASSUME Consistent, ChannelsTyped, NEW w \in Nodes, NEW messages \in Seq(Mail), Post(w, messages),
         \A i \in DOMAIN messages : messages[i][1] # "complete",
         UNCHANGED <<todo, pending, plan, queue, registered, reported, crashed, inbox, down, told>>,
         \A v \in Nodes : status'[v] = "exited" => status[v] = "exited"
  PROVE  Consistent'
<1>1. ASSUME NEW v \in Nodes
      PROVE  Completes(v)' = Completes(v) /\ (CompleteOnce(v) => CompleteOnce(v)')
  <2>1. CASE v = w
    BY <2>1, CompletesPosted
  <2>2. CASE v # w
    BY <2>2, CompletesPosted
  <2>3. QED BY <2>1, <2>2
<1>2. \A v \in Nodes : Out(v)' = Out(v)
  BY DEF Out, AtOp
<1>3. ChannelAgrees'
  BY <1>1, <1>2, AgreesKept DEF Consistent
<1>4. QED BY <1>3, StackIdle

(* The queue of a node is what it has not begun and the head it has begun. *)
LEMMA QueueSplit ==
  ASSUME WorkTyped, Queued, NEW w \in Nodes
  PROVE  /\ Begun(w) => /\ Elements(queue[w]) = Unstarted(w) \cup {Head(queue[w])}
                        /\ Head(queue[w]) \notin Unstarted(w)
         /\ ~Begun(w) => Elements(queue[w]) = Unstarted(w)
<1>1. queue[w] \in Seq(Tests) /\ Distinct(queue[w])
  BY DEF WorkTyped, Queued
<1>2. Begun(w) => queue[w] # <<>>
  BY DEF Begun
<1>3. QED BY <1>1, <1>2, TailElements DEF Unstarted

(* remove_node returns to pending what the node had not begun and counts   *)
(* the head it had begun as crashed: nothing is lost, nothing counted      *)
(* twice, and what it is about to lay out is in nobody's plan.             *)
LEMMA RemovedSpread ==
  ASSUME Consistent, WorkTyped, OutcomeTyped, NEW w \in Nodes, RemoveNode(w), UNCHANGED reported
  PROVE  /\ Planned' /\ Queued' /\ Settled'
         /\ Stranded(w) \subseteq pending'
         /\ \A v \in Nodes : Stranded(w) \cap plan'[v] = {}
<1> DEFINE U == Unstarted(w)
           H == IF Begun(w) THEN {Head(queue[w])} ELSE {}
<1>1. Elements(queue[w]) = U \cup H /\ U \cap H = {}
  BY QueueSplit DEF Consistent, Conserved
<1>2. /\ plan' = [plan EXCEPT ![w] = {}] /\ queue' = [queue EXCEPT ![w] = <<>>]
      /\ pending' = pending \cup U /\ crashed' = crashed \cup H /\ registered' = registered \ {w}
  BY DEF RemoveNode
<1> HIDE DEF U, H
<1>3. /\ plan'[w] = {} /\ queue'[w] = <<>>
      /\ \A v \in Nodes : v # w => plan'[v] = plan[v] /\ queue'[v] = queue[v]
  BY <1>2 DEF WorkTyped
<1>4. Planned'
  BY <1>2, <1>3 DEF Consistent, Conserved, Planned
<1>5. Elements(queue'[w]) = {}
  BY <1>3 DEF Elements
<1>6. Queued'
  <2>1. \A v \in Nodes : Distinct(queue'[v])
    BY <1>3 DEF Consistent, Conserved, Queued, Distinct
  <2>2. \A v \in Nodes : Elements(queue'[v]) \cap (pending' \cup reported' \cup crashed') = {}
    BY <1>1, <1>2, <1>3, <1>5 DEF Consistent, Conserved, Queued
  <2>3. \A v, u \in Nodes : v # u => Elements(queue'[v]) \cap Elements(queue'[u]) = {}
    BY <1>3, <1>5 DEF Consistent, Conserved, Queued
  <2>4. QED BY <2>1, <2>2, <2>3 DEF Queued
<1>7. Settled'
  <2>1. pending' \cap reported' = {} /\ pending' \cap crashed' = {} /\ reported' \cap crashed' = {}
    BY <1>1, <1>2 DEF Consistent, Conserved, Queued, Settled
  <2>2. ASSUME NEW t \in Tests, t \notin pending' \cup reported' \cup crashed'
        PROVE  \E v \in Nodes : t \in Elements(queue'[v])
    <3>1. PICK v \in Nodes : t \in Elements(queue[v])
      BY <1>2, <2>2 DEF Consistent, Conserved, Settled
    <3>2. v # w
      BY <1>1, <1>2, <2>2, <3>1
    <3>3. QED BY <1>3, <3>1, <3>2
  <2>3. QED BY <2>1, <2>2 DEF Settled
<1>8. Stranded(w) = U \cup plan[w]
  BY DEF Stranded, U
<1>9. Stranded(w) \subseteq pending'
  BY <1>2, <1>8 DEF Consistent, Conserved, Planned
<1>10. \A v \in Nodes : Stranded(w) \cap plan'[v] = {}
  BY <1>1, <1>3, <1>8 DEF Consistent, Conserved, Planned, Queued
<1>11. QED BY <1>4, <1>6, <1>7, <1>9, <1>10

(* A node that is removed is gone and has an empty channel and, from then  *)
(* on, an empty queue.                                                     *)
LEMMA RemovedAgrees ==
  ASSUME ChannelAgrees, WorkTyped, ChannelsTyped, NEW w \in Nodes, w \in down,
         queue' = [queue EXCEPT ![w] = <<>>],
         events'[w] = <<>>, \A v \in Nodes : v # w => events'[v] = events[v],
         UNCHANGED <<told, down, inbox, status>>, ~AtOp("fill"), ~AtOp("fill")'
  PROVE  ChannelAgrees'
<1>1. \A v \in Nodes : v # w => queue'[v] = queue[v]
  BY DEF WorkTyped
<1>2. ASSUME NEW v \in Nodes, v # w  PROVE Agrees(v)'
  <2>1. Agrees(v)
    BY DEF ChannelAgrees
  <2>2. Out(v)' = Out(v)
    BY NothingOut
  <2>3. Completes(v)' = Completes(v) /\ (CompleteOnce(v) => CompleteOnce(v)')
    BY <1>2 DEF Completes, CompleteOnce, Kind
  <2>4. QED BY <1>1, <1>2, <2>1, <2>2, <2>3 DEF Agrees
<1>3. Agrees(w)'
  <2>1. Agrees(w)
    BY DEF ChannelAgrees
  <2>2. CompleteOnce(w)' /\ Completes(w)' = {}
    BY DEF CompleteOnce, Completes, Kind
  <2>3. Elements(queue'[w]) = {}
    BY DEF WorkTyped, Elements
  <2>4. QED BY <2>1, <2>2, <2>3 DEF Agrees
<1>4. QED BY <1>2, <1>3 DEF ChannelAgrees

(* The planner gives every test it lays out to one lane, of a live node.   *)
LEMMA LaidOutPlanned ==
  ASSUME WorkTyped, Planned, NEW S \in SUBSET Tests, S \subseteq pending,
         \A v \in Nodes : S \cap plan[v] = {}, LayOut(S), LiveNodes # {},
         UNCHANGED <<pending, registered>>, registered \in SUBSET Nodes
  PROVE  Planned'
<1> DEFINE open == S \cup UNION {plan[v] : v \in LiveNodes}
<1>1. PICK lane \in [open -> LiveNodes] :
        plan' = [v \in Nodes |-> IF v \in LiveNodes THEN {t \in open : lane[t] = v} ELSE plan[v]]
  BY DEF LayOut
<1>2. LiveNodes \subseteq Nodes
  BY DEF LiveNodes
<1>3. open \subseteq pending /\ \A v \in Nodes \ LiveNodes : open \cap plan[v] = {}
  <2>1. open \subseteq pending
    BY <1>2 DEF Planned
  <2>2. ASSUME NEW v \in Nodes \ LiveNodes  PROVE open \cap plan[v] = {}
    BY <1>2, <2>2 DEF Planned
  <2>3. QED BY <2>1, <2>2
<1> HIDE DEF open
<1>4. \A v \in Nodes : plan'[v] = IF v \in LiveNodes THEN {t \in open : lane[t] = v} ELSE plan[v]
  BY <1>1
<1>5. \A v \in Nodes : plan'[v] \subseteq pending
  BY <1>3, <1>4 DEF Planned
<1>6. \A v \in Nodes : plan'[v] # {} => v \in registered
  BY <1>4 DEF Planned, LiveNodes
<1>7. \A v, w \in Nodes : v # w => plan'[v] \cap plan'[w] = {}
  BY <1>3, <1>4 DEF Planned
<1>8. QED BY <1>5, <1>6, <1>7 DEF Planned

(* The batch of check_schedule goes out: what was on its way out is in the *)
(* inbox.                                                                  *)
LEMMA SentKept ==
  ASSUME Consistent, WorkTyped, ProcessTyped, StackShape, NEW w \in Nodes, NEW out \in Seq(Tests),
         At(Fill(w, out)), Send(w, out),
         UNCHANGED <<pending, plan, queue, reported, crashed, registered, told, events,
                     down, status>>
  PROVE  Consistent'
<1>1. Quiet'
  BY ReturnQuiet DEF At, Send
<1>2. /\ Out(w) = out /\ w \in registered \ told
      /\ \A v \in Nodes : v # w => Out(v) = <<>>
  BY DEF Out, At, AtOp, Fill, StackShape
<1>3. \A v \in Nodes : Out(v)' = <<>>
  BY <1>1, NothingOut DEF Quiet
<1>4. /\ inbox[w] \in Seq(Tests) /\ inbox'[w] = inbox[w] \o out
      /\ \A v \in Nodes : v # w => inbox'[v] = inbox[v]
  BY DEF Send, ProcessTyped
<1>5. Elements(<<>>) = {} /\ Distinct(<<>>)
  BY DEF Elements, Distinct
<1>6. ASSUME NEW v \in Nodes  PROVE Agrees(v)'
  <2>1. Agrees(v) /\ Completes(v)' = Completes(v) /\ CompleteOnce(v)'
    BY SameMail DEF Consistent, ChannelAgrees, Agrees
  <2>2. CASE v # w
    BY <1>2, <1>3, <1>4, <2>1, <2>2 DEF Agrees
  <2>3. CASE v = w
    <3>1. status[w] # "exited"
      BY <1>2, <2>1, <2>3 DEF Agrees
    <3>2. CASE w \in down
      BY <2>1, <2>3, <3>1, <3>2 DEF Agrees
    <3>3. CASE w \notin down
      <4>1. /\ Distinct(inbox[w]) /\ Distinct(out)
            /\ Elements(inbox[w]) \cap Elements(out) = {}
            /\ Elements(inbox[w]) \cap Completes(w) = {}
            /\ Elements(out) \cap Completes(w) = {}
            /\ Elements(queue[w]) = Elements(inbox[w]) \cup Elements(out) \cup Completes(w)
        BY <1>2, <2>1, <2>3, <3>3 DEF Agrees
      <4>2. Elements(inbox'[w]) = Elements(inbox[w]) \cup Elements(out) /\ Distinct(inbox'[w])
        BY <1>4, <4>1, ConcatElements
      <4>3. QED BY <1>3, <1>5, <2>1, <2>3, <3>1, <4>1, <4>2 DEF Agrees
    <3>4. QED BY <3>2, <3>3
  <2>4. QED BY <2>2, <2>3
<1>7. ChannelAgrees'
  BY <1>6 DEF ChannelAgrees
<1>8. QED BY <1>1, <1>7, SpreadKept DEF Consistent, Conserved, ToReplan, Quiet

(* The report of a change of holds completes nothing.                      *)
LEMMA HoldsPlain ==
  ASSUME NEW F \in SUBSET Fixtures, NEW H \in SUBSET Fixtures
  PROVE  /\ HoldsEvent(F, H) \in Seq(Mail)
         /\ \A i \in DOMAIN HoldsEvent(F, H) : HoldsEvent(F, H)[i][1] # "complete"
<1>1. HoldsEvent(F, H) \in Seq(Mail)
  BY HoldsEventTyped
<1>2. \A i \in DOMAIN HoldsEvent(F, H) : HoldsEvent(F, H)[i][1] # "complete"
  BY DEF HoldsEvent
<1>3. QED BY <1>1, <1>2

(* A report of holds, then the completion: what a worker posts when a test *)
(* ends.                                                                   *)
LEMMA LastCompletes ==
  ASSUME NEW hs \in Seq(Mail), \A i \in DOMAIN hs : hs[i][1] # "complete", NEW t,
         <<"complete", t>> \in Mail
  PROVE  /\ Append(hs, <<"complete", t>>) \in Seq(Mail)
         /\ CompletesLast(Append(hs, <<"complete", t>>), t)
<1> DEFINE ms == Append(hs, <<"complete", t>>)
<1>1. /\ ms \in Seq(Mail) /\ ms # <<>>
      /\ Len(ms) = Len(hs) + 1 /\ ms[Len(hs) + 1] = <<"complete", t>>
      /\ \A i \in 1 .. Len(hs) : ms[i] = hs[i]
  OBVIOUS
<1>2. \A i \in DOMAIN ms : i # Len(ms) => i \in 1 .. Len(hs)
  BY <1>1
<1> HIDE DEF ms
<1>3. CompletesLast(ms, t)
  BY <1>1, <1>2 DEF CompletesLast
<1>4. QED BY <1>1, <1>3 DEF ms

(* The head of a worker's inbox is run or skipped, and its completion      *)
(* takes its place in the channel.                                         *)
LEMMA FinishedAgrees ==
  ASSUME Consistent, ProcessTyped, ChannelsTyped, NEW w \in Nodes, w \notin down, inbox[w] # <<>>,
         inbox' = [inbox EXCEPT ![w] = Tail(@)],
         NEW messages \in Seq(Mail), CompletesLast(messages, Head(inbox[w])), Post(w, messages),
         UNCHANGED <<todo, queue, down, told, status>>
  PROVE  ChannelAgrees'
<1> DEFINE t == Head(inbox[w])
<1>1. /\ inbox[w] \in Seq(Tests) /\ inbox'[w] = Tail(inbox[w])
      /\ \A v \in Nodes : v # w => inbox'[v] = inbox[v]
  BY DEF ProcessTyped
<1>2. \A v \in Nodes : Out(v)' = Out(v)
  BY DEF Out, AtOp
<1> HIDE DEF t
<1>3. Agrees(w)'
  <2>1. Agrees(w) /\ status[w] # "exited"
    BY DEF Consistent, ChannelAgrees, Agrees
  <2>2. /\ t \in Elements(inbox[w]) /\ Elements(inbox[w]) = Elements(inbox'[w]) \cup {t}
        /\ Distinct(inbox'[w]) /\ t \notin Elements(inbox'[w])
    BY <1>1, <2>1, TailElements DEF t, Agrees
  <2>3. t \notin Completes(w)
    BY <2>1, <2>2 DEF Agrees
  <2>4. Completes(w)' = Completes(w) \cup {t} /\ CompleteOnce(w)'
    BY <2>1, <2>3, CompletesPosted DEF Agrees, t
  <2>5. QED BY <1>2, <2>1, <2>2, <2>3, <2>4 DEF Agrees
<1>4. ASSUME NEW v \in Nodes, v # w  PROVE Agrees(v)'
  <2>1. Agrees(v) /\ Completes(v)' = Completes(v) /\ CompleteOnce(v)'
    BY <1>4, CompletesPosted DEF Consistent, ChannelAgrees, Agrees
  <2>2. QED BY <1>1, <1>2, <1>4, <2>1 DEF Agrees
<1>5. QED BY <1>3, <1>4 DEF ChannelAgrees

(* Every step keeps the records consistent: one case for each action of    *)
(* Next. The cases with work in them are fill (pending to queue), complete *)
(* (queue to reported), remove_node (queue to pending or crashed) and the  *)
(* ends of tests and of workers (inbox to channel).                        *)
LEMMA ConsistentStep ==
  ASSUME Typed, Shape, Consistent, [Next]_vars
  PROVE  Consistent'
<1>1. ASSUME NEW w \in Nodes, CheckSchedule(w)  PROVE Consistent'
  <2> USE <1>1 DEF Typed, Shape, CheckSchedule, still, work, gate, line, nodes, process, outcome
  <2>1. ~AtOp("fill") /\ todo # <<>>
    BY DEF At, AtOp, Check
  <2>2. CASE Return
    BY <2>1, <2>2, ReturnQuiet, QuietKept
  <2>3. CASE ~ShuttingDown(w) /\ ~Low(w)
    <3>1. <<Rest(w)>> \in Seq(PlainCalls) /\ Call(<<Rest(w)>>)
      BY <2>3, PlainCallLists DEF Call
    <3>2. QED BY <2>1, <3>1, CallQuiet, QuietKept
  <2>4. CASE ~ShuttingDown(w) /\ Low(w)
    <3>1. <<>> \in Seq(Tests)
      OBVIOUS
    <3>2. Fill(w, <<>>) \in Calls /\ Rest(w) \in Calls
      BY <3>1, CallsOfNodes
    <3>3. <<Fill(w, <<>>), Rest(w)>> \in Seq(Calls) /\ <<Fill(w, <<>>), Rest(w)>> # <<>>
          /\ Head(<<Fill(w, <<>>), Rest(w)>>) = Fill(w, <<>>)
      BY <3>2
    <3>4. Call(<<Fill(w, <<>>), Rest(w)>>)
      BY <2>4 DEF Call
    <3>5. Head(todo') = Fill(w, <<>>)
      BY <2>1, <3>3, <3>4, CallHead
    <3>6. ~AtOp("replan")' /\ \A v \in Nodes : Out(v)' = <<>> /\ Out(v) = <<>>
      BY <2>1, <3>5 DEF Out, AtOp, Fill
    <3>7. ChannelAgrees'
      BY <3>6, SameMail, AgreesKept DEF Consistent
    <3>8. QED BY <3>6, <3>7, SpreadKept DEF Consistent, Conserved, ToReplan
  <2>5. QED BY <2>2, <2>3, <2>4
<1>2. ASSUME NEW w \in Nodes, NEW out \in Seq(Tests), NEW t \in Tests,
         FillDispatch(w, out, t)
  PROVE Consistent'
  <2> USE <1>2 DEF Typed, Shape, FillDispatch, still, work, gate, line, nodes, process, outcome
  <2>1. Head(todo) = Fill(w, out) /\ todo # <<>> /\ w \in registered \ told
    BY DEF Filling, At, AtOp, Fill, StackShape
  <2>2. Head(todo') = Fill(w, Append(out, t)) /\ todo' # <<>>
    <3>1. Append(out, t) \in Seq(Tests)
      OBVIOUS
    <3>2. Fill(w, Append(out, t)) \in Calls
      BY <3>1, CallsOfNodes
    <3>3. <<Fill(w, Append(out, t))>> \in Seq(Calls) /\ <<Fill(w, Append(out, t))>> # <<>>
          /\ Head(<<Fill(w, Append(out, t))>>) = Fill(w, Append(out, t))
      BY <3>2
    <3>4. QED BY <2>1, <3>3, CallHead
  <2>3. /\ ~AtOp("replan")' /\ Out(w) = out /\ Out(w)' = Append(out, t)
        /\ \A v \in Nodes : v # w => Out(v) = <<>> /\ Out(v)' = <<>>
    BY <2>1, <2>2 DEF Out, AtOp, Fill
  <2>4. /\ queue[w] \in Seq(Tests) /\ t \in plan[w] /\ t \in pending
        /\ pending' = pending \ {t} /\ queue'[w] = Append(queue[w], t) /\ plan'[w] = plan[w] \ {t}
        /\ \A v \in Nodes : v # w => queue'[v] = queue[v] /\ plan'[v] = plan[v]
    BY DEF WorkTyped, Consistent, Conserved, Planned
  <2>5. \A v \in Nodes : t \notin Elements(queue[v])
    BY <2>4 DEF Consistent, Conserved, Queued
  <2>6. Elements(queue'[w]) = Elements(queue[w]) \cup {t} /\ Distinct(queue'[w])
    BY <2>4, <2>5, AppendElements DEF Consistent, Conserved, Queued
  <2>7. Planned'
    BY <2>4 DEF Consistent, Conserved, Planned
  <2>8. Queued'
    <3>1. \A v \in Nodes : Distinct(queue'[v])
      BY <2>4, <2>6 DEF Consistent, Conserved, Queued
    <3>2. \A v \in Nodes : Elements(queue'[v]) \cap (pending' \cup reported' \cup crashed') = {}
      BY <2>4, <2>6 DEF Consistent, Conserved, Queued, Settled
    <3>3. ASSUME NEW v \in Nodes, NEW u \in Nodes, v # u
          PROVE  Elements(queue'[v]) \cap Elements(queue'[u]) = {}
      <4>1. Elements(queue[v]) \cap Elements(queue[u]) = {}
        BY <3>3 DEF Consistent, Conserved, Queued
      <4>2. QED BY <2>4, <2>5, <2>6, <3>3, <4>1
    <3>4. QED BY <3>1, <3>2, <3>3 DEF Queued
  <2>9. Settled'
    <3>1. ASSUME NEW x \in Tests, x \notin pending' \cup reported' \cup crashed'
          PROVE  \E v \in Nodes : x \in Elements(queue'[v])
      <4>1. CASE x = t
        BY <2>6, <4>1
      <4>2. CASE x # t
        <5>1. PICK v \in Nodes : x \in Elements(queue[v])
          BY <2>4, <3>1, <4>2 DEF Consistent, Conserved, Settled
        <5>2. QED BY <2>4, <2>6, <5>1
      <4>3. QED BY <4>1, <4>2
    <3>2. QED BY <2>4, <3>1 DEF Consistent, Conserved, Settled
  <2>10. ChannelAgrees'
    <3>1. ASSUME NEW v \in Nodes  PROVE Agrees(v)'
      <4>1. Agrees(v) /\ Completes(v)' = Completes(v) /\ CompleteOnce(v)'
        BY SameMail DEF Consistent, ChannelAgrees, Agrees
      <4>2. CASE v # w
        BY <2>3, <2>4, <4>1, <4>2 DEF Agrees
      <4>3. CASE v = w
        <5>1. status[w] # "exited"
          BY <2>1, <4>1, <4>3 DEF Agrees
        <5>2. Completes(w)' \subseteq Elements(queue'[w])
          BY <2>6, <4>1, <4>3 DEF Agrees
        <5>3. CASE w \in down
          BY <4>1, <4>3, <5>1, <5>2, <5>3 DEF Agrees
        <5>4. CASE w \notin down
          <6>1. /\ Distinct(inbox[w]) /\ Distinct(out)
                /\ Elements(inbox[w]) \cap Elements(out) = {}
                /\ Elements(inbox[w]) \cap Completes(w) = {}
                /\ Elements(out) \cap Completes(w) = {}
                /\ Elements(queue[w]) = Elements(inbox[w]) \cup Elements(out) \cup Completes(w)
            BY <2>3, <4>1, <4>3, <5>4 DEF Agrees
          <6>2. Elements(Append(out, t)) = Elements(out) \cup {t} /\ Distinct(Append(out, t))
            BY <2>5, <6>1, AppendElements
          <6>3. t \notin Elements(queue[w])
            BY <2>5
          <6>4. /\ Elements(inbox[w]) \cap Elements(Append(out, t)) = {}
                /\ Elements(Append(out, t)) \cap Completes(w) = {}
                /\ Elements(queue'[w]) =
                     Elements(inbox[w]) \cup Elements(Append(out, t)) \cup Completes(w)
            BY ONLY <2>6, <6>1, <6>2, <6>3
          <6>5. QED BY <2>3, <4>1, <4>3, <5>1, <5>2, <6>1, <6>2, <6>4 DEF Agrees
        <5>5. QED BY <5>3, <5>4
      <4>4. QED BY <4>2, <4>3
    <3>2. QED BY <3>1 DEF ChannelAgrees
  <2>11. QED BY <2>3, <2>7, <2>8, <2>9, <2>10 DEF Consistent, Conserved, ToReplan
<1>3. ASSUME NEW w \in Nodes, NEW out \in Seq(Tests), NEW donor \in Nodes,
         NEW chunk \in SUBSET pending,
         FillBorrow(w, out, donor, chunk)
  PROVE Consistent'
  <2> USE <1>3 DEF Typed, Shape, FillBorrow, still, work, gate, line, nodes, process, outcome
  <2>1. w \in registered /\ ~AtOp("replan")'
    BY DEF Filling, At, AtOp, Fill, StackShape
  <2>2. /\ plan'[w] = chunk /\ plan'[donor] = plan[donor] \ chunk /\ donor # w
        /\ \A v \in Nodes : v # w /\ v # donor => plan'[v] = plan[v]
    BY DEF WorkTyped, Transferred
  <2>3. Planned'
    <3>1. \A v \in Nodes : plan'[v] \subseteq pending
      BY <2>2 DEF Consistent, Conserved, Planned
    <3>2. \A v \in Nodes : plan'[v] # {} => v \in registered
      BY <2>1, <2>2 DEF Consistent, Conserved, Planned
    <3>3. \A v, u \in Nodes : v # u => plan'[v] \cap plan'[u] = {}
      BY <2>2 DEF Consistent, Conserved, Planned
    <3>4. QED BY <3>1, <3>2, <3>3 DEF Planned
  <2>4. Queued' /\ Settled'
    BY DEF Consistent, Conserved, Queued, Settled
  <2>5. \A v \in Nodes : Out(v)' = Out(v)
    BY DEF Out, AtOp
  <2>6. ChannelAgrees'
    BY <2>5, SameMail, AgreesKept DEF Consistent
  <2>7. QED BY <2>1, <2>3, <2>4, <2>6 DEF Consistent, Conserved, ToReplan
<1>4. ASSUME NEW w \in Nodes, NEW out \in Seq(Tests), FillDone(w, out)  PROVE Consistent'
  <2> USE <1>4 DEF Typed, Shape, FillDone, still, work, gate, line, nodes, process, outcome
  <2>1. At(Fill(w, out))
    BY DEF Filling
  <2>2. QED BY <2>1, SentKept
<1>5. ASSUME NEW w \in Nodes, NEW out \in Seq(Tests), FillBlocked(w, out)  PROVE Consistent'
  <2> USE <1>5 DEF Typed, Shape, FillBlocked, still, work, gate, line, nodes, process, outcome
  <2>1. At(Fill(w, out))
    BY DEF Filling
  <2>2. QED BY <2>1, SentKept
<1>6. ASSUME NEW w \in Nodes, NEW out \in Seq(Tests), FillRefused(w, out)  PROVE Consistent'
  <2> USE <1>6 DEF Typed, Shape, FillRefused, still, work, gate, line, nodes, process, outcome
  <2>1. At(Fill(w, out))
    BY DEF Filling
  <2>2. QED BY <2>1, SentKept
<1>7. ASSUME NEW w \in Nodes, CheckRest(w)  PROVE Consistent'
  <2> USE <1>7 DEF Typed, Shape, CheckRest, still, work, gate, line, nodes, process, outcome
  <2>1. ~AtOp("fill") /\ todo # <<>>
    BY DEF At, AtOp, Rest
  <2>2. <<Shutdown(w)>> \in Seq(PlainCalls)
    BY PlainCallLists
  <2>3. Quiet'
    BY <2>1, <2>2, ReturnQuiet, CallQuiet
  <2>4. QED BY <2>1, <2>3, QuietKept
<1>8. ASSUME NEW w \in Nodes, ShutdownRefused(w)  PROVE Consistent'
  <2> USE <1>8 DEF Typed, Shape, ShutdownRefused, still, work, gate, line, nodes, process,
      outcome
  <2>1. Quiet'
    BY ReturnQuiet DEF At, Shutdown
  <2>2. ~AtOp("fill")
    BY DEF At, AtOp, Shutdown
  <2>3. QED BY <2>1, <2>2, QuietKept
<1>9. ASSUME NEW w \in Nodes, ShutdownSent(w)  PROVE Consistent'
  <2> USE <1>9 DEF Typed, Shape, ShutdownSent, still, work, gate, line, nodes, process, outcome
  <2>1. ~AtOp("fill") /\ todo # <<>>
    BY DEF At, AtOp, Shutdown
  <2>2. CASE plan[w] # {} /\ LastStanding(w)
    <3>1. Quiet' /\ UNCHANGED <<plan, told>>
      BY <2>1, <2>2, ReturnQuiet
    <3>2. QED BY <2>1, <3>1, QuietKept
  <2>3. CASE ~(plan[w] # {} /\ LastStanding(w))
    <3> DEFINE r == Replan(plan[w])
    <3>1. Call(<<r>>) /\ plan' = [plan EXCEPT ![w] = {}] /\ told' = told \cup {w}
      BY <2>3
    <3>2. r \in Calls /\ r.op = "replan" /\ r.tests = plan[w]
      BY OtherCalls DEF Replan, WorkTyped
    <3> HIDE DEF r
    <3>3. Head(todo') = r /\ todo' # <<>>
      <4>1. <<r>> \in Seq(Calls) /\ <<r>> # <<>> /\ Head(<<r>>) = r
        BY <3>2
      <4>2. QED BY <2>1, <3>1, <4>1, CallHead
    <3>4. plan'[w] = {} /\ \A v \in Nodes : v # w => plan'[v] = plan[v]
      BY <3>1 DEF WorkTyped
    <3>5. Planned' /\ Queued' /\ Settled'
      BY <3>4 DEF Consistent, Conserved, Planned, Queued, Settled
    <3>6. ToReplan'
      BY <3>2, <3>3, <3>4 DEF Consistent, Conserved, Planned, ToReplan
    <3>7. ~AtOp("fill")'
      BY <3>2, <3>3 DEF AtOp
    <3>8. ChannelAgrees'
      BY <2>1, <3>1, <3>7, SameMail, NothingOut, AgreesKept DEF Consistent
    <3>9. QED BY <3>5, <3>6, <3>8 DEF Consistent, Conserved
  <2>4. QED BY <2>2, <2>3
<1>10. ASSUME NEW w \in Nodes, ShutdownAgain(w)  PROVE Consistent'
  <2> USE <1>10 DEF Typed, Shape, ShutdownAgain, still, work, gate, line, nodes, process,
      outcome
  <2>1. Quiet'
    BY ReturnQuiet DEF At, Shutdown
  <2>2. ~AtOp("fill")
    BY DEF At, AtOp, Shutdown
  <2>3. QED BY <2>1, <2>2, QuietKept
<1>11. ASSUME NEW S \in SUBSET Tests, ReplanTests(S)  PROVE Consistent'
  <2> USE <1>11 DEF Typed, Shape, ReplanTests, still, work, gate, line, nodes, process, outcome
  <2>1. ~AtOp("fill") /\ todo # <<>> /\ AtOp("replan") /\ Head(todo).tests = S
    BY DEF At, AtOp, Replan
  <2>2. Quiet'
    <3>1. CASE S = {}
      BY <2>1, <3>1, ReturnQuiet
    <3>2. CASE S # {}
      <4>1. PICK order \in Orders(registered) : Call(Each(Check, order))
        BY <3>2
      <4>2. order \in Seq(Nodes)
        BY <4>1, RegisteredInOrder DEF NodesTyped
      <4>3. QED BY <2>1, <4>1, <4>2, PlainInOrder, CallQuiet
    <3>3. QED BY <3>1, <3>2
  <2>3. S \subseteq pending /\ \A v \in Nodes : S \cap plan[v] = {}
    BY <2>1 DEF Consistent, Conserved, ToReplan
  <2>4. Planned'
    <3>1. CASE UNCHANGED plan
      BY <3>1 DEF Consistent, Conserved, Planned
    <3>2. CASE LayOut(S) /\ LiveNodes # {}
      BY <2>3, <3>2, LaidOutPlanned DEF Consistent, Conserved, NodesTyped
    <3>3. QED BY <3>1, <3>2 DEF LayOut
  <2>5. Queued' /\ Settled'
    BY DEF Consistent, Conserved, Queued, Settled
  <2>6. ChannelAgrees'
    BY <2>1, <2>2, SameMail, NothingOut, AgreesKept DEF Consistent, Quiet
  <2>7. QED BY <2>2, <2>4, <2>5, <2>6 DEF Consistent, Conserved, ToReplan, Quiet
<1>12. ASSUME AdmitWaiting  PROVE Consistent'
  <2> USE <1>12 DEF Typed, Shape, AdmitWaiting, still, work, gate, line, nodes, process, outcome
  <2>1. ~AtOp("fill") /\ todo # <<>>
    BY DEF At, AtOp, Admit
  <2>2. Each(Visit, waiting) \in Seq(PlainCalls) /\ Stalls \in PlainCalls
    BY PlainInOrder, PlainCallLists DEF NodesTyped
  <2>3. Append(Each(Visit, waiting), Stalls) \in Seq(PlainCalls)
    BY <2>2
  <2>4. QED BY <2>1, <2>3, CallQuiet, QuietKept
<1>13. ASSUME ResolveNothing  PROVE Consistent'
  <2> USE <1>13 DEF Typed, Shape, ResolveNothing, still, work, gate, line, nodes, process,
      outcome
  <2>1. Quiet'
    BY ReturnQuiet DEF At, Stalls
  <2>2. ~AtOp("fill")
    BY DEF At, AtOp, Stalls
  <2>3. QED BY <2>1, <2>2, QuietKept
<1>14. ASSUME ResolveParked  PROVE Consistent'
  <2> USE <1>14 DEF Typed, Shape, ResolveParked, still, work, gate, line, nodes, process,
      outcome
  <2>1. ~AtOp("fill") /\ todo # <<>>
    BY DEF Standstill, At, AtOp, Stalls
  <2>2. PICK i \in Candidates : Call(<<Shutdown(waiting[i])>>)
    OBVIOUS
  <2>3. waiting[i] \in Nodes
    BY DEF Candidates, NodesTyped
  <2>4. <<Shutdown(waiting[i])>> \in Seq(PlainCalls)
    BY <2>3, PlainCallLists
  <2>5. QED BY <2>1, <2>2, <2>4, CallQuiet, QuietKept
<1>15. ASSUME NEW w \in Nodes, ResolveForce(w)  PROVE Consistent'
  <2> USE <1>15 DEF Typed, Shape, ResolveForce, still, work, gate, line, nodes, process, outcome
  <2>1. ~AtOp("fill") /\ todo # <<>>
    BY DEF Forceable, Standstill, At, AtOp, Stalls
  <2>2. <<Check(w)>> \in Seq(PlainCalls)
    BY PlainCallLists
  <2>3. QED BY <2>1, <2>2, CallQuiet, QuietKept
<1>16. ASSUME NEW w \in Nodes, NEW release \in BOOLEAN,
         RetryGranted(w, release)
  PROVE Consistent'
  <2> USE <1>16 DEF Typed, Shape, RetryGranted, still, work, gate, line, nodes, process, outcome
  <2>1. Quiet'
    BY ReturnQuiet DEF At, Retry
  <2>2. ~AtOp("fill")
    BY DEF At, AtOp, Retry
  <2>3. QED BY <2>1, <2>2, QuietKept DEF CompleteRequest
<1>17. ASSUME NEW w \in Nodes, NEW release \in BOOLEAN,
         RetryRefused(w, release)
  PROVE Consistent'
  <2> USE <1>17 DEF Typed, Shape, RetryRefused, still, work, gate, line, nodes, process, outcome
  <2>1. ~AtOp("fill") /\ todo # <<>>
    BY DEF At, AtOp, Retry
  <2>2. <<Admit>> \in Seq(PlainCalls)
    BY PlainCallLists
  <2>3. Quiet'
    BY <2>1, <2>2, ReturnQuiet, CallQuiet
  <2>4. QED BY <2>1, <2>3, QuietKept
<1>18. ASSUME NEW w \in Nodes, ResolveForceRequest(w)  PROVE Consistent'
  <2> USE <1>18 DEF Typed, Shape, ResolveForceRequest, still, work, gate, line, nodes, process,
      outcome
  <2>1. Quiet'
    BY ReturnQuiet DEF At, Forceable, Standstill, Stalls
  <2>2. ~AtOp("fill")
    BY DEF At, AtOp, Forceable, Standstill, Stalls
  <2>3. QED BY <2>1, <2>2, QuietKept DEF CompleteRequest
<1>19. ASSUME NEW w \in Nodes, Completed(w)  PROVE Consistent'
  <2> USE <1>19 DEF Typed, Shape, Completed, still, work, gate, line, nodes, process, outcome
  <2> DEFINE t == Head(events[w])[2]
  <2>1. Quiet'
    <3> DEFINE s == <<Check(w), Admit, Loop>>
    <3>1. Check(w) \in PlainCalls /\ Admit \in PlainCalls /\ Loop \in PlainCalls
      BY PlainCallLists
    <3>2. s \in Seq(PlainCalls)
      BY <3>1, ShortLists
    <3>3. PICK step \in {-1, 0, 1} : todo' = (IF step = 1 THEN <<Admit>> ELSE <<>>) \o s
      OBVIOUS
    <3> HIDE DEF s
    <3>4. <<Admit>> \o s \in Seq(PlainCalls) /\ <<>> \o s = s
      BY <3>1, <3>2, Joined
    <3>5. QED BY <3>2, <3>3, <3>4, BegunQuiet
  <2>2. t \in Tests /\ ~AtOp("fill")
    BY HeadMail DEF Takes, AtOp
  <2>3. queue' = [queue EXCEPT ![w] = G!Without(queue[w], t)] /\ reported' = reported \cup {t}
    OBVIOUS
  <2> HIDE DEF t
  <2>4. /\ t \in Completes(w) /\ CompleteOnce(w)' /\ Completes(w)' = Completes(w) \ {t}
        /\ \A v \in Nodes : v # w =>
             Completes(v)' = Completes(v) /\ (CompleteOnce(v) => CompleteOnce(v)')
    BY CompletesTaken DEF t, Consistent, ChannelAgrees, Agrees
  <2>5. t \in Elements(queue[w])
    BY <2>4 DEF Consistent, ChannelAgrees, Agrees
  <2>6. /\ Elements(queue'[w]) = Elements(queue[w]) \ {t} /\ Distinct(queue'[w])
        /\ \A v \in Nodes : v # w => queue'[v] = queue[v]
    BY <2>3, WithoutDistinct DEF WorkTyped, Consistent, Conserved, Queued
  <2>7. Planned'
    BY DEF Consistent, Conserved, Planned
  <2>8. Queued'
    <3>1. \A v \in Nodes : Distinct(queue'[v])
      BY <2>6 DEF Consistent, Conserved, Queued
    <3>2. ASSUME NEW v \in Nodes
          PROVE  Elements(queue'[v]) \cap (pending' \cup reported' \cup crashed') = {}
      <4>1. Elements(queue[v]) \cap (pending \cup reported \cup crashed) = {}
            /\ (v # w => t \notin Elements(queue[v]))
        BY <2>5 DEF Consistent, Conserved, Queued
      <4>2. QED BY <2>3, <2>6, <4>1
    <3>3. \A v, u \in Nodes : v # u => Elements(queue'[v]) \cap Elements(queue'[u]) = {}
      BY <2>6 DEF Consistent, Conserved, Queued
    <3>4. QED BY <3>1, <3>2, <3>3 DEF Queued
  <2>9. Settled'
    <3>1. t \notin pending /\ t \notin crashed
      BY <2>5 DEF Consistent, Conserved, Queued
    <3>2. ASSUME NEW x \in Tests, x \notin pending' \cup reported' \cup crashed'
          PROVE  \E v \in Nodes : x \in Elements(queue'[v])
      <4>1. PICK v \in Nodes : x \in Elements(queue[v])
        BY <2>3, <3>2 DEF Consistent, Conserved, Settled
      <4>2. QED BY <2>3, <2>6, <3>2, <4>1
    <3>3. QED BY <2>3, <3>1, <3>2 DEF Consistent, Conserved, Settled
  <2>10. ChannelAgrees'
    <3>1. ASSUME NEW v \in Nodes  PROVE Agrees(v)'
      <4>1. Agrees(v) /\ Out(v) = <<>> /\ Out(v)' = <<>>
        BY <2>1, <2>2, NothingOut DEF Consistent, ChannelAgrees, Quiet
      <4>2. Elements(<<>>) = {}
        BY DEF Elements
      <4>3. CASE v # w
        BY <2>4, <2>6, <4>1, <4>3 DEF Agrees
      <4>4. CASE v = w
        BY <2>4, <2>6, <4>1, <4>2, <4>4 DEF Agrees
      <4>5. QED BY <4>3, <4>4
    <3>2. QED BY <3>1 DEF ChannelAgrees
  <2>11. QED BY <2>1, <2>7, <2>8, <2>9, <2>10 DEF Consistent, Conserved, ToReplan, Quiet
<1>20. ASSUME NEW w \in Nodes, HoldsChanged(w)  PROVE Consistent'
  <2> USE <1>20 DEF Typed, Shape, HoldsChanged, still, work, gate, line, nodes, process, outcome
  <2>1. Quiet'
    BY DEF Takes, Quiet, AtOp
  <2>2. QED BY <2>1, TakenKept DEF Quiet, ToReplan
<1>21. ASSUME NEW w \in Nodes, Requested(w)  PROVE Consistent'
  <2> USE <1>21 DEF Typed, Shape, Requested, still, work, gate, line, nodes, process, outcome
  <2>1. Quiet'
    <3>1. Loop \in PlainCalls /\ Retry(w, TRUE) \in PlainCalls
      BY PlainCallLists
    <3>2. <<Loop>> \in Seq(PlainCalls) /\ <<Retry(w, TRUE), Loop>> \in Seq(PlainCalls)
      BY <3>1, ShortLists
    <3>3. QED BY <3>2, BegunQuiet
  <2>2. QED BY <2>1, TakenKept DEF Quiet, ToReplan
<1>22. ASSUME NEW w \in Nodes, Crashed(w)  PROVE Consistent'
  <2> USE <1>22 DEF Typed, Shape, Crashed, RemoveNode, ReleaseRuntime, still, work, gate, line,
      nodes, process, outcome
  <2>1. w \in down /\ events'[w] = <<>> /\ \A v \in Nodes : v # w => events'[v] = events[v]
    BY LastMail, NextMail DEF ProcessTyped
  <2>2. ~AtOp("fill")
    BY DEF Takes, AtOp
  <2>3. /\ Planned' /\ Queued' /\ Settled' /\ Stranded(w) \subseteq pending'
        /\ \A v \in Nodes : Stranded(w) \cap plan'[v] = {}
    BY RemovedSpread
  <2>4. ~AtOp("fill")' /\ ToReplan'
    <3> DEFINE r == Replan(Stranded(w))
    <3>1. r.op = "replan" /\ r.tests = Stranded(w)
      BY DEF Replan
    <3>2. Stranded(w) \in SUBSET Tests
      BY UnstartedTyped DEF Stranded, WorkTyped
    <3>3. r \in Calls /\ Admit \in Calls /\ Restart \in Calls /\ Loop \in Calls
      BY <3>2, OtherCalls
    <3> HIDE DEF r
    <3>4. ASSUME todo' # <<>>, Head(todo') = r \/ Head(todo') = Admit
          PROVE  ~AtOp("fill")' /\ ToReplan'
      BY <2>3, <3>1, <3>4 DEF AtOp, ToReplan, Admit
    <3>5. <<Restart, Loop>> \in Seq(Calls)
      BY <3>3
    <3>6. CASE todo' = <<Admit>> \o <<Restart, Loop>>
      BY <3>3, <3>4, <3>5, <3>6, Joined
    <3>7. CASE todo' = <<r, Admit>> \o <<Restart, Loop>>
      BY <3>3, <3>4, <3>5, <3>7, Joined
    <3>8. QED BY <3>6, <3>7 DEF RemoveCalls, r
  <2>5. ChannelAgrees'
    BY <2>1, <2>2, <2>4, RemovedAgrees DEF Consistent, RemoveNode
  <2>6. QED BY <2>3, <2>4, <2>5 DEF Consistent, Conserved
<1>23. ASSUME NEW w \in Nodes, Finished(w)  PROVE Consistent'
  <2> USE <1>23 DEF Typed, Shape, Finished, still, work, gate, line, nodes, process, outcome
  <2>1. Quiet'
    <3>1. Admit \in PlainCalls /\ Remove(w) \in PlainCalls /\ Loop \in PlainCalls
      BY PlainCallLists
    <3>2. <<Loop>> \in Seq(PlainCalls) /\ <<Admit, Remove(w), Loop>> \in Seq(PlainCalls)
      BY <3>1
    <3>3. QED BY <3>2, BegunQuiet
  <2>2. QED BY <2>1, TakenKept DEF Quiet, ToReplan
<1>24. ASSUME NEW w \in Nodes, FinishedRemove(w)  PROVE Consistent'
  <2> USE <1>24 DEF Typed, Shape, FinishedRemove, RemoveNode, ReleaseRuntime, still, work, gate,
      line, nodes, process, outcome
  <2>1. w \in down /\ events'[w] = <<>> /\ \A v \in Nodes : v # w => events'[v] = events[v]
    BY HeadKnown DEF At, Remove
  <2>2. ~AtOp("fill")
    BY DEF At, AtOp, Remove
  <2>3. /\ Planned' /\ Queued' /\ Settled' /\ Stranded(w) \subseteq pending'
        /\ \A v \in Nodes : Stranded(w) \cap plan'[v] = {}
    BY RemovedSpread
  <2>4. ~AtOp("fill")' /\ ToReplan'
    <3> DEFINE r == Replan(Stranded(w))
    <3>1. r.op = "replan" /\ r.tests = Stranded(w)
      BY DEF Replan
    <3>2. Stranded(w) \in SUBSET Tests
      BY UnstartedTyped DEF Stranded, WorkTyped
    <3>3. r \in Calls /\ Admit \in Calls /\ Restart \in Calls /\ Loop \in Calls
      BY <3>2, OtherCalls
    <3> HIDE DEF r
    <3>4. ASSUME todo' # <<>>, Head(todo') = r \/ Head(todo') = Admit
          PROVE  ~AtOp("fill")' /\ ToReplan'
      BY <2>3, <3>1, <3>4 DEF AtOp, ToReplan, Admit
    <3>5. <<Admit>> \in Seq(Calls) /\ <<r, Admit>> \in Seq(Calls) /\ <<Admit>> # <<>>
          /\ <<r, Admit>> # <<>> /\ Head(<<Admit>>) = Admit /\ Head(<<r, Admit>>) = r /\ todo # <<>>
      BY <3>3 DEF At
    <3>6. CASE Call(<<Admit>>)
      BY <3>4, <3>5, <3>6, CallHead
    <3>7. CASE Call(<<r, Admit>>)
      BY <3>4, <3>5, <3>7, CallHead
    <3>8. QED BY <3>6, <3>7 DEF RemoveCalls, r
  <2>5. ChannelAgrees'
    BY <2>1, <2>2, <2>4, RemovedAgrees DEF Consistent, RemoveNode
  <2>6. QED BY <2>3, <2>4, <2>5 DEF Consistent, Conserved
<1>25. ASSUME NEW w \in Nodes, Ready(w)  PROVE Consistent'
  <2> USE <1>25 DEF Typed, Shape, Ready, still, work, gate, line, nodes, process, outcome
  <2>1. Quiet'
    <3>1. <<Loop>> \in Seq(PlainCalls)
      BY PlainCallLists
    <3>2. QED BY <3>1, BegunQuiet
  <2>2. QED BY <2>1, TakenKept DEF Quiet, ToReplan
<1>26. ASSUME NEW w \in Nodes, Collected(w)  PROVE Consistent'
  <2> USE <1>26 DEF Typed, Shape, Collected, still, work, gate, line, nodes, process, outcome
  <2>1. CASE todo' = <<Loop>>
    <3>1. <<Loop>> \in Seq(PlainCalls)
      BY PlainCallLists
    <3>2. QED BY <2>1, <3>1, BegunQuiet, TakenKept DEF Quiet, ToReplan
  <2>2. CASE todo' = <<Replan(Orphans), Loop>>
    <3> DEFINE r == Replan(Orphans)
    <3>1. r.op = "replan" /\ r.tests = Orphans
      BY DEF Replan
    <3> HIDE DEF r
    <3>2. todo' # <<>> /\ Head(todo') = r
      BY <2>2 DEF r
    <3>3. Orphans \subseteq pending /\ \A v \in Nodes : Orphans \cap plan[v] = {}
      BY DEF Orphans, Consistent, Conserved, Planned
    <3>4. ToReplan' /\ ~AtOp("fill")'
      BY <3>1, <3>2, <3>3 DEF ToReplan, AtOp
    <3>5. QED BY <3>4, TakenKept
  <2>3. CASE \E order \in Orders(registered) : todo' = Append(Each(Check, order), Loop)
    <3>1. PICK order \in Orders(registered) : todo' = Append(Each(Check, order), Loop)
      BY <2>3
    <3>2. order \in Seq(Nodes)
      BY <3>1, RegisteredInOrder DEF NodesTyped
    <3>3. Each(Check, order) \in Seq(PlainCalls) /\ Loop \in PlainCalls
      BY <3>2, PlainInOrder, PlainCallLists
    <3>4. todo' \in Seq(PlainCalls)
      BY <3>1, <3>3
    <3>5. QED BY <3>4, BegunQuiet, TakenKept DEF Quiet, ToReplan
  <2>4. QED BY <2>1, <2>2, <2>3
<1>27. ASSUME RestartNode  PROVE Consistent'
  <2> USE <1>27 DEF Typed, Shape, RestartNode, still, work, gate, line, nodes, process, outcome
  <2>1. ~AtOp("fill") /\ todo # <<>>
    BY DEF At, AtOp, Restart
  <2>2. Quiet'
    <3>1. CASE Return
      BY <2>1, <3>1, ReturnQuiet
    <3>2. CASE \E order \in Orders(registered) : Call(Each(Stop, order))
      <4>1. PICK order \in Orders(registered) : Call(Each(Stop, order))
        BY <3>2
      <4>2. order \in Seq(Nodes)
        BY <4>1, RegisteredInOrder DEF NodesTyped
      <4>3. QED BY <2>1, <4>1, <4>2, PlainInOrder, CallQuiet
    <3>3. QED BY <3>1, <3>2 DEF TriggerShutdown
  <2>3. \A v \in Nodes : status'[v] = "exited" => status[v] = "exited"
    BY DEF ProcessTyped, Nodes
  <2>4. QED BY <2>1, <2>2, <2>3, QuietKept
<1>28. ASSUME LoopOnce  PROVE Consistent'
  <2> USE <1>28 DEF Typed, Shape, LoopOnce, still, work, gate, line, nodes, process, outcome
  <2>1. ~AtOp("fill") /\ todo # <<>>
    BY DEF At, AtOp, Loop
  <2>2. Quiet'
    <3>1. CASE Return
      BY <2>1, <3>1, ReturnQuiet
    <3>2. CASE \E order \in Orders(registered) : Call(Each(Stop, order))
      <4>1. PICK order \in Orders(registered) : Call(Each(Stop, order))
        BY <3>2
      <4>2. order \in Seq(Nodes)
        BY <4>1, RegisteredInOrder DEF NodesTyped
      <4>3. QED BY <2>1, <4>1, <4>2, PlainInOrder, CallQuiet
    <3>3. QED BY <3>1, <3>2 DEF TriggerShutdown
  <2>3. QED BY <2>1, <2>2, QuietKept
<1>29. ASSUME NEW w \in Nodes, StopGranted(w)  PROVE Consistent'
  <2> USE <1>29 DEF Typed, Shape, StopGranted, still, work, gate, line, nodes, process, outcome
  <2>1. Quiet'
    BY ReturnQuiet DEF At, Stop
  <2>2. ~AtOp("fill") /\ told \subseteq told'
    BY DEF At, AtOp, Stop, Tell
  <2>3. QED BY <2>1, <2>2, QuietKept
<1>30. ASSUME NEW w \in Nodes, StopBlocked(w)  PROVE Consistent'
  <2> USE <1>30 DEF Typed, Shape, StopBlocked, still, work, gate, line, nodes, process, outcome
  <2>1. Quiet'
    BY ReturnQuiet DEF At, Stop
  <2>2. ~AtOp("fill") /\ told \subseteq told'
    BY DEF At, AtOp, Stop, Tell
  <2>3. QED BY <2>1, <2>2, QuietKept
<1>31. ASSUME NEW w \in Nodes, StopWithdraws(w)  PROVE Consistent'
  <2> USE <1>31 DEF Typed, Shape, StopWithdraws, still, work, gate, line, nodes, process,
      outcome
  <2>1. Quiet'
    BY ReturnQuiet DEF At, Stop
  <2>2. ~AtOp("fill") /\ told \subseteq told'
    BY DEF At, AtOp, Stop, Tell
  <2>3. QED BY <2>1, <2>2, QuietKept
<1>32. ASSUME NEW w \in Nodes, Boot(w)  PROVE Consistent'
  <2> USE <1>32 DEF Typed, Shape, Boot, central, work, gate, line, nodes, process, outcome
  <2> DEFINE ms == <<<<"ready", 0>>, <<"collected", 0>>>>
  <2>1. ms \in Seq(Mail)
    BY MailTyped, MailLists
  <2>2. \A i \in DOMAIN ms : ms[i][1] # "complete"
    OBVIOUS
  <2>3. Post(w, ms) /\ \A v \in Nodes : status'[v] = "exited" => status[v] = "exited"
    BY DEF ProcessTyped
  <2> HIDE DEF ms
  <2>4. QED BY <2>1, <2>2, <2>3, PostedKept DEF central
<1>33. ASSUME NEW w \in Nodes, StartTest(w)  PROVE Consistent'
  <2> USE <1>33 DEF Typed, Shape, StartTest, central, work, gate, line, nodes, process, outcome
  <2> DEFINE F == After(Head(inbox[w]), alive[w])
  <2>1. Head(inbox[w]) \in Tests /\ alive[w] \in SUBSET Fixtures
    BY DEF ProcessTyped, MayStart
  <2>2. F \in SUBSET Fixtures
    BY <2>1, CostsTyped
  <2>3. Post(w, HoldsEvent(alive[w], F))
    OBVIOUS
  <2> HIDE DEF F
  <2>4. QED BY <2>1, <2>2, <2>3, HoldsPlain, PostedKept DEF central
<1>34. ASSUME NEW w \in Nodes, SkipTest(w)  PROVE Consistent'
  <2> USE <1>34 DEF Typed, Shape, SkipTest, central, work, gate, line, nodes, process, outcome
  <2> DEFINE t == Head(inbox[w])
             ms == Skipped(t)
  <2>1. inbox[w] \in Seq(Tests) /\ inbox[w] # <<>> /\ w \notin down
    BY DEF ProcessTyped, MayStart
  <2>2. t \in Tests /\ inbox' = [inbox EXCEPT ![w] = Tail(@)]
    BY <2>1
  <2>3. ms \in Seq(Mail) /\ CompletesLast(ms, t)
    <3> HIDE DEF t
    <3>1. <<"complete", t>> \in Mail
      BY <2>2, MailTyped
    <3>2. QED BY <3>1 DEF Skipped, CompletesLast
  <2>4. Post(w, ms)
    OBVIOUS
  <2> HIDE DEF ms
  <2>5. QED BY <2>1, <2>3, <2>4, FinishedAgrees, StackIdle DEF central
<1>35. ASSUME NEW w \in Nodes, FinishTest(w)  PROVE Consistent'
  <2> USE <1>35 DEF Typed, Shape, FinishTest, central, work, gate, line, nodes, process, outcome
  <2> DEFINE left == IF Len(inbox[w]) > 1 THEN Kept(inbox[w][2], alive[w]) ELSE {}
             t    == Head(inbox[w])
             hs   == HoldsEvent(alive[w], left)
             ms   == Append(hs, <<"complete", t>>)
  <2>1. inbox[w] \in Seq(Tests) /\ inbox[w] # <<>> /\ w \notin down /\ alive[w] \in SUBSET Fixtures
    BY DEF ProcessTyped, Idling
  <2>2. left \in SUBSET Fixtures /\ t \in Tests
    BY <2>1 DEF Kept
  <2>3. hs \in Seq(Mail) /\ \A i \in DOMAIN hs : hs[i][1] # "complete"
    <3> HIDE DEF left
    <3>1. QED BY <2>1, <2>2, HoldsPlain
  <2>4. Post(w, ms)
    OBVIOUS
  <2>5. ms \in Seq(Mail) /\ CompletesLast(ms, t)
    <3> HIDE DEF hs, t
    <3>1. <<"complete", t>> \in Mail
      BY <2>2, MailTyped
    <3>2. QED BY <2>3, <3>1, LastCompletes
  <2> HIDE DEF ms
  <2>6. QED BY <2>1, <2>4, <2>5, FinishedAgrees, StackIdle DEF central
<1>36. ASSUME NEW w \in Nodes, Ask(w)  PROVE Consistent'
  <2> USE <1>36 DEF Typed, Shape, Ask, central, work, gate, line, nodes, process, outcome
  <2>1. PICK m \in Requesting : Post(w, <<<<"request", m>>>>)
    BY AskPosts DEF Typed
  <2>2. <<<<"request", m>>>> \in Seq(Mail)
        /\ \A i \in DOMAIN <<<<"request", m>>>> : <<<<"request", m>>>>[i][1] # "complete"
    BY <2>1, MailTyped, MailLists
  <2>3. QED BY <2>1, <2>2, PostedKept DEF central
<1>37. ASSUME NEW w \in Nodes, GiveUp(w)  PROVE Consistent'
  <2> USE <1>37 DEF Typed, Shape, GiveUp, central, work, gate, line, nodes, process, outcome
  <2>1. PICK m \in Requesting : Post(w, <<<<"request", m>>>>)
    BY GiveUpPosts DEF Typed
  <2>2. <<<<"request", m>>>> \in Seq(Mail)
        /\ \A i \in DOMAIN <<<<"request", m>>>> : <<<<"request", m>>>>[i][1] # "complete"
    BY <2>1, MailTyped, MailLists
  <2>3. QED BY <2>1, <2>2, PostedKept DEF central
<1>38. ASSUME NEW w \in Nodes, GrantArrives(w)  PROVE Consistent'
  <2> USE <1>38 DEF Typed, Shape, GrantArrives, central, work, gate, line, nodes, process,
      outcome
  <2>1. \A v \in Nodes : Out(v)' = Out(v)
    BY DEF central, Out, AtOp
  <2>2. ChannelAgrees'
    BY <2>1, SameMail, AgreesKept DEF central, Consistent
  <2>3. QED BY <2>2, StackIdle DEF central
<1>39. ASSUME NEW w \in Nodes, NEW reached \in BOOLEAN, GoOn(w, reached)  PROVE Consistent'
  <2> USE <1>39 DEF Typed, Shape, GoOn, central, work, gate, line, nodes, process, outcome
  <2> DEFINE F == IF reached THEN alive[w] \cup {permit[w].key} ELSE alive[w]
  <2>1. permit[w] \in PermitRecords /\ alive[w] \in SUBSET Fixtures
    BY DEF ProcessTyped
  <2>2. permit[w].state # NotAsking /\ permit[w].key \in Fixtures
    BY <2>1, PermitFields
  <2>3. F \in SUBSET Fixtures
    BY <2>1, <2>2
  <2>4. Post(w, HoldsEvent(alive[w], F))
    OBVIOUS
  <2> HIDE DEF F
  <2>5. QED BY <2>1, <2>3, <2>4, HoldsPlain, PostedKept DEF central
<1>40. ASSUME NEW w \in Nodes, Exit(w)  PROVE Consistent'
  <2> USE <1>40 DEF Typed, Shape, Exit, Leave, central, work, gate, line, nodes, process,
      outcome
  <2> DEFINE ms == <<<<"finished", 0>>>>
  <2>1. ms \in Seq(Mail) /\ Post(w, ms) /\ \A i \in DOMAIN ms : ms[i][1] # "complete"
    BY MailTyped, MailLists
  <2> HIDE DEF ms
  <2>2. /\ w \notin down /\ w \in down' /\ inbox'[w] = <<>> /\ status'[w] = "exited"
        /\ \A v \in Nodes : v # w => /\ status'[v] = status[v] /\ inbox'[v] = inbox[v]
                                     /\ (v \in down' <=> v \in down)
    BY DEF ProcessTyped
  <2>3. ASSUME NEW v \in Nodes  PROVE Agrees(v)'
    <3>1. Agrees(v) /\ Completes(v)' = Completes(v) /\ CompleteOnce(v)'
      BY <2>1, CompletesPosted DEF Consistent, ChannelAgrees, Agrees
    <3>2. Out(v)' = Out(v)
      BY DEF Out, AtOp, central
    <3>3. CASE v # w
      BY <2>2, <3>1, <3>2, <3>3 DEF Agrees, central
    <3>4. CASE v = w
      <4>1. Out(w) = <<>>
        BY DEF Out, StackShape, AtOp
      <4>2. Elements(<<>>) = {}
        BY DEF Elements
      <4>3. QED BY <2>2, <3>1, <3>4, <4>1, <4>2 DEF Agrees, central
    <3>5. QED BY <3>3, <3>4
  <2>4. QED BY <2>3, StackIdle DEF ChannelAgrees, central
<1>41. ASSUME NEW w \in Nodes, Crash(w)  PROVE Consistent'
  <2> USE <1>41 DEF Typed, Shape, Crash, Leave, central, work, gate, line, nodes, process,
      outcome
  <2> DEFINE ms == <<<<"down", 0>>>>
  <2>1. ms \in Seq(Mail) /\ Post(w, ms) /\ \A i \in DOMAIN ms : ms[i][1] # "complete"
    BY MailTyped, MailLists
  <2> HIDE DEF ms
  <2>2. /\ w \notin down /\ w \in down' /\ inbox'[w] = <<>> /\ status'[w] = "dead"
        /\ \A v \in Nodes : v # w => /\ status'[v] = status[v] /\ inbox'[v] = inbox[v]
                                     /\ (v \in down' <=> v \in down)
    BY DEF ProcessTyped
  <2>3. ASSUME NEW v \in Nodes  PROVE Agrees(v)'
    <3>1. Agrees(v) /\ Completes(v)' = Completes(v) /\ CompleteOnce(v)'
      BY <2>1, CompletesPosted DEF Consistent, ChannelAgrees, Agrees
    <3>2. Out(v)' = Out(v)
      BY DEF Out, AtOp, central
    <3>3. CASE v # w
      BY <2>2, <3>1, <3>2, <3>3 DEF Agrees, central
    <3>4. CASE v = w
      BY <2>2, <3>1, <3>4 DEF Agrees, central
    <3>5. QED BY <3>3, <3>4
  <2>4. QED BY <2>3, StackIdle DEF ChannelAgrees, central
<1>42. ASSUME UNCHANGED vars  PROVE Consistent'
  <2> USE <1>42 DEF Typed, Shape, vars, work, gate, line, nodes, process, outcome
  <2>1. \A v \in Nodes : Out(v)' = Out(v)
    BY DEF Out, AtOp
  <2>2. ChannelAgrees'
    BY <2>1, SameMail, AgreesKept DEF Consistent
  <2>3. QED BY <2>2, StackIdle
<1>43. /\ AtOp("fill") => Head(todo).out \in Seq(Tests)
       /\ AtOp("replan") => Head(todo).tests \in SUBSET Tests
  BY StackMoves, CallFields DEF Typed, AtOp
<1>44. ASSUME NEW w \in Nodes, AtOp("fill"), Filler(w, Head(todo).out)  PROVE Consistent'
  BY <1>44, <1>43, <1>2, <1>3, <1>4, <1>5, <1>6 DEF Filler
<1>45. ASSUME NEW w \in Nodes, Common(w)  PROVE Consistent'
  BY <1>45, <1>8, <1>9, <1>10,
     <1>19, <1>20, <1>23, <1>25, <1>26,
     <1>29, <1>30, <1>31,
     <1>21, <1>15, <1>18, <1>16, <1>17 DEF Common
<1>46. ASSUME Anywhere  PROVE Consistent'
  BY <1>46, <1>43, <1>11, <1>12, <1>13, <1>14, <1>27
  DEF Anywhere
<1>47. ASSUME Controller  PROVE Consistent'
  BY <1>47, <1>44, <1>45, <1>46, <1>1, <1>7, <1>22, <1>24, <1>28
  DEF Controller
<1>48. ASSUME NEW w \in Nodes, Worker(w)  PROVE Consistent'
  BY <1>48, <1>32, <1>33, <1>34, <1>35, <1>40, <1>36, <1>38, <1>39 DEF Worker
<1>49. QED BY <1>42, <1>47, <1>48, <1>37, <1>41 DEF Next, Stopped

(* At the start every test is pending and about to be laid out.            *)
LEMMA ConsistentInit == Init => Consistent
<1> SUFFICES ASSUME Init  PROVE Consistent
  OBVIOUS
<1> USE DEF Init, Start
<1> DEFINE r == Replan(Tests)
<1>1. r.op = "replan" /\ r.tests = Tests
  BY DEF Replan
<1>2. todo # <<>> /\ Head(todo) = r
  <2> HIDE DEF r
  <2>1. todo = <<r, Loop>>
    BY DEF r
  <2>2. QED BY <2>1
<1> HIDE DEF r
<1>3. ToReplan /\ ~AtOp("fill")
  BY <1>1, <1>2 DEF ToReplan, AtOp
<1>4. Elements(<<>>) = {} /\ Distinct(<<>>)
  BY DEF Elements, Distinct
<1>5. Planned /\ Queued /\ Settled
  BY <1>4 DEF Planned, Queued, Settled
<1>6. ASSUME NEW w \in Nodes  PROVE Agrees(w)
  <2>1. CompleteOnce(w) /\ Completes(w) = {} /\ Out(w) = <<>>
    BY <1>3, NothingOut DEF CompleteOnce, Completes, Kind
  <2>2. queue[w] = <<>> /\ inbox[w] = <<>> /\ status[w] # "exited"
    OBVIOUS
  <2>3. QED BY <1>4, <2>1, <2>2 DEF Agrees
<1>7. QED BY <1>3, <1>5, <1>6 DEF Consistent, Conserved, ChannelAgrees

(* The scheduler's queue of a node is always exactly what the worker still *)
(* has, plus what is being sent to it, plus the completions in the         *)
(* channel, so that a completion is always of a test the scheduler counts  *)
(* as sent to that very worker; a worker that exits has completed all it   *)
(* was sent. For any number of tests, workers, crashes, restarts and       *)
(* requests.                                                               *)
THEOREM AlwaysConsistent == Spec => []Consistent
<1>1. Typed /\ Shape /\ Consistent /\ [Next]_vars => Consistent'
  BY ConsistentStep
<1>2. QED BY <1>1, ConsistentInit, AlwaysTyped, AlwaysShape, PTL DEF Spec

(* A queue without repetitions is no longer than there are tests.          *)
LEMMA DistinctShort ==
  ASSUME NEW s \in Seq(Tests), Distinct(s)
  PROVE  Len(s) <= Cardinality(Tests)
<1>1. IsFiniteSet(Tests) /\ Cardinality(Tests) \in Nat
  BY TestsAssumption, FS_CardinalityType
<1>2. s \in [1 .. Len(s) -> Tests] /\ DOMAIN s = 1 .. Len(s) /\ Len(s) \in Nat
  OBVIOUS
<1>3. s \in Injection(1 .. Len(s), Tests)
  BY <1>2 DEF Distinct, Injection, IsInjective
<1>4. Cardinality(1 .. Len(s)) <= Cardinality(Tests)
  BY <1>1, <1>3, FS_Injection
<1>5. Cardinality(1 .. Len(s)) = Len(s)
  <2> DEFINE n == Len(s)
  <2>1. n \in Nat /\ n \in Int /\ 1 \in Int
    BY <1>2
  <2> HIDE DEF n
  <2>2. Cardinality(1 .. n) = IF 1 > n THEN 0 ELSE n - 1 + 1
    BY <2>1, FS_Interval
  <2>3. Cardinality(1 .. n) = n
    BY <2>1, <2>2
  <2>4. QED BY <2>3 DEF n
<1>6. QED BY <1>4, <1>5

(* Every test is, at every moment of every session, in exactly one place:  *)
(* pending, once in the queue of one node, reported or crashed. Dispatch,  *)
(* re-planning, withdrawal, crashes and restarts neither lose a test nor   *)
(* count it for two workers.                                               *)
THEOREM TestsAlwaysConserved == Spec => []TestsConserved
<1>1. Typed /\ Consistent => TestsConserved
  <2> SUFFICES ASSUME Typed, Consistent  PROVE TestsConserved
    OBVIOUS
  <2>1. ASSUME NEW t \in Tests
        PROVE  (IF t \in pending THEN 1 ELSE 0)
               + Cardinality({p \in Nodes \X (1 .. Cardinality(Tests)) :
                                p[2] <= Len(queue[p[1]]) /\ queue[p[1]][p[2]] = t})
               + (IF t \in reported THEN 1 ELSE 0)
               + (IF t \in crashed THEN 1 ELSE 0) = 1
    <3> DEFINE P == {p \in Nodes \X (1 .. Cardinality(Tests)) :
                       p[2] <= Len(queue[p[1]]) /\ queue[p[1]][p[2]] = t}
    <3>1. \A v \in Nodes : /\ queue[v] \in Seq(Tests) /\ Len(queue[v]) \in Nat /\ Distinct(queue[v])
                           /\ Len(queue[v]) <= Cardinality(Tests)
      BY DistinctShort DEF Typed, WorkTyped, Consistent, Conserved, Queued
    <3>2. \A p \in P : p[1] \in Nodes /\ p[2] \in DOMAIN queue[p[1]] /\ queue[p[1]][p[2]] = t
      BY <3>1
    <3>3. CASE t \in pending \cup reported \cup crashed
      <4>1. P = {}
        BY <3>2, <3>3 DEF Consistent, Conserved, Queued, Elements
      <4>2. Cardinality(P) = 0
        BY <4>1, FS_EmptySet
      <4> HIDE DEF P
      <4>3. QED BY <3>3, <4>2 DEF Consistent, Conserved, Settled, P
    <3>4. CASE t \notin pending \cup reported \cup crashed
      <4>1. PICK v \in Nodes : t \in Elements(queue[v])
        BY <3>4 DEF Consistent, Conserved, Settled
      <4>2. PICK i \in DOMAIN queue[v] : queue[v][i] = t
        BY <4>1 DEF Elements
      <4>3. <<v, i>> \in P
        BY <3>1, <4>1, <4>2, TestsAssumption, FS_CardinalityType
      <4>4. \A p \in P : p = <<v, i>>
        <5>1. SUFFICES ASSUME NEW p \in P  PROVE p[1] = v /\ p[2] = i
          BY <4>3
        <5>2. p[1] = v
          BY <3>2, <4>1 DEF Consistent, Conserved, Queued, Elements
        <5>3. p[2] = i
          BY <3>1, <3>2, <4>2, <5>2 DEF Distinct
        <5>4. QED BY <5>2, <5>3
      <4>5. P = {<<v, i>>}
        BY <4>3, <4>4
      <4>6. Cardinality(P) = 1
        BY <4>5, FS_Singleton
      <4> HIDE DEF P
      <4>7. QED BY <3>4, <4>6 DEF P
    <3>5. QED BY <3>3, <3>4
  <2>2. \A v \in Nodes : /\ plan[v] \subseteq pending
                         /\ \A w \in Nodes \ {v} : plan[v] \cap plan[w] = {}
    BY DEF Consistent, Conserved, Planned
  <2>3. QED BY <2>1, <2>2 DEF TestsConserved
<1>2. QED BY <1>1, AlwaysTyped, AlwaysConsistent, PTL

(* When a worker has exited and its last completion has been handled, the  *)
(* scheduler counts nothing as sent to it: a finished worker is never      *)
(* removed with tests that would be counted as crashed or laid out again.  *)
THEOREM ExitsLeaveNothing == Spec => []ExitLeavesNothing
<1>1. Typed /\ Consistent => ExitLeavesNothing
  <2> SUFFICES ASSUME Typed, Consistent, NEW w \in registered, status[w] = "exited",
                      events[w] \in {<<>>, <<<<"finished", 0>>>>}
               PROVE  queue[w] = <<>> /\ inbox[w] = <<>>
    BY DEF ExitLeavesNothing
  <2>1. w \in Nodes /\ queue[w] \in Seq(Tests)
    BY DEF Typed, NodesTyped, WorkTyped
  <2>2. Agrees(w)
    BY <2>1 DEF Consistent, ChannelAgrees
  <2>3. Completes(w) = {}
    BY DEF Completes, Kind
  <2>4. Elements(queue[w]) = {} /\ inbox[w] = <<>>
    BY <2>2, <2>3 DEF Agrees
  <2>5. queue[w] = <<>>
    <3>1. ASSUME queue[w] # <<>>  PROVE FALSE
      <4>1. Head(queue[w]) \in Elements(queue[w])
        BY <2>1, <3>1, TailElements
      <4>2. QED BY <2>4, <4>1
    <3>2. QED BY <3>1
  <2>6. QED BY <2>4, <2>5
<1>2. QED BY <1>1, AlwaysTyped, AlwaysConsistent, PTL
===============================================================================
