----------------------------- MODULE MCOvertaking ----------------------------
(***************************************************************************)
(* Scheduler with a history: how often was each worker handed a further    *)
(* test past one and the same head of the waiting line?                    *)
(***************************************************************************)
EXTENDS MCScheduler

VARIABLE overtaken  \* node -> tests it was handed past the present head

InLine   == {v \in Nodes : ask[v] > 0}
SameHead == InLine # {} /\ InLine' # {} /\ G!LineHead' = G!LineHead

(* w goes on with a further test though the head of the line, which cannot *)
(* start now, could with the slots w gives back after those it may already *)
(* run.                                                                    *)
Overtakes(w) ==
  /\ queue[w] # <<>> /\ Len(queue'[w]) > Len(queue[w])
  /\ G!LineHead # w
  /\ G!Free < G!Shortfall(G!LineHead)
  /\ G!Free + Held(w) - Holds(w) >= G!Shortfall(G!LineHead)

OvertakingInit == Init /\ overtaken = [w \in Nodes |-> 0]

OvertakingNext ==
  /\ Next
  /\ overtaken' = [w \in Nodes |->
       IF ~SameHead THEN 0
       ELSE IF Overtakes(w) THEN overtaken[w] + 1 ELSE overtaken[w]]

OvertakingSpec == OvertakingInit /\ [][OvertakingNext]_<<vars, overtaken>>

(* "The oldest request has priority, so small tests cannot repeatedly take *)
(* its needed slots" (README.md:251-252): no worker goes on twice past the *)
(* same head with slots that would let the head start.                     *)
SmallTestsYield == \A w \in Nodes : overtaken[w] <= 1
=============================================================================
