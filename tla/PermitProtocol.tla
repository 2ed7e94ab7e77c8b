---------------------------- MODULE PermitProtocol ----------------------------
(***************************************************************************)
(* What a run-time request promises.  A worker whose running test reaches  *)
(* a fixture asks for the slots of the set-up and does nothing until it    *)
(* has a permit for that very request; a worker that gave the set-up up    *)
(* needs one all the same, to unwind with.  The meter (CpuMeter,           *)
(* pytest_timing/demand.py) numbers its requests and takes grants on the   *)
(* channel's receiver thread; when the scheduler grants is left open.      *)
(*                                                                         *)
(* A worker without a gate is granted whatever it sends at once, and may   *)
(* so be granted twice.  Nothing orders the two channels with each other.  *)
(***************************************************************************)
EXTENDS Integers, Sequences

CONSTANTS
  Workers,
  Gated,    \* the workers whose domain has a gate
  MaxAsks   \* bound: requests of one worker

VARIABLES
  issued,   \* worker -> its last request's number (_request_id)
  state,    \* worker -> what its running test does (_request, timed_out)
  granted,  \* worker -> _granted
  sent,     \* worker -> requests on their way: [id, cancelled]
  record,   \* worker -> the number of the request the scheduler keeps, or 0
  grants    \* worker -> grants on their way

permits == <<issued, state, granted, sent, record, grants>>

States == {"running", "asking", "giving_up", "gone"}

(* _dynamic_request *)
Ask(w) ==
  /\ state[w] = "running" /\ issued[w] < MaxAsks
  /\ issued' = [issued EXCEPT ![w] = @ + 1]
  /\ state' = [state EXCEPT ![w] = "asking"]
  /\ granted' = [granted EXCEPT ![w] = FALSE]
  /\ sent' = [sent EXCEPT ![w] = Append(@, [id |-> issued[w] + 1, cancelled |-> FALSE])]
  /\ UNCHANGED <<record, grants>>

(* _await, when its time is over. *)
GiveUp(w) ==
  /\ state[w] = "asking" /\ ~granted[w]
  /\ state' = [state EXCEPT ![w] = "giving_up"]
  /\ sent' = [sent EXCEPT ![w] = Append(@, [id |-> issued[w], cancelled |-> TRUE])]
  /\ UNCHANGED <<issued, granted, record, grants>>

(* grant: a permit for another request is dropped. *)
AnyGrant(w) == state[w] \in {"asking", "giving_up"}  \* mutant: whatever it names
Expected(w) == state[w] \in {"asking", "giving_up"} /\ Head(grants[w]) = issued[w]

Receive(w) ==
  /\ grants[w] # <<>>
  /\ grants' = [grants EXCEPT ![w] = Tail(@)]
  /\ granted' = [granted EXCEPT ![w] = @ \/ Expected(w)]
  /\ UNCHANGED <<issued, state, sent, record>>

(* _await returns, or fails the set-up that was given up. *)
GoOn(w) ==
  /\ granted[w]
  /\ state' = [state EXCEPT ![w] = "running"]
  /\ granted' = [granted EXCEPT ![w] = FALSE]
  /\ UNCHANGED <<issued, sent, record, grants>>

(* request *)
NeverOutdated(w, m) == FALSE  \* mutant: a cancellation always asks for a grant
Outdated(w, m) == m.cancelled /\ record[w] # m.id

Take(w) ==
  /\ w \in Gated /\ sent[w] # <<>>
  /\ sent' = [sent EXCEPT ![w] = Tail(@)]
  /\ record' = [record EXCEPT ![w] =
       IF Outdated(w, Head(sent[w])) THEN @ ELSE Head(sent[w]).id]
  /\ UNCHANGED <<issued, state, granted, grants>>

TakeUngated(w) ==
  /\ w \notin Gated /\ sent[w] # <<>>
  /\ sent' = [sent EXCEPT ![w] = Tail(@)]
  /\ grants' = [grants EXCEPT ![w] = Append(@, Head(sent[w]).id)]
  /\ UNCHANGED <<issued, state, granted, record>>

(* _complete_request; a process that has ended hears nothing.              *)
Grant(w) ==
  /\ record[w] # 0
  /\ record' = [record EXCEPT ![w] = 0]
  /\ grants' = IF state[w] = "gone" THEN grants ELSE [grants EXCEPT ![w] = Append(@, record[w])]
  /\ UNCHANGED <<issued, state, granted, sent>>

(* The process ends, its numbering with it; what it sent is still taken.   *)
Die(w) ==
  /\ state[w] # "gone"
  /\ issued' = [issued EXCEPT ![w] = 0]
  /\ state' = [state EXCEPT ![w] = "gone"]
  /\ granted' = [granted EXCEPT ![w] = FALSE]
  /\ grants' = [grants EXCEPT ![w] = <<>>]
  /\ UNCHANGED <<sent, record>>

(* _release_runtime *)
Drop(w) ==
  /\ state[w] = "gone" /\ record[w] # 0
  /\ record' = [record EXCEPT ![w] = 0]
  /\ UNCHANGED <<issued, state, granted, sent, grants>>

PermitInit ==
  /\ issued = [w \in Workers |-> 0]
  /\ state = [w \in Workers |-> "running"]
  /\ granted = [w \in Workers |-> FALSE]
  /\ sent = [w \in Workers |-> <<>>]
  /\ record = [w \in Workers |-> 0]
  /\ grants = [w \in Workers |-> <<>>]

PermitNext ==
  \E w \in Workers :
    \/ Ask(w) \/ GiveUp(w) \/ Receive(w) \/ GoOn(w) \/ Die(w)
    \/ Take(w) \/ TakeUngated(w) \/ Grant(w) \/ Drop(w)

PermitSpec == PermitInit /\ [][PermitNext]_permits

-----------------------------------------------------------------------------
(* Every variable keeps its type. *)
PermitTypeOK ==
  /\ issued \in [Workers -> Nat]
  /\ state \in [Workers -> States]
  /\ granted \in [Workers -> BOOLEAN]
  /\ sent \in [Workers -> Seq([id : Nat \ {0}, cancelled : BOOLEAN])]
  /\ record \in [Workers -> Nat]
  /\ grants \in [Workers -> Seq(Nat)]

Waiting(w)  == state[w] \in {"asking", "giving_up"}

(* Where the permit of a waiting worker is. *)
Requested(w) == \E i \in DOMAIN sent[w] : ~sent[w][i].cancelled
Kept(w)      == record[w] # 0
Underway(w)  == grants[w] # <<>>

(* A worker behind a gate that waits, the time-out passed or not, has      *)
(* exactly one permit on the way to it - its request, the scheduler's      *)
(* record of it, a grant, or the flag the grant set - and one that runs    *)
(* has none: the answer is never lost, and no slots are ever raised for a  *)
(* test that has gone on (request, mark_test_complete).                    *)
OnePermit ==
  \A w \in Workers : w \in Gated /\ state[w] # "gone" =>
    /\ Waiting(w) <=> Requested(w) \/ Kept(w) \/ Underway(w) \/ granted[w]
    /\ ~(Requested(w) /\ Kept(w)) /\ ~(Requested(w) /\ Underway(w))
    /\ ~(Kept(w) /\ Underway(w))
    /\ granted[w] => ~Requested(w) /\ ~Kept(w) /\ ~Underway(w)
    /\ Len(grants[w]) <= 1
    /\ \A i, j \in DOMAIN sent[w] : sent[w][i].cancelled \/ sent[w][j].cancelled \/ i = j

(* A test is woken only when the scheduler has taken the very request it   *)
(* waits for: "a late grant cannot satisfy a retry of the same fixture"    *)
(* (ARCHITECTURE.md:345-346), gate or no gate.                             *)
OwnPermit ==
  \A w \in Workers : granted[w] =>
    \A i \in DOMAIN sent[w] : sent[w][i].cancelled \/ sent[w][i].id # issued[w]
===============================================================================
