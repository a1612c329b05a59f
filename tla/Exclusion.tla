----------------------------- MODULE Exclusion ------------------------------
(***************************************************************************)
(* What the lock of one key promises, without mutexes, queues and map      *)
(* entries: requests ask for it, own it and leave it.  It excludes them    *)
(* from each other until one leaves while others wait; from then on the    *)
(* lock is loose, and newcomers may come in beside the owners.  In no case *)
(* does it keep requests waiting that nobody will let in.                  *)
(***************************************************************************)
CONSTANT Requests

VARIABLES
  owners,    \* the requests that have the lock
  waiting,   \* the requests that asked for it and do not have it yet
  over,      \* the requests that left it
  loose      \* somebody left while others waited, or left twice

vars == <<owners, waiting, over, loose>>

Init == owners = {} /\ waiting = {} /\ over = {} /\ loose = FALSE

(* A free lock is given at once.  One that is not makes the request wait,  *)
(* unless it is loose.                                                     *)
Ask(r) ==
  /\ r \notin owners \cup waiting \cup over
  /\ \/ (owners = {} \/ loose) /\ owners' = owners \cup {r} /\ UNCHANGED waiting
     \/ owners # {} /\ waiting' = waiting \cup {r} /\ UNCHANGED owners
  /\ UNCHANGED <<over, loose>>

(* The lock passes from r to at most one request that waits.               *)
Pass(r) ==
  \/ owners' = owners \ {r} /\ UNCHANGED waiting
  \/ \E w \in waiting : owners' = (owners \ {r}) \cup {w} /\ waiting' = waiting \ {w}

(* An owner leaves.  As long as requests wait, somebody has the lock.      *)
Leave(r) ==
  /\ r \in owners
  /\ Pass(r)
  /\ owners' = {} => waiting' = {}
  /\ over' = over \cup {r}
  /\ loose' = (loose \/ waiting # {})

(* Leaving again changes nothing but that the lock is loose.               *)
LeaveAgain(r) ==
  /\ r \in over
  /\ loose' = TRUE
  /\ UNCHANGED <<owners, waiting, over>>

Next == \E r \in Requests : Ask(r) \/ Leave(r) \/ LeaveAgain(r)

Spec == Init /\ [][Next]_vars
=============================================================================
