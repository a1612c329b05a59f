------------------------------- MODULE Locks -------------------------------
(***************************************************************************)
(* cache/locks.ts for one key: the map entry that names the mutex of the   *)
(* key, and the async-mutex mutexes that entry has named so far.  Entries  *)
(* of different keys share nothing, so one key is the whole component.     *)
(*                                                                         *)
(* A request is one getOrSet call: it acquires the lock once and may call  *)
(* Locks.release several times (the handlers do).  A mutex is named by the *)
(* request whose getOrCreateForKey call created it.                        *)
(***************************************************************************)
EXTENDS Naturals, Sequences, FiniteSets

CONSTANTS Requests, None

ASSUME NoneAssumption == None \notin Requests

VARIABLES
  lock,       \* the mutex #locks holds for the key, or None
  mutexOf,    \* mutexOf[r]: the mutex request r acquires, or None
  holder,     \* holder[m]: the request mutex m is granted to, or None
  queue,      \* queue[m]: the requests waiting on mutex m, oldest first
  gaveUp,     \* the requests whose withTimeout promise was rejected
  released,   \* the requests whose releaser was called
  crowded     \* history: a release was repeated, or left others waiting

lockVars == <<lock, mutexOf, holder, queue, gaveUp, released, crowded>>

LocksTypeOK ==
  /\ lock \in Requests \cup {None}
  /\ mutexOf \in [Requests -> Requests \cup {None}]
  /\ holder \in [Requests -> Requests \cup {None}]
  /\ queue \in [Requests -> Seq(Requests)]
  /\ gaveUp \in SUBSET Requests
  /\ released \in SUBSET Requests
  /\ crowded \in BOOLEAN

LocksInit ==
  /\ lock = None
  /\ mutexOf = [r \in Requests |-> None]
  /\ holder = [m \in Requests |-> None]
  /\ queue = [m \in Requests |-> <<>>]
  /\ gaveUp = {}
  /\ released = {}
  /\ crowded = FALSE

----------------------------------------------------------------------------
(* States of a request.                                                    *)

Holds(r) == mutexOf[r] # None /\ holder[mutexOf[r]] = r

Waits(r) == mutexOf[r] # None /\ r \notin released /\ ~Holds(r)

(* The acquire promise resolved and gave r its releaser.                   *)
Granted(r) == (Holds(r) \/ r \in released) /\ r \notin gaveUp

(* The requests inside the section the lock guards.                        *)
InSection == {r \in Requests : Holds(r) /\ r \notin gaveUp}

----------------------------------------------------------------------------

(* Mutant of Acquire: every request gets a mutex of its own. *)
AcquireOwn(r) ==
  /\ mutexOf[r] = None
  /\ lock' = r
  /\ mutexOf' = [mutexOf EXCEPT ![r] = r]
  /\ holder' = [holder EXCEPT ![r] = r]
  /\ UNCHANGED <<queue, gaveUp, released, crowded>>

(* getOrCreateForKey, then acquire: the mutex dispatches at once when it   *)
(* is free, else the request joins its queue.                              *)
Acquire(r) ==
  LET m == IF lock = None THEN r ELSE lock IN
  /\ mutexOf[r] = None
  /\ lock' = m
  /\ mutexOf' = [mutexOf EXCEPT ![r] = m]
  /\ IF holder[m] = None
       THEN /\ holder' = [holder EXCEPT ![m] = r]
            /\ UNCHANGED queue
       ELSE /\ queue' = [queue EXCEPT ![m] = Append(@, r)]
            /\ UNCHANGED holder
  /\ UNCHANGED <<gaveUp, released, crowded>>

(* Mutants of HandOver: it grants the queue and not its head, leaves the   *)
(* head queued, keeps the holder of a mutex nobody waits on, frees the     *)
(* mutex without granting it.                                              *)
HandOverQueue(m) ==
  /\ holder' = [holder EXCEPT ![m] = IF queue[m] = <<>> THEN None ELSE queue[m]]
  /\ queue' = [queue EXCEPT ![m] = <<>>]

HandOverPeek(m) ==
  /\ holder' = [holder EXCEPT ![m] = IF queue[m] = <<>> THEN None ELSE Head(queue[m])]
  /\ UNCHANGED queue

HandOverKeep(m) ==
  IF queue[m] = <<>> THEN UNCHANGED <<holder, queue>>
  ELSE /\ holder' = [holder EXCEPT ![m] = Head(queue[m])]
       /\ queue' = [queue EXCEPT ![m] = Tail(@)]

HandOverFree(m) == holder' = [holder EXCEPT ![m] = None] /\ UNCHANGED queue

(* The mutex is granted to the oldest waiter, or comes free. *)
HandOver(m) ==
  IF queue[m] = <<>>
    THEN /\ holder' = [holder EXCEPT ![m] = None]
         /\ UNCHANGED queue
    ELSE /\ holder' = [holder EXCEPT ![m] = Head(queue[m])]
         /\ queue' = [queue EXCEPT ![m] = Tail(@)]

(* Mutant of Releaser: every call hands the mutex over. *)
ReleaserAgain(r) == HandOver(mutexOf[r]) /\ released' = released \cup {r}

(* The releaser of async-mutex: later calls do nothing. *)
Releaser(r) ==
  IF r \in released
    THEN UNCHANGED <<holder, queue, released>>
    ELSE /\ HandOver(mutexOf[r])
         /\ released' = released \cup {r}

(* Mutant of Release: the map keeps the mutex. *)
ReleaseKeepEntry(r) ==
  /\ Granted(r)
  /\ Releaser(r)
  /\ crowded' = (crowded \/ r \in released \/ queue[mutexOf[r]] # <<>>)
  /\ UNCHANGED <<lock, mutexOf, gaveUp>>

(* Locks.release: the releaser, then #locks.delete(key) whatever mutex the *)
(* map holds and whoever waits on it.                                      *)
Release(r) ==
  /\ Granted(r)
  /\ Releaser(r)
  /\ lock' = None
  /\ crowded' = (crowded \/ r \in released \/ queue[mutexOf[r]] # <<>>)
  /\ UNCHANGED <<mutexOf, gaveUp>>

(* The timer of withTimeout rejects the acquire promise; the request stays *)
(* in the queue of the mutex.                                              *)
GiveUp(r) ==
  /\ Waits(r)
  /\ r \notin gaveUp
  /\ gaveUp' = gaveUp \cup {r}
  /\ UNCHANGED <<lock, mutexOf, holder, queue, released, crowded>>

(* Mutant of Discard: only the last of the queue is discarded. *)
DiscardLast(r) ==
  /\ r \in gaveUp
  /\ Holds(r)
  /\ queue[mutexOf[r]] = <<>>
  /\ Releaser(r)
  /\ UNCHANGED <<lock, mutexOf, gaveUp, crowded>>

(* The mutex reaches a request that gave up: withTimeout releases it at    *)
(* once, without telling the map.                                          *)
Discard(r) ==
  /\ r \in gaveUp
  /\ Holds(r)
  /\ Releaser(r)
  /\ UNCHANGED <<lock, mutexOf, gaveUp, crowded>>

LocksStep(r) == Acquire(r) \/ Release(r) \/ GiveUp(r) \/ Discard(r)

LocksNext == \E r \in Requests : LocksStep(r)

LocksSpec == LocksInit /\ [][LocksNext]_lockVars

(* Every request that was granted the lock calls release once, and timers  *)
(* that handed over late are drained by async-mutex itself.                *)
LocksFairness ==
  \A r \in Requests : /\ WF_lockVars(Release(r) /\ r \notin released)
                      /\ WF_lockVars(Discard(r))

LocksFairSpec == LocksSpec /\ LocksFairness

----------------------------------------------------------------------------
(* What the component guarantees.                                          *)

(* Each request has at most one place: it is queued at most once, on the   *)
(* mutex it asked for, and neither holds it nor has released it.           *)
QueuesConsistent ==
  \A m \in Requests : \A i \in 1..Len(queue[m]) :
    /\ mutexOf[queue[m][i]] = m
    /\ queue[m][i] \notin released
    /\ holder[m] # queue[m][i]
    /\ \A j \in 1..Len(queue[m]) : queue[m][i] = queue[m][j] => i = j

(* A mutex is granted to a request that asked for it and still owns it.    *)
HoldersConsistent ==
  \A m \in Requests : holder[m] # None =>
    mutexOf[holder[m]] = m /\ holder[m] \notin released

(* No lost wakeup: as long as requests wait on a mutex somebody holds it,  *)
(* although release forgets the mutex while they wait (locks.ts:27-28).    *)
NoLostWakeup ==
  \A m \in Requests : queue[m] # <<>> => holder[m] # None

(* The map never keeps a mutex that came free, nor one that was handed on: *)
(* the mutex it names is still held by the request that created it.  So a  *)
(* key whose requests are over leaves no entry behind.                     *)
MapNamesCreatorsMutex == lock # None => holder[lock] = lock

(* Single flight: two requests are inside the section only after a release *)
(* that was repeated or that left others waiting.                          *)
SingleFlight ==
  ~crowded => \A q, r \in Requests : Holds(q) /\ Holds(r) => q = r

(* Seen from the requests, the mutexes, the queues and the map entry that  *)
(* comes and goes are one lock that is passed on (locks.ts:10-29): the     *)
(* specification Exclusion says what it may do.                            *)
Abstract == INSTANCE Exclusion WITH
  owners <- {r \in Requests : Holds(r)},
  waiting <- {r \in Requests : Waits(r)},
  over <- released,
  loose <- crowded

ImplementsExclusion == Abstract!Spec

(* A request that waits is eventually granted the lock or times out.       *)
WaitersServed == \A r \in Requests : Waits(r) ~> (Holds(r) \/ r \in gaveUp)
=============================================================================
