------------------------------ MODULE Cluster ------------------------------
(***************************************************************************)
(* One key in several processes: the calls of cache/cache.ts, CacheStack   *)
(* methods they use, LocalCache and RemoteCache with the circuit breaker,  *)
(* and the bus that tells other processes to drop what they hold.          *)
(*                                                                         *)
(* A call is one get, pull, set, delete, expire or clear; it runs in one   *)
(* process and awaits L2 and the bus, so that calls of one process         *)
(* interleave as much as calls of different ones.  A value is named by the *)
(* call that set it, None being a value of an earlier time.  An entry that *)
(* is not valid is kept for its grace period.                              *)
(***************************************************************************)
EXTENDS Naturals, FiniteSets

CONSTANTS
  Procs, Calls, None,
  Kinds,          \* the methods called
  Options,        \* the options they are called with
  HasBreaker,     \* l2CircuitBreakerDuration is set
  MaxFailures     \* bound on failures of L2, of the transport, of processes

ASSUME ClusterAssumption ==
  /\ MaxFailures \in Nat
  /\ None \notin Procs \cup Calls
  /\ Kinds \subseteq {"get", "pull", "set", "delete", "expire", "clear"}
  /\ Options \subseteq [suppress: BOOLEAN, grace: BOOLEAN, skipL2: BOOLEAN,
                        quiet: BOOLEAN]

VARIABLES
  hasL2,       \* the stack has an L2 beside its L1s
  l1,          \* l1[p]: the entry in the L1 of p, or None
  l2,          \* the entry in L2, or None
  open,        \* the processes whose circuit breaker is open
  subscribed,  \* the processes the transport delivers to
  inbox,       \* inbox[p][t]: messages of type t under way to p
  outbox,      \* outbox[p]: the retry queue of the bus of p
  call,        \* call[c]: where c stands, its process, method and options,
               \*   and the entry it read from L2
  failures,    \* history: how many failures there were
  disturbed    \* history: see Disturb

busVars == <<subscribed, inbox, outbox>>
vars == <<hasL2, l1, l2, open, busVars, call, failures, disturbed>>

MessageTypes == {"set", "expire", "delete", "clear"}
Entries == [ver: Calls \cup {None}, valid: BOOLEAN]
Idle == [pc |-> "idle", proc |-> None, kind |-> None, opt |-> None, item |-> None]
Done == [Idle EXCEPT !.pc = "done"]
Frames == [pc: {"l2", "refused", "item", "pulled", "publish", "orphan"},
           proc: Procs, kind: Kinds \cup {"delete"}, opt: Options,
           item: Entries \cup {None}]
Running == {f \in Frames : f.pc = "publish" => f.kind \in MessageTypes}

TypeOK ==
  /\ hasL2 \in BOOLEAN
  /\ l1 \in [Procs -> Entries \cup {None}]
  /\ l2 \in Entries \cup {None}
  /\ open \in SUBSET Procs /\ subscribed \in SUBSET Procs
  /\ inbox \in [Procs -> [MessageTypes -> Nat]]
  /\ outbox \in [Procs -> SUBSET MessageTypes]
  /\ call \in [Calls -> Running \cup {Idle, Done}]
  /\ failures \in 0..MaxFailures
  /\ disturbed \in SUBSET Procs

Init ==
  /\ hasL2 \in BOOLEAN
  /\ l2 \in {None} \cup (IF hasL2 THEN {[ver |-> None, valid |-> TRUE]} ELSE {})
  /\ l1 = [p \in Procs |-> None]
  /\ open = {} /\ subscribed = Procs
  /\ inbox = [p \in Procs |-> [t \in MessageTypes |-> 0]]
  /\ outbox = [p \in Procs |-> {}]
  /\ call = [c \in Calls |-> Idle]
  /\ failures = 0
  /\ disturbed = {}

----------------------------------------------------------------------------
(* What the actions share.                                                 *)

Valid(e) == e # None /\ e.valid

(* CacheEntry.expire *)
Expired(e) == IF e = None THEN None ELSE [e EXCEPT !.valid = FALSE]

WriteL1(p, e) == l1' = [l1 EXCEPT ![p] = e]

Goto(c, stage) ==
  call' = [call EXCEPT ![c] =
             IF stage = "done" THEN Done ELSE [@ EXCEPT !.pc = stage]]

Fault == failures < MaxFailures /\ failures' = failures + 1

(* tryCacheOperation looks at the breaker before it calls the driver.      *)
ToL2(p) == IF p \in open THEN "refused" ELSE "l2"

(* c asked L2 to change and L2 has not done it yet. *)
ChangesL2(c) ==
  \/ call[c].pc = "l2" /\ call[c].kind \notin {"get", "pull"}
  \/ call[c].pc = "item" /\ call[c].kind = "expire"

(* An L1 write of c at p overlaps a call of p whose change L2 has still to *)
(* make, or a clear that was announced before L2 was emptied.              *)
Overlaps(c, p) ==
  \E d \in Calls \ {c} :
    ChangesL2(d) /\ (call[d].proc = p \/ call[d].kind = "clear")

(* History.  p becomes disturbed when its L1 is written                    *)
(*   - by calls that overlap, as above,                                    *)
(*   - with an entry L2 no longer holds by then,                           *)
(* when a caller opts out of writing L2 or of telling the others, or when  *)
(* L2, the transport or a process fails between two steps of a call.  The  *)
(* next orderly write or the removal of the entry ends it.                 *)
Disturb(added, removed) == disturbed' = (disturbed \ removed) \cup added

----------------------------------------------------------------------------
(* The bus.                                                                *)

(* The transport hands a message to every other process that subscribed.   *)
Deliver(p, t) ==
  inbox' = [q \in Procs |->
              IF q # p /\ q \in subscribed THEN [inbox[q] EXCEPT ![t] = @ + 1]
              ELSE inbox[q]]

(* Bus.publish: a message the transport refuses waits in the retry queue,  *)
(* once however often it was published.                                    *)
Publish(p, t) ==
  \/ Deliver(p, t) /\ UNCHANGED <<outbox, failures>>
  \/ /\ Fault
     /\ outbox' = [outbox EXCEPT ![p] = @ \cup {t}]
     /\ UNCHANGED inbox

Retry(p) == \E t \in outbox[p] :
  /\ Deliver(p, t)
  /\ outbox' = [outbox EXCEPT ![p] = @ \ {t}]
  /\ Disturb(Procs \ subscribed, {})
  /\ UNCHANGED <<hasL2, l1, l2, open, subscribed, call, failures>>

(* #onMessage: messages arrive in any order, retried ones late.            *)
OnMessage(p) == \E t \in MessageTypes :
  /\ inbox[p][t] > 0
  /\ inbox' = [inbox EXCEPT ![p][t] = @ - 1]
  /\ WriteL1(p, IF t \in {"set", "expire"} THEN Expired(l1[p]) ELSE None)
  /\ Disturb({}, {p})
  /\ UNCHANGED <<hasL2, l2, open, subscribed, outbox, call, failures>>

----------------------------------------------------------------------------
(* The calls, up to their first await.                                     *)

Begin(c, p, kind, o, stage) ==
  /\ call[c].pc = "idle"
  /\ kind \in Kinds
  /\ call' = [call EXCEPT ![c] =
                IF stage = "done" THEN Done
                ELSE [pc |-> stage, proc |-> p, kind |-> kind, opt |-> o,
                      item |-> None]]

(* Cache.get, and the first half of Cache.pull. *)
Get(c, p, o) ==
  /\ \/ Begin(c, p, "get", o, IF Valid(l1[p]) \/ ~hasL2 THEN "done" ELSE ToL2(p))
     \/ Begin(c, p, "pull", o, IF Valid(l1[p]) \/ ~hasL2 THEN "pulled" ELSE ToL2(p))
  /\ UNCHANGED <<hasL2, l1, l2, open, busVars, failures, disturbed>>

(* CacheStack.set: L1 first, in the same turn.  L2 is left alone on        *)
(* request, and then nobody is told either.                                *)
Set(c, p, o) ==
  LET toL2 == hasL2 /\ ~o.skipL2 IN
  /\ Begin(c, p, "set", o, IF toL2 THEN ToL2(p)
                           ELSE IF hasL2 \/ o.quiet THEN "done" ELSE "publish")
  /\ WriteL1(p, [ver |-> c, valid |-> TRUE])
  /\ IF \/ Overlaps(c, p)
        \/ hasL2 /\ (o.skipL2 \/ p \in open)
        \/ ~hasL2 /\ o.quiet
       THEN Disturb({p}, {})
       ELSE Disturb({}, {p})
  /\ UNCHANGED <<hasL2, l2, open, busVars, failures>>

(* Cache.delete, also for deleteMany and as the second half of pull. *)
Delete(c, p, o) ==
  /\ LET stage == IF hasL2 THEN ToL2(p) ELSE "publish" IN
     \/ Begin(c, p, "delete", o, stage)
     \/ /\ call[c].pc = "pulled" /\ p = call[c].proc /\ o = call[c].opt
        /\ call' = [call EXCEPT ![c] = [@ EXCEPT !.pc = stage, !.kind = "delete",
                                                 !.item = None]]
  /\ WriteL1(p, None)
  /\ Disturb({}, {p})
  /\ UNCHANGED <<hasL2, l2, open, busVars, failures>>

(* CacheStack.expire *)
Expire(c, p, o) ==
  /\ Begin(c, p, "expire", o, IF hasL2 THEN ToL2(p) ELSE "publish")
  /\ WriteL1(p, Expired(l1[p]))
  /\ Disturb({}, {p})
  /\ UNCHANGED <<hasL2, l2, open, busVars, failures>>

(* Cache.clear does its three parts at once: the message leaves before L2  *)
(* is empty.                                                               *)
Clear(c, p, o) ==
  /\ Begin(c, p, "clear", o, IF hasL2 THEN ToL2(p) ELSE "done")
  /\ WriteL1(p, None)
  /\ Publish(p, "clear")
  /\ Disturb(Procs \ subscribed, {p})
  /\ UNCHANGED <<hasL2, l2, open, subscribed>>

----------------------------------------------------------------------------
(* L2 answers.                                                             *)

(* Mutant of Continue: a set that failed starts over. *)
ContinueOver(c, ok) ==
  IF call[c].kind = "set" /\ ~ok THEN Goto(c, "idle") ELSE Goto(c, "done")

(* After the answer: a set that failed is not published, a delete and an   *)
(* expire are.                                                             *)
Continue(c, ok) ==
  CASE call[c].kind = "set" ->
         Goto(c, IF ok /\ ~call[c].opt.quiet THEN "publish" ELSE "done")
    [] call[c].kind \in {"delete", "expire"} -> Goto(c, "publish")
    [] call[c].kind = "pull" -> Goto(c, "pulled")
    [] OTHER -> Goto(c, "done")

(* The open breaker made RemoteCache answer false. *)
Refused(c) ==
  /\ call[c].pc = "refused"
  /\ Continue(c, FALSE)
  /\ UNCHANGED <<hasL2, l1, l2, open, busVars, failures, disturbed>>

(* The entry a write of c leaves in L2. *)
Written(c) ==
  CASE call[c].kind = "set" -> [ver |-> c, valid |-> TRUE]
    [] call[c].kind = "expire" -> Expired(call[c].item)
    [] OTHER -> None

(* c awaits a write: the first request of set, delete and clear, and the   *)
(* second of expire.                                                       *)
AwaitsWrite(c) ==
  \/ call[c].pc = "l2" /\ call[c].kind \in {"set", "delete", "clear"}
  \/ call[c].pc = "item" /\ call[c].kind = "expire"

AwaitsRead(c) == call[c].pc = "l2" /\ call[c].kind \in {"get", "pull", "expire"}

(* L2 does the write; the others of a quiet set will not hear of it.       *)
WriteL2(c) ==
  /\ AwaitsWrite(c)
  /\ l2' = Written(c)
  /\ Continue(c, TRUE)
  /\ IF call[c].kind = "set" /\ call[c].opt.quiet
       THEN Disturb(Procs \ {call[c].proc}, {}) ELSE UNCHANGED disturbed
  /\ UNCHANGED <<hasL2, l1, open, busVars, failures>>

(* L2 answers a read.  expire has nothing to write back over a miss.       *)
ReadL2(c) ==
  /\ AwaitsRead(c)
  /\ IF l2 = None THEN Continue(c, TRUE)
     ELSE call' = [call EXCEPT ![c].pc = "item", ![c].item = l2]
  /\ UNCHANGED <<hasL2, l1, l2, open, busVars, failures, disturbed>>

(* A request to L2 fails, be it before or after L2 did it: the breaker     *)
(* opens and the call goes on, or throws and leaves the rest undone.       *)
FailL2(c) ==
  LET p == call[c].proc IN
  /\ AwaitsWrite(c) \/ AwaitsRead(c)
  /\ Fault
  /\ l2' \in {l2} \cup (IF AwaitsWrite(c) THEN {Written(c)} ELSE {})
  /\ open' = IF HasBreaker THEN open \cup {p} ELSE open
  /\ IF call[c].opt.suppress THEN Continue(c, FALSE) ELSE Goto(c, "done")
  /\ IF AwaitsWrite(c) THEN Disturb(Procs, {}) ELSE UNCHANGED disturbed
  /\ UNCHANGED <<hasL2, l1, busVars>>

(* The break duration of p is over. *)
CloseBreaker(p) ==
  /\ p \in open
  /\ open' = open \ {p}
  /\ UNCHANGED <<hasL2, l1, l2, busVars, call, failures, disturbed>>

(* get copies what it read to L1, an expired entry if grace is enabled.    *)
Fill(c) ==
  LET p == call[c].proc IN
  /\ call[c].pc = "item"
  /\ call[c].kind \in {"get", "pull"}
  /\ Continue(c, TRUE)
  /\ IF call[c].item.valid \/ call[c].opt.grace
       THEN /\ WriteL1(p, call[c].item)
            /\ IF Overlaps(c, p) \/ call[c].item # l2
                 THEN Disturb({p}, {}) ELSE Disturb({}, {p})
       ELSE UNCHANGED <<l1, disturbed>>
  /\ UNCHANGED <<hasL2, l2, open, busVars, failures>>

(* Mutant of Notify: the call forgets to publish. *)
NotifyNobody(c) ==
  /\ call[c].pc = "publish"
  /\ Goto(c, "done")
  /\ UNCHANGED <<hasL2, l1, l2, open, busVars, failures, disturbed>>

Notify(c) ==
  /\ call[c].pc = "publish"
  /\ Publish(call[c].proc, call[c].kind)
  /\ Goto(c, "done")
  /\ Disturb(Procs \ subscribed, {})
  /\ UNCHANGED <<hasL2, l1, l2, open, subscribed>>

----------------------------------------------------------------------------
(* Processes restart.                                                      *)

(* A process dies with its L1, its calls, its retry queue and the messages *)
(* under way to it, and is back at once, not yet subscribed.               *)
Crash(p) ==
  LET mine == {c \in Calls : call[c].proc = p} IN
  /\ Fault
  /\ WriteL1(p, None)
  /\ open' = open \ {p}
  /\ subscribed' = subscribed \ {p}
  /\ inbox' = [inbox EXCEPT ![p] = [t \in MessageTypes |-> 0]]
  /\ outbox' = [outbox EXCEPT ![p] = {}]
  /\ call' = [c \in Calls |->
                IF c \notin mine THEN call[c]
                ELSE IF AwaitsWrite(c) THEN [call[c] EXCEPT !.pc = "orphan"] ELSE Done]
  /\ IF outbox[p] # {} \/ \E c \in mine : call[c].pc \in {"publish", "refused"}
       THEN Disturb(Procs \ {p}, {p}) ELSE Disturb({}, {p})
  /\ UNCHANGED <<hasL2, l2>>

(* L2 may still do the write a dead process asked for. *)
Orphan(c) ==
  /\ call[c].pc = "orphan"
  /\ l2' \in {l2, Written(c)}
  /\ Goto(c, "done")
  /\ Disturb(Procs, {})
  /\ UNCHANGED <<hasL2, l1, open, busVars, failures>>

(* The constructor of Bus does not wait for its subscription. *)
Subscribe(p) ==
  /\ p \notin subscribed
  /\ subscribed' = subscribed \cup {p}
  /\ UNCHANGED <<hasL2, l1, l2, open, inbox, outbox, call, failures, disturbed>>

Next ==
  \/ \E c \in Calls, p \in Procs, o \in Options :
       \/ Get(c, p, o) \/ Set(c, p, o) \/ Delete(c, p, o)
       \/ Expire(c, p, o) \/ Clear(c, p, o)
  \/ \E c \in Calls :
       \/ Refused(c) \/ WriteL2(c) \/ ReadL2(c) \/ FailL2(c) \/ Fill(c)
       \/ Notify(c) \/ Orphan(c)
  \/ \E p \in Procs :
       Retry(p) \/ OnMessage(p) \/ CloseBreaker(p) \/ Crash(p) \/ Subscribe(p)

Spec == Init /\ [][Next]_vars

----------------------------------------------------------------------------
(* Properties.                                                             *)

Quiet ==
  /\ \A c \in Calls : call[c].pc \in {"idle", "done"}
  /\ \A p \in Procs : outbox[p] = {} /\ \A t \in MessageTypes : inbox[p][t] = 0

(* The L1 of p agrees with L2; without an L2 no other process holds a      *)
(* valid entry.                                                            *)
Agrees(p) ==
  Valid(l1[p]) =>
    IF hasL2 THEN l1[p] = l2
    ELSE \A q \in Procs \ {p} : q \in disturbed \/ ~Valid(l1[q])

(* Once calls and messages are through, no process serves a value the      *)
(* others replaced, whatever the order of calls in different processes and *)
(* of their messages was, unless it was disturbed (cache_stack.ts:158-192, *)
(* bus.ts:78-103).                                                         *)
CoherentUnlessDisturbed ==
  Quiet => \A p \in Procs : p \in disturbed \/ Agrees(p)

(* Documented at cache.ts:294 and methods.md:247: clear removes the key    *)
(* everywhere.  Stated for processes that only read and clear.             *)
ClearRemovesAll ==
  (Quiet /\ failures = 0 /\ hasL2 /\ l2 = None) => \A p \in Procs : l1[p] = None
=============================================================================
