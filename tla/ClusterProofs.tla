--------------------------- MODULE ClusterProofs ---------------------------
(* The theorems of Cluster.  CoherentUnlessDisturbed speaks of states in   *)
(* which nothing is under way; it is made inductive by saying, of every    *)
(* state, why a process may still serve an entry L2 does not hold: a       *)
(* message is to come, or its own write is on its way to L2.               *)
EXTENDS Cluster, TLAPS

(* p would serve its entry, and answers for it. *)
Serves(p) == p \notin disturbed /\ Valid(l1[p])

(* A message for p is under way, or will be. *)
Awaited(p) ==
  \/ \E t \in MessageTypes : inbox[p][t] > 0
  \/ \E q \in Procs \ {p} : outbox[q] # {}
  \/ \E c \in Calls : call[c].pc = "publish" /\ call[c].proc # p

(* c is the set whose value p holds, and L2 has still to write it. *)
OwnWrite(c, p) ==
  /\ call[c].pc = "l2" /\ call[c].kind = "set" /\ call[c].proc = p
  /\ l1[p] = [ver |-> c, valid |-> TRUE]

Explained ==
  \A p \in Procs : Serves(p) =>
    IF hasL2
      THEN l1[p] = l2 \/ Awaited(p) \/ \E c \in Calls : OwnWrite(c, p)
      ELSE \A q \in Procs \ {p} : Serves(q) => Awaited(p) \/ Awaited(q)

(* While a call of p changes L2, p serves at most what that call set. *)
OwnWritesKept ==
  \A c \in Calls : ChangesL2(c) =>
    (Serves(call[c].proc) => OwnWrite(c, call[c].proc))

(* While a clear empties L2, the others have still to hear of it or hold   *)
(* nothing.                                                                *)
ClearAnnounced ==
  \A c \in Calls : call[c].pc = "l2" /\ call[c].kind = "clear" =>
    \A p \in Procs \ {call[c].proc} : Serves(p) =>
      inbox[p]["clear"] > 0 \/ "clear" \in outbox[call[c].proc]

(* Without an L2 nobody waits for it. *)
NoL2Calls ==
  hasL2 \/ \A c \in Calls : call[c].pc \in {"idle", "pulled", "publish", "done"}

IInv == TypeOK /\ NoL2Calls /\ OwnWritesKept /\ ClearAnnounced /\ Explained

----------------------------------------------------------------------------
(* Calls.                                                                  *)

LEMMA RunningFields ==
  ASSUME TypeOK, NEW c \in Calls, call[c].pc \notin {"idle", "done"}
  PROVE  /\ call[c] \in Running
         /\ call[c].proc \in Procs
         /\ call[c].kind \in {"get", "pull", "set", "delete", "expire", "clear"}
         /\ call[c].opt \in Options
         /\ call[c].item \in Entries \cup {None}
         /\ call[c].pc = "publish" => call[c].kind \in MessageTypes
BY ClusterAssumption DEF TypeOK, Running, Frames, Idle, Done

(* What Goto leaves of a call, and of the others. *)
LEMMA GotoFacts ==
  ASSUME TypeOK, NEW c \in Calls, NEW stage, Goto(c, stage),
         call[c].pc \notin {"idle", "done"},
         stage \in {"l2", "refused", "item", "pulled", "publish", "orphan", "done"},
         stage = "publish" => call[c].kind \in MessageTypes
  PROVE  /\ call' \in [Calls -> Running \cup {Idle, Done}]
         /\ \A d \in Calls \ {c} : call'[d] = call[d]
         /\ call'[c].pc = stage
         /\ stage = "done" => call'[c] = Done
         /\ stage # "done" => /\ call'[c].proc = call[c].proc
                              /\ call'[c].kind = call[c].kind
<1>1. call \in [Calls -> Running \cup {Idle, Done}] /\ call[c] \in Running
  BY RunningFields DEF TypeOK
<1>2. CASE stage = "done"
  BY <1>1, <1>2 DEF Goto, Done, Idle
<1>3. CASE stage # "done"
  <2>1. call' = [call EXCEPT ![c] = [call[c] EXCEPT !.pc = stage]]
    BY <1>1, <1>3 DEF Goto
  <2>2. [call[c] EXCEPT !.pc = stage] \in Running
    BY <1>1, <1>3 DEF Running, Frames
  <2>3. QED
    BY <1>1, <1>3, <2>1, <2>2 DEF Running, Frames
<1>4. QED
  BY <1>2, <1>3

(* Continue is a Goto to publish, pulled or done. *)
LEMMA ContinueIsGoto ==
  ASSUME NEW c \in Calls, NEW ok \in BOOLEAN, Continue(c, ok)
  PROVE  \E stage \in {"publish", "pulled", "done"} :
           /\ Goto(c, stage)
           /\ stage = "pulled" => call[c].kind = "pull"
           /\ stage = "publish" => call[c].kind \in {"set", "delete", "expire"}
           /\ call[c].kind \in {"delete", "expire"} => stage = "publish"
           /\ call[c].kind = "set" /\ ok /\ ~call[c].opt.quiet => stage = "publish"
<1>1. CASE call[c].kind = "set"
  BY <1>1 DEF Continue
<1>2. CASE call[c].kind \in {"delete", "expire"}
  BY <1>2 DEF Continue
<1>3. CASE call[c].kind = "pull"
  BY <1>3 DEF Continue
<1>4. CASE call[c].kind \notin {"set", "delete", "expire", "pull"}
  BY <1>4 DEF Continue
<1>5. QED
  BY <1>1, <1>2, <1>3, <1>4

(* What a call becomes when it begins. *)
LEMMA BeginFacts ==
  ASSUME TypeOK, NEW c \in Calls, NEW p \in Procs, NEW kind, NEW o \in Options,
         NEW stage, Begin(c, p, kind, o, stage),
         stage \in {"l2", "refused", "pulled", "publish", "done"},
         stage = "publish" => kind \in MessageTypes
  PROVE  /\ call' \in [Calls -> Running \cup {Idle, Done}]
         /\ \A d \in Calls \ {c} : call'[d] = call[d]
         /\ call[c].pc = "idle" /\ call'[c].pc = stage
         /\ stage # "done" => call'[c].proc = p /\ call'[c].kind = kind
<1>1. call \in [Calls -> Running \cup {Idle, Done}] /\ kind \in Kinds
  BY DEF TypeOK, Begin
<1>2. CASE stage = "done"
  BY <1>1, <1>2 DEF Begin, Done, Idle
<1>3. CASE stage # "done"
  <2> DEFINE new == [pc |-> stage, proc |-> p, kind |-> kind, opt |-> o, item |-> None]
  <2>1. call' = [call EXCEPT ![c] = new]
    BY <1>3 DEF Begin
  <2>2. new \in Running
    BY <1>1, <1>3 DEF Running, Frames
  <2>3. QED
    BY <1>1, <1>3, <2>1, <2>2 DEF Begin
<1>4. QED
  BY <1>2, <1>3

LEMMA DeliverFacts ==
  ASSUME TypeOK, NEW p \in Procs, NEW t \in MessageTypes, Deliver(p, t)
  PROVE  /\ inbox' \in [Procs -> [MessageTypes -> Nat]]
         /\ \A q \in Procs, u \in MessageTypes : inbox'[q][u] >= inbox[q][u]
         /\ \A q \in Procs \ {p} : q \in subscribed => inbox'[q][t] > 0
<1>1. inbox \in [Procs -> [MessageTypes -> Nat]]
  BY DEF TypeOK
<1> DEFINE more(q) == IF q # p /\ q \in subscribed THEN [inbox[q] EXCEPT ![t] = @ + 1]
                      ELSE inbox[q]
<1>2. inbox' = [q \in Procs |-> more(q)]
  BY DEF Deliver
<1>3. ASSUME NEW q \in Procs
      PROVE  /\ more(q) \in [MessageTypes -> Nat]
             /\ \A u \in MessageTypes : more(q)[u] >= inbox[q][u]
             /\ q # p /\ q \in subscribed => more(q)[t] > 0
  <2>1. inbox[q] \in [MessageTypes -> Nat]
    BY <1>1
  <2>2. CASE q # p /\ q \in subscribed
    <3>1. more(q) = [inbox[q] EXCEPT ![t] = @ + 1]
      BY <2>2
    <3>2. \A u \in MessageTypes : more(q)[u] = IF u = t THEN inbox[q][u] + 1 ELSE inbox[q][u]
      BY <2>1, <3>1
    <3>3. QED
      BY <2>1, <3>1, <3>2
  <2>3. CASE ~(q # p /\ q \in subscribed)
    BY <2>1, <2>3
  <2>4. QED
    BY <2>2, <2>3
<1> HIDE DEF more
<1>4. QED
  BY <1>2, <1>3

LEMMA PublishFacts ==
  ASSUME TypeOK, NEW p \in Procs, NEW t \in MessageTypes, Publish(p, t)
  PROVE  /\ inbox' \in [Procs -> [MessageTypes -> Nat]]
         /\ outbox' \in [Procs -> SUBSET MessageTypes]
         /\ failures' \in 0..MaxFailures
         /\ \A q \in Procs, u \in MessageTypes : inbox'[q][u] >= inbox[q][u]
         /\ \A q \in Procs : outbox[q] \subseteq outbox'[q]
         /\ \A q \in Procs \ {p} : q \in subscribed =>
              inbox'[q][t] > 0 \/ t \in outbox'[p]
<1>1. /\ inbox \in [Procs -> [MessageTypes -> Nat]]
      /\ outbox \in [Procs -> SUBSET MessageTypes]
      /\ failures \in 0..MaxFailures
  BY DEF TypeOK
<1>2. CASE Deliver(p, t) /\ UNCHANGED <<outbox, failures>>
  BY <1>1, <1>2, DeliverFacts
<1>3. CASE /\ Fault
           /\ outbox' = [outbox EXCEPT ![p] = @ \cup {t}]
           /\ UNCHANGED inbox
  <2>1. failures' \in 0..MaxFailures
    BY <1>1, <1>3, ClusterAssumption DEF Fault
  <2>2. \A q \in Procs, u \in MessageTypes : inbox[q][u] \in Nat
    BY <1>1
  <2>3. outbox' \in [Procs -> SUBSET MessageTypes] /\ t \in outbox'[p]
        /\ \A q \in Procs : outbox[q] \subseteq outbox'[q]
    BY <1>1, <1>3
  <2>4. QED
    BY <1>1, <1>3, <2>1, <2>2, <2>3
<1>4. QED
  BY <1>2, <1>3 DEF Publish

----------------------------------------------------------------------------
(* Types.                                                                  *)

LEMMA WriteL1Facts ==
  ASSUME TypeOK, NEW p \in Procs, NEW e \in Entries \cup {None}, WriteL1(p, e)
  PROVE  /\ l1' \in [Procs -> Entries \cup {None}]
         /\ l1'[p] = e
         /\ \A q \in Procs \ {p} : l1'[q] = l1[q]
BY DEF TypeOK, WriteL1

LEMMA ExpiredFacts ==
  ASSUME NEW e \in Entries \cup {None}
  PROVE  Expired(e) \in Entries \cup {None} /\ ~Valid(Expired(e))
<1>1. CASE e = None
  BY <1>1 DEF Expired, Valid
<1>2. CASE e # None
  <2>1. e \in Entries /\ Expired(e) = [e EXCEPT !.valid = FALSE]
    BY <1>2 DEF Expired
  <2>2. QED
    BY <2>1 DEF Entries, Valid
<1>3. QED
  BY <1>1, <1>2

LEMMA WrittenType ==
  ASSUME TypeOK, NEW c \in Calls, call[c].pc \notin {"idle", "done"}
  PROVE  Written(c) \in Entries \cup {None}
<1>1. call[c].item \in Entries \cup {None}
  BY RunningFields
<1>2. CASE call[c].kind = "set"
  BY <1>2 DEF Written, Entries
<1>3. CASE call[c].kind = "expire"
  BY <1>1, <1>3, ExpiredFacts DEF Written
<1>4. CASE call[c].kind \notin {"set", "expire"}
  BY <1>4 DEF Written
<1>5. QED
  BY <1>2, <1>3, <1>4

LEMMA ContinueType ==
  ASSUME TypeOK, NEW c \in Calls, call[c].pc \notin {"idle", "done"},
         NEW ok \in BOOLEAN, Continue(c, ok)
  PROVE  call' \in [Calls -> Running \cup {Idle, Done}]
BY ContinueIsGoto, GotoFacts DEF MessageTypes

LEMMA ReadFacts ==
  ASSUME TypeOK, NEW c \in Calls, ReadL2(c)
  PROVE  /\ call' \in [Calls -> Running \cup {Idle, Done}]
         /\ \A d \in Calls \ {c} : call'[d] = call[d]
         /\ call'[c].pc \in {"item", "publish", "pulled", "done"}
         /\ call'[c].pc = "item" =>
              call'[c].proc = call[c].proc /\ call'[c].kind = call[c].kind
<1>1. call[c].pc = "l2"
  BY DEF ReadL2, AwaitsRead
<1>2. CASE l2 = None
  <2>1. Continue(c, TRUE)
    BY <1>2 DEF ReadL2
  <2>2. PICK stage \in {"publish", "pulled", "done"} :
          Goto(c, stage) /\ (stage = "publish" => call[c].kind \in MessageTypes)
    BY <2>1, ContinueIsGoto DEF MessageTypes
  <2>3. QED
    BY <1>1, <2>2, GotoFacts
<1>3. CASE l2 # None
  <2>1. call \in [Calls -> Running \cup {Idle, Done}] /\ call[c] \in Running
        /\ l2 \in Entries \cup {None}
    BY <1>1, RunningFields DEF TypeOK
  <2>2. call' = [call EXCEPT ![c].pc = "item", ![c].item = l2]
    BY <1>3 DEF ReadL2
  <2> DEFINE new == [call[c] EXCEPT !.pc = "item", !.item = l2]
  <2>3. call' = [call EXCEPT ![c] = new]
    BY <2>1, <2>2
  <2>4. new \in Running /\ new.pc = "item" /\ new.proc = call[c].proc
        /\ new.kind = call[c].kind
    BY <2>1 DEF Running, Frames
  <2> HIDE DEF new
  <2>5. QED
    BY <2>1, <2>3, <2>4
<1>4. QED
  BY <1>2, <1>3

LEMMA CrashFacts ==
  ASSUME TypeOK, NEW p \in Procs, Crash(p)
  PROVE  /\ call' \in [Calls -> Running \cup {Idle, Done}]
         /\ \A c \in Calls : call[c].proc # p => call'[c] = call[c]
         /\ \A c \in Calls : call[c].proc = p => call'[c].pc \in {"orphan", "done"}
         /\ \A c \in Calls : call[c].proc = p /\ call'[c].pc = "orphan" => AwaitsWrite(c)
<1>1. call \in [Calls -> Running \cup {Idle, Done}]
  BY DEF TypeOK
<1> DEFINE new(c) == IF c \notin {d \in Calls : call[d].proc = p} THEN call[c]
                     ELSE IF AwaitsWrite(c) THEN [call[c] EXCEPT !.pc = "orphan"]
                     ELSE Done
<1>2. call' = [c \in Calls |-> new(c)]
  BY DEF Crash
<1>3. ASSUME NEW c \in Calls
      PROVE  /\ new(c) \in Running \cup {Idle, Done}
             /\ call[c].proc # p => new(c) = call[c]
             /\ call[c].proc = p => new(c).pc \in {"orphan", "done"}
             /\ call[c].proc = p /\ new(c).pc = "orphan" => AwaitsWrite(c)
  <2>1. CASE call[c].proc # p
    BY <1>1, <2>1 DEF Running, Frames, Idle, Done
  <2>2. CASE call[c].proc = p /\ AwaitsWrite(c)
    <3>1. call[c] \in Running /\ call[c].pc \in {"l2", "item"}
      BY <2>2, RunningFields DEF AwaitsWrite
    <3>2. new(c) = [call[c] EXCEPT !.pc = "orphan"]
      BY <2>2
    <3>3. QED
      BY <2>2, <3>1, <3>2 DEF Running, Frames
  <2>3. CASE call[c].proc = p /\ ~AwaitsWrite(c)
    <3>1. new(c) = Done
      BY <2>3
    <3>2. QED
      BY <2>3, <3>1 DEF Done, Idle
  <2>4. QED
    BY <2>1, <2>2, <2>3
<1> HIDE DEF new
<1>4. QED
  BY <1>2, <1>3

LEMMA CallStepType ==
  ASSUME TypeOK, NEW c \in Calls, NEW p \in Procs, NEW o \in Options,
         Get(c, p, o) \/ Set(c, p, o) \/ Delete(c, p, o) \/ Expire(c, p, o)
           \/ Clear(c, p, o)
  PROVE  TypeOK'
<1>1. CASE Get(c, p, o)
  <2>1. call' \in [Calls -> Running \cup {Idle, Done}]
    BY <1>1, BeginFacts DEF Get, ToL2
  <2>2. QED
    BY <1>1, <2>1 DEF Get, TypeOK, busVars
<1>2. CASE Set(c, p, o)
  <2>1. call' \in [Calls -> Running \cup {Idle, Done}]
    BY <1>2, BeginFacts DEF Set, ToL2, MessageTypes
  <2>2. [ver |-> c, valid |-> TRUE] \in Entries \cup {None}
    BY DEF Entries
  <2>3. l1' \in [Procs -> Entries \cup {None}]
    BY <1>2, <2>2, WriteL1Facts DEF Set
  <2>4. disturbed' \in SUBSET Procs
    BY <1>2 DEF Set, Disturb, TypeOK
  <2>5. QED
    BY <1>2, <2>1, <2>3, <2>4 DEF Set, TypeOK, busVars
<1>3. CASE Delete(c, p, o)
  <2> DEFINE stage == IF hasL2 THEN ToL2(p) ELSE "publish"
  <2>1. call' \in [Calls -> Running \cup {Idle, Done}]
    <3>1. stage \in {"l2", "refused", "publish"}
      BY DEF ToL2
    <3>2. CASE Begin(c, p, "delete", o, stage)
      BY <3>1, <3>2, BeginFacts DEF MessageTypes
    <3>3. CASE ~Begin(c, p, "delete", o, stage)
      <4> HIDE DEF stage
      <4>1. call[c].pc = "pulled"
            /\ call' = [call EXCEPT ![c] = [@ EXCEPT !.pc = stage, !.kind = "delete",
                                                     !.item = None]]
        BY <1>3, <3>3 DEF Delete, stage
      <4>2. call[c] \in Running /\ call \in [Calls -> Running \cup {Idle, Done}]
        BY <4>1, RunningFields DEF TypeOK
      <4>3. [call[c] EXCEPT !.pc = stage, !.kind = "delete", !.item = None] \in Running
        BY <3>1, <4>2 DEF Running, Frames, MessageTypes
      <4>4. QED
        BY <4>1, <4>2, <4>3
    <3>4. QED
      BY <3>2, <3>3
  <2>2. l1' \in [Procs -> Entries \cup {None}]
    BY <1>3, WriteL1Facts DEF Delete
  <2>3. QED
    BY <1>3, <2>1, <2>2 DEF Delete, Disturb, TypeOK, busVars
<1>4. CASE Expire(c, p, o)
  <2>1. call' \in [Calls -> Running \cup {Idle, Done}]
    BY <1>4, BeginFacts DEF Expire, ToL2, MessageTypes
  <2>2. Expired(l1[p]) \in Entries \cup {None}
    BY ExpiredFacts DEF TypeOK
  <2>3. l1' \in [Procs -> Entries \cup {None}]
    BY <1>4, <2>2, WriteL1Facts DEF Expire
  <2>4. QED
    BY <1>4, <2>1, <2>3 DEF Expire, Disturb, TypeOK, busVars
<1>5. CASE Clear(c, p, o)
  <2>1. call' \in [Calls -> Running \cup {Idle, Done}]
    BY <1>5, BeginFacts DEF Clear, ToL2
  <2>2. l1' \in [Procs -> Entries \cup {None}]
    BY <1>5, WriteL1Facts DEF Clear
  <2>3. /\ inbox' \in [Procs -> [MessageTypes -> Nat]]
        /\ outbox' \in [Procs -> SUBSET MessageTypes]
        /\ failures' \in 0..MaxFailures
    BY <1>5, PublishFacts DEF Clear, MessageTypes
  <2>4. QED
    BY <1>5, <2>1, <2>2, <2>3 DEF Clear, Disturb, TypeOK
<1>6. QED
  BY <1>1, <1>2, <1>3, <1>4, <1>5

LEMMA AnswerStepType ==
  ASSUME TypeOK, NEW c \in Calls,
         Refused(c) \/ WriteL2(c) \/ ReadL2(c) \/ FailL2(c) \/ Fill(c)
           \/ Notify(c) \/ Orphan(c)
  PROVE  TypeOK'
<1>1. CASE Refused(c)
  BY <1>1, ContinueType DEF Refused, TypeOK, busVars
<1>2. CASE WriteL2(c)
  <2>1. call[c].pc \notin {"idle", "done"}
    BY <1>2 DEF WriteL2, AwaitsWrite
  <2>2. call' \in [Calls -> Running \cup {Idle, Done}]
    BY <1>2, <2>1, ContinueType DEF WriteL2
  <2>3. l2' \in Entries \cup {None}
    BY <1>2, <2>1, WrittenType DEF WriteL2
  <2>4. disturbed' \in SUBSET Procs
    BY <1>2 DEF WriteL2, Disturb, TypeOK
  <2>5. QED
    BY <1>2, <2>2, <2>3, <2>4 DEF WriteL2, TypeOK, busVars
<1>3. CASE ReadL2(c)
  BY <1>3, ReadFacts DEF ReadL2, TypeOK, busVars
<1>4. CASE FailL2(c)
  <2>1. call[c].pc \notin {"idle", "done"}
    BY <1>4 DEF FailL2, AwaitsWrite, AwaitsRead
  <2>2. call' \in [Calls -> Running \cup {Idle, Done}]
    <3>1. CASE Continue(c, FALSE)
      BY <2>1, <3>1, ContinueType
    <3>2. CASE Goto(c, "done")
      BY <2>1, <3>2, GotoFacts
    <3>3. QED
      BY <1>4, <3>1, <3>2 DEF FailL2
  <2>3. l2' \in Entries \cup {None} /\ l2 \in Entries \cup {None}
    BY <1>4, <2>1, WrittenType DEF FailL2, TypeOK
  <2>4. disturbed' \in SUBSET Procs /\ open' \in SUBSET Procs
    BY <1>4, <2>1, RunningFields DEF FailL2, Disturb, TypeOK
  <2>5. failures' \in 0..MaxFailures
    BY <1>4, ClusterAssumption DEF FailL2, Fault, TypeOK
  <2>6. QED
    BY <1>4, <2>2, <2>3, <2>4, <2>5 DEF FailL2, TypeOK, busVars
<1>5. CASE Fill(c)
  <2>1. call[c].pc \notin {"idle", "done"} /\ call[c].proc \in Procs
        /\ call[c].item \in Entries \cup {None}
    BY <1>5, RunningFields DEF Fill
  <2>2. call' \in [Calls -> Running \cup {Idle, Done}]
    BY <1>5, <2>1, ContinueType DEF Fill
  <2>3. l1' \in [Procs -> Entries \cup {None}]
    BY <1>5, <2>1, WriteL1Facts DEF Fill, TypeOK
  <2>4. disturbed' \in SUBSET Procs
    BY <1>5, <2>1 DEF Fill, Disturb, TypeOK
  <2>5. QED
    BY <1>5, <2>2, <2>3, <2>4 DEF Fill, TypeOK, busVars
<1>6. CASE Notify(c)
  <2>1. call[c].pc = "publish" /\ call[c].proc \in Procs
    BY <1>6, RunningFields DEF Notify
  <2>2. call' \in [Calls -> Running \cup {Idle, Done}]
    BY <1>6, <2>1, GotoFacts DEF Notify
  <2>3. /\ inbox' \in [Procs -> [MessageTypes -> Nat]]
        /\ outbox' \in [Procs -> SUBSET MessageTypes]
        /\ failures' \in 0..MaxFailures
    BY <1>6, <2>1, RunningFields, PublishFacts DEF Notify
  <2>4. QED
    BY <1>6, <2>2, <2>3 DEF Notify, Disturb, TypeOK
<1>7. CASE Orphan(c)
  <2>1. call' \in [Calls -> Running \cup {Idle, Done}]
    BY <1>7, GotoFacts DEF Orphan
  <2>2. l2' \in Entries \cup {None}
    BY <1>7, WrittenType DEF Orphan, TypeOK
  <2>3. QED
    BY <1>7, <2>1, <2>2 DEF Orphan, Disturb, TypeOK, busVars
<1>8. QED
  BY <1>1, <1>2, <1>3, <1>4, <1>5, <1>6, <1>7

LEMMA ProcessStepType ==
  ASSUME TypeOK, NEW p \in Procs,
         Retry(p) \/ OnMessage(p) \/ CloseBreaker(p) \/ Crash(p) \/ Subscribe(p)
  PROVE  TypeOK'
<1>1. CASE Retry(p)
  <2>1. PICK t \in outbox[p] : /\ Deliver(p, t)
                               /\ outbox' = [outbox EXCEPT ![p] = @ \ {t}]
    BY <1>1 DEF Retry
  <2>2. t \in MessageTypes
    BY <2>1 DEF TypeOK
  <2>3. inbox' \in [Procs -> [MessageTypes -> Nat]]
    BY <2>1, <2>2, DeliverFacts
  <2>4. outbox' \in [Procs -> SUBSET MessageTypes]
    BY <2>1 DEF TypeOK
  <2>5. QED
    BY <1>1, <2>3, <2>4 DEF Retry, Disturb, TypeOK
<1>2. CASE OnMessage(p)
  <2>1. PICK t \in MessageTypes :
          /\ inbox[p][t] > 0
          /\ inbox' = [inbox EXCEPT ![p][t] = @ - 1]
          /\ WriteL1(p, IF t \in {"set", "expire"} THEN Expired(l1[p]) ELSE None)
    BY <1>2 DEF OnMessage
  <2>2. Expired(l1[p]) \in Entries \cup {None}
    BY ExpiredFacts DEF TypeOK
  <2>3. l1' \in [Procs -> Entries \cup {None}]
    BY <2>1, <2>2, WriteL1Facts
  <2>4. inbox' \in [Procs -> [MessageTypes -> Nat]]
    BY <2>1 DEF TypeOK
  <2>5. QED
    BY <1>2, <2>3, <2>4 DEF OnMessage, Disturb, TypeOK
<1>3. CASE CloseBreaker(p)
  BY <1>3 DEF CloseBreaker, TypeOK, busVars
<1>4. CASE Crash(p)
  <2>1. call' \in [Calls -> Running \cup {Idle, Done}]
    BY <1>4, CrashFacts
  <2>2. l1' \in [Procs -> Entries \cup {None}]
    BY <1>4, WriteL1Facts DEF Crash
  <2>3. inbox' \in [Procs -> [MessageTypes -> Nat]]
    BY <1>4 DEF Crash, TypeOK
  <2>4. failures' \in 0..MaxFailures
    BY <1>4, ClusterAssumption DEF Crash, Fault, TypeOK
  <2>5. disturbed' \in SUBSET Procs
    BY <1>4 DEF Crash, Disturb, TypeOK
  <2>6. QED
    BY <1>4, <2>1, <2>2, <2>3, <2>4, <2>5 DEF Crash, TypeOK
<1>5. CASE Subscribe(p)
  BY <1>5 DEF Subscribe, TypeOK
<1>6. QED
  BY <1>1, <1>2, <1>3, <1>4, <1>5

LEMMA TypeStep == TypeOK /\ [Next]_vars => TypeOK'
<1> SUFFICES ASSUME TypeOK, [Next]_vars PROVE TypeOK'
  OBVIOUS
<1>1. CASE Next
  BY <1>1, CallStepType, AnswerStepType, ProcessStepType DEF Next
<1>2. CASE UNCHANGED vars
  BY <1>2 DEF vars, busVars, TypeOK
<1>3. QED
  BY <1>1, <1>2

----------------------------------------------------------------------------
(* Steps that leave both tiers alone, steps that write one L1, and         *)
(* failures.                                                               *)

(* The calls that matter to the invariant are as they were. *)
NoNewChange ==
  \A c \in Calls : ChangesL2(c)' =>
    ChangesL2(c) /\ call'[c].proc = call[c].proc /\ call'[c].kind = call[c].kind

SetsKept ==
  \A c \in Calls : call[c].pc = "l2" /\ call[c].kind = "set" => call'[c] = call[c]

LEMMA AwaitKept ==
  ASSUME IInv, TypeOK', NoL2Calls', ClearAnnounced',
         UNCHANGED <<hasL2, l1, l2>>, disturbed \subseteq disturbed',
         NoNewChange, SetsKept,
         \A p \in Procs : Serves(p)' /\ Awaited(p) => Awaited(p)'
  PROVE  IInv'
<1>1. \A p \in Procs : Serves(p)' => Serves(p)
  BY DEF Serves
<1>2. \A c \in Calls, p \in Procs : OwnWrite(c, p) => OwnWrite(c, p)'
  BY DEF OwnWrite, SetsKept
<1>3. OwnWritesKept'
  <2> SUFFICES ASSUME NEW c \in Calls, ChangesL2(c)', Serves(call[c].proc)'
               PROVE  OwnWrite(c, call[c].proc)'
    BY DEF OwnWritesKept
  <2>1. ChangesL2(c) /\ call'[c].proc = call[c].proc
    BY DEF NoNewChange
  <2>2. call[c].proc \in Procs
    BY <2>1, RunningFields DEF ChangesL2, IInv
  <2>3. OwnWrite(c, call[c].proc)
    BY <1>1, <2>1, <2>2 DEF IInv, OwnWritesKept
  <2>4. QED
    BY <1>2, <2>1, <2>2, <2>3
<1>4. Explained'
  <2> SUFFICES ASSUME NEW p \in Procs, Serves(p)'
               PROVE  (IF hasL2
                         THEN l1[p] = l2 \/ Awaited(p) \/ \E c \in Calls : OwnWrite(c, p)
                         ELSE \A q \in Procs \ {p} :
                                Serves(q) => Awaited(p) \/ Awaited(q))'
    BY DEF Explained
  <2>1. Serves(p) /\ (Awaited(p) => Awaited(p)')
    BY <1>1
  <2>2. CASE hasL2
    <3>1. l1[p] = l2 \/ Awaited(p) \/ \E c \in Calls : OwnWrite(c, p)
      BY <2>1, <2>2 DEF IInv, Explained
    <3>2. QED
      BY <1>2, <2>1, <2>2, <3>1
  <2>3. CASE ~hasL2
    <3> SUFFICES ASSUME NEW q \in Procs \ {p}, Serves(q)'
                 PROVE  Awaited(p)' \/ Awaited(q)'
      BY <2>3
    <3>1. Awaited(p) \/ Awaited(q)
      BY <1>1, <2>1, <2>3 DEF IInv, Explained
    <3>2. QED
      BY <2>1, <3>1
  <2>4. QED
    BY <2>2, <2>3
<1>5. QED
  BY <1>3, <1>4 DEF IInv

LEMMA LocalStep ==
  ASSUME IInv, TypeOK', NoL2Calls', ClearAnnounced', NEW p \in Procs,
         UNCHANGED <<hasL2, l2>>,
         \A q \in Procs \ {p} :
           /\ l1'[q] = l1[q]
           /\ q \in disturbed => q \in disturbed'
           /\ Serves(q)' /\ Awaited(q) => Awaited(q)',
         \A c \in Calls : call[c].proc # p /\ call[c].pc = "l2" => call'[c] = call[c],
         \A c \in Calls : ChangesL2(c)' /\ call'[c].proc # p => call'[c] = call[c],
         \A c \in Calls : ChangesL2(c)' /\ call'[c].proc = p /\ Serves(p)' =>
           OwnWrite(c, p)',
         Serves(p)' =>
           IF hasL2 THEN l1'[p] = l2 \/ \E c \in Calls : OwnWrite(c, p)'
           ELSE \A q \in Procs \ {p} : Awaited(q)'
  PROVE  IInv'
<1>1. \A q \in Procs \ {p} : Serves(q)' => Serves(q)
  BY DEF Serves
<1>2. \A c \in Calls, q \in Procs \ {p} : OwnWrite(c, q) => OwnWrite(c, q)'
  BY DEF OwnWrite
<1>3. OwnWritesKept'
  <2> SUFFICES ASSUME NEW c \in Calls, ChangesL2(c)', Serves(call[c].proc)'
               PROVE  OwnWrite(c, call[c].proc)'
    BY DEF OwnWritesKept
  <2>1. CASE call'[c].proc = p
    BY <2>1
  <2>2. CASE call'[c].proc # p
    <3>1. call'[c] = call[c] /\ ChangesL2(c)
      BY <2>2 DEF ChangesL2
    <3>2. call[c].proc \in Procs
      BY <3>1, RunningFields DEF ChangesL2, IInv
    <3>3. OwnWrite(c, call[c].proc)
      BY <1>1, <2>2, <3>1, <3>2 DEF IInv, OwnWritesKept
    <3>4. QED
      BY <1>2, <2>2, <3>1, <3>2, <3>3
  <2>3. QED
    BY <2>1, <2>2
<1>4. Explained'
  <2> SUFFICES ASSUME NEW q \in Procs, Serves(q)'
               PROVE  (IF hasL2
                         THEN l1[q] = l2 \/ Awaited(q) \/ \E c \in Calls : OwnWrite(c, q)
                         ELSE \A s \in Procs \ {q} :
                                Serves(s) => Awaited(q) \/ Awaited(s))'
    BY DEF Explained
  <2>1. CASE hasL2 /\ q = p
    BY <2>1
  <2>2. CASE hasL2 /\ q # p
    <3>1. l1[q] = l2 \/ Awaited(q) \/ \E c \in Calls : OwnWrite(c, q)
      BY <1>1, <2>2 DEF IInv, Explained
    <3>2. QED
      BY <1>2, <2>2, <3>1
  <2>3. CASE ~hasL2
    <3> SUFFICES ASSUME NEW s \in Procs \ {q}, Serves(s)'
                 PROVE  Awaited(q)' \/ Awaited(s)'
      BY <2>3
    <3>1. CASE q = p \/ s = p
      BY <2>3, <3>1
    <3>2. CASE q # p /\ s # p
      <4>1. Awaited(q) \/ Awaited(s)
        BY <1>1, <2>3, <3>2 DEF IInv, Explained
      <4>2. QED
        BY <3>2, <4>1
    <3>3. QED
      BY <3>1, <3>2
  <2>4. QED
    BY <2>1, <2>2, <2>3
<1>5. QED
  BY <1>3, <1>4 DEF IInv

LEMMA AllDisturbed ==
  ASSUME TypeOK', NoL2Calls', Procs \subseteq disturbed'
  PROVE  IInv'
<1>1. \A p \in Procs : ~Serves(p)'
  BY DEF Serves
<1>2. \A c \in Calls : ChangesL2(c)' => call'[c].proc \in Procs
  <2> SUFFICES ASSUME NEW c \in Calls, ChangesL2(c)' PROVE call'[c].proc \in Procs
    OBVIOUS
  <2>1. call'[c].pc \notin {"idle", "done"} /\ call'[c] \in Running \cup {Idle, Done}
    BY DEF ChangesL2, TypeOK
  <2>2. QED
    BY <2>1 DEF Running, Frames, Idle, Done
<1>3. OwnWritesKept'
  BY <1>1, <1>2 DEF OwnWritesKept
<1>4. ClearAnnounced' /\ Explained'
  BY <1>1 DEF ClearAnnounced, Explained
<1>5. QED
  BY <1>3, <1>4 DEF IInv

(* Clears under way stay announced when messages are only added. *)
LEMMA ClearsKept ==
  ASSUME TypeOK, ClearAnnounced,
         \A c \in Calls : call'[c].pc = "l2" /\ call'[c].kind = "clear" =>
           call'[c] = call[c],
         \A p \in Procs : Serves(p)' =>
           /\ Serves(p)
           /\ inbox[p]["clear"] > 0 => inbox'[p]["clear"] > 0
           /\ \A q \in Procs : "clear" \in outbox[q] =>
                "clear" \in outbox'[q] \/ p = q \/ inbox'[p]["clear"] > 0
  PROVE  ClearAnnounced'
<1> SUFFICES ASSUME NEW c \in Calls, call'[c].pc = "l2", call'[c].kind = "clear",
                    NEW p \in Procs \ {call'[c].proc}, Serves(p)'
             PROVE  inbox'[p]["clear"] > 0 \/ "clear" \in outbox'[call'[c].proc]
  BY DEF ClearAnnounced
<1>1. call'[c] = call[c] /\ Serves(p)
  OBVIOUS
<1>2. inbox[p]["clear"] > 0 \/ "clear" \in outbox[call[c].proc]
  BY <1>1 DEF ClearAnnounced
<1>3. call[c].proc \in Procs
  BY <1>1, RunningFields
<1>4. QED
  BY <1>1, <1>2, <1>3

----------------------------------------------------------------------------
(* Every action keeps the invariant.                                       *)

LEMMA GetStep ==
  ASSUME IInv, NEW c \in Calls, NEW p \in Procs, NEW o \in Options, Get(c, p, o)
  PROVE  IInv'
<1>1. TypeOK /\ TypeOK'
  BY CallStepType DEF IInv
<1>2. PICK stage \in {"l2", "refused", "pulled", "done"}, kind \in {"get", "pull"} :
        /\ Begin(c, p, kind, o, stage)
        /\ ~hasL2 => stage \in {"pulled", "done"}
  BY DEF Get, ToL2
<1>3. /\ \A d \in Calls \ {c} : call'[d] = call[d]
      /\ call[c].pc = "idle" /\ call'[c].pc = stage
      /\ stage # "done" => call'[c].kind = kind
  BY <1>1, <1>2, BeginFacts
<1>4. UNCHANGED <<hasL2, l1, l2, disturbed, inbox, outbox>>
  BY DEF Get, busVars
<1>5. NoL2Calls'
  BY <1>2, <1>3, <1>4 DEF IInv, NoL2Calls
<1>6. ClearAnnounced'
  <2>1. \A q \in Procs : Serves(q)' => Serves(q)
    BY <1>4 DEF Serves
  <2>2. QED
    BY <1>1, <1>3, <1>4, <2>1, ClearsKept DEF IInv
<1>7. NoNewChange /\ SetsKept
  BY <1>2, <1>3 DEF NoNewChange, SetsKept, ChangesL2
<1>8. \A q \in Procs : Awaited(q) => Awaited(q)'
  BY <1>3, <1>4 DEF Awaited
<1>9. QED
  BY <1>1, <1>4, <1>5, <1>6, <1>7, <1>8, AwaitKept

LEMMA SetStep ==
  ASSUME IInv, NEW c \in Calls, NEW p \in Procs, NEW o \in Options, Set(c, p, o)
  PROVE  IInv'
<1>1. TypeOK /\ TypeOK'
  BY CallStepType DEF IInv
<1>2. PICK stage \in {"l2", "refused", "publish", "done"} :
        /\ Begin(c, p, "set", o, stage)
        /\ stage = IF hasL2 /\ ~o.skipL2 THEN ToL2(p)
                   ELSE IF hasL2 \/ o.quiet THEN "done" ELSE "publish"
  BY DEF Set, ToL2
<1>3. /\ \A d \in Calls \ {c} : call'[d] = call[d]
      /\ call[c].pc = "idle" /\ call'[c].pc = stage
      /\ stage # "done" => call'[c].proc = p /\ call'[c].kind = "set"
  <2>1. "set" \in MessageTypes
    BY DEF MessageTypes
  <2>2. QED
    BY <1>1, <1>2, <2>1, BeginFacts
<1>4. UNCHANGED <<hasL2, l2, inbox, outbox>>
  BY DEF Set, busVars
<1>5. /\ l1'[p] = [ver |-> c, valid |-> TRUE]
      /\ \A q \in Procs \ {p} : l1'[q] = l1[q]
  BY <1>1, WriteL1Facts DEF Set, Entries
<1>6. /\ \A q \in Procs \ {p} : q \in disturbed => q \in disturbed'
      /\ p \notin disturbed' => /\ ~Overlaps(c, p)
                                /\ hasL2 => ~o.skipL2 /\ p \notin open
                                /\ ~hasL2 => ~o.quiet
  BY DEF Set, Disturb
<1>7. NoL2Calls'
  BY <1>2, <1>3, <1>4 DEF IInv, NoL2Calls
<1>8. \A q \in Procs \ {p} : Serves(q)' => Serves(q)
  BY <1>5, <1>6 DEF Serves
<1>9. ClearAnnounced'
  <2> SUFFICES ASSUME NEW d \in Calls, call'[d].pc = "l2", call'[d].kind = "clear",
                      NEW q \in Procs \ {call'[d].proc}, Serves(q)'
               PROVE  inbox'[q]["clear"] > 0 \/ "clear" \in outbox'[call'[d].proc]
    BY DEF ClearAnnounced
  <2>1. d # c /\ call'[d] = call[d]
    BY <1>2, <1>3
  <2>2. CASE q = p
    <3>1. Overlaps(c, p)
      BY <2>1 DEF Overlaps, ChangesL2
    <3>2. QED
      BY <1>6, <2>2, <3>1 DEF Serves
  <2>3. CASE q # p
    BY <1>4, <1>8, <2>1, <2>3 DEF IInv, ClearAnnounced
  <2>4. QED
    BY <2>2, <2>3
<1>10. \A q \in Procs : Awaited(q) => Awaited(q)'
  BY <1>3, <1>4 DEF Awaited
<1>11. \A d \in Calls : ChangesL2(d)' /\ call'[d].proc = p /\ Serves(p)' => OwnWrite(d, p)'
  <2> SUFFICES ASSUME NEW d \in Calls, ChangesL2(d)', call'[d].proc = p, Serves(p)'
               PROVE  OwnWrite(d, p)'
    OBVIOUS
  <2>1. CASE d = c
    BY <1>2, <1>3, <1>5, <2>1 DEF ChangesL2, OwnWrite
  <2>2. CASE d # c
    <3>1. ChangesL2(d) /\ call[d].proc = p
      BY <1>3, <2>2 DEF ChangesL2
    <3>2. QED
      BY <1>6, <2>2, <3>1 DEF Overlaps, Serves
  <2>3. QED
    BY <2>1, <2>2
<1>12. Serves(p)' => IF hasL2 THEN l1'[p] = l2 \/ \E d \in Calls : OwnWrite(d, p)'
                     ELSE \A q \in Procs \ {p} : Awaited(q)'
  <2> SUFFICES ASSUME Serves(p)'
               PROVE  IF hasL2 THEN \E d \in Calls : OwnWrite(d, p)'
                      ELSE \A q \in Procs \ {p} : Awaited(q)'
    OBVIOUS
  <2>1. CASE hasL2
    <3>1. stage = "l2"
      BY <1>2, <1>6, <2>1 DEF Serves, ToL2
    <3>2. OwnWrite(c, p)'
      BY <1>3, <1>5, <3>1 DEF OwnWrite
    <3>3. QED
      BY <2>1, <3>2
  <2>2. CASE ~hasL2
    <3>1. stage = "publish"
      BY <1>2, <1>6, <2>2 DEF Serves
    <3>2. QED
      BY <1>3, <2>2, <3>1 DEF Awaited
  <2>3. QED
    BY <2>1, <2>2
<1>13. QED
  <2>1. \A d \in Calls : call[d].proc # p /\ call[d].pc = "l2" => call'[d] = call[d]
    BY <1>3
  <2>2. \A d \in Calls : ChangesL2(d)' /\ call'[d].proc # p => call'[d] = call[d]
    BY <1>3 DEF ChangesL2
  <2>3. QED
    BY <1>1, <1>4, <1>5, <1>6, <1>7, <1>9, <1>10, <1>11, <1>12, <2>1, <2>2, LocalStep

(* What delete, expire and clear have in common: p holds nothing valid.    *)
LEMMA RemovalStep ==
  ASSUME IInv, TypeOK', NoL2Calls', ClearAnnounced',
         NEW c \in Calls, NEW p \in Procs,
         UNCHANGED <<hasL2, l2>>, ~Valid(l1'[p]),
         \A q \in Procs \ {p} :
           /\ l1'[q] = l1[q]
           /\ q \in disturbed => q \in disturbed'
           /\ Serves(q)' /\ Awaited(q) => Awaited(q)',
         \A d \in Calls \ {c} : call'[d] = call[d],
         call[c].pc # "l2",
         call'[c].pc = "done" \/ call'[c].proc = p
  PROVE  IInv'
<1>1. ~Serves(p)'
  BY DEF Serves
<1>2. \A d \in Calls : ChangesL2(d)' /\ call'[d].proc # p => call'[d] = call[d]
  BY DEF ChangesL2
<1>3. \A d \in Calls : call[d].proc # p /\ call[d].pc = "l2" => call'[d] = call[d]
  OBVIOUS
<1>4. QED
  BY <1>1, <1>2, <1>3, LocalStep

LEMMA DeleteStep ==
  ASSUME IInv, NEW c \in Calls, NEW p \in Procs, NEW o \in Options, Delete(c, p, o)
  PROVE  IInv'
<1> DEFINE stage == IF hasL2 THEN ToL2(p) ELSE "publish"
<1>1. TypeOK /\ TypeOK'
  BY CallStepType DEF IInv
<1>2. stage \in {"l2", "refused", "publish"} /\ (~hasL2 => stage = "publish")
  BY DEF ToL2
<1>3. /\ \A d \in Calls \ {c} : call'[d] = call[d]
      /\ call[c].pc \in {"idle", "pulled"} /\ call'[c].pc = stage
      /\ call'[c].proc = p /\ call'[c].kind = "delete"
  <2>1. CASE Begin(c, p, "delete", o, stage)
    <3>1. "delete" \in MessageTypes
      BY DEF MessageTypes
    <3>2. QED
      BY <1>1, <1>2, <2>1, <3>1, BeginFacts
  <2>2. CASE ~Begin(c, p, "delete", o, stage)
    <3> HIDE DEF stage
    <3>1. /\ call[c].pc = "pulled" /\ p = call[c].proc
          /\ call' = [call EXCEPT ![c] = [@ EXCEPT !.pc = stage, !.kind = "delete",
                                                   !.item = None]]
      BY <2>2 DEF Delete, stage
    <3>2. call[c] \in Running /\ call \in [Calls -> Running \cup {Idle, Done}]
      BY <1>1, <3>1, RunningFields DEF TypeOK
    <3>3. QED
      BY <3>1, <3>2 DEF Running, Frames
  <2>3. QED
    BY <2>1, <2>2
<1> HIDE DEF stage
<1>4. UNCHANGED <<hasL2, l2, inbox, outbox>>
  BY DEF Delete, busVars
<1>5. /\ l1'[p] = None
      /\ \A q \in Procs \ {p} : l1'[q] = l1[q]
  BY <1>1, WriteL1Facts DEF Delete
<1>6. \A q \in Procs \ {p} : q \in disturbed => q \in disturbed'
  BY DEF Delete, Disturb
<1>7. NoL2Calls'
  BY <1>2, <1>3, <1>4 DEF IInv, NoL2Calls
<1>8. ClearAnnounced'
  <2>1. \A q \in Procs : Serves(q)' => Serves(q)
    BY <1>5, <1>6 DEF Serves, Valid
  <2>2. \A d \in Calls : call'[d].pc = "l2" /\ call'[d].kind = "clear" =>
          call'[d] = call[d]
    BY <1>3
  <2>3. QED
    BY <1>1, <1>4, <2>1, <2>2, ClearsKept DEF IInv
<1>9. \A q \in Procs : Awaited(q) => Awaited(q)'
  BY <1>3, <1>4 DEF Awaited
<1>10. ~Valid(l1'[p])
  BY <1>5 DEF Valid
<1>11. QED
  BY <1>1, <1>3, <1>4, <1>5, <1>6, <1>7, <1>8, <1>9, <1>10, RemovalStep

LEMMA ExpireStep ==
  ASSUME IInv, NEW c \in Calls, NEW p \in Procs, NEW o \in Options, Expire(c, p, o)
  PROVE  IInv'
<1>1. TypeOK /\ TypeOK'
  BY CallStepType DEF IInv
<1>2. PICK stage \in {"l2", "refused", "publish"} :
        Begin(c, p, "expire", o, stage) /\ (~hasL2 => stage = "publish")
  BY DEF Expire, ToL2
<1>3. /\ \A d \in Calls \ {c} : call'[d] = call[d]
      /\ call[c].pc = "idle" /\ call'[c].pc = stage
      /\ call'[c].proc = p /\ call'[c].kind = "expire"
  <2>1. "expire" \in MessageTypes
    BY DEF MessageTypes
  <2>2. QED
    BY <1>1, <1>2, <2>1, BeginFacts
<1>4. UNCHANGED <<hasL2, l2, inbox, outbox>>
  BY DEF Expire, busVars
<1>5. /\ ~Valid(l1'[p])
      /\ \A q \in Procs \ {p} : l1'[q] = l1[q]
  <2>1. l1[p] \in Entries \cup {None}
    BY <1>1 DEF TypeOK
  <2>2. QED
    BY <1>1, <2>1, ExpiredFacts, WriteL1Facts DEF Expire
<1>6. \A q \in Procs \ {p} : q \in disturbed => q \in disturbed'
  BY DEF Expire, Disturb
<1>7. NoL2Calls'
  BY <1>2, <1>3, <1>4 DEF IInv, NoL2Calls
<1>8. ClearAnnounced'
  <2>1. \A q \in Procs : Serves(q)' => Serves(q)
    BY <1>5, <1>6 DEF Serves
  <2>2. \A d \in Calls : call'[d].pc = "l2" /\ call'[d].kind = "clear" =>
          call'[d] = call[d]
    BY <1>3
  <2>3. QED
    BY <1>1, <1>4, <2>1, <2>2, ClearsKept DEF IInv
<1>9. \A q \in Procs : Awaited(q) => Awaited(q)'
  BY <1>3, <1>4 DEF Awaited
<1>10. QED
  BY <1>1, <1>3, <1>4, <1>5, <1>6, <1>7, <1>8, <1>9, RemovalStep

LEMMA ClearStep ==
  ASSUME IInv, NEW c \in Calls, NEW p \in Procs, NEW o \in Options, Clear(c, p, o)
  PROVE  IInv'
<1>1. TypeOK /\ TypeOK'
  BY CallStepType DEF IInv
<1>2. PICK stage \in {"l2", "refused", "done"} :
        Begin(c, p, "clear", o, stage) /\ (~hasL2 => stage = "done")
  BY DEF Clear, ToL2
<1>3. /\ \A d \in Calls \ {c} : call'[d] = call[d]
      /\ call[c].pc = "idle" /\ call'[c].pc = stage
      /\ stage # "done" => call'[c].proc = p /\ call'[c].kind = "clear"
  BY <1>1, <1>2, BeginFacts
<1>4. UNCHANGED <<hasL2, l2>>
  BY DEF Clear
<1>5. /\ ~Valid(l1'[p])
      /\ \A q \in Procs \ {p} : l1'[q] = l1[q]
  BY <1>1, WriteL1Facts DEF Clear, Valid
<1>6. /\ \A q \in Procs \ {p} : q \in disturbed => q \in disturbed'
      /\ \A q \in Procs \ {p} : q \notin disturbed' => q \in subscribed
  BY DEF Clear, Disturb
<1>7. /\ \A q \in Procs, u \in MessageTypes : inbox'[q][u] >= inbox[q][u]
      /\ \A q \in Procs : outbox[q] \subseteq outbox'[q]
      /\ \A q \in Procs \ {p} : q \in subscribed =>
           inbox'[q]["clear"] > 0 \/ "clear" \in outbox'[p]
  BY <1>1, PublishFacts DEF Clear, MessageTypes
<1>8. \A q \in Procs, u \in MessageTypes : inbox'[q][u] \in Nat /\ inbox[q][u] \in Nat
  BY <1>1 DEF TypeOK
<1>9. NoL2Calls'
  BY <1>2, <1>3, <1>4 DEF IInv, NoL2Calls
<1>10. \A q \in Procs : Serves(q)' => Serves(q) /\ q # p
  BY <1>5, <1>6 DEF Serves
<1>11. ClearAnnounced'
  <2> SUFFICES ASSUME NEW d \in Calls, call'[d].pc = "l2", call'[d].kind = "clear",
                      NEW q \in Procs \ {call'[d].proc}, Serves(q)'
               PROVE  inbox'[q]["clear"] > 0 \/ "clear" \in outbox'[call'[d].proc]
    BY DEF ClearAnnounced
  <2>1. CASE d = c
    BY <1>2, <1>3, <1>6, <1>7, <1>10, <2>1 DEF Serves
  <2>2. CASE d # c
    <3>1. call'[d] = call[d] /\ call[d].proc \in Procs
      BY <1>1, <1>3, <2>2, RunningFields
    <3>2. inbox[q]["clear"] > 0 \/ "clear" \in outbox[call[d].proc]
      BY <1>10, <3>1 DEF IInv, ClearAnnounced
    <3>3. QED
      BY <1>7, <1>8, <3>1, <3>2 DEF MessageTypes
  <2>3. QED
    BY <2>1, <2>2
<1>12. \A q \in Procs : Awaited(q) => Awaited(q)'
  <2>1. \A q \in Procs, u \in MessageTypes : inbox[q][u] > 0 => inbox'[q][u] > 0
    BY <1>7, <1>8
  <2>2. \A q \in Procs : outbox[q] # {} => outbox'[q] # {}
    BY <1>7
  <2>3. QED
    BY <1>3, <2>1, <2>2 DEF Awaited
<1>13. call'[c].pc = "done" \/ call'[c].proc = p
  BY <1>2, <1>3
<1>14. QED
  BY <1>1, <1>3, <1>4, <1>5, <1>6, <1>9, <1>11, <1>12, <1>13, RemovalStep

LEMMA ContinueFacts ==
  ASSUME TypeOK, NEW c \in Calls, call[c].pc \notin {"idle", "done"},
         NEW ok \in BOOLEAN, Continue(c, ok)
  PROVE  /\ \A d \in Calls \ {c} : call'[d] = call[d]
         /\ call'[c].pc \in {"publish", "pulled", "done"}
         /\ call'[c].pc = "publish" => call'[c].proc = call[c].proc
         /\ call[c].kind \in {"delete", "expire"} => call'[c].pc = "publish"
         /\ call[c].kind = "set" /\ ok /\ ~call[c].opt.quiet => call'[c].pc = "publish"
<1>1. PICK stage \in {"publish", "pulled", "done"} :
        /\ Goto(c, stage)
        /\ stage = "publish" => call[c].kind \in MessageTypes
        /\ call[c].kind \in {"delete", "expire"} => stage = "publish"
        /\ call[c].kind = "set" /\ ok /\ ~call[c].opt.quiet => stage = "publish"
  BY ContinueIsGoto DEF MessageTypes
<1>2. QED
  BY <1>1, GotoFacts

LEMMA RefusedStep ==
  ASSUME IInv, NEW c \in Calls, Refused(c)
  PROVE  IInv'
<1>1. TypeOK /\ TypeOK'
  BY AnswerStepType DEF IInv
<1>2. /\ call[c].pc = "refused" /\ Continue(c, FALSE)
      /\ UNCHANGED <<hasL2, l1, l2, inbox, outbox, disturbed>>
  BY DEF Refused, busVars
<1>3. /\ \A d \in Calls \ {c} : call'[d] = call[d]
      /\ call'[c].pc \in {"publish", "pulled", "done"}
  BY <1>1, <1>2, ContinueFacts
<1>4. NoL2Calls'
  BY <1>2, <1>3 DEF IInv, NoL2Calls
<1>5. ClearAnnounced'
  <2>1. \A q \in Procs : Serves(q)' => Serves(q)
    BY <1>2 DEF Serves
  <2>2. QED
    BY <1>1, <1>2, <1>3, <2>1, ClearsKept DEF IInv
<1>6. NoNewChange /\ SetsKept
  BY <1>2, <1>3 DEF NoNewChange, SetsKept, ChangesL2
<1>7. \A q \in Procs : Awaited(q) => Awaited(q)'
  BY <1>2, <1>3 DEF Awaited
<1>8. QED
  BY <1>1, <1>2, <1>4, <1>5, <1>6, <1>7, AwaitKept

LEMMA ReadStep ==
  ASSUME IInv, NEW c \in Calls, ReadL2(c)
  PROVE  IInv'
<1>1. TypeOK /\ TypeOK'
  BY AnswerStepType DEF IInv
<1>2. /\ call[c].pc = "l2" /\ call[c].kind \in {"get", "pull", "expire"}
      /\ UNCHANGED <<hasL2, l1, l2, inbox, outbox, disturbed>>
  BY DEF ReadL2, AwaitsRead, busVars
<1>3. /\ \A d \in Calls \ {c} : call'[d] = call[d]
      /\ call'[c].pc \in {"item", "publish", "pulled", "done"}
      /\ call'[c].pc = "item" =>
           call'[c].proc = call[c].proc /\ call'[c].kind = call[c].kind
  BY <1>1, ReadFacts
<1>4. NoL2Calls'
  BY <1>2, <1>3 DEF IInv, NoL2Calls
<1>5. ClearAnnounced'
  <2>1. \A q \in Procs : Serves(q)' => Serves(q)
    BY <1>2 DEF Serves
  <2>2. QED
    BY <1>1, <1>2, <1>3, <2>1, ClearsKept DEF IInv
<1>6. NoNewChange /\ SetsKept
  BY <1>2, <1>3 DEF NoNewChange, SetsKept, ChangesL2
<1>7. \A q \in Procs : Awaited(q) => Awaited(q)'
  BY <1>2, <1>3 DEF Awaited
<1>8. QED
  BY <1>1, <1>2, <1>4, <1>5, <1>6, <1>7, AwaitKept

(* The step that matters most: L2 changes under the eyes of every process. *)
LEMMA WriteStep ==
  ASSUME IInv, NEW c \in Calls, WriteL2(c)
  PROVE  IInv'
<1> DEFINE p == call[c].proc
<1>1. TypeOK /\ TypeOK'
  BY AnswerStepType DEF IInv
<1>2. /\ AwaitsWrite(c) /\ Continue(c, TRUE) /\ l2' = Written(c)
      /\ call[c].pc \notin {"idle", "pulled", "publish", "done"} /\ p \in Procs
      /\ UNCHANGED <<hasL2, l1, inbox, outbox>>
  BY <1>1, RunningFields DEF WriteL2, AwaitsWrite, busVars
<1>3. hasL2
  BY <1>2 DEF IInv, NoL2Calls
<1>4. /\ \A d \in Calls \ {c} : call'[d] = call[d]
      /\ call'[c].pc \in {"publish", "pulled", "done"}
      /\ call'[c].pc = "publish" => call'[c].proc = p
      /\ call[c].kind \in {"delete", "expire"} => call'[c].pc = "publish"
      /\ call[c].kind = "set" /\ ~call[c].opt.quiet => call'[c].pc = "publish"
  BY <1>1, <1>2, ContinueFacts
<1>5. /\ disturbed \subseteq disturbed'
      /\ call[c].kind = "set" /\ call[c].opt.quiet => Procs \ {p} \subseteq disturbed'
  BY DEF WriteL2, Disturb
<1> HIDE DEF p
<1>6. \A q \in Procs : Serves(q)' => Serves(q)
  BY <1>2, <1>5 DEF Serves
<1>7. NoL2Calls'
  BY <1>2, <1>3 DEF NoL2Calls
<1>8. ClearAnnounced'
  BY <1>1, <1>2, <1>4, <1>6, ClearsKept DEF IInv
<1>9. OwnWritesKept'
  <2> SUFFICES ASSUME NEW d \in Calls, ChangesL2(d)', Serves(call[d].proc)'
               PROVE  OwnWrite(d, call[d].proc)'
    BY DEF OwnWritesKept
  <2>1. d # c /\ call'[d] = call[d] /\ ChangesL2(d)
    BY <1>4 DEF ChangesL2
  <2>2. call[d].proc \in Procs
    BY <1>1, <2>1, RunningFields DEF ChangesL2
  <2>3. OwnWrite(d, call[d].proc)
    BY <1>6, <2>1, <2>2 DEF IInv, OwnWritesKept
  <2>4. QED
    BY <1>2, <2>1, <2>3 DEF OwnWrite
<1>10. Explained'
  <2> SUFFICES ASSUME NEW q \in Procs, Serves(q)'
               PROVE  (l1[q] = l2 \/ Awaited(q))'
    BY <1>2, <1>3 DEF Explained
  <2>1. CASE q = p
    <3>1. ChangesL2(c)
      BY <1>2 DEF AwaitsWrite, ChangesL2
    <3>2. OwnWrite(c, p)
      BY <1>2, <1>6, <2>1, <3>1 DEF IInv, OwnWritesKept, p
    <3>3. QED
      BY <1>2, <2>1, <3>2 DEF OwnWrite, Written
  <2>2. CASE q # p /\ call[c].kind = "clear"
    <3>1. call[c].pc = "l2"
      BY <1>2, <2>2 DEF AwaitsWrite
    <3>2. inbox[q]["clear"] > 0 \/ "clear" \in outbox[p]
      BY <1>6, <2>2, <3>1 DEF IInv, ClearAnnounced, p
    <3>3. QED
      BY <1>2, <2>2, <3>2 DEF Awaited, MessageTypes
  <2>3. CASE q # p /\ call[c].kind # "clear"
    <3>1. call[c].kind \in {"set", "delete", "expire"}
      BY <1>2, <2>3 DEF AwaitsWrite
    <3>2. call'[c].pc = "publish" /\ call'[c].proc = p
      BY <1>4, <1>5, <2>3, <3>1 DEF Serves
    <3>3. QED
      BY <2>3, <3>2 DEF Awaited
  <2>4. QED
    BY <2>1, <2>2, <2>3
<1>11. QED
  BY <1>1, <1>7, <1>8, <1>9, <1>10 DEF IInv

LEMMA FailStep ==
  ASSUME IInv, NEW c \in Calls, FailL2(c)
  PROVE  IInv'
<1>1. TypeOK /\ TypeOK'
  BY AnswerStepType DEF IInv
<1>2. /\ call[c].pc \in {"l2", "item"}
      /\ UNCHANGED <<hasL2, l1, inbox, outbox>>
  BY DEF FailL2, AwaitsWrite, AwaitsRead, busVars
<1>3. hasL2
  BY <1>2 DEF IInv, NoL2Calls
<1>4. NoL2Calls'
  BY <1>2, <1>3 DEF NoL2Calls
<1>5. CASE AwaitsWrite(c)
  BY <1>1, <1>4, <1>5, AllDisturbed DEF FailL2, Disturb
<1>6. CASE ~AwaitsWrite(c)
  <2>1. /\ UNCHANGED <<l2, disturbed>> /\ AwaitsRead(c)
        /\ Continue(c, FALSE) \/ Goto(c, "done")
    BY <1>6 DEF FailL2
  <2>2. /\ \A d \in Calls \ {c} : call'[d] = call[d]
        /\ call'[c].pc \in {"publish", "pulled", "done"}
    <3>1. CASE Continue(c, FALSE)
      BY <1>1, <1>2, <3>1, ContinueFacts
    <3>2. CASE Goto(c, "done")
      BY <1>1, <1>2, <3>2, GotoFacts
    <3>3. QED
      BY <2>1, <3>1, <3>2
  <2>3. ClearAnnounced'
    <3>1. \A q \in Procs : Serves(q)' => Serves(q)
      BY <1>2, <2>1 DEF Serves
    <3>2. QED
      BY <1>1, <1>2, <2>2, <3>1, ClearsKept DEF IInv
  <2>4. NoNewChange /\ SetsKept
    BY <2>1, <2>2 DEF NoNewChange, SetsKept, ChangesL2, AwaitsRead
  <2>5. \A q \in Procs : Awaited(q) => Awaited(q)'
    BY <1>2, <2>2 DEF Awaited
  <2>6. QED
    BY <1>1, <1>2, <1>4, <2>1, <2>3, <2>4, <2>5, AwaitKept
<1>7. QED
  BY <1>5, <1>6

LEMMA FillStep ==
  ASSUME IInv, NEW c \in Calls, Fill(c)
  PROVE  IInv'
<1>1. TypeOK /\ TypeOK'
  BY AnswerStepType DEF IInv
<1>2. /\ call[c].pc = "item" /\ call[c].kind \in {"get", "pull"}
      /\ Continue(c, TRUE) /\ UNCHANGED <<hasL2, l2, inbox, outbox>>
  BY DEF Fill, busVars
<1>3. hasL2 /\ call[c].proc \in Procs /\ call[c].item \in Entries \cup {None}
  BY <1>1, <1>2, RunningFields DEF IInv, NoL2Calls
<1>4. NoL2Calls'
  BY <1>2, <1>3 DEF NoL2Calls
<1>5. /\ \A d \in Calls \ {c} : call'[d] = call[d]
      /\ call'[c].pc \in {"publish", "pulled", "done"}
  BY <1>1, <1>2, ContinueFacts
<1>6. \A q \in Procs : Awaited(q) => Awaited(q)'
  BY <1>2, <1>5 DEF Awaited
<1>7. CASE UNCHANGED <<l1, disturbed>>
  <2>1. ClearAnnounced'
    <3>1. \A q \in Procs : Serves(q)' => Serves(q)
      BY <1>7 DEF Serves
    <3>2. QED
      BY <1>1, <1>2, <1>5, <3>1, ClearsKept DEF IInv
  <2>2. NoNewChange /\ SetsKept
    BY <1>2, <1>5 DEF NoNewChange, SetsKept, ChangesL2
  <2>3. QED
    BY <1>1, <1>2, <1>4, <1>6, <1>7, <2>1, <2>2, AwaitKept
<1>8. CASE ~UNCHANGED <<l1, disturbed>>
  <2>1. PICK p \in Procs :
          /\ WriteL1(p, call[c].item)
          /\ IF Overlaps(c, p) \/ call[c].item # l2
               THEN Disturb({p}, {}) ELSE Disturb({}, {p})
    BY <1>3, <1>8 DEF Fill
  <2>2. /\ l1'[p] = call[c].item
        /\ \A q \in Procs \ {p} : l1'[q] = l1[q]
    BY <1>1, <1>3, <2>1, WriteL1Facts
  <2>3. /\ \A q \in Procs \ {p} : q \in disturbed => q \in disturbed'
        /\ p \notin disturbed' => ~Overlaps(c, p) /\ call[c].item = l2
    BY <1>3, <2>1 DEF Disturb
  <2>4. \A q \in Procs \ {p} : Serves(q)' => Serves(q)
    BY <2>2, <2>3 DEF Serves
  <2>5. ClearAnnounced'
    <3> SUFFICES ASSUME NEW d \in Calls, call'[d].pc = "l2", call'[d].kind = "clear",
                        NEW q \in Procs \ {call'[d].proc}, Serves(q)'
                 PROVE  inbox'[q]["clear"] > 0 \/ "clear" \in outbox'[call'[d].proc]
      BY DEF ClearAnnounced
    <3>1. d # c /\ call'[d] = call[d]
      BY <1>5
    <3>2. CASE q = p
      <4>1. Overlaps(c, p)
        BY <3>1 DEF Overlaps, ChangesL2
      <4>2. QED
        BY <2>3, <3>2, <4>1 DEF Serves
    <3>3. CASE q # p
      BY <1>2, <2>4, <3>1, <3>3 DEF IInv, ClearAnnounced
    <3>4. QED
      BY <3>2, <3>3
  <2>6. ASSUME NEW d \in Calls, ChangesL2(d)'
        PROVE  d \in Calls \ {c} /\ call'[d] = call[d] /\ ChangesL2(d)
    <3>1. d # c
      BY <1>5, <2>6 DEF ChangesL2
    <3>2. QED
      BY <1>5, <2>6, <3>1 DEF ChangesL2
  <2>7. ASSUME NEW d \in Calls, ChangesL2(d)', call'[d].proc = p, Serves(p)'
        PROVE  OwnWrite(d, p)'
    <3>1. Overlaps(c, p)
      BY <2>6, <2>7 DEF Overlaps
    <3>2. QED
      BY <2>3, <2>7, <3>1 DEF Serves
  <2>8. Serves(p)' => l1'[p] = l2
    BY <2>2, <2>3 DEF Serves
  <2>9. \A d \in Calls : ChangesL2(d)' /\ call'[d].proc # p => call'[d] = call[d]
    BY <2>6
  <2>10. \A d \in Calls :
           ChangesL2(d)' /\ call'[d].proc = p /\ Serves(p)' => OwnWrite(d, p)'
    BY <2>7
  <2>11. \A q \in Procs \ {p} : q \in disturbed => q \in disturbed'
    BY <2>3
  <2>12. Serves(p)' => IF hasL2 THEN l1'[p] = l2 \/ \E d \in Calls : OwnWrite(d, p)'
                      ELSE \A q \in Procs \ {p} : Awaited(q)'
    BY <1>3, <2>8
  <2>13. \A d \in Calls : call[d].proc # p /\ call[d].pc = "l2" => call'[d] = call[d]
    BY <1>2, <1>5
  <2>14. hasL2' = hasL2 /\ l2' = l2
    BY <1>2
  <2>15. QED
    BY <1>1, <1>4, <1>6, <2>2, <2>5, <2>9, <2>10, <2>11, <2>12, <2>13, <2>14,
       LocalStep
<1>9. QED
  BY <1>7, <1>8

LEMMA NotifyStep ==
  ASSUME IInv, NEW c \in Calls, Notify(c)
  PROVE  IInv'
<1> DEFINE p == call[c].proc
           t == call[c].kind
<1>1. TypeOK /\ TypeOK'
  BY AnswerStepType DEF IInv
<1>2. /\ call[c].pc = "publish" /\ Goto(c, "done") /\ Publish(p, t)
      /\ p \in Procs /\ t \in MessageTypes
      /\ UNCHANGED <<hasL2, l1, l2>>
  BY <1>1, RunningFields DEF Notify
<1>3. /\ disturbed \subseteq disturbed'
      /\ \A q \in Procs : q \notin disturbed' => q \in subscribed
  BY DEF Notify, Disturb
<1> HIDE DEF p, t
<1>4. /\ \A d \in Calls \ {c} : call'[d] = call[d]
      /\ call'[c].pc = "done"
  BY <1>1, <1>2, GotoFacts
<1>5. /\ \A q \in Procs, u \in MessageTypes : inbox'[q][u] >= inbox[q][u]
      /\ \A q \in Procs : outbox[q] \subseteq outbox'[q]
      /\ \A q \in Procs \ {p} : q \in subscribed =>
           inbox'[q][t] > 0 \/ t \in outbox'[p]
  BY <1>1, <1>2, PublishFacts
<1>6. \A q \in Procs, u \in MessageTypes : inbox'[q][u] \in Nat /\ inbox[q][u] \in Nat
  BY <1>1 DEF TypeOK
<1>7. \A q \in Procs, u \in MessageTypes : inbox[q][u] > 0 => inbox'[q][u] > 0
  BY <1>5, <1>6
<1>8. \A q \in Procs : Serves(q)' => Serves(q)
  BY <1>2, <1>3 DEF Serves
<1>9. NoL2Calls'
  BY <1>2, <1>4 DEF IInv, NoL2Calls
<1>10. ClearAnnounced'
  <2>1. "clear" \in MessageTypes
    BY DEF MessageTypes
  <2>2. QED
    BY <1>1, <1>4, <1>5, <1>7, <1>8, <2>1, ClearsKept DEF IInv
<1>11. NoNewChange /\ SetsKept
  BY <1>2, <1>4 DEF NoNewChange, SetsKept, ChangesL2
<1>12. ASSUME NEW q \in Procs, Serves(q)', Awaited(q)
       PROVE  Awaited(q)'
  <2>1. CASE \E u \in MessageTypes : inbox[q][u] > 0
    BY <1>7, <2>1 DEF Awaited
  <2>2. CASE \E s \in Procs \ {q} : outbox[s] # {}
    <3>1. \A s \in Procs : outbox[s] # {} => outbox'[s] # {}
      BY <1>5
    <3>2. QED
      BY <2>2, <3>1 DEF Awaited
  <2>3. CASE q # p
    <3>1. inbox'[q][t] > 0 \/ t \in outbox'[p]
      BY <1>3, <1>5, <1>12, <2>3 DEF Serves
    <3>2. QED
      BY <1>2, <2>3, <3>1 DEF Awaited
  <2>4. CASE q = p /\ \E d \in Calls : call[d].pc = "publish" /\ call[d].proc # q
    BY <1>4, <2>4 DEF Awaited, p
  <2>5. QED
    BY <1>12, <2>1, <2>2, <2>3, <2>4 DEF Awaited
<1>13. QED
  BY <1>1, <1>2, <1>3, <1>9, <1>10, <1>11, <1>12, AwaitKept

LEMMA OrphanStep ==
  ASSUME IInv, NEW c \in Calls, Orphan(c)
  PROVE  IInv'
<1>1. TypeOK'
  BY AnswerStepType DEF IInv
<1>2. hasL2 /\ hasL2' = hasL2
  BY DEF Orphan, IInv, NoL2Calls
<1>3. NoL2Calls'
  BY <1>2 DEF NoL2Calls
<1>4. QED
  BY <1>1, <1>3, AllDisturbed DEF Orphan, Disturb

LEMMA RetryStep ==
  ASSUME IInv, NEW q \in Procs, Retry(q)
  PROVE  IInv'
<1>1. TypeOK /\ TypeOK'
  BY ProcessStepType DEF IInv
<1>2. PICK t \in outbox[q] : /\ Deliver(q, t)
                             /\ outbox' = [outbox EXCEPT ![q] = @ \ {t}]
  BY DEF Retry
<1>3. t \in MessageTypes /\ UNCHANGED <<hasL2, l1, l2, call>>
  BY <1>1 DEF Retry, TypeOK
<1>4. /\ disturbed \subseteq disturbed'
      /\ \A p \in Procs : p \notin disturbed' => p \in subscribed
  BY DEF Retry, Disturb
<1>5. /\ \A p \in Procs, u \in MessageTypes : inbox'[p][u] >= inbox[p][u]
      /\ \A p \in Procs \ {q} : p \in subscribed => inbox'[p][t] > 0
  BY <1>1, <1>2, <1>3, DeliverFacts
<1>6. \A p \in Procs, u \in MessageTypes : inbox'[p][u] \in Nat /\ inbox[p][u] \in Nat
  BY <1>1 DEF TypeOK
<1>7. \A p \in Procs, u \in MessageTypes : inbox[p][u] > 0 => inbox'[p][u] > 0
  BY <1>5, <1>6
<1>8. /\ \A s \in Procs \ {q} : outbox'[s] = outbox[s]
      /\ outbox'[q] = outbox[q] \ {t}
  BY <1>1, <1>2 DEF TypeOK
<1>9. ASSUME NEW p \in Procs, Serves(p)'
      PROVE  Serves(p) /\ (p # q => inbox'[p][t] > 0)
  BY <1>3, <1>4, <1>5, <1>9 DEF Serves
<1>10. NoL2Calls'
  BY <1>3 DEF IInv, NoL2Calls
<1>11. ClearAnnounced'
  <2>1. ASSUME NEW p \in Procs, Serves(p)', NEW s \in Procs, "clear" \in outbox[s]
        PROVE  "clear" \in outbox'[s] \/ p = s \/ inbox'[p]["clear"] > 0
    BY <1>8, <1>9, <2>1
  <2>2. \A p \in Procs : inbox[p]["clear"] > 0 => inbox'[p]["clear"] > 0
    BY <1>7 DEF MessageTypes
  <2>3. QED
    BY <1>1, <1>3, <1>9, <2>1, <2>2, ClearsKept DEF IInv
<1>12. NoNewChange /\ SetsKept
  BY <1>3 DEF NoNewChange, SetsKept, ChangesL2
<1>13. ASSUME NEW p \in Procs, Serves(p)', Awaited(p)
       PROVE  Awaited(p)'
  <2>1. CASE p = q
    <3>1. \A s \in Procs \ {p} : outbox'[s] = outbox[s]
      BY <1>8, <2>1
    <3>2. QED
      BY <1>3, <1>7, <1>13, <3>1 DEF Awaited
  <2>2. CASE p # q
    BY <1>3, <1>9, <1>13, <2>2 DEF Awaited
  <2>3. QED
    BY <2>1, <2>2
<1>14. QED
  BY <1>1, <1>3, <1>4, <1>10, <1>11, <1>12, <1>13, AwaitKept

(* A message invalidates what its receiver holds, whenever it comes. *)
LEMMA OnMessageStep ==
  ASSUME IInv, NEW p \in Procs, OnMessage(p)
  PROVE  IInv'
<1>1. TypeOK /\ TypeOK'
  BY ProcessStepType DEF IInv
<1>2. PICK t \in MessageTypes :
        /\ inbox' = [inbox EXCEPT ![p][t] = @ - 1]
        /\ WriteL1(p, IF t \in {"set", "expire"} THEN Expired(l1[p]) ELSE None)
  BY DEF OnMessage
<1>3. UNCHANGED <<hasL2, l2, outbox, call>>
  BY DEF OnMessage
<1>4. ~Valid(l1'[p]) /\ \A q \in Procs \ {p} : l1'[q] = l1[q]
  <2> DEFINE e == IF t \in {"set", "expire"} THEN Expired(l1[p]) ELSE None
  <2>1. l1[p] \in Entries \cup {None}
    BY <1>1 DEF TypeOK
  <2>2. e \in Entries \cup {None} /\ ~Valid(e)
    BY <2>1, ExpiredFacts DEF Valid
  <2>3. WriteL1(p, e)
    BY <1>2
  <2> HIDE DEF e
  <2>4. QED
    BY <1>1, <2>2, <2>3, WriteL1Facts
<1>5. \A q \in Procs \ {p} : /\ q \in disturbed => q \in disturbed'
                             /\ inbox'[q] = inbox[q]
  BY <1>1, <1>2 DEF OnMessage, Disturb, TypeOK
<1>6. ~Serves(p)'
  BY <1>4 DEF Serves
<1>7. NoL2Calls'
  BY <1>3 DEF IInv, NoL2Calls
<1>8. ClearAnnounced'
  <2>1. ASSUME NEW q \in Procs, Serves(q)'
        PROVE  Serves(q) /\ inbox'[q] = inbox[q]
    BY <1>4, <1>5, <1>6, <2>1 DEF Serves
  <2>2. QED
    BY <1>1, <1>3, <2>1, ClearsKept DEF IInv
<1>9. \A q \in Procs \ {p} : Awaited(q) => Awaited(q)'
  BY <1>3, <1>5 DEF Awaited
<1>10. QED
  BY <1>1, <1>3, <1>4, <1>5, <1>6, <1>7, <1>8, <1>9, LocalStep

LEMMA CloseBreakerStep ==
  ASSUME IInv, NEW p \in Procs, CloseBreaker(p) \/ Subscribe(p)
  PROVE  IInv'
<1>1. UNCHANGED <<hasL2, l1, l2, inbox, outbox, call, disturbed>>
  BY DEF CloseBreaker, Subscribe, busVars
<1>2. TypeOK'
  BY ProcessStepType DEF IInv
<1>3. \A q \in Procs : (Serves(q)' <=> Serves(q)) /\ (Awaited(q)' <=> Awaited(q))
  BY <1>1 DEF Serves, Awaited
<1>4. NoL2Calls' /\ ClearAnnounced'
  BY <1>1, <1>3 DEF IInv, NoL2Calls, ClearAnnounced, Serves
<1>5. NoNewChange /\ SetsKept
  BY <1>1 DEF NoNewChange, SetsKept, ChangesL2
<1>6. QED
  BY <1>1, <1>2, <1>3, <1>4, <1>5, AwaitKept

(* A process that dies takes down nobody who was to hear from it. *)
LEMMA CrashStep ==
  ASSUME IInv, NEW p \in Procs, Crash(p)
  PROVE  IInv'
<1>1. TypeOK /\ TypeOK'
  BY ProcessStepType DEF IInv
<1>2. /\ \A c \in Calls : call[c].proc # p => call'[c] = call[c]
      /\ \A c \in Calls : call[c].proc = p => call'[c].pc \in {"orphan", "done"}
      /\ \A c \in Calls : call[c].proc = p /\ call'[c].pc = "orphan" => AwaitsWrite(c)
  BY <1>1, CrashFacts
<1>3. UNCHANGED <<hasL2, l2>>
  BY DEF Crash
<1>4. ~Valid(l1'[p]) /\ \A q \in Procs \ {p} : l1'[q] = l1[q]
  BY <1>1, WriteL1Facts DEF Crash, Valid
<1>5. ~Serves(p)'
  BY <1>4 DEF Serves
<1>6. \A q \in Procs \ {p} : /\ q \in disturbed => q \in disturbed'
                             /\ inbox'[q] = inbox[q]
                             /\ outbox'[q] = outbox[q]
  BY <1>1 DEF Crash, Disturb, TypeOK
<1>7. ASSUME NEW q \in Procs \ {p}, Serves(q)'
      PROVE  /\ Serves(q) /\ outbox[p] = {}
             /\ \A c \in Calls : call[c].proc = p => call[c].pc # "publish"
  <2>1. q \notin disturbed'
    BY <1>7 DEF Serves
  <2>2. ~(outbox[p] # {} \/ \E c \in {c \in Calls : call[c].proc = p} :
                             call[c].pc \in {"publish", "refused"})
    BY <2>1 DEF Crash, Disturb
  <2>3. QED
    BY <1>4, <1>6, <1>7, <2>1, <2>2 DEF Serves
<1>8. NoL2Calls'
  <2>1. CASE hasL2
    BY <1>3, <2>1 DEF NoL2Calls
  <2>2. CASE ~hasL2
    <3>1. \A c \in Calls : ~AwaitsWrite(c)
      BY <2>2 DEF IInv, NoL2Calls, AwaitsWrite
    <3>2. QED
      BY <1>2, <2>2, <3>1 DEF IInv, NoL2Calls
  <2>3. QED
    BY <2>1, <2>2
<1>9. \A c \in Calls : ChangesL2(c)' => call[c].proc # p /\ call'[c] = call[c]
  BY <1>2 DEF ChangesL2
<1>10. ClearAnnounced'
  <2>1. \A c \in Calls : call'[c].pc = "l2" => call'[c] = call[c]
    BY <1>2
  <2>2. ASSUME NEW q \in Procs, Serves(q)'
        PROVE  /\ Serves(q) /\ inbox'[q] = inbox[q]
               /\ \A s \in Procs : "clear" \in outbox[s] => "clear" \in outbox'[s]
    <3>1. q \in Procs \ {p}
      BY <1>5, <2>2
    <3>2. outbox[p] = {} /\ Serves(q)
      BY <1>7, <2>2, <3>1
    <3>3. QED
      BY <1>6, <3>1, <3>2
  <2>3. QED
    BY <1>1, <2>1, <2>2, ClearsKept DEF IInv
<1>11. ASSUME NEW q \in Procs \ {p}, Serves(q)', Awaited(q)
       PROVE  Awaited(q)'
  <2>1. /\ outbox[p] = {}
        /\ \A c \in Calls : call[c].proc = p => call[c].pc # "publish"
    BY <1>7, <1>11
  <2>2. QED
    BY <1>2, <1>6, <1>11, <2>1 DEF Awaited
<1>12. \A q \in Procs \ {p} : /\ l1'[q] = l1[q]
                              /\ q \in disturbed => q \in disturbed'
                              /\ Serves(q)' /\ Awaited(q) => Awaited(q)'
  BY <1>4, <1>6, <1>11
<1>13. \A c \in Calls : ChangesL2(c)' /\ call'[c].proc # p => call'[c] = call[c]
  BY <1>9
<1>14. QED
  BY <1>1, <1>2, <1>3, <1>5, <1>8, <1>10, <1>12, <1>13, LocalStep

----------------------------------------------------------------------------
(* The theorems.                                                           *)

LEMMA InitIInv == Init => IInv
<1> SUFFICES ASSUME Init PROVE IInv
  OBVIOUS
<1>1. TypeOK
  <2>1. l2 \in Entries \cup {None}
    <3>1. [ver |-> None, valid |-> TRUE] \in Entries
      BY DEF Entries
    <3>2. l2 \in {None, [ver |-> None, valid |-> TRUE]}
      BY DEF Init
    <3>3. QED
      BY <3>1, <3>2
  <2>2. call \in [Calls -> Running \cup {Idle, Done}]
    BY DEF Init
  <2>3. failures \in 0..MaxFailures
    BY ClusterAssumption DEF Init
  <2>4. inbox \in [Procs -> [MessageTypes -> Nat]]
    BY DEF Init
  <2>5. QED
    BY <2>1, <2>2, <2>3, <2>4 DEF Init, TypeOK
<1>2. \A p \in Procs : ~Serves(p)
  BY DEF Init, Serves, Valid
<1>3. \A c \in Calls : call[c].pc = "idle"
  BY DEF Init, Idle
<1>4. NoL2Calls /\ OwnWritesKept /\ ClearAnnounced /\ Explained
  BY <1>2, <1>3 DEF NoL2Calls, OwnWritesKept, ClearAnnounced, Explained, ChangesL2
<1>5. QED
  BY <1>1, <1>4 DEF IInv

LEMMA StepIInv == IInv /\ [Next]_vars => IInv'
<1> SUFFICES ASSUME IInv, [Next]_vars PROVE IInv'
  OBVIOUS
<1>1. ASSUME NEW c \in Calls, NEW p \in Procs, NEW o \in Options,
             \/ Get(c, p, o) \/ Set(c, p, o) \/ Delete(c, p, o)
             \/ Expire(c, p, o) \/ Clear(c, p, o)
      PROVE  IInv'
  BY <1>1, GetStep, SetStep, DeleteStep, ExpireStep, ClearStep
<1>2. ASSUME NEW c \in Calls,
             \/ Refused(c) \/ WriteL2(c) \/ ReadL2(c) \/ FailL2(c) \/ Fill(c)
             \/ Notify(c) \/ Orphan(c)
      PROVE  IInv'
  BY <1>2, RefusedStep, WriteStep, ReadStep, FailStep, FillStep, NotifyStep, OrphanStep
<1>3. ASSUME NEW p \in Procs,
             Retry(p) \/ OnMessage(p) \/ CloseBreaker(p) \/ Crash(p) \/ Subscribe(p)
      PROVE  IInv'
  BY <1>3, RetryStep, OnMessageStep, CloseBreakerStep, CrashStep
<1>4. CASE UNCHANGED vars
  <2>1. TypeOK'
    BY <1>4, TypeStep DEF IInv
  <2>2. UNCHANGED <<hasL2, l1, l2, inbox, outbox, call, disturbed>>
    BY <1>4 DEF vars, busVars
  <2>3. QED
    BY <2>1, <2>2 DEF IInv, NoL2Calls, OwnWritesKept, ClearAnnounced, Explained,
                      ChangesL2, Serves, Awaited, OwnWrite
<1>5. QED
  BY <1>1, <1>2, <1>3, <1>4 DEF Next

(* Every call, message and entry has its type at all times, for any number *)
(* of processes and calls and any options (cache.ts:55-314,                *)
(* cache_stack.ts:149-215, bus.ts:78-121).                                 *)
THEOREM ClusterTypeCorrect == Spec => []TypeOK
<1>1. Init => TypeOK
  BY InitIInv DEF IInv
<1>2. QED
  BY <1>1, TypeStep, PTL DEF Spec

(* Once calls and messages are through, a process that was not disturbed   *)
(* serves nothing but what L2 holds, or, without an L2, what no other      *)
(* undisturbed process serves otherwise, for any number of processes and   *)
(* calls, any options and any number of failures (cache_stack.ts:158-192,  *)
(* bus.ts:78-103).                                                         *)
THEOREM ClusterCoherent == Spec => []CoherentUnlessDisturbed
<1>1. IInv => CoherentUnlessDisturbed
  <2> SUFFICES ASSUME IInv, Quiet, NEW p \in Procs, Serves(p)
               PROVE  Agrees(p)
    BY DEF CoherentUnlessDisturbed, Serves, Agrees
  <2>1. \A q \in Procs : ~Awaited(q)
    <3>1. \A q \in Procs, t \in MessageTypes : ~(inbox[q][t] > 0)
      BY DEF Quiet
    <3>2. QED
      BY <3>1 DEF Awaited, Quiet
  <2>2. \A c \in Calls : ~OwnWrite(c, p)
    BY DEF OwnWrite, Quiet
  <2>3. QED
    BY <2>1, <2>2 DEF IInv, Explained, Agrees, Serves
<1>2. QED
  BY <1>1, InitIInv, StepIInv, PTL DEF Spec
=============================================================================
