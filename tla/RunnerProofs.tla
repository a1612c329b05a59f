---------------------------- MODULE RunnerProofs ----------------------------
(* What the proofs about the two getOrSet handlers share: how the lock sees *)
(* the jobs of FactoryRunner, and where a request stands while it waits for *)
(* the lock, holds it and has given it back.                                *)
EXTENDS FactoryRunner, LocksProofs, FiniteSetTheorems

----------------------------------------------------------------------------
(* A step of one request, seen from the others.                            *)

LEMMA OthersKeepPlace ==
  ASSUME IInv, NEW q \in Requests, NEW r \in Requests, r # q,
         LocksStep(q) \/ UNCHANGED lockVars
  PROVE  /\ mutexOf'[r] = mutexOf[r]
         /\ r \in gaveUp' <=> r \in gaveUp
         /\ r \in released' <=> r \in released
         /\ Holds(r) => Holds(r)'
         /\ Holds(r)' => Holds(r) \/ Waits(r)
         /\ Waits(r)' => Waits(r)
<1> USE DEF Holds, Waits
<1>1. CASE UNCHANGED lockVars
  BY <1>1 DEF lockVars
<1>2. CASE Acquire(q)
  <2> DEFINE m == IF lock = None THEN q ELSE lock
  <2>1. /\ m \in Requests /\ mutexOf[q] = None
        /\ mutexOf' = [mutexOf EXCEPT ![q] = m]
        /\ UNCHANGED <<gaveUp, released>>
    BY <1>2 DEF Acquire, IInv, LocksTypeOK
  <2>2. mutexOf'[r] = mutexOf[r]
    BY <2>1 DEF IInv, LocksTypeOK
  <2>3. UNCHANGED holder \/ (holder[m] = None /\ holder' = [holder EXCEPT ![m] = q])
    BY <1>2 DEF Acquire
  <2>4. mutexOf[r] # None => mutexOf[r] \in Requests
    BY DEF IInv, LocksTypeOK
  <2>5. Holds(r)' <=> Holds(r)
    BY <2>1, <2>2, <2>3, <2>4, NoneAssumption DEF IInv, LocksTypeOK
  <2>6. QED
    BY <2>1, <2>2, <2>5
<1>3. CASE GiveUp(q)
  BY <1>3 DEF GiveUp
<1>4. ASSUME Releaser(q), UNCHANGED <<mutexOf, gaveUp>>, mutexOf[q] \in Requests,
             Holds(q) \/ q \in released
      PROVE  /\ r \in released' <=> r \in released
             /\ Holds(r) => Holds(r)'
             /\ Holds(r)' => Holds(r) \/ Waits(r)
             /\ Waits(r)' => Waits(r)
  <2>1. CASE q \in released
    BY <1>4, <2>1 DEF Releaser
  <2>2. CASE q \notin released
    <3> DEFINE m == mutexOf[q]
    <3>1. HandOver(m) /\ released' = released \cup {q} /\ holder[m] = q
      BY <1>4, <2>2 DEF Releaser
    <3>2. CASE queue[m] = <<>>
      BY <1>4, <3>1, <3>2, NoneAssumption DEF HandOver, IInv, LocksTypeOK
    <3>3. CASE queue[m] # <<>>
      <4>1. queue[m] \in Seq(Requests)
        BY <1>4 DEF IInv, LocksTypeOK
      <4>2. Head(queue[m]) = queue[m][1] /\ 1 \in 1..Len(queue[m])
        BY <3>3, <4>1, HeadAndTail
      <4>3. /\ mutexOf[Head(queue[m])] = m
            /\ Head(queue[m]) \notin released
            /\ holder[m] # Head(queue[m])
        BY <1>4, <4>2 DEF IInv, QueuesConsistent
      <4>4. holder' = [holder EXCEPT ![m] = Head(queue[m])]
        BY <3>1, <3>3 DEF HandOver
      <4>5. QED
        BY <1>4, <3>1, <4>3, <4>4, NoneAssumption DEF IInv, LocksTypeOK
    <3>4. QED
      BY <3>2, <3>3
  <2>3. QED
    BY <2>1, <2>2
<1>5. CASE Release(q)
  <2>1. mutexOf[q] \in Requests
    BY <1>5 DEF Release, Granted, IInv, LocksTypeOK, LeaversAsked
  <2>2. QED
    BY <1>4, <1>5, <2>1 DEF Release, Granted
<1>6. CASE Discard(q)
  <2>1. mutexOf[q] \in Requests
    BY <1>6 DEF Discard, IInv, LocksTypeOK
  <2>2. QED
    BY <1>4, <1>6, <2>1 DEF Discard
<1>7. QED
  BY <1>1, <1>2, <1>3, <1>5, <1>6 DEF LocksStep

(* A request that called release is out, however it came to be granted.    *)
LEMMA ReleaseLeavesLock ==
  ASSUME IInv, IInv', NEW r \in Requests, Release(r) \/ Discard(r)
  PROVE  ~Holds(r)' /\ ~Waits(r)' /\ r \in released' /\ UNCHANGED <<mutexOf, gaveUp>>
<1>1. r \in released' /\ UNCHANGED <<mutexOf, gaveUp>>
  BY DEF Release, Discard, Releaser
<1>2. ASSUME Holds(r)' PROVE FALSE
  <2>1. mutexOf'[r] \in Requests /\ holder'[mutexOf'[r]] = r /\ r # None
    BY <1>2, NoneAssumption DEF Holds, IInv, LocksTypeOK
  <2>2. QED
    BY <1>1, <2>1 DEF IInv, HoldersConsistent
<1>3. QED
  BY <1>1, <1>2 DEF Waits
----------------------------------------------------------------------------
(* Where a request stands, and what it has to do with the lock there.      *)

BeforeLock == {"idle", "reading", "missed"}
BeforeJob == BeforeLock \cup {"locking", "locked", "looked"}

PlaceOf(r) ==
  /\ pc[r] \in BeforeLock => mutexOf[r] = None
  /\ pc[r] \in BeforeJob => fac[r] = "none"
  /\ pc[r] \in {"locked", "looked"} => Holds(r)
  /\ pc[r] = "awaiting" => JobActive(r)
  /\ pc[r] = "failed" => JobActive(r) \/ r \in released
  /\ r \in gaveUp => pc[r] = "done" /\ fac[r] = "none"
  /\ Waits(r) /\ r \notin gaveUp => pc[r] = "locking"
  /\ (Holds(r) /\ r \notin gaveUp) =>
       \/ pc[r] \in {"locking", "locked", "looked", "awaiting", "failed"}
       \/ JobActive(r)
       \/ pc[r] = "done" /\ answer[r].kind = "l2 error" /\ ~SuppressesL2Errors(r)

Places ==
  /\ DOMAIN pc = Requests /\ DOMAIN fac = Requests
  /\ DOMAIN answer = Requests /\ DOMAIN opts = Requests
  /\ \A r \in Requests : PlaceOf(r)

(* Another request's step leaves r where it is. *)
Apart(q) ==
  /\ DOMAIN pc' = Requests /\ DOMAIN fac' = Requests
  /\ DOMAIN answer' = Requests /\ DOMAIN opts' = Requests
  /\ UNCHANGED tiers
  /\ \A r \in Requests : r # q =>
       /\ pc'[r] = pc[r] /\ fac'[r] = fac[r]
       /\ answer'[r] = answer[r] /\ opts'[r] = opts[r]

(* To keep Places a step of q, made apart from the others, has to keep the *)
(* place of q.                                                             *)
LEMMA PlacesByOwnStep ==
  ASSUME IInv, Places, NEW q \in Requests, Apart(q), PlaceOf(q)',
         LocksStep(q) \/ UNCHANGED lockVars
  PROVE  Places'
<1> SUFFICES ASSUME NEW r \in Requests, r # q PROVE PlaceOf(r)'
  BY DEF Places, Apart
<1>1. PlaceOf(r)
  BY DEF Places
<1>2. /\ mutexOf'[r] = mutexOf[r]
      /\ r \in gaveUp' <=> r \in gaveUp
      /\ r \in released' <=> r \in released
      /\ Holds(r) => Holds(r)'
      /\ Holds(r)' => Holds(r) \/ Waits(r)
      /\ Waits(r)' => Waits(r)
  BY OthersKeepPlace
<1>3. /\ pc'[r] = pc[r] /\ fac'[r] = fac[r]
      /\ answer'[r] = answer[r] /\ opts'[r] = opts[r] /\ tiers' = tiers
  BY DEF Apart
<1>4. (JobActive(r)' <=> JobActive(r)) /\ (SuppressesL2Errors(r)' <=> SuppressesL2Errors(r))
  BY <1>3 DEF JobActive, SuppressesL2Errors
<1>5. QED
  BY <1>1, <1>2, <1>3, <1>4 DEF PlaceOf

LEMMA RunnerInitPlaces ==
  ASSUME NEW layouts, RunnerInit(layouts)
  PROVE  Places
BY NoneAssumption
   DEF RunnerInit, LocksInit, Places, PlaceOf, BeforeLock, BeforeJob, Holds, Waits

(* Time and evictions leave every request where it is. *)
LEMMA EnvironmentKeepsPlaces ==
  ASSUME Places, UNCHANGED <<lockVars, tiers, opts, pc, fac, answer>>
  PROVE  Places'
<1>1. ASSUME NEW r \in Requests
      PROVE  /\ Holds(r)' <=> Holds(r)
             /\ Waits(r)' <=> Waits(r)
             /\ JobActive(r)' <=> JobActive(r)
             /\ SuppressesL2Errors(r)' <=> SuppressesL2Errors(r)
             /\ UNCHANGED <<mutexOf, gaveUp, released>>
  BY DEF lockVars, Holds, Waits, JobActive, SuppressesL2Errors
<1>2. QED
  BY <1>1 DEF Places, PlaceOf

LEMMA JobStepsAreLockSteps ==
  ASSUME NEW r \in Requests, RunnerStep(r)
  PROVE  LocksStep(r) \/ UNCHANGED lockVars
<1>1. CASE FactoryReturns(r)
  BY <1>1 DEF FactoryReturns
<1>2. CASE WriteL2(r)
  BY <1>2 DEF WriteL2
<1>3. CASE Settle(r)
  BY <1>3 DEF Settle, LocksStep
<1>4. CASE SoftTimeout(r)
  BY <1>4 DEF SoftTimeout
<1>5. CASE HardTimeout(r)
  BY <1>5 DEF HardTimeout
<1>6. CASE DiscardLate(r)
  BY <1>6 DEF DiscardLate, LocksStep
<1>7. QED
  BY <1>1, <1>2, <1>3, <1>4, <1>5, <1>6 DEF RunnerStep

(* A step that touches neither the lock nor more than the request's own    *)
(* job and answer.                                                         *)
LEMMA UnlockedStepKeepsPlace ==
  ASSUME NEW r \in Requests, UNCHANGED lockVars
  PROVE  /\ Holds(r)' <=> Holds(r)
         /\ Waits(r)' <=> Waits(r)
         /\ UNCHANGED <<mutexOf, gaveUp, released>>
BY DEF lockVars, Holds, Waits

(* Releasing is the last thing a handler does with the lock. *)
LEMMA ReleasingKeepsPlace ==
  ASSUME IInv, IInv', NEW r \in Requests, PlaceOf(r), Release(r),
         pc[r] # "done", pc'[r] = "done"
  PROVE  PlaceOf(r)'
<1>1. r \notin gaveUp
  BY DEF PlaceOf
<1>2. ~Holds(r)' /\ ~Waits(r)' /\ r \notin gaveUp'
  BY <1>1, ReleaseLeavesLock
<1>3. QED
  BY <1>2 DEF PlaceOf, BeforeJob, BeforeLock

LEMMA JobStepKeepsPlaces ==
  ASSUME IInv, IInv', Places, NEW r \in Requests, RunnerStep(r)
  PROVE  Apart(r) /\ Places'
<1> USE DEF requestVars, jobVars, itemVars, boundVars, cacheVars
<1>1. LocksStep(r) \/ UNCHANGED lockVars
  BY JobStepsAreLockSteps
<1>2. PlaceOf(r)
  BY DEF Places
<1>3. SUFFICES Apart(r) /\ PlaceOf(r)'
  BY <1>1, PlacesByOwnStep
<1>4. CASE FactoryReturns(r)
  <2>1. Apart(r)
    BY <1>4 DEF FactoryReturns, Apart, Places
  <2>2. JobActive(r) /\ JobActive(r)' /\ fac[r] # "none"
    <3>1. PICK next \in {"writing", "stored", "skipped", "failed", "rejected"} :
            fac[r] = "running" /\ fac' = [fac EXCEPT ![r] = next]
      BY <1>4, OutcomesAssumption DEF FactoryReturns
    <3>2. QED
      BY <3>1 DEF JobActive, Places
  <2>3. UNCHANGED <<lockVars, tiers, opts, pc, answer>>
    BY <1>4 DEF FactoryReturns
  <2>4. QED
    BY <1>2, <2>1, <2>2, <2>3, UnlockedStepKeepsPlace DEF PlaceOf
<1>5. CASE WriteL2(r)
  <2>1. Apart(r)
    BY <1>5 DEF WriteL2, Apart, Places
  <2>2. JobActive(r) /\ JobActive(r)' /\ fac[r] # "none"
    BY <1>5 DEF WriteL2, JobActive, Places
  <2>3. UNCHANGED <<lockVars, tiers, opts, pc, answer>>
    BY <1>5 DEF WriteL2
  <2>4. QED
    BY <1>2, <2>1, <2>2, <2>3, UnlockedStepKeepsPlace DEF PlaceOf
<1>6. CASE Settle(r)
  <2>1. fac[r] # "none" /\ UNCHANGED <<tiers, opts>>
    BY <1>6 DEF Settle
  <2>2. \/ pc[r] # "awaiting" /\ UNCHANGED <<pc, answer>>
        \/ pc[r] = "awaiting" /\ Return(r, Fresh(made[r]))
        \/ pc[r] = "awaiting" /\ Return(r, Undefined)
        \/ pc[r] = "awaiting" /\ Goto(r, "failed") /\ UNCHANGED answer
    BY <1>6 DEF Settle
  <2>3. Apart(r)
    BY <1>6, <2>1, <2>2 DEF Settle, Apart, Places, Return, Goto
  <2>4. ~Holds(r)' /\ ~Waits(r)' /\ r \in released' /\ r \notin gaveUp'
    BY <1>2, <1>6, <2>1, ReleaseLeavesLock DEF Settle, PlaceOf
  <2>5. pc'[r] \in {"done", "failed"} \/ (pc'[r] = pc[r] /\ pc[r] # "awaiting")
    BY <2>2 DEF Return, Goto, Places
  <2>6. pc'[r] \notin BeforeJob /\ pc'[r] # "awaiting"
    BY <1>2, <2>1, <2>5 DEF PlaceOf, BeforeJob, BeforeLock
  <2>7. QED
    BY <2>3, <2>4, <2>6 DEF PlaceOf, BeforeJob
<1>7. CASE SoftTimeout(r) \/ HardTimeout(r)
  <2>1. /\ UNCHANGED <<lockVars, tiers, opts, fac>>
        /\ pc[r] = "awaiting"
        /\ Return(r, Hit(StaleItem(r))) \/ (Goto(r, "failed") /\ UNCHANGED answer)
    BY <1>7 DEF SoftTimeout, HardTimeout
  <2>2. Apart(r) /\ pc'[r] \in {"done", "failed"}
    BY <2>1 DEF Apart, Places, Return, Goto
  <2>3. JobActive(r) /\ JobActive(r)'
    BY <1>2, <2>1 DEF PlaceOf, JobActive
  <2>4. ~Waits(r) /\ r \notin gaveUp
    BY <1>2, <2>1 DEF PlaceOf
  <2>5. QED
    BY <2>1, <2>2, <2>3, <2>4, UnlockedStepKeepsPlace DEF PlaceOf, BeforeJob, BeforeLock
<1>8. CASE DiscardLate(r)
  <2>1. Discard(r) /\ UNCHANGED <<tiers, opts, pc, fac, answer>>
    BY <1>8 DEF DiscardLate
  <2>2. /\ ~Holds(r)' /\ ~Waits(r)' /\ UNCHANGED mutexOf
        /\ pc[r] = "done" /\ fac[r] = "none"
    BY <1>2, <2>1, ReleaseLeavesLock DEF Discard, PlaceOf
  <2>3. Apart(r) /\ (JobActive(r)' <=> JobActive(r))
    BY <2>1 DEF Apart, Places, JobActive
  <2>4. QED
    BY <1>2, <2>1, <2>2, <2>3 DEF PlaceOf, BeforeJob, BeforeLock
<1>9. QED
  BY <1>4, <1>5, <1>6, <1>7, <1>8 DEF RunnerStep

----------------------------------------------------------------------------
(* Types.  A started job is counted once, so versions stay in range.       *)

OptsChosen == \A r \in Requests : pc[r] # "idle" => opts[r] \in Options

Started == {r \in Requests : fac[r] # "none"}

RunsCounted == runs = Cardinality(Started)

Shape(labels) ==
  /\ RunnerTypeOK
  /\ pc \in [Requests -> labels]
  /\ OptsChosen
  /\ RunsCounted

LEMMA OptionTypes ==
  ASSUME NEW o \in Options
  PROVE  /\ o.ttl \in Nat \cup {None}
         /\ o.graceBackoff \in Nat
BY OptionsAssumption DEF OptionRecords

LEMMA ReadTypes ==
  ASSUME NEW e \in Entries \cup {None}, NEW t
  PROVE  Read(e, t) \in Items \cup {None}
BY DEF Entries, Items, Read, IsLogicallyExpired

LEMMA BackedOffTypes ==
  ASSUME NEW item \in Items, NEW o \in Options
  PROVE  BackedOff(item, o) \in Entries
<1>1. item.ver \in Versions /\ item.exp \in Nat \cup {None} /\ o.graceBackoff \in Nat
  BY OptionTypes DEF Items
<1>2. item.exp # None => item.exp + o.graceBackoff \in Nat
  BY <1>1
<1>3. QED
  BY <1>1, <1>2 DEF Entries, BackedOff

Answers == [kind: Kinds, ver: Versions, graced: BOOLEAN]

LEMMA AnswerTypes ==
  /\ 0 \in Versions
  /\ \A item \in Items : Hit(item) \in Answers
  /\ \A e \in Entries : Fresh(e) \in Answers
  /\ Undefined \in Answers /\ NoAnswer \in Answers
  /\ \A kind \in Kinds : Error(kind) \in Answers
<1>1. 0 \in Versions
  BY BoundsAssumption, FS_CardinalityType DEF Versions
<1>2. QED
  BY <1>1 DEF Items, Entries, Hit, Fresh, Undefined, NoAnswer, Error, Answers, Kinds

LEMMA StaleItemTypes ==
  ASSUME RunnerTypeOK, NEW r \in Requests
  PROVE  /\ StaleItem(r) \in Items \cup {None}
         /\ GracedValue(r) # None => StaleItem(r) # None
BY DEF RunnerTypeOK, StaleItem, GracedValue

(* The entry a factory makes. *)
LEMMA MadeTypes ==
  ASSUME RunnerTypeOK, NEW r \in Requests, opts[r] \in Options
  PROVE  [made[r] EXCEPT !.exp = LogicalTtlFromNow(opts[r], now)] \in Entries
<1>1. now \in Nat /\ opts[r].ttl \in Nat \cup {None}
  BY OptionTypes, BoundsAssumption DEF RunnerTypeOK
<1>2. opts[r].ttl # None => now + opts[r].ttl \in Nat
  BY <1>1
<1>3. LogicalTtlFromNow(opts[r], now) \in Nat \cup {None}
  BY <1>1, <1>2 DEF LogicalTtlFromNow
<1>4. made[r] \in Entries
  BY DEF RunnerTypeOK
<1>5. QED
  BY <1>3, <1>4 DEF Entries

LEMMA RunnerInitShape ==
  ASSUME NEW layouts, layouts \subseteq SUBSET {"l1", "l2"}, RunnerInit(layouts),
         NEW labels, "idle" \in labels
  PROVE  Shape(labels)
<1>1. LocksTypeOK
  BY InitIInv DEF RunnerInit, IInv
<1>2. 0 \in Versions /\ [ver |-> 0, exp |-> 0] \in Entries
      /\ [ver |-> 0, exp |-> None] \in Entries
  BY AnswerTypes DEF Entries
<1>3. runs = Cardinality(Started)
  <2>1. Started = {}
    BY DEF RunnerInit, Started
  <2>2. QED
    BY <2>1, FS_EmptySet DEF RunnerInit
<1>4. RunnerTypeOK
  <2> USE BoundsAssumption, AnswerTypes, <1>2 DEF RunnerInit
  <2>1. l1 \in Entries \cup {None} /\ l2 \in Entries \cup {None}
    OBVIOUS
  <2>2. answer \in [Requests -> [kind: Kinds, ver: Versions, graced: BOOLEAN]]
    BY DEF Answers
  <2>3. QED
    BY <1>1, <2>1, <2>2 DEF RunnerTypeOK, JobStates
<1>5. QED
  BY <1>3, <1>4 DEF Shape, OptsChosen, RunsCounted, RunnerInit

LEMMA EnvironmentKeepsShape ==
  ASSUME NEW labels, Shape(labels), LocksTypeOK', Tick \/ Evict
  PROVE  Shape(labels)'
<1> USE DEF requestVars, jobVars, boundVars, cacheVars, Tick, Evict
<1>1. now' \in 0..MaxNow /\ evictions' \in 0..MaxEvictions
  BY BoundsAssumption DEF Shape, RunnerTypeOK
<1>2. l1' \in {l1, None} /\ l2' \in {l2, None}
  OBVIOUS
<1>3. UNCHANGED <<tiers, opts, pc, localItem, remoteItem, fac, made, runs, answer, faults, unhandled>>
  OBVIOUS
<1>4. RunnerTypeOK'
  BY <1>1, <1>2, <1>3 DEF Shape, RunnerTypeOK
<1>5. QED
  BY <1>3, <1>4 DEF Shape, OptsChosen, RunsCounted, Started

LEMMA StutterKeepsShape ==
  ASSUME NEW labels, Shape(labels), LocksTypeOK', UNCHANGED vars
  PROVE  Shape(labels)'
BY DEF Shape, RunnerTypeOK, OptsChosen, RunsCounted, Started, vars

(* A started job stays started and no other job starts. *)
LEMMA SameStarted ==
  ASSUME NEW r \in Requests, fac \in [Requests -> JobStates], RunsCounted,
         fac[r] # "none", NEW s, s # "none", fac' = [fac EXCEPT ![r] = s],
         runs' = runs
  PROVE  RunsCounted'
<1>1. Started' = Started
  BY DEF Started
<1>2. QED
  BY <1>1 DEF RunsCounted

LEMMA JobStepKeepsShape ==
  ASSUME NEW labels, {"done", "failed"} \subseteq labels, Shape(labels), Places,
         LocksTypeOK', NEW r \in Requests, RunnerStep(r)
  PROVE  Shape(labels)'
<1> USE DEF requestVars, jobVars, itemVars, boundVars, cacheVars
<1>1. RunnerTypeOK /\ pc \in [Requests -> labels] /\ OptsChosen /\ RunsCounted
  BY DEF Shape
<1>2. fac[r] # "none" => opts[r] \in Options
  BY <1>1 DEF Places, PlaceOf, BeforeJob, BeforeLock, OptsChosen
<1>3. fac \in [Requests -> JobStates] /\ answer \in [Requests -> Answers]
      /\ made \in [Requests -> Entries]
  BY <1>1 DEF RunnerTypeOK, Answers
<1>4. CASE FactoryReturns(r)
  <2>1. PICK next \in {"writing", "stored", "skipped", "failed", "rejected"} :
          /\ fac[r] = "running" /\ fac' = [fac EXCEPT ![r] = next]
    BY <1>4, OutcomesAssumption DEF FactoryReturns
  <2> DEFINE entry == [made[r] EXCEPT !.exp = LogicalTtlFromNow(opts[r], now)]
  <2>2. entry \in Entries
    BY <1>1, <1>2, <2>1, MadeTypes
  <2>3. made' \in [Requests -> Entries] /\ l1' \in Entries \cup {None}
    <3>1. \/ made' = [made EXCEPT ![r] = entry] /\ l1' \in {l1, entry}
          \/ UNCHANGED <<made, l1>>
      BY <1>4 DEF FactoryReturns
    <3> HIDE DEF entry
    <3>2. l1 \in Entries \cup {None}
      BY <1>1 DEF RunnerTypeOK
    <3>3. QED
      BY <1>3, <2>2, <3>1, <3>2
  <2>4. UNCHANGED <<tiers, now, l2, opts, pc, localItem, remoteItem, answer, runs,
                    unhandled, evictions, faults>>
    BY <1>4 DEF FactoryReturns
  <2>5. fac' \in [Requests -> JobStates]
    BY <1>3, <2>1 DEF JobStates
  <2>6. RunnerTypeOK'
    BY <1>1, <2>3, <2>4, <2>5 DEF RunnerTypeOK
  <2>7. RunsCounted'
    BY <1>1, <1>3, <2>1, <2>4, SameStarted
  <2>8. QED
    BY <1>1, <2>4, <2>6, <2>7 DEF Shape, OptsChosen
<1>5. CASE WriteL2(r)
  <2>1. /\ fac[r] = "writing" /\ fac' = [fac EXCEPT ![r] = fac'[r]]
        /\ fac'[r] \in {"stored", "rejected"}
    BY <1>3, <1>5 DEF WriteL2
  <2>2. l2' \in {l2, made[r]} /\ faults' \in 0..MaxFaults
    BY <1>1, <1>5, BoundsAssumption DEF WriteL2, L2Fails, RunnerTypeOK
  <2>3. UNCHANGED <<tiers, now, l1, opts, pc, localItem, remoteItem, answer, made,
                    runs, unhandled, evictions>>
    BY <1>5 DEF WriteL2
  <2>4. fac' \in [Requests -> JobStates]
    BY <1>3, <2>1 DEF JobStates
  <2>5. RunnerTypeOK'
    BY <1>1, <1>3, <2>2, <2>3, <2>4 DEF RunnerTypeOK
  <2>6. RunsCounted'
    BY <1>1, <1>3, <2>1, <2>3, SameStarted
  <2>7. QED
    BY <1>1, <2>3, <2>5, <2>6 DEF Shape, OptsChosen
<1>6. CASE Settle(r)
  <2>1. /\ fac[r] \in {"stored", "skipped", "failed", "rejected"}
        /\ fac' = [fac EXCEPT ![r] = "settled"]
        /\ unhandled' \in {unhandled, unhandled \cup {r}}
    BY <1>6 DEF Settle
  <2>2. UNCHANGED <<tiers, now, l1, l2, opts, localItem, remoteItem, made, runs,
                    evictions, faults>>
    BY <1>6 DEF Settle
  <2>3. \/ UNCHANGED <<pc, answer>>
        \/ Return(r, Fresh(made[r]))
        \/ Return(r, Undefined)
        \/ Goto(r, "failed") /\ UNCHANGED answer
    BY <1>6 DEF Settle
  <2>4. Fresh(made[r]) \in Answers /\ Undefined \in Answers
    BY <1>3, AnswerTypes
  <2>5. answer' \in [Requests -> Answers]
    BY <1>3, <2>3, <2>4 DEF Return, Goto
  <2>6. pc' \in [Requests -> labels]
    BY <1>1, <2>3 DEF Return, Goto
  <2>7. fac' \in [Requests -> JobStates]
    BY <1>3, <2>1 DEF JobStates
  <2>8. RunnerTypeOK'
    BY <1>1, <2>1, <2>2, <2>5, <2>7 DEF RunnerTypeOK, Answers
  <2>9. RunsCounted'
    BY <1>1, <1>3, <2>1, <2>2, SameStarted
  <2>10. OptsChosen'
    BY <1>1, <1>2, <2>1, <2>2, <2>3 DEF OptsChosen, Return, Goto
  <2>11. QED
    BY <2>6, <2>8, <2>9, <2>10 DEF Shape
<1>7. CASE SoftTimeout(r) \/ HardTimeout(r)
  <2>1. /\ UNCHANGED <<tiers, now, l1, l2, opts, localItem, remoteItem, made, runs,
                       fac, unhandled, evictions, faults>>
        /\ pc[r] = "awaiting"
    BY <1>7 DEF SoftTimeout, HardTimeout
  <2>2. \/ GracedValue(r) # None /\ Return(r, Hit(StaleItem(r)))
        \/ Goto(r, "failed") /\ UNCHANGED answer
    BY <1>7 DEF SoftTimeout, HardTimeout, TimeoutType, FactoryTimeout
  <2>3. GracedValue(r) # None => Hit(StaleItem(r)) \in Answers
    BY <1>1, StaleItemTypes, AnswerTypes
  <2>4. answer' \in [Requests -> Answers] /\ pc' \in [Requests -> labels]
    BY <1>1, <1>3, <2>2, <2>3 DEF Return, Goto
  <2>5. RunnerTypeOK'
    BY <1>1, <2>1, <2>4 DEF RunnerTypeOK, Answers
  <2>6. OptsChosen'
    BY <1>1, <2>1, <2>2 DEF OptsChosen, Return, Goto
  <2>7. QED
    BY <1>1, <2>1, <2>4, <2>5, <2>6 DEF Shape, RunsCounted, Started
<1>8. CASE DiscardLate(r)
  <2>1. UNCHANGED <<tiers, now, l1, l2, opts, pc, localItem, remoteItem, answer,
                    fac, made, runs, unhandled, evictions, faults>>
    BY <1>8 DEF DiscardLate
  <2>2. QED
    BY <1>1, <2>1 DEF Shape, RunnerTypeOK, OptsChosen, RunsCounted, Started
<1>9. QED
  BY <1>4, <1>5, <1>6, <1>7, <1>8 DEF RunnerStep

(* Starting a job: the version of its entry is still in range. *)
LEMMA RunKeepsShape ==
  ASSUME NEW labels, {"done", "awaiting"} \subseteq labels, Shape(labels),
         LocksTypeOK', NEW r \in Requests, pc[r] # "idle", fac[r] = "none", Run(r),
         UNCHANGED <<tiers, now, l1, l2, opts, localItem, remoteItem, evictions,
                     faults>>
  PROVE  Shape(labels)'
<1>1. RunnerTypeOK /\ pc \in [Requests -> labels] /\ OptsChosen /\ RunsCounted
  BY DEF Shape
<1>2. fac \in [Requests -> JobStates] /\ answer \in [Requests -> Answers]
      /\ made \in [Requests -> Entries]
  BY <1>1 DEF RunnerTypeOK, Answers
<1>3. /\ runs' = runs + 1 /\ fac' = [fac EXCEPT ![r] = "running"]
      /\ made' = [made EXCEPT ![r].ver = runs + 1] /\ UNCHANGED unhandled
  BY DEF Run
<1>4. runs' = Cardinality(Started') /\ runs' \in Versions
  <2>1. Started' = Started \cup {r} /\ r \notin Started
    BY <1>2, <1>3 DEF Started
  <2>2. IsFiniteSet(Started) /\ Started' \subseteq Requests
    BY BoundsAssumption, FS_Subset DEF Started
  <2>3. Cardinality(Started') = Cardinality(Started) + 1
    BY <2>1, <2>2, FS_AddElement
  <2>4. Cardinality(Started') <= Cardinality(Requests)
    BY <2>2, BoundsAssumption, FS_Subset
  <2>5. Cardinality(Started) \in Nat /\ Cardinality(Requests) \in Nat
    BY <2>2, BoundsAssumption, FS_CardinalityType
  <2>6. QED
    BY <1>1, <1>3, <2>3, <2>4, <2>5 DEF RunsCounted, Versions
<1>5. made' \in [Requests -> Entries] /\ fac' \in [Requests -> JobStates]
  BY <1>2, <1>3, <1>4 DEF Entries, JobStates
<1>6. \/ GracedValue(r) # None /\ Return(r, Hit(StaleItem(r)))
      \/ Goto(r, "awaiting") /\ UNCHANGED answer
  BY DEF Run, IsBackground, ShouldSwr
<1>7. GracedValue(r) # None => Hit(StaleItem(r)) \in Answers
  BY <1>1, StaleItemTypes, AnswerTypes
<1>8. answer' \in [Requests -> Answers] /\ pc' \in [Requests -> labels]
  BY <1>1, <1>2, <1>6, <1>7 DEF Return, Goto
<1>9. RunnerTypeOK'
  BY <1>1, <1>3, <1>4, <1>5, <1>8 DEF RunnerTypeOK, Answers
<1>10. OptsChosen'
  BY <1>1, <1>6 DEF OptsChosen, Return, Goto
<1>11. QED
  BY <1>4, <1>8, <1>9, <1>10 DEF Shape, RunsCounted

----------------------------------------------------------------------------
(* The order of the versions, while requests are one at a time.            *)

(* What a step of r does to the lock while its job runs. *)
OwnJob(r) ==
  \/ ~JobActive(r)
  \/ Release(r)
  \/ JobActive(r)' /\ UNCHANGED lockVars

(* Once a request lost the lock to its own job the release the job ends    *)
(* with is repeated: calm does not come back.                              *)
LEMMA CalmNeverReturns ==
  ASSUME IInv, Places, NEW r \in Requests, Apart(r), OwnJob(r),
         LocksStep(r) \/ UNCHANGED lockVars, Calm'
  PROVE  Calm
<1>1. ~crowded /\ ~crowded'
  <2>1. ~crowded'
    BY DEF Calm
  <2>2. crowded \in BOOLEAN /\ (UNCHANGED crowded \/ crowded' = TRUE \/ ~crowded)
    <3>1. crowded \in BOOLEAN
      BY DEF IInv, LocksTypeOK
    <3>2. CASE Release(r)
      BY <3>1, <3>2, <2>1 DEF Release
    <3>3. CASE Acquire(r) \/ GiveUp(r) \/ Discard(r) \/ UNCHANGED lockVars
      BY <3>1, <3>3 DEF Acquire, GiveUp, Discard, lockVars
    <3>4. QED
      BY <3>1, <3>2, <3>3 DEF LocksStep
  <2>3. QED
    BY <2>1, <2>2
<1>2. SUFFICES ASSUME NEW q \in Requests, JobActive(q) PROVE Holds(q)
  BY <1>1 DEF Calm
<1>3. fac[q] # "none" /\ ~Waits(q)
  BY <1>2 DEF JobActive, Places, PlaceOf, BeforeJob
<1>4. CASE q # r
  <2>1. JobActive(q)'
    BY <1>2, <1>4 DEF Apart, JobActive
  <2>2. Holds(q)'
    BY <2>1 DEF Calm
  <2>3. QED
    BY <1>3, <1>4, <2>2, OthersKeepPlace
<1>5. CASE q = r
  <2>1. CASE Release(r)
    BY <1>1, <1>5, <2>1 DEF Release, Granted
  <2>2. CASE JobActive(r)' /\ UNCHANGED lockVars
    BY <1>5, <2>2, UnlockedStepKeepsPlace DEF Calm
  <2>3. QED
    BY <1>2, <1>5, <2>1, <2>2 DEF OwnJob
<1>6. QED
  BY <1>4, <1>5

LEMMA JobStepOwnsJob ==
  ASSUME Places, NEW r \in Requests, RunnerStep(r)
  PROVE  OwnJob(r)
<1>1. CASE FactoryReturns(r)
  <2>1. PICK next \in {"writing", "stored", "skipped", "failed", "rejected"} :
          fac' = [fac EXCEPT ![r] = next]
    BY <1>1, OutcomesAssumption DEF FactoryReturns
  <2>2. JobActive(r)'
    BY <2>1 DEF JobActive, Places
  <2>3. QED
    BY <1>1, <2>2 DEF FactoryReturns, OwnJob
<1>2. CASE WriteL2(r)
  <2>1. JobActive(r)'
    BY <1>2 DEF WriteL2, JobActive, Places
  <2>2. QED
    BY <1>2, <2>1 DEF WriteL2, OwnJob
<1>3. CASE Settle(r)
  BY <1>3 DEF Settle, OwnJob
<1>4. CASE SoftTimeout(r) \/ HardTimeout(r)
  BY <1>4 DEF SoftTimeout, HardTimeout, OwnJob, JobActive, jobVars
<1>5. CASE DiscardLate(r)
  <2>1. fac[r] = "none"
    BY <1>5 DEF DiscardLate, Discard, Places, PlaceOf
  <2>2. QED
    BY <2>1 DEF OwnJob, JobActive
<1>6. QED
  BY <1>1, <1>2, <1>3, <1>4, <1>5 DEF RunnerStep

(* No entry and no item has a version that no factory was given yet. *)
VersionsBounded ==
  /\ l1 # None => l1.ver <= runs
  /\ l2 # None => l2.ver <= runs
  /\ \A r \in Requests :
       /\ localItem[r] # None => localItem[r].ver <= runs
       /\ remoteItem[r] # None => remoteItem[r].ver <= runs
       /\ made[r].ver <= runs

(* While requests are one at a time, the job under way is the latest. *)
JobsLatest == Calm => \A r \in Requests : JobActive(r) => made[r].ver = runs

LEMMA VersionTypes ==
  ASSUME RunnerTypeOK
  PROVE  /\ runs \in Nat
         /\ l1 # None => l1.ver \in Nat
         /\ l2 # None => l2.ver \in Nat
         /\ \A r \in Requests :
              /\ localItem[r] # None => localItem[r].ver \in Nat
              /\ remoteItem[r] # None => remoteItem[r].ver \in Nat
              /\ made[r].ver \in Nat
<1>1. Versions \subseteq Nat
  BY DEF Versions
<1>2. QED
  BY <1>1 DEF RunnerTypeOK, Entries, Items

(* A job keeps the version it was started with. *)
LEMMA FactoryReturnsWhat ==
  ASSUME RunnerTypeOK, NEW r \in Requests, FactoryReturns(r)
  PROVE  /\ fac[r] = "running"
         /\ \A q \in Requests : made'[q].ver = made[q].ver
         /\ \/ UNCHANGED l1 /\ fac'[r] # "writing"
            \/ UNCHANGED l1 /\ "l1" \notin tiers
            \/ l1'.ver = made[r].ver
<1> DEFINE entry == [made[r] EXCEPT !.exp = LogicalTtlFromNow(opts[r], now)]
<1>1. made \in [Requests -> Entries] /\ fac \in [Requests -> JobStates]
  BY DEF RunnerTypeOK
<1>2. entry.ver = made[r].ver
  BY <1>1 DEF Entries
<1>3. PICK outcome \in Outcomes :
        /\ fac[r] = "running"
        /\ outcome # "value" => fac' = [fac EXCEPT ![r] = fac'[r]] /\ fac'[r] # "writing"
        /\ \/ /\ outcome = "value" /\ made' = [made EXCEPT ![r] = entry]
              /\ l1' = IF "l1" \in tiers THEN entry ELSE l1
           \/ outcome # "value" /\ UNCHANGED <<made, l1>>
  BY <1>1, OutcomesAssumption DEF FactoryReturns
<1> HIDE DEF entry
<1>4. QED
  BY <1>1, <1>2, <1>3

LEMMA JobStepKeepsBounds ==
  ASSUME RunnerTypeOK, VersionsBounded, NEW r \in Requests, RunnerStep(r)
  PROVE  /\ VersionsBounded'
         /\ UNCHANGED <<runs, localItem, remoteItem>>
         /\ \A q \in Requests : made'[q].ver = made[q].ver
         /\ \A q \in Requests : JobActive(q)' => JobActive(q)
<1> USE DEF requestVars, jobVars, itemVars, boundVars, cacheVars
<1>1. /\ UNCHANGED <<runs, localItem, remoteItem>>
      /\ fac \in [Requests -> JobStates]
  BY DEF RunnerStep, FactoryReturns, WriteL2, Settle, SoftTimeout, HardTimeout,
         DiscardLate, RunnerTypeOK
<1>2. \A q \in Requests : made'[q].ver = made[q].ver
  <2>1. CASE FactoryReturns(r)
    BY <2>1, FactoryReturnsWhat
  <2>2. CASE ~FactoryReturns(r)
    BY <2>2 DEF RunnerStep, WriteL2, Settle, SoftTimeout, HardTimeout, DiscardLate
  <2>3. QED
    BY <2>1, <2>2
<1>3. \A q \in Requests : JobActive(q)' => JobActive(q)
  <2>1. CASE FactoryReturns(r)
    <3>1. fac[r] = "running" /\ fac' = [fac EXCEPT ![r] = fac'[r]]
      BY <1>1, <2>1 DEF FactoryReturns
    <3>2. QED
      BY <1>1, <3>1 DEF JobActive
  <2>2. CASE WriteL2(r)
    <3>1. fac[r] = "writing" /\ fac' = [fac EXCEPT ![r] = fac'[r]]
      BY <1>1, <2>2 DEF WriteL2
    <3>2. QED
      BY <1>1, <3>1 DEF JobActive
  <2>3. CASE Settle(r)
    BY <1>1, <2>3 DEF Settle, JobActive
  <2>4. CASE SoftTimeout(r) \/ HardTimeout(r) \/ DiscardLate(r)
    BY <2>4 DEF SoftTimeout, HardTimeout, DiscardLate, JobActive
  <2>5. QED
    BY <2>1, <2>2, <2>3, <2>4 DEF RunnerStep
<1>4. /\ UNCHANGED l1 \/ l1'.ver = made[r].ver
      /\ l2' \in {l2, made[r]}
  <2>1. CASE FactoryReturns(r)
    <3>1. UNCHANGED l2
      BY <2>1 DEF FactoryReturns
    <3>2. QED
      BY <2>1, <3>1, FactoryReturnsWhat
  <2>2. CASE ~FactoryReturns(r)
    BY <2>2 DEF RunnerStep, WriteL2, Settle, SoftTimeout, HardTimeout, DiscardLate
  <2>3. QED
    BY <2>1, <2>2
<1>5. QED
  BY <1>1, <1>2, <1>3, <1>4 DEF VersionsBounded

LEMMA JobStepKeepsLatest ==
  ASSUME IInv, IInv', RunnerTypeOK, Places, VersionsBounded, JobsLatest,
         NEW r \in Requests, RunnerStep(r)
  PROVE  JobsLatest' /\ (Calm' => Calm)
<1>1. Calm' => Calm
  BY JobStepsAreLockSteps, JobStepKeepsPlaces, JobStepOwnsJob, CalmNeverReturns
<1>2. QED
  BY <1>1, JobStepKeepsBounds DEF JobsLatest

(* Under a calm lock the one that starts a job is alone. *)
LEMMA RunKeepsOrder ==
  ASSUME IInv, RunnerTypeOK, VersionsBounded, NEW r \in Requests, Holds(r),
         fac[r] = "none", Run(r), UNCHANGED <<lockVars, l1, l2, localItem, remoteItem>>
  PROVE  /\ VersionsBounded'
         /\ JobsLatest'
         /\ \A q \in Requests : q # r => made'[q] = made[q] /\ fac'[q] = fac[q]
<1>1. /\ runs' = runs + 1 /\ fac' = [fac EXCEPT ![r] = "running"]
      /\ made' = [made EXCEPT ![r].ver = runs + 1]
  BY DEF Run
<1>2. made \in [Requests -> Entries] /\ fac \in [Requests -> JobStates]
  BY DEF RunnerTypeOK
<1>3. \A q \in Requests : q # r => made'[q] = made[q] /\ fac'[q] = fac[q]
  BY <1>1, <1>2
<1>4. made'[r].ver = runs + 1
  BY <1>1, <1>2 DEF Entries
<1>5. VersionsBounded'
  <2>1. \A q \in Requests : made'[q].ver <= runs + 1
    BY <1>3, <1>4, VersionTypes DEF VersionsBounded
  <2>2. QED
    BY <1>1, <2>1, VersionTypes DEF VersionsBounded
<1>6. JobsLatest'
  <2> SUFFICES ASSUME Calm', NEW q \in Requests, JobActive(q)', q # r PROVE FALSE
    BY <1>1, <1>4 DEF JobsLatest
  <2>1. Holds(q) /\ ~crowded
    BY UnlockedStepKeepsPlace DEF Calm, lockVars
  <2>2. QED
    BY <2>1, OwnersAlone DEF SingleFlight
<1>7. QED
  BY <1>3, <1>5, <1>6

(* Steps that leave the jobs and the lock alone, or only release it. *)
LEMMA IdleStepKeepsLatest ==
  ASSUME JobsLatest, Calm' => Calm, UNCHANGED <<fac, made, runs>>
  PROVE  JobsLatest'
BY DEF JobsLatest, JobActive

LEMMA EnvironmentKeepsOrder ==
  ASSUME VersionsBounded, JobsLatest,
         UNCHANGED <<lockVars, fac, made, runs, localItem, remoteItem>>,
         l1' \in {l1, None}, l2' \in {l2, None}
  PROVE  VersionsBounded' /\ JobsLatest' /\ (Calm' => Calm)
<1>1. Calm' => Calm
  BY UnlockedStepKeepsPlace DEF Calm, JobActive, lockVars
<1>2. QED
  BY <1>1, IdleStepKeepsLatest DEF VersionsBounded

LEMMA InitOrder ==
  ASSUME NEW layouts, RunnerInit(layouts)
  PROVE  VersionsBounded /\ JobsLatest
<1>1. \A r \in Requests : made[r].ver = 0 /\ fac[r] = "none"
  BY DEF RunnerInit
<1>2. /\ l1 # None => l1.ver = 0
      /\ l2 # None => l2.ver = 0
      /\ \A r \in Requests : localItem[r] = None /\ remoteItem[r] = None
  BY DEF RunnerInit
<1>3. runs = 0
  BY DEF RunnerInit
<1>4. QED
  BY <1>1, <1>2, <1>3 DEF VersionsBounded, JobsLatest, JobActive

----------------------------------------------------------------------------
(* At time 0.                                                              *)

(* An entry read at time 0 counts as valid. *)
Usable(e) == e # None /\ (e.exp = None \/ e.exp > 0)

LEMMA ReadUsable ==
  ASSUME NEW e \in Entries \cup {None}
  PROVE  IsEntryValid(Read(e, 0)) <=> Usable(e)
<1>1. CASE e = None
  BY <1>1 DEF Read, IsEntryValid, Usable
<1>2. CASE e # None
  <2>1. Read(e, 0).graced <=> (e.exp # None /\ e.exp <= 0)
    BY <1>2 DEF Read, IsLogicallyExpired
  <2>3. Read(e, 0) \in Items
    BY <1>2 DEF Entries, Items, Read, IsLogicallyExpired
  <2>2. e.exp \in Nat \cup {None}
    BY <1>2 DEF Entries
  <2>4. Read(e, 0) # None
    BY <2>3, ItemsAssumption
  <2> QED  BY <1>2, <2>1, <2>2, <2>4 DEF IsEntryValid, Usable
<1> QED  BY <1>1, <1>2
=============================================================================
