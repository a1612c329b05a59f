--------------------------- MODULE HandlerProofs ---------------------------
(* TwoTierHandler uses the lock of the key only through Locks, for every   *)
(* set of requests, options, outcomes and bounds; what is proved of Locks  *)
(* therefore holds of getOrSet.                                            *)
EXTENDS TwoTierHandler, RunnerProofs

LEMMA HandlerStepsAreLockSteps ==
  ASSUME NEW r \in Requests, HandlerStep(r)
  PROVE  LocksStep(r) \/ UNCHANGED lockVars
<1>1. CASE Call(r)
  BY <1>1 DEF Call
<1>2. CASE AcquireLock(r)
  BY <1>2 DEF AcquireLock, LocksStep
<1>3. CASE LockFailed(r)
  BY <1>3 DEF LockFailed, LocksStep
<1>4. CASE Recheck(r)
  <2>1. UNCHANGED lockVars \/ Release(r)
    BY <1>4 DEF Recheck
  <2>2. QED
    BY <2>1 DEF LocksStep
<1>5. CASE ReadL2(r)
  BY <1>5 DEF ReadL2
<1>6. CASE ReturnRemote(r)
  BY <1>6 DEF ReturnRemote, LocksStep
<1>7. CASE RunFactory(r)
  BY <1>7 DEF RunFactory
<1>8. CASE Catch(r)
  BY <1>8 DEF Catch, LocksStep
<1>9. QED
  BY <1>1, <1>2, <1>3, <1>4, <1>5, <1>6, <1>7, <1>8 DEF HandlerStep

LEMMA StepsAreLockSteps == [Next]_vars => [LocksNext]_lockVars
<1> SUFFICES ASSUME [Next]_vars PROVE [LocksNext]_lockVars
  OBVIOUS
<1>1. CASE Tick
  BY <1>1 DEF Tick
<1>2. CASE Evict
  BY <1>2 DEF Evict
<1>3. ASSUME NEW r \in Requests, HandlerStep(r) \/ RunnerStep(r)
      PROVE  [LocksNext]_lockVars
  BY <1>3, HandlerStepsAreLockSteps, JobStepsAreLockSteps DEF LocksNext
<1>4. CASE UNCHANGED vars
  BY <1>4 DEF vars
<1>5. QED
  BY <1>1, <1>2, <1>3, <1>4 DEF Next

(* The handler only acquires, gives up and releases, so what is proved of  *)
(* Locks holds of its lock.                                                *)
LEMMA TwoTierImplementsLocks == Spec => LocksSpec
<1>1. Init => LocksInit
  BY DEF Init, RunnerInit
<1>2. QED
  BY <1>1, StepsAreLockSteps, PTL DEF Spec, LocksSpec

(* Single flight of getOrSet: two calls are inside the locked section of a *)
(* key at once only after a release that was repeated or left others       *)
(* waiting (two_tier_handler.ts:131-205).                                  *)
THEOREM TwoTierSingleFlight == Spec => []SingleFlight
BY TwoTierImplementsLocks, SingleFlightHolds, PTL

(* Timeouts, failures and background jobs lose no waiting call: a mutex    *)
(* with waiters stays held (two_tier_handler.ts:131-205).                  *)
THEOREM TwoTierWakeupsKept == Spec => []NoLostWakeup
BY TwoTierImplementsLocks, WakeupsKept, PTL

(* The calls of a key, their timeouts, failures and background jobs, use   *)
(* one lock that is passed on (two_tier_handler.ts:131-205).               *)
THEOREM TwoTierImplementsExclusion == Spec => ImplementsExclusion
BY TwoTierImplementsLocks, LocksImplementExclusion, PTL

----------------------------------------------------------------------------
(* Where the handler leaves its request.                                   *)

LEMMA HandlerStepKeepsPlaces ==
  ASSUME IInv, IInv', Places, NEW r \in Requests, HandlerStep(r)
  PROVE  Apart(r) /\ Places'
<1> USE DEF requestVars, jobVars, itemVars, boundVars, cacheVars, Goto, Return,
            Apart, BeforeLock, BeforeJob
<1>1. LocksStep(r) \/ UNCHANGED lockVars
  BY HandlerStepsAreLockSteps
<1>2. PlaceOf(r) /\ DOMAIN pc = Requests /\ DOMAIN fac = Requests
      /\ DOMAIN answer = Requests /\ DOMAIN opts = Requests
      /\ (pc[r] # "done" => r \notin gaveUp)
  BY DEF Places, PlaceOf
<1>3. SUFFICES Apart(r) /\ PlaceOf(r)'
  BY <1>1, PlacesByOwnStep
<1>4. CASE Call(r)
  <2>1. Apart(r) /\ pc[r] = "idle" /\ pc'[r] \in {"missed", "done"}
    BY <1>2, <1>4 DEF Call
  <2>2. mutexOf[r] = None /\ fac[r] = "none" /\ UNCHANGED <<lockVars, fac>>
    BY <1>2, <1>4, <2>1 DEF Call, PlaceOf
  <2>3. ~Holds(r) /\ ~Waits(r)
    BY <2>2 DEF Holds, Waits
  <2>4. QED
    BY <1>2, <2>1, <2>2, <2>3, UnlockedStepKeepsPlace DEF PlaceOf
<1>5. CASE AcquireLock(r)
  <2>1. Apart(r) /\ pc[r] = "missed" /\ pc'[r] = "locking" /\ UNCHANGED <<fac, gaveUp>>
    BY <1>2, <1>5 DEF AcquireLock, Acquire
  <2>2. QED
    BY <1>2, <2>1 DEF PlaceOf
<1>6. CASE LockFailed(r)
  <2>1. Apart(r) /\ pc[r] = "locking" /\ pc'[r] = "done" /\ UNCHANGED fac
    BY <1>2, <1>6 DEF LockFailed
  <2>2. r \in gaveUp' /\ fac[r] = "none"
    BY <1>2, <1>6, <2>1 DEF LockFailed, GiveUp, PlaceOf
  <2>3. QED
    BY <2>1, <2>2 DEF PlaceOf
<1>7. CASE Recheck(r)
  <2>1. Apart(r) /\ pc[r] = "locking" /\ UNCHANGED fac
    BY <1>2, <1>7 DEF Recheck
  <2>2. CASE Release(r) /\ pc'[r] = "done"
    BY <1>2, <2>1, <2>2, ReleasingKeepsPlace
  <2>3. CASE UNCHANGED lockVars /\ pc'[r] \in {"locked", "looked"}
    <3>1. Holds(r) /\ ~Waits(r) /\ fac[r] = "none"
      BY <1>2, <1>7, <2>1 DEF Recheck, Waits, PlaceOf
    <3>2. QED
      BY <1>2, <2>1, <2>3, <3>1, UnlockedStepKeepsPlace DEF PlaceOf
  <2>4. QED
    BY <1>2, <1>7, <2>2, <2>3 DEF Recheck
<1>8. CASE ReadL2(r)
  <2>1. Apart(r) /\ pc[r] = "locked" /\ UNCHANGED <<lockVars, fac, opts, tiers>>
    BY <1>2, <1>8 DEF ReadL2
  <2>2. Holds(r) /\ ~Waits(r) /\ r \notin gaveUp /\ fac[r] = "none"
    BY <1>2, <2>1 DEF PlaceOf
  <2>3. \/ pc'[r] = "looked"
        \/ pc'[r] = "done" /\ answer'[r].kind = "l2 error" /\ ~SuppressesL2Errors(r)
    <3>1. \/ pc'[r] = "looked"
          \/ pc'[r] = "done" /\ answer'[r] = Error("l2 error") /\ ~SuppressesL2Errors(r)
      BY <1>2, <1>8 DEF ReadL2
    <3>2. Error("l2 error").kind = "l2 error"
      BY DEF Error
    <3>3. ASSUME answer'[r] = Error("l2 error") PROVE answer'[r].kind = "l2 error"
      BY <3>2, <3>3, Zenon
    <3>4. QED
      BY <3>1, <3>3
  <2>4. SuppressesL2Errors(r)' <=> SuppressesL2Errors(r)
    BY <2>1 DEF SuppressesL2Errors
  <2>5. QED
    BY <2>1, <2>2, <2>3, <2>4, UnlockedStepKeepsPlace DEF PlaceOf
<1>9. CASE ReturnRemote(r)
  <2>1. Apart(r) /\ pc[r] = "looked" /\ pc'[r] = "done" /\ Release(r)
    BY <1>2, <1>9 DEF ReturnRemote
  <2>2. QED
    BY <1>2, <2>1, ReleasingKeepsPlace
<1>10. CASE RunFactory(r)
  <2>1. /\ Apart(r) /\ pc[r] = "looked" /\ pc'[r] \in {"done", "awaiting"}
        /\ fac'[r] = "running" /\ UNCHANGED lockVars
    BY <1>2, <1>10 DEF RunFactory, Run
  <2>2. JobActive(r)' /\ ~Waits(r) /\ r \notin gaveUp
    BY <1>2, <2>1 DEF PlaceOf, JobActive
  <2>3. QED
    BY <2>1, <2>2, UnlockedStepKeepsPlace DEF PlaceOf
<1>11. CASE Catch(r)
  <2>1. Apart(r) /\ pc[r] = "failed" /\ pc'[r] = "done" /\ Release(r)
    BY <1>2, <1>11 DEF Catch, ApplyFallback
  <2>2. QED
    BY <1>2, <2>1, ReleasingKeepsPlace
<1>12. QED
  BY <1>4, <1>5, <1>6, <1>7, <1>8, <1>9, <1>10, <1>11 DEF HandlerStep

LEMMA StepKeepsPlaces == IInv /\ IInv' /\ Places /\ [Next]_vars => Places'
<1> SUFFICES ASSUME IInv, IInv', Places, [Next]_vars PROVE Places'
  OBVIOUS
<1>1. CASE Tick \/ Evict
  BY <1>1, EnvironmentKeepsPlaces DEF Tick, Evict, requestVars, jobVars
<1>2. ASSUME NEW r \in Requests, HandlerStep(r) \/ RunnerStep(r) PROVE Places'
  BY <1>2, HandlerStepKeepsPlaces, JobStepKeepsPlaces
<1>3. CASE UNCHANGED vars
  BY <1>3, EnvironmentKeepsPlaces DEF vars
<1>4. QED
  BY <1>1, <1>2, <1>3 DEF Next

LEMMA PlacesInvariance == Spec => []Places
<1>1. Init => Places
  BY RunnerInitPlaces DEF Init
<1>2. Spec => []IInv
  BY TwoTierImplementsLocks, Invariance, PTL
<1>3. QED
  BY <1>1, <1>2, StepKeepsPlaces, PTL DEF Spec

(* Whatever the options, timeouts and failures, a call that is over and    *)
(* whose job is over has given the lock back; the one exception is the     *)
(* throw of the L2 read under the lock (two_tier_handler.ts:153-204).      *)
THEOREM TwoTierLockGivenBack == Spec => []LockGivenBack
<1>1. Places => LockGivenBack
  BY DEF Places, PlaceOf, LockGivenBack, TookLock
<1>2. QED
  BY <1>1, PlacesInvariance, PTL

----------------------------------------------------------------------------
(* Types.                                                                  *)

LEMMA HandlerStepKeepsShape ==
  ASSUME Shape(Labels), Places, LocksTypeOK', NEW r \in Requests, HandlerStep(r)
  PROVE  Shape(Labels)'
<1> USE DEF requestVars, jobVars, itemVars, boundVars, cacheVars
<1>1. /\ RunnerTypeOK /\ pc \in [Requests -> Labels] /\ OptsChosen /\ RunsCounted
      /\ answer \in [Requests -> Answers] /\ opts \in [Requests -> Options \cup {None}]
      /\ l1 \in Entries \cup {None} /\ l2 \in Entries \cup {None}
      /\ localItem \in [Requests -> Items \cup {None}]
      /\ remoteItem \in [Requests -> Items \cup {None}]
  BY DEF Shape, RunnerTypeOK, Answers
<1>2. Read(l1, now) \in Items \cup {None} /\ Read(l2, now) \in Items \cup {None}
  BY <1>1, ReadTypes
<1>3. \A item \in Items : Hit(item) \in Answers
  BY AnswerTypes
<1>4. \A kind \in Kinds : Error(kind) \in Answers
  BY AnswerTypes
<1>5. \A label \in Labels : Goto(r, label) => pc' \in [Requests -> Labels]
  BY <1>1 DEF Goto
<1>6. \A a \in Answers : Return(r, a) =>
         pc' \in [Requests -> Labels] /\ answer' \in [Requests -> Answers]
  BY <1>1 DEF Return, Goto, Labels
(* What is left to show of a step that starts no job. *)
<1>7. SUFFICES ASSUME ~RunFactory(r)
      PROVE  /\ UNCHANGED <<tiers, now, fac, made, runs, unhandled, evictions>>
             /\ l1' \in Entries \cup {None} /\ l2' \in Entries \cup {None}
             /\ opts' \in [Requests -> Options \cup {None}]
             /\ localItem' \in [Requests -> Items \cup {None}]
             /\ remoteItem' \in [Requests -> Items \cup {None}]
             /\ answer' \in [Requests -> Answers] /\ pc' \in [Requests -> Labels]
             /\ faults' \in 0..MaxFaults
             /\ OptsChosen'
  <2>1. CASE RunFactory(r)
    <3>1. pc[r] = "looked" /\ Run(r)
          /\ UNCHANGED <<tiers, now, l1, l2, opts, localItem, remoteItem, evictions, faults>>
      BY <2>1 DEF RunFactory
    <3>2. fac[r] = "none"
      BY <3>1 DEF Places, PlaceOf, BeforeJob
    <3>3. {"done", "awaiting"} \subseteq Labels
      BY DEF Labels
    <3>4. QED
      BY <3>1, <3>2, <3>3, RunKeepsShape
  <2>2. CASE ~RunFactory(r)
    BY <1>1, <1>7, <2>2 DEF Shape, RunnerTypeOK, Answers, RunsCounted, Started
  <2>3. QED
    BY <2>1, <2>2
<1>8. faults \in 0..MaxFaults
  BY <1>1 DEF RunnerTypeOK
<1>9. CASE Call(r)
  <2>1. PICK o \in Options :
          /\ opts' = [opts EXCEPT ![r] = o]
          /\ \/ Goto(r, "missed") /\ UNCHANGED <<localItem, answer>>
             \/ /\ localItem' = [localItem EXCEPT ![r] = Read(l1, now)]
                /\ \/ Read(l1, now) # None /\ Return(r, Hit(Read(l1, now)))
                   \/ Goto(r, "missed") /\ UNCHANGED answer
    BY <1>9 DEF Call, IsEntryValid
  <2>2. /\ UNCHANGED <<tiers, now, l1, l2, remoteItem, fac, made, runs, unhandled,
                       evictions, faults>>
    BY <1>9 DEF Call
  <2>3. answer' \in [Requests -> Answers] /\ pc' \in [Requests -> Labels]
    BY <1>1, <1>2, <1>3, <1>5, <1>6, <2>1 DEF Labels
  <2>4. /\ localItem' \in [Requests -> Items \cup {None}]
        /\ opts' \in [Requests -> Options \cup {None}]
    BY <1>1, <1>2, <2>1
  <2>5. OptsChosen'
    BY <1>1, <2>1 DEF OptsChosen, Goto, Return
  <2>6. QED
    BY <1>1, <1>8, <2>2, <2>3, <2>4, <2>5
<1>10. ASSUME UNCHANGED <<opts>>, pc[r] # "idle",
              \A q \in Requests : q # r => pc'[q] = pc[q]
       PROVE  OptsChosen'
  BY <1>1, <1>10 DEF OptsChosen
<1>11. \A label : Goto(r, label) => \A q \in Requests : q # r => pc'[q] = pc[q]
  BY <1>1 DEF Goto
<1>12. CASE AcquireLock(r)
  <2>1. /\ UNCHANGED <<tiers, now, l1, l2, opts, localItem, remoteItem, fac, made,
                       runs, unhandled, answer, evictions, faults>>
        /\ Goto(r, "locking") /\ pc[r] = "missed"
    BY <1>12 DEF AcquireLock
  <2>2. QED
    BY <1>1, <1>5, <1>8, <1>10, <1>11, <2>1 DEF Labels
<1>13. CASE LockFailed(r)
  <2>1. /\ UNCHANGED <<tiers, now, l1, l2, opts, localItem, remoteItem, fac, made,
                       runs, unhandled, evictions, faults>>
        /\ Return(r, GracedValueOr(r, localItem[r], "lock timeout")) /\ pc[r] = "locking"
    BY <1>13 DEF LockFailed
  <2>2. GracedValueOr(r, localItem[r], "lock timeout") \in Answers
    BY <1>1, <1>3, <1>4 DEF GracedValueOr, Kinds
  <2>3. QED
    BY <1>1, <1>6, <1>8, <1>10, <1>11, <2>1, <2>2 DEF Return
<1>14. CASE Recheck(r)
  <2>1. /\ UNCHANGED <<tiers, now, l1, l2, opts, remoteItem, fac, made, runs,
                       unhandled, evictions, faults>>
        /\ pc[r] = "locking"
        /\ \/ Goto(r, "looked") /\ UNCHANGED <<localItem, answer>>
           \/ /\ localItem' = [localItem EXCEPT ![r] = Read(l1, now)]
              /\ \/ Read(l1, now) # None /\ Return(r, Hit(Read(l1, now)))
                 \/ Goto(r, "locked") /\ UNCHANGED answer
                 \/ Goto(r, "looked") /\ UNCHANGED answer
    BY <1>14 DEF Recheck, IsEntryValid
  <2>2. answer' \in [Requests -> Answers] /\ pc' \in [Requests -> Labels]
    BY <1>1, <1>2, <1>3, <1>5, <1>6, <2>1 DEF Labels
  <2>3. OptsChosen'
    BY <1>10, <1>11, <2>1 DEF Return
  <2>4. localItem' \in [Requests -> Items \cup {None}]
    BY <1>1, <1>2, <2>1
  <2>5. QED
    BY <1>1, <1>8, <2>1, <2>2, <2>3, <2>4
<1>15. CASE ReadL2(r)
  <2>1. /\ UNCHANGED <<tiers, now, l1, l2, opts, localItem, fac, made, runs,
                       unhandled, evictions>>
        /\ pc[r] = "locked"
        /\ UNCHANGED faults \/ L2Fails
        /\ \/ remoteItem' = [remoteItem EXCEPT ![r] = Read(l2, now)]
           \/ UNCHANGED remoteItem
        /\ \/ Goto(r, "looked") /\ UNCHANGED answer
           \/ Return(r, Error("l2 error"))
    BY <1>15 DEF ReadL2
  <2>2. Error("l2 error") \in Answers
    BY <1>4 DEF Kinds
  <2>3. answer' \in [Requests -> Answers] /\ pc' \in [Requests -> Labels]
    BY <1>1, <1>5, <1>6, <2>1, <2>2 DEF Labels
  <2>4. OptsChosen'
    BY <1>10, <1>11, <2>1 DEF Return
  <2>5. remoteItem' \in [Requests -> Items \cup {None}]
    BY <1>1, <1>2, <2>1
  <2>6. faults' \in 0..MaxFaults
    <3>1. UNCHANGED faults \/ L2Fails
      BY <2>1
    <3>2. MaxFaults \in Nat
      BY BoundsAssumption
    <3>3. QED
      BY <1>8, <3>1, <3>2 DEF L2Fails
  <2>7. QED
    BY <1>1, <2>1, <2>3, <2>4, <2>5, <2>6
<1>16. CASE ReturnRemote(r)
  <2>1. /\ UNCHANGED <<tiers, now, l2, opts, localItem, remoteItem, fac, made, runs,
                       unhandled, evictions, faults>>
        /\ pc[r] = "looked" /\ remoteItem[r] # None
        /\ Return(r, Hit(remoteItem[r])) /\ l1' = Serialized(remoteItem[r])
    BY <1>16 DEF ReturnRemote, IsEntryValid
  <2>2. Hit(remoteItem[r]) \in Answers /\ Serialized(remoteItem[r]) \in Entries
    BY <1>1, <1>3, <2>1 DEF Serialized, Items, Entries
  <2>3. QED
    BY <1>1, <1>6, <1>8, <1>10, <1>11, <2>1, <2>2 DEF Return
<1>17. CASE Catch(r)
  <2>1. /\ UNCHANGED <<tiers, now, l2, opts, localItem, remoteItem, fac, made, runs,
                       unhandled, evictions, faults>>
        /\ pc[r] = "failed"
        /\ \/ StaleItem(r) # None /\ ApplyFallback(r, StaleItem(r))
           \/ Return(r, Error("factory error")) /\ UNCHANGED l1
    BY <1>17 DEF Catch
  <2>2. opts[r] \in Options /\ StaleItem(r) \in Items \cup {None}
    BY <1>1, <2>1, StaleItemTypes DEF OptsChosen
  <2>3. ASSUME StaleItem(r) # None
        PROVE  /\ BackedOff(StaleItem(r), opts[r]) \in Entries
               /\ [Hit(StaleItem(r)) EXCEPT !.graced = TRUE] \in Answers
    <3>1. BackedOff(StaleItem(r), opts[r]) \in Entries
      BY <2>2, <2>3, BackedOffTypes
    <3>2. Hit(StaleItem(r)) \in Answers
      BY <1>3, <2>2, <2>3
    <3>3. QED
      BY <3>1, <3>2 DEF Answers
  <2>4. Error("factory error") \in Answers
    BY <1>4 DEF Kinds
  <2>5. \/ /\ StaleItem(r) # None /\ l1' \in {l1, BackedOff(StaleItem(r), opts[r])}
           /\ Return(r, [Hit(StaleItem(r)) EXCEPT !.graced = TRUE])
        \/ Return(r, Error("factory error")) /\ UNCHANGED l1
    BY <2>1 DEF ApplyFallback
  <2>6. /\ l1' \in Entries \cup {None} /\ answer' \in [Requests -> Answers]
        /\ pc' \in [Requests -> Labels]
    BY <1>1, <1>6, <2>3, <2>4, <2>5
  <2>7. OptsChosen'
    BY <1>10, <1>11, <2>1, <2>5 DEF Return
  <2>8. QED
    BY <1>1, <1>8, <2>1, <2>6, <2>7
<1>18. QED
  BY <1>7, <1>9, <1>12, <1>13, <1>14, <1>15, <1>16, <1>17 DEF HandlerStep

LEMMA StepKeepsShape ==
  LocksTypeOK' /\ Places /\ Shape(Labels) /\ [Next]_vars => Shape(Labels)'
<1> SUFFICES ASSUME LocksTypeOK', Places, Shape(Labels), [Next]_vars
             PROVE  Shape(Labels)'
  OBVIOUS
<1>1. CASE Tick \/ Evict
  BY <1>1, EnvironmentKeepsShape
<1>2. ASSUME NEW r \in Requests, HandlerStep(r) PROVE Shape(Labels)'
  BY <1>2, HandlerStepKeepsShape
<1>3. ASSUME NEW r \in Requests, RunnerStep(r) PROVE Shape(Labels)'
  <2>1. {"done", "failed"} \subseteq Labels
    BY DEF Labels
  <2>2. QED
    BY <1>3, <2>1, JobStepKeepsShape
<1>4. CASE UNCHANGED vars
  BY <1>4, StutterKeepsShape
<1>5. QED
  BY <1>1, <1>2, <1>3, <1>4 DEF Next

LEMMA ShapeInvariance == Spec => []Shape(Labels)
<1>1. Init => Shape(Labels)
  <2>1. "idle" \in Labels /\ {{"l1"}, {"l1", "l2"}} \subseteq SUBSET {"l1", "l2"}
    BY DEF Labels
  <2>2. QED
    BY <2>1, RunnerInitShape DEF Init
<1>2. Spec => []LocksTypeOK
  BY TwoTierImplementsLocks, LocksTypeCorrect, PTL
<1>3. QED
  BY <1>1, <1>2, StepKeepsShape, PlacesInvariance, PTL DEF Spec

(* For any finite set of requests and any options every variable of        *)
(* getOrSet keeps its type: no request is answered with an item that is    *)
(* not there, and no factory is started twice for one call                 *)
(* (two_tier_handler.ts:77-205, factory_runner.ts:61-111).                 *)
THEOREM TwoTierTypeCorrect == Spec => []TypeOK
<1>1. Shape(Labels) => TypeOK
  BY DEF Shape, TypeOK
<1>2. QED
  BY <1>1, ShapeInvariance, PTL

----------------------------------------------------------------------------
(* L1 stays ahead of L2.                                                   *)

Layered == "l1" \in tiers

(* L2 is read under the lock. *)
NotReadYet == \A r \in Requests :
  pc[r] \in {"idle", "missed", "locking", "locked"} => remoteItem[r] = None

L1Ahead == Calm =>
  /\ l1 # None /\ l2 # None => l1.ver >= l2.ver
  /\ \A r \in Requests :
       /\ fac[r] = "writing" /\ l1 # None => l1.ver >= made[r].ver
       /\ pc[r] = "looked" /\ remoteItem[r] # None /\ l2 # None =>
            remoteItem[r].ver >= l2.ver

Order == VersionsBounded /\ JobsLatest /\ Layered /\ NotReadYet /\ L1Ahead

LEMMA HandlerStepOwnsJob ==
  ASSUME Places, NEW r \in Requests, HandlerStep(r)
  PROVE  OwnJob(r)
<1>1. CASE Catch(r)
  BY <1>1 DEF Catch, OwnJob
<1>2. CASE ~Catch(r)
  <2>1. pc[r] \in BeforeJob
    BY <1>2 DEF HandlerStep, Call, AcquireLock, LockFailed, Recheck, ReadL2,
                ReturnRemote, RunFactory, BeforeJob, BeforeLock
  <2>2. QED
    BY <2>1 DEF Places, PlaceOf, OwnJob, JobActive
<1>3. QED
  BY <1>1, <1>2

LEMMA HandlerCalmNeverReturns ==
  ASSUME IInv, IInv', Places, NEW r \in Requests, HandlerStep(r)
  PROVE  Calm' => Calm
BY HandlerStepsAreLockSteps, HandlerStepKeepsPlaces, HandlerStepOwnsJob,
   CalmNeverReturns

(* The request that holds the lock in calm is the only one at its place. *)
LEMMA AloneInSection ==
  ASSUME IInv, Places, Calm, NEW r \in Requests, Holds(r), NEW q \in Requests,
         pc[q] \in {"locked", "looked"} \/ JobActive(q)
  PROVE  q = r
<1>1. Holds(q) /\ ~crowded
  BY DEF Places, PlaceOf, Calm
<1>2. QED
  BY <1>1, OwnersAlone DEF SingleFlight

LEMMA JobStepKeepsOrder ==
  ASSUME IInv, IInv', RunnerTypeOK, pc \in [Requests -> Labels], Places, Order,
         NEW r \in Requests, RunnerStep(r)
  PROVE  Order'
<1> USE DEF requestVars, jobVars, itemVars, boundVars, cacheVars
<1>1. /\ VersionsBounded' /\ JobsLatest' /\ (Calm' => Calm)
      /\ UNCHANGED <<runs, localItem, remoteItem>>
      /\ \A q \in Requests : made'[q].ver = made[q].ver
  BY JobStepKeepsBounds, JobStepKeepsLatest DEF Order
<1>2. UNCHANGED tiers
  BY DEF RunnerStep, FactoryReturns, WriteL2, Settle, SoftTimeout, HardTimeout,
         DiscardLate
<1>3. \A q \in Requests : pc'[q] = pc[q] \/ pc'[q] \in {"done", "failed"}
  <2>1. CASE Settle(r)
    <3>1. \/ UNCHANGED pc
          \/ Goto(r, "done") \/ Goto(r, "failed")
      BY <2>1 DEF Settle, Return
    <3>2. QED
      BY <3>1 DEF Goto
  <2>2. CASE ~Settle(r)
    BY <2>2 DEF RunnerStep, FactoryReturns, WriteL2, SoftTimeout, HardTimeout,
                DiscardLate, Return, Goto
  <2>3. QED
    BY <2>1, <2>2
<1>4. fac \in [Requests -> JobStates] /\ made \in [Requests -> Entries]
  BY DEF RunnerTypeOK
<1>5. SUFFICES ASSUME Calm' PROVE L1Ahead'
  BY <1>1, <1>2, <1>3 DEF Order, Layered, NotReadYet, L1Ahead
<1>6. Calm /\ JobsLatest /\ L1Ahead /\ VersionsBounded
  BY <1>1, <1>5 DEF Order
<1>7. CASE FactoryReturns(r)
  <2>1. UNCHANGED <<l2, pc>> /\ fac' = [fac EXCEPT ![r] = fac'[r]]
    BY <1>4, <1>7 DEF FactoryReturns
  <2>2. JobActive(r) /\ made[r].ver = runs
    BY <1>6, <1>7, FactoryReturnsWhat DEF JobActive, JobsLatest
  <2>3. \/ UNCHANGED l1 /\ fac'[r] # "writing"
        \/ l1'.ver = runs
    BY <1>7, <2>2, FactoryReturnsWhat DEF Order, Layered
  <2>4. CASE UNCHANGED l1 /\ fac'[r] # "writing"
    BY <1>1, <1>4, <1>6, <2>1, <2>4 DEF L1Ahead
  <2>5. CASE l1'.ver = runs
    BY <1>1, <1>6, <2>1, <2>5, VersionTypes DEF L1Ahead, VersionsBounded
  <2>6. QED
    BY <2>3, <2>4, <2>5
<1>8. CASE WriteL2(r)
  <2>1. /\ fac[r] = "writing" /\ UNCHANGED <<l1, pc, made>>
        /\ l2' \in {l2, made[r]}
        /\ \A q \in Requests : fac'[q] = "writing" => fac[q] = "writing"
    BY <1>4, <1>8 DEF WriteL2
  <2>2. \A q \in Requests : pc[q] # "looked"
    <3>1. JobActive(r) /\ Holds(r)
      BY <1>6, <2>1 DEF JobActive, Calm
    <3>2. ASSUME NEW q \in Requests, pc[q] = "looked" PROVE FALSE
      <4>1. q = r
        BY <1>6, <3>1, <3>2, AloneInSection
      <4>2. QED
        BY <2>1, <3>2, <4>1 DEF Places, PlaceOf, BeforeJob
    <3>3. QED
      BY <3>2
  <2>3. QED
    BY <1>6, <2>1, <2>2 DEF L1Ahead
<1>9. CASE Settle(r) \/ SoftTimeout(r) \/ HardTimeout(r) \/ DiscardLate(r)
  <2>1. /\ UNCHANGED <<l1, l2, made>>
        /\ \A q \in Requests : fac'[q] = "writing" => fac[q] = "writing"
    BY <1>4, <1>9 DEF Settle, SoftTimeout, HardTimeout, DiscardLate
  <2>2. QED
    BY <1>1, <1>3, <1>6, <2>1 DEF L1Ahead
<1>10. QED
  BY <1>7, <1>8, <1>9 DEF RunnerStep

LEMMA HandlerStepKeepsOrder ==
  ASSUME IInv, IInv', RunnerTypeOK, pc \in [Requests -> Labels], Places, Order,
         NEW r \in Requests, HandlerStep(r)
  PROVE  Order'
<1> USE DEF requestVars, jobVars, itemVars, boundVars, cacheVars, Goto, Return
<1>1. Calm' => Calm
  BY HandlerCalmNeverReturns
<1>2. VersionsBounded /\ JobsLatest /\ Layered /\ NotReadYet /\ L1Ahead
  BY DEF Order
<1>3. /\ localItem \in [Requests -> Items \cup {None}]
      /\ remoteItem \in [Requests -> Items \cup {None}]
  BY DEF RunnerTypeOK
<1>4. /\ Read(l1, now) # None => l1 # None /\ Read(l1, now).ver = l1.ver
      /\ Read(l2, now) # None => l2 # None /\ Read(l2, now).ver = l2.ver
      /\ l2 # None => Read(l2, now).ver = l2.ver
  BY DEF Read
<1>5. \A q \in Requests : q # r => pc'[q] = pc[q]
  BY DEF HandlerStep, Call, AcquireLock, LockFailed, Recheck, ReadL2, ReturnRemote,
         RunFactory, Run, Catch, ApplyFallback
<1>6. CASE Call(r)
  <2>1. /\ UNCHANGED <<lockVars, tiers, l1, l2, remoteItem, fac, made, runs>>
        /\ pc[r] = "idle" /\ pc'[r] \in {"missed", "done"}
        /\ UNCHANGED localItem \/ localItem' = [localItem EXCEPT ![r] = Read(l1, now)]
    BY <1>6 DEF Call
  <2>2. VersionsBounded' /\ JobsLatest'
    BY <1>1, <1>2, <1>3, <1>4, <2>1, IdleStepKeepsLatest DEF VersionsBounded
  <2>3. Layered' /\ NotReadYet' /\ L1Ahead'
    BY <1>1, <1>2, <1>5, <2>1 DEF Layered, NotReadYet, L1Ahead
  <2>4. QED
    BY <2>2, <2>3 DEF Order
<1>7. CASE AcquireLock(r) \/ LockFailed(r)
  <2>1. /\ UNCHANGED <<tiers, l1, l2, localItem, remoteItem, fac, made, runs>>
        /\ pc[r] \in {"missed", "locking"} /\ pc'[r] \in {"locking", "done"}
    BY <1>7 DEF AcquireLock, LockFailed
  <2>2. VersionsBounded' /\ JobsLatest'
    BY <1>1, <1>2, <2>1, IdleStepKeepsLatest DEF VersionsBounded
  <2>3. Layered' /\ NotReadYet' /\ L1Ahead'
    BY <1>1, <1>2, <1>5, <2>1 DEF Layered, NotReadYet, L1Ahead
  <2>4. QED
    BY <2>2, <2>3 DEF Order
<1>8. CASE Recheck(r)
  <2>1. /\ UNCHANGED <<tiers, l1, l2, remoteItem, fac, made, runs>>
        /\ pc[r] = "locking" /\ pc'[r] \in {"locked", "looked", "done"}
        /\ UNCHANGED localItem \/ localItem' = [localItem EXCEPT ![r] = Read(l1, now)]
    BY <1>8 DEF Recheck
  <2>2. VersionsBounded' /\ JobsLatest'
    BY <1>1, <1>2, <1>3, <1>4, <2>1, IdleStepKeepsLatest DEF VersionsBounded
  <2>3. remoteItem[r] = None
    BY <1>2, <2>1 DEF NotReadYet
  <2>4. Layered' /\ NotReadYet' /\ L1Ahead'
    BY <1>1, <1>2, <1>5, <2>1, <2>3 DEF Layered, NotReadYet, L1Ahead
  <2>5. QED
    BY <2>2, <2>4 DEF Order
<1>9. CASE ReadL2(r)
  <2>1. /\ UNCHANGED <<tiers, l1, l2, localItem, fac, made, runs>>
        /\ pc[r] = "locked" /\ pc'[r] \in {"looked", "done"}
        /\ UNCHANGED remoteItem \/ remoteItem' = [remoteItem EXCEPT ![r] = Read(l2, now)]
    BY <1>9 DEF ReadL2
  <2>2. VersionsBounded' /\ JobsLatest'
    BY <1>1, <1>2, <1>3, <1>4, <2>1, IdleStepKeepsLatest DEF VersionsBounded
  <2>3. remoteItem[r] = None
    BY <1>2, <2>1 DEF NotReadYet
  <2>4. l2 # None => l2.ver >= l2.ver
    BY VersionTypes
  <2>5. Layered' /\ NotReadYet' /\ L1Ahead'
    BY <1>1, <1>2, <1>3, <1>4, <1>5, <2>1, <2>3, <2>4 DEF Layered, NotReadYet, L1Ahead
  <2>6. QED
    BY <2>2, <2>5 DEF Order
<1>10. CASE ReturnRemote(r)
  <2>1. /\ UNCHANGED <<tiers, l2, localItem, remoteItem, fac, made, runs>>
        /\ pc[r] = "looked" /\ pc'[r] = "done" /\ remoteItem[r] # None
        /\ l1'.ver = remoteItem[r].ver
    BY <1>10 DEF ReturnRemote, IsEntryValid, Serialized
  <2>2. VersionsBounded' /\ JobsLatest'
    BY <1>1, <1>2, <2>1, IdleStepKeepsLatest DEF VersionsBounded
  <2>3. ASSUME Calm' PROVE \A q \in Requests : fac[q] # "writing"
    <3>1. Calm /\ Holds(r)
      BY <1>1, <2>1, <2>3 DEF Places, PlaceOf
    <3>2. ASSUME NEW q \in Requests, fac[q] = "writing" PROVE FALSE
      <4>1. q = r
        BY <3>1, <3>2, AloneInSection DEF JobActive
      <4>2. QED
        BY <2>1, <3>2, <4>1 DEF Places, PlaceOf, BeforeJob
    <3>3. QED
      BY <3>2
  <2>4. Layered' /\ NotReadYet' /\ L1Ahead'
    BY <1>1, <1>2, <1>5, <2>1, <2>3 DEF Layered, NotReadYet, L1Ahead
  <2>5. QED
    BY <2>2, <2>4 DEF Order
<1>11. CASE RunFactory(r)
  <2>1. /\ UNCHANGED <<lockVars, tiers, l1, l2, localItem, remoteItem>>
        /\ pc[r] = "looked" /\ pc'[r] \in {"awaiting", "done"} /\ Run(r)
    BY <1>11 DEF RunFactory, Run
  <2>2. Holds(r) /\ fac[r] = "none"
    BY <2>1 DEF Places, PlaceOf, BeforeJob
  <2>3. /\ VersionsBounded' /\ JobsLatest'
        /\ \A q \in Requests : q # r => made'[q] = made[q] /\ fac'[q] = fac[q]
    BY <1>2, <2>1, <2>2, RunKeepsOrder
  <2>4. fac'[r] = "running"
    BY <2>1 DEF Run, RunnerTypeOK
  <2>5. Layered' /\ NotReadYet' /\ L1Ahead'
    BY <1>1, <1>2, <1>5, <2>1, <2>3, <2>4 DEF Layered, NotReadYet, L1Ahead
  <2>6. QED
    BY <2>3, <2>5 DEF Order
<1>12. CASE Catch(r)
  <2>1. /\ UNCHANGED <<tiers, l2, localItem, remoteItem, fac, made, runs>>
        /\ pc[r] = "failed" /\ pc'[r] = "done" /\ Release(r)
    BY <1>12 DEF Catch, ApplyFallback
  <2>2. ~Calm'
    <3>1. ~Holds(r)'
      BY <2>1, ReleaseLeavesLock
    <3>2. CASE r \in released
      BY <2>1, <3>2 DEF Release, Calm
    <3>3. CASE JobActive(r)
      BY <2>1, <3>1, <3>3 DEF Calm, JobActive
    <3>4. QED
      BY <2>1, <3>2, <3>3 DEF Places, PlaceOf
  <2>3. l1' # None => l1'.ver <= runs
    <3>1. CASE UNCHANGED l1
      BY <1>2, <3>1 DEF VersionsBounded
    <3>2. CASE StaleItem(r) # None /\ l1' = BackedOff(StaleItem(r), opts[r])
      <4>1. l1'.ver = StaleItem(r).ver
        BY <3>2 DEF BackedOff
      <4>2. StaleItem(r).ver <= runs
        BY <1>2, <3>2 DEF StaleItem, VersionsBounded
      <4>3. QED
        BY <4>1, <4>2
    <3>3. QED
      BY <1>12, <3>1, <3>2 DEF Catch, ApplyFallback
  <2>4. VersionsBounded' /\ JobsLatest'
    BY <1>2, <2>1, <2>2, <2>3 DEF VersionsBounded, JobsLatest
  <2>5. Layered' /\ NotReadYet' /\ L1Ahead'
    BY <1>2, <1>5, <2>1, <2>2 DEF Layered, NotReadYet, L1Ahead
  <2>6. QED
    BY <2>4, <2>5 DEF Order
<1>13. QED
  BY <1>6, <1>7, <1>8, <1>9, <1>10, <1>11, <1>12 DEF HandlerStep

LEMMA StepKeepsOrder ==
  IInv /\ IInv' /\ TypeOK /\ Places /\ Order /\ [Next]_vars => Order'
<1> SUFFICES ASSUME IInv, IInv', TypeOK, Places, Order, [Next]_vars PROVE Order'
  OBVIOUS
<1>1. RunnerTypeOK /\ pc \in [Requests -> Labels]
  BY DEF TypeOK
<1>2. CASE Tick \/ Evict \/ UNCHANGED vars
  <2>1. /\ UNCHANGED <<lockVars, tiers, pc, fac, made, runs, localItem, remoteItem>>
        /\ l1' \in {l1, None} /\ l2' \in {l2, None}
    BY <1>2 DEF Tick, Evict, vars, requestVars, jobVars, cacheVars
  <2>2. VersionsBounded' /\ JobsLatest' /\ (Calm' => Calm)
    BY <2>1, EnvironmentKeepsOrder DEF Order
  <2>3. QED
    BY <2>1, <2>2 DEF Order, Layered, NotReadYet, L1Ahead
<1>3. ASSUME NEW r \in Requests, HandlerStep(r) \/ RunnerStep(r) PROVE Order'
  BY <1>1, <1>3, HandlerStepKeepsOrder, JobStepKeepsOrder
<1>4. QED
  BY <1>2, <1>3 DEF Next

LEMMA OrderInvariance == Spec => []Order
<1>1. Init => Order
  <2> SUFFICES ASSUME Init PROVE Order
    OBVIOUS
  <2>1. VersionsBounded /\ JobsLatest
    BY InitOrder DEF Init
  <2>2. /\ "l1" \in tiers
        /\ l1 # None => l1.ver = 0
        /\ l2 # None => l2.ver = 0
        /\ \A r \in Requests : remoteItem[r] = None /\ fac[r] = "none"
    BY DEF Init, RunnerInit
  <2>3. QED
    BY <2>1, <2>2 DEF Order, Layered, NotReadYet, L1Ahead
<1>2. Spec => []IInv
  BY TwoTierImplementsLocks, Invariance, PTL
<1>3. QED
  BY <1>1, <1>2, StepKeepsOrder, PlacesInvariance, TwoTierTypeCorrect, PTL DEF Spec

(* For any number of calls, options and failures: as long as calls are one *)
(* at a time under the lock, L1 never holds an older value than L2         *)
(* (cache_stack.ts:166-181, two_tier_handler.ts:158-204).                  *)
THEOREM TwoTierL1Ahead == Spec => []L1NotBehindL2
<1>1. Order => L1NotBehindL2
  BY DEF Order, L1Ahead, L1NotBehindL2
<1>2. QED
  BY <1>1, OrderInvariance, PTL

----------------------------------------------------------------------------
(* Rejections nobody handles.                                              *)

(* A job is rejected because its factory returned undefined, so that it    *)
(* made no entry, or because an L2 error is not to be suppressed.          *)
RejectedFor(r) ==
  /\ fac[r] \in {"none", "running"} => made[r].exp = None
  /\ fac[r] = "rejected" => (SuppressesL2Errors(r) => made[r].exp = None)
  /\ r \in unhandled =>
       fac[r] = "settled" /\ (SuppressesL2Errors(r) => made[r].exp = None)

Rejections == \A r \in Requests : RejectedFor(r)

LEMMA JobStepKeepsRejections ==
  ASSUME RunnerTypeOK, Rejections, NEW r \in Requests, RunnerStep(r)
  PROVE  Rejections'
<1> USE DEF requestVars, jobVars, itemVars, boundVars, cacheVars
<1>1. /\ fac \in [Requests -> JobStates] /\ made \in [Requests -> Entries]
      /\ UNCHANGED <<tiers, opts>>
  BY DEF RunnerTypeOK, RunnerStep, FactoryReturns, WriteL2, Settle, SoftTimeout,
         HardTimeout, DiscardLate
<1>2. \A q \in Requests : SuppressesL2Errors(q)' <=> SuppressesL2Errors(q)
  BY <1>1 DEF SuppressesL2Errors
<1>3. CASE FactoryReturns(r)
  <2> DEFINE entry == [made[r] EXCEPT !.exp = LogicalTtlFromNow(opts[r], now)]
  <2>1. PICK outcome \in Outcomes, next \in JobStates :
          /\ fac[r] = "running" /\ fac' = [fac EXCEPT ![r] = next]
          /\ \/ outcome = "value" /\ next \in {"writing", "stored"}
                /\ made' = [made EXCEPT ![r] = entry]
             \/ next \in {"skipped", "failed", "rejected"} /\ UNCHANGED made
          /\ UNCHANGED unhandled
    BY <1>3, OutcomesAssumption DEF FactoryReturns, JobStates
  <2> HIDE DEF entry
  <2>2. \A q \in Requests : q # r => fac'[q] = fac[q] /\ made'[q] = made[q]
    BY <1>1, <2>1
  <2>3. RejectedFor(r)'
    BY <1>1, <2>1 DEF Rejections, RejectedFor
  <2>4. QED
    BY <1>2, <2>1, <2>2, <2>3 DEF Rejections, RejectedFor
<1>4. CASE WriteL2(r)
  <2>1. /\ fac[r] = "writing" /\ UNCHANGED <<made, unhandled>>
        /\ \/ fac' = [fac EXCEPT ![r] = "stored"]
           \/ fac' = [fac EXCEPT ![r] = "rejected"] /\ ~SuppressesL2Errors(r)
    BY <1>4 DEF WriteL2
  <2>2. \A q \in Requests : q # r => fac'[q] = fac[q]
    BY <1>1, <2>1
  <2>3. RejectedFor(r)'
    BY <1>1, <1>2, <2>1 DEF Rejections, RejectedFor
  <2>4. QED
    BY <1>2, <2>1, <2>2, <2>3 DEF Rejections, RejectedFor
<1>5. CASE Settle(r)
  <2>1. /\ fac' = [fac EXCEPT ![r] = "settled"] /\ UNCHANGED made
        /\ unhandled' = unhandled \/ (fac[r] = "rejected" /\ unhandled' = unhandled \cup {r})
        /\ fac[r] # "settled"
    BY <1>5 DEF Settle
  <2>2. QED
    BY <1>1, <1>2, <2>1 DEF Rejections, RejectedFor
<1>6. CASE SoftTimeout(r) \/ HardTimeout(r) \/ DiscardLate(r)
  <2>1. UNCHANGED <<fac, made, unhandled>>
    BY <1>6 DEF SoftTimeout, HardTimeout, DiscardLate
  <2>2. QED
    BY <1>2, <2>1 DEF Rejections, RejectedFor
<1>7. QED
  BY <1>3, <1>4, <1>5, <1>6 DEF RunnerStep

LEMMA HandlerStepKeepsRejections ==
  ASSUME RunnerTypeOK, Places, Rejections, NEW r \in Requests, HandlerStep(r)
  PROVE  Rejections'
<1> USE DEF requestVars, jobVars, itemVars, boundVars, cacheVars
<1>1. /\ fac \in [Requests -> JobStates] /\ made \in [Requests -> Entries]
      /\ opts \in [Requests -> Options \cup {None}]
      /\ UNCHANGED <<tiers, unhandled>>
  BY DEF RunnerTypeOK, HandlerStep, Call, AcquireLock, LockFailed, Recheck, ReadL2,
         ReturnRemote, RunFactory, Run, Catch
<1>2. ASSUME UNCHANGED opts
      PROVE  \A q \in Requests : SuppressesL2Errors(q)' <=> SuppressesL2Errors(q)
  BY <1>1, <1>2 DEF SuppressesL2Errors
<1>3. CASE Call(r)
  <2>1. PICK o \in Options : opts' = [opts EXCEPT ![r] = o] /\ pc[r] = "idle"
                             /\ UNCHANGED <<fac, made>>
    BY <1>3 DEF Call
  <2>2. fac[r] = "none"
    BY <2>1 DEF Places, PlaceOf, BeforeJob, BeforeLock
  <2>3. \A q \in Requests : q # r => (SuppressesL2Errors(q)' <=> SuppressesL2Errors(q))
    BY <1>1, <2>1 DEF SuppressesL2Errors
  <2>4. QED
    BY <1>1, <2>1, <2>2, <2>3 DEF Rejections, RejectedFor
<1>4. CASE RunFactory(r)
  <2>1. /\ fac' = [fac EXCEPT ![r] = "running"] /\ UNCHANGED opts
        /\ made' = [made EXCEPT ![r].ver = runs + 1] /\ pc[r] = "looked"
    BY <1>4 DEF RunFactory, Run
  <2>2. fac[r] = "none"
    BY <2>1 DEF Places, PlaceOf, BeforeJob
  <2>3. \A q \in Requests : made'[q].exp = made[q].exp
    BY <1>1, <2>1 DEF Entries
  <2>4. QED
    BY <1>1, <1>2, <2>1, <2>2, <2>3 DEF Rejections, RejectedFor
<1>5. CASE ~Call(r) /\ ~RunFactory(r)
  <2>1. UNCHANGED <<opts, fac, made>>
    BY <1>5 DEF HandlerStep, AcquireLock, LockFailed, Recheck, ReadL2, ReturnRemote,
                Catch
  <2>2. QED
    BY <1>1, <1>2, <2>1 DEF Rejections, RejectedFor
<1>6. QED
  BY <1>3, <1>4, <1>5

LEMMA RejectionsInvariance == Spec => []Rejections
<1>1. Init => Rejections
  BY DEF Init, RunnerInit, Rejections, RejectedFor
<1>2. TypeOK /\ Places /\ Rejections /\ [Next]_vars => Rejections'
  <2> SUFFICES ASSUME TypeOK, Places, Rejections, [Next]_vars PROVE Rejections'
    OBVIOUS
  <2>1. CASE Tick \/ Evict \/ UNCHANGED vars
    BY <2>1 DEF Tick, Evict, vars, requestVars, jobVars, Rejections, RejectedFor,
                SuppressesL2Errors
  <2>2. ASSUME NEW r \in Requests, HandlerStep(r) \/ RunnerStep(r) PROVE Rejections'
    BY <2>2, HandlerStepKeepsRejections, JobStepKeepsRejections DEF TypeOK
  <2>3. QED
    BY <2>1, <2>2 DEF Next
<1>3. QED
  BY <1>1, <1>2, PlacesInvariance, TwoTierTypeCorrect, PTL DEF Spec

(* With L2 errors suppressed no failure of L2 ever becomes an unhandled    *)
(* rejection, however many calls go to the background: only a factory that *)
(* returns undefined does (factory_runner.ts:139, cache_stack.ts:150).     *)
THEOREM TwoTierUnhandled == Spec => []OnlyUndefinedUnhandled
<1>1. Rejections /\ TypeOK => OnlyUndefinedUnhandled
  BY DEF Rejections, RejectedFor, OnlyUndefinedUnhandled, TypeOK, RunnerTypeOK
<1>2. QED
  BY <1>1, RejectionsInvariance, TwoTierTypeCorrect, PTL
----------------------------------------------------------------------------
(* One factory serves all.                                                 *)

(* The premise of OneFactoryServesAll. *)
Undisturbed ==
  /\ now = 0 /\ evictions = 0
  /\ \A r \in Requests :
       /\ fac[r] \in {"none", "running"} \/ made[r].exp # None
       /\ opts[r] # None =>
            ~opts[r].forceFresh /\ opts[r].hardTimeout = None /\ opts[r].ttl # None

(* Options come with the call, and only a job fails. *)
Stages == \A r \in Requests :
  /\ pc[r] = "idle" => opts[r] = None
  /\ pc[r] = "failed" => fac[r] # "none"

NotStarted ==
  /\ runs = 0 /\ ~crowded /\ ~Usable(l1) /\ ~Usable(l2)
  /\ \A r \in Requests : fac[r] = "none" /\ ~IsEntryValid(remoteItem[r])

(* The only job runs and owns the lock. *)
UnderWay(r) ==
  /\ runs = 1 /\ ~crowded
  /\ fac[r] = "running" /\ Holds(r) /\ pc[r] \in {"awaiting", "done"}
  /\ \A q \in Requests : q # r => fac[q] = "none"

(* L1 has what the job made, and nobody passed it on the way to a factory. *)
Filled ==
  /\ runs = 1 /\ Usable(l1)
  /\ \A r \in Requests : fac[r] # "running" /\ pc[r] \notin {"locked", "looked"}

OneFlight ==
  Undisturbed => NotStarted \/ Filled \/ \E r \in Requests : UnderWay(r)

(* Only what is not there yet disturbs. *)
LEMMA UndisturbedBefore ==
  ASSUME TypeOK, Places, Stages, [Next]_vars, Undisturbed'
  PROVE  Undisturbed
<1> USE DEF requestVars, jobVars, itemVars, boundVars, cacheVars
<1>1. /\ now \in Nat /\ evictions \in Nat /\ fac \in [Requests -> JobStates]
      /\ made \in [Requests -> Entries] /\ opts \in [Requests -> Options \cup {None}]
  BY BoundsAssumption DEF TypeOK, RunnerTypeOK
<1>2. CASE Tick \/ Evict
  <2>1. now' = now + 1 \/ evictions' = evictions + 1
    BY <1>2 DEF Tick, Evict
  <2>2. now' # 0 \/ evictions' # 0
    BY <1>1, <2>1
  <2> QED  BY <2>2 DEF Undisturbed
<1>3. CASE UNCHANGED vars
  BY <1>3 DEF vars, Undisturbed
<1>4. ASSUME NEW r \in Requests, HandlerStep(r) \/ RunnerStep(r)
      PROVE  Undisturbed
  <2>1. UNCHANGED <<now, evictions>>
    BY <1>4 DEF HandlerStep, RunnerStep, Call, AcquireLock, LockFailed, Recheck, ReadL2,
          ReturnRemote, RunFactory, Catch, FactoryReturns, WriteL2, Settle, SoftTimeout,
          HardTimeout, DiscardLate
  <2>2. \A q \in Requests : opts[q] # None => opts'[q] = opts[q]
    <3>1. CASE Call(r)
      <4>1. pc[r] = "idle" /\ \E o \in Options : opts' = [opts EXCEPT ![r] = o]
        BY <3>1 DEF Call
      <4> QED  BY <1>1, <4>1 DEF Stages
    <3>2. CASE ~Call(r)
      BY <1>4, <3>2 DEF HandlerStep, RunnerStep, AcquireLock, LockFailed, Recheck, ReadL2,
          ReturnRemote, RunFactory, Catch, FactoryReturns, WriteL2, Settle, SoftTimeout,
          HardTimeout, DiscardLate
    <3> QED  BY <3>1, <3>2
  <2>3. \A q \in Requests : fac[q] \in {"none", "running"}
                            \/ (fac'[q] \notin {"none", "running"} /\ made'[q] = made[q])
    <3>1. CASE RunFactory(r)
      <4>1. fac[r] = "none"
        BY <3>1 DEF RunFactory, Places, PlaceOf, BeforeJob
      <4>2. fac' = [fac EXCEPT ![r] = "running"] /\ made' = [made EXCEPT ![r].ver = runs + 1]
        BY <3>1 DEF RunFactory, Run
      <4> QED  BY <1>1, <4>1, <4>2
    <3>2. CASE FactoryReturns(r)
      <4>1. fac[r] = "running"
        BY <3>2 DEF FactoryReturns
      <4>2. \A q \in Requests : q # r => made'[q] = made[q] /\ fac'[q] = fac[q]
        BY <1>1, <3>2 DEF FactoryReturns
      <4> QED  BY <4>1, <4>2
    <3>3. CASE WriteL2(r) \/ Settle(r)
      <4>1. /\ fac' = [fac EXCEPT ![r] = fac'[r]] /\ UNCHANGED made
            /\ fac'[r] \in {"stored", "rejected", "settled"}
        BY <1>1, <3>3 DEF WriteL2, Settle
      <4> QED  BY <1>1, <4>1
    <3>4. CASE UNCHANGED <<fac, made>>
      BY <3>4
    <3> QED  BY <1>4, <3>1, <3>2, <3>3, <3>4 DEF HandlerStep, RunnerStep, Call, AcquireLock,
               LockFailed, Recheck, ReadL2, ReturnRemote, Catch, SoftTimeout, HardTimeout,
               DiscardLate
  <2> QED  BY <2>1, <2>2, <2>3 DEF Undisturbed
<1> QED  BY <1>2, <1>3, <1>4 DEF Next

(* What an outcome other than a value leaves behind disturbs.              *)
LEMMA FactoryReturnsFills ==
  ASSUME Shape(Labels), Places, Layered, Rejections, Undisturbed', NEW r \in Requests,
         FactoryReturns(r)
  PROVE  /\ UNCHANGED <<runs, pc>> /\ Usable(l1') /\ fac[r] = "running"
         /\ \E next \in {"writing", "stored"} : fac' = [fac EXCEPT ![r] = next]
<1> DEFINE entry == [made[r] EXCEPT !.exp = LogicalTtlFromNow(opts[r], now)]
<1>1. /\ fac \in [Requests -> JobStates] /\ made \in [Requests -> Entries]
      /\ pc[r] # "idle" => opts[r] \in Options
  BY DEF Shape, RunnerTypeOK, OptsChosen
<1>2. fac[r] = "running" /\ UNCHANGED <<runs, pc, now>>
  BY DEF FactoryReturns, requestVars
<1>3. now = 0 /\ opts[r] \in Options
  <2>1. pc[r] # "idle"
    BY <1>2 DEF Places, PlaceOf, BeforeJob, BeforeLock
  <2> QED  BY <1>1, <1>2, <2>1 DEF Undisturbed
<1>4. /\ made[r].exp = None
      /\ \/ fac'[r] \in {"none", "running"}
         \/ made'[r].exp # None
  BY <1>2 DEF Rejections, RejectedFor, Undisturbed
<1>5. entry \in Entries /\ entry.exp = LogicalTtlFromNow(opts[r], 0)
  <2>1. LogicalTtlFromNow(opts[r], 0) \in Nat \cup {None}
    BY <1>3, OptionTypes DEF LogicalTtlFromNow
  <2> QED  BY <1>1, <1>3, <2>1 DEF Entries
<1>6. PICK next \in {"writing", "stored"} :
        fac' = [fac EXCEPT ![r] = next] /\ made' = [made EXCEPT ![r] = entry] /\ l1' = entry
  BY <1>1, <1>4, OutcomesAssumption DEF FactoryReturns, Layered
<1>7. entry.exp # None
  BY <1>1, <1>4, <1>6
<1>8. opts[r].ttl \in Nat \cup {None}
  BY <1>3, OptionTypes
<1>9. entry.exp > 0
  BY <1>5, <1>7, <1>8 DEF LogicalTtlFromNow
<1> QED  BY <1>2, <1>5, <1>6, <1>9, ItemsAssumption DEF Usable

LEMMA JobStepKeepsFlight ==
  ASSUME IInv, Shape(Labels), Places, Layered, Rejections, Undisturbed, Undisturbed',
         NotStarted \/ Filled \/ \E r \in Requests : UnderWay(r),
         NEW r \in Requests, RunnerStep(r)
  PROVE  NotStarted' \/ Filled' \/ \E j \in Requests : UnderWay(j)'
<1> USE DEF requestVars, jobVars, itemVars, boundVars, cacheVars, Goto, Return
<1>1. /\ fac \in [Requests -> JobStates] /\ pc \in [Requests -> Labels]
      /\ \A q \in Requests : pc[q] # "idle" => opts[q] \in Options
  BY DEF Shape, RunnerTypeOK, OptsChosen
<1>2. CASE NotStarted
  <2>1. fac[r] = "none" /\ pc[r] # "awaiting"
    BY <1>2 DEF NotStarted, Places, PlaceOf, JobActive
  <2>2. DiscardLate(r)
    BY <2>1 DEF RunnerStep, FactoryReturns, WriteL2, Settle, SoftTimeout, HardTimeout
  <2>3. UNCHANGED <<runs, crowded, l1, l2, fac, remoteItem>>
    BY <2>2 DEF DiscardLate, Discard
  <2> QED  BY <1>2, <2>3 DEF NotStarted
<1>3. CASE Filled
  <2>1. /\ fac[r] # "running" /\ UNCHANGED <<runs, l1>>
        /\ UNCHANGED fac \/ \E next \in {"stored", "rejected", "settled"} :
                              fac' = [fac EXCEPT ![r] = next]
        /\ UNCHANGED pc \/ \E next \in {"done", "failed"} : pc' = [pc EXCEPT ![r] = next]
    BY <1>3 DEF Filled, RunnerStep, FactoryReturns, WriteL2, Settle, SoftTimeout,
                HardTimeout, DiscardLate
  <2> QED  BY <1>1, <1>3, <2>1 DEF Filled
<1>4. ASSUME NEW j \in Requests, UnderWay(j)
      PROVE  Filled' \/ UnderWay(j)'
  <2>1. \A q \in Requests : Holds(q) => q = j
    BY <1>4, OwnersAlone DEF UnderWay, SingleFlight
  <2>2. CASE FactoryReturns(r)
    <3>1. /\ UNCHANGED <<runs, pc>> /\ Usable(l1') /\ fac[r] = "running"
          /\ \E next \in {"writing", "stored"} : fac' = [fac EXCEPT ![r] = next]
      BY <2>2, FactoryReturnsFills
    <3>2. r = j
      BY <1>4, <3>1 DEF UnderWay
    <3>3. \A q \in Requests : fac'[q] # "running"
      BY <1>1, <1>4, <3>1, <3>2 DEF UnderWay
    <3>4. \A q \in Requests : pc[q] \notin {"locked", "looked"}
      BY <1>4, <2>1 DEF UnderWay, Places, PlaceOf
    <3> QED  BY <1>4, <3>1, <3>3, <3>4 DEF Filled, UnderWay
  <2>3. fac[r] \notin {"writing", "stored", "skipped", "failed", "rejected"}
    BY <1>4 DEF UnderWay
  <2>4. CASE SoftTimeout(r)
    <3>1. /\ pc[r] = "awaiting" /\ pc' = [pc EXCEPT ![r] = "done"]
          /\ UNCHANGED <<lockVars, runs, fac>>
      BY <2>4 DEF SoftTimeout
    <3> QED  BY <1>1, <1>4, <3>1 DEF UnderWay, Holds, lockVars
  <2>5. ~HardTimeout(r)
    <3>1. SUFFICES ASSUME HardTimeout(r)  PROVE FALSE
      OBVIOUS
    <3>2. pc[r] = "awaiting" /\ opts[r].hardTimeout # None
      BY <3>1 DEF HardTimeout, TimeoutType, FactoryTimeout
    <3>3. opts[r] # None
      BY <1>1, <3>2, OptionsAssumption
    <3> QED  BY <3>2, <3>3 DEF Undisturbed
  <2>6. ~DiscardLate(r)
    <3>1. SUFFICES ASSUME DiscardLate(r)  PROVE FALSE
      OBVIOUS
    <3>2. r \in gaveUp /\ Holds(r)
      BY <3>1 DEF DiscardLate, Discard
    <3>3. r = j /\ fac[r] = "none"
      BY <2>1, <3>2 DEF Places, PlaceOf
    <3> QED  BY <1>4, <3>3 DEF UnderWay
  <2> QED  BY <2>2, <2>3, <2>4, <2>5, <2>6 DEF RunnerStep, WriteL2, Settle
<1> QED  BY <1>2, <1>3, <1>4

(* No step of the lock by another request takes it from its owner or       *)
(* crowds it.                                                              *)
LEMMA HandlerStepKeepsFlight ==
  ASSUME IInv, Shape(Labels), Places, Stages, Undisturbed, Undisturbed',
         NotStarted \/ Filled \/ \E r \in Requests : UnderWay(r),
         NEW r \in Requests, HandlerStep(r)
  PROVE  NotStarted' \/ Filled' \/ \E j \in Requests : UnderWay(j)'
<1> USE DEF requestVars, jobVars, itemVars, boundVars, cacheVars, Goto, Return
<1>1. /\ fac \in [Requests -> JobStates] /\ pc \in [Requests -> Labels]
      /\ remoteItem \in [Requests -> Items \cup {None}]
      /\ opts \in [Requests -> Options \cup {None}]
      /\ l1 \in Entries \cup {None} /\ l2 \in Entries \cup {None}
      /\ \A q \in Requests : pc[q] # "idle" => opts[q] \in Options
  BY DEF Shape, RunnerTypeOK, OptsChosen
<1>2. now = 0 /\ \A q \in Requests : pc[q] # "idle" => ~opts[q].forceFresh
  BY <1>1, OptionsAssumption DEF Undisturbed
<1>3. /\ IsEntryValid(Read(l1, now)) <=> Usable(l1)
      /\ IsEntryValid(Read(l2, now)) <=> Usable(l2)
  BY <1>1, <1>2, ReadUsable
<1>4. CASE NotStarted
  <2>1. CASE Call(r) \/ AcquireLock(r) \/ LockFailed(r)
    <3>1. UNCHANGED <<runs, crowded, l1, l2, fac, remoteItem>>
      BY <2>1 DEF Call, AcquireLock, Acquire, LockFailed, GiveUp, lockVars
    <3> QED  BY <1>4, <3>1 DEF NotStarted
  <2>2. CASE Recheck(r)
    <3>1. UNCHANGED <<lockVars, runs, l1, l2, fac, remoteItem>>
      BY <1>3, <1>4, <2>2 DEF Recheck, NotStarted
    <3> QED  BY <1>4, <3>1 DEF NotStarted, lockVars
  <2>3. CASE ReadL2(r)
    <3>1. /\ UNCHANGED <<lockVars, runs, l1, l2, fac>>
          /\ UNCHANGED remoteItem \/ remoteItem' = [remoteItem EXCEPT ![r] = Read(l2, now)]
      BY <2>3 DEF ReadL2
    <3>2. \A q \in Requests : remoteItem'[q] \in {remoteItem[q], Read(l2, now)}
      BY <1>1, <3>1
    <3> QED  BY <1>3, <1>4, <3>1, <3>2 DEF NotStarted, lockVars
  <2>4. CASE RunFactory(r)
    <3>1. /\ pc[r] = "looked" /\ runs' = 1 /\ fac' = [fac EXCEPT ![r] = "running"]
          /\ UNCHANGED lockVars /\ \E next \in {"done", "awaiting"} : pc' = [pc EXCEPT ![r] = next]
      BY <1>4, <2>4 DEF RunFactory, Run, NotStarted
    <3>2. Holds(r)' /\ ~crowded'
      BY <1>4, <3>1 DEF Places, PlaceOf, Holds, lockVars, NotStarted
    <3> QED  BY <1>1, <1>4, <3>1, <3>2 DEF UnderWay, NotStarted
  <2>5. ~ReturnRemote(r) /\ ~Catch(r)
    BY <1>4 DEF ReturnRemote, Catch, NotStarted, Stages
  <2> QED  BY <2>1, <2>2, <2>3, <2>4, <2>5 DEF HandlerStep
<1>5. CASE Filled
  <2>1. CASE Call(r)
    <3>1. PICK o \in Options :
            /\ opts' = [opts EXCEPT ![r] = o] /\ UNCHANGED <<runs, l1, fac>>
            /\ o.forceFresh \/ pc' = [pc EXCEPT ![r] = "done"]
      BY <1>3, <1>5, <2>1 DEF Call, Filled
    <3>2. ~o.forceFresh
      BY <1>1, <3>1, OptionsAssumption DEF Undisturbed
    <3> QED  BY <1>1, <1>5, <3>1, <3>2 DEF Filled
  <2>2. CASE AcquireLock(r) \/ LockFailed(r)
    <3>1. /\ UNCHANGED <<runs, l1, fac>>
          /\ \E next \in {"locking", "done"} : pc' = [pc EXCEPT ![r] = next]
      BY <2>2 DEF AcquireLock, LockFailed
    <3> QED  BY <1>1, <1>5, <3>1 DEF Filled
  <2>3. CASE Recheck(r)
    <3>1. UNCHANGED <<runs, l1, fac>> /\ pc' = [pc EXCEPT ![r] = "done"]
      BY <1>2, <1>3, <1>5, <2>3 DEF Recheck, Filled
    <3> QED  BY <1>1, <1>5, <3>1 DEF Filled
  <2>4. CASE Catch(r)
    <3>1. /\ UNCHANGED <<runs, fac>> /\ pc' = [pc EXCEPT ![r] = "done"]
          /\ pc[r] = "failed"
          /\ \/ UNCHANGED l1
             \/ /\ StaleItem(r) # None /\ opts[r].graceBackoff > 0
                /\ l1' = BackedOff(StaleItem(r), opts[r])
      BY <2>4 DEF Catch, ApplyFallback
    <3>2. Usable(l1')
      <4>1. CASE UNCHANGED l1
        BY <1>5, <4>1 DEF Filled
      <4>2. CASE StaleItem(r) # None /\ opts[r].graceBackoff > 0
                 /\ l1' = BackedOff(StaleItem(r), opts[r])
        <5>1. StaleItem(r) \in Items /\ opts[r] \in Options
          BY <1>1, <3>1, <4>2, StaleItemTypes DEF Shape
        <5>2. BackedOff(StaleItem(r), opts[r]) # None
          BY <5>1, BackedOffTypes, ItemsAssumption
        <5>3. StaleItem(r).exp \in Nat \cup {None} /\ opts[r].graceBackoff \in Nat
          BY <5>1, OptionTypes DEF Items
        <5> QED  BY <4>2, <5>2, <5>3 DEF Usable, BackedOff
      <4> QED  BY <3>1, <4>1, <4>2
    <3> QED  BY <1>1, <1>5, <3>1, <3>2 DEF Filled
  <2>5. ~ReadL2(r) /\ ~ReturnRemote(r) /\ ~RunFactory(r)
    BY <1>5 DEF ReadL2, ReturnRemote, RunFactory, Filled
  <2> QED  BY <2>1, <2>2, <2>3, <2>4, <2>5 DEF HandlerStep
<1>6. ASSUME NEW j \in Requests, UnderWay(j)
      PROVE  UnderWay(j)'
  <2>1. \A q \in Requests : Holds(q) => q = j
    BY <1>6, OwnersAlone DEF UnderWay, SingleFlight
  <2>2. ~Recheck(r) /\ ~ReadL2(r) /\ ~ReturnRemote(r) /\ ~RunFactory(r)
    <3>1. r = j => pc[r] \notin {"locking", "locked", "looked"}
      BY <1>6 DEF UnderWay
    <3> QED  BY <2>1, <3>1 DEF Recheck, ReadL2, ReturnRemote, RunFactory, Places, PlaceOf
  <2>3. ~Catch(r)
    BY <1>6 DEF Catch, UnderWay, Stages
  <2>4. /\ r # j /\ UNCHANGED <<runs, crowded, fac>> /\ pc'[j] = pc[j]
        /\ LocksStep(r) \/ UNCHANGED lockVars
    <3>1. pc[r] \in {"idle", "missed", "locking"} /\ UNCHANGED <<runs, crowded, fac>>
          /\ \A q \in Requests : q # r => pc'[q] = pc[q]
      <4>1. Call(r) \/ AcquireLock(r) \/ LockFailed(r)
        BY <2>2, <2>3 DEF HandlerStep
      <4>2. pc[r] \in {"idle", "missed", "locking"} /\ UNCHANGED <<runs, crowded, fac>>
        BY <4>1 DEF Call, AcquireLock, Acquire, LockFailed, GiveUp, lockVars
      <4>3. \A q \in Requests : q # r => pc'[q] = pc[q]
        BY <1>1, <4>1 DEF Call, AcquireLock, LockFailed
      <4> QED  BY <4>2, <4>3
    <3> QED  BY <1>6, <3>1, HandlerStepsAreLockSteps DEF UnderWay
  <2>5. Holds(j)'
    BY <1>6, <2>4, OthersKeepPlace DEF UnderWay
  <2> QED  BY <1>6, <2>4, <2>5 DEF UnderWay
<1> QED  BY <1>4, <1>5, <1>6

LEMMA StepKeepsStages ==
  Shape(Labels) /\ Places /\ Stages /\ [Next]_vars => Stages'
<1> SUFFICES ASSUME Shape(Labels), Places, Stages, [Next]_vars PROVE Stages'
  OBVIOUS
<1> USE DEF requestVars, jobVars, itemVars, boundVars, cacheVars, Goto, Return
<1>1. /\ fac \in [Requests -> JobStates] /\ pc \in [Requests -> Labels]
      /\ opts \in [Requests -> Options \cup {None}]
  BY DEF Shape, RunnerTypeOK
<1>2. CASE Tick \/ Evict \/ UNCHANGED vars
  BY <1>2 DEF Tick, Evict, vars, Stages
<1>3. ASSUME NEW r \in Requests, RunnerStep(r)
      PROVE  Stages'
  <2>1. /\ UNCHANGED opts
        /\ UNCHANGED pc \/ \E next \in {"done", "failed"} : pc' = [pc EXCEPT ![r] = next]
        /\ pc'[r] = "failed" => pc[r] \in {"awaiting", "failed"}
        /\ \A q \in Requests : fac[q] # "none" => fac'[q] # "none"
    BY <1>1, <1>3, OutcomesAssumption
    DEF RunnerStep, FactoryReturns, WriteL2, Settle, SoftTimeout, HardTimeout, DiscardLate
  <2>2. pc[r] = "awaiting" => fac[r] # "none"
    BY DEF Places, PlaceOf, JobActive
  <2> QED  BY <1>1, <2>1, <2>2 DEF Stages
<1>4. ASSUME NEW r \in Requests, HandlerStep(r)
      PROVE  Stages'
  <2>1. /\ \E next \in Labels \ {"idle", "failed"} : pc' = [pc EXCEPT ![r] = next]
        /\ \A q \in Requests : q # r => opts'[q] = opts[q]
        /\ \A q \in Requests : fac[q] # "none" => fac'[q] # "none"
    BY <1>1, <1>4 DEF HandlerStep, Call, AcquireLock, LockFailed, Recheck, ReadL2,
                      ReturnRemote, RunFactory, Run, Catch, ApplyFallback, Labels
  <2> QED  BY <1>1, <2>1 DEF Stages
<1> QED  BY <1>2, <1>3, <1>4 DEF Next

(* Stampede protection for any number of calls: while nothing lapses or is *)
(* dropped and factories return values, the first factory is the only one, *)
(* however its job, the timers and late callers interleave                 *)
(* (two_tier_handler.ts:146-155).                                          *)
THEOREM TwoTierOneFactory == Spec => []OneFactoryServesAll
<1>1. Init => OneFlight /\ Stages
  <2> SUFFICES ASSUME Init  PROVE OneFlight /\ Stages
    OBVIOUS
  <2>1. /\ l1 \in {None, [ver |-> 0, exp |-> 0]} /\ l2 \in {None, [ver |-> 0, exp |-> 0]}
        /\ runs = 0 /\ crowded = FALSE
        /\ \A r \in Requests : /\ fac[r] = "none" /\ remoteItem[r] = None
                               /\ opts[r] = None /\ pc[r] = "idle"
    BY DEF Init, RunnerInit, LocksInit
  <2>2. ~Usable(l1) /\ ~Usable(l2)
    BY <2>1, ItemsAssumption DEF Usable
  <2> QED  BY <2>1, <2>2 DEF OneFlight, NotStarted, Stages, IsEntryValid
<1>2. IInv /\ Shape(Labels) /\ Places /\ Order /\ Rejections /\ Stages /\ OneFlight /\ [Next]_vars
      => OneFlight'
  <2> SUFFICES ASSUME IInv, Shape(Labels), Places, Order, Rejections, Stages, OneFlight,
                      [Next]_vars, Undisturbed'
               PROVE  NotStarted' \/ Filled' \/ \E r \in Requests : UnderWay(r)'
    BY DEF OneFlight
  <2>1. TypeOK /\ Layered
    BY DEF Shape, TypeOK, Order
  <2>2. Undisturbed
    BY <2>1, UndisturbedBefore
  <2>3. NotStarted \/ Filled \/ \E r \in Requests : UnderWay(r)
    BY <2>2 DEF OneFlight
  <2>4. CASE UNCHANGED vars
    BY <2>3, <2>4 DEF vars, NotStarted, Filled, UnderWay, Holds, lockVars
  <2>5. ~Tick /\ ~Evict
    <3>1. now \in Nat /\ evictions \in Nat /\ now = 0 /\ evictions = 0 /\ now' = 0 /\ evictions' = 0
      BY <2>2 DEF Undisturbed
    <3> QED  BY <3>1 DEF Tick, Evict
  <2>6. ASSUME NEW r \in Requests, HandlerStep(r) \/ RunnerStep(r)
        PROVE  NotStarted' \/ Filled' \/ \E j \in Requests : UnderWay(j)'
    BY <2>1, <2>2, <2>3, <2>6, HandlerStepKeepsFlight, JobStepKeepsFlight
  <2> QED  BY <2>4, <2>5, <2>6 DEF Next
<1>3. OneFlight => OneFactoryServesAll
  BY DEF OneFlight, NotStarted, Filled, UnderWay, Undisturbed, OneFactoryServesAll
<1>4. Spec => []IInv
  BY TwoTierImplementsLocks, Invariance, PTL
<1> QED  BY <1>1, <1>2, <1>3, <1>4, StepKeepsStages, ShapeInvariance, PlacesInvariance,
            OrderInvariance, RejectionsInvariance, PTL DEF Spec
=============================================================================
