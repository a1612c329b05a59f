-------------------------- MODULE SingleTierProofs --------------------------
(* The lock of SingleTierHandler is a lock of Locks, and its invariants,   *)
(* for every set of requests, options, outcomes and bounds.                *)
EXTENDS SingleTierHandler, RunnerProofs

LEMMA HandlerStepsAreLockSteps ==
  ASSUME NEW r \in Requests, HandlerStep(r)
  PROVE  LocksStep(r) \/ UNCHANGED lockVars
<1>1. CASE Call(r)
  BY <1>1 DEF Call
<1>2. CASE FirstRead(r)
  BY <1>2 DEF FirstRead
<1>3. CASE AcquireLock(r)
  BY <1>3 DEF AcquireLock, LocksStep
<1>4. CASE LockFailed(r)
  BY <1>4 DEF LockFailed, LocksStep
<1>5. CASE Recheck(r)
  BY <1>5 DEF Recheck
<1>6. CASE ReturnRemote(r)
  BY <1>6 DEF ReturnRemote, LocksStep
<1>7. CASE RunFactory(r)
  BY <1>7 DEF RunFactory
<1>8. CASE Catch(r)
  BY <1>8 DEF Catch, LocksStep
<1>9. CASE WriteFallback(r)
  BY <1>9 DEF WriteFallback
<1>10. QED
  BY <1>1, <1>2, <1>3, <1>4, <1>5, <1>6, <1>7, <1>8, <1>9 DEF HandlerStep

LEMMA StepsAreLockSteps == [Next]_singleVars => [LocksNext]_lockVars
<1> SUFFICES ASSUME [Next]_singleVars PROVE [LocksNext]_lockVars
  OBVIOUS
<1>1. CASE Tick \/ Evict
  BY <1>1 DEF Tick, Evict
<1>2. ASSUME NEW r \in Requests, HandlerStep(r) \/ RunnerStep(r)
      PROVE  [LocksNext]_lockVars
  BY <1>2, HandlerStepsAreLockSteps, JobStepsAreLockSteps DEF LocksNext
<1>3. CASE UNCHANGED singleVars
  BY <1>3 DEF singleVars, vars
<1>4. QED
  BY <1>1, <1>2, <1>3 DEF Next, Shared

(* The handler only acquires, gives up and releases, so what is proved of  *)
(* Locks holds of its lock.                                                *)
LEMMA SingleTierImplementsLocks == Spec => LocksSpec
<1>1. Init => LocksInit
  BY DEF Init, RunnerInit
<1>2. QED
  BY <1>1, StepsAreLockSteps, PTL DEF Spec, LocksSpec

(* The calls of a key use one lock that is passed on, also when a read     *)
(* throws inside the section (single_tier_handler.ts:125-192).             *)
THEOREM SingleTierImplementsExclusion == Spec => ImplementsExclusion
BY SingleTierImplementsLocks, LocksImplementExclusion, PTL

----------------------------------------------------------------------------
(* Where the handler leaves its request.                                   *)

LEMMA HandlerStepKeepsPlaces ==
  ASSUME IInv, IInv', Places, NEW r \in Requests, HandlerStep(r)
  PROVE  Apart(r) /\ Places'
<1> USE DEF requestVars, jobVars, itemVars, boundVars, cacheVars, Goto, Return,
            Apart, BeforeLock, BeforeJob
<1>1. LocksStep(r) \/ UNCHANGED lockVars
  BY HandlerStepsAreLockSteps
<1>2. PlaceOf(r) /\ DOMAIN pc = Requests /\ DOMAIN fac = Requests
      /\ DOMAIN answer = Requests /\ DOMAIN opts = Requests
      /\ (pc[r] # "done" => r \notin gaveUp)
  BY DEF Places, PlaceOf
<1>3. SUFFICES Apart(r) /\ PlaceOf(r)'
  BY <1>1, PlacesByOwnStep
<1>4. CASE Call(r) \/ FirstRead(r)
  <2>1. /\ Apart(r) /\ pc[r] \in {"idle", "reading"}
        /\ pc'[r] \in {"reading", "missed", "done"}
    BY <1>2, <1>4 DEF Call, FirstRead
  <2>2. mutexOf[r] = None /\ fac[r] = "none" /\ UNCHANGED <<lockVars, fac>>
    BY <1>2, <1>4, <2>1 DEF Call, FirstRead, PlaceOf
  <2>3. ~Holds(r) /\ ~Waits(r)
    BY <2>2 DEF Holds, Waits
  <2>4. QED
    BY <1>2, <2>1, <2>2, <2>3, UnlockedStepKeepsPlace DEF PlaceOf
<1>5. CASE AcquireLock(r)
  <2>1. Apart(r) /\ pc[r] = "missed" /\ pc'[r] = "locking" /\ UNCHANGED <<fac, gaveUp>>
    BY <1>2, <1>5 DEF AcquireLock, Acquire
  <2>2. QED
    BY <1>2, <2>1 DEF PlaceOf
<1>6. CASE LockFailed(r)
  <2>1. Apart(r) /\ pc[r] = "locking" /\ pc'[r] = "done" /\ UNCHANGED fac
    BY <1>2, <1>6 DEF LockFailed
  <2>2. r \in gaveUp' /\ fac[r] = "none"
    BY <1>2, <1>6, <2>1 DEF LockFailed, GiveUp, PlaceOf
  <2>3. QED
    BY <2>1, <2>2 DEF PlaceOf
<1>7. CASE Recheck(r)
  <2>1. Apart(r) /\ pc[r] = "locking" /\ UNCHANGED <<lockVars, fac, opts, tiers>>
    BY <1>2, <1>7 DEF Recheck
  <2>2. Holds(r) /\ ~Waits(r) /\ r \notin gaveUp /\ fac[r] = "none"
    BY <1>2, <1>7, <2>1 DEF Recheck, Waits, PlaceOf
  <2>3. \/ pc'[r] = "looked"
        \/ pc'[r] = "done" /\ answer'[r].kind = "l2 error" /\ ~SuppressesL2Errors(r)
    <3>1. \/ pc'[r] = "looked"
          \/ pc'[r] = "done" /\ answer'[r] = Error("l2 error") /\ ~SuppressesL2Errors(r)
      BY <1>2, <1>7 DEF Recheck
    <3>2. Error("l2 error").kind = "l2 error"
      BY DEF Error
    <3>3. ASSUME answer'[r] = Error("l2 error") PROVE answer'[r].kind = "l2 error"
      BY <3>2, <3>3, Zenon
    <3>4. QED
      BY <3>1, <3>3
  <2>4. SuppressesL2Errors(r)' <=> SuppressesL2Errors(r)
    BY <2>1 DEF SuppressesL2Errors
  <2>5. QED
    BY <2>1, <2>2, <2>3, <2>4, UnlockedStepKeepsPlace DEF PlaceOf
<1>8. CASE ReturnRemote(r)
  <2>1. Apart(r) /\ pc[r] = "looked" /\ pc'[r] = "done" /\ Release(r)
    BY <1>2, <1>8 DEF ReturnRemote
  <2>2. QED
    BY <1>2, <2>1, ReleasingKeepsPlace
<1>9. CASE RunFactory(r)
  <2>1. /\ Apart(r) /\ pc[r] = "looked" /\ pc'[r] \in {"done", "awaiting"}
        /\ fac'[r] = "running" /\ UNCHANGED lockVars
    BY <1>2, <1>9 DEF RunFactory, Run
  <2>2. JobActive(r)' /\ ~Waits(r) /\ r \notin gaveUp
    BY <1>2, <2>1 DEF PlaceOf, JobActive
  <2>3. QED
    BY <2>1, <2>2, UnlockedStepKeepsPlace DEF PlaceOf
<1>10. CASE Catch(r)
  <2>1. Apart(r) /\ pc[r] = "failed" /\ pc'[r] = "done" /\ Release(r)
    BY <1>2, <1>10 DEF Catch, ApplyFallback
  <2>2. QED
    BY <1>2, <2>1, ReleasingKeepsPlace
<1>11. CASE WriteFallback(r)
  <2>1. UNCHANGED <<lockVars, tiers, opts, pc, fac, answer>>
    BY <1>11 DEF WriteFallback
  <2>2. Apart(r) /\ Places'
    BY <1>2, <2>1, EnvironmentKeepsPlaces
  <2>3. QED
    BY <2>2 DEF Places
<1>12. QED
  BY <1>4, <1>5, <1>6, <1>7, <1>8, <1>9, <1>10, <1>11 DEF HandlerStep

LEMMA StepKeepsPlaces == IInv /\ IInv' /\ Places /\ [Next]_singleVars => Places'
<1> SUFFICES ASSUME IInv, IInv', Places, [Next]_singleVars PROVE Places'
  OBVIOUS
<1>1. CASE Tick \/ Evict
  BY <1>1, EnvironmentKeepsPlaces DEF Tick, Evict, requestVars, jobVars
<1>2. ASSUME NEW r \in Requests, HandlerStep(r) \/ RunnerStep(r) PROVE Places'
  BY <1>2, HandlerStepKeepsPlaces, JobStepKeepsPlaces
<1>3. CASE UNCHANGED singleVars
  BY <1>3, EnvironmentKeepsPlaces DEF singleVars, vars
<1>4. QED
  BY <1>1, <1>2, <1>3 DEF Next, Shared

LEMMA PlacesInvariance == Spec => []Places
<1>1. Init => Places
  BY RunnerInitPlaces DEF Init
<1>2. Spec => []IInv
  BY SingleTierImplementsLocks, Invariance, PTL
<1>3. QED
  BY <1>1, <1>2, StepKeepsPlaces, PTL DEF Spec

----------------------------------------------------------------------------
(* Types.                                                                  *)

SingleShape == Shape(Labels) /\ fallback \in [Requests -> Entries \cup {None}]

LEMMA HandlerStepKeepsShape ==
  ASSUME SingleShape, Places, LocksTypeOK', NEW r \in Requests, HandlerStep(r)
  PROVE  SingleShape'
<1> USE DEF requestVars, jobVars, itemVars, boundVars, cacheVars
<1>1. /\ RunnerTypeOK /\ pc \in [Requests -> Labels] /\ OptsChosen /\ RunsCounted
      /\ answer \in [Requests -> Answers] /\ opts \in [Requests -> Options \cup {None}]
      /\ l1 \in Entries \cup {None} /\ l2 \in Entries \cup {None}
      /\ localItem \in [Requests -> Items \cup {None}]
      /\ remoteItem \in [Requests -> Items \cup {None}]
      /\ fallback \in [Requests -> Entries \cup {None}] /\ unhandled \in SUBSET Requests
  BY DEF SingleShape, Shape, RunnerTypeOK, Answers
<1>2. Read(l1, now) \in Items \cup {None} /\ Read(l2, now) \in Items \cup {None}
  BY <1>1, ReadTypes
<1>3. \A item \in Items : Hit(item) \in Answers
  BY AnswerTypes
<1>4. \A kind \in Kinds : Error(kind) \in Answers
  BY AnswerTypes
<1>5. \A label \in Labels : Goto(r, label) => pc' \in [Requests -> Labels]
  BY <1>1 DEF Goto
<1>6. \A a \in Answers : Return(r, a) =>
         pc' \in [Requests -> Labels] /\ answer' \in [Requests -> Answers]
  BY <1>1 DEF Return, Goto, Labels
(* What is left to show of a step that starts no job. *)
<1>7. SUFFICES ASSUME ~RunFactory(r)
      PROVE  /\ UNCHANGED <<tiers, now, fac, made, runs, evictions>>
             /\ l1' \in Entries \cup {None} /\ l2' \in Entries \cup {None}
             /\ opts' \in [Requests -> Options \cup {None}]
             /\ localItem' \in [Requests -> Items \cup {None}]
             /\ remoteItem' \in [Requests -> Items \cup {None}]
             /\ answer' \in [Requests -> Answers] /\ pc' \in [Requests -> Labels]
             /\ faults' \in 0..MaxFaults /\ unhandled' \in SUBSET Requests
             /\ fallback' \in [Requests -> Entries \cup {None}]
             /\ OptsChosen'
  <2>1. CASE RunFactory(r)
    <3>1. pc[r] = "looked" /\ Run(r)
          /\ UNCHANGED <<tiers, now, l1, l2, opts, localItem, remoteItem, evictions, faults,
                        fallback>>
      BY <2>1 DEF RunFactory
    <3>2. fac[r] = "none"
      BY <3>1 DEF Places, PlaceOf, BeforeJob
    <3>3. {"done", "awaiting"} \subseteq Labels
      BY DEF Labels
    <3>4. QED
      BY <1>1, <3>1, <3>2, <3>3, RunKeepsShape DEF SingleShape
  <2>2. CASE ~RunFactory(r)
    BY <1>1, <1>7, <2>2 DEF SingleShape, Shape, RunnerTypeOK, Answers, RunsCounted, Started
  <2>3. QED
    BY <2>1, <2>2
<1>8. faults \in 0..MaxFaults
  BY <1>1 DEF RunnerTypeOK
<1>9. ASSUME UNCHANGED <<opts>>, pc[r] # "idle",
             \A q \in Requests : q # r => pc'[q] = pc[q]
      PROVE  OptsChosen'
  BY <1>1, <1>9 DEF OptsChosen
<1>10. \A label : Goto(r, label) => \A q \in Requests : q # r => pc'[q] = pc[q]
  BY <1>1 DEF Goto
<1>11. ASSUME UNCHANGED faults \/ L2Fails
       PROVE  faults' \in 0..MaxFaults
  <2>1. MaxFaults \in Nat
    BY BoundsAssumption
  <2>2. QED
    BY <1>8, <1>11, <2>1 DEF L2Fails
<1>12. Error("l2 error") \in Answers /\ Error("factory error") \in Answers
  BY <1>4 DEF Kinds
<1>13. CASE Call(r)
  <2>1. PICK o \in Options :
          /\ opts' = [opts EXCEPT ![r] = o]
          /\ Goto(r, "missed") \/ Goto(r, "reading")
    BY <1>13 DEF Call
  <2>2. UNCHANGED <<tiers, now, l1, l2, localItem, remoteItem, answer, fac, made, runs,
                    unhandled, evictions, faults, fallback>>
    BY <1>13 DEF Call
  <2>3. pc' \in [Requests -> Labels]
    BY <1>5, <2>1 DEF Labels
  <2>4. opts' \in [Requests -> Options \cup {None}]
    BY <1>1, <2>1
  <2>5. OptsChosen'
    BY <1>1, <2>1 DEF OptsChosen, Goto
  <2>6. QED
    BY <1>1, <1>8, <2>2, <2>3, <2>4, <2>5
<1>14. CASE FirstRead(r) \/ Recheck(r)
  <2>1. /\ UNCHANGED <<tiers, now, l1, l2, opts, localItem, fac, made, runs,
                       unhandled, evictions, fallback>>
        /\ pc[r] \in {"reading", "locking"}
        /\ UNCHANGED faults \/ L2Fails
        /\ \/ remoteItem' = [remoteItem EXCEPT ![r] = Read(l2, now)]
           \/ remoteItem' = [remoteItem EXCEPT ![r] = None]
           \/ UNCHANGED remoteItem
        /\ \/ Read(l2, now) # None /\ Return(r, Hit(Read(l2, now)))
           \/ Goto(r, "looked") /\ UNCHANGED answer
           \/ Goto(r, "missed") /\ UNCHANGED answer
           \/ Return(r, Error("l2 error"))
    BY <1>14 DEF FirstRead, Recheck, Answered, Unanswered, IsEntryValid
  <2>2. Read(l2, now) # None => Hit(Read(l2, now)) \in Answers
    BY <1>2, <1>3
  <2>3. answer' \in [Requests -> Answers] /\ pc' \in [Requests -> Labels]
    BY <1>1, <1>5, <1>6, <1>12, <2>1, <2>2 DEF Labels
  <2>4. OptsChosen'
    BY <1>9, <1>10, <2>1 DEF Return
  <2>5. remoteItem' \in [Requests -> Items \cup {None}]
    BY <1>1, <1>2, <2>1
  <2>6. faults' \in 0..MaxFaults
    BY <1>11, <2>1
  <2>7. QED
    BY <1>1, <2>1, <2>3, <2>4, <2>5, <2>6
<1>15. CASE AcquireLock(r)
  <2>1. /\ UNCHANGED <<tiers, now, l1, l2, opts, localItem, remoteItem, fac, made,
                       runs, unhandled, answer, evictions, faults, fallback>>
        /\ Goto(r, "locking") /\ pc[r] = "missed"
    BY <1>15 DEF AcquireLock
  <2>2. QED
    BY <1>1, <1>5, <1>8, <1>9, <1>10, <2>1 DEF Labels
<1>16. CASE LockFailed(r)
  <2>1. /\ UNCHANGED <<tiers, now, l1, l2, opts, localItem, remoteItem, fac, made,
                       runs, unhandled, evictions, faults, fallback>>
        /\ Return(r, GracedValueOr(r, remoteItem[r], "lock timeout")) /\ pc[r] = "locking"
    BY <1>16 DEF LockFailed
  <2>2. GracedValueOr(r, remoteItem[r], "lock timeout") \in Answers
    BY <1>1, <1>3, <1>4 DEF GracedValueOr, Kinds
  <2>3. QED
    BY <1>1, <1>6, <1>8, <1>9, <1>10, <2>1, <2>2 DEF Return
<1>17. CASE ReturnRemote(r)
  <2>1. /\ UNCHANGED <<tiers, now, l1, l2, opts, localItem, remoteItem, fac, made, runs,
                       unhandled, evictions, faults, fallback>>
        /\ pc[r] = "looked" /\ remoteItem[r] # None
        /\ Return(r, Hit(remoteItem[r]))
    BY <1>17 DEF ReturnRemote, IsEntryValid
  <2>2. Hit(remoteItem[r]) \in Answers
    BY <1>1, <1>3, <2>1
  <2>3. QED
    BY <1>1, <1>6, <1>8, <1>9, <1>10, <2>1, <2>2 DEF Return
<1>18. CASE Catch(r)
  <2>1. /\ UNCHANGED <<tiers, now, l1, l2, opts, localItem, remoteItem, fac, made, runs,
                       unhandled, evictions, faults>>
        /\ pc[r] = "failed"
        /\ \/ StaleItem(r) # None /\ ApplyFallback(r, StaleItem(r))
           \/ Return(r, Error("factory error")) /\ UNCHANGED fallback
    BY <1>18 DEF Catch
  <2>2. opts[r] \in Options /\ StaleItem(r) \in Items \cup {None}
    BY <1>1, <2>1, StaleItemTypes DEF OptsChosen
  <2>3. ASSUME StaleItem(r) # None
        PROVE  /\ BackedOff(StaleItem(r), opts[r]) \in Entries
               /\ [Hit(StaleItem(r)) EXCEPT !.graced = TRUE] \in Answers
    <3>1. BackedOff(StaleItem(r), opts[r]) \in Entries
      BY <2>2, <2>3, BackedOffTypes
    <3>2. Hit(StaleItem(r)) \in Answers
      BY <1>3, <2>2, <2>3
    <3>3. QED
      BY <3>1, <3>2 DEF Answers
  <2>4. \/ /\ StaleItem(r) # None
           /\ \/ fallback' = [fallback EXCEPT ![r] = BackedOff(StaleItem(r), opts[r])]
              \/ UNCHANGED fallback
           /\ Return(r, [Hit(StaleItem(r)) EXCEPT !.graced = TRUE])
        \/ Return(r, Error("factory error")) /\ UNCHANGED fallback
    BY <2>1 DEF ApplyFallback
  <2>5. fallback' \in [Requests -> Entries \cup {None}]
    BY <1>1, <2>3, <2>4
  <2>6. answer' \in [Requests -> Answers] /\ pc' \in [Requests -> Labels]
    BY <1>1, <1>6, <1>12, <2>3, <2>4
  <2>7. OptsChosen'
    BY <1>9, <1>10, <2>1, <2>4 DEF Return
  <2>8. QED
    BY <1>1, <1>8, <2>1, <2>5, <2>6, <2>7
<1>19. CASE WriteFallback(r)
  <2>1. /\ UNCHANGED <<tiers, now, l1, opts, pc, localItem, remoteItem, answer, fac,
                       made, runs, evictions>>
        /\ UNCHANGED faults \/ L2Fails
        /\ fallback[r] # None /\ fallback' = [fallback EXCEPT ![r] = None]
        /\ l2' \in {l2, fallback[r]}
        /\ unhandled' \in {unhandled, unhandled \cup {r}}
    BY <1>19 DEF WriteFallback
  <2>2. faults' \in 0..MaxFaults
    BY <1>11, <2>1
  <2>3. OptsChosen'
    BY <1>1, <2>1 DEF OptsChosen
  <2>4. fallback' \in [Requests -> Entries \cup {None}] /\ unhandled' \in SUBSET Requests
    BY <1>1, <2>1
  <2>5. l2' \in Entries \cup {None}
    BY <1>1, <2>1
  <2>6. QED
    BY <1>1, <2>1, <2>2, <2>3, <2>4, <2>5
<1>20. QED
  BY <1>7, <1>13, <1>14, <1>15, <1>16, <1>17, <1>18, <1>19 DEF HandlerStep

LEMMA StepKeepsShape ==
  LocksTypeOK' /\ Places /\ SingleShape /\ [Next]_singleVars => SingleShape'
<1> SUFFICES ASSUME LocksTypeOK', Places, SingleShape, [Next]_singleVars
             PROVE  SingleShape'
  OBVIOUS
<1>1. ASSUME (Tick \/ Evict) /\ UNCHANGED fallback PROVE SingleShape'
  BY <1>1, EnvironmentKeepsShape DEF SingleShape
<1>2. ASSUME NEW r \in Requests, HandlerStep(r) PROVE SingleShape'
  BY <1>2, HandlerStepKeepsShape
<1>3. ASSUME NEW r \in Requests, RunnerStep(r), UNCHANGED fallback PROVE SingleShape'
  <2>1. {"done", "failed"} \subseteq Labels
    BY DEF Labels
  <2>2. QED
    BY <1>3, <2>1, JobStepKeepsShape DEF SingleShape
<1>4. CASE UNCHANGED singleVars
  BY <1>4, StutterKeepsShape DEF SingleShape, singleVars
<1>5. QED
  BY <1>1, <1>2, <1>3, <1>4 DEF Next, Shared

LEMMA ShapeInvariance == Spec => []SingleShape
<1>1. Init => SingleShape
  <2>1. "idle" \in Labels /\ {{"l2"}} \subseteq SUBSET {"l1", "l2"}
    BY DEF Labels
  <2>2. QED
    BY <2>1, RunnerInitShape DEF Init, SingleShape
<1>2. Spec => []LocksTypeOK
  BY SingleTierImplementsLocks, LocksTypeCorrect, PTL
<1>3. QED
  BY <1>1, <1>2, StepKeepsShape, PlacesInvariance, PTL DEF Spec

(* For any finite set of requests and any options every variable of        *)
(* getOrSet on an L2 alone keeps its type, the entry on its way to L2      *)
(* included (single_tier_handler.ts:89-192).                               *)
THEOREM SingleTierTypeCorrect == Spec => []TypeOK
<1>1. SingleShape => TypeOK
  BY DEF SingleShape, Shape, TypeOK
<1>2. QED
  BY <1>1, ShapeInvariance, PTL

(* Apart from a read that threw inside the section, a call that is over    *)
(* and whose job is over has given the lock back, for all options and      *)
(* failures (single_tier_handler.ts:143-192).                              *)
THEOREM SingleTierLockGivenBack == Spec => []LockGivenBack
<1>1. Places /\ TypeOK => LockGivenBack
  BY DEF Places, PlaceOf, LockGivenBack, TypeOK, Labels
<1>2. QED
  BY <1>1, PlacesInvariance, SingleTierTypeCorrect, PTL

----------------------------------------------------------------------------
(* L2 moves forward.                                                       *)

SingleOrder ==
  /\ VersionsBounded /\ JobsLatest
  /\ \A r \in Requests : fallback[r] # None => fallback[r].ver <= runs

LEMMA HandlerStepOwnsJob ==
  ASSUME Places, NEW r \in Requests, HandlerStep(r)
  PROVE  OwnJob(r)
<1>1. CASE Catch(r)
  BY <1>1 DEF Catch, OwnJob
<1>2. CASE WriteFallback(r)
  BY <1>2 DEF WriteFallback, OwnJob, JobActive
<1>3. CASE ~Catch(r) /\ ~WriteFallback(r)
  <2>1. pc[r] \in BeforeJob
    BY <1>3 DEF HandlerStep, Call, FirstRead, AcquireLock, LockFailed, Recheck,
                ReturnRemote, RunFactory, BeforeJob, BeforeLock
  <2>2. QED
    BY <2>1 DEF Places, PlaceOf, OwnJob, JobActive
<1>4. QED
  BY <1>1, <1>2, <1>3

LEMMA HandlerCalmNeverReturns ==
  ASSUME IInv, IInv', Places, NEW r \in Requests, HandlerStep(r)
  PROVE  Calm' => Calm
BY HandlerStepsAreLockSteps, HandlerStepKeepsPlaces, HandlerStepOwnsJob,
   CalmNeverReturns

LEMMA HandlerStepKeepsOrder ==
  ASSUME IInv, IInv', SingleShape, Places, SingleOrder, NEW r \in Requests,
         HandlerStep(r)
  PROVE  SingleOrder'
<1> USE DEF requestVars, jobVars, itemVars, boundVars, cacheVars
<1>1. Calm' => Calm
  BY HandlerCalmNeverReturns
<1>2. /\ VersionsBounded /\ JobsLatest /\ RunnerTypeOK
      /\ \A q \in Requests : fallback[q] # None => fallback[q].ver <= runs
      /\ fallback \in [Requests -> Entries \cup {None}]
      /\ remoteItem \in [Requests -> Items \cup {None}]
  BY DEF SingleOrder, SingleShape, Shape, RunnerTypeOK
<1>3. Read(l2, now) # None => l2 # None /\ Read(l2, now).ver = l2.ver
  BY DEF Read
<1>4. CASE RunFactory(r)
  <2>1. /\ UNCHANGED <<lockVars, l1, l2, localItem, remoteItem, fallback>>
        /\ pc[r] = "looked" /\ Run(r)
    BY <1>4 DEF RunFactory
  <2>2. Holds(r) /\ fac[r] = "none"
    BY <2>1 DEF Places, PlaceOf, BeforeJob
  <2>3. VersionsBounded' /\ JobsLatest'
    BY <1>2, <2>1, <2>2, RunKeepsOrder
  <2>4. \A q \in Requests : fallback[q] # None => fallback[q].ver \in Nat
    BY <1>2 DEF Entries, Versions
  <2>5. runs' = runs + 1 /\ runs \in Nat
    BY <1>2, <2>1, VersionTypes DEF Run
  <2>6. \A q \in Requests : fallback[q] # None => fallback[q].ver <= runs + 1
    BY <1>2, <2>4, <2>5
  <2>7. QED
    BY <2>1, <2>3, <2>5, <2>6 DEF SingleOrder
<1>5. CASE Call(r) \/ AcquireLock(r) \/ LockFailed(r) \/ ReturnRemote(r)
  <2>1. UNCHANGED <<l1, l2, localItem, remoteItem, fac, made, runs, fallback>>
    BY <1>5 DEF Call, AcquireLock, LockFailed, ReturnRemote
  <2>2. QED
    BY <1>1, <1>2, <2>1, IdleStepKeepsLatest DEF SingleOrder, VersionsBounded
<1>6. CASE FirstRead(r) \/ Recheck(r)
  <2>1. /\ UNCHANGED <<l1, l2, localItem, fac, made, runs, fallback>>
        /\ \/ UNCHANGED remoteItem
           \/ remoteItem' = [remoteItem EXCEPT ![r] = None]
           \/ remoteItem' = [remoteItem EXCEPT ![r] = Read(l2, now)]
    BY <1>6 DEF FirstRead, Recheck, Answered, Unanswered
  <2>2. \A q \in Requests : remoteItem'[q] # None => remoteItem'[q].ver <= runs
    BY <1>2, <1>3, <2>1 DEF VersionsBounded
  <2>3. QED
    BY <1>1, <1>2, <2>1, <2>2, IdleStepKeepsLatest DEF SingleOrder, VersionsBounded
<1>7. CASE Catch(r)
  <2>1. /\ UNCHANGED <<l1, l2, localItem, remoteItem, fac, made, runs>>
        /\ \/ UNCHANGED fallback
           \/ /\ StaleItem(r) # None
              /\ fallback' = [fallback EXCEPT ![r] = BackedOff(StaleItem(r), opts[r])]
    BY <1>7 DEF Catch, ApplyFallback
  <2>2. StaleItem(r) # None => BackedOff(StaleItem(r), opts[r]).ver <= runs
    BY <1>2 DEF BackedOff, StaleItem, VersionsBounded
  <2>3. \A q \in Requests : fallback'[q] # None => fallback'[q].ver <= runs
    BY <1>2, <2>1, <2>2
  <2>4. QED
    BY <1>1, <1>2, <2>1, <2>3, IdleStepKeepsLatest DEF SingleOrder, VersionsBounded
<1>8. CASE WriteFallback(r)
  <2>1. /\ UNCHANGED <<l1, localItem, remoteItem, fac, made, runs>>
        /\ fallback[r] # None /\ fallback' = [fallback EXCEPT ![r] = None]
        /\ l2' \in {l2, fallback[r]}
    BY <1>8 DEF WriteFallback
  <2>2. \A q \in Requests : fallback'[q] # None => fallback'[q].ver <= runs
    BY <1>2, <2>1
  <2>3. l2' # None => l2'.ver <= runs
    BY <1>2, <2>1 DEF VersionsBounded
  <2>4. QED
    BY <1>1, <1>2, <2>1, <2>2, <2>3, IdleStepKeepsLatest DEF SingleOrder, VersionsBounded
<1>9. QED
  BY <1>4, <1>5, <1>6, <1>7, <1>8 DEF HandlerStep

LEMMA StepKeepsOrder ==
  IInv /\ IInv' /\ SingleShape /\ Places /\ SingleOrder /\ [Next]_singleVars => SingleOrder'
<1> SUFFICES ASSUME IInv, IInv', SingleShape, Places, SingleOrder, [Next]_singleVars
             PROVE  SingleOrder'
  OBVIOUS
<1>1. CASE ((Tick \/ Evict) /\ UNCHANGED fallback) \/ UNCHANGED singleVars
  <2>1. /\ UNCHANGED <<lockVars, fac, made, runs, localItem, remoteItem, fallback>>
        /\ l1' \in {l1, None} /\ l2' \in {l2, None}
    BY <1>1 DEF Tick, Evict, singleVars, vars, requestVars, jobVars, cacheVars
  <2>2. VersionsBounded' /\ JobsLatest'
    BY <2>1, EnvironmentKeepsOrder DEF SingleOrder
  <2>3. QED
    BY <2>1, <2>2 DEF SingleOrder
<1>2. ASSUME NEW r \in Requests, RunnerStep(r), UNCHANGED fallback PROVE SingleOrder'
  BY <1>2, JobStepKeepsBounds, JobStepKeepsLatest DEF SingleOrder, SingleShape, Shape
<1>3. ASSUME NEW r \in Requests, HandlerStep(r) PROVE SingleOrder'
  BY <1>3, HandlerStepKeepsOrder
<1>4. QED
  BY <1>1, <1>2, <1>3 DEF Next, Shared

(* What L2MovesForward says of a step. *)
Forward ==
  (Calm /\ ~crowded' /\ \A r \in Requests : fallback[r] = None)
    => (l2 # None /\ l2' # None => l2'.ver >= l2.ver)

LEMMA StepMovesForward ==
  SingleShape /\ SingleOrder /\ [Next]_singleVars => [Forward]_singleVars
<1> SUFFICES ASSUME SingleShape, SingleOrder, [Next]_singleVars, Calm,
                    \A r \in Requests : fallback[r] = None,
                    l2 # None, l2' # None
             PROVE  l2'.ver >= l2.ver
  BY DEF Forward
<1> USE DEF requestVars, jobVars, itemVars, boundVars, cacheVars
<1>1. RunnerTypeOK /\ VersionsBounded /\ JobsLatest
  BY DEF SingleShape, Shape, SingleOrder
<1>2. l2.ver \in Nat /\ l2.ver >= l2.ver /\ l2.ver <= runs /\ runs \in Nat
  BY <1>1, VersionTypes DEF VersionsBounded
<1>3. ASSUME NEW r \in Requests, WriteL2(r) PROVE l2'.ver >= l2.ver
  <2>1. l2' \in {l2, made[r]} /\ JobActive(r)
    BY <1>3 DEF WriteL2, JobActive
  <2>2. made[r].ver = runs
    BY <1>1, <2>1 DEF JobsLatest
  <2>3. QED
    BY <1>2, <2>1, <2>2
<1>4. CASE (Tick \/ Evict) \/ UNCHANGED singleVars
  <2>1. l2' = l2
    BY <1>4 DEF Tick, Evict, singleVars, vars
  <2>2. QED
    BY <1>2, <2>1
<1>5. ASSUME NEW r \in Requests, HandlerStep(r) PROVE l2'.ver >= l2.ver
  <2>1. UNCHANGED l2
    BY <1>5 DEF HandlerStep, Call, FirstRead, AcquireLock, LockFailed, Recheck,
                ReturnRemote, RunFactory, Catch, WriteFallback
  <2>2. QED
    BY <1>2, <2>1
<1>6. ASSUME NEW r \in Requests, RunnerStep(r), ~WriteL2(r) PROVE l2'.ver >= l2.ver
  <2>1. UNCHANGED l2
    BY <1>6 DEF RunnerStep, FactoryReturns, Settle, SoftTimeout, HardTimeout,
                DiscardLate
  <2>2. QED
    BY <1>2, <2>1
<1>7. QED
  BY <1>3, <1>4, <1>5, <1>6 DEF Next, Shared

(* For any number of calls, options and failures: while calls are one at a *)
(* time under the lock and no prolonged entry is on its way, no write      *)
(* takes L2 back to an older value (single_tier_handler.ts:101-105,        *)
(* factory_runner.ts:109).                                                 *)
THEOREM SingleTierL2Forward == Spec => L2MovesForward
<1>1. Init => SingleOrder
  <2> SUFFICES ASSUME Init PROVE SingleOrder
    OBVIOUS
  <2>1. VersionsBounded /\ JobsLatest
    BY InitOrder DEF Init
  <2>2. QED
    BY <2>1 DEF SingleOrder, Init
<1>2. Spec => []IInv
  BY SingleTierImplementsLocks, Invariance, PTL
<1>3. Spec => []SingleOrder
  BY <1>1, <1>2, StepKeepsOrder, PlacesInvariance, ShapeInvariance, PTL DEF Spec
<1>4. Spec => [][Forward]_singleVars
  BY <1>3, StepMovesForward, ShapeInvariance, PTL DEF Spec
<1>5. [][Forward]_singleVars => L2MovesForward
  BY DEF Forward, L2MovesForward
<1>6. QED
  BY <1>4, <1>5

----------------------------------------------------------------------------
(* One factory serves all.                                                 *)

(* The premise of OneFactoryServesAll. *)
Undisturbed ==
  /\ now = 0 /\ evictions = 0 /\ faults = 0
  /\ \A r \in Requests :
       /\ fac[r] \in {"none", "running"} \/ made[r].exp # None
       /\ opts[r] # None =>
            /\ ~opts[r].forceFresh /\ ~opts[r].skipL2Write
            /\ opts[r].hardTimeout = None /\ opts[r].ttl # None

(* Options come with the call, the expiration with the factory's value. *)
Stages ==
  /\ tiers = {"l2"}
  /\ \A r \in Requests :
       /\ pc[r] = "idle" => opts[r] = None
       /\ fac[r] \in {"none", "running"} => made[r].exp = None

(* Nothing failed. *)
Sound == \A r \in Requests :
  /\ pc[r] # "failed" /\ fallback[r] = None
  /\ fac[r] \notin {"skipped", "failed", "rejected"}

NotStarted ==
  /\ runs = 0 /\ ~crowded /\ ~Usable(l2)
  /\ \A r \in Requests : fac[r] = "none" /\ ~IsEntryValid(remoteItem[r])

(* The only job owns the lock until L2 took its value. *)
UnderWay(r) ==
  /\ runs = 1 /\ ~crowded
  /\ fac[r] \in {"running", "writing"} /\ Holds(r) /\ pc[r] \in {"awaiting", "done"}
  /\ fac[r] = "writing" => Usable(made[r])
  /\ \A q \in Requests : q # r => fac[q] = "none"

(* L2 has what the job made, and who looked under the lock has seen it. *)
Filled ==
  /\ runs = 1 /\ Usable(l2)
  /\ \A r \in Requests :
       /\ fac[r] \notin {"running", "writing"}
       /\ pc[r] = "looked" => IsEntryValid(remoteItem[r])

OneFlight ==
  Undisturbed => Sound /\ (NotStarted \/ Filled \/ \E r \in Requests : UnderWay(r))

(* What a driver failure leaves behind disturbs. *)
LEMMA NoFailure ==
  ASSUME SingleShape, Undisturbed, Undisturbed'
  PROVE  ~L2Fails
<1>1. faults = 0 /\ faults' = 0
  BY DEF Undisturbed
<1> QED  BY <1>1 DEF L2Fails

(* Only what is not there yet disturbs. *)
LEMMA UndisturbedBefore ==
  ASSUME SingleShape, Places, Stages, [Next]_singleVars, Undisturbed'
  PROVE  Undisturbed
<1> USE DEF requestVars, jobVars, itemVars, boundVars, cacheVars
<1>1. /\ now \in Nat /\ evictions \in Nat /\ faults \in Nat
      /\ fac \in [Requests -> JobStates]
      /\ made \in [Requests -> Entries] /\ opts \in [Requests -> Options \cup {None}]
  BY BoundsAssumption DEF SingleShape, Shape, RunnerTypeOK
<1>2. now' = 0 /\ evictions' = 0 /\ faults' = 0
  BY DEF Undisturbed
<1>3. CASE Tick \/ Evict
  <2>1. now' = now + 1 \/ evictions' = evictions + 1
    BY <1>3 DEF Tick, Evict
  <2> QED  BY <1>1, <1>2, <2>1
<1>4. CASE UNCHANGED singleVars
  BY <1>4 DEF singleVars, vars, Undisturbed
<1>5. ASSUME NEW r \in Requests, HandlerStep(r) \/ RunnerStep(r)
      PROVE  Undisturbed
  <2>1. UNCHANGED <<now, evictions>> /\ (UNCHANGED faults \/ L2Fails)
    BY <1>5 DEF HandlerStep, RunnerStep, Call, FirstRead, Answered, Unanswered, AcquireLock,
          LockFailed, Recheck, ReturnRemote, RunFactory, Catch, WriteFallback,
          FactoryReturns, WriteL2, Settle, SoftTimeout, HardTimeout, DiscardLate
  <2>2. now = 0 /\ evictions = 0 /\ faults = 0
    BY <1>1, <1>2, <2>1 DEF L2Fails
  <2>3. \A q \in Requests : opts[q] # None => opts'[q] = opts[q]
    <3>1. CASE Call(r)
      <4>1. pc[r] = "idle" /\ \E o \in Options : opts' = [opts EXCEPT ![r] = o]
        BY <3>1 DEF Call
      <4> QED  BY <1>1, <4>1 DEF Stages
    <3>2. CASE ~Call(r)
      BY <1>5, <3>2 DEF HandlerStep, RunnerStep, FirstRead, AcquireLock, LockFailed, Recheck,
          ReturnRemote, RunFactory, Catch, WriteFallback, FactoryReturns, WriteL2, Settle,
          SoftTimeout, HardTimeout, DiscardLate
    <3> QED  BY <3>1, <3>2
  <2>4. \A q \in Requests : fac[q] \in {"none", "running"}
                            \/ (fac'[q] \notin {"none", "running"} /\ made'[q] = made[q])
    <3>1. CASE RunFactory(r)
      <4>1. fac[r] = "none"
        BY <3>1 DEF RunFactory, Places, PlaceOf, BeforeJob
      <4>2. fac' = [fac EXCEPT ![r] = "running"] /\ made' = [made EXCEPT ![r].ver = runs + 1]
        BY <3>1 DEF RunFactory, Run
      <4> QED  BY <1>1, <4>1, <4>2
    <3>2. CASE FactoryReturns(r)
      <4>1. fac[r] = "running"
        BY <3>2 DEF FactoryReturns
      <4>2. \A q \in Requests : q # r => made'[q] = made[q] /\ fac'[q] = fac[q]
        BY <1>1, <3>2 DEF FactoryReturns
      <4> QED  BY <4>1, <4>2
    <3>3. CASE WriteL2(r) \/ Settle(r)
      <4>1. /\ fac' = [fac EXCEPT ![r] = fac'[r]] /\ UNCHANGED made
            /\ fac'[r] \in {"stored", "rejected", "settled"}
        BY <1>1, <3>3 DEF WriteL2, Settle
      <4> QED  BY <1>1, <4>1
    <3>4. CASE UNCHANGED <<fac, made>>
      BY <3>4
    <3> QED  BY <1>5, <3>1, <3>2, <3>3, <3>4 DEF HandlerStep, RunnerStep, Call, FirstRead,
               AcquireLock, LockFailed, Recheck, ReturnRemote, Catch, WriteFallback,
               SoftTimeout, HardTimeout, DiscardLate
  <2> QED  BY <2>2, <2>3, <2>4 DEF Undisturbed
<1> QED  BY <1>3, <1>4, <1>5 DEF Next, Shared

(* Undisturbed, a factory comes back with a value for L2. *)
LEMMA FactoryReturnsValue ==
  ASSUME SingleShape, Places, Stages, Undisturbed, Undisturbed', NEW r \in Requests,
         FactoryReturns(r)
  PROVE  /\ UNCHANGED <<lockVars, runs, pc>> /\ fac[r] = "running"
         /\ fac' = [fac EXCEPT ![r] = "writing"] /\ Usable(made'[r])
<1> DEFINE entry == [made[r] EXCEPT !.exp = LogicalTtlFromNow(opts[r], now)]
<1>1. /\ fac \in [Requests -> JobStates] /\ made \in [Requests -> Entries]
      /\ pc[r] # "idle" => opts[r] \in Options
  BY DEF SingleShape, Shape, RunnerTypeOK, OptsChosen
<1>2. fac[r] = "running" /\ UNCHANGED <<lockVars, runs, pc, now>>
  BY DEF FactoryReturns, requestVars
<1>3. now = 0 /\ opts[r] \in Options /\ ~opts[r].skipL2Write
  <2>1. pc[r] # "idle"
    BY <1>2 DEF Places, PlaceOf, BeforeJob, BeforeLock
  <2> QED  BY <1>1, <1>2, <2>1, OptionsAssumption DEF Undisturbed
<1>4. /\ made[r].exp = None
      /\ \/ fac'[r] \in {"none", "running"}
         \/ made'[r].exp # None
  BY <1>2 DEF Stages, Undisturbed
<1>5. entry \in Entries /\ entry.exp = LogicalTtlFromNow(opts[r], 0)
  <2>1. LogicalTtlFromNow(opts[r], 0) \in Nat \cup {None}
    BY <1>3, OptionTypes DEF LogicalTtlFromNow
  <2> QED  BY <1>1, <1>3, <2>1 DEF Entries
<1>6. fac' = [fac EXCEPT ![r] = "writing"] /\ made' = [made EXCEPT ![r] = entry]
  BY <1>1, <1>3, <1>4, OutcomesAssumption DEF FactoryReturns, Stages
<1>7. entry.exp # None
  BY <1>1, <1>4, <1>6
<1>8. opts[r].ttl \in Nat \cup {None}
  BY <1>3, OptionTypes
<1>9. entry.exp > 0
  BY <1>5, <1>7, <1>8 DEF LogicalTtlFromNow
<1> QED  BY <1>1, <1>2, <1>5, <1>6, <1>9, ItemsAssumption DEF Usable

LEMMA JobStepKeepsFlight ==
  ASSUME IInv, SingleShape, Places, Stages, Sound, Undisturbed, Undisturbed',
         NotStarted \/ Filled \/ \E r \in Requests : UnderWay(r),
         NEW r \in Requests, RunnerStep(r), UNCHANGED fallback
  PROVE  Sound' /\ (NotStarted' \/ Filled' \/ \E j \in Requests : UnderWay(j)')
<1> USE DEF requestVars, jobVars, itemVars, boundVars, cacheVars, Goto, Return
<1>1. /\ fac \in [Requests -> JobStates] /\ pc \in [Requests -> Labels]
      /\ made \in [Requests -> Entries]
      /\ \A q \in Requests : pc[q] # "idle" => opts[q] \in Options
  BY DEF SingleShape, Shape, RunnerTypeOK, OptsChosen
<1>2. ~L2Fails
  BY NoFailure
<1>3. ~HardTimeout(r)
  <2>1. SUFFICES ASSUME HardTimeout(r)  PROVE FALSE
    OBVIOUS
  <2>2. pc[r] = "awaiting" /\ opts[r].hardTimeout # None
    BY <2>1 DEF HardTimeout, TimeoutType, FactoryTimeout
  <2>3. opts[r] # None
    BY <1>1, <2>2, OptionsAssumption
  <2> QED  BY <2>2, <2>3 DEF Undisturbed
<1>4. CASE FactoryReturns(r)
  <2>1. /\ UNCHANGED <<lockVars, runs, pc>> /\ fac[r] = "running"
        /\ fac' = [fac EXCEPT ![r] = "writing"] /\ Usable(made'[r])
    BY <1>4, FactoryReturnsValue
  <2>2. Sound'
    BY <1>1, <2>1 DEF Sound
  <2>3. UnderWay(r)
    BY <2>1 DEF NotStarted, Filled, UnderWay
  <2>4. UnderWay(r)'
    BY <1>1, <2>1, <2>3 DEF UnderWay, Holds, lockVars
  <2> QED  BY <2>2, <2>4
<1>5. CASE WriteL2(r)
  <2>1. /\ fac[r] = "writing" /\ fac' = [fac EXCEPT ![r] = "stored"] /\ l2' = made[r]
        /\ UNCHANGED <<runs, pc, remoteItem>>
    BY <1>2, <1>5 DEF WriteL2
  <2>2. Sound'
    BY <1>1, <2>1 DEF Sound
  <2>3. UnderWay(r)
    BY <2>1 DEF NotStarted, Filled, UnderWay
  <2>4. \A q \in Requests : pc[q] # "looked"
    <3>1. \A q \in Requests : Holds(q) => q = r
      BY <2>3, OwnersAlone DEF UnderWay, SingleFlight
    <3> QED  BY <2>3, <3>1 DEF Places, PlaceOf, UnderWay
  <2>5. Filled'
    BY <1>1, <2>1, <2>3, <2>4 DEF Filled, UnderWay
  <2> QED  BY <2>2, <2>5
<1>6. CASE Settle(r)
  <2>1. /\ fac[r] = "stored" /\ fac' = [fac EXCEPT ![r] = "settled"]
        /\ UNCHANGED pc \/ pc' = [pc EXCEPT ![r] = "done"]
        /\ UNCHANGED <<runs, l2, remoteItem>>
    BY <1>6 DEF Settle, Sound
  <2>2. Sound'
    BY <1>1, <2>1 DEF Sound
  <2>3. Filled
    BY <2>1 DEF NotStarted, UnderWay
  <2>4. Filled'
    BY <1>1, <2>1, <2>3 DEF Filled
  <2> QED  BY <2>2, <2>4
<1>7. CASE SoftTimeout(r)
  <2>1. /\ pc[r] = "awaiting" /\ pc' = [pc EXCEPT ![r] = "done"]
        /\ UNCHANGED <<lockVars, runs, fac, made, l2, remoteItem>>
    BY <1>7 DEF SoftTimeout
  <2>2. Sound'
    BY <1>1, <2>1 DEF Sound
  <2>3. ASSUME Filled PROVE Filled'
    BY <1>1, <2>1, <2>3 DEF Filled
  <2>4. ASSUME NEW j \in Requests, UnderWay(j) PROVE UnderWay(j)'
    BY <1>1, <2>1, <2>4 DEF UnderWay, Holds, lockVars
  <2>5. ~NotStarted
    BY <2>1 DEF NotStarted, Places, PlaceOf, JobActive
  <2> QED  BY <2>2, <2>3, <2>4, <2>5
<1>8. CASE DiscardLate(r)
  <2>1. /\ UNCHANGED <<runs, crowded, l2, fac, made, pc, remoteItem>>
        /\ r \in gaveUp /\ Holds(r)
    BY <1>8 DEF DiscardLate, Discard
  <2>2. Sound'
    BY <2>1 DEF Sound
  <2>3. \A j \in Requests : ~UnderWay(j)
    <3>1. SUFFICES ASSUME NEW j \in Requests, UnderWay(j)  PROVE FALSE
      OBVIOUS
    <3>2. r = j
      BY <2>1, <3>1, OwnersAlone DEF UnderWay, SingleFlight
    <3> QED  BY <2>1, <3>1, <3>2 DEF UnderWay, Places, PlaceOf
  <2>4. CASE NotStarted
    BY <2>1, <2>2, <2>4 DEF NotStarted
  <2>5. CASE Filled
    BY <2>1, <2>2, <2>5 DEF Filled
  <2> QED  BY <2>3, <2>4, <2>5
<1> QED  BY <1>3, <1>4, <1>5, <1>6, <1>7, <1>8 DEF RunnerStep

(* No step of the lock by another request takes it from its owner or       *)
(* crowds it.                                                              *)
LEMMA HandlerStepKeepsFlight ==
  ASSUME IInv, SingleShape, Places, Stages, Sound, Undisturbed, Undisturbed',
         NotStarted \/ Filled \/ \E r \in Requests : UnderWay(r),
         NEW r \in Requests, HandlerStep(r)
  PROVE  Sound' /\ (NotStarted' \/ Filled' \/ \E j \in Requests : UnderWay(j)')
<1> USE DEF requestVars, jobVars, itemVars, boundVars, cacheVars, Goto, Return
<1>1. /\ fac \in [Requests -> JobStates] /\ pc \in [Requests -> Labels]
      /\ remoteItem \in [Requests -> Items \cup {None}]
      /\ opts \in [Requests -> Options \cup {None}]
      /\ l2 \in Entries \cup {None}
      /\ \A q \in Requests : pc[q] # "idle" => opts[q] \in Options
  BY DEF SingleShape, Shape, RunnerTypeOK, OptsChosen
<1>2. now = 0 /\ \A q \in Requests : pc[q] # "idle" => ~opts[q].forceFresh
  BY <1>1, OptionsAssumption DEF Undisturbed
<1>3. IsEntryValid(Read(l2, now)) <=> Usable(l2)
  BY <1>1, <1>2, ReadUsable
<1>4. ~L2Fails
  BY NoFailure
<1>5. ~Catch(r) /\ ~WriteFallback(r)
  BY DEF Catch, WriteFallback, Sound
<1>6. /\ UNCHANGED <<l2, fallback>>
      /\ \E next \in Labels \ {"idle", "failed"} : pc' = [pc EXCEPT ![r] = next]
  BY <1>5 DEF HandlerStep, Call, FirstRead, AcquireLock, LockFailed, Recheck, ReturnRemote,
              RunFactory, Run, Labels
<1>7. CASE RunFactory(r)
  <2>1. /\ pc[r] = "looked" /\ ~IsEntryValid(remoteItem[r]) /\ UNCHANGED lockVars
        /\ runs' = runs + 1 /\ fac' = [fac EXCEPT ![r] = "running"]
        /\ \E next \in {"done", "awaiting"} : pc' = [pc EXCEPT ![r] = next]
    BY <1>7 DEF RunFactory, Run
  <2>2. Holds(r)
    BY <2>1 DEF Places, PlaceOf
  <2>3. ~Filled /\ \A j \in Requests : ~UnderWay(j)
    <3>1. ASSUME NEW j \in Requests, UnderWay(j)  PROVE FALSE
      <4>1. r = j
        BY <2>2, <3>1, OwnersAlone DEF UnderWay, SingleFlight
      <4> QED  BY <2>1, <3>1, <4>1 DEF UnderWay
    <3> QED  BY <2>1, <3>1 DEF Filled
  <2>4. NotStarted
    BY <2>3
  <2>5. Holds(r)' /\ ~crowded'
    BY <2>1, <2>2, <2>4 DEF Holds, lockVars, NotStarted
  <2>6. Sound'
    BY <1>1, <1>6, <2>1 DEF Sound
  <2> QED  BY <1>1, <2>1, <2>4, <2>5, <2>6 DEF UnderWay, NotStarted
<1>8. CASE ~RunFactory(r)
  <2>1. UNCHANGED <<fac, made, runs>>
    BY <1>5, <1>8 DEF HandlerStep, Call, FirstRead, AcquireLock, LockFailed, Recheck,
                      ReturnRemote
  <2>2. Sound'
    BY <1>1, <1>6, <2>1 DEF Sound
  <2>3. /\ \A q \in Requests : q # r => remoteItem'[q] = remoteItem[q]
        /\ remoteItem'[r] \in {remoteItem[r], Read(l2, now)}
    BY <1>1, <1>4, <1>5, <1>8
    DEF HandlerStep, Call, FirstRead, Answered, Unanswered, AcquireLock, LockFailed, Recheck,
        ReturnRemote
  <2>4. Call(r) \/ FirstRead(r) \/ AcquireLock(r) \/ LockFailed(r) \/ Recheck(r)
        \/ ReturnRemote(r)
    BY <1>5, <1>8 DEF HandlerStep
  <2>5. CASE NotStarted
    <3>1. ~ReturnRemote(r)
      BY <2>5 DEF NotStarted, ReturnRemote
    <3>2. UNCHANGED crowded
      BY <2>4, <3>1 DEF Call, FirstRead, AcquireLock, Acquire, LockFailed, GiveUp, Recheck,
                        lockVars
    <3>3. \A q \in Requests : ~IsEntryValid(remoteItem'[q])
      BY <1>3, <2>3, <2>5 DEF NotStarted
    <3> QED  BY <1>6, <2>1, <2>2, <2>5, <3>2, <3>3 DEF NotStarted
  <2>6. CASE Filled
    <3>1. pc'[r] = "looked" => IsEntryValid(remoteItem'[r])
      <4>1. CASE Recheck(r)
        <5>1. ~opts[r].forceFresh
          BY <1>2, <4>1 DEF Recheck
        <5>2. remoteItem' = [remoteItem EXCEPT ![r] = Read(l2, now)]
          BY <1>4, <4>1, <5>1 DEF Recheck, Answered, Unanswered
        <5> QED  BY <1>1, <1>3, <2>6, <5>2 DEF Filled
      <4>2. CASE ~Recheck(r)
        BY <1>1, <2>4, <4>2 DEF Call, FirstRead, AcquireLock, LockFailed, ReturnRemote
      <4> QED  BY <4>1, <4>2
    <3> QED  BY <1>1, <1>6, <2>1, <2>2, <2>3, <2>6, <3>1 DEF Filled
  <2>7. ASSUME NEW j \in Requests, UnderWay(j)
        PROVE  UnderWay(j)'
    <3>1. \A q \in Requests : Holds(q) => q = j
      BY <2>7, OwnersAlone DEF UnderWay, SingleFlight
    <3>2. ~Recheck(r) /\ ~ReturnRemote(r)
      BY <2>7, <3>1 DEF UnderWay, Recheck, ReturnRemote, Places, PlaceOf
    <3>3. pc[r] \in {"idle", "reading", "missed", "locking"} /\ UNCHANGED crowded
      BY <2>4, <3>2 DEF Call, FirstRead, AcquireLock, Acquire, LockFailed, GiveUp, lockVars
    <3>4. r # j /\ pc'[j] = pc[j]
      BY <1>1, <1>6, <2>7, <3>3 DEF UnderWay
    <3>5. Holds(j)'
      BY <2>7, <3>4, HandlerStepsAreLockSteps, OthersKeepPlace DEF UnderWay
    <3> QED  BY <2>1, <2>7, <3>3, <3>4, <3>5 DEF UnderWay
  <2> QED  BY <2>2, <2>5, <2>6, <2>7
<1> QED  BY <1>7, <1>8

LEMMA StepKeepsStages ==
  SingleShape /\ Places /\ Stages /\ [Next]_singleVars => Stages'
<1> SUFFICES ASSUME SingleShape, Places, Stages, [Next]_singleVars PROVE Stages'
  OBVIOUS
<1> USE DEF requestVars, jobVars, itemVars, boundVars, cacheVars, Goto, Return
<1>1. /\ fac \in [Requests -> JobStates] /\ pc \in [Requests -> Labels]
      /\ made \in [Requests -> Entries] /\ opts \in [Requests -> Options \cup {None}]
  BY DEF SingleShape, Shape, RunnerTypeOK
<1>2. CASE (Tick \/ Evict) \/ UNCHANGED singleVars
  BY <1>2 DEF Tick, Evict, singleVars, vars, Stages
<1>3. ASSUME NEW r \in Requests, RunnerStep(r)
      PROVE  Stages'
  <2>1. /\ UNCHANGED <<tiers, opts>>
        /\ UNCHANGED pc \/ \E next \in {"done", "failed"} : pc' = [pc EXCEPT ![r] = next]
    BY <1>1, <1>3
    DEF RunnerStep, FactoryReturns, WriteL2, Settle, SoftTimeout, HardTimeout, DiscardLate
  <2>2. /\ \A q \in Requests : q # r => made'[q] = made[q] /\ fac'[q] = fac[q]
        /\ fac'[r] \notin {"none", "running"} \/ UNCHANGED <<fac, made>>
    BY <1>1, <1>3, OutcomesAssumption
    DEF RunnerStep, FactoryReturns, WriteL2, Settle, SoftTimeout, HardTimeout, DiscardLate
  <2> QED  BY <1>1, <2>1, <2>2 DEF Stages
<1>4. ASSUME NEW r \in Requests, HandlerStep(r)
      PROVE  Stages'
  <2>1. UNCHANGED tiers /\ \A q \in Requests : q # r => opts'[q] = opts[q]
    BY <1>1, <1>4 DEF HandlerStep, Call, FirstRead, AcquireLock, LockFailed, Recheck,
                      ReturnRemote, RunFactory, Catch, WriteFallback
  <2>2. /\ pc'[r] # "idle" \/ WriteFallback(r)
        /\ \A q \in Requests : q # r => pc'[q] = pc[q]
    BY <1>1, <1>4 DEF HandlerStep, Call, FirstRead, AcquireLock, LockFailed, Recheck,
                      ReturnRemote, RunFactory, Run, Catch, ApplyFallback, WriteFallback
  <2>3. WriteFallback(r) => UNCHANGED <<pc, opts>>
    BY DEF WriteFallback
  <2>4. \A q \in Requests : made'[q].exp = made[q].exp /\ (fac'[q] = fac[q] \/ fac[q] = "none")
    <3>1. CASE RunFactory(r)
      <4>1. made' = [made EXCEPT ![r].ver = runs + 1] /\ fac' = [fac EXCEPT ![r] = "running"]
        BY <3>1 DEF RunFactory, Run
      <4>2. fac[r] = "none"
        BY <3>1 DEF RunFactory, Places, PlaceOf, BeforeJob
      <4> QED  BY <1>1, <4>1, <4>2 DEF Entries
    <3>2. CASE ~RunFactory(r)
      BY <1>4, <3>2 DEF HandlerStep, Call, FirstRead, AcquireLock, LockFailed, Recheck,
                        ReturnRemote, Catch, WriteFallback
    <3> QED  BY <3>1, <3>2
  <2> QED  BY <1>1, <2>1, <2>2, <2>3, <2>4 DEF Stages
<1> QED  BY <1>2, <1>3, <1>4 DEF Next, Shared

(* Stampede protection on L2 alone, for any number of calls: while nothing *)
(* lapses, is dropped or fails and factories return values, the first      *)
(* factory is the only one, however its job, the reads of L2, the timers   *)
(* and late callers interleave (single_tier_handler.ts:125-161).           *)
THEOREM SingleTierOneFactory == Spec => []OneFactoryServesAll
<1>1. Init => OneFlight /\ Stages
  <2> SUFFICES ASSUME Init  PROVE OneFlight /\ Stages
    OBVIOUS
  <2>1. /\ l2 \in {None, [ver |-> 0, exp |-> 0]} /\ tiers = {"l2"}
        /\ runs = 0 /\ crowded = FALSE
        /\ \A r \in Requests : /\ fac[r] = "none" /\ remoteItem[r] = None
                               /\ opts[r] = None /\ pc[r] = "idle"
                               /\ fallback[r] = None /\ made[r].exp = None
    BY DEF Init, RunnerInit, LocksInit
  <2>2. ~Usable(l2)
    BY <2>1, ItemsAssumption DEF Usable
  <2> QED  BY <2>1, <2>2 DEF OneFlight, NotStarted, Sound, Stages, IsEntryValid
<1>2. IInv /\ SingleShape /\ Places /\ Stages /\ OneFlight /\ [Next]_singleVars => OneFlight'
  <2> SUFFICES ASSUME IInv, SingleShape, Places, Stages, OneFlight, [Next]_singleVars,
                      Undisturbed'
               PROVE  Sound' /\ (NotStarted' \/ Filled' \/ \E r \in Requests : UnderWay(r)')
    BY DEF OneFlight
  <2>1. Undisturbed
    BY UndisturbedBefore
  <2>2. Sound /\ (NotStarted \/ Filled \/ \E r \in Requests : UnderWay(r))
    BY <2>1 DEF OneFlight
  <2>3. CASE UNCHANGED singleVars
    BY <2>2, <2>3 DEF singleVars, vars, Sound, NotStarted, Filled, UnderWay, Holds, lockVars
  <2>4. ~Tick /\ ~Evict
    <3>1. now = 0 /\ evictions = 0 /\ now' = 0 /\ evictions' = 0
      BY <2>1 DEF Undisturbed
    <3> QED  BY <3>1 DEF Tick, Evict
  <2>5. ASSUME NEW r \in Requests, HandlerStep(r) \/ (RunnerStep(r) /\ UNCHANGED fallback)
        PROVE  Sound' /\ (NotStarted' \/ Filled' \/ \E j \in Requests : UnderWay(j)')
    BY <2>1, <2>2, <2>5, HandlerStepKeepsFlight, JobStepKeepsFlight
  <2> QED  BY <2>3, <2>4, <2>5 DEF Next, Shared
<1>3. OneFlight => OneFactoryServesAll
  BY DEF OneFlight, NotStarted, Filled, UnderWay, Undisturbed, OneFactoryServesAll
<1>4. Spec => []IInv
  BY SingleTierImplementsLocks, Invariance, PTL
<1> QED  BY <1>1, <1>2, <1>3, <1>4, StepKeepsStages, ShapeInvariance, PlacesInvariance,
            PTL DEF Spec
=============================================================================
