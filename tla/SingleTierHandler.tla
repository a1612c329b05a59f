------------------------- MODULE SingleTierHandler -------------------------
(***************************************************************************)
(* cache/get_set/single_tier_handler.ts: getOrSet on a stack whose only    *)
(* tier is an L2, for any number of concurrent requests of one key.  Here  *)
(* L2 errors are thrown at the caller unless suppressL2Errors is set, and  *)
(* the prolonged stale value is written to L2 by a promise nobody awaits.  *)
(***************************************************************************)
EXTENDS FactoryRunner

VARIABLE fallback   \* fallback[r]: the entry that promise writes, or None

singleVars == <<vars, fallback>>

Labels == {"idle", "reading", "missed", "locking", "looked", "awaiting",
           "failed", "done"}

TypeOK ==
  /\ RunnerTypeOK
  /\ pc \in [Requests -> Labels]
  /\ fallback \in [Requests -> Entries \cup {None}]

Init == RunnerInit({{"l2"}}) /\ fallback = [r \in Requests |-> None]

----------------------------------------------------------------------------

(* handle: a forced refresh goes straight to the lock.                     *)
Call(r) == \E o \in Options :
  /\ pc[r] = "idle"
  /\ opts' = [opts EXCEPT ![r] = o]
  /\ Goto(r, IF o.forceFresh THEN "missed" ELSE "reading")
  /\ UNCHANGED <<lockVars, tiers, now, cacheVars, itemVars, jobVars, answer,
                 boundVars, fallback>>

(* A read of L2 that the driver answers or fails.                          *)
Answered(r) ==
  /\ remoteItem' = [remoteItem EXCEPT ![r] = Read(l2, now)]
  /\ UNCHANGED faults

Unanswered(r) ==
  /\ L2Fails
  /\ remoteItem' = [remoteItem EXCEPT ![r] = None]

(* The first look at L2.                                                   *)
FirstRead(r) ==
  /\ pc[r] = "reading"
  /\ \/ /\ Answered(r)
        /\ IF IsEntryValid(Read(l2, now))
             THEN Return(r, Hit(Read(l2, now)))
             ELSE Goto(r, "missed") /\ UNCHANGED answer
     \/ /\ Unanswered(r)
        /\ IF SuppressesL2Errors(r)
             THEN Goto(r, "missed") /\ UNCHANGED answer
             ELSE Return(r, Error("l2 error"))
  /\ UNCHANGED <<lockVars, tiers, now, cacheVars, opts, localItem, jobVars,
                 evictions, fallback>>

(* #acquireLock *)
AcquireLock(r) ==
  /\ pc[r] = "missed"
  /\ Acquire(r)
  /\ Goto(r, "locking")
  /\ UNCHANGED <<tiers, now, cacheVars, opts, itemVars, answer, jobVars,
                 boundVars, fallback>>

(* #returnGracedValueOrThrow *)
GracedValueOr(r, item, err) ==
  IF IsGraceEnabled(opts[r]) /\ item # None THEN Hit(item) ELSE Error(err)

(* The timer of the lock fires.                                            *)
LockFailed(r) ==
  /\ pc[r] = "locking"
  /\ ApplicableLockTimeout(opts[r], remoteItem[r] # None) # None
  /\ GiveUp(r)
  /\ Return(r, GracedValueOr(r, remoteItem[r], "lock timeout"))
  /\ UNCHANGED <<tiers, now, cacheVars, opts, itemVars, jobVars, boundVars, fallback>>

(* Mutant of Recheck: no second look at L2. *)
RecheckBlind(r) ==
  /\ pc[r] = "locking"
  /\ Holds(r)
  /\ Goto(r, "looked")
  /\ UNCHANGED <<lockVars, tiers, now, cacheVars, opts, itemVars, answer, jobVars,
                 boundVars, fallback>>

(* The lock is granted: look at L2 again, unless a refresh is forced.  A   *)
(* read error that is not suppressed is thrown outside the try block: the  *)
(* lock is not released.                                                   *)
Recheck(r) ==
  /\ pc[r] = "locking"
  /\ Holds(r)
  /\ \/ /\ opts[r].forceFresh
        /\ Goto(r, "looked")
        /\ UNCHANGED <<remoteItem, faults, answer>>
     \/ /\ ~opts[r].forceFresh
        /\ Answered(r)
        /\ Goto(r, "looked")
        /\ UNCHANGED answer
     \/ /\ ~opts[r].forceFresh
        /\ Unanswered(r)
        /\ IF SuppressesL2Errors(r)
             THEN Goto(r, "looked") /\ UNCHANGED answer
             ELSE Return(r, Error("l2 error"))
  /\ UNCHANGED <<lockVars, tiers, now, cacheVars, opts, localItem, jobVars,
                 evictions, fallback>>

(* Mutant of ReturnRemote: the lock is kept. *)
ReturnRemoteKeepLock(r) ==
  /\ pc[r] = "looked"
  /\ IsEntryValid(remoteItem[r])
  /\ Return(r, Hit(remoteItem[r]))
  /\ UNCHANGED <<lockVars, tiers, now, cacheVars, opts, itemVars, jobVars,
                 boundVars, fallback>>

ReturnRemote(r) ==
  /\ pc[r] = "looked"
  /\ IsEntryValid(remoteItem[r])
  /\ Release(r)
  /\ Return(r, Hit(remoteItem[r]))
  /\ UNCHANGED <<tiers, now, cacheVars, opts, itemVars, jobVars, boundVars, fallback>>

(* Mutant of RunFactory: nothing stops a second run. *)
RunFactoryAgain(r) ==
  /\ pc[r] \in {"looked", "awaiting"}
  /\ Run(r)
  /\ UNCHANGED <<lockVars, tiers, now, cacheVars, opts, itemVars, boundVars, fallback>>

RunFactory(r) ==
  /\ pc[r] = "looked"
  /\ ~IsEntryValid(remoteItem[r])
  /\ Run(r)
  /\ UNCHANGED <<lockVars, tiers, now, cacheVars, opts, itemVars, boundVars, fallback>>

(* #applyFallbackAndReturnGracedValue: the prolonged copy of the stale     *)
(* item is sent to L2; the caller does not wait for it.                    *)
ApplyFallback(r, stale) ==
  /\ fallback' = IF opts[r].graceBackoff > 0
                   THEN [fallback EXCEPT ![r] = BackedOff(stale, opts[r])]
                   ELSE fallback
  /\ Return(r, [Hit(stale) EXCEPT !.graced = TRUE])

(* The catch block after a factory error, a failed write or a hard         *)
(* timeout: release (again), then serve the stale item or throw.           *)
Catch(r) ==
  /\ pc[r] = "failed"
  /\ Release(r)
  /\ IF StaleItem(r) # None /\ IsGraceEnabled(opts[r])
       THEN ApplyFallback(r, StaleItem(r))
       ELSE Return(r, Error("factory error")) /\ UNCHANGED fallback
  /\ UNCHANGED <<tiers, now, cacheVars, opts, itemVars, jobVars, boundVars>>

(* The write nobody awaits lands, or is rejected with no handler.          *)
WriteFallback(r) ==
  /\ fallback[r] # None
  /\ fallback' = [fallback EXCEPT ![r] = None]
  /\ \/ l2' = fallback[r] /\ UNCHANGED <<faults, unhandled>>
     \/ /\ L2Fails
        /\ unhandled' = IF SuppressesL2Errors(r) THEN unhandled ELSE unhandled \cup {r}
        /\ UNCHANGED l2
  /\ UNCHANGED <<lockVars, tiers, now, l1, requestVars, fac, made, runs, evictions>>

HandlerStep(r) ==
  \/ Call(r) \/ FirstRead(r) \/ AcquireLock(r) \/ LockFailed(r) \/ Recheck(r)
  \/ ReturnRemote(r) \/ RunFactory(r) \/ Catch(r) \/ WriteFallback(r)

Shared == Tick \/ Evict \/ \E r \in Requests : RunnerStep(r)

Next == (\E r \in Requests : HandlerStep(r)) \/ (Shared /\ UNCHANGED fallback)

Spec == Init /\ [][Next]_singleVars

(* As for TwoTierHandler: the event loop continues settled promises, the   *)
(* driver answers or fails, factories end.                                 *)
Fairness == \A r \in Requests :
  /\ WF_singleVars(FirstRead(r)) /\ WF_singleVars(AcquireLock(r))
  /\ WF_singleVars(Recheck(r)) /\ WF_singleVars(ReturnRemote(r))
  /\ WF_singleVars(RunFactory(r)) /\ WF_singleVars(Catch(r))
  /\ WF_singleVars(FactoryReturns(r) /\ UNCHANGED fallback)
  /\ WF_singleVars(WriteL2(r) /\ UNCHANGED fallback)
  /\ WF_singleVars(Settle(r) /\ UNCHANGED fallback)
  /\ WF_singleVars(DiscardLate(r) /\ UNCHANGED fallback)

FairSpec == Spec /\ Fairness

----------------------------------------------------------------------------

(* Apart from a read that threw inside the locked section, a request that  *)
(* is over gives the lock back (single_tier_handler.ts:143-192).           *)
LockGivenBack ==
  \A r \in Requests :
    (Holds(r) /\ r \notin gaveUp) =>
      \/ pc[r] \in {"locking", "looked", "awaiting", "failed"}
      \/ JobActive(r)
      \/ answer[r].kind = "l2 error" /\ ~SuppressesL2Errors(r)

(* Stampede protection on L2 alone: as long as nothing lapses, is dropped  *)
(* or fails, nobody forces a refresh, abandons a factory or keeps its      *)
(* value from L2, and factories return values, one factory serves every    *)
(* request of the key, also those that read L2 before its value was there  *)
(* (single_tier_handler.ts:125-161).                                       *)
OneFactoryServesAll ==
  LET undisturbed ==
        /\ now = 0 /\ evictions = 0 /\ faults = 0
        /\ \A r \in Requests :
             /\ fac[r] \in {"none", "running"} \/ made[r].exp # None
             /\ opts[r] # None =>
                  /\ ~opts[r].forceFresh /\ ~opts[r].skipL2Write
                  /\ opts[r].hardTimeout = None /\ opts[r].ttl # None
  IN undisturbed => runs <= 1

(* While one request at a time is in the section and nothing prolonged is  *)
(* on its way, L2 only moves forward: no write replaces a newer value      *)
(* (single_tier_handler.ts:101-105, factory_runner.ts:109).                *)
L2MovesForward ==
  [][ (Calm /\ ~crowded' /\ \A r \in Requests : fallback[r] = None)
      => (l2 # None /\ l2' # None => l2'.ver >= l2.ver) ]_singleVars

(* A request that waits for the lock is answered, unless a request that    *)
(* was thrown an L2 error inside the section took the lock with it.        *)
AnsweredUnlessLeaked ==
  \A r \in Requests : pc[r] = "locking" ~>
    \/ pc[r] = "done"
    \/ \E q \in Requests : Holds(q) /\ answer[q].kind = "l2 error"

(* Documented at stampede_protection.md:43-44: requests wait for the lock  *)
(* to be released and then go on, so a request that waits is answered.     *)
WaitersProceed == \A r \in Requests : pc[r] = "locking" ~> pc[r] = "done"
=============================================================================
