-------------------------- MODULE TwoTierHandler ---------------------------
(***************************************************************************)
(* cache/get_set/two_tier_handler.ts: getOrSet on a stack with an L1, with *)
(* or without an L2, for any number of concurrent requests of one key.     *)
(***************************************************************************)
EXTENDS FactoryRunner

Labels == {"idle", "missed", "locking", "locked", "looked", "awaiting",
           "failed", "done"}

TypeOK == RunnerTypeOK /\ pc \in [Requests -> Labels]

Init == RunnerInit({{"l1"}, {"l1", "l2"}})

----------------------------------------------------------------------------

(* handle: look at L1 first, unless the caller forces a fresh value.       *)
Call(r) == \E o \in Options :
  /\ pc[r] = "idle"
  /\ opts' = [opts EXCEPT ![r] = o]
  /\ IF o.forceFresh
       THEN Goto(r, "missed") /\ UNCHANGED <<localItem, answer>>
       ELSE /\ localItem' = [localItem EXCEPT ![r] = Read(l1, now)]
            /\ IF IsEntryValid(Read(l1, now))
                 THEN Return(r, Hit(Read(l1, now)))
                 ELSE Goto(r, "missed") /\ UNCHANGED answer
  /\ UNCHANGED <<lockVars, tiers, now, cacheVars, remoteItem, jobVars, boundVars>>

(* #acquireLock *)
AcquireLock(r) ==
  /\ pc[r] = "missed"
  /\ Acquire(r)
  /\ Goto(r, "locking")
  /\ UNCHANGED <<tiers, now, cacheVars, opts, itemVars, answer, jobVars, boundVars>>

(* #returnGracedValueOrThrow *)
GracedValueOr(r, item, err) ==
  IF IsGraceEnabled(opts[r]) /\ item # None THEN Hit(item) ELSE Error(err)

(* The timer of the lock fires.                                            *)
LockFailed(r) ==
  /\ pc[r] = "locking"
  /\ ApplicableLockTimeout(opts[r], localItem[r] # None) # None
  /\ GiveUp(r)
  /\ Return(r, GracedValueOr(r, localItem[r], "lock timeout"))
  /\ UNCHANGED <<tiers, now, cacheVars, opts, itemVars, jobVars, boundVars>>

(* Mutant of Recheck: no second look at L1. *)
RecheckBlind(r) ==
  /\ pc[r] = "locking"
  /\ Holds(r)
  /\ Goto(r, IF "l2" \in tiers THEN "locked" ELSE "looked")
  /\ UNCHANGED <<lockVars, tiers, now, cacheVars, opts, itemVars, answer, jobVars,
                 boundVars>>

(* The lock is granted: look at L1 again, another request may have filled  *)
(* it meanwhile.  A forced refresh goes straight to the factory, and so    *)
(* does a stack without L2.                                                *)
Recheck(r) ==
  LET item == Read(l1, now) IN
  /\ pc[r] = "locking"
  /\ Holds(r)
  /\ IF opts[r].forceFresh
       THEN Goto(r, "looked") /\ UNCHANGED <<lockVars, localItem, answer>>
       ELSE /\ localItem' = [localItem EXCEPT ![r] = item]
            /\ IF IsEntryValid(item)
                 THEN Release(r) /\ Return(r, Hit(item))
                 ELSE /\ Goto(r, IF "l2" \in tiers THEN "locked" ELSE "looked")
                      /\ UNCHANGED <<lockVars, answer>>
  /\ UNCHANGED <<tiers, now, cacheVars, opts, remoteItem, jobVars, boundVars>>

(* L2 answers the read.  A read that fails counts as a miss, or is thrown  *)
(* at the caller: that throw leaves #lockAndHandle outside its try block,  *)
(* so the lock is not released.                                            *)
ReadL2(r) ==
  /\ pc[r] = "locked"
  /\ \/ /\ remoteItem' = [remoteItem EXCEPT ![r] = Read(l2, now)]
        /\ Goto(r, "looked")
        /\ UNCHANGED <<faults, answer>>
     \/ /\ L2Fails
        /\ IF SuppressesL2Errors(r)
             THEN Goto(r, "looked") /\ UNCHANGED answer
             ELSE Return(r, Error("l2 error"))
        /\ UNCHANGED remoteItem
  /\ UNCHANGED <<lockVars, tiers, now, cacheVars, opts, localItem, jobVars, evictions>>

(* Mutant of ReturnRemote: the lock is kept. *)
ReturnRemoteKeepLock(r) ==
  /\ pc[r] = "looked"
  /\ IsEntryValid(remoteItem[r])
  /\ l1' = Serialized(remoteItem[r])
  /\ Return(r, Hit(remoteItem[r]))
  /\ UNCHANGED <<lockVars, tiers, now, l2, opts, itemVars, jobVars, boundVars>>

(* #returnRemoteCacheValue: release, copy the entry read from L2 to L1.    *)
ReturnRemote(r) ==
  /\ pc[r] = "looked"
  /\ IsEntryValid(remoteItem[r])
  /\ Release(r)
  /\ l1' = Serialized(remoteItem[r])
  /\ Return(r, Hit(remoteItem[r]))
  /\ UNCHANGED <<tiers, now, l2, opts, itemVars, jobVars, boundVars>>

(* Mutant of RunFactory: nothing stops a second run. *)
RunFactoryAgain(r) ==
  /\ pc[r] \in {"looked", "awaiting"}
  /\ Run(r)
  /\ UNCHANGED <<lockVars, tiers, now, cacheVars, opts, itemVars, boundVars>>

RunFactory(r) ==
  /\ pc[r] = "looked"
  /\ ~IsEntryValid(remoteItem[r])
  /\ Run(r)
  /\ UNCHANGED <<lockVars, tiers, now, cacheVars, opts, itemVars, boundVars>>

(* #applyFallbackAndReturnGracedValue: the prolonged copy of the stale     *)
(* item goes to L1, whatever L1 holds by now.                              *)
ApplyFallback(r, stale) ==
  /\ l1' = IF opts[r].graceBackoff > 0 THEN BackedOff(stale, opts[r]) ELSE l1
  /\ Return(r, [Hit(stale) EXCEPT !.graced = TRUE])

(* The catch block after a factory error, a failed write or a hard         *)
(* timeout: release (again), then serve the stale item or throw.           *)
Catch(r) ==
  /\ pc[r] = "failed"
  /\ Release(r)
  /\ IF StaleItem(r) # None /\ IsGraceEnabled(opts[r])
       THEN ApplyFallback(r, StaleItem(r))
       ELSE Return(r, Error("factory error")) /\ UNCHANGED l1
  /\ UNCHANGED <<tiers, now, l2, opts, itemVars, jobVars, boundVars>>

HandlerStep(r) ==
  \/ Call(r) \/ AcquireLock(r) \/ LockFailed(r) \/ Recheck(r) \/ ReadL2(r)
  \/ ReturnRemote(r) \/ RunFactory(r) \/ Catch(r)

Next == Tick \/ Evict \/ \E r \in Requests : HandlerStep(r) \/ RunnerStep(r)

Spec == Init /\ [][Next]_vars

(* Promises that settled are continued by the event loop, the L2 driver    *)
(* answers or fails, and factories end.  Callers, timers, the clock and    *)
(* evictions owe nothing.                                                  *)
Fairness == \A r \in Requests :
  /\ WF_vars(AcquireLock(r)) /\ WF_vars(Recheck(r)) /\ WF_vars(ReadL2(r))
  /\ WF_vars(ReturnRemote(r)) /\ WF_vars(RunFactory(r)) /\ WF_vars(Catch(r))
  /\ WF_vars(FactoryReturns(r)) /\ WF_vars(WriteL2(r)) /\ WF_vars(Settle(r))
  /\ WF_vars(DiscardLate(r))

FairSpec == Spec /\ Fairness

----------------------------------------------------------------------------
(* Safety.                                                                 *)

(* The request left the locked section by the throw of its read.           *)
TookLock(r) == Holds(r) /\ answer[r].kind = "l2 error"

(* A request that is over, and whose job is over, has given the lock back, *)
(* however it ended: hit, fallback, factory error, timeout, skip; only one *)
(* that was thrown the error of its L2 read takes the lock with it         *)
(* (two_tier_handler.ts:153-204, factory_runner.ts:94-111).                *)
LockGivenBack ==
  \A r \in Requests :
    (Holds(r) /\ r \notin gaveUp) =>
      \/ pc[r] \in {"locking", "locked", "looked", "awaiting", "failed"}
      \/ JobActive(r)
      \/ TookLock(r) /\ ~SuppressesL2Errors(r)

(* Stampede protection: as long as nothing lapses or is dropped, nobody    *)
(* forces a refresh or abandons a factory, and factories return values,    *)
(* one factory serves every request of the key, late comers included       *)
(* (two_tier_handler.ts:146-155).                                          *)
OneFactoryServesAll ==
  LET undisturbed ==
        /\ now = 0 /\ evictions = 0
        /\ \A r \in Requests :
             /\ fac[r] \in {"none", "running"} \/ made[r].exp # None
             /\ opts[r] # None =>
                  /\ ~opts[r].forceFresh
                  /\ opts[r].hardTimeout = None /\ opts[r].ttl # None
  IN undisturbed => runs <= 1

(* L1 is never behind L2, faults and evictions included, unless releases   *)
(* were crowded or a job outlives its lock (cache_stack.ts:166-181).       *)
L1NotBehindL2 ==
  Calm => (l1 # None /\ l2 # None => l1.ver >= l2.ver)

(* An L2 failure never surfaces as an unhandled rejection: the only        *)
(* background job left without a handler is one whose factory returned     *)
(* undefined (factory_runner.ts:139, cache_stack.ts:150).                  *)
OnlyUndefinedUnhandled ==
  \A r \in unhandled : SuppressesL2Errors(r) => made[r].exp = None

(* Documented at stampede_protection.md:40: the factory of a key is never  *)
(* executed multiple times simultaneously.                                 *)
OneFactoryAtATime == Cardinality(FactoryRunning) <= 1

(* Liveness: every call is answered, whoever timed out, failed or went to  *)
(* the background meanwhile, unless a request that was thrown an L2 error  *)
(* took the lock with it (two_tier_handler.ts:131-205).                    *)
EveryCallAnswered ==
  \A r \in Requests :
    pc[r] # "idle" ~> (pc[r] = "done" \/ \E q \in Requests : TookLock(q))

(* Every lock is given up, but for such a request.                         *)
EveryLockFreed == \A r \in Requests : Holds(r) ~> (~Holds(r) \/ TookLock(r))
=============================================================================
