--------------------------- MODULE FactoryRunner ---------------------------
(***************************************************************************)
(* What the two getOrSet handlers of one key share: the tiers of the cache *)
(* stack with their clock, the lock of the key, the factory jobs of        *)
(* cache/factory_runner.ts and the write of CacheStack.set.                *)
(*                                                                         *)
(* A request is one getOrSet call.  Its factory job runs beside it: after  *)
(* a timeout, or from the start in SWR mode, the request is over while the *)
(* job goes on, writes its value and releases the lock.  Values are        *)
(* numbered in the order their factories started.                          *)
(***************************************************************************)
EXTENDS Locks

INSTANCE CacheEntryOptions

CONSTANTS
  Options,        \* the option records callers choose from
  Outcomes,       \* what factories do: "value", "error", "skip", "undefined"
  MaxNow,         \* bound on the clock
  MaxEvictions,   \* bound on entries dropped by a driver
  MaxFaults       \* bound on L2 operations that fail

ASSUME OutcomesAssumption ==
  Outcomes \subseteq {"value", "error", "skip", "undefined"}

ASSUME OptionsAssumption ==
  Options \subseteq OptionRecords(Nat) /\ None \notin Options

ASSUME BoundsAssumption ==
  /\ IsFiniteSet(Requests)
  /\ MaxNow \in Nat /\ MaxEvictions \in Nat /\ MaxFaults \in Nat

VARIABLES
  tiers,        \* the tiers of the stack, {"l1"}, {"l2"} or both
  now,          \* the clock
  l1, l2,       \* the entry of the key in each tier, or None
  opts,         \* opts[r]: the options of request r
  pc,           \* pc[r]: where the handler of r stands
  localItem,    \* localItem[r], remoteItem[r]: what r last read from L1
  remoteItem,   \*   and L2, or None
  fac,          \* fac[r]: the state of the factory job of r
  made,         \* made[r]: the entry that job makes
  runs,         \* history: how many factories were started
  answer,       \* answer[r]: what the caller of r got
  evictions, faults,   \* history: bounds of Evict and of L2 failures
  unhandled     \* history: jobs whose promise was rejected with no handler

cacheVars == <<l1, l2>>
itemVars == <<localItem, remoteItem>>
boundVars == <<evictions, faults>>
requestVars == <<opts, pc, localItem, remoteItem, answer>>
jobVars == <<fac, made, runs, unhandled>>
vars == <<lockVars, tiers, now, l1, l2, opts, pc, localItem, remoteItem, fac,
          made, runs, answer, evictions, faults, unhandled>>

Versions == 0..Cardinality(Requests)
Entries == [ver: Versions, exp: Nat \cup {None}]
Items == [ver: Versions, exp: Nat \cup {None}, graced: BOOLEAN]

ASSUME ItemsAssumption == None \notin Nat \cup Entries \cup Items

NoAnswer == [kind |-> "none", ver |-> 0, graced |-> FALSE]
Undefined == [kind |-> "undefined", ver |-> 0, graced |-> FALSE]
Error(kind) == [kind |-> kind, ver |-> 0, graced |-> FALSE]
Hit(item) == [kind |-> "hit", ver |-> item.ver, graced |-> item.graced]
Fresh(e) == [kind |-> "fresh", ver |-> e.ver, graced |-> FALSE]

Kinds == {"none", "undefined", "hit", "fresh",
          "factory error", "lock timeout", "l2 error"}

JobStates == {"none", "running", "writing", "stored", "skipped", "failed",
              "rejected", "settled"}

RunnerTypeOK ==
  /\ LocksTypeOK
  /\ tiers \in SUBSET {"l1", "l2"}
  /\ now \in 0..MaxNow
  /\ l1 \in Entries \cup {None} /\ l2 \in Entries \cup {None}
  /\ opts \in [Requests -> Options \cup {None}]
  /\ localItem \in [Requests -> Items \cup {None}]
  /\ remoteItem \in [Requests -> Items \cup {None}]
  /\ fac \in [Requests -> JobStates]
  /\ made \in [Requests -> Entries]
  /\ runs \in Versions
  /\ answer \in [Requests -> [kind: Kinds, ver: Versions, graced: BOOLEAN]]
  /\ evictions \in 0..MaxEvictions /\ faults \in 0..MaxFaults
  /\ unhandled \in SUBSET Requests

(* Tiers may start empty or with an expired value of an earlier run. *)
RunnerInit(layouts) ==
  /\ LocksInit
  /\ tiers \in layouts
  /\ now = 0
  /\ l1 \in {None} \cup (IF "l1" \in tiers THEN {[ver |-> 0, exp |-> 0]} ELSE {})
  /\ l2 \in {None} \cup (IF "l2" \in tiers THEN {[ver |-> 0, exp |-> 0]} ELSE {})
  /\ opts = [r \in Requests |-> None]
  /\ pc = [r \in Requests |-> "idle"]
  /\ localItem = [r \in Requests |-> None]
  /\ remoteItem = [r \in Requests |-> None]
  /\ fac = [r \in Requests |-> "none"]
  /\ made = [r \in Requests |-> [ver |-> 0, exp |-> None]]
  /\ runs = 0
  /\ answer = [r \in Requests |-> NoAnswer]
  /\ evictions = 0 /\ faults = 0
  /\ unhandled = {}

----------------------------------------------------------------------------
(* What a handler knows of its request.                                    *)

(* localItem || remoteItem, what the factory is given. *)
GracedValue(r) == IF localItem[r] # None THEN localItem[r] ELSE remoteItem[r]

(* remoteItem ?? localItem, what a failed factory is replaced by. *)
StaleItem(r) == IF remoteItem[r] # None THEN remoteItem[r] ELSE localItem[r]

(* The job was started in SWR mode: nobody awaits its promise. *)
IsBackground(r) == ShouldSwr(opts[r], GracedValue(r) # None)

TimeoutType(r) == FactoryTimeout(opts[r], GracedValue(r) # None)

(* An L2 failure is swallowed when asked for, or by default beside an L1. *)
SuppressesL2Errors(r) ==
  \/ opts[r].suppressL2Errors = TRUE
  \/ opts[r].suppressL2Errors = None /\ "l1" \in tiers

Goto(r, label) == pc' = [pc EXCEPT ![r] = label]

Return(r, a) == Goto(r, "done") /\ answer' = [answer EXCEPT ![r] = a]

(* The L2 driver rejects a call. *)
L2Fails == faults < MaxFaults /\ faults' = faults + 1

----------------------------------------------------------------------------
(* The environment: time passes and drivers drop entries.                  *)

Tick ==
  /\ now < MaxNow
  /\ now' = now + 1
  /\ UNCHANGED <<lockVars, tiers, cacheVars, requestVars, jobVars, boundVars>>

(* A driver drops an entry: physical TTL, LRU eviction, a restart of L2. *)
Evict ==
  /\ evictions < MaxEvictions
  /\ evictions' = evictions + 1
  /\ \/ l1 # None /\ l1' = None /\ UNCHANGED l2
     \/ l2 # None /\ l2' = None /\ UNCHANGED l1
  /\ UNCHANGED <<lockVars, tiers, now, requestVars, jobVars, faults>>

----------------------------------------------------------------------------
(* FactoryRunner.                                                          *)

(* run: start the job.  In SWR mode the soft timeout is thrown at once and *)
(* the handler returns the stale item; otherwise the handler awaits.       *)
Run(r) ==
  /\ runs' = runs + 1
  /\ made' = [made EXCEPT ![r].ver = runs + 1]
  /\ fac' = [fac EXCEPT ![r] = "running"]
  /\ IF IsBackground(r)
       THEN Return(r, Hit(StaleItem(r)))
       ELSE Goto(r, "awaiting") /\ UNCHANGED answer
  /\ UNCHANGED unhandled

(* Mutant of FactoryReturns: the value goes to L2 only. *)
FactoryReturnsToL2(r) ==
  /\ fac[r] = "running"
  /\ fac' = [fac EXCEPT ![r] = IF "l2" \in tiers THEN "writing" ELSE "stored"]
  /\ made' = [made EXCEPT ![r].exp = LogicalTtlFromNow(opts[r], now)]
  /\ UNCHANGED <<lockVars, tiers, now, cacheVars, requestVars, runs, unhandled,
                 boundVars>>

(* The factory comes back.  CacheStack.set writes L1 in the same turn and  *)
(* sends the entry to L2 unless told to skip it.                           *)
FactoryReturns(r) == \E outcome \in Outcomes :
  LET entry == [made[r] EXCEPT !.exp = LogicalTtlFromNow(opts[r], now)]
      toL2 == "l2" \in tiers /\ ~opts[r].skipL2Write
      next == CASE outcome = "value" -> IF toL2 THEN "writing" ELSE "stored"
                [] outcome = "skip" -> "skipped"
                [] outcome = "error" -> "failed"
                [] outcome = "undefined" -> "rejected"
  IN
  /\ fac[r] = "running"
  /\ fac' = [fac EXCEPT ![r] = next]
  /\ IF outcome = "value"
       THEN /\ made' = [made EXCEPT ![r] = entry]
            /\ l1' = IF "l1" \in tiers THEN entry ELSE l1
       ELSE UNCHANGED <<made, l1>>
  /\ UNCHANGED <<lockVars, tiers, now, l2, requestVars, runs, unhandled, boundVars>>

(* Mutant of WriteL2: a failed write is always thrown. *)
WriteL2Throws(r) == \E acked \in BOOLEAN :
  /\ fac[r] = "writing"
  /\ IF acked THEN UNCHANGED faults ELSE L2Fails
  /\ l2' = IF acked THEN made[r] ELSE l2
  /\ fac' = [fac EXCEPT ![r] = IF acked THEN "stored" ELSE "rejected"]
  /\ UNCHANGED <<lockVars, tiers, now, l1, requestVars, made, runs, evictions,
                 unhandled>>

(* RemoteCache.set: the write may land although its answer is an error.    *)
WriteL2(r) == \E landed, acked \in BOOLEAN :
  /\ fac[r] = "writing"
  /\ acked => landed
  /\ IF acked THEN UNCHANGED faults ELSE L2Fails
  /\ l2' = IF landed THEN made[r] ELSE l2
  /\ fac' = [fac EXCEPT ![r] =
               IF acked \/ SuppressesL2Errors(r) THEN "stored" ELSE "rejected"]
  /\ UNCHANGED <<lockVars, tiers, now, l1, requestVars, made, runs, evictions,
                 unhandled>>

(* Mutant of Settle: no finally, a rejected write keeps the lock. *)
SettleNoFinally(r) ==
  /\ fac[r] \in {"stored", "skipped", "failed", "rejected"}
  /\ fac' = [fac EXCEPT ![r] = "settled"]
  /\ IF fac[r] = "rejected" THEN UNCHANGED lockVars ELSE Release(r)
  /\ CASE pc[r] # "awaiting" -> UNCHANGED <<pc, answer>>
       [] pc[r] = "awaiting" /\ fac[r] = "stored" -> Return(r, Fresh(made[r]))
       [] pc[r] = "awaiting" /\ fac[r] = "skipped" -> Return(r, Undefined)
       [] OTHER -> Goto(r, "failed") /\ UNCHANGED answer
  /\ UNCHANGED <<tiers, now, cacheVars, opts, itemVars, made, runs, unhandled,
                 boundVars>>

(* The job ends: it releases the lock, whoever holds the key by now, and   *)
(* settles its promise.  A handler that still awaits it goes on; a factory *)
(* error in the background is only logged, any other rejection there has   *)
(* no handler.                                                             *)
Settle(r) ==
  /\ fac[r] \in {"stored", "skipped", "failed", "rejected"}
  /\ fac' = [fac EXCEPT ![r] = "settled"]
  /\ Release(r)
  /\ CASE pc[r] # "awaiting" -> UNCHANGED <<pc, answer>>
       [] pc[r] = "awaiting" /\ fac[r] = "stored" -> Return(r, Fresh(made[r]))
       [] pc[r] = "awaiting" /\ fac[r] = "skipped" -> Return(r, Undefined)
       [] pc[r] = "awaiting" /\ fac[r] \in {"failed", "rejected"} ->
            Goto(r, "failed") /\ UNCHANGED answer
  /\ unhandled' = IF IsBackground(r) /\ fac[r] = "rejected"
                    THEN unhandled \cup {r} ELSE unhandled
  /\ UNCHANGED <<tiers, now, cacheVars, opts, itemVars, made, runs, boundVars>>

(* The soft timeout of pTimeout: the stale item is returned and the job    *)
(* keeps the lock.                                                         *)
SoftTimeout(r) ==
  /\ pc[r] = "awaiting"
  /\ TimeoutType(r) = "soft"
  /\ Return(r, Hit(StaleItem(r)))
  /\ UNCHANGED <<lockVars, tiers, now, cacheVars, opts, itemVars, jobVars, boundVars>>

(* The hard timeout: handled as a factory error while the job goes on.     *)
HardTimeout(r) ==
  /\ pc[r] = "awaiting"
  /\ TimeoutType(r) = "hard"
  /\ Goto(r, "failed")
  /\ UNCHANGED <<lockVars, tiers, now, cacheVars, opts, itemVars, answer, jobVars,
                 boundVars>>

(* What the mutex does by itself for a request that timed out waiting.     *)
DiscardLate(r) ==
  /\ Discard(r)
  /\ UNCHANGED <<tiers, now, cacheVars, requestVars, jobVars, boundVars>>

RunnerStep(r) ==
  \/ FactoryReturns(r) \/ WriteL2(r) \/ Settle(r)
  \/ SoftTimeout(r) \/ HardTimeout(r) \/ DiscardLate(r)

----------------------------------------------------------------------------
(* Notions the properties of both handlers use.                            *)

JobActive(r) == fac[r] \in {"running", "writing", "stored", "skipped",
                            "failed", "rejected"}

FactoryRunning == {r \in Requests : fac[r] = "running"}

(* No release was crowded, and every job still owns the lock: requests are *)
(* one at a time in the section.                                           *)
Calm == ~crowded /\ \A r \in Requests : JobActive(r) => Holds(r)

(* Nothing is in progress. *)
Quiescent == \A r \in Requests : pc[r] \in {"idle", "done"} /\ ~JobActive(r)
=============================================================================
