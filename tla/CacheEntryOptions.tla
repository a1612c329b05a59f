------------------------- MODULE CacheEntryOptions -------------------------
(***************************************************************************)
(* cache/cache_entry/cache_entry_options.ts and cache_entry.ts: the        *)
(* decisions a cache operation takes from its resolved options.  Durations *)
(* are natural numbers; None is an option that was not given.              *)
(***************************************************************************)
EXTENDS Naturals

CONSTANT None

(* The resolved options of one operation. *)
OptionRecords(Durations) ==
  [ttl: Durations \cup {None}, grace: Durations, graceBackoff: Durations,
   timeout: Durations \cup {None}, hardTimeout: Durations \cup {None},
   lockTimeout: Durations \cup {None}, forceFresh: BOOLEAN,
   suppressL2Errors: BOOLEAN \cup {None}, skipL2Write: BOOLEAN]

IsGraceEnabled(o) == o.grace > 0

(* Serve stale at once and refresh in the background. *)
ShouldSwr(o, hasFallback) == IsGraceEnabled(o) /\ o.timeout = 0 /\ hasFallback

(* The soft timeout wins over the hard one; zero and None are falsy. *)
FactoryTimeout(o, hasFallback) ==
  IF hasFallback /\ IsGraceEnabled(o) /\ o.timeout # None THEN "soft"
  ELSE IF o.hardTimeout \notin {None, 0} THEN "hard" ELSE "none"

(* The duration given to withTimeout, or None to wait without limit. *)
ApplicableLockTimeout(o, hasFallback) ==
  IF ShouldSwr(o, hasFallback) THEN 0
  ELSE IF o.lockTimeout \notin {None, 0} THEN o.lockTimeout
  ELSE IF hasFallback /\ IsGraceEnabled(o) THEN o.timeout ELSE None

(* No ttl, and a ttl of zero, mean that the entry never expires. *)
LogicalTtlFromNow(o, now) == IF o.ttl \in {None, 0} THEN None ELSE now + o.ttl

(* Without an expiration the comparison is false. *)
IsLogicallyExpired(e, now) == e.exp # None /\ e.exp <= now

(* What a driver read makes of an entry: expired entries are graced. *)
Read(e, now) ==
  IF e = None THEN None
  ELSE [ver |-> e.ver, exp |-> e.exp, graced |-> IsLogicallyExpired(e, now)]

(* isEntryValid for an entry without tags. *)
IsEntryValid(item) == item # None /\ ~item.graced

(* serialize() of a read item: the entry it was read from. *)
Serialized(item) == [ver |-> item.ver, exp |-> item.exp]

(* applyBackoff: the old expiration plus the backoff, wherever now is.  An *)
(* entry that never expires stays so (undefined + n is NaN).               *)
BackedOff(item, o) ==
  [ver |-> item.ver,
   exp |-> IF item.exp = None THEN None ELSE item.exp + o.graceBackoff]
=============================================================================
