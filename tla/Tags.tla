-------------------------------- MODULE Tags --------------------------------
(***************************************************************************)
(* cache/tag_system.ts: one tagged key and its tag in several processes.   *)
(*                                                                         *)
(* The record of a tag, the time it was last invalidated, is itself an     *)
(* entry of the cache under a key of its own.  Whoever reads a tagged      *)
(* entry gets the record by getOrSet first; the factory of that getOrSet   *)
(* returns the stale record or 0, and a 0 stays in L1.                     *)
(*                                                                         *)
(* The value of the tagged key is named by the call that set it.  A call   *)
(* is one get, set or deleteByTag.  Clocks agree.                          *)
(***************************************************************************)
EXTENDS Naturals, FiniteSets

CONSTANTS
  Procs, Calls, None, Waiting,
  Kinds,        \* the methods called
  MaxTime,      \* bound on the clock
  MaxMishaps    \* bound on failures of L2 and on records lost or aged

ASSUME TagsAssumption ==
  /\ MaxTime \in Nat \ {0} /\ MaxMishaps \in Nat
  /\ None \notin Procs \cup Calls
  /\ Kinds \subseteq {"get", "set", "deleteByTag"}

VARIABLES
  hasL2,     \* the stack has an L2 beside its L1s
  now,       \* the clock
  l1,        \* l1[p]["item"], l1[p]["tag"]: entries of the L1 of p, or None
  l2,        \* the same for L2
  inbox,     \* inbox[p][k]: set and expire messages for key k under way to p
  call,      \* call[c]: where c stands and what it has read
  lock,      \* lock[p]: who made the mutex Locks of p has for the tag's key,
             \*   and still holds it, or None
  mishaps,   \* history: how many mishaps there were
  newest,    \* history: the time of the last deleteByTag
  misled     \* history: see Mislead

tiers == <<hasL2, l1, l2>>
history == <<mishaps, newest, misled>>
vars == <<hasL2, now, l1, l2, inbox, call, lock, mishaps, newest, misled>>

Keys == {"item", "tag"}
Times == 0..MaxTime
Items == [val: Calls \cup {None}, at: Times, valid: BOOLEAN]
Records == [val: Times, at: Times, valid: BOOLEAN]
Entries(k) == (IF k = "item" THEN Items ELSE Records) \cup {None}

ASSUME EntriesAssumption == None \notin Items \cup Records

Idle == [pc |-> "idle"]
Done == [pc |-> "done"]

(* A frame keeps the entry under examination or to be written (item), the  *)
(* tier it is from, the stale record seen under the lock of the tag (old), *)
(* the holder of the mutex it waits for (ahead), and the answer of L2      *)
(* (read).                                                                 *)
Frames == [pc: {"read", "lock", "granted", "tag", "tagWrite", "tagNotify", "expire",
                "expireWrite", "expireNotify", "write", "notify"},
           proc: Procs, kind: Kinds, grace: BOOLEAN,
           item: Items \cup Records \cup {None}, tier: {"l1", "l2"},
           old: Entries("tag"), ahead: Calls \cup {None},
           read: Items \cup Records \cup {None, Waiting}]

TypeOK ==
  /\ hasL2 \in BOOLEAN
  /\ now \in Times \ {0}
  /\ \A p \in Procs, k \in Keys : l1[p][k] \in Entries(k) /\ inbox[p][k] \in Nat
  /\ \A k \in Keys : l2[k] \in Entries(k)
  /\ call \in [Calls -> Frames \cup {Idle, Done}]
  /\ lock \in [Procs -> Calls \cup {None}]
  /\ mishaps \in 0..MaxMishaps
  /\ newest \in Times
  /\ misled \in SUBSET (Procs \cup {None})

Init ==
  /\ hasL2 \in BOOLEAN
  /\ now = 1
  /\ l1 = [p \in Procs |-> [k \in Keys |-> None]]
  /\ l2 = [k \in Keys |-> IF k = "item" /\ hasL2
                            THEN [val |-> None, at |-> 1, valid |-> TRUE] ELSE None]
  /\ inbox = [p \in Procs |-> [k \in Keys |-> 0]]
  /\ call = [c \in Calls |-> Idle]
  /\ lock = [p \in Procs |-> None]
  /\ mishaps = 0 /\ newest = 0 /\ misled = {}

----------------------------------------------------------------------------
(* What the actions share.                                                 *)

Valid(e) == e # None /\ e.valid
Expired(e) == IF e = None THEN None ELSE [e EXCEPT !.valid = FALSE]
Entry(v) == [val |-> v, at |-> now, valid |-> TRUE]

(* Mutant of KeyOf: deleteByTag takes the name of the tag for its key. *)
KeyOfName(f) ==
  IF f.pc \in {"tag", "tagWrite", "tagNotify"} THEN "tag" ELSE "item"

(* The key the requests and messages of a frame are about; tag keys have a *)
(* prefix of their own.                                                    *)
KeyOf(f) ==
  IF f.pc \in {"tag", "tagWrite", "tagNotify"} \/ f.kind = "deleteByTag"
    THEN "tag" ELSE "item"

(* f has a mutex of the tag's key. *)
Holds(f) == f.pc \in {"granted", "tag", "tagWrite", "tagNotify"}

(* Locks.release: the entry of the map goes, whoever made it, and one of   *)
(* those who wait for the mutex gets it.                                   *)
Release(c, frame) ==
  LET waiters == {d \in Calls : call[d].pc = "lock" /\ call[d].ahead = c} IN
  /\ lock' = [lock EXCEPT ![call[c].proc] = None]
  /\ \E next \in IF waiters = {} THEN {c} ELSE waiters :
       call' = [d \in Calls |->
         CASE d = c -> frame
           [] d = next /\ d # c -> [call[d] EXCEPT !.pc = "granted", !.ahead = None]
           [] d \in waiters \ {next, c} -> [call[d] EXCEPT !.ahead = next]
           [] OTHER -> call[d]]

Goto(c, frame) ==
  IF Holds(call[c]) /\ ~Holds(frame) THEN Release(c, frame)
  ELSE call' = [call EXCEPT ![c] = frame] /\ UNCHANGED lock

At(f, stage) == [f EXCEPT !.pc = stage, !.old = None,
                          !.read = IF hasL2 THEN Waiting ELSE None]

Mishap == mishaps < MaxMishaps /\ mishaps' = mishaps + 1

(* History.  None stands for L2: its record was lost, its write failed, or *)
(* it is older than the last deleteByTag, because invalidations and checks *)
(* that write a record back overlapped.  A process is misled when it was   *)
(* not told of an invalidation (there is no L2, a write failed), when its  *)
(* own record was lost or aged, or when a check of it put a record into    *)
(* its L1 that a message, a failed read or another call of the same        *)
(* process had overtaken; the next deleteByTag, check or message ends it.  *)
Mislead(added, removed) == misled' = (misled \ removed) \cup added

(* CacheStack.publish: to the other processes. *)
Deliver(p, k) ==
  inbox' = [q \in Procs |-> IF q = p THEN inbox[q]
                            ELSE [inbox[q] EXCEPT ![k] = @ + 1]]

(* A deleteByTag or a check of p has written its record to L1 and awaits   *)
(* L2.                                                                     *)
Recording(p) == \E d \in Calls :
  /\ call[d].pc = "tagWrite" \/ (call[d].pc = "write" /\ call[d].kind = "deleteByTag")
  /\ call[d].proc = p

(* The comparison of isTagInvalidated, for an entry and a record. *)
Rejects(v, e) == e.at <= v

(* The end of a check, with record v and the L1 of the process as the      *)
(* check leaves it.  A rejected entry is expired in both tiers; any other  *)
(* is returned, and copied to L1 if it is from L2.                         *)
Judge(c, f, v, mine) ==
  IF Rejects(v, f.item)
    THEN /\ l1' = [l1 EXCEPT ![f.proc] = [mine EXCEPT !["item"] = Expired(@)]]
         /\ Goto(c, At(f, IF hasL2 THEN "expire" ELSE "expireNotify"))
    ELSE /\ l1' = [l1 EXCEPT ![f.proc] =
                     IF f.tier = "l2" THEN [mine EXCEPT !["item"] = f.item] ELSE mine]
         /\ Goto(c, Done)

(* isTagInvalidated asks for the record.  A valid one in L1 needs no lock; *)
(* getOrCreateForKey makes a mutex if the map has none.                    *)
CheckTag(c, f) ==
  LET mine == l1[f.proc] ahead == lock[f.proc] IN
  IF Valid(mine["tag"]) THEN Judge(c, f, mine["tag"].val, mine)
  ELSE /\ call' = [call EXCEPT ![c] = IF ahead = None THEN At(f, "granted")
                                      ELSE [At(f, "lock") EXCEPT !.ahead = ahead]]
       /\ lock' = [lock EXCEPT ![f.proc] = IF ahead = None THEN c ELSE ahead]
       /\ UNCHANGED l1

----------------------------------------------------------------------------
(* The calls.                                                              *)

Frame(p, kind, grace, item) ==
  [pc |-> "read", proc |-> p, kind |-> kind, grace |-> grace, item |-> item,
   tier |-> "l1", old |-> None, ahead |-> None, read |-> IF hasL2 THEN Waiting ELSE None]

(* Cache.get; getOrSet and has look at the tiers in the same way. *)
Get(c, p, grace) ==
  LET f == Frame(p, "get", grace, l1[p]["item"]) IN
  /\ call[c].pc = "idle" /\ "get" \in Kinds
  /\ IF Valid(f.item) THEN CheckTag(c, f)
     ELSE Goto(c, IF hasL2 THEN f ELSE Done) /\ UNCHANGED l1
  /\ UNCHANGED <<hasL2, now, l2, inbox, history>>

(* CacheStack.set, up to its request to L2. *)
Store(c, p, kind, k, e) ==
  /\ call[c].pc = "idle" /\ kind \in Kinds
  /\ l1' = [l1 EXCEPT ![p][k] = e]
  /\ Goto(c, [Frame(p, kind, FALSE, e) EXCEPT
                !.pc = IF hasL2 THEN "write" ELSE "notify"])
  /\ UNCHANGED <<hasL2, now, l2, inbox, mishaps>>

Set(c, p) == Store(c, p, "set", "item", Entry(c)) /\ UNCHANGED <<newest, misled>>

(* createTagInvalidations.  Without an L2 the others are made to look for  *)
(* the record and find nothing.                                            *)
DeleteByTag(c, p) ==
  /\ Store(c, p, "deleteByTag", "tag", Entry(now))
  /\ newest' = now
  /\ Mislead(IF hasL2 THEN {} ELSE Procs \ {p}, {p})

----------------------------------------------------------------------------
(* get goes on.                                                            *)

(* L2 answers a read, or fails to, which counts as a miss. *)
AnswerRead(c) ==
  /\ call[c].pc \in {"read", "tag", "expire"} /\ call[c].read = Waiting
  /\ \/ /\ call' = [call EXCEPT ![c].read = l2[KeyOf(call[c])]]
        /\ UNCHANGED mishaps
     \/ call' = [call EXCEPT ![c].read = None] /\ Mishap
  /\ UNCHANGED <<tiers, now, inbox, lock, newest, misled>>

(* get has the entry of L2. *)
Read(c) ==
  LET f == [call[c] EXCEPT !.item = call[c].read, !.tier = "l2"] IN
  /\ call[c].pc = "read" /\ call[c].read # Waiting
  /\ IF Valid(f.item) THEN CheckTag(c, f)
     ELSE /\ Goto(c, Done)
          /\ l1' = IF f.item # None /\ f.grace
                     THEN [l1 EXCEPT ![f.proc]["item"] = f.item] ELSE l1
  /\ UNCHANGED <<hasL2, now, l2, inbox, history>>

(* The lock of the tag is taken: L1 is read again. *)
TagLock(c) ==
  LET f == call[c] mine == l1[f.proc] IN
  /\ f.pc = "granted"
  /\ IF Valid(mine["tag"]) THEN Judge(c, f, mine["tag"].val, mine)
     ELSE Goto(c, [At(f, "tag") EXCEPT !.old = mine["tag"]]) /\ UNCHANGED l1
  /\ UNCHANGED <<hasL2, now, l2, inbox, history>>

(* Mutant of TagFactory: a tag never invalidated counts as invalidated now. *)
TagFactoryNow(old, read) ==
  LET stale == IF old # None THEN old ELSE read IN
  IF stale = None THEN now ELSE stale.val

(* #getTagFactory, run when no valid record was found: the stale one of L1, *)
(* or of L2, or 0.                                                         *)
TagFactory(old, read) ==
  LET stale == IF old # None THEN old ELSE read IN
  IF stale = None THEN 0 ELSE stale.val

(* The record of L2 is taken to L1, or else what the factory returns, and  *)
(* that to L2 as well unless it is 0.                                      *)
ReadTag(c) ==
  LET f == call[c]
      found == Valid(f.read)
      rec == IF found THEN f.read ELSE Entry(TagFactory(f.old, f.read))
      mine == [l1[f.proc] EXCEPT !["tag"] = rec]
  IN
  /\ f.pc = "tag" /\ f.read # Waiting
  /\ IF found \/ rec.val = 0 THEN Judge(c, f, rec.val, mine)
     ELSE /\ l1' = [l1 EXCEPT ![f.proc] = mine]
          /\ Goto(c, [f EXCEPT !.read = rec,
                        !.pc = IF hasL2 THEN "tagWrite" ELSE "tagNotify"])
  /\ IF \/ f.read # l2["tag"] \/ l1[f.proc]["tag"] # f.old \/ Recording(f.proc)
        \/ ~hasL2 /\ f.proc \in misled
        \/ f.read # None /\ rec.val < f.read.val
       THEN Mislead({f.proc}, {}) ELSE Mislead({}, {f.proc})
  /\ UNCHANGED <<hasL2, now, l2, inbox, mishaps, newest>>

(* logicallyExpire has read the entry it will write back. *)
ReadExpired(c) ==
  LET f == call[c] IN
  /\ f.pc = "expire" /\ f.read # Waiting
  /\ Goto(c, IF f.read = None THEN [f EXCEPT !.pc = "expireNotify"]
             ELSE [f EXCEPT !.pc = "expireWrite"])
  /\ UNCHANGED <<tiers, now, inbox, history>>

----------------------------------------------------------------------------
(* Writes to L2 and the messages that follow them.                         *)

Written(f) ==
  CASE f.pc = "write" -> f.item
    [] f.pc = "tagWrite" -> f.read
    [] OTHER -> Expired(f.read)

Announced(f) ==
  CASE f.pc = "write" -> "notify"
    [] f.pc = "tagWrite" -> "tagNotify"
    [] OTHER -> "expireNotify"

AwaitsWrite(c) == call[c].pc \in {"write", "tagWrite", "expireWrite"}

WriteL2(c) ==
  LET f == call[c] k == KeyOf(f) e == Written(f) IN
  /\ AwaitsWrite(c)
  /\ l2' = [l2 EXCEPT ![k] = e]
  /\ Goto(c, [f EXCEPT !.pc = Announced(f)])
  /\ IF k = "tag" THEN IF e.val < newest THEN Mislead({None}, {})
                       ELSE Mislead({}, {None})
     ELSE UNCHANGED misled
  /\ UNCHANGED <<hasL2, now, l1, inbox, mishaps, newest>>

(* The error of a write is suppressed, be it that L2 did the write or not; *)
(* what was not surely written is not announced, except by expire.         *)
FailWrite(c) ==
  LET f == call[c] k == KeyOf(f) e == Written(f) IN
  /\ AwaitsWrite(c)
  /\ Mishap
  /\ l2' \in {l2, [l2 EXCEPT ![k] = e]}
  /\ CASE f.pc = "write" -> Goto(c, Done) /\ UNCHANGED l1
       [] f.pc = "tagWrite" -> Judge(c, f, f.read.val, l1[f.proc])
       [] OTHER -> Goto(c, [f EXCEPT !.pc = "expireNotify"]) /\ UNCHANGED l1
  /\ IF k = "tag"
       THEN Mislead((IF f.pc = "write" THEN Procs \ {f.proc} ELSE {})
                    \cup {None}, {})
       ELSE UNCHANGED misled
  /\ UNCHANGED <<hasL2, now, inbox, newest>>

(* Mutant of Notify: a deleteByTag is not announced. *)
NotifyLess(c) ==
  LET f == call[c] IN
  /\ f.pc = "notify" /\ f.kind = "deleteByTag"
  /\ Goto(c, Done)
  /\ UNCHANGED <<tiers, now, inbox, history>>

(* The call publishes and goes on: after a check that expired the entry of *)
(* L1, get looks into L2; with grace it returns that of L2 as stale.       *)
Notify(c) ==
  LET f == call[c] IN
  /\ f.pc \in {"notify", "tagNotify", "expireNotify"}
  /\ Deliver(f.proc, KeyOf(f))
  /\ CASE f.pc = "notify" -> Goto(c, Done) /\ UNCHANGED l1
       [] f.pc = "tagNotify" -> Judge(c, f, f.read.val, l1[f.proc])
       [] f.pc = "expireNotify" /\ f.tier = "l1" /\ hasL2 ->
            Goto(c, At(f, "read")) /\ UNCHANGED l1
       [] OTHER ->
            /\ Goto(c, Done)
            /\ l1' = IF f.tier = "l2" /\ f.grace
                       THEN [l1 EXCEPT ![f.proc]["item"] = f.item] ELSE l1
  /\ UNCHANGED <<hasL2, now, l2, history>>

(* A set or expire message. *)
OnMessage(p) == \E k \in Keys :
  /\ inbox[p][k] > 0
  /\ inbox' = [inbox EXCEPT ![p][k] = @ - 1]
  /\ l1' = [l1 EXCEPT ![p][k] = Expired(@)]
  /\ IF k = "tag" /\ Valid(l2["tag"]) THEN Mislead({}, {p}) ELSE UNCHANGED misled
  /\ UNCHANGED <<hasL2, now, l2, call, lock, mishaps, newest>>

----------------------------------------------------------------------------
(* Time and mishaps.                                                       *)

Tick ==
  /\ now < MaxTime /\ now' = now + 1
  /\ UNCHANGED <<tiers, inbox, call, lock, history>>

(* A tier drops a record, to make room or 10 days after it was stale. *)
Lose ==
  /\ Mishap
  /\ \/ /\ l2["tag"] # None /\ l2' = [l2 EXCEPT !["tag"] = None]
        /\ Mislead({None}, {}) /\ UNCHANGED l1
     \/ \E p \in Procs :
        /\ l1[p]["tag"] # None /\ l1' = [l1 EXCEPT ![p]["tag"] = None]
        /\ Mislead(IF hasL2 THEN {} ELSE {p}, {}) /\ UNCHANGED l2
  /\ UNCHANGED <<hasL2, now, inbox, call, lock, newest>>

(* Records are 10 days old and count as stale.  From now on the one a      *)
(* process was told to drop counts for more than that of L2.               *)
Age ==
  /\ Mishap
  /\ l1' = [p \in Procs |-> [l1[p] EXCEPT !["tag"] = Expired(@)]]
  /\ l2' = [l2 EXCEPT !["tag"] = Expired(@)]
  /\ Mislead({p \in Procs : l1[p]["tag"] # None /\ l1[p]["tag"].val < newest}, {})
  /\ UNCHANGED <<hasL2, now, inbox, call, lock, newest>>

Next ==
  \/ \E c \in Calls, p \in Procs :
       \/ \E g \in BOOLEAN : Get(c, p, g)
       \/ Set(c, p) \/ DeleteByTag(c, p)
  \/ \E c \in Calls :
       \/ AnswerRead(c) \/ Read(c) \/ TagLock(c) \/ ReadTag(c) \/ ReadExpired(c)
       \/ WriteL2(c) \/ FailWrite(c) \/ Notify(c)
  \/ \E p \in Procs : OnMessage(p)
  \/ Tick \/ Lose \/ Age

Spec == Init /\ [][Next]_vars

----------------------------------------------------------------------------
(* Properties.                                                             *)

Quiet ==
  /\ \A c \in Calls : call[c].pc \in {"idle", "done"}
  /\ \A p \in Procs, k \in Keys : inbox[p][k] = 0

(* The record a check made by p now would go by. *)
RecordFor(p) ==
  LET mine == l1[p]["tag"] IN
  IF Valid(mine) THEN mine.val
  ELSE IF Valid(l2["tag"]) THEN l2["tag"].val ELSE TagFactory(mine, l2["tag"])

(* Once calls and messages are through, a process that was not misled      *)
(* rejects every entry created no later than the last deleteByTag of any   *)
(* process, wherever it finds the entry (tag_system.ts:50-69, 78-87).      *)
InvalidatedUnlessMisled ==
  (Quiet /\ None \notin misled) =>
    \A p \in Procs \ misled : \A e \in {l1[p]["item"], l2["item"]} :
      (Valid(e) /\ e.at <= newest) => Rejects(RecordFor(p), e)

(* A check rejects an entry only if its tag was invalidated at or after    *)
(* the creation of the entry, whatever became of the records since         *)
(* (tag_system.ts:40-45, 64-66).                                           *)
OnlyInvalidatedExpired ==
  \A c \in Calls : call[c].pc \in {"expire", "expireWrite", "expireNotify"} =>
    call[c].item.at <= newest

(* docs/content/docs/tags.md:110: an entry created before the invalidation *)
(* is considered stale.  Stated for stacks with an L2, all calls over and  *)
(* nothing failed; the run has a single process.                           *)
CreatedBeforeIsStale ==
  (Quiet /\ hasL2 /\ mishaps = 0) =>
    \A p \in Procs : (Valid(l1[p]["item"]) /\ l1[p]["item"].at < newest)
                       => Rejects(RecordFor(p), l1[p]["item"])
=============================================================================
