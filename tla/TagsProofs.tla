----------------------------- MODULE TagsProofs -----------------------------
(***************************************************************************)
(* Theorems about tag records, for any number of processes and calls, any  *)
(* time and any number of mishaps.                                         *)
(***************************************************************************)
EXTENDS Tags, TLAPS

(* Records that tell of no later time than one at which the tag was        *)
(* invalidated.                                                            *)
Dated(limit) == {rec \in Records : rec.val <= limit}

Tier(limit) ==
  {tier \in [Keys -> Items \cup Records \cup {None}] :
     tier["item"] \in Items \cup {None} /\ tier["tag"] \in Dated(limit) \cup {None}}

Expiring == {"expire", "expireWrite", "expireNotify"}
Checking == {"lock", "granted", "tag", "tagWrite", "tagNotify"} \cup Expiring

(* What frames are about, by method, and what they have read, by stage.    *)
Proper(f, limit) ==
  /\ \/ /\ f.kind = "get" /\ f.pc \in {"read"} \cup Checking
        /\ f.item \in Items \cup {None} /\ (f.pc # "read" => f.item \in Items)
     \/ f.kind = "set" /\ f.pc \in {"write", "notify"} /\ f.item \in Items
     \/ f.kind = "deleteByTag" /\ f.pc \in {"write", "notify"} /\ f.item \in Dated(limit)
  /\ f.old \in Dated(limit) \cup {None}
  /\ f.pc \in {"read", "expire"} => f.read \in Items \cup {None, Waiting}
  /\ f.pc = "expireWrite" => f.read \in Items
  /\ f.pc = "tag" => f.read \in Dated(limit) \cup {None, Waiting}
  /\ f.pc \in {"tagWrite", "tagNotify"} => f.read \in Dated(limit)
  /\ f.pc \in Expiring => f.item.at <= limit

Propers(limit) == {f \in Frames : Proper(f, limit)}

(* No record, wherever it is kept, is later than the last invalidation.    *)
IInv ==
  /\ hasL2 \in BOOLEAN
  /\ now \in Times \ {0} /\ newest \in Times /\ newest <= now
  /\ l1 \in [Procs -> Tier(newest)] /\ l2 \in Tier(newest)
  /\ inbox \in [Procs -> [Keys -> Nat]]
  /\ call \in [Calls -> Propers(newest) \cup {Idle, Done}]
  /\ lock \in [Procs -> Calls \cup {None}]
  /\ mishaps \in 0..MaxMishaps
  /\ misled \in SUBSET (Procs \cup {None})
----------------------------------------------------------------------------
(* Types of what the actions write.                                        *)

LEMMA Constants == MaxTime \in Nat /\ MaxMishaps \in Nat /\ Times \subseteq Nat
  BY TagsAssumption DEF Times

LEMMA LaterTier ==
  ASSUME NEW n \in Times, NEW m \in Times, n <= m
  PROVE  /\ Dated(n) \subseteq Dated(m) /\ Tier(n) \subseteq Tier(m)
         /\ Propers(n) \subseteq Propers(m)
<1>1. Dated(n) \subseteq Dated(m)
  <2>1. ASSUME NEW rec \in Dated(n)
        PROVE  rec \in Records /\ rec.val \in Times /\ rec.val <= n
    BY DEF Dated, Records
  <2>2. \A t \in Times : t <= n => t <= m
    BY Constants
  <2> QED  BY <2>1, <2>2 DEF Dated
<1>2. Tier(n) \subseteq Tier(m)
  BY <1>1 DEF Tier
<1>3. ASSUME NEW f \in Frames, Proper(f, n)
      PROVE  Proper(f, m)
  <2>1. f.pc \in Expiring => f.item.at <= m
    <3>1. f.pc \in Expiring => f.item \in Items /\ f.item.at <= n
      BY <1>3 DEF Proper, Expiring, Checking
    <3> QED  BY <3>1, Constants DEF Items
  <2> QED  BY <1>1, <1>3, <2>1 DEF Proper
<1> QED  BY <1>1, <1>2, <1>3 DEF Propers

LEMMA TierChange ==
  ASSUME NEW n \in Times, NEW tier \in Tier(n)
  PROVE  /\ tier["item"] \in Items \cup {None} /\ tier["tag"] \in Dated(n) \cup {None}
         /\ \A e \in Items \cup {None} : [tier EXCEPT !["item"] = e] \in Tier(n)
         /\ \A e \in Dated(n) \cup {None} : [tier EXCEPT !["tag"] = e] \in Tier(n)
BY DEF Tier, Keys, Dated

LEMMA ExpiredType ==
  ASSUME NEW n \in Times
  PROVE  /\ \A e \in Items : Expired(e) \in Items \cup {None}
         /\ \A e \in Items \cup {None} : Expired(e) \in Items \cup {None}
         /\ \A e \in Dated(n) \cup {None} : Expired(e) \in Dated(n) \cup {None}
BY DEF Expired, Items, Records, Dated

(* A message of any key expires it. *)
LEMMA ExpiredTier ==
  ASSUME NEW n \in Times, NEW tier \in Tier(n), NEW k \in Keys
  PROVE  [tier EXCEPT ![k] = Expired(@)] \in Tier(n)
<1>1. CASE k = "item"
  BY <1>1, TierChange, ExpiredType
<1>2. CASE k = "tag"
  BY <1>2, TierChange, ExpiredType
<1> QED  BY <1>1, <1>2 DEF Keys

LEMMA FrameKind ==
  ASSUME IInv, NEW c \in Calls, call[c].pc \notin {"idle", "done"}
  PROVE  /\ call[c] \in Propers(newest) /\ call[c] \in Frames /\ Proper(call[c], newest)
         /\ call[c].proc \in Procs
         /\ l1[call[c].proc] \in Tier(newest)
<1>1. call[c] \in Propers(newest)
  BY DEF IInv, Idle, Done
<1>2. call[c] \in Frames /\ Proper(call[c], newest)
  BY <1>1 DEF Propers
<1> QED  BY <1>1, <1>2 DEF Frames, IInv

(* A frame of a check goes on to a stage where L2 is asked, or the lock.   *)
LEMMA AtType ==
  ASSUME IInv, NEW f \in Frames, f.kind = "get", f.item \in Items,
         NEW stage \in {"read", "lock", "granted", "tag", "expire", "expireNotify"},
         NEW old \in Dated(newest) \cup {None}, NEW ahead \in Calls,
         stage \in Expiring => f.item.at <= newest
  PROVE  /\ At(f, stage) \in Propers(newest)
         /\ [At(f, stage) EXCEPT !.old = old] \in Propers(newest)
         /\ [At(f, stage) EXCEPT !.ahead = ahead] \in Propers(newest)
<1> DEFINE g == [At(f, stage) EXCEPT !.old = old]
           h == [At(f, stage) EXCEPT !.ahead = ahead]
<1>1. Dated(newest) \subseteq Entries("tag") /\ None \in Entries("tag")
  BY DEF Dated, Entries
<1>2. /\ At(f, stage) \in Frames /\ At(f, stage).pc = stage /\ At(f, stage).kind = "get"
      /\ At(f, stage).item = f.item /\ At(f, stage).old = None
      /\ At(f, stage).read \in {None, Waiting}
  BY <1>1 DEF At, Frames
<1>3. /\ g \in Frames /\ g.pc = stage /\ g.kind = "get"
      /\ g.item = f.item /\ g.old = old /\ g.read \in {None, Waiting}
  BY <1>1, <1>2 DEF Frames
<1>7. /\ h \in Frames /\ h.pc = stage /\ h.kind = "get"
      /\ h.item = f.item /\ h.old = None /\ h.read \in {None, Waiting}
  BY <1>1, <1>2 DEF Frames
<1> HIDE DEF g, h
<1>4. stage \in {"read"} \cup Checking /\ stage \notin {"expireWrite", "tagWrite", "tagNotify"}
  BY DEF Checking, Expiring
<1>5. Proper(At(f, stage), newest)
  BY <1>2, <1>4 DEF Proper
<1>6. Proper(g, newest)
  BY <1>3, <1>4 DEF Proper
<1>8. Proper(h, newest)
  BY <1>4, <1>7 DEF Proper
<1> QED  BY <1>2, <1>3, <1>5, <1>6, <1>7, <1>8 DEF Propers, g, h

(* What the end of a step of c is: frames, mutexes and L1s have their      *)
(* types.                                                                  *)
Framed == /\ call' \in [Calls -> Propers(newest) \cup {Idle, Done}]
          /\ lock' \in [Procs -> Calls \cup {None}]
Kept(c) == l1' \in [Procs -> Tier(newest)] /\ Framed

LEMMA GrantedType ==
  ASSUME NEW n, NEW f \in Propers(n), f.pc = "lock", NEW d \in Calls
  PROVE  /\ [f EXCEPT !.pc = "granted", !.ahead = None] \in Propers(n)
         /\ [f EXCEPT !.ahead = d] \in Propers(n)
<1> DEFINE g == [f EXCEPT !.pc = "granted", !.ahead = None]
           h == [f EXCEPT !.ahead = d]
<1>1. f \in Frames /\ Proper(f, n)
  BY DEF Propers
<1>2. /\ g \in Frames /\ g.pc = "granted" /\ g.kind = f.kind /\ g.item = f.item
      /\ g.old = f.old /\ g.read = f.read
  BY <1>1 DEF Frames
<1>3. /\ h \in Frames /\ h.pc = "lock" /\ h.kind = f.kind /\ h.item = f.item
      /\ h.old = f.old /\ h.read = f.read
  BY <1>1 DEF Frames
<1> HIDE DEF g, h
<1>4. Proper(g, n) /\ Proper(h, n)
  BY <1>1, <1>2, <1>3 DEF Proper, Checking, Expiring
<1> QED  BY <1>2, <1>3, <1>4 DEF Propers, g, h

LEMMA GotoKept ==
  ASSUME IInv, NEW c \in Calls, NEW frame \in Propers(newest) \cup {Done}, Goto(c, frame)
  PROVE  Framed
<1>1. CASE Holds(call[c]) /\ ~Holds(frame)
  <2> DEFINE waiters == {d \in Calls : call[d].pc = "lock" /\ call[d].ahead = c}
  <2>1. /\ lock' = [lock EXCEPT ![call[c].proc] = None]
        /\ \E next \in IF waiters = {} THEN {c} ELSE waiters :
             call' = [d \in Calls |->
               CASE d = c -> frame
                 [] d = next /\ d # c -> [call[d] EXCEPT !.pc = "granted", !.ahead = None]
                 [] d \in waiters \ {next, c} -> [call[d] EXCEPT !.ahead = next]
                 [] OTHER -> call[d]]
    BY <1>1 DEF Goto, Release
  <2>2. PICK next \in IF waiters = {} THEN {c} ELSE waiters :
             call' = [d \in Calls |->
               CASE d = c -> frame
                 [] d = next /\ d # c -> [call[d] EXCEPT !.pc = "granted", !.ahead = None]
                 [] d \in waiters \ {next, c} -> [call[d] EXCEPT !.ahead = next]
                 [] OTHER -> call[d]]
    BY <2>1
  <2>3. next \in Calls /\ (next # c => next \in waiters)
    BY <2>2
  <2>4. ASSUME NEW d \in waiters
        PROVE  /\ [call[d] EXCEPT !.pc = "granted", !.ahead = None] \in Propers(newest)
               /\ [call[d] EXCEPT !.ahead = next] \in Propers(newest)
    <3>1. call[d] \in Propers(newest) /\ call[d].pc = "lock"
      BY DEF IInv, Idle, Done
    <3> QED  BY <2>3, <3>1, GrantedType
  <2>5. ASSUME NEW d \in Calls  PROVE call'[d] \in Propers(newest) \cup {Idle, Done}
    <3>1. call[d] \in Propers(newest) \cup {Idle, Done}
      BY DEF IInv
    <3> HIDE DEF waiters
    <3> QED  BY <2>2, <2>3, <2>4, <3>1
  <2>6. call' \in [Calls -> Propers(newest) \cup {Idle, Done}]
    BY <2>2, <2>5
  <2> QED  BY <2>1, <2>6 DEF Framed, IInv
<1>2. CASE ~(Holds(call[c]) /\ ~Holds(frame))
  BY <1>2 DEF IInv, Goto, Framed
<1> QED  BY <1>1, <1>2

LEMMA PlainGoto ==
  ASSUME NEW c, NEW frame, Goto(c, frame), call[c].pc \in {"idle", "read", "expire"}
  PROVE  call' = [call EXCEPT ![c] = frame] /\ UNCHANGED lock
BY DEF Goto, Holds

LEMMA JudgeKept ==
  ASSUME IInv, NEW c \in Calls, NEW f \in Frames, f.kind = "get", f.item \in Items,
         NEW v \in Times, v <= newest, NEW mine \in Tier(newest), Judge(c, f, v, mine)
  PROVE  Kept(c)
<1>0. newest \in Times /\ f.proc \in Procs /\ l1 \in [Procs -> Tier(newest)]
  BY DEF IInv, Frames
<1>1. CASE Rejects(v, f.item)
  <2>0. f.item.at \in Nat /\ v \in Nat /\ newest \in Nat
    BY <1>0, Constants DEF Items
  <2>1. f.item.at <= newest
    BY <1>1, <2>0 DEF Rejects
  <2>2. [mine EXCEPT !["item"] = Expired(@)] \in Tier(newest)
    BY <1>0, ExpiredTier DEF Keys
  <2>3. /\ l1' = [l1 EXCEPT ![f.proc] = [mine EXCEPT !["item"] = Expired(@)]]
        /\ Goto(c, At(f, IF hasL2 THEN "expire" ELSE "expireNotify"))
    BY <1>1 DEF Judge
  <2>4. At(f, IF hasL2 THEN "expire" ELSE "expireNotify") \in Propers(newest)
    BY <2>1, AtType DEF Expiring
  <2>5. Framed
    BY <2>3, <2>4, GotoKept
  <2>6. l1' \in [Procs -> Tier(newest)]
    BY <1>0, <2>2, <2>3
  <2> QED  BY <2>5, <2>6 DEF Kept
<1>2. CASE ~Rejects(v, f.item)
  <2>1. [mine EXCEPT !["item"] = f.item] \in Tier(newest)
    BY <1>0, TierChange
  <2>2. l1' \in [Procs -> Tier(newest)]
    BY <1>0, <1>2, <2>1 DEF Judge
  <2>3. Framed
    BY <1>2, GotoKept DEF Judge
  <2> QED  BY <2>2, <2>3 DEF Kept
<1> QED  BY <1>1, <1>2

LEMMA CheckTagKept ==
  ASSUME IInv, NEW c \in Calls, NEW f \in Frames, f.kind = "get", f.item \in Items,
         CheckTag(c, f)
  PROVE  Kept(c)
<1> DEFINE mine == l1[f.proc]
<1>1. newest \in Times /\ f.proc \in Procs /\ mine \in Tier(newest)
  BY DEF IInv, Frames
<1>2. mine["tag"] \in Dated(newest) \cup {None}
  BY <1>1, TierChange
<1>3. CASE Valid(mine["tag"])
  <2>1. mine["tag"] \in Dated(newest)
    BY <1>2, <1>3 DEF Valid
  <2>2. mine["tag"].val \in Times /\ mine["tag"].val <= newest
    BY <2>1 DEF Dated, Records
  <2>3. Judge(c, f, mine["tag"].val, mine)
    BY <1>3 DEF CheckTag
  <2> HIDE DEF mine
  <2> QED  BY <1>1, <2>2, <2>3, JudgeKept
<1>4. CASE ~Valid(mine["tag"])
  <2> DEFINE ahead == lock[f.proc]
  <2>1. /\ call' = [call EXCEPT ![c] = IF ahead = None THEN At(f, "granted")
                                       ELSE [At(f, "lock") EXCEPT !.ahead = ahead]]
        /\ lock' = [lock EXCEPT ![f.proc] = IF ahead = None THEN c ELSE ahead]
        /\ UNCHANGED l1
    BY <1>4 DEF CheckTag
  <2> HIDE DEF mine
  <2>2. /\ At(f, "granted") \in Propers(newest)
        /\ ahead # None =>
             ahead \in Calls /\ [At(f, "lock") EXCEPT !.ahead = ahead] \in Propers(newest)
    <3>1. ahead # None => ahead \in Calls
      BY <1>1 DEF IInv
    <3> HIDE DEF ahead
    <3> QED  BY <1>2, <3>1, AtType DEF Expiring
  <2>3. Framed
    BY <2>1, <2>2 DEF Framed, IInv
  <2> QED  BY <2>1, <2>3 DEF Kept, Framed, IInv
<1> QED  BY <1>3, <1>4

----------------------------------------------------------------------------
(* The invariant is kept.                                                  *)

LEMMA InitIInv == Init => IInv
<1> SUFFICES ASSUME Init  PROVE IInv
  OBVIOUS
<1>1. now = 1 /\ now \in Times \ {0} /\ newest = 0 /\ newest \in Times /\ newest <= now
  BY TagsAssumption DEF Init, Times
<1>2. [k \in Keys |-> None] \in Tier(newest)
  BY DEF Tier, Keys
<1>3. l1 \in [Procs -> Tier(newest)]
  BY <1>2 DEF Init
<1>4. l2 \in Tier(newest)
  <2> DEFINE e == IF hasL2 THEN [val |-> None, at |-> 1, valid |-> TRUE] ELSE None
  <2>1. e \in Items \cup {None}
    BY <1>1 DEF Items
  <2>2. l2 = [k \in Keys |-> IF k = "item" THEN e ELSE None]
    BY DEF Init
  <2> HIDE DEF e
  <2> QED  BY <2>1, <2>2 DEF Tier, Keys
<1>5. inbox \in [Procs -> [Keys -> Nat]]
  BY DEF Init
<1> QED  BY <1>1, <1>3, <1>4, <1>5, Constants DEF Init, IInv

LEMMA MisleadType ==
  ASSUME IInv, NEW added \in SUBSET (Procs \cup {None}), NEW removed, Mislead(added, removed)
  PROVE  misled' \in SUBSET (Procs \cup {None})
BY DEF IInv, Mislead

LEMMA MishapType ==
  ASSUME IInv, Mishap  PROVE mishaps' \in 0..MaxMishaps
BY Constants DEF IInv, Mishap

(* The frame of a call that begins.                                        *)
LEMMA FrameType ==
  ASSUME NEW p \in Procs, NEW kind \in Kinds, NEW grace \in BOOLEAN,
         NEW item \in Items \cup Records \cup {None}
  PROVE  LET f == Frame(p, kind, grace, item) IN
         /\ f \in Frames /\ f.kind = kind /\ f.item = item /\ f.old = None
         /\ f.read \in {None, Waiting}
<1>1. None \in Entries("tag")
  BY DEF Entries
<1> QED  BY <1>1 DEF Frame, Frames

LEMMA EntryType ==
  ASSUME IInv, NEW v
  PROVE  /\ v \in Calls => Entry(v) \in Items
         /\ v \in Times => Entry(v) \in Records /\ Entry(v).val = v
BY DEF IInv, Entry, Items, Records

LEMMA GetKeeps ==
  ASSUME IInv, NEW c \in Calls, NEW p \in Procs, NEW grace \in BOOLEAN, Get(c, p, grace)
  PROVE  IInv'
<1> DEFINE f == Frame(p, "get", grace, l1[p]["item"])
<1>1. l1[p]["item"] \in Items \cup {None} /\ newest \in Times
  BY TierChange DEF IInv
<1>2. /\ f \in Frames /\ f.kind = "get" /\ f.item = l1[p]["item"] /\ f.pc = "read"
      /\ f.old = None /\ f.read \in {None, Waiting}
  <2>1. f \in Frames
    BY <1>1, FrameType DEF Get
  <2> QED  BY <2>1 DEF Frame
<1>3. /\ IF Valid(f.item) THEN CheckTag(c, f)
         ELSE Goto(c, IF hasL2 THEN f ELSE Done) /\ UNCHANGED l1
      /\ UNCHANGED <<hasL2, now, l2, inbox, history>>
  BY DEF Get
<1> HIDE DEF f
<1>4. Kept(c)
  <2>1. CASE Valid(f.item)
    <3>1. f.item \in Items
      BY <1>1, <1>2, <2>1 DEF Valid
    <3> QED  BY <1>2, <1>3, <2>1, <3>1, CheckTagKept
  <2>2. CASE ~Valid(f.item)
    <3>1. Proper(f, newest)
      BY <1>1, <1>2 DEF Proper, Checking, Expiring
    <3>2. Framed
      BY <1>2, <1>3, <2>2, <3>1, GotoKept DEF Propers
    <3> QED  BY <1>3, <2>2, <3>2 DEF Kept, Framed, IInv
  <2> QED  BY <2>1, <2>2
<1> QED  BY <1>3, <1>4 DEF Kept, Framed, IInv, history

LEMMA SetKeeps ==
  ASSUME IInv, NEW c \in Calls, NEW p \in Procs, Set(c, p)
  PROVE  IInv'
<1> DEFINE stage == IF hasL2 THEN "write" ELSE "notify"
           f == [Frame(p, "set", FALSE, Entry(c)) EXCEPT !.pc = stage]
<1>1. /\ l1' = [l1 EXCEPT ![p]["item"] = Entry(c)] /\ Goto(c, f)
      /\ UNCHANGED <<hasL2, now, l2, inbox, mishaps, newest, misled>>
  BY DEF Set, Store
<1>2. Entry(c) \in Items /\ newest \in Times
  BY EntryType DEF IInv
<1>3. /\ f \in Frames /\ f.kind = "set" /\ f.item = Entry(c) /\ f.pc \in {"write", "notify"}
      /\ f.old = None
  <2>1. stage \in {"read", "write", "notify"} /\ stage # "read" /\ "set" \in Kinds
    BY DEF Set, Store
  <2>2. /\ Entry(c) \in Items \cup Records \cup {None} /\ FALSE \in BOOLEAN
        /\ f = [Frame(p, "set", FALSE, Entry(c)) EXCEPT !.pc = stage]
    BY <1>2
  <2>3. f.pc = stage
    BY DEF Frame
  <2> HIDE DEF stage, f
  <2>4. f \in Frames /\ f.kind = "set" /\ f.item = Entry(c) /\ f.old = None
    <3> DEFINE g == Frame(p, "set", FALSE, Entry(c))
    <3>1. None \in Entries("tag")
      BY DEF Entries
    <3>2. g \in Frames /\ g.kind = "set" /\ g.item = Entry(c) /\ g.old = None
      BY <2>1, <2>2, <3>1 DEF Frame, Frames
    <3>3. f = [g EXCEPT !.pc = stage]
      BY <2>2
    <3> HIDE DEF g
    <3> QED  BY <2>1, <3>2, <3>3 DEF Frames
  <2> QED  BY <2>1, <2>3, <2>4
<1> HIDE DEF f
<1>4. f \in Propers(newest)
  BY <1>2, <1>3 DEF Proper, Propers, Expiring
<1>5. l1' \in [Procs -> Tier(newest)]
  BY <1>1, <1>2, TierChange DEF IInv
<1> QED  BY <1>1, <1>4, <1>5, GotoKept DEF Framed, IInv

LEMMA DeleteByTagKeeps ==
  ASSUME IInv, NEW c \in Calls, NEW p \in Procs, DeleteByTag(c, p)
  PROVE  IInv'
<1> DEFINE stage == IF hasL2 THEN "write" ELSE "notify"
           f == [Frame(p, "deleteByTag", FALSE, Entry(now)) EXCEPT !.pc = stage]
<1>1. /\ l1' = [l1 EXCEPT ![p]["tag"] = Entry(now)] /\ Goto(c, f) /\ newest' = now
      /\ call[c].pc = "idle" /\ UNCHANGED <<hasL2, now, l2, inbox, mishaps>>
  BY DEF DeleteByTag, Store
<1>2. now \in Times /\ newest \in Times /\ newest <= now /\ now <= now
  BY Constants DEF IInv
<1>3. Entry(now) \in Dated(now) /\ Entry(now) \in Records
  BY <1>2, EntryType DEF Dated
<1>4. /\ f \in Frames /\ f.kind = "deleteByTag" /\ f.item = Entry(now)
      /\ f.pc \in {"write", "notify"} /\ f.old = None
  <2>1. stage \in {"read", "write", "notify"} /\ stage # "read" /\ "deleteByTag" \in Kinds
    BY DEF DeleteByTag, Store
  <2>2. /\ Entry(now) \in Items \cup Records \cup {None} /\ FALSE \in BOOLEAN
        /\ f = [Frame(p, "deleteByTag", FALSE, Entry(now)) EXCEPT !.pc = stage]
    BY <1>3
  <2>3. f.pc = stage
    BY DEF Frame
  <2> HIDE DEF stage, f
  <2>4. f \in Frames /\ f.kind = "deleteByTag" /\ f.item = Entry(now) /\ f.old = None
    <3> DEFINE g == Frame(p, "deleteByTag", FALSE, Entry(now))
    <3>1. None \in Entries("tag")
      BY DEF Entries
    <3>2. g \in Frames /\ g.kind = "deleteByTag" /\ g.item = Entry(now) /\ g.old = None
      BY <2>1, <2>2, <3>1 DEF Frame, Frames
    <3>3. f = [g EXCEPT !.pc = stage]
      BY <2>2
    <3> HIDE DEF g
    <3> QED  BY <2>1, <3>2, <3>3 DEF Frames
  <2> QED  BY <2>1, <2>3, <2>4
<1> HIDE DEF f
<1>5. f \in Propers(now)
  BY <1>3, <1>4 DEF Proper, Propers, Expiring
<1>6. Tier(newest) \subseteq Tier(now) /\ Propers(newest) \subseteq Propers(now)
  BY <1>2, LaterTier
<1>7. l1' \in [Procs -> Tier(now)]
  <2>1. \A tier \in Tier(now) : [tier EXCEPT !["tag"] = Entry(now)] \in Tier(now)
    BY <1>2, <1>3, TierChange
  <2> QED  BY <1>1, <1>6, <2>1 DEF IInv
<1>8. call' \in [Calls -> Propers(now) \cup {Idle, Done}]
  BY <1>1, <1>5, <1>6, PlainGoto DEF IInv
<1>9. misled' \in SUBSET (Procs \cup {None})
  BY DEF DeleteByTag, Mislead, IInv
<1>10. UNCHANGED lock
  BY <1>1, PlainGoto
<1> QED  BY <1>1, <1>2, <1>6, <1>7, <1>8, <1>9, <1>10 DEF IInv

LEMMA AnswerReadKeeps ==
  ASSUME IInv, NEW c \in Calls, AnswerRead(c)
  PROVE  IInv'
<1> DEFINE f == call[c]
<1>1. f \in Frames /\ Proper(f, newest) /\ f.pc \in {"read", "tag", "expire"} /\ newest \in Times
  BY FrameKind DEF AnswerRead, IInv
<1>2. f.kind = "get"
  BY <1>1 DEF Proper
<1>3. l2["item"] \in Items \cup {None} /\ l2["tag"] \in Dated(newest) \cup {None}
  BY <1>1, TierChange DEF IInv
<1>4. /\ f.pc = "tag" => l2[KeyOf(f)] \in Dated(newest) \cup {None}
      /\ f.pc # "tag" => l2[KeyOf(f)] \in Items \cup {None}
  BY <1>1, <1>2, <1>3 DEF KeyOf
<1>5. /\ \/ call' = [call EXCEPT ![c].read = l2[KeyOf(f)]] /\ UNCHANGED mishaps
         \/ call' = [call EXCEPT ![c].read = None] /\ Mishap
      /\ UNCHANGED <<tiers, now, inbox, lock, newest, misled>>
  BY DEF AnswerRead
<1> HIDE DEF f
<1>6. ASSUME NEW e, f.pc = "tag" => e \in Dated(newest) \cup {None},
             f.pc # "tag" => e \in Items \cup {None}
      PROVE  [f EXCEPT !.read = e] \in Propers(newest)
  <2> DEFINE g == [f EXCEPT !.read = e]
  <2>1. e \in Items \cup Records \cup {None}
    BY <1>6 DEF Dated
  <2>2. /\ g \in Frames /\ g.pc = f.pc /\ g.kind = f.kind /\ g.item = f.item
        /\ g.old = f.old /\ g.read = e
    BY <1>1, <2>1 DEF Frames
  <2> HIDE DEF g
  <2>3. Proper(g, newest)
    BY <1>1, <1>6, <2>2 DEF Proper
  <2> QED  BY <2>2, <2>3 DEF Propers, g
<1>7. call' \in [Calls -> Propers(newest) \cup {Idle, Done}]
  <2>1. ASSUME NEW e, f.pc = "tag" => e \in Dated(newest) \cup {None},
               f.pc # "tag" => e \in Items \cup {None},
               call' = [call EXCEPT ![c].read = e]
        PROVE  call' \in [Calls -> Propers(newest) \cup {Idle, Done}]
    <3>1. [f EXCEPT !.read = e] \in Propers(newest)
      BY <1>6, <2>1
    <3>2. call' = [call EXCEPT ![c] = [f EXCEPT !.read = e]]
      BY <2>1 DEF f
    <3> QED  BY <3>1, <3>2 DEF IInv
  <2>2. CASE call' = [call EXCEPT ![c].read = l2[KeyOf(f)]]
    BY <1>4, <2>1, <2>2
  <2>3. CASE call' = [call EXCEPT ![c].read = None]
    BY <2>1, <2>3
  <2> QED  BY <1>5, <2>2, <2>3
<1>8. mishaps' \in 0..MaxMishaps
  BY <1>5, MishapType DEF IInv
<1> QED  BY <1>5, <1>7, <1>8 DEF IInv, tiers

LEMMA ReadKeeps ==
  ASSUME IInv, NEW c \in Calls, Read(c)
  PROVE  IInv'
<1> DEFINE g == call[c]
           f == [g EXCEPT !.item = g.read, !.tier = "l2"]
<1>1. g \in Frames /\ Proper(g, newest) /\ g.pc = "read" /\ g.read # Waiting /\ newest \in Times
  BY FrameKind DEF Read, IInv
<1>2. g.kind = "get" /\ g.read \in Items \cup {None}
  BY <1>1 DEF Proper
<1>3. f \in Frames /\ f.kind = "get" /\ f.item = g.read /\ f.proc = g.proc /\ f.proc \in Procs
  BY <1>1, <1>2 DEF Frames
<1>4. /\ IF Valid(f.item) THEN CheckTag(c, f)
         ELSE /\ Goto(c, Done)
              /\ l1' = IF f.item # None /\ f.grace
                         THEN [l1 EXCEPT ![f.proc]["item"] = f.item] ELSE l1
      /\ UNCHANGED <<hasL2, now, l2, inbox, history>>
  BY DEF Read
<1> HIDE DEF f, g
<1>5. Kept(c)
  <2>1. CASE Valid(f.item)
    <3>1. f.item \in Items
      BY <1>2, <1>3, <2>1 DEF Valid
    <3> QED  BY <1>3, <1>4, <2>1, <3>1, CheckTagKept
  <2>2. CASE ~Valid(f.item)
    <3>1. Framed
      BY <1>4, <2>2, GotoKept
    <3>2. l1' \in [Procs -> Tier(newest)]
      <4>1. \A tier \in Tier(newest) : [tier EXCEPT !["item"] = f.item] \in Tier(newest)
        BY <1>1, <1>2, <1>3, TierChange
      <4> QED  BY <1>3, <1>4, <2>2, <4>1 DEF IInv
    <3> QED  BY <3>1, <3>2 DEF Kept
  <2> QED  BY <2>1, <2>2
<1> QED  BY <1>4, <1>5 DEF Kept, Framed, IInv, history

LEMMA TagLockKeeps ==
  ASSUME IInv, NEW c \in Calls, TagLock(c)
  PROVE  IInv'
<1> DEFINE f == call[c]
           mine == l1[f.proc]
<1>1. /\ f \in Frames /\ Proper(f, newest) /\ f.pc = "granted"
      /\ newest \in Times /\ mine \in Tier(newest)
  BY FrameKind DEF TagLock, IInv
<1>2. f.kind = "get" /\ f.item \in Items
  BY <1>1 DEF Proper
<1>3. mine["tag"] \in Dated(newest) \cup {None}
  BY <1>1, TierChange
<1>4. /\ IF Valid(mine["tag"]) THEN Judge(c, f, mine["tag"].val, mine)
         ELSE Goto(c, [At(f, "tag") EXCEPT !.old = mine["tag"]]) /\ UNCHANGED l1
      /\ UNCHANGED <<hasL2, now, l2, inbox, history>>
  BY DEF TagLock
<1> HIDE DEF f, mine
<1>5. CASE Valid(mine["tag"])
  <2>1. mine["tag"].val \in Times /\ mine["tag"].val <= newest
    BY <1>3, <1>5 DEF Valid, Dated, Records
  <2>2. Kept(c)
    BY <1>1, <1>2, <1>4, <1>5, <2>1, JudgeKept
  <2> QED  BY <1>4, <2>2 DEF Kept, Framed, IInv, history
<1>6. CASE ~Valid(mine["tag"])
  <2>1. [At(f, "tag") EXCEPT !.old = mine["tag"]] \in Propers(newest)
    BY <1>1, <1>2, <1>3, AtType DEF Expiring
  <2>2. Framed
    BY <1>4, <1>6, <2>1, GotoKept
  <2> QED  BY <1>4, <1>6, <2>2 DEF Framed, IInv, history
<1> QED  BY <1>5, <1>6

LEMMA ReadTagKeeps ==
  ASSUME IInv, NEW c \in Calls, ReadTag(c)
  PROVE  IInv'
<1> DEFINE f == call[c]
           found == Valid(f.read)
           rec == IF found THEN f.read ELSE Entry(TagFactory(f.old, f.read))
           mine == [l1[f.proc] EXCEPT !["tag"] = rec]
<1>1. /\ f \in Frames /\ Proper(f, newest) /\ f.pc = "tag" /\ f.read # Waiting
      /\ newest \in Times /\ now \in Times /\ f.proc \in Procs /\ l1[f.proc] \in Tier(newest)
  BY FrameKind DEF ReadTag, IInv
<1>2. /\ f.kind = "get" /\ f.item \in Items /\ f.old \in Dated(newest) \cup {None}
      /\ f.read \in Dated(newest) \cup {None}
  BY <1>1 DEF Proper
<1>3. /\ IF found \/ rec.val = 0 THEN Judge(c, f, rec.val, mine)
         ELSE /\ l1' = [l1 EXCEPT ![f.proc] = mine]
              /\ Goto(c, [f EXCEPT !.read = rec,
                            !.pc = IF hasL2 THEN "tagWrite" ELSE "tagNotify"])
      /\ misled' \in SUBSET (Procs \cup {None})
      /\ UNCHANGED <<hasL2, now, l2, inbox, mishaps, newest>>
  <2>1. misled' \in SUBSET (Procs \cup {None})
    BY <1>1 DEF ReadTag, Mislead, IInv
  <2> QED  BY <2>1 DEF ReadTag
<1>4. rec \in Dated(newest)
  <2>1. CASE found
    BY <1>2, <2>1 DEF Valid
  <2>2. CASE ~found
    <3>1. TagFactory(f.old, f.read) \in Times /\ TagFactory(f.old, f.read) <= newest
      <4>1. 0 \in Times /\ 0 <= newest
        BY <1>1, Constants DEF Times
      <4>2. \A e \in Dated(newest) : e.val \in Times /\ e.val <= newest
        BY DEF Dated, Records
      <4> QED  BY <1>2, <4>1, <4>2 DEF TagFactory
    <3>2. /\ Entry(TagFactory(f.old, f.read)) \in Records
          /\ Entry(TagFactory(f.old, f.read)).val = TagFactory(f.old, f.read)
      BY <3>1, EntryType
    <3> QED  BY <2>2, <3>1, <3>2 DEF Dated
  <2> QED  BY <2>1, <2>2
<1>5. mine \in Tier(newest)
  BY <1>1, <1>4, TierChange
<1>6. rec.val \in Times /\ rec.val <= newest
  BY <1>4 DEF Dated, Records
<1> HIDE DEF rec, mine, found, f
<1>7. Kept(c)
  <2>1. CASE found \/ rec.val = 0
    BY <1>1, <1>2, <1>3, <1>5, <1>6, <2>1, JudgeKept
  <2>2. CASE ~(found \/ rec.val = 0)
    <3> DEFINE g == [f EXCEPT !.read = rec, !.pc = IF hasL2 THEN "tagWrite" ELSE "tagNotify"]
    <3>1. rec \in Records
      BY <1>4 DEF Dated
    <3>2. /\ g \in Frames /\ g.kind = "get" /\ g.item = f.item /\ g.old = f.old /\ g.read = rec
          /\ g.pc \in {"tagWrite", "tagNotify"}
      BY <1>1, <1>2, <3>1 DEF Frames
    <3>3. Goto(c, g) /\ l1' = [l1 EXCEPT ![f.proc] = mine]
      BY <1>3, <2>2
    <3> HIDE DEF g
    <3>4. Proper(g, newest)
      BY <1>2, <1>4, <3>2 DEF Proper, Checking, Expiring
    <3>5. Framed
      BY <3>2, <3>3, <3>4, GotoKept DEF Propers
    <3>6. l1' \in [Procs -> Tier(newest)]
      BY <1>5, <3>3 DEF IInv
    <3> QED  BY <3>5, <3>6 DEF Kept
  <2> QED  BY <2>1, <2>2
<1> QED  BY <1>3, <1>7 DEF Kept, Framed, IInv

LEMMA ReadExpiredKeeps ==
  ASSUME IInv, NEW c \in Calls, ReadExpired(c)
  PROVE  IInv'
<1> DEFINE f == call[c]
           stage == IF f.read = None THEN "expireNotify" ELSE "expireWrite"
           g == [f EXCEPT !.pc = stage]
<1>1. f \in Frames /\ Proper(f, newest) /\ f.pc = "expire" /\ f.read # Waiting
  BY FrameKind DEF ReadExpired
<1>2. /\ f.kind = "get" /\ f.item \in Items /\ f.item.at <= newest
      /\ f.read \in Items \cup {None}
  BY <1>1 DEF Proper, Expiring
<1>3. Goto(c, g) /\ UNCHANGED <<tiers, now, inbox, history>>
  BY DEF ReadExpired
<1>4. /\ g \in Frames /\ g.pc = stage /\ g.kind = f.kind /\ g.item = f.item /\ g.old = f.old
      /\ g.read = f.read
  BY <1>1 DEF Frames
<1>5. stage \in {"expireNotify", "expireWrite"} /\ (stage = "expireWrite" => f.read \in Items)
  BY <1>2
<1> HIDE DEF g, stage
<1>6. Proper(g, newest)
  BY <1>1, <1>2, <1>4, <1>5 DEF Proper, Checking, Expiring
<1>7. Framed
  BY <1>3, <1>4, <1>6, GotoKept DEF Propers
<1> QED  BY <1>3, <1>7 DEF Framed, IInv, tiers, history

(* What a frame writes to L2, and where it goes then.                      *)
LEMMA WrittenType ==
  ASSUME IInv, NEW c \in Calls, AwaitsWrite(c)
  PROVE  LET f == call[c] IN
         /\ f \in Frames /\ Proper(f, newest) /\ f.pc \in {"write", "tagWrite", "expireWrite"}
         /\ [l2 EXCEPT ![KeyOf(f)] = Written(f)] \in Tier(newest)
         /\ [f EXCEPT !.pc = Announced(f)] \in Propers(newest)
<1> DEFINE f == call[c]
           g == [f EXCEPT !.pc = Announced(f)]
<1>1. /\ f \in Frames /\ Proper(f, newest) /\ f.pc \in {"write", "tagWrite", "expireWrite"}
      /\ newest \in Times /\ l2 \in Tier(newest)
  BY FrameKind DEF AwaitsWrite, IInv
<1> HIDE DEF f
<1>2. /\ KeyOf(f) = "item" => Written(f) \in Items \cup {None}
      /\ KeyOf(f) = "tag" => Written(f) \in Dated(newest)
      /\ KeyOf(f) \in {"item", "tag"}
  <2>1. CASE f.pc = "write"
    BY <1>1, <2>1 DEF KeyOf, Written, Proper, Checking, Expiring
  <2>2. CASE f.pc = "tagWrite"
    BY <1>1, <2>2 DEF KeyOf, Written, Proper
  <2>3. CASE f.pc = "expireWrite"
    <3>1. f.kind = "get" /\ f.read \in Items
      BY <1>1, <2>3 DEF Proper
    <3> QED  BY <1>1, <2>3, <3>1, ExpiredType DEF KeyOf, Written
  <2> QED  BY <1>1, <2>1, <2>2, <2>3
<1>3. [l2 EXCEPT ![KeyOf(f)] = Written(f)] \in Tier(newest)
  BY <1>1, <1>2, TierChange
<1>4. Announced(f) = CASE f.pc = "write" -> "notify" [] f.pc = "tagWrite" -> "tagNotify"
                       [] f.pc = "expireWrite" -> "expireNotify"
  BY <1>1 DEF Announced
<1>5. /\ g \in Frames /\ g.pc = Announced(f) /\ g.kind = f.kind /\ g.item = f.item
      /\ g.old = f.old /\ g.read = f.read
  BY <1>1, <1>4 DEF Frames
<1> HIDE DEF g
<1>6. Proper(g, newest)
  BY <1>1, <1>4, <1>5 DEF Proper, Checking, Expiring
<1> QED  BY <1>1, <1>3, <1>5, <1>6 DEF Propers, f, g

LEMMA WriteL2Keeps ==
  ASSUME IInv, NEW c \in Calls, WriteL2(c)
  PROVE  IInv'
<1>1. /\ AwaitsWrite(c) /\ l2' = [l2 EXCEPT ![KeyOf(call[c])] = Written(call[c])]
      /\ Goto(c, [call[c] EXCEPT !.pc = Announced(call[c])])
      /\ UNCHANGED <<hasL2, now, l1, inbox, mishaps, newest>>
  BY DEF WriteL2
<1>2. misled' \in SUBSET (Procs \cup {None})
  BY DEF WriteL2, Mislead, IInv
<1>3. /\ l2' \in Tier(newest)
      /\ [call[c] EXCEPT !.pc = Announced(call[c])] \in Propers(newest)
  BY <1>1, WrittenType
<1>4. Framed
  BY <1>1, <1>3, GotoKept
<1> QED  BY <1>1, <1>2, <1>3, <1>4 DEF Framed, IInv

LEMMA FailWriteKeeps ==
  ASSUME IInv, NEW c \in Calls, FailWrite(c)
  PROVE  IInv'
<1> DEFINE f == call[c]
<1>1. /\ AwaitsWrite(c) /\ Mishap
      /\ l2' \in {l2, [l2 EXCEPT ![KeyOf(f)] = Written(f)]}
      /\ CASE f.pc = "write" -> Goto(c, Done) /\ UNCHANGED l1
           [] f.pc = "tagWrite" -> Judge(c, f, f.read.val, l1[f.proc])
           [] OTHER -> Goto(c, [f EXCEPT !.pc = "expireNotify"]) /\ UNCHANGED l1
      /\ UNCHANGED <<hasL2, now, inbox, newest>>
  BY DEF FailWrite
<1>2. /\ f \in Frames /\ Proper(f, newest) /\ f.pc \in {"write", "tagWrite", "expireWrite"}
      /\ l2' \in Tier(newest) /\ [f EXCEPT !.pc = Announced(f)] \in Propers(newest)
      /\ f.proc \in Procs /\ l1[f.proc] \in Tier(newest)
  BY <1>1, WrittenType DEF IInv, Frames
<1>3. misled' \in SUBSET (Procs \cup {None})
  BY <1>2 DEF FailWrite, Mislead, IInv
<1> HIDE DEF f
<1>4. Kept(c)
  <2>1. CASE f.pc = "write"
    <3>1. Framed
      BY <1>1, <2>1, GotoKept
    <3> QED  BY <1>1, <2>1, <3>1 DEF Kept, Framed, IInv
  <2>2. CASE f.pc = "tagWrite"
    <3>1. f.kind = "get" /\ f.item \in Items /\ f.read \in Dated(newest)
      BY <1>2, <2>2 DEF Proper
    <3>2. f.read.val \in Times /\ f.read.val <= newest
      BY <3>1 DEF Dated, Records
    <3> QED  BY <1>1, <1>2, <2>2, <3>1, <3>2, JudgeKept
  <2>3. CASE f.pc = "expireWrite"
    <3>1. Goto(c, [f EXCEPT !.pc = Announced(f)]) /\ UNCHANGED l1
      BY <1>1, <2>3 DEF Announced
    <3>2. Framed
      BY <1>2, <3>1, GotoKept
    <3> QED  BY <3>1, <3>2 DEF Kept, Framed, IInv
  <2> QED  BY <1>2, <2>1, <2>2, <2>3
<1>5. mishaps' \in 0..MaxMishaps
  BY <1>1, MishapType
<1> QED  BY <1>1, <1>2, <1>3, <1>4, <1>5 DEF Kept, Framed, IInv

LEMMA NotifyKeeps ==
  ASSUME IInv, NEW c \in Calls, Notify(c)
  PROVE  IInv'
<1> DEFINE f == call[c]
<1>1. /\ f.pc \in {"notify", "tagNotify", "expireNotify"}
      /\ Deliver(f.proc, KeyOf(f))
      /\ CASE f.pc = "notify" -> Goto(c, Done) /\ UNCHANGED l1
           [] f.pc = "tagNotify" -> Judge(c, f, f.read.val, l1[f.proc])
           [] f.pc = "expireNotify" /\ f.tier = "l1" /\ hasL2 ->
                Goto(c, At(f, "read")) /\ UNCHANGED l1
           [] OTHER ->
                /\ Goto(c, Done)
                /\ l1' = IF f.tier = "l2" /\ f.grace
                           THEN [l1 EXCEPT ![f.proc]["item"] = f.item] ELSE l1
      /\ UNCHANGED <<hasL2, now, l2, history>> /\ hasL2 \in BOOLEAN
  BY DEF Notify, IInv
<1>2. /\ f \in Frames /\ Proper(f, newest) /\ f.proc \in Procs /\ l1[f.proc] \in Tier(newest)
      /\ newest \in Times
  BY <1>1, FrameKind DEF IInv
<1> HIDE DEF f
<1>3. inbox' \in [Procs -> [Keys -> Nat]]
  <2>1. ASSUME NEW q \in Procs
        PROVE  [inbox[q] EXCEPT ![KeyOf(f)] = @ + 1] \in [Keys -> Nat]
    <3>1. inbox[q] \in [Keys -> Nat]
      BY DEF IInv
    <3>2. KeyOf(f) \in Keys /\ inbox[q][KeyOf(f)] + 1 \in Nat
      BY <3>1 DEF KeyOf, Keys
    <3> HIDE DEF KeyOf
    <3> QED  BY <3>1, <3>2
  <2>2. inbox' = [q \in Procs |-> IF q = f.proc THEN inbox[q]
                                  ELSE [inbox[q] EXCEPT ![KeyOf(f)] = @ + 1]]
    BY <1>1 DEF Deliver
  <2> QED  BY <2>1, <2>2 DEF IInv
<1>4. Kept(c)
  <2>1. CASE f.pc = "notify"
    <3>0. Goto(c, Done) /\ UNCHANGED l1
      BY <1>1, <2>1
    <3>1. Framed
      BY <3>0, GotoKept
    <3> QED  BY <3>0, <3>1 DEF Kept, Framed, IInv
  <2>2. CASE f.pc = "tagNotify"
    <3>1. f.kind = "get" /\ f.item \in Items /\ f.read \in Dated(newest)
      BY <1>2, <2>2 DEF Proper
    <3>2. f.read.val \in Times /\ f.read.val <= newest
      BY <3>1 DEF Dated, Records
    <3>3. Judge(c, f, f.read.val, l1[f.proc])
      BY <1>1, <2>2
    <3> QED  BY <1>2, <3>1, <3>2, <3>3, JudgeKept
  <2>3. CASE f.pc = "expireNotify"
    <3>1. f.kind = "get" /\ f.item \in Items
      BY <1>2, <2>3 DEF Proper
    <3>2. CASE f.tier = "l1" /\ hasL2
      <4>1. At(f, "read") \in Propers(newest)
        BY <1>2, <3>1, AtType DEF Expiring
      <4>2. Framed
        BY <1>1, <2>3, <3>2, <4>1, GotoKept
      <4> QED  BY <1>1, <2>3, <3>2, <4>2 DEF Kept, Framed, IInv
    <3>3. CASE ~(f.tier = "l1" /\ hasL2)
      <4>1. /\ Goto(c, Done)
            /\ l1' = IF f.tier = "l2" /\ f.grace
                       THEN [l1 EXCEPT ![f.proc]["item"] = f.item] ELSE l1
        BY <1>1, <2>3, <3>3
      <4>2. Framed
        BY <4>1, GotoKept
      <4>3. \A tier \in Tier(newest) : [tier EXCEPT !["item"] = f.item] \in Tier(newest)
        BY <1>2, <3>1, TierChange
      <4>4. l1' \in [Procs -> Tier(newest)]
        BY <1>2, <4>1, <4>3 DEF IInv
      <4> QED  BY <4>2, <4>4 DEF Kept
    <3> QED  BY <3>2, <3>3
  <2> QED  BY <1>1, <2>1, <2>2, <2>3
<1> QED  BY <1>1, <1>3, <1>4 DEF Kept, Framed, IInv, history

LEMMA EnvironmentKeeps ==
  ASSUME IInv, Tick \/ Lose \/ Age \/ UNCHANGED vars \/ \E p \in Procs : OnMessage(p)
  PROVE  IInv'
<1>0. newest \in Times /\ now \in Times /\ MaxTime \in Nat
  BY TagsAssumption DEF IInv
<1>1. CASE Tick
  BY <1>0, <1>1, TagsAssumption DEF Tick, IInv, Times, tiers, history
<1>2. CASE Lose
  <2>1. mishaps' \in 0..MaxMishaps
    BY <1>2, MishapType DEF Lose
  <2>2. misled' \in SUBSET (Procs \cup {None})
    BY <1>2 DEF Lose, Mislead, IInv
  <2>3. l2' \in Tier(newest) /\ l1' \in [Procs -> Tier(newest)]
    <3>1. \A tier \in Tier(newest) : [tier EXCEPT !["tag"] = None] \in Tier(newest)
      BY <1>0, TierChange
    <3>2. CASE l2' = [l2 EXCEPT !["tag"] = None] /\ UNCHANGED l1
      BY <3>1, <3>2 DEF IInv
    <3>3. CASE UNCHANGED l2 /\ \E p \in Procs : l1' = [l1 EXCEPT ![p]["tag"] = None]
      <4>1. PICK p \in Procs : l1' = [l1 EXCEPT ![p]["tag"] = None]
        BY <3>3
      <4>2. l1' = [l1 EXCEPT ![p] = [l1[p] EXCEPT !["tag"] = None]] /\ l1[p] \in Tier(newest)
        BY <4>1 DEF IInv
      <4>3. [l1[p] EXCEPT !["tag"] = None] \in Tier(newest)
        BY <3>1, <4>2
      <4> QED  BY <3>3, <4>2, <4>3 DEF IInv
    <3> QED  BY <1>2, <3>2, <3>3 DEF Lose
  <2> QED  BY <1>2, <2>1, <2>2, <2>3 DEF Lose, IInv
<1>3. CASE Age
  <2>1. mishaps' \in 0..MaxMishaps
    BY <1>3, MishapType DEF Age
  <2>2. misled' \in SUBSET (Procs \cup {None})
    BY <1>3 DEF Age, Mislead, IInv
  <2>3. l2' \in Tier(newest) /\ l1' \in [Procs -> Tier(newest)]
    BY <1>0, <1>3, ExpiredTier DEF Age, IInv, Keys
  <2> QED  BY <1>3, <2>1, <2>2, <2>3 DEF Age, IInv
<1>4. ASSUME NEW p \in Procs, OnMessage(p)  PROVE IInv'
  <2>1. PICK k \in Keys :
          /\ inbox[p][k] > 0
          /\ inbox' = [inbox EXCEPT ![p][k] = @ - 1]
          /\ l1' = [l1 EXCEPT ![p][k] = Expired(@)]
          /\ IF k = "tag" /\ Valid(l2["tag"]) THEN Mislead({}, {p}) ELSE UNCHANGED misled
          /\ UNCHANGED <<hasL2, now, l2, call, lock, mishaps, newest>>
    BY <1>4 DEF OnMessage
  <2>2. inbox' \in [Procs -> [Keys -> Nat]]
    <3>1. inbox[p] \in [Keys -> Nat] /\ inbox[p][k] - 1 \in Nat
      BY <2>1 DEF IInv
    <3> QED  BY <2>1, <3>1 DEF IInv
  <2>3. [l1[p] EXCEPT ![k] = Expired(@)] \in Tier(newest)
    BY <1>0, ExpiredTier DEF IInv
  <2>4. l1' \in [Procs -> Tier(newest)]
    BY <2>1, <2>3 DEF IInv
  <2>5. misled' \in SUBSET (Procs \cup {None})
    BY <2>1 DEF Mislead, IInv
  <2> QED  BY <2>1, <2>2, <2>4, <2>5 DEF IInv
<1>5. CASE UNCHANGED vars
  BY <1>5 DEF vars, IInv
<1> QED  BY <1>1, <1>2, <1>3, <1>4, <1>5

LEMMA Invariance == Spec => []IInv
<1>1. IInv /\ [Next]_vars => IInv'
  <2> SUFFICES ASSUME IInv, [Next]_vars  PROVE IInv'
    OBVIOUS
  <2>1. ASSUME NEW c \in Calls, NEW p \in Procs,
               (\E g \in BOOLEAN : Get(c, p, g)) \/ Set(c, p) \/ DeleteByTag(c, p)
        PROVE  IInv'
    BY <2>1, GetKeeps, SetKeeps, DeleteByTagKeeps
  <2>2. ASSUME NEW c \in Calls,
               \/ AnswerRead(c) \/ Read(c) \/ TagLock(c) \/ ReadTag(c) \/ ReadExpired(c)
               \/ WriteL2(c) \/ FailWrite(c) \/ Notify(c)
        PROVE  IInv'
    BY <2>2, AnswerReadKeeps, ReadKeeps, TagLockKeeps, ReadTagKeeps, ReadExpiredKeeps,
       WriteL2Keeps, FailWriteKeeps, NotifyKeeps
  <2> QED  BY <2>1, <2>2, EnvironmentKeeps DEF Next
<1> QED  BY <1>1, InitIInv, PTL DEF Spec

----------------------------------------------------------------------------
(* The theorems.                                                           *)

(* Tiers, frames and history of tagged entries keep their types: a tag     *)
(* record never lands under the key of an item, nor an item under that of  *)
(* the tag (tag_system.ts:23-87).                                          *)
THEOREM TagsTypeCorrect == Spec => []TypeOK
<1>1. IInv => TypeOK
  <2> SUFFICES ASSUME IInv  PROVE TypeOK
    OBVIOUS
  <2>1. \A p \in Procs, k \in Keys : l1[p][k] \in Entries(k) /\ inbox[p][k] \in Nat
    BY DEF IInv, Tier, Keys, Entries, Dated
  <2>2. \A k \in Keys : l2[k] \in Entries(k)
    BY DEF IInv, Tier, Keys, Entries, Dated
  <2>3. call \in [Calls -> Frames \cup {Idle, Done}]
    BY DEF IInv, Propers
  <2> QED  BY <2>1, <2>2, <2>3 DEF IInv, TypeOK
<1> QED  BY <1>1, Invariance, PTL

(* However checks, invalidations, failures and lost or aged records are    *)
(* interleaved, no check rejects an entry created after the last           *)
(* deleteByTag (tag_system.ts:40-45, 64-66).                               *)
THEOREM TagsOnlyInvalidatedExpired == Spec => []OnlyInvalidatedExpired
<1>1. IInv => OnlyInvalidatedExpired
  <2> SUFFICES ASSUME IInv, NEW c \in Calls,
                      call[c].pc \in {"expire", "expireWrite", "expireNotify"}
               PROVE  call[c].item.at <= newest
    BY DEF OnlyInvalidatedExpired
  <2>1. Proper(call[c], newest)
    BY FrameKind
  <2> QED  BY <2>1 DEF Proper, Expiring
<1> QED  BY <1>1, Invariance, PTL

----------------------------------------------------------------------------
(* Who is not misled goes by the last invalidation.                        *)

Tag(p) == l1[p]["tag"]
Newest(e) == e # None /\ e.val = newest

Deleting(c, stage) == call[c].pc = stage /\ call[c].kind = "deleteByTag"
Checked(c) == call[c].pc = "tagWrite"
Announcing(c) == Deleting(c, "notify") \/ call[c].pc = "tagNotify"

(* The last invalidation is on its way to L2.                              *)
Pending == \E c \in Calls : Deleting(c, "write") /\ call[c].item.val = newest

(* p will be told to drop its record.                                      *)
Coming(p) ==
  \/ inbox[p]["tag"] > 0
  \/ \E c \in Calls : (Deleting(c, "write") \/ Announcing(c)) /\ call[c].proc # p

(* A record that p is about to write to L2 is valid, and the L1 of p holds *)
(* nothing older unless p is misled or its record is no longer valid.      *)
Backed(p, rec) ==
  hasL2 /\ rec.valid /\ (p \in misled \/ ~Valid(Tag(p)) \/ Tag(p).val >= rec.val)

Request(c) == /\ Deleting(c, "write") => Backed(call[c].proc, call[c].item)
              /\ Checked(c) => Backed(call[c].proc, call[c].read)
Requests == \A c \in Calls : Request(c)

WithoutL2 ==
  ~hasL2 => /\ l2["tag"] = None
            /\ newest # 0 => \A p \in Procs \ misled : Newest(Tag(p))

(* Unless L2 itself is behind, it has the last invalidation or is about to *)
(* get it, and so has who is not misled, or is about to drop its record.   *)
WithL2 ==
  (hasL2 /\ None \notin misled) =>
    /\ newest = 0 \/ Newest(l2["tag"]) \/ Pending
    /\ \A p \in Procs \ misled :
         \/ Tag(p) = None \/ Newest(Tag(p))
         \/ (Valid(l2["tag"]) \/ Pending) /\ (Valid(Tag(p)) => Coming(p))

RecordInv == Requests /\ WithoutL2 /\ WithL2

(* A step of c may hand the mutex over among the calls that wait for it.   *)
Others(c) == \A d \in Calls \ {c} :
  call'[d] = call[d] \/ {call[d].pc, call'[d].pc} \subseteq {"lock", "granted"}

LEMMA RecordTypes ==
  ASSUME IInv
  PROVE  /\ newest \in Nat /\ now \in Nat /\ newest <= now /\ now # 0
         /\ \A p \in Procs : Tag(p) # None => Tag(p) \in Dated(newest)
         /\ l2["tag"] # None => l2["tag"] \in Dated(newest)
         /\ \A rec \in Dated(newest) : rec \in Records /\ rec.val \in Nat /\ rec.val <= newest
         /\ \A c \in Calls :
              /\ Deleting(c, "write") => call[c].item \in Dated(newest) /\ call[c].proc \in Procs
              /\ Checked(c) => call[c].read \in Dated(newest) /\ call[c].proc \in Procs
         /\ None \notin Procs
<1>1. newest \in Nat /\ now \in Nat /\ newest <= now /\ now # 0 /\ newest \in Times
  BY Constants DEF IInv
<1>2. \A tier \in Tier(newest) : tier["tag"] # None => tier["tag"] \in Dated(newest)
  BY DEF Tier
<1>3. /\ \A p \in Procs : Tag(p) # None => Tag(p) \in Dated(newest)
      /\ l2["tag"] # None => l2["tag"] \in Dated(newest)
  BY <1>2 DEF IInv, Tag
<1>4. \A rec \in Dated(newest) : rec \in Records /\ rec.val \in Nat /\ rec.val <= newest
  BY Constants DEF Dated, Records
<1>5. ASSUME NEW c \in Calls
      PROVE  /\ Deleting(c, "write") => call[c].item \in Dated(newest) /\ call[c].proc \in Procs
             /\ Checked(c) => call[c].read \in Dated(newest) /\ call[c].proc \in Procs
  BY FrameKind DEF Deleting, Checked, Proper
<1> QED  BY <1>1, <1>3, <1>4, <1>5, TagsAssumption

(* Whoever waits for the mutex has no record on its way.                   *)
LEMMA OthersStay ==
  ASSUME NEW c \in Calls, Others(c), NEW d \in Calls \ {c}
  PROVE  /\ Deleting(d, "write")' <=> Deleting(d, "write")
         /\ Checked(d)' <=> Checked(d)
         /\ Deleting(d, "write") \/ Checked(d) \/ Announcing(d) => call'[d] = call[d]
         /\ Announcing(d) => Announcing(d)'
<1>1. call'[d] = call[d] \/ {call[d].pc, call'[d].pc} \subseteq {"lock", "granted"}
  BY DEF Others
<1>2. CASE call'[d] = call[d]
  BY <1>2 DEF Deleting, Checked, Announcing
<1>3. CASE call[d].pc \in {"lock", "granted"} /\ call'[d].pc \in {"lock", "granted"}
  BY <1>3 DEF Deleting, Checked, Announcing
<1> QED  BY <1>1, <1>2, <1>3

LEMMA GotoOthers ==
  ASSUME IInv, NEW c \in Calls, NEW frame, Goto(c, frame)
  PROVE  Others(c) /\ call'[c] = frame
<1>1. CASE Holds(call[c]) /\ ~Holds(frame)
  <2> DEFINE waiters == {d \in Calls : call[d].pc = "lock" /\ call[d].ahead = c}
  <2>1. PICK next \in IF waiters = {} THEN {c} ELSE waiters :
             call' = [d \in Calls |->
               CASE d = c -> frame
                 [] d = next /\ d # c -> [call[d] EXCEPT !.pc = "granted", !.ahead = None]
                 [] d \in waiters \ {next, c} -> [call[d] EXCEPT !.ahead = next]
                 [] OTHER -> call[d]]
    BY <1>1 DEF Goto, Release
  <2>2. next # c => next \in waiters
    BY <2>1
  <2>3. ASSUME NEW d \in Calls \ {c}
        PROVE  call'[d] = call[d] \/ {call[d].pc, call'[d].pc} \subseteq {"lock", "granted"}
    <3>1. CASE d \in waiters
      <4>1. call[d] \in Frames /\ call[d].pc = "lock"
        BY <3>1, FrameKind
      <4>2. /\ [call[d] EXCEPT !.pc = "granted", !.ahead = None].pc = "granted"
            /\ [call[d] EXCEPT !.ahead = next].pc = "lock"
        BY <4>1 DEF Frames
      <4> HIDE DEF waiters
      <4>3. \/ call'[d] = [call[d] EXCEPT !.pc = "granted", !.ahead = None]
            \/ call'[d] = [call[d] EXCEPT !.ahead = next]
        BY <2>1, <3>1
      <4> QED  BY <4>1, <4>2, <4>3
    <3>2. CASE d \notin waiters
      <4> HIDE DEF waiters
      <4> QED  BY <2>1, <2>2, <3>2
    <3> QED  BY <3>1, <3>2
  <2>4. call'[c] = frame
    BY <2>1
  <2> QED  BY <2>3, <2>4 DEF Others
<1>2. CASE ~(Holds(call[c]) /\ ~Holds(frame))
  BY <1>2 DEF IInv, Goto, Others
<1> QED  BY <1>1, <1>2

(* A step of c takes nothing from what others are about to write.          *)
LEMMA RequestsKept ==
  ASSUME IInv, RecordInv, NEW c \in Calls, Others(c), Request(c)',
         \A d \in Calls \ {c}, p \in Procs, rec \in Dated(newest) :
           (Deleting(d, "write") \/ Checked(d)) /\ call[d].proc = p /\ Backed(p, rec)
             => Backed(p, rec)'
  PROVE  Requests'
<1>1. ASSUME NEW d \in Calls \ {c}  PROVE Request(d)'
  <2>1. Request(d)
    BY DEF RecordInv, Requests
  <2>2. CASE Deleting(d, "write")
    <3>1. /\ call'[d] = call[d] /\ ~Checked(d)'
          /\ call[d].item \in Dated(newest) /\ call[d].proc \in Procs
      BY <2>2, OthersStay, RecordTypes DEF Deleting, Checked
    <3>2. PICK p \in Procs, rec \in Dated(newest) : p = call[d].proc /\ rec = call[d].item
      BY <3>1
    <3>3. Backed(p, rec)'
      BY <2>1, <2>2, <3>2 DEF Request
    <3>4. call'[d].proc = p /\ call'[d].item = rec
      BY <3>1, <3>2
    <3> QED  BY <3>1, <3>3, <3>4 DEF Request, Backed
  <2>3. CASE Checked(d)
    <3>1. /\ call'[d] = call[d] /\ ~Deleting(d, "write")'
          /\ call[d].read \in Dated(newest) /\ call[d].proc \in Procs
      BY <2>3, OthersStay, RecordTypes DEF Deleting, Checked
    <3>2. PICK p \in Procs, rec \in Dated(newest) : p = call[d].proc /\ rec = call[d].read
      BY <3>1
    <3>3. Backed(p, rec)'
      BY <2>1, <2>3, <3>2 DEF Request
    <3>4. call'[d].proc = p /\ call'[d].read = rec
      BY <3>1, <3>2
    <3> QED  BY <3>1, <3>3, <3>4 DEF Request, Backed
  <2>4. CASE ~Deleting(d, "write") /\ ~Checked(d)
    BY <2>4, OthersStay DEF Request
  <2> QED  BY <2>2, <2>3, <2>4
<1> QED  BY <1>1 DEF Requests

(* The tags of the L1s and the frame of c after a check.                   *)
LEMMA JudgeTags ==
  ASSUME IInv, NEW c \in Calls, NEW f \in Frames, NEW v, NEW mine \in Tier(newest),
         Judge(c, f, v, mine)
  PROVE  /\ Others(c) /\ call'[c].pc \in {"expire", "expireNotify", "done"}
         /\ \A p \in Procs : Tag(p)' = IF p = f.proc THEN mine["tag"] ELSE Tag(p)
<1>1. \A frame : Goto(c, frame) => Others(c) /\ call'[c] = frame
  BY GotoOthers
<1>2. f.proc \in Procs /\ l1 \in [Procs -> Tier(newest)]
  BY DEF Frames, IInv
<1>3. \A e : [mine EXCEPT !["item"] = e]["tag"] = mine["tag"]
  BY DEF Tier, Keys
<1>4. CASE Rejects(v, f.item)
  <2>1. /\ l1' = [l1 EXCEPT ![f.proc] = [mine EXCEPT !["item"] = Expired(@)]]
        /\ Goto(c, At(f, IF hasL2 THEN "expire" ELSE "expireNotify"))
    BY <1>4 DEF Judge
  <2>2. \A stage : At(f, stage).pc = stage
    BY DEF At, Frames
  <2>3. call'[c].pc = IF hasL2 THEN "expire" ELSE "expireNotify"
    BY <1>1, <2>1, <2>2
  <2> QED  BY <1>1, <1>2, <1>3, <2>1, <2>3 DEF Tag
<1>5. CASE ~Rejects(v, f.item)
  <2>1. /\ l1' = [l1 EXCEPT ![f.proc] =
                    IF f.tier = "l2" THEN [mine EXCEPT !["item"] = f.item] ELSE mine]
        /\ Goto(c, Done)
    BY <1>5 DEF Judge
  <2>2. call'[c].pc = "done"
    BY <1>1, <2>1 DEF Done
  <2> QED  BY <1>1, <1>2, <1>3, <2>1, <2>2 DEF Tag
<1> QED  BY <1>4, <1>5

LEMMA CheckTagTags ==
  ASSUME IInv, NEW c \in Calls, NEW f \in Frames, CheckTag(c, f)
  PROVE  /\ Others(c) /\ call'[c].pc \in {"expire", "expireNotify", "done", "lock", "granted"}
         /\ \A p \in Procs : Tag(p)' = Tag(p)
<1>1. f.proc \in Procs /\ l1[f.proc] \in Tier(newest)
  BY DEF Frames, IInv
<1>2. CASE Valid(l1[f.proc]["tag"])
  <2>1. Judge(c, f, l1[f.proc]["tag"].val, l1[f.proc])
    BY <1>2 DEF CheckTag
  <2> QED  BY <1>1, <2>1, JudgeTags DEF Tag
<1>3. CASE ~Valid(l1[f.proc]["tag"])
  <2> DEFINE ahead == lock[f.proc]
  <2>1. /\ call' = [call EXCEPT ![c] = IF ahead = None THEN At(f, "granted")
                                       ELSE [At(f, "lock") EXCEPT !.ahead = ahead]]
        /\ UNCHANGED l1
    BY <1>3 DEF CheckTag
  <2> HIDE DEF ahead
  <2>2. /\ At(f, "granted").pc = "granted"
        /\ [At(f, "lock") EXCEPT !.ahead = ahead].pc = "lock"
    BY DEF At, Frames
  <2>3. /\ Others(c)
        /\ call'[c] = IF ahead = None THEN At(f, "granted")
                      ELSE [At(f, "lock") EXCEPT !.ahead = ahead]
    BY <2>1 DEF Others, IInv
  <2> QED  BY <2>1, <2>2, <2>3 DEF Tag
<1> QED  BY <1>2, <1>3

(* Calls stand still.                                                      *)
LEMMA StandingRequests ==
  ASSUME IInv, RecordInv, UNCHANGED call,
         \A p \in Procs, rec \in Dated(newest) : Backed(p, rec) => Backed(p, rec)'
  PROVE  Requests'
<1> SUFFICES ASSUME NEW c \in Calls  PROVE Request(c)'
  BY DEF Requests
<1>1. Request(c) /\ (Deleting(c, "write")' <=> Deleting(c, "write"))
      /\ (Checked(c)' <=> Checked(c))
  BY DEF RecordInv, Requests, Deleting, Checked
<1>2. Deleting(c, "write") => Backed(call[c].proc, call[c].item)'
  <2>1. ASSUME Deleting(c, "write")  PROVE Backed(call[c].proc, call[c].item)'
    <3>1. PICK p \in Procs, rec \in Dated(newest) : p = call[c].proc /\ rec = call[c].item
      BY <2>1, RecordTypes
    <3>2. Backed(p, rec)'
      BY <1>1, <2>1, <3>1 DEF Request
    <3>3. call'[c].proc = p /\ call'[c].item = rec
      BY <3>1
    <3> QED  BY <3>2, <3>3 DEF Backed
  <2> QED  BY <2>1
<1>3. Checked(c) => Backed(call[c].proc, call[c].read)'
  <2>1. ASSUME Checked(c)  PROVE Backed(call[c].proc, call[c].read)'
    <3>1. PICK p \in Procs, rec \in Dated(newest) : p = call[c].proc /\ rec = call[c].read
      BY <2>1, RecordTypes
    <3>2. Backed(p, rec)'
      BY <1>1, <2>1, <3>1 DEF Request
    <3>3. call'[c].proc = p /\ call'[c].read = rec
      BY <3>1
    <3> QED  BY <3>2, <3>3 DEF Backed
  <2> QED  BY <2>1
<1> QED  BY <1>1, <1>2, <1>3 DEF Request

(* Steps that leave the records alone.                                     *)
LEMMA SameRecords ==
  ASSUME IInv, RecordInv, UNCHANGED <<hasL2, newest, misled, call>>,
         l2'["tag"] = l2["tag"],
         \A p \in Procs : Tag(p)' = Tag(p) /\ inbox'[p]["tag"] = inbox[p]["tag"]
  PROVE  RecordInv'
<1>1. \A p \in Procs, rec \in Dated(newest) : Backed(p, rec) => Backed(p, rec)'
  BY DEF Backed, Valid
<1>2. Requests'
  BY <1>1, StandingRequests
<1>3. WithoutL2'
  BY DEF RecordInv, WithoutL2, Newest
<1>4. (Pending' <=> Pending) /\ \A p \in Procs : Coming(p)' <=> Coming(p)
  BY DEF Pending, Coming, Deleting, Announcing
<1>5. WithL2'
  BY <1>4 DEF RecordInv, WithL2, Newest, Valid
<1> QED  BY <1>2, <1>3, <1>5 DEF RecordInv

(* A step of c that writes no record: what it announced is on its way.     *)
LEMMA SideStep ==
  ASSUME IInv, RecordInv, NEW c \in Calls, Others(c), UNCHANGED <<hasL2, newest, misled>>,
         l2'["tag"] = l2["tag"],
         \A p \in Procs : /\ Tag(p)' = Tag(p)
                          /\ inbox[p]["tag"] > 0 => inbox'[p]["tag"] > 0
                          /\ Announcing(c) /\ call[c].proc # p => inbox'[p]["tag"] > 0,
         ~Deleting(c, "write"), ~Deleting(c, "write")', ~Checked(c)'
  PROVE  RecordInv'
<1>1. \A p \in Procs, rec \in Dated(newest) : Backed(p, rec) => Backed(p, rec)'
  BY DEF Backed, Valid
<1>2. Requests'
  BY <1>1, RequestsKept DEF Request
<1>3. WithoutL2'
  BY DEF RecordInv, WithoutL2, Newest
<1>4. Pending => Pending'
  <2> SUFFICES ASSUME NEW d \in Calls, Deleting(d, "write"), call[d].item.val = newest
               PROVE  Pending'
    BY DEF Pending
  <2>1. call'[d] = call[d] /\ Deleting(d, "write")'
    BY OthersStay
  <2> QED  BY <2>1 DEF Pending
<1>5. ASSUME NEW p \in Procs, Coming(p)  PROVE Coming(p)'
  <2>1. CASE inbox[p]["tag"] > 0
    BY <2>1 DEF Coming
  <2>2. ASSUME NEW d \in Calls, Deleting(d, "write") \/ Announcing(d), call[d].proc # p
        PROVE  Coming(p)'
    <3>1. CASE d = c
      BY <2>2, <3>1 DEF Coming
    <3>2. CASE d # c
      <4>1. call'[d] = call[d] /\ (Deleting(d, "write") \/ Announcing(d))'
        BY <2>2, <3>2, OthersStay
      <4> QED  BY <2>2, <4>1 DEF Coming
    <3> QED  BY <3>1, <3>2
  <2> QED  BY <1>5, <2>1, <2>2 DEF Coming
<1>6. WithL2'
  BY <1>4, <1>5 DEF RecordInv, WithL2, Newest, Valid
<1> QED  BY <1>2, <1>3, <1>6 DEF RecordInv

(* A check begins or goes on, and L2 answers.                              *)
LEMMA CheckRecords ==
  ASSUME IInv, RecordInv, NEW c \in Calls, NEW f \in Frames, CheckTag(c, f),
         call[c].pc \in {"idle", "read"},
         UNCHANGED <<hasL2, now, l2, inbox, history>>
  PROVE  RecordInv'
<1>1. /\ Others(c) /\ call'[c].pc \in {"expire", "expireNotify", "done", "lock", "granted"}
      /\ \A p \in Procs : Tag(p)' = Tag(p)
  BY CheckTagTags
<1>2. ~Deleting(c, "write") /\ ~Deleting(c, "write")' /\ ~Announcing(c) /\ ~Checked(c)'
  BY <1>1 DEF Deleting, Announcing, Checked
<1> QED  BY <1>1, <1>2, SideStep DEF history

LEMMA GetRecords ==
  ASSUME IInv, RecordInv, NEW c \in Calls, NEW p \in Procs, NEW grace \in BOOLEAN,
         Get(c, p, grace)
  PROVE  RecordInv'
<1> DEFINE f == Frame(p, "get", grace, l1[p]["item"])
<1>1. l1[p]["item"] \in Items \cup {None}
  BY TierChange DEF IInv
<1>2. f \in Frames /\ f.pc = "read"
  <2>1. f \in Frames
    BY <1>1, FrameType DEF Get
  <2> QED  BY <2>1 DEF Frame
<1>3. /\ call[c].pc = "idle"
      /\ IF Valid(f.item) THEN CheckTag(c, f)
         ELSE Goto(c, IF hasL2 THEN f ELSE Done) /\ UNCHANGED l1
      /\ UNCHANGED <<hasL2, now, l2, inbox, history>>
  BY DEF Get
<1> HIDE DEF f
<1>4. CASE Valid(f.item)
  BY <1>2, <1>3, <1>4, CheckRecords
<1>5. CASE ~Valid(f.item)
  <2>1. Others(c) /\ call'[c].pc \in {"read", "done"} /\ UNCHANGED l1
    BY <1>2, <1>3, <1>5, GotoOthers DEF Done
  <2>2. ~Deleting(c, "write") /\ ~Deleting(c, "write")' /\ ~Announcing(c) /\ ~Checked(c)'
    BY <1>3, <2>1 DEF Deleting, Announcing, Checked
  <2> QED  BY <1>3, <2>1, <2>2, SideStep DEF history, Tag
<1> QED  BY <1>4, <1>5

LEMMA TagLockRecords ==
  ASSUME IInv, RecordInv, NEW c \in Calls, TagLock(c)
  PROVE  RecordInv'
<1> DEFINE f == call[c]
           mine == l1[f.proc]
<1>1. f \in Frames /\ f.pc = "granted" /\ mine \in Tier(newest)
  BY FrameKind DEF TagLock
<1>2. /\ IF Valid(mine["tag"]) THEN Judge(c, f, mine["tag"].val, mine)
         ELSE Goto(c, [At(f, "tag") EXCEPT !.old = mine["tag"]]) /\ UNCHANGED l1
      /\ UNCHANGED <<hasL2, now, l2, inbox, history>>
  BY DEF TagLock
<1>3. /\ Others(c) /\ call'[c].pc \in {"expire", "expireNotify", "done", "tag"}
      /\ \A p \in Procs : Tag(p)' = Tag(p)
  <2>1. CASE Valid(mine["tag"])
    BY <1>1, <1>2, <2>1, JudgeTags DEF Tag
  <2>2. CASE ~Valid(mine["tag"])
    <3>1. Goto(c, [At(f, "tag") EXCEPT !.old = mine["tag"]]) /\ UNCHANGED l1
      BY <1>2, <2>2
    <3> HIDE DEF mine
    <3>2. [At(f, "tag") EXCEPT !.old = mine["tag"]].pc = "tag"
      BY <1>1 DEF At, Frames
    <3> HIDE DEF f
    <3>3. Others(c) /\ call'[c] = [At(f, "tag") EXCEPT !.old = mine["tag"]]
      BY <3>1, GotoOthers
    <3> QED  BY <3>1, <3>2, <3>3 DEF Tag
  <2> QED  BY <2>1, <2>2
<1>4. ~Deleting(c, "write") /\ ~Deleting(c, "write")' /\ ~Announcing(c) /\ ~Checked(c)'
  BY <1>1, <1>3 DEF Deleting, Announcing, Checked
<1> QED  BY <1>2, <1>3, <1>4, SideStep DEF history

LEMMA ReadRecords ==
  ASSUME IInv, RecordInv, NEW c \in Calls, Read(c)
  PROVE  RecordInv'
<1> DEFINE g == call[c]
           f == [g EXCEPT !.item = g.read, !.tier = "l2"]
<1>1. g \in Frames /\ g.pc = "read" /\ g.read # Waiting /\ g.read \in Items \cup {None}
  BY FrameKind DEF Read, Proper
<1>2. f \in Frames /\ f.proc \in Procs
  BY <1>1 DEF Frames
<1>3. /\ IF Valid(f.item) THEN CheckTag(c, f)
         ELSE /\ Goto(c, Done)
              /\ l1' = IF f.item # None /\ f.grace
                         THEN [l1 EXCEPT ![f.proc]["item"] = f.item] ELSE l1
      /\ UNCHANGED <<hasL2, now, l2, inbox, history>>
  BY DEF Read
<1> HIDE DEF f
<1>4. CASE Valid(f.item)
  BY <1>1, <1>2, <1>3, <1>4, CheckRecords
<1>5. CASE ~Valid(f.item)
  <2>1. Others(c) /\ call'[c].pc = "done"
    BY <1>3, <1>5, GotoOthers DEF Done
  <2>2. \A p \in Procs : Tag(p)' = Tag(p)
    BY <1>3, <1>5 DEF Tag, IInv, Tier, Keys
  <2>3. ~Deleting(c, "write") /\ ~Deleting(c, "write")' /\ ~Announcing(c) /\ ~Checked(c)'
    BY <1>1, <2>1 DEF Deleting, Announcing, Checked
  <2> QED  BY <1>3, <2>1, <2>2, <2>3, SideStep DEF history
<1> QED  BY <1>4, <1>5

LEMMA SetRecords ==
  ASSUME IInv, RecordInv, NEW c \in Calls, NEW p \in Procs, Set(c, p)
  PROVE  RecordInv'
<1> DEFINE f == [Frame(p, "set", FALSE, Entry(c)) EXCEPT !.pc = IF hasL2 THEN "write" ELSE "notify"]
<1>1. /\ call[c].pc = "idle" /\ l1' = [l1 EXCEPT ![p]["item"] = Entry(c)] /\ Goto(c, f)
      /\ UNCHANGED <<hasL2, now, l2, inbox, mishaps, newest, misled>>
  BY DEF Set, Store
<1>2. f.pc \in {"write", "notify"} /\ f.kind = "set"
  BY DEF Frame
<1> HIDE DEF f
<1>3. Others(c) /\ call'[c] = f
  BY <1>1, GotoOthers
<1>4. \A q \in Procs : Tag(q)' = Tag(q)
  BY <1>1 DEF Tag, IInv, Tier, Keys
<1>5. ~Deleting(c, "write") /\ ~Deleting(c, "write")' /\ ~Announcing(c) /\ ~Checked(c)'
  BY <1>1, <1>2, <1>3 DEF Deleting, Announcing, Checked
<1> QED  BY <1>1, <1>2, <1>3, <1>4, <1>5, SideStep

LEMMA AnswerRecords ==
  ASSUME IInv, RecordInv, NEW c \in Calls, AnswerRead(c) \/ ReadExpired(c)
  PROVE  RecordInv'
<1>1. call[c] \in Frames
  BY FrameKind DEF AnswerRead, ReadExpired
<1>2. CASE AnswerRead(c)
  <2>1. /\ call[c].pc \in {"read", "tag", "expire"}
        /\ UNCHANGED <<tiers, now, inbox, newest, misled>>
        /\ \E e : call' = [call EXCEPT ![c].read = e]
    BY <1>2 DEF AnswerRead
  <2>2. Others(c) /\ call'[c].pc = call[c].pc /\ call'[c].proc = call[c].proc
    BY <1>1, <2>1 DEF Others, IInv, Frames
  <2>3. ~Deleting(c, "write") /\ ~Deleting(c, "write")' /\ ~Announcing(c) /\ ~Checked(c)'
    BY <2>1, <2>2 DEF Deleting, Announcing, Checked
  <2> QED  BY <2>1, <2>2, <2>3, SideStep DEF tiers, Tag
<1>3. CASE ReadExpired(c)
  <2>1. /\ call[c].pc = "expire" /\ UNCHANGED <<tiers, now, inbox, history>>
        /\ \E stage \in {"expireNotify", "expireWrite"} :
             Goto(c, [call[c] EXCEPT !.pc = stage])
    BY <1>3 DEF ReadExpired
  <2>2. Others(c) /\ call'[c].pc \in {"expireNotify", "expireWrite"}
    <3>1. PICK stage \in {"expireNotify", "expireWrite"} :
            Goto(c, [call[c] EXCEPT !.pc = stage])
      BY <2>1
    <3>2. Others(c) /\ call'[c] = [call[c] EXCEPT !.pc = stage]
      BY <3>1, GotoOthers
    <3> QED  BY <1>1, <3>2 DEF Frames
  <2>3. ~Deleting(c, "write") /\ ~Deleting(c, "write")' /\ ~Announcing(c) /\ ~Checked(c)'
    BY <2>1, <2>2 DEF Deleting, Announcing, Checked
  <2> QED  BY <2>1, <2>2, <2>3, SideStep DEF tiers, Tag, history
<1> QED  BY <1>2, <1>3

(* Writes of items, and messages.                                          *)
LEMMA WriteItemRecords ==
  ASSUME IInv, RecordInv, NEW c \in Calls, WriteL2(c) \/ FailWrite(c), KeyOf(call[c]) = "item"
  PROVE  RecordInv'
<1> DEFINE f == call[c]
<1>1. /\ f \in Frames /\ Proper(f, newest) /\ f.pc \in {"write", "expireWrite"}
      /\ f.pc = "write" => f.kind # "deleteByTag"
  BY FrameKind DEF WriteL2, FailWrite, AwaitsWrite, KeyOf
<1>2. /\ UNCHANGED <<hasL2, l1, inbox, newest, misled>>
      /\ l2' \in {l2, [l2 EXCEPT !["item"] = Written(f)]}
      /\ \E frame : Goto(c, frame) /\ frame.pc \in {"notify", "expireNotify", "done"}
  <2>1. /\ \A stage : [f EXCEPT !.pc = stage].pc = stage
        /\ Announced(f) \in {"notify", "expireNotify"} /\ Done.pc = "done"
    BY <1>1 DEF Frames, Announced, Done
  <2>2. CASE WriteL2(c)
    BY <2>1, <2>2 DEF WriteL2
  <2>3. CASE FailWrite(c)
    <3>1. \/ Goto(c, Done) /\ UNCHANGED l1
          \/ Goto(c, [f EXCEPT !.pc = "expireNotify"]) /\ UNCHANGED l1
      BY <1>1, <2>3 DEF FailWrite
    <3> QED  BY <2>1, <2>3, <3>1 DEF FailWrite
  <2> QED  BY <2>2, <2>3
<1>3. Others(c) /\ call'[c].pc \in {"notify", "expireNotify", "done"}
  BY <1>2, GotoOthers
<1>4. l2'["tag"] = l2["tag"]
  BY <1>2 DEF IInv, Tier, Keys
<1>5. ~Deleting(c, "write") /\ ~Deleting(c, "write")' /\ ~Announcing(c) /\ ~Checked(c)'
  BY <1>1, <1>3 DEF Deleting, Announcing, Checked
<1> QED  BY <1>2, <1>3, <1>4, <1>5, SideStep DEF Tag

LEMMA NotifyRecords ==
  ASSUME IInv, RecordInv, NEW c \in Calls, Notify(c)
  PROVE  RecordInv'
<1> DEFINE f == call[c]
<1>1. /\ f \in Frames /\ Proper(f, newest) /\ f.proc \in Procs /\ l1[f.proc] \in Tier(newest)
      /\ f.pc \in {"notify", "tagNotify", "expireNotify"}
  BY FrameKind DEF Notify
<1>2. /\ Deliver(f.proc, KeyOf(f)) /\ UNCHANGED <<hasL2, now, l2, history>>
      /\ Announcing(c) => KeyOf(f) = "tag"
  BY DEF Notify, Announcing, Deleting, KeyOf
<1>3. ASSUME NEW p \in Procs
      PROVE  /\ inbox[p]["tag"] > 0 => inbox'[p]["tag"] > 0
             /\ Announcing(c) /\ f.proc # p => inbox'[p]["tag"] > 0
  <2>1. inbox[p] \in [Keys -> Nat] /\ KeyOf(f) \in Keys
    BY DEF IInv, KeyOf, Keys
  <2>2. inbox'[p] = IF p = f.proc THEN inbox[p] ELSE [inbox[p] EXCEPT ![KeyOf(f)] = @ + 1]
    BY <1>2 DEF Deliver
  <2> HIDE DEF f, KeyOf
  <2> QED  BY <1>2, <2>1, <2>2 DEF Keys
<1>4. /\ Others(c) /\ call'[c].pc \in {"done", "read", "expire", "expireNotify"}
      /\ \A p \in Procs : Tag(p)' = Tag(p)
  <2>0. \A frame : Goto(c, frame) => Others(c) /\ call'[c] = frame
    BY GotoOthers
  <2>1. Done.pc = "done" /\ At(f, "read").pc = "read"
    BY <1>1 DEF Done, At, Frames
  <2>2. CASE f.pc = "notify"
    <3>1. Goto(c, Done) /\ UNCHANGED l1
      BY <2>2 DEF Notify
    <3> QED  BY <2>0, <2>1, <3>1 DEF Tag
  <2>3. CASE f.pc = "tagNotify"
    <3>1. Judge(c, f, f.read.val, l1[f.proc])
      BY <2>3 DEF Notify
    <3>2. /\ Others(c) /\ call'[c].pc \in {"expire", "expireNotify", "done"}
          /\ \A p \in Procs : Tag(p)' = IF p = f.proc THEN l1[f.proc]["tag"] ELSE Tag(p)
      BY <1>1, <3>1, JudgeTags
    <3> QED  BY <3>2 DEF Tag
  <2>4. CASE f.pc = "expireNotify"
    <3>1. \/ Goto(c, At(f, "read")) /\ UNCHANGED l1
          \/ Goto(c, Done) /\ l1' = l1
          \/ Goto(c, Done) /\ l1' = [l1 EXCEPT ![f.proc]["item"] = f.item]
      BY <2>4 DEF Notify
    <3>2. \A p \in Procs : Tag(p)' = Tag(p)
      BY <3>1 DEF Tag, IInv, Tier, Keys
    <3> QED  BY <2>0, <2>1, <3>1, <3>2
  <2> QED  BY <1>1, <2>2, <2>3, <2>4
<1>5. ~Deleting(c, "write") /\ ~Deleting(c, "write")' /\ ~Checked(c)'
  BY <1>1, <1>4 DEF Deleting, Checked
<1> HIDE DEF f
<1> QED  BY <1>2, <1>3, <1>4, <1>5, SideStep DEF history, f

(* Steps that write a record.                                              *)
LEMMA DeleteRecords ==
  ASSUME IInv, RecordInv, NEW c \in Calls, NEW p \in Procs, DeleteByTag(c, p)
  PROVE  RecordInv'
<1> DEFINE f == [Frame(p, "deleteByTag", FALSE, Entry(now)) EXCEPT
                   !.pc = IF hasL2 THEN "write" ELSE "notify"]
<1>1. /\ call[c].pc = "idle" /\ l1' = [l1 EXCEPT ![p]["tag"] = Entry(now)] /\ Goto(c, f)
      /\ newest' = now /\ UNCHANGED <<hasL2, now, l2, inbox, mishaps>>
      /\ misled' = (misled \ {p}) \cup (IF hasL2 THEN {} ELSE Procs \ {p})
  BY DEF DeleteByTag, Store, Mislead
<1>2. /\ f.pc = (IF hasL2 THEN "write" ELSE "notify") /\ f.kind = "deleteByTag"
      /\ f.item = Entry(now) /\ f.proc = p
  BY DEF Frame
<1> HIDE DEF f
<1>3. Others(c) /\ call'[c] = f
  BY <1>1, GotoOthers
<1>4. /\ Entry(now) # None /\ Entry(now).val = now /\ Entry(now).valid
      /\ now \in Nat /\ newest \in Nat /\ newest <= now /\ now # 0
      /\ None \notin Procs
  <2>1. now \in Times
    BY DEF IInv
  <2>2. Entry(now) \in Records /\ Entry(now).val = now /\ Entry(now).valid
    BY <2>1, EntryType DEF Entry
  <2>3. Entry(now) # None
    BY <2>2, EntriesAssumption
  <2> QED  BY <2>2, <2>3, RecordTypes
<1>5. \A q \in Procs : Tag(q)' = IF q = p THEN Entry(now) ELSE Tag(q)
  BY <1>1 DEF Tag, IInv, Tier, Keys
<1>6. Request(c)'
  <2>1. call'[c].proc = p /\ call'[c].item = Entry(now) /\ ~Checked(c)'
    BY <1>2, <1>3 DEF Checked
  <2>2. Deleting(c, "write")' => hasL2'
    BY <1>1, <1>2, <1>3 DEF Deleting
  <2>3. Tag(p)'.val >= now /\ now >= now
    BY <1>4, <1>5
  <2> QED  BY <1>4, <2>1, <2>2, <2>3 DEF Request, Backed, Tag
<1>7. ASSUME NEW q \in Procs, NEW rec \in Dated(newest), Backed(q, rec)
      PROVE  Backed(q, rec)'
  <2>1. rec.val \in Nat /\ rec.val <= now
    BY <1>4, RecordTypes
  <2>2. CASE q = p
    <3>1. Tag(p)'.val >= rec.val
      BY <1>4, <1>5, <2>1
    <3> QED  BY <1>1, <1>7, <2>2, <3>1 DEF Backed
  <2>3. CASE q # p
    <3>1. Tag(q)' = Tag(q) /\ (q \in misled => q \in misled')
      BY <1>1, <1>5, <2>3
    <3> QED  BY <1>1, <1>7, <3>1 DEF Backed, Valid
  <2> QED  BY <2>2, <2>3
<1>8. Requests'
  BY <1>3, <1>6, <1>7, RequestsKept
<1>9. WithoutL2'
  <2> SUFFICES ASSUME ~hasL2
               PROVE  l2["tag"] = None /\ \A q \in Procs \ misled' : Newest(Tag(q))'
    BY <1>1 DEF WithoutL2
  <2>1. l2["tag"] = None /\ \A q \in Procs \ misled' : q = p
    BY <1>1 DEF RecordInv, WithoutL2
  <2> QED  BY <1>1, <1>4, <1>5, <2>1 DEF Newest
<1>10. WithL2'
  <2> SUFFICES ASSUME hasL2
               PROVE  /\ Pending'
                      /\ \A q \in Procs : \/ Newest(Tag(q))'
                                          \/ Valid(Tag(q)') => Coming(q)'
    BY <1>1 DEF WithL2
  <2>1. Deleting(c, "write")' /\ call'[c].item.val = newest' /\ call'[c].proc = p
    BY <1>1, <1>2, <1>3, <1>4 DEF Deleting
  <2>2. Newest(Tag(p))'
    BY <1>1, <1>4, <1>5 DEF Newest
  <2> QED  BY <2>1, <2>2 DEF Pending, Coming
<1> QED  BY <1>8, <1>9, <1>10 DEF RecordInv

(* A check takes the record of L2, or makes one, for its process.          *)
LEMMA ReadTagRecords ==
  ASSUME IInv, RecordInv, NEW c \in Calls, ReadTag(c)
  PROVE  RecordInv'
<1>1. PICK f \in Frames, p \in Procs :
        /\ f = call[c] /\ p = f.proc /\ Proper(f, newest) /\ f.pc = "tag"
        /\ newest \in Times /\ now \in Times /\ l1[p] \in Tier(newest)
  BY FrameKind DEF ReadTag, IInv
<1> DEFINE found == Valid(f.read)
           rec == IF found THEN f.read ELSE Entry(TagFactory(f.old, f.read))
           mine == [l1[p] EXCEPT !["tag"] = rec]
           astray == \/ f.read # l2["tag"] \/ Tag(p) # f.old \/ Recording(p)
                     \/ ~hasL2 /\ p \in misled
                     \/ f.read # None /\ rec.val < f.read.val
<1>2. /\ f.old \in Dated(newest) \cup {None} /\ f.read \in Dated(newest) \cup {None}
      /\ f.kind = "get"
  <2>1. f.read # Waiting
    BY <1>1 DEF ReadTag
  <2> QED  BY <1>1, <2>1 DEF Proper
<1>3. /\ IF found \/ rec.val = 0 THEN Judge(c, f, rec.val, mine)
         ELSE /\ l1' = [l1 EXCEPT ![p] = mine]
              /\ Goto(c, [f EXCEPT !.read = rec,
                            !.pc = IF hasL2 THEN "tagWrite" ELSE "tagNotify"])
      /\ misled' = IF astray THEN misled \cup {p} ELSE misled \ {p}
      /\ UNCHANGED <<hasL2, now, l2, inbox, mishaps, newest>>
  BY <1>1 DEF ReadTag, Mislead, Tag
<1>4. rec \in Dated(newest) /\ rec.valid /\ (~found => rec.val = TagFactory(f.old, f.read))
  <2>1. CASE found
    BY <1>2, <2>1 DEF Valid
  <2>2. CASE ~found
    <3>1. TagFactory(f.old, f.read) \in Times /\ TagFactory(f.old, f.read) <= newest
      <4>1. 0 \in Times /\ 0 <= newest
        BY <1>1, Constants DEF Times
      <4>2. \A e \in Dated(newest) : e.val \in Times /\ e.val <= newest
        BY DEF Dated, Records
      <4> QED  BY <1>2, <4>1, <4>2 DEF TagFactory
    <3>2. /\ Entry(TagFactory(f.old, f.read)) \in Records
          /\ Entry(TagFactory(f.old, f.read)).val = TagFactory(f.old, f.read)
          /\ Entry(TagFactory(f.old, f.read)).valid
      BY <3>1, EntryType DEF Entry
    <3> QED  BY <2>2, <3>1, <3>2 DEF Dated
  <2> QED  BY <2>1, <2>2
<1>5. mine \in Tier(newest) /\ mine["tag"] = rec
  BY <1>1, <1>4, TierChange DEF Tier, Keys
<1>6. rec # None /\ rec.val \in Nat /\ rec.val <= newest /\ newest \in Nat /\ None \notin Procs
  BY <1>4, RecordTypes, EntriesAssumption
<1> HIDE DEF rec, mine, astray
<1>7. /\ Others(c)
      /\ call'[c].pc \in {"expire", "expireNotify", "done", "tagWrite", "tagNotify"}
      /\ \A q \in Procs : Tag(q)' = IF q = p THEN rec ELSE Tag(q)
      /\ call'[c].pc \in {"tagWrite", "tagNotify"} => call'[c].proc = p /\ call'[c].read = rec
      /\ call'[c].pc = "tagWrite" => hasL2
  <2>1. CASE found \/ rec.val = 0
    <3>1. Judge(c, f, rec.val, mine)
      BY <1>3, <2>1
    <3>2. /\ Others(c) /\ call'[c].pc \in {"expire", "expireNotify", "done"}
          /\ \A q \in Procs : Tag(q)' = IF q = p THEN mine["tag"] ELSE Tag(q)
      BY <1>1, <1>5, <3>1, JudgeTags
    <3> QED  BY <1>5, <3>2
  <2>2. CASE ~(found \/ rec.val = 0)
    <3> DEFINE stage == IF hasL2 THEN "tagWrite" ELSE "tagNotify"
               g == [f EXCEPT !.read = rec, !.pc = stage]
    <3>1. g.pc = stage /\ g.proc = p /\ g.read = rec
      BY <1>1 DEF Frames
    <3>2. l1' = [l1 EXCEPT ![p] = mine] /\ Goto(c, g)
      BY <1>3, <2>2
    <3> HIDE DEF g
    <3>3. Others(c) /\ call'[c] = g
      BY <3>2, GotoOthers
    <3>4. \A q \in Procs : Tag(q)' = IF q = p THEN rec ELSE Tag(q)
      BY <1>1, <1>5, <3>2 DEF Tag, IInv
    <3> QED  BY <3>1, <3>3, <3>4
  <2> QED  BY <2>1, <2>2
<1>8. ASSUME NEW d \in Calls \ {c}, Deleting(d, "write") \/ Checked(d), call[d].proc = p
      PROVE  p \in misled'
  BY <1>3, <1>8 DEF Deleting, Checked, Recording, astray
<1>9. ~Deleting(c, "write") /\ ~Deleting(c, "write")' /\ ~Announcing(c)
  BY <1>1, <1>7 DEF Deleting, Announcing
<1>10. Request(c)'
  <2> SUFFICES ASSUME Checked(c)'  PROVE Backed(call[c].proc, call[c].read)'
    BY <1>9 DEF Request
  <2>1. hasL2 /\ call'[c].proc = p /\ call'[c].read = rec
    BY <1>7 DEF Checked
  <2>2. Tag(p)'.val >= rec.val
    BY <1>1, <1>6, <1>7
  <2> QED  BY <1>3, <1>4, <2>1, <2>2 DEF Backed, Tag
<1>11. Requests'
  <2>1. ASSUME NEW d \in Calls \ {c}, NEW q \in Procs, NEW r \in Dated(newest),
               Deleting(d, "write") \/ Checked(d), call[d].proc = q, Backed(q, r)
        PROVE  Backed(q, r)'
    <3>1. CASE q = p
      <4>1. q \in misled'
        BY <1>8, <2>1, <3>1
      <4> QED  BY <1>3, <2>1, <4>1 DEF Backed
    <3>2. CASE q # p
      <4>1. Tag(q)' = Tag(q) /\ (q \in misled => q \in misled')
        BY <1>3, <1>7, <3>2
      <4> QED  BY <1>3, <2>1, <4>1 DEF Backed, Valid
    <3> QED  BY <3>1, <3>2
  <2> QED  BY <1>7, <1>10, <2>1, RequestsKept
<1>12. ASSUME NEW q \in Procs, q # p
       PROVE  (q \notin misled' => q \notin misled) /\ (Coming(q) => Coming(q)')
  <2>1. q \notin misled' => q \notin misled
    BY <1>3, <1>12
  <2>2. \A d \in Calls : Deleting(d, "write") \/ Announcing(d)
          => call'[d] = call[d] /\ (Deleting(d, "write") \/ Announcing(d))'
    BY <1>7, <1>9, OthersStay
  <2> QED  BY <1>3, <2>1, <2>2 DEF Coming
<1>13. p \notin misled' => /\ f.read = l2["tag"] /\ Tag(p) = f.old /\ ~Recording(p)
                           /\ ~hasL2 => p \notin misled
                           /\ f.read # None => ~(rec.val < f.read.val)
  BY <1>3 DEF astray
<1>14. WithoutL2'
  <2> SUFFICES ASSUME ~hasL2
               PROVE  /\ l2["tag"] = None
                      /\ newest # 0 => \A q \in Procs \ misled' : Newest(Tag(q))'
    BY <1>3 DEF WithoutL2
  <2>1. l2["tag"] = None
    BY DEF RecordInv, WithoutL2
  <2>2. ASSUME newest # 0, p \notin misled'  PROVE Newest(Tag(p))'
    <3>1. Newest(Tag(p))
      BY <1>1, <1>13, <2>2 DEF RecordInv, WithoutL2
    <3>2. rec.val = f.old.val
      BY <1>4, <1>13, <2>1, <2>2, <3>1 DEF Valid, TagFactory, Newest
    <3> QED  BY <1>1, <1>3, <1>6, <1>7, <1>13, <2>2, <3>1, <3>2 DEF Newest
  <2>3. ASSUME newest # 0, NEW q \in Procs \ misled', q # p  PROVE Newest(Tag(q))'
    BY <1>3, <1>7, <1>12, <2>3 DEF RecordInv, WithoutL2, Newest
  <2> QED  BY <2>1, <2>2, <2>3
<1>15. WithL2'
  <2> SUFFICES ASSUME hasL2, None \notin misled
               PROVE  /\ newest = 0 \/ Newest(l2["tag"]) \/ Pending'
                      /\ \A q \in Procs \ misled' :
                           \/ Tag(q)' = None \/ Newest(Tag(q))'
                           \/ (Valid(l2["tag"]) \/ Pending') /\ (Valid(Tag(q)') => Coming(q)')
    BY <1>1, <1>3, <1>6 DEF WithL2, Newest, Valid
  <2>1. Pending => Pending'
    <3>1. \A d \in Calls : Deleting(d, "write") => call'[d] = call[d] /\ Deleting(d, "write")'
      BY <1>7, <1>9, OthersStay
    <3> QED  BY <1>3, <3>1 DEF Pending
  <2>2. newest = 0 \/ Newest(l2["tag"]) \/ Pending
    BY DEF RecordInv, WithL2
  <2>3. ASSUME p \notin misled'
        PROVE  Newest(Tag(p))' \/ (Pending' /\ Coming(p)')
    <3>1. CASE newest = 0 \/ Newest(l2["tag"])
      <4>1. rec.val = newest
        BY <1>2, <1>6, <1>13, <2>3, <3>1, RecordTypes DEF Newest
      <4> QED  BY <1>1, <1>3, <1>6, <1>7, <4>1 DEF Newest
    <3>2. CASE Pending
      <4>1. PICK d \in Calls : Deleting(d, "write") /\ call[d].item.val = newest
        BY <3>2 DEF Pending
      <4>2. d # c /\ call[d].proc # p
        BY <1>9, <1>13, <2>3, <4>1 DEF Recording, Deleting
      <4>3. call'[d] = call[d] /\ Deleting(d, "write")'
        BY <1>7, <4>1, <4>2, OthersStay
      <4> QED  BY <2>1, <3>2, <4>2, <4>3 DEF Coming
    <3> QED  BY <2>2, <3>1, <3>2
  <2>4. ASSUME NEW q \in Procs \ misled', q # p
        PROVE  \/ Tag(q)' = None \/ Newest(Tag(q))'
               \/ (Valid(l2["tag"]) \/ Pending') /\ (Valid(Tag(q)') => Coming(q)')
    <3>0. q \in Procs /\ q # p /\ q \notin misled'
      BY <2>4
    <3>1. q \notin misled /\ (Coming(q) => Coming(q)')
      BY <1>12, <3>0
    <3>2. Tag(q)' = Tag(q)
      BY <1>7, <3>0
    <3> QED  BY <1>3, <2>1, <3>0, <3>1, <3>2 DEF RecordInv, WithL2, Newest
  <2> QED  BY <2>1, <2>2, <2>3, <2>4
<1> QED  BY <1>11, <1>14, <1>15 DEF RecordInv

(* The record of a deleteByTag or of a check reaches L2.                   *)
LEMMA WriteTagType ==
  ASSUME IInv, RecordInv, NEW c \in Calls, AwaitsWrite(c), KeyOf(call[c]) = "tag"
  PROVE  LET f == call[c] IN
         /\ hasL2 /\ f \in Frames /\ f.proc \in Procs
         /\ Written(f) \in Dated(newest) /\ Written(f) # None /\ Written(f).valid
         /\ \/ Deleting(c, "write") /\ Written(f) = f.item
            \/ f.pc = "tagWrite" /\ Written(f) = f.read
<1> DEFINE f == call[c]
<1>1. f \in Frames /\ Proper(f, newest) /\ f.pc \in {"write", "tagWrite", "expireWrite"}
  BY FrameKind DEF AwaitsWrite
<1>2. f.proc \in Procs
  BY <1>1 DEF Frames
<1>3. \/ Deleting(c, "write") /\ Written(f) = f.item
      \/ f.pc = "tagWrite" /\ Written(f) = f.read
  <2>1. f.pc = "expireWrite" => f.kind = "get"
    BY <1>1 DEF Proper
  <2> QED  BY <1>1, <2>1 DEF KeyOf, Deleting, Written
<1>4. hasL2 /\ Written(f) \in Dated(newest) /\ Written(f).valid
  BY <1>3, RecordTypes DEF RecordInv, Requests, Request, Backed, Checked
<1>5. Written(f) # None
  BY <1>4, EntriesAssumption DEF Dated
<1> QED  BY <1>1, <1>2, <1>3, <1>4, <1>5

LEMMA WriteRecords ==
  ASSUME IInv, RecordInv, NEW c \in Calls, WriteL2(c), KeyOf(call[c]) = "tag"
  PROVE  RecordInv'
<1>1. PICK f \in Frames, e \in Dated(newest) :
        /\ f = call[c] /\ e = Written(f) /\ f.proc \in Procs
        /\ hasL2 /\ e # None /\ e.valid
        /\ \/ Deleting(c, "write") /\ e = f.item
           \/ f.pc = "tagWrite" /\ e = f.read
  BY WriteTagType DEF WriteL2
<1>2. /\ l2' = [l2 EXCEPT !["tag"] = e]
      /\ Goto(c, [f EXCEPT !.pc = Announced(f)])
      /\ misled' = IF e.val < newest THEN misled \cup {None} ELSE misled \ {None}
      /\ UNCHANGED <<hasL2, now, l1, inbox, mishaps, newest>>
  BY <1>1 DEF WriteL2, Mislead
<1>3. /\ Others(c) /\ call'[c].proc = f.proc /\ call'[c].read = f.read
      /\ Deleting(c, "write") => Deleting(c, "notify")'
      /\ f.pc = "tagWrite" => call'[c].pc = "tagNotify"
      /\ call'[c].pc \in {"notify", "tagNotify"}
  <2>1. Others(c) /\ call'[c] = [f EXCEPT !.pc = Announced(f)]
    BY <1>2, GotoOthers
  <2> QED  BY <1>1, <2>1 DEF Frames, Announced, Deleting
<1>4. l2'["tag"] = e /\ newest \in Nat /\ e.val \in Nat /\ e.val <= newest /\ None \notin Procs
  BY <1>2, RecordTypes DEF IInv, Tier, Keys
<1>5. ~Deleting(c, "write")' /\ Announcing(c)' /\ ~Checked(c)'
  BY <1>1, <1>3 DEF Deleting, Announcing, Checked
<1>7. \A q \in Procs : q \in misled' <=> q \in misled
  BY <1>2, <1>4
<1>8. Requests'
  <2>1. \A q \in Procs, rec \in Dated(newest) : Backed(q, rec) => Backed(q, rec)'
    BY <1>2, <1>7 DEF Backed, Tag, Valid
  <2>2. Request(c)'
    BY <1>5 DEF Request
  <2> QED  BY <1>3, <2>1, <2>2, RequestsKept
<1>9. WithoutL2'
  BY <1>1, <1>2 DEF WithoutL2
<1>10. WithL2'
  <2> SUFFICES ASSUME None \notin misled'
               PROVE  /\ Newest(l2["tag"])'
                      /\ \A q \in Procs \ misled' :
                           \/ Tag(q)' = None \/ Newest(Tag(q))'
                           \/ Valid(l2["tag"])' /\ (Valid(Tag(q)) => Coming(q)')
    BY <1>2 DEF WithL2, Valid, Tag
  <2>1. e.val = newest
    BY <1>2, <1>4
  <2>2. Newest(l2["tag"])' /\ Valid(l2["tag"])'
    BY <1>1, <1>2, <1>4, <2>1 DEF Newest, Valid
  <2>3. ASSUME NEW q \in Procs \ misled', q # f.proc  PROVE Coming(q)'
    BY <1>3, <1>5, <2>3 DEF Coming
  <2>4. ASSUME f.proc \notin misled'
        PROVE  Tag(f.proc) = None \/ Newest(Tag(f.proc)) \/ ~Valid(Tag(f.proc))
    <3>1. f.proc \notin misled
      BY <1>1, <1>7, <2>4
    <3>2. Tag(f.proc) = None \/ ~Valid(Tag(f.proc)) \/ Tag(f.proc).val >= e.val
      BY <1>1, <3>1 DEF RecordInv, Requests, Request, Backed, Checked, Deleting
    <3> QED  BY <1>1, <1>4, <2>1, <3>2, RecordTypes DEF Newest
  <2>5. \A q \in Procs : Tag(q)' = Tag(q)
    BY <1>2 DEF Tag
  <2>6. \A q \in Procs : Newest(Tag(q))' <=> Newest(Tag(q))
    BY <1>2 DEF Tag, Newest
  <2> QED  BY <2>2, <2>3, <2>4, <2>5, <2>6
<1> QED  BY <1>8, <1>9, <1>10 DEF RecordInv

LEMMA FailRecords ==
  ASSUME IInv, RecordInv, NEW c \in Calls, FailWrite(c), KeyOf(call[c]) = "tag"
  PROVE  RecordInv'
<1>1. PICK f \in Frames : 
        /\ f = call[c] /\ f.proc \in Procs /\ hasL2
        /\ \/ Deleting(c, "write") \/ f.pc = "tagWrite"
  BY WriteTagType DEF FailWrite
<1>2. /\ misled' = misled \cup (IF f.pc = "write" THEN Procs \ {f.proc} ELSE {}) \cup {None}
      /\ CASE f.pc = "write" -> Goto(c, Done) /\ UNCHANGED l1
           [] f.pc = "tagWrite" -> Judge(c, f, f.read.val, l1[f.proc])
           [] OTHER -> Goto(c, [f EXCEPT !.pc = "expireNotify"]) /\ UNCHANGED l1
      /\ UNCHANGED <<hasL2, now, inbox, newest>>
  BY <1>1 DEF FailWrite, Mislead
<1>3. /\ Others(c) /\ call'[c].pc \in {"expire", "expireNotify", "done"}
      /\ \A q \in Procs : Tag(q)' = Tag(q)
  <2>1. CASE f.pc = "write"
    <3>1. Goto(c, Done) /\ UNCHANGED l1
      BY <1>2, <2>1
    <3> QED  BY <3>1, GotoOthers DEF Done, Tag
  <2>2. CASE f.pc = "tagWrite"
    <3>1. Judge(c, f, f.read.val, l1[f.proc])
      BY <1>2, <2>2
    <3>2. l1[f.proc] \in Tier(newest)
      BY <1>1 DEF IInv
    <3>3. /\ Others(c) /\ call'[c].pc \in {"expire", "expireNotify", "done"}
          /\ \A q \in Procs : Tag(q)' = IF q = f.proc THEN l1[f.proc]["tag"] ELSE Tag(q)
      BY <3>1, <3>2, JudgeTags
    <3> QED  BY <3>3 DEF Tag
  <2> QED  BY <1>1, <2>1, <2>2 DEF Deleting
<1>4. Request(c)'
  BY <1>3 DEF Request, Deleting, Checked
<1>5. Requests'
  <2>1. \A q \in Procs, rec \in Dated(newest) : Backed(q, rec) => Backed(q, rec)'
    BY <1>2, <1>3 DEF Backed, Valid
  <2> QED  BY <1>3, <1>4, <2>1, RequestsKept
<1>6. WithoutL2' /\ WithL2'
  BY <1>1, <1>2 DEF WithoutL2, WithL2
<1> QED  BY <1>5, <1>6 DEF RecordInv

(* A step in which calls stand still and records are expired or lost.      *)
LEMMA Weakened ==
  ASSUME IInv, RecordInv, UNCHANGED <<hasL2, newest, call>>,
         \A p \in Procs : Tag(p)' \in {Tag(p), Expired(Tag(p)), None},
         \A p \in Procs : p \in misled => p \in misled' \/ ~Valid(Tag(p)')
  PROVE  Requests'
<1>1. ASSUME NEW p \in Procs, NEW rec \in Dated(newest), Backed(p, rec)
      PROVE  Backed(p, rec)'
  <2>1. Tag(p) # None => Tag(p) \in Records
    BY RecordTypes
  <2>2. Valid(Tag(p)') => Tag(p)' = Tag(p)
    BY <2>1 DEF Expired, Valid, Records
  <2> QED  BY <1>1, <2>2 DEF Backed, Valid
<1> QED  BY <1>1, StandingRequests

LEMMA MessageRecords ==
  ASSUME IInv, RecordInv, NEW p \in Procs, OnMessage(p)
  PROVE  RecordInv'
<1>1. PICK k \in Keys :
        /\ inbox' = [inbox EXCEPT ![p][k] = @ - 1]
        /\ l1' = [l1 EXCEPT ![p][k] = Expired(@)]
        /\ IF k = "tag" /\ Valid(l2["tag"]) THEN misled' = misled \ {p} ELSE UNCHANGED misled
        /\ UNCHANGED <<hasL2, now, l2, call, mishaps, newest>>
  BY DEF OnMessage, Mislead
<1>2. CASE k = "item"
  <2>1. \A q \in Procs : Tag(q)' = Tag(q) /\ inbox'[q]["tag"] = inbox[q]["tag"]
    BY <1>1, <1>2 DEF Tag, IInv, Tier, Keys
  <2> QED  BY <1>1, <1>2, <2>1, SameRecords
<1>3. CASE k = "tag"
  <2>1. \A q \in Procs : /\ Tag(q)' = IF q = p THEN Expired(Tag(q)) ELSE Tag(q)
                         /\ q # p => inbox'[q]["tag"] = inbox[q]["tag"]
    BY <1>1, <1>3 DEF Tag, IInv, Tier, Keys
  <2>2. \A q \in Procs : ~Valid(Expired(Tag(q))) /\ (Newest(Tag(q)) => Newest(Expired(Tag(q))))
                         /\ Expired(None) = None
    <3> SUFFICES ASSUME NEW q \in Procs
                 PROVE  ~Valid(Expired(Tag(q))) /\ (Newest(Tag(q)) => Newest(Expired(Tag(q))))
                        /\ Expired(None) = None
      OBVIOUS
    <3>1. Tag(q) # None => Tag(q) \in Records
      BY RecordTypes
    <3>2. Tag(q) # None => Expired(Tag(q)) \in Records
      BY <3>1 DEF Expired, Records
    <3> QED  BY <3>1, <3>2, EntriesAssumption DEF Expired, Valid, Newest, Records
  <2>3. Requests'
    <3>1. \A q \in Procs : Tag(q)' \in {Tag(q), Expired(Tag(q)), None}
      BY <2>1
    <3>2. ASSUME NEW q \in Procs, q \in misled  PROVE q \in misled' \/ ~Valid(Tag(q)')
      <4>1. CASE q = p
        BY <2>1, <2>2, <4>1
      <4>2. CASE q # p
        BY <1>1, <3>2, <4>2
      <4> QED  BY <4>1, <4>2
    <3> QED  BY <1>1, <3>1, <3>2, Weakened
  <2>4. WithoutL2'
    <3>1. ASSUME ~hasL2, newest # 0, NEW q \in Procs \ misled'  PROVE Newest(Tag(q))'
      <4>1. UNCHANGED misled
        BY <1>1, <3>1 DEF RecordInv, WithoutL2, Valid
      <4>2. Newest(Tag(q))
        BY <3>1, <4>1 DEF RecordInv, WithoutL2
      <4> QED  BY <1>1, <2>1, <2>2, <3>1, <4>2 DEF Newest
    <3> QED  BY <1>1, <3>1 DEF RecordInv, WithoutL2
  <2>5. WithL2'
    <3> SUFFICES ASSUME hasL2, None \notin misled'
                 PROVE  /\ newest = 0 \/ Newest(l2["tag"]) \/ Pending'
                        /\ \A q \in Procs \ misled' :
                             \/ Tag(q)' = None \/ Newest(Tag(q))'
                             \/ (Valid(l2["tag"]) \/ Pending') /\ (Valid(Tag(q))' => Coming(q)')
      BY <1>1 DEF WithL2, Valid, Newest
    <3>1. None \notin misled
      BY <1>1, RecordTypes
    <3>2. Pending' <=> Pending
      BY <1>1 DEF Pending, Deleting
    <3>3. ASSUME NEW q \in Procs, q # p
          PROVE  /\ Coming(q)' <=> Coming(q)
                 /\ q \in misled' <=> q \in misled
                 /\ Tag(q)' = Tag(q) /\ (Newest(Tag(q))' <=> Newest(Tag(q)))
                 /\ Valid(Tag(q))' <=> Valid(Tag(q))
      <4>1. Tag(q)' = Tag(q) /\ inbox'[q]["tag"] = inbox[q]["tag"]
        BY <2>1, <3>3
      <4>2. q \in misled' <=> q \in misled
        BY <1>1, <3>3
      <4> QED  BY <1>1, <4>1, <4>2 DEF Coming, Newest, Valid, Deleting, Announcing
    <3>4. ASSUME p \notin misled'
          PROVE  \/ Tag(p)' = None \/ Newest(Tag(p))'
                 \/ (Valid(l2["tag"]) \/ Pending) /\ ~Valid(Tag(p))'
      <4>1. Tag(p)' = Expired(Tag(p)) /\ ~Valid(Tag(p))'
        BY <2>1, <2>2 DEF Valid
      <4>2. CASE Valid(l2["tag"])
        BY <4>1, <4>2
      <4>3. CASE ~Valid(l2["tag"])
        <5>1. p \notin misled
          BY <1>1, <3>4, <4>3
        <5>2. Tag(p) = None \/ Newest(Tag(p)) \/ Pending
          BY <3>1, <4>3, <5>1 DEF RecordInv, WithL2
        <5>3. Newest(Tag(p)) => Newest(Tag(p))'
          BY <1>1, <2>1, <2>2 DEF Newest
        <5> QED  BY <2>2, <4>1, <5>2, <5>3
      <4> QED  BY <4>2, <4>3
    <3>5. newest = 0 \/ Newest(l2["tag"]) \/ Pending
      BY <3>1 DEF RecordInv, WithL2
    <3>6. ASSUME NEW q \in Procs \ misled'
          PROVE  \/ Tag(q)' = None \/ Newest(Tag(q))'
                 \/ (Valid(l2["tag"]) \/ Pending') /\ (Valid(Tag(q))' => Coming(q)')
      <4>1. CASE q = p
        BY <3>2, <3>4, <3>6, <4>1
      <4>2. CASE q # p
        <5>1. \/ Tag(q) = None \/ Newest(Tag(q))
              \/ (Valid(l2["tag"]) \/ Pending) /\ (Valid(Tag(q)) => Coming(q))
          BY <3>1, <3>3, <3>6, <4>2 DEF RecordInv, WithL2
        <5> QED  BY <3>2, <3>3, <4>2, <5>1
      <4> QED  BY <4>1, <4>2
    <3> QED  BY <3>2, <3>5, <3>6
  <2> QED  BY <2>3, <2>4, <2>5 DEF RecordInv
<1> QED  BY <1>2, <1>3 DEF Keys

LEMMA LoseRecords ==
  ASSUME IInv, RecordInv, Lose  PROVE RecordInv'
<1>0. \/ /\ l2["tag"] # None /\ l2' = [l2 EXCEPT !["tag"] = None]
         /\ misled' = misled \cup {None} /\ UNCHANGED l1
      \/ \E p \in Procs : /\ l1' = [l1 EXCEPT ![p]["tag"] = None] /\ UNCHANGED l2
                          /\ misled' = misled \cup (IF hasL2 THEN {} ELSE {p})
  BY DEF Lose, Mislead
<1>1. UNCHANGED <<hasL2, now, inbox, call, newest>>
  BY DEF Lose
<1>2. CASE /\ l2["tag"] # None /\ l2' = [l2 EXCEPT !["tag"] = None]
           /\ misled' = misled \cup {None} /\ UNCHANGED l1
  <2>1. hasL2
    BY <1>2 DEF RecordInv, WithoutL2
  <2>2. Requests'
    <3>1. \A p \in Procs : Tag(p)' \in {Tag(p), Expired(Tag(p)), None}
      BY <1>2 DEF Tag
    <3>2. \A p \in Procs : p \in misled => p \in misled' \/ ~Valid(Tag(p)')
      BY <1>2
    <3> QED  BY <1>1, <3>1, <3>2, Weakened
  <2>3. WithoutL2' /\ WithL2'
    BY <1>1, <1>2, <2>1 DEF WithoutL2, WithL2
  <2> QED  BY <2>2, <2>3 DEF RecordInv
<1>3. CASE \E p \in Procs : /\ l1' = [l1 EXCEPT ![p]["tag"] = None] /\ UNCHANGED l2
                            /\ misled' = misled \cup (IF hasL2 THEN {} ELSE {p})
  <2>1. PICK p \in Procs : /\ l1' = [l1 EXCEPT ![p]["tag"] = None] /\ UNCHANGED l2
                           /\ misled' = misled \cup (IF hasL2 THEN {} ELSE {p})
    BY <1>3
  <2>2. \A q \in Procs : Tag(q)' = IF q = p THEN None ELSE Tag(q)
    BY <2>1 DEF Tag, IInv, Tier, Keys
  <2>3. Requests'
    <3>1. \A q \in Procs : Tag(q)' \in {Tag(q), Expired(Tag(q)), None}
      BY <2>2
    <3>2. \A q \in Procs : q \in misled => q \in misled' \/ ~Valid(Tag(q)')
      BY <2>1
    <3> QED  BY <1>1, <3>1, <3>2, Weakened
  <2>4. WithoutL2'
    <3>1. ASSUME ~hasL2, newest # 0, NEW q \in Procs \ misled'  PROVE Newest(Tag(q))'
      <4>1. q # p /\ q \notin misled
        BY <2>1, <3>1
      <4> QED  BY <1>1, <2>2, <3>1, <4>1 DEF RecordInv, WithoutL2, Newest
    <3> QED  BY <1>1, <2>1, <3>1 DEF RecordInv, WithoutL2
  <2>5. WithL2'
    <3> SUFFICES ASSUME hasL2, None \notin misled'
                 PROVE  /\ newest = 0 \/ Newest(l2["tag"]) \/ Pending
                        /\ \A q \in Procs \ misled' :
                             \/ Tag(q)' = None \/ Newest(Tag(q))'
                             \/ (Valid(l2["tag"]) \/ Pending) /\ (Valid(Tag(q))' => Coming(q)')
      BY <1>1, <2>1 DEF WithL2, Valid, Newest, Pending, Deleting
    <3>1. misled' = misled
      BY <2>1
    <3>2. ASSUME NEW q \in Procs \ misled', q # p
          PROVE  \/ Tag(q)' = None \/ Newest(Tag(q))'
                 \/ (Valid(l2["tag"]) \/ Pending) /\ (Valid(Tag(q))' => Coming(q)')
      <4>1. /\ Tag(q)' = Tag(q) /\ (Newest(Tag(q))' <=> Newest(Tag(q)))
            /\ (Valid(Tag(q))' <=> Valid(Tag(q))) /\ (Coming(q)' <=> Coming(q))
        <5>1. Tag(q)' = Tag(q)
          BY <2>2, <3>2
        <5> QED  BY <1>1, <5>1 DEF Newest, Valid, Coming, Deleting, Announcing
      <4> QED  BY <3>1, <3>2, <4>1 DEF RecordInv, WithL2
    <3> QED  BY <2>2, <3>1, <3>2 DEF RecordInv, WithL2
  <2> QED  BY <2>3, <2>4, <2>5 DEF RecordInv
<1> QED  BY <1>0, <1>2, <1>3

LEMMA AgeRecords ==
  ASSUME IInv, RecordInv, Age  PROVE RecordInv'
<1>1. /\ UNCHANGED <<hasL2, now, inbox, call, newest>>
      /\ misled' = misled \cup {p \in Procs : Tag(p) # None /\ Tag(p).val < newest}
  BY DEF Age, Mislead, Tag
<1>2. /\ \A p \in Procs : Tag(p)' = Expired(Tag(p))
      /\ l2'["tag"] = Expired(l2["tag"])
  BY DEF Age, Tag, IInv, Tier, Keys
<1>3. /\ \A p \in Procs : /\ ~Valid(Expired(Tag(p)))
                          /\ Newest(Tag(p)) => Newest(Expired(Tag(p)))
      /\ Newest(l2["tag"]) => Newest(Expired(l2["tag"]))
      /\ Expired(None) = None
  <2>1. \A e \in Records : ~Valid(Expired(e)) /\ (Newest(e) => Newest(Expired(e)))
    <3> SUFFICES ASSUME NEW e \in Records
                 PROVE  ~Valid(Expired(e)) /\ (Newest(e) => Newest(Expired(e)))
      OBVIOUS
    <3>1. e # None /\ Expired(e) \in Records /\ Expired(e).val = e.val /\ ~Expired(e).valid
      BY EntriesAssumption DEF Expired, Records
    <3>2. Expired(e) # None
      BY <3>1, EntriesAssumption
    <3> QED  BY <3>1, <3>2 DEF Valid, Newest
  <2>2. ~Valid(Expired(None)) /\ ~Newest(None) /\ Expired(None) = None
    BY DEF Expired, Valid, Newest
  <2>3. /\ \A p \in Procs : Tag(p) # None => Tag(p) \in Records
        /\ l2["tag"] # None => l2["tag"] \in Records
    BY RecordTypes
  <2> QED  BY <2>1, <2>2, <2>3
<1>4. Requests'
  <2>1. \A p \in Procs : Tag(p)' \in {Tag(p), Expired(Tag(p)), None}
    BY <1>2
  <2>2. \A p \in Procs : p \in misled => p \in misled' \/ ~Valid(Tag(p)')
    BY <1>1
  <2> QED  BY <1>1, <2>1, <2>2, Weakened
<1>5. WithoutL2'
  <2>1. ~hasL2 => l2'["tag"] = None
    BY <1>2, <1>3 DEF RecordInv, WithoutL2
  <2>2. ASSUME ~hasL2, newest # 0, NEW q \in Procs \ misled'  PROVE Newest(Tag(q))'
    BY <1>1, <1>2, <1>3, <2>2 DEF RecordInv, WithoutL2, Newest
  <2> QED  BY <1>1, <2>1, <2>2 DEF WithoutL2
<1>6. WithL2'
  <2> SUFFICES ASSUME hasL2, None \notin misled'
               PROVE  /\ newest = 0 \/ Newest(l2["tag"])' \/ Pending'
                      /\ \A q \in Procs \ misled' : Tag(q)' = None \/ Newest(Tag(q))'
    BY <1>1 DEF WithL2, Newest
  <2>1. newest = 0 \/ Newest(l2["tag"]) \/ Pending
    BY <1>1 DEF RecordInv, WithL2
  <2>2. (Newest(l2["tag"]) => Newest(l2["tag"])') /\ (Pending => Pending')
    BY <1>1, <1>2, <1>3 DEF Newest, Pending, Deleting
  <2>3. ASSUME NEW q \in Procs \ misled'  PROVE Tag(q)' = None \/ Newest(Tag(q))'
    <3>1. Tag(q) = None \/ Newest(Tag(q))
      <4>1. Tag(q) # None => Tag(q).val \in Nat /\ Tag(q).val <= newest /\ newest \in Nat
        BY RecordTypes
      <4> QED  BY <1>1, <2>3, <4>1 DEF Newest
    <3> QED  BY <1>1, <1>2, <1>3, <3>1 DEF Newest
  <2> QED  BY <2>1, <2>2, <2>3
<1> QED  BY <1>4, <1>5, <1>6 DEF RecordInv

LEMMA InitRecords == Init => RecordInv
<1> SUFFICES ASSUME Init  PROVE RecordInv
  OBVIOUS
<1>1. /\ \A c \in Calls : call[c].pc = "idle"
      /\ newest = 0 /\ misled = {} /\ l2["tag"] = None
      /\ \A p \in Procs : Tag(p) = None
  BY DEF Init, Idle, Keys, Tag
<1> QED  BY <1>1 DEF RecordInv, Requests, Request, WithoutL2, WithL2, Checked, Deleting

LEMMA RecordInvariance == Spec => []RecordInv
<1>1. IInv /\ RecordInv /\ [Next]_vars => RecordInv'
  <2> SUFFICES ASSUME IInv, RecordInv, [Next]_vars  PROVE RecordInv'
    OBVIOUS
  <2>1. ASSUME NEW c \in Calls, NEW p \in Procs,
               (\E g \in BOOLEAN : Get(c, p, g)) \/ Set(c, p) \/ DeleteByTag(c, p)
        PROVE  RecordInv'
    BY <2>1, GetRecords, SetRecords, DeleteRecords
  <2>2. ASSUME NEW c \in Calls, WriteL2(c) \/ FailWrite(c)  PROVE RecordInv'
    BY <2>2, WriteItemRecords, WriteRecords, FailRecords DEF KeyOf
  <2>3. ASSUME NEW c \in Calls,
               \/ AnswerRead(c) \/ Read(c) \/ TagLock(c) \/ ReadTag(c) \/ ReadExpired(c)
               \/ Notify(c)
        PROVE  RecordInv'
    BY <2>3, AnswerRecords, ReadRecords, TagLockRecords, ReadTagRecords, NotifyRecords
  <2>4. ASSUME NEW p \in Procs, OnMessage(p)  PROVE RecordInv'
    BY <2>4, MessageRecords
  <2>5. CASE Tick
    BY <2>5, SameRecords DEF Tick, tiers, history, Tag
  <2>6. CASE UNCHANGED vars
    BY <2>6, SameRecords DEF vars, Tag
  <2> QED  BY <2>1, <2>2, <2>3, <2>4, <2>5, <2>6, LoseRecords, AgeRecords DEF Next
<1> QED  BY <1>1, Invariance, InitRecords, PTL DEF Spec

(* For any number of processes, calls and readers of a tag in a process:   *)
(* once all is quiet, a process rejects whatever was created no later than *)
(* the last deleteByTag, unless the record of L2 is out of date or that of *)
(* the process is.  The record of L2 is when it was lost, when its write   *)
(* failed, or when an older one came over it, from an overlapping          *)
(* deleteByTag or a check that writes one back.  That of a process is when *)
(* nobody told it, since there is no L2 or the write failed, when it was   *)
(* lost without an L2 or aged, or when a check that failed to read, or was *)
(* overtaken by a deleteByTag, a message or another check, put its record  *)
(* into L1.  Each of these lasts until the next orderly write or message   *)
(* (tag_system.ts:37-88, locks.ts:10-29).                                  *)
THEOREM TagsInvalidatedUnlessMisled == Spec => []InvalidatedUnlessMisled
<1>1. IInv /\ RecordInv => InvalidatedUnlessMisled
  <2> SUFFICES ASSUME IInv, RecordInv, Quiet, None \notin misled, NEW p \in Procs \ misled,
                      NEW e \in {l1[p]["item"], l2["item"]}, Valid(e), e.at <= newest
               PROVE  Rejects(RecordFor(p), e)
    BY DEF InvalidatedUnlessMisled
  <2>1. ~Pending /\ ~Coming(p)
    BY DEF Quiet, Pending, Coming, Deleting, Announcing, Keys
  <2>2. /\ newest \in Nat
        /\ Tag(p) # None => Tag(p) \in Dated(newest)
        /\ l2["tag"] # None => l2["tag"] \in Dated(newest)
        /\ \A rec \in Dated(newest) : rec.val \in Nat /\ rec.val <= newest
    BY RecordTypes
  <2>3. CASE newest = 0
    <3>1. RecordFor(p) = 0
      BY <2>2, <2>3 DEF RecordFor, TagFactory, Valid, Tag
    <3> QED  BY <2>3, <3>1 DEF Rejects
  <2>4. CASE newest # 0
    <3>1. RecordFor(p) = newest
      <4>1. CASE hasL2
        <5>1. Newest(l2["tag"])
          BY <2>1, <2>4, <4>1 DEF RecordInv, WithL2
        <5>2. Tag(p) = None \/ Newest(Tag(p)) \/ (Valid(l2["tag"]) /\ ~Valid(Tag(p)))
          BY <2>1, <4>1 DEF RecordInv, WithL2
        <5> QED  BY <5>1, <5>2 DEF RecordFor, TagFactory, Valid, Newest, Tag
      <4>2. CASE ~hasL2
        <5>1. l2["tag"] = None /\ Newest(Tag(p))
          BY <2>4, <4>2 DEF RecordInv, WithoutL2
        <5> QED  BY <5>1 DEF RecordFor, TagFactory, Valid, Newest, Tag
      <4> QED  BY <4>1, <4>2 DEF IInv
    <3> QED  BY <3>1 DEF Rejects
  <2> QED  BY <2>3, <2>4
<1> QED  BY <1>1, Invariance, RecordInvariance, PTL
=============================================================================
