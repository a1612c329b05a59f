------------------------------ MODULE Stores -------------------------------
(***************************************************************************)
(* The stores of BentoCache managers in several processes, with their      *)
(* namespaces: bento_cache.ts, the wiring of CacheStack and Bus, the       *)
(* memory driver, clear of the L2 drivers, and what the bus carries.       *)
(*                                                                         *)
(* A value is named by the call that set it.  A handle is a store and the  *)
(* path of namespace() calls that led to it; handles of one store share    *)
(* its drivers and its bus.  Failures of L2 and of the transport, and the  *)
(* expire method, are left to Cluster.  A memory driver made with a prefix *)
(* of its own, which goes over the prefix of the stack in L1 alone, is     *)
(* left out (bento_cache.ts:69-73).                                        *)
(***************************************************************************)
EXTENDS Keys, BinaryEncoder

CONSTANTS
  Procs, Calls, None,
  StoreNames, Default,  \* the stores, and the one used when none is named
  BasePrefix,           \* the prefix option of BentoCache
  StorePrefix,          \* StorePrefix[s]: the one of bentostore, or None
  DriverPrefix,         \* DriverPrefix[s]: the one of the L2 driver, or None
  Targets,              \* the paths and keys callers use, [path, keys]
  Backends,             \* the kinds of L2 driver looked at
  MaxItems              \* the number of items an L1 holds

ASSUME StoresAssumption ==
  /\ Default \in StoreNames /\ None \notin Calls \cup Procs
  /\ Backends \subseteq {"redis", "dynamo", "table", "orchid"}
  /\ MaxItems \in Nat \ {0}
  /\ \A target \in Targets : target.keys # <<>>

(* Names are strings, and the id of a process fills the bytes reserved.    *)
(* They are free of brackets and backslashes, which a Redis pattern and    *)
(* some databases take for classes and escapes, and only letters have      *)
(* another lower case.                                                     *)
ASSUME NamesAssumption ==
  /\ ":" \in Chars /\ {"[", "]", "\\"} \cap Chars = {}
  /\ Lower \in [Chars -> Chars]
  /\ \A ch \in Chars : {ch, Lower[ch]} \cap (Wildcards \cup {":"}) # {} => Lower[ch] = ch
  /\ BasePrefix \in Seq(Chars)
  /\ \A s \in StoreNames : {StorePrefix[s], DriverPrefix[s]} \subseteq Seq(Chars) \cup {None}
  /\ Targets \subseteq [path: Seq(Seq(Chars)), keys: Seq(Seq(Chars))]
  /\ \A p \in Procs : p \in Chars /\ Len(Utf8[p]) = BusIdLength

----------------------------------------------------------------------------
(* Names and prefixes.                                                     *)

(* The paths opened on the way to one; namespace() keeps their stacks.     *)
Ancestors(path) == {SubSeq(path, 1, n) : n \in 0..Len(path)}

Paths == {<<>>} \cup UNION {Ancestors(target.path) : target \in Targets}

(* #createProvider: options of the store go over those of the manager,     *)
(* options of a driver over both.                                          *)
StackRoot(s) == IF StorePrefix[s] = None THEN BasePrefix ELSE StorePrefix[s]
DriverRoot(s) == IF DriverPrefix[s] = None THEN StackRoot(s) ELSE DriverPrefix[s]

L1Prefix == [s \in StoreNames |-> [path \in Paths |-> PrefixOf(StackRoot(s), path)]]
L2Prefix == [s \in StoreNames |-> [path \in Paths |-> PrefixOf(DriverRoot(s), path)]]

(* The target of a call on all of a namespace. *)
Wholes == {[path |-> path, keys |-> <<>>] : path \in Paths}

(* The full keys of a target. *)
L1Keys == [s \in StoreNames |-> [target \in Targets \cup Wholes |->
  {ItemKey(L1Prefix[s][target.path], target.keys[i]) : i \in DOMAIN target.keys}]]
L2Keys == [s \in StoreNames |-> [target \in Targets \cup Wholes |->
  {ItemKey(L2Prefix[s][target.path], target.keys[i]) : i \in DOMAIN target.keys}]]
L1Key(s, target) == ItemKey(L1Prefix[s][target.path], Head(target.keys))
L2Key(s, target) == ItemKey(L2Prefix[s][target.path], Head(target.keys))

L1All == [s \in StoreNames |-> UNION {L1Keys[s][target] : target \in Targets}]
L2All == UNION {L2Keys[s][target] : s \in StoreNames, target \in Targets}

(* The keys clear of each L2 driver removes, by the prefix of the stack.   *)
L2Prefixes == {L2Prefix[s][path] : s \in StoreNames, path \in Paths}
ClearedL2 == [kind \in Backends |-> [prefix \in L2Prefixes |-> {k \in L2All :
  CASE kind = "redis" -> Glob(prefix, k)
    [] kind = "table" -> Like(prefix, k)
    [] kind \in {"dynamo", "orchid"} -> StartsWith(prefix, k)}]]

----------------------------------------------------------------------------

VARIABLES
  driver,    \* the L2 driver: "redis", "dynamo", "table" or "orchid"
  opened,    \* opened[p][s]: the paths whose stack exists in p, none until s
             \*   is used there
  subscribed, \* subscribed[p]: the stores whose bus the transport has
             \*   subscribed
  l1,        \* l1[p][s]: the items of the memory driver, by full key
  l2,        \* the value of each full key in L2, or None
  wire,      \* wire[p][s]: messages under way to the bus of s in p, with
             \*   what they were made of
  call,      \* call[c]: where c stands, its process, store, target, method;
             \*   left: the L2 keys it has still to remove; seen: the items
             \*   its scan has still to return; item: the value it read
  dead,      \* history: the values replaced or removed for good, see Ends
  excused    \* history: see Excuse

siteVars == <<driver, opened, subscribed>>
vars == <<siteVars, l1, l2, wire, call, dead, excused>>

Entries == [val: Calls, valid: BOOLEAN]
Idle == [pc |-> "idle"]
Frames == [pc: {"read", "fill", "write", "remove", "scan", "unlink", "publish"},
           proc: Procs, store: StoreNames, target: Targets \cup Wholes,
           method: MessageTypes \cup {"get"}, left: SUBSET L2All,
           seen: SUBSET (L2All \X Calls), item: Calls \cup {None},
           olds: SUBSET Calls]
Overs == [pc: {"done"}, keys: SUBSET L2All]
L1Places == {<<p, s, k>> : p \in Procs, s \in StoreNames,
                           k \in UNION {L1All[t] : t \in StoreNames}}

ASSUME EntriesAssumption == None \notin Entries

TypeOK ==
  /\ driver \in Backends
  /\ opened \in [Procs -> [StoreNames -> SUBSET Paths]]
  /\ subscribed \in [Procs -> SUBSET StoreNames]
  /\ \A p \in Procs, s \in StoreNames :
       /\ l1[p][s] \in [L1All[s] -> Entries \cup {None}]
       /\ Cardinality({k \in L1All[s] : l1[p][s][k] # None}) <= MaxItems
       /\ \A i \in DOMAIN wire[p][s] : wire[p][s][i].of.type \in MessageTypes
  /\ l2 \in [L2All -> Calls \cup {None}]
  /\ \A c \in Calls : call[c] \in Frames \cup Overs \cup {Idle}
  /\ dead \in SUBSET Calls
  /\ excused \in SUBSET L1Places

Init ==
  /\ driver \in Backends
  /\ opened = [p \in Procs |-> [s \in StoreNames |-> {}]]
  /\ subscribed = [p \in Procs |-> {}]
  /\ l1 = [p \in Procs |-> [s \in StoreNames |-> [k \in L1All[s] |-> None]]]
  /\ l2 = [k \in L2All |-> None]
  /\ wire = [p \in Procs |-> [s \in StoreNames |-> <<>>]]
  /\ call = [c \in Calls |-> Idle]
  /\ dead = {} /\ excused = {}

----------------------------------------------------------------------------
(* What the actions share.                                                 *)

Running == {c \in Calls : call[c].pc \notin {"idle", "done"}}
Ready == {c \in Calls : call[c].pc = "idle"}

(* #defaultStoreName is used when no store is named. *)
Used(name) == IF name = None THEN Default ELSE name

Matches(prefix, key) == key \in ClearedL2[driver][prefix]

(* Mutant of ClearedL1: the namespaces inside are spared. *)
ClearedL1Flat(items, prefix) ==
  [k \in DOMAIN items |->
     IF StartsWith(prefix, k) /\ \A i \in (Len(prefix) + 2)..Len(k) : k[i] # ":"
       THEN None ELSE items[k]]

(* MemoryDriver.clear goes through the keys all namespaces share. *)
ClearedL1(items, prefix) ==
  [k \in DOMAIN items |-> IF StartsWith(prefix, k) THEN None ELSE items[k]]

(* delete, deleteMany of MemoryDriver *)
Removed(items, keys) == [k \in DOMAIN items |-> IF k \in keys THEN None ELSE items[k]]

(* Mutant of Put: nothing is dropped. *)
PutBeside(items, key, entry) == {[items EXCEPT ![key] = entry]}

(* An LRU that is full drops an item for a new one; which, is left open.   *)
Put(items, key, entry) ==
  LET held == {k \in DOMAIN items : items[k] # None} IN
  IF items[key] # None \/ Cardinality(held) < MaxItems
    THEN {[items EXCEPT ![key] = entry]}
    ELSE {[items EXCEPT ![key] = entry, ![k] = None] : k \in held}

(* What L2 holds under a prefix. *)
Items(prefix) == {<<k, l2[k]>> : k \in {k \in L2All : l2[k] # None /\ Matches(prefix, k)}}

WriteL1(p, s, items) == l1' = [l1 EXCEPT ![p][s] = items]

(* The L2 keys a call on a target changes for good, by the documentation.  *)
(* With an empty prefix only redis clears anything, and no L1 does.        *)
Covered(s, target, method) ==
  IF method = "clear"
    THEN {k \in L2All : /\ L1Prefix[s][target.path] # <<>>
                        /\ StartsWith(L2Prefix[s][target.path], k)}
    ELSE L2Keys[s][target]

(* c has still to change k in L2. *)
Pending(c, k) ==
  LET f == call[c] IN
  \/ f.pc = "write" /\ k \in L2Keys[f.store][f.target]
  \/ f.pc = "remove" /\ k \in f.left
  \/ f.pc \in {"scan", "unlink"} /\ Matches(L2Prefix[f.store][f.target.path], k)

(* History.  A copy in an L1 is excused when a get put it there although   *)
(* L2 had changed since or a change of the same site, or a clear announced *)
(* before, was still to come; when the message that should have removed it *)
(* named a namespace this process never opened; and when that message was  *)
(* published before the transport had subscribed the bus of this process.  *)
Excuse(added, removed) == excused' = (excused \ removed) \cup added

(* The items of some L1s of p whose copy is gone or replaced. *)
Changed(p, stores) ==
  UNION {{<<p, s, k>> : k \in {k \in L1All[s] : l1'[p][s][k] # l1[p][s][k]}} : s \in stores}

(* History: when a change ends, what it covered and was set before it      *)
(* began is dead.                                                          *)
Ends(c) ==
  LET f == call[c] IN
  /\ call' = [call EXCEPT ![c] =
       [pc |-> "done",
        keys |-> IF f.method = "set" THEN L2Keys[f.store][f.target]
                 ELSE {}]]
  /\ dead' = IF f.method = "get" THEN dead ELSE dead \cup f.olds

Goto(c, stage) == call' = [call EXCEPT ![c].pc = stage] /\ UNCHANGED dead

----------------------------------------------------------------------------
(* The bus.                                                                *)

(* CacheStack.publish names the namespace by its prefix; the transport     *)
(* hands the message to every other bus of the store it has subscribed.    *)
Publish(p, stores, type, target) ==
  wire' = [q \in Procs |-> [s \in StoreNames |->
    IF s \notin stores \/ q = p \/ s \notin subscribed[q]
      THEN wire[q][s]
    ELSE LET message == [busId |-> <<p>>, type |-> type, keys |-> target.keys,
                         namespace |-> L1Prefix[s][target.path]]
         IN Append(wire[q][s], [bytes |-> Encode(message), of |-> message])]]

(* The L1 keys a message is about. *)
About(message, s) ==
  IF message.type = "clear" THEN {k \in L1All[s] : StartsWith(message.namespace, k)}
  ELSE {ItemKey(message.namespace, message.keys[i]) : i \in DOMAIN message.keys}

(* What a call announces. *)
Notice(s, target, method) ==
  [type |-> method, keys |-> target.keys, namespace |-> L1Prefix[s][target.path]]

(* The items a message that p publishes now is about, in L1s whose bus     *)
(* does not hear it.                                                       *)
Missed(p, stores, type, target) ==
  UNION {{<<q, s, k>> : k \in {k \in L1All[s] \cap About(Notice(s, target, type), s) :
                                s \notin subscribed[q] /\ l1[q][s][k] # None}}
         : q \in Procs \ {p}, s \in stores}

(* manageCache: the namespace has an L1 here. *)
Served(p, s, namespace) == \E path \in opened[p][s] : L1Prefix[s][path] = namespace

(* Mutant of OnMessage: a clear empties the whole L1. *)
OnMessageAll(p, s) ==
  /\ wire[p][s] # <<>>
  /\ wire' = [wire EXCEPT ![p][s] = Tail(@)]
  /\ WriteL1(p, s, [k \in L1All[s] |-> None])
  /\ Excuse({}, Changed(p, {s}))
  /\ UNCHANGED <<siteVars, l2, call, dead>>

(* A message for a namespace that has no L1 here is dropped, the others go *)
(* to the L1 of the namespace.                                             *)
OnMessage(p, s) ==
  LET message == Decode(Head(wire[p][s]).bytes)
      about == About(message, s)
      received(e) == IF e = None \/ message.type \in {"delete", "clear"} THEN None
                     ELSE [e EXCEPT !.valid = FALSE]
  IN
  /\ wire[p][s] # <<>>
  /\ wire' = [wire EXCEPT ![p][s] = Tail(@)]
  /\ IF Served(p, s, message.namespace)
       THEN /\ WriteL1(p, s, [k \in L1All[s] |->
                                IF k \in about THEN received(l1[p][s][k])
                                ELSE l1[p][s][k]])
            /\ Excuse({}, Changed(p, {s}))
       ELSE /\ UNCHANGED l1
            /\ Excuse({<<p, s, k>> : k \in {k \in L1All[s] \cap about : l1[p][s][k] # None}}, {})
  /\ UNCHANGED <<siteVars, l2, call, dead>>

----------------------------------------------------------------------------
(* The calls, up to their first await.                                     *)

(* use makes the provider of a store once, namespace the stacks on a path. *)
(* The bus made with the provider asks the transport to subscribe it and   *)
(* does not wait for that.                                                 *)
Open(p, stores, path) ==
  /\ opened' = [opened EXCEPT ![p] =
       [s \in StoreNames |-> IF s \in stores THEN @[s] \cup Ancestors(path) ELSE @[s]]]
  /\ UNCHANGED <<driver, subscribed>>

(* The transport subscribes the bus of a store. *)
Subscribe(p, s) ==
  /\ opened[p][s] # {} /\ s \notin subscribed[p]
  /\ subscribed' = [subscribed EXCEPT ![p] = @ \cup {s}]
  /\ UNCHANGED <<driver, opened, l1, l2, wire, call, dead, excused>>

Frame(p, s, target, method, stage) ==
  IF stage = "done" THEN [pc |-> "done", keys |-> {}]
  ELSE [pc |-> stage, proc |-> p, store |-> s, target |-> target,
        method |-> method, item |-> None,
        left |-> IF method = "delete" THEN L2Keys[s][target] ELSE {},
        seen |-> IF method = "clear" /\ driver \in {"redis", "dynamo"}
                   THEN Items(L2Prefix[s][target.path]) ELSE {},
        olds |-> IF method = "get" THEN {}
                 ELSE {d \in Calls : /\ call[d].pc = "done"
                                     /\ call[d].keys \cap Covered(s, target, method) # {}}]

Begin(c, p, s, target, method, stage) ==
  /\ call[c].pc = "idle"
  /\ Open(p, {s}, target.path)
  /\ call' = [call EXCEPT ![c] = Frame(p, s, target, method, stage)]

Get(c, p, s, target) ==
  LET e == l1[p][s][L1Key(s, target)] IN
  /\ Len(target.keys) = 1
  /\ Begin(c, p, s, target, "get", IF e # None /\ e.valid THEN "done" ELSE "read")
  /\ UNCHANGED <<l1, l2, wire, dead, excused>>

Set(c, p, s, target) ==
  LET key == L1Key(s, target) IN
  /\ Len(target.keys) = 1
  /\ Begin(c, p, s, target, "set", "write")
  /\ \E items \in Put(l1[p][s], key, [val |-> c, valid |-> TRUE]) : WriteL1(p, s, items)
  /\ Excuse({}, Changed(p, {s}))
  /\ UNCHANGED <<l2, wire, dead>>

(* delete, deleteMany *)
Delete(c, p, s, target) ==
  /\ Begin(c, p, s, target, "delete", "remove")
  /\ WriteL1(p, s, Removed(l1[p][s], L1Keys[s][target]))
  /\ Excuse({}, Changed(p, {s}))
  /\ UNCHANGED <<l2, wire, dead>>

(* clear of a namespace in some stores at once: one for clear, all of them *)
(* for clearAll.  It announces itself while L2 is emptied.                 *)
Clear(p, target, calls) ==
  LET stores == DOMAIN calls IN
  /\ \A s \in stores : call[calls[s]].pc = "idle"
  /\ Open(p, stores, target.path)
  /\ call' = [c \in Calls |->
       IF \E s \in stores : calls[s] = c
         THEN Frame(p, CHOOSE s \in stores : calls[s] = c, target, "clear", "scan")
         ELSE call[c]]
  /\ l1' = [l1 EXCEPT ![p] = [s \in StoreNames |->
       IF s \in stores THEN ClearedL1(l1[p][s], L1Prefix[s][target.path]) ELSE l1[p][s]]]
  /\ Publish(p, stores, "clear", target)
  /\ Excuse(Missed(p, stores, "clear", target), Changed(p, stores))
  /\ UNCHANGED <<l2, dead>>

ClearOne(p, s, target) == \E c \in Ready : Clear(p, target, [t \in {s} |-> c])

ClearAll(p) ==
  \E calls \in [StoreNames -> Ready] :
    IsInjective(calls) /\ Clear(p, [path |-> <<>>, keys |-> <<>>], calls)

----------------------------------------------------------------------------
(* L2 answers.                                                             *)

(* get copies what L2 had for the key when it answered. *)
ReadL2(c) ==
  LET f == call[c]
      value == l2[L2Key(f.store, f.target)] IN
  /\ f.pc = "read"
  /\ IF value = None THEN Ends(c)
     ELSE /\ call' = [call EXCEPT ![c].pc = "fill", ![c].item = value]
          /\ UNCHANGED dead
  /\ UNCHANGED <<siteVars, l1, l2, wire, excused>>

Fill(c) ==
  LET f == call[c]
      key == L1Key(f.store, f.target)
      remote == L2Key(f.store, f.target)
      late == \/ l2[remote] # f.item
              \/ \E d \in Running : /\ Pending(d, remote)
                                    /\ \/ call[d].method = "clear"
                                       \/ call[d].proc = f.proc
  IN
  /\ f.pc = "fill"
  /\ \E items \in Put(l1[f.proc][f.store], key, [val |-> f.item, valid |-> TRUE]) :
       WriteL1(f.proc, f.store, items)
  /\ Excuse(IF late THEN {<<f.proc, f.store, key>>} ELSE {},
            Changed(f.proc, {f.store}) \cup {<<f.proc, f.store, key>>})
  /\ Ends(c)
  /\ UNCHANGED <<siteVars, l2, wire>>

WriteL2(c) ==
  LET f == call[c] IN
  /\ f.pc = "write"
  /\ l2' = [l2 EXCEPT ![L2Key(f.store, f.target)] = c]
  /\ Goto(c, "publish")
  /\ UNCHANGED <<siteVars, l1, wire, excused>>

(* A database deletes all keys in one statement, the others one by one.    *)
RemoveL2(c) ==
  /\ call[c].pc = "remove"
  /\ \E keys \in SUBSET call[c].left :
       /\ IF driver \in {"table", "orchid"} THEN keys = call[c].left
          ELSE Cardinality(keys) = 1
       /\ l2' = [k \in L2All |-> IF k \in keys THEN None ELSE l2[k]]
       /\ call' = [call EXCEPT ![c].left = @ \ keys,
            ![c].pc = IF keys = call[c].left THEN "publish" ELSE "remove"]
  /\ UNCHANGED <<siteVars, l1, wire, dead, excused>>

(* DatabaseDriver.clear is one statement. *)
ClearRows(c) ==
  LET f == call[c] IN
  /\ f.pc = "scan" /\ driver \in {"table", "orchid"}
  /\ l2' = [k \in L2All |->
              IF Matches(L2Prefix[f.store][f.target.path], k) THEN None ELSE l2[k]]
  /\ Ends(c)
  /\ UNCHANGED <<siteVars, l1, wire, excused>>

(* Mutant of ScanL2: only the first page is looked at. *)
ScanL2Once(c) ==
  LET f == call[c] IN
  /\ f.pc = "scan" /\ driver \in {"redis", "dynamo"}
  /\ \/ /\ f.left = {}
        /\ \E page \in SUBSET Items(L2Prefix[f.store][f.target.path]) :
             call' = [call EXCEPT ![c].pc = IF page = {} THEN "scan" ELSE "unlink",
                                  ![c].left = {item[1] : item \in page}, ![c].seen = {}]
        /\ UNCHANGED dead
     \/ f.seen = {} /\ Ends(c)
  /\ UNCHANGED <<siteVars, l1, l2, wire, excused>>

(* A scan returns what is stored all along; what comes meanwhile, perhaps. *)
ScanL2(c) ==
  LET f == call[c]
      stored == Items(L2Prefix[f.store][f.target.path]) IN
  /\ f.pc = "scan" /\ driver \in {"redis", "dynamo"}
  /\ \/ \E page \in SUBSET stored \ {{}} :
          /\ call' = [call EXCEPT ![c].pc = "unlink", ![c].seen = (@ \cap stored) \ page,
                                  ![c].left = {item[1] : item \in page}]
          /\ UNCHANGED dead
     \/ f.seen \cap stored = {} /\ Ends(c)
  /\ UNCHANGED <<siteVars, l1, l2, wire, excused>>

(* A pipeline of UNLINK, or batches of deletes, whatever is there now.     *)
Unlink(c) ==
  /\ call[c].pc = "unlink"
  /\ \E k \in call[c].left :
       /\ l2' = [l2 EXCEPT ![k] = None]
       /\ call' = [call EXCEPT ![c].left = @ \ {k},
            ![c].pc = IF call[c].left = {k} THEN "scan" ELSE "unlink"]
  /\ UNCHANGED <<siteVars, l1, wire, dead, excused>>

Notify(c) ==
  LET f == call[c] IN
  /\ f.pc = "publish"
  /\ Publish(f.proc, {f.store}, f.method, f.target)
  /\ Excuse(Missed(f.proc, {f.store}, f.method, f.target), {})
  /\ Ends(c)
  /\ UNCHANGED <<siteVars, l1, l2>>

Next ==
  \/ \E p \in Procs, name \in StoreNames \cup {None} :
       LET s == Used(name) IN
       \/ \E c \in Ready, target \in Targets :
            Get(c, p, s, target) \/ Set(c, p, s, target) \/ Delete(c, p, s, target)
       \/ \E target \in Wholes : ClearOne(p, s, target)
  \/ \E p \in Procs : ClearAll(p)
  \/ \E c \in Running :
       \/ ReadL2(c) \/ Fill(c) \/ WriteL2(c) \/ RemoveL2(c)
       \/ ClearRows(c) \/ ScanL2(c) \/ Unlink(c) \/ Notify(c)
  \/ \E p \in Procs, s \in StoreNames : Subscribe(p, s) \/ OnMessage(p, s)

Spec == Init /\ [][Next]_vars

----------------------------------------------------------------------------
(* Properties.                                                             *)

(* What a set, delete or clear that ended replaced or removed does not     *)
(* come back to L2, whatever ran beside it: a clear by pages misses        *)
(* nothing that was there, in its namespace or in one inside it            *)
(* (redis.ts:124-147, dynamodb.ts:200-234).                                *)
DeadLeftL2 == \A k \in L2All : l2[k] \notin dead

(* A process that still serves a dead value has the message that removes   *)
(* it under way, unless it is excused: a message published since the bus   *)
(* was subscribed reaches the L1 of its namespace, if the process opened   *)
(* it, and of those inside it (bus.ts:78-103, memory.ts:99-105).           *)
DeadAnnounced ==
  \A p \in Procs, s \in StoreNames : \A k \in L1All[s] :
    LET e == l1[p][s][k] IN
    (e # None /\ e.valid /\ e.val \in dead)
    => \/ <<p, s, k>> \in excused
       \/ \E i \in DOMAIN wire[p][s] :
            /\ wire[p][s][i].of.busId # <<p>>
            /\ k \in About(wire[p][s][i].of, s)

(* The bytes of every message decode to what was published                 *)
(* (binary_encoder.ts:54-173).                                             *)
DecodeInvertsEncode ==
  \A p \in Procs, s \in StoreNames : \A i \in DOMAIN wire[p][s] :
    Decode(wire[p][s][i].bytes) = wire[p][s][i].of

OwnL2 ==
  \A k \in L2All : (l2[k] # None /\ l2'[k] = None) =>
    \E c \in Running : /\ call[c].method \in {"delete", "clear"}
                       /\ k \in Covered(call[c].store, call[c].target, call[c].method)

OwnPlace(p, s, k) ==
  \/ \E c \in Calls : LET f == call'[c] IN
       /\ call[c].pc = "idle" /\ f.pc # "idle" /\ f.proc = p /\ f.store = s
       /\ k \in About(Notice(s, f.target, f.method), s)
  \/ Len(wire'[p][s]) < Len(wire[p][s]) /\ k \in About(Head(wire[p][s]).of, s)
  \/ \E new \in L1All[s] : l1[p][s][new] = None /\ l1'[p][s][new] # None

OwnL1 ==
  \A p \in Procs, s \in StoreNames : \A k \in L1All[s] :
    (l1[p][s][k] # None /\ l1'[p][s][k] = None) => OwnPlace(p, s, k)

(* A value disappears from L2 or from an L1 only by a call or a message on *)
(* a namespace its key is in; a full L1 also drops one for a new one       *)
(* (namespaces.md:26-28, named_caches.md:69).                              *)
OnlyOwnRemoved == [][OwnL2 /\ OwnL1]_vars

----------------------------------------------------------------------------
(* Names that do not clash.                                                *)

(* A key in L2 that a call covers is of its store, and its notice is about *)
(* the key in L1 that goes with it: stores with one prefix for two sets of *)
(* keys break this.                                                        *)
KeysAligned ==
  \A s, t \in StoreNames, own \in Targets, target \in Targets \cup Wholes :
    \A method \in {"set", "delete", "clear"} :
      (Len(own.keys) = 1 /\ L2Key(s, own) \in Covered(t, target, method)) =>
        s = t /\ L1Key(s, own) \in About(Notice(t, target, method), t)

(* No prefix is empty, none has a wildcard in it, and no key begins with a *)
(* prefix but for the case of its letters.                                 *)
PrefixesPlain ==
  \A s \in StoreNames, path \in Paths :
    LET prefix == L2Prefix[s][path] IN
    /\ L1Prefix[s][path] # <<>> /\ prefix # <<>>
    /\ \A i \in DOMAIN prefix : prefix[i] \notin Wildcards
    /\ \A k \in L2All :
         StartsWith(LowerCase(prefix), LowerCase(k)) => StartsWith(prefix, k)

(* The L2 driver of a store has the prefix of its stack, and no key of a   *)
(* store is under a prefix of another.                                     *)
StoresApart ==
  /\ \A s \in StoreNames : DriverPrefix[s] = None
  /\ \A s, t \in StoreNames, own \in Targets, path \in Paths :
       StartsWith(L2Prefix[t][path], L2Key(s, own)) => s = t
=============================================================================
