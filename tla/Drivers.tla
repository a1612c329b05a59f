------------------------------ MODULE Drivers -------------------------------
(***************************************************************************)
(* One key in a store that outlives the process: the file driver, with the *)
(* worker that prunes it, the database driver with its adapters, and the   *)
(* Redis and DynamoDB drivers, whose clear is in Stores.                   *)
(*                                                                         *)
(* Every await on the file system or the store is a step of its own, so    *)
(* that calls interleave there.  A value is named by the call that set it, *)
(* First being one of an earlier run; a value stored with a ttl may lapse  *)
(* at any time.                                                            *)
(***************************************************************************)
EXTENDS Naturals

CONSTANTS
  Calls, None, First, Torn,
  Media,       \* the kinds of driver looked at
  MaxCrashes   \* bound on crashes

ASSUME DriversAssumption ==
  /\ MaxCrashes \in Nat
  /\ Media \subseteq {"file", "redis", "dynamo", "knex", "kysely", "orchid"}
  /\ None # First /\ None # Torn /\ First # Torn
  /\ {None, First, Torn} \cap Calls = {}
  /\ {"true", "error"} \cap (Calls \cup {None, First}) = {}

VARIABLES
  medium,      \* what stores the key; "kysely" is the adapter on SQLite
  handle,      \* the driver has no prefix ("plain"), has one, or is that of a
               \*   namespace
  stored,      \* what the store has for the key: an entry, None, or Torn for
               \*   a file truncated and not yet written
  dir,         \* the directory of the file, or the table, exists
  maker,       \* what the initializer of a database driver has come to
  call,        \* call[c]: where c stands, its method and result, the content
               \*   it goes by (seen), the value it will return, and the file
               \*   it has open
  crashes,     \* history: how many crashes there were
  overlapped,  \* history: the calls that ran while another did
  allowed      \* history: the values the key may have: see Starts, Ends

siteVars == <<medium, handle>>
vars == <<siteVars, stored, dir, maker, call, crashes, overlapped, allowed>>

Values == Calls \cup {First}
Entries == [val: Values, until: {"never", "later", "past"}]
Contents == Entries \cup {None, Torn}

ASSUME EntriesAssumption == {None, Torn} \cap Entries = {}

Databases == {"knex", "kysely", "orchid"}
Methods == {"get", "pull", "set", "delete", "clear", "prune"}
Results == Values \cup {None, "true", "error"}
Idle == [pc |-> "idle"]
Frames == [pc: {"exists", "load", "find", "remove", "lock", "dir", "mkdir",
                "truncate", "write", "findDir", "removeFiles", "removeDir",
                "scan", "unlink", "await", "hasTable", "createTable", "query",
                "deleteItem", "deleteRow"},
           method: Methods, seen: Contents, item: Values \cup {None},
           open: {"no", "alone", "shared"}]
Ended == [pc: {"done"}, method: Methods, res: Results]

TypeOK ==
  /\ medium \in {"file", "redis", "dynamo"} \cup Databases
  /\ handle \in {"plain", "prefixed", "namespace"}
  /\ stored \in Contents /\ dir \in BOOLEAN
  /\ maker \in {"none", "running", "made", "failed"}
  /\ call \in [Calls -> Frames \cup Ended \cup {Idle}]
  /\ crashes \in 0..MaxCrashes
  /\ overlapped \in SUBSET Calls
  /\ allowed \in SUBSET (Values \cup {None})

Init ==
  /\ medium \in Media
  /\ \/ medium = "file" /\ handle \in {"plain", "prefixed"}
     \/ medium \in {"redis", "dynamo"} /\ handle = "plain"
     \/ medium \in Databases /\ handle \in {"plain", "namespace"}
  /\ stored \in {None, [val |-> First, until |-> "later"]}
  /\ dir = (stored # None) /\ maker = "none"
  /\ call = [c \in Calls |-> Idle]
  /\ crashes = 0 /\ overlapped = {}
  /\ allowed = IF stored = None THEN {None} ELSE {First}

----------------------------------------------------------------------------
(* What the actions share.                                                 *)

Running == {c \in Calls : call[c].pc \notin {"idle", "done"}}

(* What a call that runs alone makes of the key. *)
Outcome(c, method) ==
  CASE method = "set" -> {c} [] method \in {"pull", "delete", "clear"} -> {None}
    [] OTHER -> {}

(* History: while a call runs the key may have its outcome, and has it for *)
(* sure when the call ends if no other overlapped it.                      *)
Starts(c, method) ==
  /\ overlapped' = IF Running = {} THEN overlapped ELSE overlapped \cup Running \cup {c}
  /\ allowed' = allowed \cup Outcome(c, method)

Ends(c, res) ==
  LET method == call[c].method IN
  /\ call' = [call EXCEPT ![c] = [pc |-> "done", method |-> method, res |-> res]]
  /\ allowed' = IF Outcome(c, method) # {} /\ c \notin overlapped /\ res # "error"
                  THEN Outcome(c, method) ELSE allowed

Goto(c, stage) == call' = [call EXCEPT ![c].pc = stage] /\ UNCHANGED allowed

(* The file goes away; whoever has it open writes to nothing. *)
Detached(calls) ==
  [c \in Calls |-> IF c \in Running THEN [calls[c] EXCEPT !.open = "no"] ELSE calls[c]]

(* What a set stores, with a ttl or without. *)
Written(c) == {[val |-> c, until |-> until] : until \in {"never", "later"}}

(* Mutant of Lapsed: expirations are not looked at. *)
LapsedNever(e) == FALSE

(* #isExpired, and the comparison in the file driver and its cleaner. *)
Lapsed(e) == e \notin {None, Torn} /\ e.until = "past"

(* The value a get of an unexpired entry returns. *)
Found(e) == IF e \in {None, Torn} \/ Lapsed(e) THEN None ELSE e.val

(* History: a sweeper removed something else than it had judged. *)
Swept(c) == IF stored # call[c].seen THEN allowed \cup {None} ELSE allowed

(* c deletes what is stored as its last step. *)
Deletes(c) ==
  /\ stored' = None
  /\ call' = [Detached(call) EXCEPT ![c] =
                [pc |-> "done", method |-> call[c].method, res |-> call[c].item]]
  /\ allowed' = IF Outcome(c, call[c].method) # {} /\ c \notin overlapped THEN {None}
                ELSE IF call[c].method \in {"get", "pull"} THEN Swept(c)
                ELSE allowed

(* The first await of a database driver is its initializer, which runs     *)
(* once, and is nothing for the driver of a namespace.                     *)
DatabaseStage ==
  IF handle = "namespace" \/ maker = "made" THEN "query"
  ELSE IF maker # "none" THEN "await"
  ELSE IF medium = "knex" THEN "hasTable" ELSE "createTable"

FileStage ==
  [method \in Methods |->
     CASE method \in {"get", "pull"} -> "exists" [] method = "set" -> "lock"
       [] method = "delete" -> "find" [] method = "clear" -> "findDir"
       [] method = "prune" -> "scan"]

FirstStage(method) ==
  CASE medium = "file" -> FileStage[method]
    [] medium \in Databases -> DatabaseStage
    [] OTHER -> "query"

Begin(c, method) ==
  /\ call[c].pc = "idle"
  /\ medium \in {"redis", "dynamo"} => method \notin {"clear", "prune"}
  /\ call' = [call EXCEPT ![c] = [pc |-> FirstStage(method), method |-> method,
                                  seen |-> None, item |-> None, open |-> "no"]]
  /\ maker' = IF FirstStage(method) \in {"hasTable", "createTable"} THEN "running"
              ELSE maker
  /\ Starts(c, method)
  /\ UNCHANGED <<siteVars, stored, dir, crashes>>

----------------------------------------------------------------------------
(* FileDriver.                                                             *)

(* #pathExists *)
Exists(c) ==
  /\ call[c].pc = "exists"
  /\ IF stored = None THEN Ends(c, None) ELSE Goto(c, "load")
  /\ UNCHANGED <<stored, dir>>

(* Mutant of Load: what was read is returned without a look at it. *)
LoadRaw(c) ==
  /\ call[c].pc = "load" /\ call[c].method = "get"
  /\ Ends(c, IF stored \in {None, Torn} THEN stored ELSE stored.val)
  /\ UNCHANGED <<stored, dir>>

(* get reads and parses the file.  It deletes an expired one by its full   *)
(* key, to which delete adds the prefix once more: with a prefix it looks  *)
(* for another file.  pull deletes what get gave it.                       *)
Load(c) ==
  /\ call[c].pc = "load"
  /\ \/ stored \in {None, Torn} /\ Ends(c, "error")
     \/ Lapsed(stored) /\ handle = "prefixed" /\ Ends(c, None)
     \/ Found(stored) # None /\ call[c].method = "get" /\ Ends(c, Found(stored))
     \/ /\ \/ Lapsed(stored) /\ handle # "prefixed"
           \/ Found(stored) # None /\ call[c].method = "pull"
        /\ call' = [call EXCEPT ![c].pc = "find", ![c].seen = stored,
                                ![c].item = Found(stored)]
        /\ UNCHANGED allowed
  /\ UNCHANGED <<stored, dir>>

(* delete, of its own or on behalf of get or pull. *)
Find(c) ==
  /\ call[c].pc = "find"
  /\ IF stored = None THEN Ends(c, call[c].item) ELSE Goto(c, "remove")
  /\ UNCHANGED <<stored, dir>>

Remove(c) ==
  /\ call[c].pc = "remove"
  /\ IF stored = None THEN Ends(c, "error") /\ UNCHANGED stored ELSE Deletes(c)
  /\ UNCHANGED dir

(* Mutant of Lock: sets do not wait for each other. *)
LockFree(c) ==
  /\ call[c].pc = "lock"
  /\ Goto(c, "dir")
  /\ UNCHANGED <<stored, dir>>

(* #runExclusiveKey lets one set write the file at a time. *)
Lock(c) ==
  /\ call[c].pc = "lock"
  /\ \A d \in Running : call[d].pc \notin {"dir", "mkdir", "truncate", "write"}
  /\ Goto(c, "dir")
  /\ UNCHANGED <<stored, dir>>

(* Mutant of FindDir: the directory is taken for granted. *)
FindDirNot(c) ==
  /\ call[c].pc = "dir"
  /\ Goto(c, "truncate")
  /\ UNCHANGED <<stored, dir>>

(* #outputFile *)
FindDir(c) ==
  /\ call[c].pc = "dir"
  /\ Goto(c, IF dir THEN "truncate" ELSE "mkdir")
  /\ UNCHANGED <<stored, dir>>

MkDir(c) ==
  /\ call[c].pc = "mkdir"
  /\ dir' = TRUE
  /\ Goto(c, "truncate")
  /\ UNCHANGED stored

(* Two that have a file open at the same time mix what they write. *)
Truncate(c) ==
  LET sharing == {d \in Running : call[d].open # "no"} IN
  /\ call[c].pc = "truncate"
  /\ IF dir THEN /\ stored' = Torn
                 /\ call' = [d \in Calls |->
                      IF d = c THEN [call[d] EXCEPT !.pc = "write",
                                       !.open = IF sharing = {} THEN "alone" ELSE "shared"]
                      ELSE IF d \in sharing THEN [call[d] EXCEPT !.open = "shared"]
                      ELSE call[d]]
                 /\ UNCHANGED allowed
     ELSE Ends(c, "error") /\ UNCHANGED stored
  /\ UNCHANGED dir

Write(c) ==
  /\ call[c].pc = "write"
  /\ CASE call[c].open = "no" -> UNCHANGED stored
       [] call[c].open = "alone" -> stored' \in Written(c)
       [] OTHER -> stored' = Torn
  /\ Ends(c, "true")
  /\ UNCHANGED dir

(* clear removes the directory and what is in it. *)
FindDirToClear(c) ==
  /\ call[c].pc = "findDir"
  /\ IF dir THEN Goto(c, "removeFiles") ELSE Ends(c, None)
  /\ UNCHANGED <<stored, dir>>

RemoveFiles(c) ==
  /\ call[c].pc = "removeFiles"
  /\ stored' = None
  /\ call' = [Detached(call) EXCEPT ![c].pc = "removeDir"]
  /\ UNCHANGED <<dir, allowed>>

RemoveDir(c) ==
  /\ call[c].pc = "removeDir"
  /\ IF dir /\ stored = None THEN Ends(c, None) /\ dir' = FALSE
     ELSE Ends(c, "error") /\ UNCHANGED dir
  /\ UNCHANGED stored

(* The cleaner reads the file and then unlinks its path if what it read    *)
(* has expired or does not parse.                                          *)
Scan(c) ==
  /\ call[c].pc = "scan"
  /\ IF Lapsed(stored) \/ stored = Torn
       THEN call' = [call EXCEPT ![c].pc = "unlink", ![c].seen = stored]
            /\ UNCHANGED allowed
       ELSE Ends(c, None)
  /\ UNCHANGED <<stored, dir>>

Unlink(c) ==
  /\ call[c].pc = "unlink"
  /\ stored' = None
  /\ call' = [Detached(call) EXCEPT ![c] =
                [pc |-> "done", method |-> call[c].method, res |-> None]]
  /\ allowed' = allowed \cup {None}
  /\ UNCHANGED dir

----------------------------------------------------------------------------
(* RedisDriver: each method is one command.                                *)

Requests(c, store, methods) ==
  call[c].pc = "query" /\ medium = store /\ call[c].method \in methods

RedisGet(c) ==
  /\ Requests(c, "redis", {"get"})
  /\ Ends(c, Found(stored))
  /\ UNCHANGED <<stored, dir>>

GetDel(c) ==
  /\ Requests(c, "redis", {"pull"})
  /\ Ends(c, Found(stored))
  /\ stored' = None
  /\ UNCHANGED dir

RedisSet(c) ==
  /\ Requests(c, "redis", {"set"})
  /\ stored' \in Written(c)
  /\ Ends(c, "true")
  /\ UNCHANGED dir

RedisUnlink(c) ==
  /\ Requests(c, "redis", {"delete"})
  /\ stored' = None
  /\ Ends(c, None)
  /\ UNCHANGED dir

----------------------------------------------------------------------------
(* DynamoDbDriver: pull is a get and a delete.                             *)

(* Mutant of GetItem: pull leaves the value to the next. *)
GetItemOnly(c) ==
  /\ Requests(c, "dynamo", {"get", "pull"})
  /\ Ends(c, Found(stored))
  /\ UNCHANGED <<stored, dir>>

GetItem(c) ==
  /\ Requests(c, "dynamo", {"get", "pull"})
  /\ IF call[c].method = "get" \/ Found(stored) = None THEN Ends(c, Found(stored))
     ELSE /\ call' = [call EXCEPT ![c].pc = "deleteItem", ![c].seen = stored,
                                  ![c].item = Found(stored)]
          /\ UNCHANGED allowed
  /\ UNCHANGED <<stored, dir>>

PutItem(c) ==
  /\ Requests(c, "dynamo", {"set"})
  /\ stored' \in Written(c)
  /\ Ends(c, "true")
  /\ UNCHANGED dir

(* The item is deleted by its key, whatever it holds by now; that there is *)
(* none is no error.                                                       *)
DeleteItem(c) ==
  /\ call[c].pc = "deleteItem" \/ Requests(c, "dynamo", {"delete"})
  /\ Deletes(c)
  /\ UNCHANGED dir

----------------------------------------------------------------------------
(* The initializer of DatabaseDriver: createTableIfNotExists.              *)

(* Knex asks first and creates the table after the answer. *)
HasTable(c) ==
  /\ call[c].pc = "hasTable"
  /\ maker' = IF dir THEN "made" ELSE maker
  /\ Goto(c, IF dir THEN "query" ELSE "createTable")
  /\ UNCHANGED <<stored, dir>>

(* Knex creates the table only if there is none, and a failure stays with  *)
(* the driver.                                                             *)
CreateTable(c) ==
  /\ call[c].pc = "createTable" /\ medium = "knex"
  /\ maker' = IF dir THEN "failed" ELSE "made"
  /\ IF dir THEN Ends(c, "error") ELSE Goto(c, "query")
  /\ dir' = TRUE
  /\ UNCHANGED stored

(* The others say IF NOT EXISTS. *)
CreateIfNotExists(c) ==
  /\ call[c].pc = "createTable" /\ medium \in {"kysely", "orchid"}
  /\ maker' = "made" /\ dir' = TRUE
  /\ Goto(c, "query")
  /\ UNCHANGED stored

Await(c) ==
  /\ call[c].pc = "await" /\ maker # "running"
  /\ IF maker = "failed" THEN Ends(c, "error") ELSE Goto(c, "query")
  /\ UNCHANGED <<stored, dir>>

----------------------------------------------------------------------------
(* DatabaseDriver: each statement is atomic, get and pull may need two.    *)

Queries(c, methods) ==
  call[c].pc = "query" /\ medium \in Databases /\ dir /\ call[c].method \in methods

NoTable(c) ==
  /\ call[c].pc = "query" /\ medium \in Databases /\ ~dir
  /\ Ends(c, "error")
  /\ UNCHANGED <<stored, dir>>

(* get deletes a row that expired, pull one whose value it returns. *)
Select(c) ==
  /\ Queries(c, {"get", "pull"})
  /\ IF \/ Lapsed(stored)
        \/ stored # None /\ call[c].method = "pull"
       THEN /\ call' = [call EXCEPT ![c].pc = "deleteRow", ![c].seen = stored,
                                    ![c].item = Found(stored)]
            /\ UNCHANGED allowed
       ELSE Ends(c, Found(stored))
  /\ UNCHANGED <<stored, dir>>

(* Rows are deleted by their key or their prefix, whatever they hold. *)
DeleteRow(c) ==
  /\ call[c].pc = "deleteRow" \/ Queries(c, {"delete", "clear"})
  /\ Deletes(c)
  /\ UNCHANGED dir

(* Kysely on SQLite leaves the expiration of an overwritten row as it was  *)
(* when there is no ttl.                                                   *)
Kept(entry) ==
  IF stored # None /\ entry.until = "never"
    THEN [entry EXCEPT !.until = stored.until] ELSE entry

(* The rows an insert or overwrite may leave: the value and expiration     *)
(* given, except by Kysely.  The update and the insert of Orchid are taken *)
(* for one statement.                                                      *)
Upserted(c) ==
  IF medium = "kysely" THEN {Kept(entry) : entry \in Written(c)} ELSE Written(c)

(* pruneExpiredEntries deletes what has expired. *)
Pruned(row) == IF Lapsed(row) THEN None ELSE row

(* The row is inserted or overwritten. *)
Upsert(c) ==
  /\ Queries(c, {"set"})
  /\ \E row \in Upserted(c) :
       /\ stored' = row
       /\ IF Lapsed(row)
            THEN /\ call' = [call EXCEPT ![c] =
                       [pc |-> "done", method |-> "set", res |-> "true"]]
                 /\ allowed' = allowed \cup {None}
            ELSE Ends(c, "true")
  /\ UNCHANGED dir

PruneRows(c) ==
  /\ Queries(c, {"prune"})
  /\ stored' = Pruned(stored)
  /\ Ends(c, None)
  /\ UNCHANGED dir

----------------------------------------------------------------------------
(* Time and crashes.                                                       *)

(* The stored value expires. *)
Lapse ==
  /\ stored \in Entries /\ stored.until = "later"
  /\ stored' = [stored EXCEPT !.until = "past"]
  /\ allowed' = (allowed \ {stored.val}) \cup {None}
  /\ UNCHANGED <<siteVars, dir, maker, call, crashes, overlapped>>

(* Another process creates the table. *)
Created ==
  /\ medium \in Databases /\ dir' = TRUE
  /\ UNCHANGED <<siteVars, stored, maker, call, crashes, overlapped, allowed>>

(* The process dies and leaves the store as it is. *)
Crash ==
  /\ crashes < MaxCrashes /\ Running # {} /\ crashes' = crashes + 1
  /\ call' = [c \in Calls |->
                IF c \in Running
                  THEN [pc |-> "done", method |-> call[c].method, res |-> "error"]
                  ELSE call[c]]
  /\ maker' = "none"
  /\ UNCHANGED <<siteVars, stored, dir, overlapped, allowed>>

FileStep(c) ==
  \/ Exists(c) \/ Load(c) \/ Find(c) \/ Remove(c)
  \/ Lock(c) \/ FindDir(c) \/ MkDir(c) \/ Truncate(c) \/ Write(c)
  \/ FindDirToClear(c) \/ RemoveFiles(c) \/ RemoveDir(c)
  \/ Scan(c) \/ Unlink(c)

RequestStep(c) ==
  \/ RedisGet(c) \/ GetDel(c) \/ RedisSet(c) \/ RedisUnlink(c)
  \/ GetItem(c) \/ PutItem(c) \/ DeleteItem(c)
  \/ NoTable(c) \/ Select(c) \/ DeleteRow(c) \/ Upsert(c) \/ PruneRows(c)

Step(c) ==
  /\ \/ (FileStep(c) \/ RequestStep(c) \/ Await(c)) /\ UNCHANGED maker
     \/ HasTable(c) \/ CreateTable(c) \/ CreateIfNotExists(c)
  /\ UNCHANGED <<siteVars, crashes, overlapped>>

Next ==
  \/ \E c \in Calls : Step(c) \/ \E method \in Methods : Begin(c, method)
  \/ Lapse \/ Created \/ Crash

Spec == Init /\ [][Next]_vars

----------------------------------------------------------------------------
(* Properties.                                                             *)

(* When no call runs and no process died, the file is whole: sets of one   *)
(* key never leave a mixture behind (file.ts:75-82).                       *)
WholeAtRest == (Running = {} /\ crashes = 0) => stored # Torn

(* A call throws only if another overlapped it or a crash left a torn      *)
(* file, except that the driver of a namespace does not create the table   *)
(* it needs, and that the driver stays unusable when creating it failed    *)
(* (file.ts:127-135, 147-223, database.ts:30-66, knex.ts:60-68).           *)
FailsOnlyOverlapped ==
  \A c \in Calls \ overlapped :
    (call[c].pc = "done" /\ crashes = 0 /\ call[c].res = "error")
    => medium \in Databases /\ (handle = "namespace" \/ maker = "failed")

(* A value is pulled at most once, unless the pulls overlapped something;  *)
(* by Redis at most once at all (redis.ts:99-103, dynamodb.ts:177-185,     *)
(* database.ts:106-111, file.ts:170-176).                                  *)
PulledOnce ==
  \A c, d \in Calls :
    ( /\ c # d /\ call[c].pc = "done" /\ call[d].pc = "done"
      /\ call[c].method = "pull" /\ call[d].method = "pull"
      /\ call[c].res = call[d].res /\ call[c].res \in Values )
    => medium # "redis" /\ {c, d} \subseteq overlapped

(* A get returns what the last calls, and those that overlapped each other *)
(* since, made of the key: a set that returned is not lost, unless the     *)
(* value lapsed or a sweep judged older content, and a pulled, deleted or  *)
(* expired value does not come back (file.ts:144-223, database.ts:84-144). *)
GetsWhatIsStored ==
  [][\A c \in Calls :
       (call[c].pc \notin {"idle", "done"} /\ call'[c].pc = "done"
        /\ call[c].method = "get" /\ call'[c].res # "error")
       => call'[c].res \in allowed]_vars
=============================================================================
