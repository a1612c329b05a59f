--------------------------- MODULE DriversProofs ----------------------------
(***************************************************************************)
(* Theorems about one key of a driver, for any set of calls, any sharing   *)
(* of their steps and any number of crashes.                               *)
(***************************************************************************)
EXTENDS Drivers, TLAPS

(* Where the calls of a medium may stand. *)
Stages ==
  [file |-> {"exists", "load", "find", "remove", "lock", "dir", "mkdir", "truncate",
             "write", "findDir", "removeFiles", "removeDir", "scan", "unlink"},
   redis |-> {"query"},
   dynamo |-> {"query", "deleteItem"},
   tables |-> {"await", "hasTable", "createTable", "query", "deleteRow"}]

StagesOf(m) ==
  CASE m = "file" -> Stages.file [] m = "redis" -> Stages.redis
    [] m = "dynamo" -> Stages.dynamo [] OTHER -> Stages.tables

(* Calls stand where their medium has steps, and only files are torn.      *)
Placed ==
  /\ \A c \in Running : call[c].pc \in StagesOf(medium)
  /\ medium # "file" => stored # Torn

(* A step of c leaves the other calls as they are, but for the file they   *)
(* have open.                                                              *)
SameBut(c) ==
  \A d \in Calls \ {c} :
    \/ call'[d] = call[d]
    \/ /\ d \in Running
       /\ call'[d] \in Frames /\ call'[d].pc = call[d].pc
       /\ call'[d].method = call[d].method
       /\ call'[d].seen = call[d].seen /\ call'[d].item = call[d].item

----------------------------------------------------------------------------
(* Types.                                                                  *)

LEMMA RunningFrames ==
  ASSUME TypeOK, NEW c \in Calls
  PROVE  /\ c \in Running <=> call[c] \in Frames
         /\ call[c].pc = "done" <=> call[c] \in Ended
         /\ call[c].pc = "idle" <=> call[c] = Idle
         /\ call[c].pc \notin {"idle", "done"} => c \in Running
BY DEF TypeOK, Running, Frames, Ended, Idle

LEMMA EntryKinds ==
  ASSUME TypeOK
  PROVE  /\ stored \in Entries \/ stored = None \/ stored = Torn
         /\ None \notin Entries /\ Torn \notin Entries /\ None # Torn
         /\ stored \in Entries => stored.val \in Values
         /\ Found(stored) \in Values \cup {None}
BY EntriesAssumption, DriversAssumption DEF TypeOK, Contents, Found, Lapsed, Entries

(* What the helpers do to calls and to the values allowed.                 *)
Shaped(c) ==
  /\ call' \in [Calls -> Frames \cup Ended \cup {Idle}]
  /\ allowed' \in SUBSET (Values \cup {None})
  /\ SameBut(c)
  /\ call'[c] \in Frames \cup Ended
  /\ call'[c].method = call[c].method

LEMMA EndsShape ==
  ASSUME TypeOK, NEW c \in Running, NEW res \in Results, Ends(c, res)
  PROVE  /\ Shaped(c)
         /\ call'[c] = [pc |-> "done", method |-> call[c].method, res |-> res]
<1>1. c \in Calls /\ call[c] \in Frames /\ call[c].method \in Methods
  BY RunningFrames DEF Running, Frames
<1>2. Outcome(c, call[c].method) \in SUBSET (Values \cup {None})
  BY <1>1 DEF Outcome, Values
<1>3. call' = [call EXCEPT ![c] = [pc |-> "done", method |-> call[c].method, res |-> res]]
  BY DEF Ends
<1>4. [pc |-> "done", method |-> call[c].method, res |-> res] \in Ended
  BY <1>1 DEF Ended
<1>5. call'[c] = [pc |-> "done", method |-> call[c].method, res |-> res]
  BY <1>1, <1>3 DEF TypeOK
<1>6. allowed' \in SUBSET (Values \cup {None})
  BY <1>2 DEF Ends, TypeOK
<1> QED  BY <1>1, <1>3, <1>4, <1>5, <1>6 DEF TypeOK, Shaped, SameBut

LEMMA GotoShape ==
  ASSUME TypeOK, NEW c \in Running, NEW stage \in UNION {Stages[m] : m \in DOMAIN Stages},
         Goto(c, stage)
  PROVE  Shaped(c) /\ call'[c] = [call[c] EXCEPT !.pc = stage] /\ call'[c] \in Frames
<1>1. c \in Calls /\ call[c] \in Frames
  BY RunningFrames DEF Running
<1>2. stage \in Stages.file \cup Stages.redis \cup Stages.dynamo \cup Stages.tables
  BY DEF Stages
<1>3. [call[c] EXCEPT !.pc = stage] \in Frames
  BY <1>1, <1>2 DEF Frames, Stages
<1>4. call'[c] = [call[c] EXCEPT !.pc = stage]
  BY <1>1 DEF Goto, TypeOK
<1>5. call'[c].method = call[c].method
  BY <1>1, <1>4 DEF Frames
<1> QED  BY <1>1, <1>3, <1>4, <1>5 DEF Goto, TypeOK, Shaped, SameBut

LEMMA DetachedShape ==
  ASSUME TypeOK, NEW c \in Running, NEW frame \in Frames \cup Ended,
         frame.method = call[c].method, call' = [Detached(call) EXCEPT ![c] = frame],
         allowed' \in SUBSET (Values \cup {None})
  PROVE  Shaped(c) /\ call'[c] = frame
<1>1. c \in Calls
  BY DEF Running
<1>2. call'[c] = frame
  BY <1>1 DEF Detached
<1>3. ASSUME NEW d \in Calls, d # c
      PROVE  /\ call'[d] = IF d \in Running THEN [call[d] EXCEPT !.open = "no"] ELSE call[d]
             /\ d \in Running => [call[d] EXCEPT !.open = "no"] \in Frames
  <2>1. call'[d] = IF d \in Running THEN [call[d] EXCEPT !.open = "no"] ELSE call[d]
    BY <1>3 DEF Detached
  <2>2. d \in Running => call[d] \in Frames
    BY RunningFrames
  <2> QED  BY <2>1, <2>2 DEF Frames
<1>4. SameBut(c)
  <2> SUFFICES ASSUME NEW d \in Calls \ {c}, d \in Running
               PROVE  /\ call'[d] \in Frames /\ call'[d].pc = call[d].pc
                      /\ call'[d].method = call[d].method
                      /\ call'[d].seen = call[d].seen /\ call'[d].item = call[d].item
    BY <1>3 DEF SameBut
  <2>1. call[d] \in Frames
    BY RunningFrames
  <2>2. call'[d] = [call[d] EXCEPT !.open = "no"] /\ call'[d] \in Frames
    BY <1>3
  <2> HIDE DEF Running
  <2> QED  BY <2>1, <2>2 DEF Frames
<1>5. call' \in [Calls -> Frames \cup Ended \cup {Idle}]
  <2>1. call' = [d \in Calls |-> call'[d]]
    BY DEF Detached
  <2>2. \A d \in Calls : call'[d] \in Frames \cup Ended \cup {Idle}
    BY <1>2, <1>3 DEF TypeOK
  <2> QED  BY <2>1, <2>2
<1> QED  BY <1>2, <1>4, <1>5 DEF Shaped

LEMMA DeletesShape ==
  ASSUME TypeOK, NEW c \in Running, Deletes(c)
  PROVE  /\ Shaped(c)
         /\ call'[c] = [pc |-> "done", method |-> call[c].method, res |-> call[c].item]
         /\ stored' = None
<1>1. call[c] \in Frames /\ call[c].method \in Methods /\ call[c].item \in Values \cup {None}
  BY RunningFrames DEF Running, Frames
<1>2. [pc |-> "done", method |-> call[c].method, res |-> call[c].item] \in Frames \cup Ended
  BY <1>1 DEF Ended, Results
<1>3. allowed' \in SUBSET (Values \cup {None})
  BY DEF Deletes, Swept, TypeOK
<1> QED  BY <1>2, <1>3, DetachedShape DEF Deletes

(* The remaining ways in which a call changes its frame.                   *)
LEMMA FrameShape ==
  ASSUME TypeOK, NEW c \in Running, NEW frame \in Frames \cup Ended,
         frame.method = call[c].method, call' = [call EXCEPT ![c] = frame],
         allowed' \in SUBSET (Values \cup {None})
  PROVE  Shaped(c) /\ call'[c] = frame
<1>1. c \in Calls
  BY DEF Running
<1>2. call'[c] = frame
  BY <1>1 DEF TypeOK
<1> QED  BY <1>1, <1>2 DEF Shaped, SameBut, TypeOK

(* What a step of c leaves true of the medium and of the types.            *)
Stays(c) ==
  /\ c \in Running /\ Shaped(c)
  /\ stored' \in Contents /\ dir' \in BOOLEAN

LEMMA FileKeeps ==
  ASSUME TypeOK, Placed, NEW c \in Calls, FileStep(c)
  PROVE  Stays(c) /\ medium = "file" /\ call'[c].pc \in {"done"} \cup Stages.file
<1>1. c \in Running
  BY RunningFrames DEF FileStep, Exists, Load, Find, Remove, Lock, FindDir, MkDir,
       Truncate, Write, FindDirToClear, RemoveFiles, RemoveDir, Scan, Unlink
<1>2. medium = "file"
  BY <1>1 DEF Placed, StagesOf, Stages, FileStep, Exists, Load, Find, Remove, Lock,
       FindDir, MkDir, Truncate, Write, FindDirToClear, RemoveFiles, RemoveDir, Scan, Unlink
<1> HIDE DEF Running
<1>3. /\ call[c] \in Frames /\ call[c].item \in Values \cup {None}
      /\ call[c].method \in Methods /\ stored \in Contents /\ dir \in BOOLEAN
      /\ None \in Results /\ "error" \in Results /\ "true" \in Results
      /\ call[c].item \in Results /\ Values \subseteq Results
  BY <1>1, RunningFrames DEF Frames, TypeOK, Results
<1>20. ASSUME NEW res \in Results, Ends(c, res)
       PROVE  Shaped(c) /\ call'[c].pc = "done"
  <2>1. call'[c] = [pc |-> "done", method |-> call[c].method, res |-> res]
    BY <1>1, <1>20, EndsShape
  <2>2. Shaped(c)
    BY <1>1, <1>20, EndsShape
  <2> QED  BY <2>1, <2>2
<1>4. None \in Contents /\ Torn \in Contents
  BY DEF Contents
<1>5. ASSUME NEW stage \in Stages.file, Goto(c, stage)
      PROVE  Shaped(c) /\ call'[c].pc = stage
  <2>1. stage \in UNION {Stages[m] : m \in DOMAIN Stages}
    BY <1>5 DEF Stages
  <2>2. call'[c] = [call[c] EXCEPT !.pc = stage]
    BY <1>1, <1>5, <2>1, GotoShape
  <2>3. Shaped(c)
    BY <1>1, <1>5, <2>1, GotoShape
  <2> QED  BY <1>3, <2>2, <2>3 DEF Frames
<1>6. CASE Exists(c)
  BY <1>1, <1>2, <1>3, <1>5, <1>6, <1>20 DEF Exists, Stays, Stages
<1>7. CASE Load(c)
  <2>1. CASE Ends(c, "error")
    BY <1>1, <1>2, <1>3, <1>7, <2>1, <1>20 DEF Load, Stays
  <2>2. CASE Ends(c, None)
    BY <1>1, <1>2, <1>3, <1>7, <2>2, <1>20 DEF Load, Stays
  <2>3. CASE Ends(c, Found(stored))
    BY <1>1, <1>2, <1>3, <1>7, <2>3, <1>20, EntryKinds DEF Load, Stays
  <2>4. CASE /\ UNCHANGED allowed
             /\ call' = [call EXCEPT ![c].pc = "find", ![c].seen = stored,
                                     ![c].item = Found(stored)]
    <3> DEFINE frame == [call[c] EXCEPT !.pc = "find", !.seen = stored,
                                        !.item = Found(stored)]
    <3>1. call' = [call EXCEPT ![c] = frame]
      BY <1>1, <2>4 DEF TypeOK
    <3>2. frame \in Frames /\ frame.method = call[c].method /\ frame.pc = "find"
      BY <1>3, EntryKinds DEF Frames
    <3>3. allowed' \in SUBSET (Values \cup {None})
      BY <2>4 DEF TypeOK
    <3> HIDE DEF frame
    <3>4. Shaped(c) /\ call'[c] = frame
      BY <1>1, <3>1, <3>2, <3>3, FrameShape
    <3> QED  BY <1>1, <1>2, <1>3, <1>7, <3>2, <3>4 DEF Load, Stays, Stages
  <2> QED  BY <1>7, <2>1, <2>2, <2>3, <2>4 DEF Load
<1>8. CASE Find(c)
  BY <1>1, <1>2, <1>3, <1>5, <1>8, <1>20 DEF Find, Stays, Stages
<1>9. CASE Remove(c)
  <2>1. CASE stored = None
    BY <1>1, <1>2, <1>3, <1>9, <1>20, <2>1 DEF Remove, Stays
  <2>2. CASE stored # None
    <3>1. Deletes(c) /\ UNCHANGED dir
      BY <1>9, <2>2 DEF Remove
    <3>2. /\ call'[c] = [pc |-> "done", method |-> call[c].method, res |-> call[c].item]
          /\ Shaped(c) /\ stored' = None
      BY <1>1, <3>1, DeletesShape
    <3> QED  BY <1>1, <1>2, <1>3, <1>4, <3>1, <3>2 DEF Stays
  <2> QED  BY <2>1, <2>2
<1>10. CASE Lock(c)
  BY <1>1, <1>2, <1>3, <1>5, <1>10 DEF Lock, Stays, Stages
<1>11. CASE FindDir(c)
  BY <1>1, <1>2, <1>3, <1>5, <1>11 DEF FindDir, Stays, Stages
<1>12. CASE MkDir(c)
  BY <1>1, <1>2, <1>3, <1>5, <1>12 DEF MkDir, Stays, Stages
<1>13. CASE Truncate(c)
  <2>1. CASE ~dir
    BY <1>1, <1>2, <1>3, <1>13, <2>1, <1>20 DEF Truncate, Stays
  <2>2. CASE dir
    <3> DEFINE sharing == {d \in Running : call[d].open # "no"}
    <3>1. /\ call' = [d \in Calls |->
                IF d = c THEN [call[d] EXCEPT !.pc = "write",
                                 !.open = IF sharing = {} THEN "alone" ELSE "shared"]
                ELSE IF d \in sharing THEN [call[d] EXCEPT !.open = "shared"]
                ELSE call[d]]
          /\ stored' = Torn /\ UNCHANGED <<allowed, dir>>
      BY <1>13, <2>2 DEF Truncate
    <3> HIDE DEF sharing
    <3>2. /\ call'[c] \in Frames /\ call'[c].pc = "write"
          /\ call'[c].method = call[c].method
      BY <1>3, <3>1 DEF Frames
    <3>3. ASSUME NEW d \in Calls \ {c}
          PROVE  \/ call'[d] = call[d]
                 \/ /\ d \in Running
                    /\ call'[d] \in Frames /\ call'[d].pc = call[d].pc
                    /\ call'[d].method = call[d].method
                    /\ call'[d].seen = call[d].seen /\ call'[d].item = call[d].item
      <4>1. d \in sharing => d \in Running
        BY DEF sharing
      <4>2. d \in Running => call[d] \in Frames
        BY RunningFrames
      <4>3. d \in sharing => call'[d] = [call[d] EXCEPT !.open = "shared"]
        BY <3>1, <3>3
      <4>4. d \notin sharing => call'[d] = call[d]
        BY <3>1, <3>3
      <4> QED  BY <4>1, <4>2, <4>3, <4>4 DEF Frames
    <3>4. call' \in [Calls -> Frames \cup Ended \cup {Idle}]
      <4>1. call' = [d \in Calls |-> call'[d]]
        BY <3>1
      <4>2. \A d \in Calls : call'[d] \in Frames \cup Ended \cup {Idle}
        BY <3>2, <3>3 DEF TypeOK
      <4> QED  BY <4>1, <4>2
    <3>5. Shaped(c)
      BY <3>1, <3>2, <3>3, <3>4 DEF Shaped, SameBut, TypeOK
    <3>6. stored' \in Contents /\ dir' \in BOOLEAN
      BY <1>3, <1>4, <3>1
    <3> QED  BY <1>1, <1>2, <3>2, <3>5, <3>6 DEF Stays, Stages
  <2> QED  BY <1>3, <2>1, <2>2
<1>14. CASE Write(c)
  <2>1. Written(c) \subseteq Contents
    BY DEF Written, Contents, Entries, Values
  <2>2. stored' \in Contents
    BY <1>3, <1>4, <1>14, <2>1 DEF Write
  <2> QED  BY <1>1, <1>2, <1>3, <1>14, <2>2, <1>20 DEF Write, Stays
<1>15. CASE FindDirToClear(c)
  BY <1>1, <1>2, <1>3, <1>5, <1>15, <1>20 DEF FindDirToClear, Stays, Stages
<1>16. CASE RemoveFiles(c)
  <2> DEFINE frame == [call[c] EXCEPT !.pc = "removeDir", !.open = "no"]
  <2>1. frame \in Frames /\ frame.method = call[c].method /\ frame.pc = "removeDir"
    BY <1>3 DEF Frames
  <2>2. call' = [Detached(call) EXCEPT ![c] = frame]
    BY <1>1, <1>3, <1>16 DEF RemoveFiles, Detached, Frames
  <2>3. allowed' \in SUBSET (Values \cup {None})
    BY <1>16 DEF RemoveFiles, TypeOK
  <2> HIDE DEF frame
  <2>4. Shaped(c) /\ call'[c] = frame
    BY <1>1, <2>1, <2>2, <2>3, DetachedShape
  <2> QED  BY <1>1, <1>2, <1>3, <1>4, <1>16, <2>1, <2>4 DEF RemoveFiles, Stays, Stages
<1>17. CASE RemoveDir(c)
  <2>1. CASE dir /\ stored = None
    <3>1. Ends(c, None) /\ dir' = FALSE /\ UNCHANGED stored
      BY <1>17, <2>1 DEF RemoveDir
    <3> QED  BY <1>1, <1>2, <1>3, <3>1, <1>20 DEF Stays
  <2>2. CASE ~(dir /\ stored = None)
    <3>1. Ends(c, "error") /\ UNCHANGED <<stored, dir>>
      BY <1>17, <2>2 DEF RemoveDir
    <3> QED  BY <1>1, <1>2, <1>3, <3>1, <1>20 DEF Stays
  <2> QED  BY <2>1, <2>2
<1>18. CASE Scan(c)
  <2>1. CASE Ends(c, None)
    <3>1. UNCHANGED <<stored, dir>>
      BY <1>18 DEF Scan
    <3> QED  BY <1>1, <1>2, <1>3, <2>1, <3>1, <1>20 DEF Stays
  <2>2. CASE /\ call' = [call EXCEPT ![c].pc = "unlink", ![c].seen = stored]
             /\ UNCHANGED allowed
    <3> DEFINE frame == [call[c] EXCEPT !.pc = "unlink", !.seen = stored]
    <3>1. call' = [call EXCEPT ![c] = frame]
      BY <1>1, <2>2 DEF TypeOK
    <3>2. frame \in Frames /\ frame.method = call[c].method /\ frame.pc = "unlink"
      BY <1>3 DEF Frames
    <3>3. allowed' \in SUBSET (Values \cup {None})
      BY <2>2 DEF TypeOK
    <3> HIDE DEF frame
    <3>4. Shaped(c) /\ call'[c] = frame
      BY <1>1, <3>1, <3>2, <3>3, FrameShape
    <3> QED  BY <1>1, <1>2, <1>3, <1>18, <3>2, <3>4 DEF Scan, Stays, Stages
  <2> QED  BY <1>18, <2>1, <2>2 DEF Scan
<1>19. CASE Unlink(c)
  <2> DEFINE frame == [pc |-> "done", method |-> call[c].method, res |-> None]
  <2>1. frame \in Frames \cup Ended /\ frame.method = call[c].method /\ frame.pc = "done"
    BY <1>3 DEF Ended
  <2>2. /\ call' = [Detached(call) EXCEPT ![c] = frame]
        /\ stored' = None /\ UNCHANGED dir
    BY <1>19 DEF Unlink
  <2>3. allowed' \in SUBSET (Values \cup {None})
    BY <1>19 DEF Unlink, TypeOK
  <2> HIDE DEF frame
  <2>4. Shaped(c) /\ call'[c] = frame
    BY <1>1, <2>1, <2>2, <2>3, DetachedShape
  <2> QED  BY <1>1, <1>2, <1>3, <1>4, <2>1, <2>2, <2>4 DEF Stays
<1> QED  BY <1>6, <1>7, <1>8, <1>9, <1>10, <1>11, <1>12, <1>13, <1>14, <1>15, <1>16,
            <1>17, <1>18, <1>19 DEF FileStep

LEMMA RequestKeeps ==
  ASSUME TypeOK, Placed, NEW c \in Calls,
         \/ RequestStep(c) \/ Await(c)
         \/ HasTable(c) \/ CreateTable(c) \/ CreateIfNotExists(c)
  PROVE  /\ Stays(c) /\ medium # "file" /\ stored' # Torn
         /\ call'[c].pc \in {"done"} \cup StagesOf(medium)
<1>1. c \in Running
  BY RunningFrames DEF RequestStep, Requests, Queries, RedisGet, GetDel, RedisSet,
       RedisUnlink, GetItem, PutItem, DeleteItem, NoTable, Select, DeleteRow, Upsert,
       PruneRows, Await, HasTable, CreateTable, CreateIfNotExists
<1>2. /\ medium \in {"redis", "dynamo"} \cup Databases /\ medium # "file"
      /\ medium = "dynamo" \/ call[c].pc # "deleteItem"
      /\ medium \in Databases \/ call[c].pc \notin {"await", "hasTable", "createTable", "deleteRow"}
  <2>1. medium \in {"file", "redis", "dynamo"} \cup Databases
    BY DEF TypeOK
  <2>2. call[c].pc \in {"await", "hasTable", "createTable", "query", "deleteItem", "deleteRow"}
    BY DEF RequestStep, Requests, Queries, RedisGet, GetDel, RedisSet,
       RedisUnlink, GetItem, PutItem, DeleteItem, NoTable, Select, DeleteRow, Upsert,
       PruneRows, Await, HasTable, CreateTable, CreateIfNotExists
  <2> QED  BY <1>1, <2>1, <2>2 DEF Placed, StagesOf, Stages, Databases
<1> HIDE DEF Running
<1>3. /\ call[c] \in Frames /\ call[c].item \in Values \cup {None}
      /\ call[c].method \in Methods /\ stored \in Contents /\ dir \in BOOLEAN
      /\ None \in Results /\ "error" \in Results /\ "true" \in Results
      /\ Found(stored) \in Results
  BY <1>1, RunningFrames, EntryKinds DEF Frames, TypeOK, Results
<1>4. /\ None \in Contents /\ None # Torn /\ stored # Torn
      /\ Written(c) \subseteq Entries /\ Entries \subseteq Contents \ {Torn}
  BY <1>2, EntryKinds DEF Contents, Written, Entries, Values, Placed
<1>5. ASSUME NEW res \in Results, Ends(c, res)
      PROVE  Shaped(c) /\ call'[c].pc = "done"
  <2>1. call'[c] = [pc |-> "done", method |-> call[c].method, res |-> res]
    BY <1>1, <1>5, EndsShape
  <2>2. Shaped(c)
    BY <1>1, <1>5, EndsShape
  <2> QED  BY <2>1, <2>2
<1>6. ASSUME NEW stage \in Stages.tables, Goto(c, stage)
      PROVE  Shaped(c) /\ call'[c].pc = stage
  <2>1. stage \in UNION {Stages[m] : m \in DOMAIN Stages}
    BY <1>6 DEF Stages
  <2>2. call'[c] = [call[c] EXCEPT !.pc = stage]
    BY <1>1, <1>6, <2>1, GotoShape
  <2>3. Shaped(c)
    BY <1>1, <1>6, <2>1, GotoShape
  <2> QED  BY <1>3, <2>2, <2>3 DEF Frames
<1>7. ASSUME NEW stage \in {"deleteItem", "deleteRow"}, UNCHANGED allowed,
             call' = [call EXCEPT ![c].pc = stage, ![c].seen = stored,
                                  ![c].item = Found(stored)]
      PROVE  Shaped(c) /\ call'[c].pc = stage
  <2> DEFINE frame == [call[c] EXCEPT !.pc = stage, !.seen = stored,
                                      !.item = Found(stored)]
  <2>1. call' = [call EXCEPT ![c] = frame]
    BY <1>1, <1>7 DEF TypeOK
  <2>2. frame \in Frames /\ frame.method = call[c].method /\ frame.pc = stage
    BY <1>3, EntryKinds DEF Frames
  <2>3. allowed' \in SUBSET (Values \cup {None})
    BY <1>7 DEF TypeOK
  <2> HIDE DEF frame
  <2> QED  BY <1>1, <2>1, <2>2, <2>3, FrameShape
<1>8. ASSUME Deletes(c)
      PROVE  Shaped(c) /\ call'[c].pc = "done" /\ stored' = None
  <2>1. /\ call'[c] = [pc |-> "done", method |-> call[c].method, res |-> call[c].item]
        /\ Shaped(c) /\ stored' = None
    BY <1>1, <1>8, DeletesShape
  <2> QED  BY <2>1
<1>9. \A stage \in Stages.tables : medium \in Databases => stage \in StagesOf(medium)
  BY DEF StagesOf, Databases
<1>10. ASSUME RequestStep(c)  PROVE Stays(c) /\ stored' # Torn /\ call'[c].pc \in {"done"} \cup StagesOf(medium)
  <2>1. CASE RedisGet(c) \/ GetDel(c) \/ RedisSet(c) \/ RedisUnlink(c) \/ PutItem(c)
    BY <1>1, <1>3, <1>4, <1>5, <2>1
    DEF RedisGet, GetDel, RedisSet, RedisUnlink, PutItem, Stays
  <2>2. CASE GetItem(c)
    <3>1. medium = "dynamo"
      BY <2>2 DEF GetItem, Requests
    <3> QED  BY <1>1, <1>3, <1>4, <1>5, <1>7, <2>2, <3>1 DEF GetItem, Stays, StagesOf, Stages
  <2>3. CASE DeleteItem(c) \/ DeleteRow(c)
    BY <1>1, <1>3, <1>4, <1>8, <2>3 DEF DeleteItem, DeleteRow, Stays
  <2>4. CASE NoTable(c)
    BY <1>1, <1>3, <1>4, <1>5, <2>4 DEF NoTable, Stays
  <2>5. CASE Select(c)
    <3>1. medium \in Databases
      BY <2>5 DEF Select, Queries
    <3> QED  BY <1>1, <1>3, <1>4, <1>5, <1>7, <1>9, <2>5, <3>1 DEF Select, Stays, Stages
  <2>6. CASE Upsert(c)
    <3>1. ASSUME NEW entry \in Written(c)
          PROVE  Kept(entry) \in Entries
      <4>1. entry \in Entries
        BY <1>4
      <4>2. stored = None \/ (stored \in Entries /\ stored.until \in {"never", "later", "past"})
        BY <1>4, EntryKinds DEF Entries
      <4> QED  BY <4>1, <4>2 DEF Kept, Entries
    <3>2. PICK row \in Upserted(c) :
            /\ stored' = row
            /\ IF Lapsed(row)
                 THEN /\ call' = [call EXCEPT ![c] =
                            [pc |-> "done", method |-> "set", res |-> "true"]]
                      /\ allowed' = allowed \cup {None}
                 ELSE Ends(c, "true")
      BY <2>6 DEF Upsert
    <3>3. stored' \in Entries /\ dir' \in BOOLEAN
      BY <1>3, <1>4, <2>6, <3>1, <3>2 DEF Upserted, Upsert
    <3>4. Shaped(c) /\ call'[c].pc = "done"
      <4>1. CASE ~Lapsed(row)
        BY <1>3, <1>5, <3>2, <4>1
      <4>2. CASE Lapsed(row)
        <5> DEFINE frame == [pc |-> "done", method |-> "set", res |-> "true"]
        <5>1. frame \in Frames \cup Ended /\ frame.method = call[c].method /\ frame.pc = "done"
          BY <1>3, <2>6 DEF Upsert, Queries, Ended
        <5>2. call' = [call EXCEPT ![c] = frame]
          BY <3>2, <4>2
        <5>3. allowed' \in SUBSET (Values \cup {None})
          BY <3>2, <4>2 DEF TypeOK
        <5> HIDE DEF frame
        <5> QED  BY <1>1, <5>1, <5>2, <5>3, FrameShape
      <4> QED  BY <4>1, <4>2
    <3> QED  BY <1>1, <1>4, <3>3, <3>4 DEF Stays
  <2>7. CASE PruneRows(c)
    BY <1>1, <1>3, <1>4, <1>5, <2>7 DEF PruneRows, Pruned, Stays
  <2> QED  BY <1>10, <2>1, <2>2, <2>3, <2>4, <2>5, <2>6, <2>7 DEF RequestStep
<1>11. CASE Await(c)
  BY <1>1, <1>2, <1>3, <1>4, <1>5, <1>6, <1>9, <1>11 DEF Await, Stays, Stages
<1>12. CASE HasTable(c)
  BY <1>1, <1>2, <1>3, <1>4, <1>5, <1>6, <1>9, <1>12 DEF HasTable, Stays, Stages
<1>13. CASE CreateTable(c)
  BY <1>1, <1>2, <1>3, <1>4, <1>5, <1>6, <1>9, <1>13 DEF CreateTable, Stays, Stages
<1>14. CASE CreateIfNotExists(c)
  BY <1>1, <1>2, <1>3, <1>4, <1>5, <1>6, <1>9, <1>14 DEF CreateIfNotExists, Stays, Stages
<1> QED  BY <1>2, <1>10, <1>11, <1>12, <1>13, <1>14

LEMMA InitTypes == Init => TypeOK /\ Placed
<1> SUFFICES ASSUME Init  PROVE TypeOK /\ Placed
  OBVIOUS
<1>1. stored \in Contents /\ allowed \in SUBSET (Values \cup {None})
  BY DEF Init, Contents, Entries, Values
<1>2. Running = {}
  BY DEF Init, Idle, Running
<1>3. stored # Torn
  BY DriversAssumption, EntriesAssumption DEF Init, Entries, Values
<1>4. crashes \in 0..MaxCrashes
  BY DriversAssumption DEF Init
<1>5. call \in [Calls -> Frames \cup Ended \cup {Idle}]
  BY DEF Init
<1> QED  BY <1>1, <1>2, <1>3, <1>4, <1>5 DEF Init, TypeOK, Placed

LEMMA BeginKeeps ==
  ASSUME TypeOK, Placed, NEW c \in Calls, NEW method \in Methods, Begin(c, method)
  PROVE  /\ TypeOK' /\ Placed'
         /\ call' = [call EXCEPT ![c] = [pc |-> FirstStage(method), method |-> method,
                                        seen |-> None, item |-> None, open |-> "no"]]
         /\ FirstStage(method) \in StagesOf(medium)
<1>1. FirstStage(method) \in StagesOf(medium)
  <2>1. DatabaseStage \in Stages.tables
    BY DEF DatabaseStage, Stages
  <2>2. FileStage[method] \in Stages.file
    BY DEF FileStage, Stages, Methods
  <2>3. "query" \in Stages.redis /\ "query" \in Stages.dynamo
    BY DEF Stages
  <2>4. medium \in {"file", "redis", "dynamo"} \cup Databases
    BY DEF TypeOK
  <2> QED  BY <2>1, <2>2, <2>3, <2>4 DEF FirstStage, StagesOf, Databases
<1> DEFINE frame == [pc |-> FirstStage(method), method |-> method,
                     seen |-> None, item |-> None, open |-> "no"]
<1>2. frame \in Frames
  <2>1. FirstStage(method) \in Stages.file \cup Stages.redis \cup Stages.dynamo \cup Stages.tables
    BY <1>1 DEF StagesOf
  <2> HIDE DEF FirstStage
  <2> QED  BY <2>1 DEF Frames, Stages, Contents
<1>3. call' = [call EXCEPT ![c] = frame]
  BY DEF Begin
<1>4. frame.pc = FirstStage(method)
  OBVIOUS
<1> HIDE DEF frame
<1>5. call' \in [Calls -> Frames \cup Ended \cup {Idle}]
  BY <1>2, <1>3 DEF TypeOK
<1>6. maker' \in {"none", "running", "made", "failed"}
  BY DEF Begin, TypeOK
<1>7. overlapped' \in SUBSET Calls /\ allowed' \in SUBSET (Values \cup {None})
  BY DEF Begin, Starts, Outcome, Values, TypeOK, Running
<1>8. TypeOK'
  BY <1>5, <1>6, <1>7 DEF Begin, TypeOK, siteVars
<1>9. \A d \in Running' : call'[d].pc \in StagesOf(medium)
  BY <1>1, <1>3, <1>4 DEF Running, Placed, TypeOK
<1>10. Placed'
  BY <1>9 DEF Placed, Begin, siteVars
<1> QED  BY <1>1, <1>3, <1>8, <1>10 DEF frame

LEMMA StepKeeps ==
  ASSUME TypeOK, Placed, NEW c \in Calls, Step(c)
  PROVE  TypeOK' /\ Placed' /\ Stays(c)
<1>1. /\ Stays(c) /\ (medium # "file" => stored' # Torn)
      /\ call'[c].pc \in {"done"} \cup StagesOf(medium)
  BY FileKeeps, RequestKeeps DEF Step, StagesOf
<1>2. maker' \in {"none", "running", "made", "failed"}
  BY DEF Step, HasTable, CreateTable, CreateIfNotExists, TypeOK
<1>3. TypeOK'
  BY <1>1, <1>2 DEF Step, Stays, Shaped, TypeOK, siteVars
<1>4. ASSUME NEW d \in Running'
      PROVE  call'[d].pc \in StagesOf(medium)
  <2>1. CASE d = c
    BY <1>1, <2>1 DEF Running
  <2>2. CASE d # c
    <3>1. d \in Calls /\ call'[d].pc \notin {"idle", "done"}
      BY DEF Running
    <3>2. call'[d].pc = call[d].pc
      BY <1>1, <2>2, <3>1 DEF Stays, Shaped, SameBut
    <3>3. d \in Running
      BY <3>1, <3>2 DEF Running
    <3> QED  BY <3>2, <3>3 DEF Placed
  <2> QED  BY <2>1, <2>2
<1>5. medium' = medium
  BY DEF Step, siteVars
<1>6. Placed'
  BY <1>1, <1>4, <1>5 DEF Placed
<1> QED  BY <1>1, <1>3, <1>6

LEMMA LapseKeeps ==
  ASSUME TypeOK, Placed, Lapse
  PROVE  TypeOK' /\ Placed' /\ stored' \in Entries /\ stored'.val = stored.val
<1>1. stored' \in Entries /\ stored'.val = stored.val
  BY DEF Lapse, Entries
<1>2. allowed' \in SUBSET (Values \cup {None})
  BY DEF Lapse, TypeOK
<1>3. TypeOK'
  BY <1>1, <1>2 DEF Lapse, TypeOK, siteVars, Contents
<1>4. Placed'
  BY <1>1, EntriesAssumption DEF Lapse, Placed, siteVars, Running
<1> QED  BY <1>1, <1>3, <1>4

LEMMA CreatedKeeps == ASSUME TypeOK, Placed, Created  PROVE TypeOK' /\ Placed'
<1>1. TypeOK'
  BY DEF Created, TypeOK, siteVars
<1>2. Placed'
  BY DEF Created, Placed, siteVars, Running
<1> QED  BY <1>1, <1>2

LEMMA CrashKeeps == ASSUME TypeOK, Placed, Crash  PROVE TypeOK' /\ Placed' /\ Running' = {}
<1>1. \A c \in Calls : call'[c].pc \in {"idle", "done"} /\ call'[c] \in Frames \cup Ended \cup {Idle}
  <2> SUFFICES ASSUME NEW c \in Calls
               PROVE  call'[c].pc \in {"idle", "done"} /\ call'[c] \in Frames \cup Ended \cup {Idle}
    OBVIOUS
  <2>1. CASE c \in Running
    <3>1. call[c] \in Frames /\ call[c].method \in Methods
      BY <2>1, RunningFrames DEF Frames
    <3>2. call'[c] = [pc |-> "done", method |-> call[c].method, res |-> "error"]
      BY <2>1 DEF Crash
    <3> QED  BY <3>1, <3>2 DEF Ended, Results
  <2>2. CASE c \notin Running
    BY <2>2 DEF Crash, Running, TypeOK
  <2> QED  BY <2>1, <2>2
<1>2. call' \in [Calls -> Frames \cup Ended \cup {Idle}]
  <2>1. call' = [c \in Calls |-> call'[c]]
    BY DEF Crash
  <2> QED  BY <1>1, <2>1
<1>3. crashes' \in 0..MaxCrashes
  BY DriversAssumption DEF Crash, TypeOK
<1>4. TypeOK'
  BY <1>2, <1>3 DEF Crash, TypeOK, siteVars
<1>5. Running' = {}
  BY <1>1 DEF Running
<1>6. Placed'
  BY <1>5 DEF Placed, Crash, siteVars
<1> QED  BY <1>4, <1>5, <1>6

LEMMA Invariant == Spec => [](TypeOK /\ Placed)
<1>1. TypeOK /\ Placed /\ [Next]_vars => (TypeOK /\ Placed)'
  <2> SUFFICES ASSUME TypeOK, Placed, [Next]_vars  PROVE TypeOK' /\ Placed'
    OBVIOUS
  <2>1. ASSUME NEW c \in Calls, Step(c)  PROVE TypeOK' /\ Placed'
    BY <2>1, StepKeeps
  <2>2. ASSUME NEW c \in Calls, NEW method \in Methods, Begin(c, method)
        PROVE  TypeOK' /\ Placed'
    BY <2>2, BeginKeeps
  <2>3. CASE UNCHANGED vars
    BY <2>3 DEF vars, siteVars, TypeOK, Placed, Running
  <2> QED  BY <2>1, <2>2, <2>3, LapseKeeps, CreatedKeeps, CrashKeeps DEF Next
<1> QED  BY <1>1, InitTypes, PTL DEF Spec

(* The driver's frames, results and history keep their types.              *)
THEOREM DriversTypeCorrect == Spec => []TypeOK
  BY Invariant, PTL

----------------------------------------------------------------------------
(* Files are whole at rest.                                                *)

Writing(c) == c \in Running /\ call[c].pc \in {"dir", "mkdir", "truncate", "write"}
HasOpen(c) == c \in Running /\ call[c].open # "no"

(* One set writes at a time, has the file open while it writes it, and is  *)
(* there as long as the file is torn, unless a crash tore it.              *)
OneWriter ==
  medium = "file" =>
  /\ \A c, d \in Calls : Writing(c) /\ Writing(d) => c = d
  /\ \A c \in Calls : HasOpen(c) => call[c].pc = "write" /\ call[c].open = "alone"
  /\ crashes = 0 /\ stored = Torn => \E c \in Calls : HasOpen(c)

LEMMA OpenFrames ==
  ASSUME TypeOK, NEW c \in Running
  PROVE  call[c].open \in {"no", "alone", "shared"}
BY RunningFrames DEF Frames, Running

(* A step that leaves the other calls alone, the file as it is, and does   *)
(* not take c into the section or to the file.                             *)
LEMMA PlainStep ==
  ASSUME TypeOK, OneWriter, medium = "file", NEW c \in Running,
         \A d \in Calls \ {c} : call'[d] = call[d],
         UNCHANGED <<medium, crashes, stored>>, ~HasOpen(c), HasOpen(c)' = FALSE,
         Writing(c)' => Writing(c) \/ \A d \in Calls : ~Writing(d)
  PROVE  OneWriter'
<1>1. \A d \in Calls \ {c} : (Writing(d)' <=> Writing(d)) /\ (HasOpen(d)' <=> HasOpen(d))
  BY DEF Writing, HasOpen, Running
<1>2. ASSUME NEW d \in Calls, NEW e \in Calls, Writing(d)', Writing(e)'
      PROVE  d = e
  BY <1>1, <1>2 DEF OneWriter
<1>3. \A d \in Calls : HasOpen(d)' => call'[d].pc = "write" /\ call'[d].open = "alone"
  BY <1>1 DEF OneWriter
<1>4. crashes' = 0 /\ stored' = Torn => \E d \in Calls : HasOpen(d)'
  BY <1>1 DEF OneWriter
<1> QED  BY <1>2, <1>3, <1>4 DEF OneWriter

(* A step that removes the file and closes it for everybody.               *)
LEMMA RemovingStep ==
  ASSUME TypeOK, OneWriter, medium = "file", NEW c \in Running, NEW frame \in Frames \cup Ended,
         call' = [Detached(call) EXCEPT ![c] = frame],
         frame.pc \notin {"dir", "mkdir", "truncate", "write"},
         frame \in Frames => frame.open = "no",
         UNCHANGED medium, stored' = None
  PROVE  OneWriter'
<1>1. c \in Calls
  BY DEF Running
<1>2. call'[c] = frame
  BY <1>1 DEF Detached
<1>3. ASSUME NEW d \in Calls, d # c
      PROVE  /\ d \in Running' <=> d \in Running
             /\ d \in Running => call'[d].pc = call[d].pc /\ call'[d].open = "no"
  <2>1. call'[d] = IF d \in Running THEN [call[d] EXCEPT !.open = "no"] ELSE call[d]
    BY <1>3 DEF Detached
  <2>2. d \in Running => call[d] \in Frames
    BY RunningFrames
  <2>3. d \in Running => call'[d].pc = call[d].pc /\ call'[d].open = "no"
    <3> HIDE DEF Running
    <3> QED  BY <2>1, <2>2 DEF Frames
  <2> QED  BY <2>1, <2>3 DEF Running
<1>4. \A d \in Calls : ~HasOpen(d)'
  BY <1>2, <1>3 DEF HasOpen, Running, Ended
<1>5. \A d \in Calls : Writing(d)' => d # c /\ Writing(d)
  BY <1>2, <1>3 DEF Writing
<1>6. stored' # Torn
  BY DriversAssumption
<1> QED  BY <1>4, <1>5, <1>6 DEF OneWriter

LEMMA OneWriterStep ==
  ASSUME TypeOK, Placed, OneWriter, NEW c \in Calls, FileStep(c), UNCHANGED <<medium, crashes>>
  PROVE  OneWriter'
<1>1. c \in Running /\ medium = "file" /\ call[c] \in Frames
  BY FileKeeps, RunningFrames DEF Stays
<1>2. ASSUME NEW res \in Results, Ends(c, res), call[c].pc # "write", UNCHANGED stored
      PROVE  OneWriter'
  <2>1. ~HasOpen(c)
    BY <1>1, <1>2 DEF OneWriter
  <2>2. call'[c].pc = "done" /\ \A d \in Calls \ {c} : call'[d] = call[d]
    BY <1>2 DEF Ends, TypeOK
  <2>3. HasOpen(c)' = FALSE /\ ~Writing(c)'
    BY <2>2 DEF HasOpen, Writing, Running
  <2> QED  BY <1>1, <1>2, <2>1, <2>2, <2>3, PlainStep
<1>3. ASSUME NEW frame \in Frames, call' = [call EXCEPT ![c] = frame],
             frame.open = call[c].open, UNCHANGED stored, call[c].pc # "write",
             frame.pc \in {"dir", "mkdir", "truncate", "write"} =>
               Writing(c) \/ \A d \in Calls : ~Writing(d)
      PROVE  OneWriter'
  <2>1. ~HasOpen(c)
    BY <1>1, <1>3 DEF OneWriter
  <2>2. call'[c] = frame /\ \A d \in Calls \ {c} : call'[d] = call[d]
    BY <1>3 DEF TypeOK
  <2>3. HasOpen(c)' = FALSE
    BY <1>1, <1>3, <2>1, <2>2 DEF HasOpen
  <2>4. Writing(c)' => Writing(c) \/ \A d \in Calls : ~Writing(d)
    BY <1>3, <2>2 DEF Writing
  <2> QED  BY <1>1, <1>3, <2>1, <2>2, <2>3, <2>4, PlainStep
<1>4. ASSUME NEW stage \in Stages.file, Goto(c, stage), UNCHANGED stored, call[c].pc # "write",
             stage \in {"dir", "mkdir", "truncate", "write"} =>
               Writing(c) \/ \A d \in Calls : ~Writing(d)
      PROVE  OneWriter'
  <2> DEFINE frame == [call[c] EXCEPT !.pc = stage]
  <2>1. call' = [call EXCEPT ![c] = frame]
    BY <1>4 DEF Goto
  <2>2. frame \in Frames /\ frame.open = call[c].open /\ frame.pc = stage
    BY <1>1, <1>4 DEF Frames, Stages
  <2> HIDE DEF frame
  <2> QED  BY <1>3, <1>4, <2>1, <2>2
<1>5. /\ None \in Results /\ "error" \in Results /\ "true" \in Results
      /\ call[c].item \in Results /\ Found(stored) \in Results
  BY <1>1, EntryKinds DEF Results, Frames
<1>6. CASE Exists(c)
  BY <1>2, <1>4, <1>5, <1>6 DEF Exists, Stages
<1>7. CASE Load(c)
  <2>1. CASE UNCHANGED allowed /\ call' = [call EXCEPT ![c].pc = "find", ![c].seen = stored,
                                                     ![c].item = Found(stored)]
    <3> DEFINE frame == [call[c] EXCEPT !.pc = "find", !.seen = stored, !.item = Found(stored)]
    <3>1. call' = [call EXCEPT ![c] = frame]
      BY <2>1
    <3>2. frame \in Frames /\ frame.open = call[c].open /\ frame.pc = "find"
      BY <1>1, EntryKinds DEF Frames, TypeOK
    <3> HIDE DEF frame
    <3>3. UNCHANGED stored /\ call[c].pc # "write"
      BY <1>7 DEF Load
    <3> QED  BY <1>3, <3>1, <3>2, <3>3
  <2>2. CASE Ends(c, "error") \/ Ends(c, None) \/ Ends(c, Found(stored))
    BY <1>2, <1>5, <1>7, <2>2 DEF Load
  <2> QED  BY <1>7, <2>1, <2>2 DEF Load
<1>8. CASE Find(c)
  BY <1>2, <1>4, <1>5, <1>8 DEF Find, Stages
<1>9. CASE Remove(c)
  <2>1. CASE stored = None
    BY <1>2, <1>5, <1>9, <2>1 DEF Remove
  <2>2. CASE stored # None
    <3> DEFINE frame == [pc |-> "done", method |-> call[c].method, res |-> call[c].item]
    <3>1. frame \in Frames \cup Ended /\ frame.pc = "done" /\ frame \notin Frames
      BY <1>1, <1>5 DEF Ended, Frames
    <3>2. call' = [Detached(call) EXCEPT ![c] = frame] /\ stored' = None
      BY <1>9, <2>2 DEF Remove, Deletes
    <3> HIDE DEF frame
    <3> QED  BY <1>1, <3>1, <3>2, RemovingStep
  <2> QED  BY <2>1, <2>2
<1>10. CASE Lock(c)
  <2>1. \A d \in Calls : ~Writing(d)
    BY <1>10 DEF Lock, Writing
  <2> QED  BY <1>4, <1>10, <2>1 DEF Lock, Stages
<1>11. CASE FindDir(c)
  <2>1. Writing(c)
    BY <1>1, <1>11 DEF FindDir, Writing
  <2> QED  BY <1>4, <1>11, <2>1 DEF FindDir, Stages
<1>12. CASE MkDir(c)
  <2>1. Writing(c)
    BY <1>1, <1>12 DEF MkDir, Writing
  <2> QED  BY <1>4, <1>12, <2>1 DEF MkDir, Stages
<1>13. CASE Truncate(c)
  <2>1. CASE ~dir
    BY <1>2, <1>5, <1>13, <2>1 DEF Truncate
  <2>2. CASE dir
    <3>1. Writing(c)
      BY <1>1, <1>13 DEF Truncate, Writing
    <3>2. \A d \in Calls : ~HasOpen(d)
      BY <1>1, <1>13, <3>1 DEF Truncate, OneWriter, Writing, HasOpen
    <3>3. {d \in Running : call[d].open # "no"} = {}
      BY <3>2 DEF HasOpen, Running
    <3>4. /\ call' = [call EXCEPT ![c] = [call[c] EXCEPT !.pc = "write", !.open = "alone"]]
          /\ stored' = Torn
      BY <1>13, <2>2, <3>3 DEF Truncate, TypeOK
    <3>5. /\ call'[c].pc = "write" /\ call'[c].open = "alone"
          /\ \A d \in Calls \ {c} : call'[d] = call[d]
      BY <1>1, <3>4 DEF TypeOK, Frames
    <3>6. Writing(c)' /\ HasOpen(c)'
      BY <3>5 DEF Writing, HasOpen, Running
    <3>7. \A d \in Calls \ {c} : ~Writing(d)' /\ ~HasOpen(d)'
      BY <1>1, <3>1, <3>2, <3>5 DEF Writing, HasOpen, Running, OneWriter
    <3> QED  BY <3>5, <3>6, <3>7 DEF OneWriter
  <2> QED  BY <2>1, <2>2 DEF TypeOK
<1>14. CASE Write(c)
  <2>1. Writing(c) /\ call'[c].pc = "done" /\ \A d \in Calls \ {c} : call'[d] = call[d]
    BY <1>1, <1>14 DEF Write, Ends, TypeOK, Writing
  <2>2. ~Writing(c)' /\ ~HasOpen(c)'
    BY <2>1 DEF Writing, HasOpen, Running
  <2>3. \A d \in Calls \ {c} : ~Writing(d)' /\ ~HasOpen(d)' /\ ~HasOpen(d)
    BY <1>1, <2>1 DEF Writing, HasOpen, Running, OneWriter
  <2>4. crashes = 0 => stored' # Torn
    <3>1. CASE call[c].open = "no"
      BY <1>1, <1>14, <2>3, <3>1 DEF Write, OneWriter, HasOpen
    <3>2. CASE call[c].open # "no"
      <4>1. call[c].open = "alone"
        BY <1>1, <3>2 DEF OneWriter, HasOpen
      <4>2. stored' \in Entries
        BY <1>14, <4>1 DEF Write, Written, Entries, Values
      <4> QED  BY <4>2, EntriesAssumption
    <3> QED  BY <3>1, <3>2
  <2> QED  BY <2>2, <2>3, <2>4 DEF OneWriter
<1>15. CASE FindDirToClear(c)
  BY <1>2, <1>4, <1>5, <1>15 DEF FindDirToClear, Stages
<1>16. CASE RemoveFiles(c)
  <2> DEFINE frame == [call[c] EXCEPT !.pc = "removeDir", !.open = "no"]
  <2>1. frame \in Frames /\ frame.open = "no" /\ frame.pc = "removeDir"
    BY <1>1 DEF Frames
  <2>2. call' = [Detached(call) EXCEPT ![c] = frame] /\ stored' = None
    BY <1>1, <1>16 DEF RemoveFiles, Detached, Frames
  <2> HIDE DEF frame
  <2> QED  BY <1>1, <2>1, <2>2, RemovingStep
<1>17. CASE RemoveDir(c)
  BY <1>2, <1>5, <1>17 DEF RemoveDir
<1>18. CASE Scan(c)
  <2>1. CASE Ends(c, None)
    BY <1>2, <1>5, <1>18, <2>1 DEF Scan
  <2>2. CASE call' = [call EXCEPT ![c].pc = "unlink", ![c].seen = stored]
    <3> DEFINE frame == [call[c] EXCEPT !.pc = "unlink", !.seen = stored]
    <3>1. call' = [call EXCEPT ![c] = frame]
      BY <2>2
    <3>2. frame \in Frames /\ frame.open = call[c].open /\ frame.pc = "unlink"
      BY <1>1 DEF Frames, TypeOK
    <3> HIDE DEF frame
    <3>3. UNCHANGED stored /\ call[c].pc # "write"
      BY <1>18 DEF Scan
    <3> QED  BY <1>3, <3>1, <3>2, <3>3
  <2> QED  BY <1>18, <2>1, <2>2 DEF Scan
<1>19. CASE Unlink(c)
  <2> DEFINE frame == [pc |-> "done", method |-> call[c].method, res |-> None]
  <2>1. frame \in Frames \cup Ended /\ frame.pc = "done" /\ frame \notin Frames
    BY <1>1, <1>5 DEF Ended, Frames
  <2>2. call' = [Detached(call) EXCEPT ![c] = frame] /\ stored' = None
    BY <1>19 DEF Unlink
  <2> HIDE DEF frame
  <2> QED  BY <1>1, <2>1, <2>2, RemovingStep
<1> QED  BY <1>6, <1>7, <1>8, <1>9, <1>10, <1>11, <1>12, <1>13, <1>14, <1>15, <1>16,
            <1>17, <1>18, <1>19 DEF FileStep

LEMMA OneWriterElsewhere ==
  ASSUME TypeOK, Placed, OneWriter, Placed',
         \/ \E c \in Calls, method \in Methods : Begin(c, method)
         \/ Lapse \/ Created \/ Crash \/ UNCHANGED vars
  PROVE  OneWriter'
<1>1. ASSUME NEW c \in Calls, NEW method \in Methods, Begin(c, method), medium = "file"
      PROVE  OneWriter'
  <2>1. /\ call' = [call EXCEPT ![c] = [pc |-> FirstStage(method), method |-> method,
                                       seen |-> None, item |-> None, open |-> "no"]]
        /\ c \notin Running
    BY <1>1, BeginKeeps DEF Begin, Running
  <2>2. FirstStage(method) \notin {"dir", "mkdir", "truncate", "write"}
    BY <1>1 DEF FirstStage, FileStage, Methods, Databases
  <2>3. call'[c].pc = FirstStage(method) /\ call'[c].open = "no"
    BY <2>1 DEF TypeOK
  <2>4. ~Writing(c)' /\ ~HasOpen(c)' /\ ~Writing(c) /\ ~HasOpen(c)
    BY <2>1, <2>2, <2>3 DEF Writing, HasOpen
  <2>5. \A d \in Calls \ {c} : call'[d] = call[d] /\ (Writing(d)' <=> Writing(d))
                               /\ (HasOpen(d)' <=> HasOpen(d))
    BY <2>1 DEF Writing, HasOpen, Running, TypeOK
  <2>6. UNCHANGED <<medium, crashes, stored>>
    BY <1>1 DEF Begin, siteVars
  <2> QED  BY <2>4, <2>5, <2>6 DEF OneWriter
<1>2. CASE Lapse
  <2>1. stored' # Torn
    BY <1>2, LapseKeeps, EntriesAssumption
  <2> QED  BY <1>2, <2>1 DEF Lapse, OneWriter, Writing, HasOpen, Running, siteVars
<1>3. CASE Created
  BY <1>3 DEF Created, OneWriter, Writing, HasOpen, Running, siteVars, Databases
<1>4. CASE Crash
  <2>1. Running' = {} /\ crashes' # 0
    BY <1>4, CrashKeeps, DriversAssumption DEF Crash, TypeOK
  <2> QED  BY <2>1 DEF OneWriter, Writing, HasOpen
<1>5. CASE UNCHANGED vars
  BY <1>5 DEF vars, OneWriter, Writing, HasOpen, Running, siteVars
<1>6. medium' = medium
  BY DEF Begin, Lapse, Created, Crash, siteVars, vars
<1>7. medium # "file" => OneWriter'
  BY <1>6 DEF OneWriter
<1> QED  BY <1>1, <1>2, <1>3, <1>4, <1>5, <1>7

LEMMA WriterInvariant == Spec => []OneWriter
<1>1. Init => OneWriter
  <2> SUFFICES ASSUME Init  PROVE OneWriter
    OBVIOUS
  <2>1. Running = {}
    BY DEF Init, Idle, Running
  <2>2. stored # Torn
    BY DriversAssumption, EntriesAssumption DEF Init, Entries, Values
  <2> QED  BY <2>1, <2>2, DriversAssumption, EntriesAssumption DEF OneWriter, Writing, HasOpen
<1>2. TypeOK /\ Placed /\ (TypeOK /\ Placed)' /\ OneWriter /\ [Next]_vars => OneWriter'
  <2> SUFFICES ASSUME TypeOK, Placed, Placed', OneWriter, [Next]_vars  PROVE OneWriter'
    OBVIOUS
  <2>1. ASSUME NEW c \in Calls, Step(c)  PROVE OneWriter'
    <3>1. CASE FileStep(c)
      BY <2>1, <3>1, OneWriterStep DEF Step, siteVars
    <3>2. CASE ~FileStep(c)
      <4>1. medium # "file" /\ medium' = medium
        BY <2>1, <3>2, RequestKeeps DEF Step, siteVars
      <4> QED  BY <4>1 DEF OneWriter
    <3> QED  BY <3>1, <3>2
  <2> QED  BY <2>1, OneWriterElsewhere DEF Next
<1> QED  BY <1>1, <1>2, Invariant, PTL DEF Spec

(* Whatever sets overlap, a file is whole when no call runs, unless a      *)
(* process died while it wrote.                                            *)
THEOREM DriversWholeAtRest == Spec => []WholeAtRest
<1>1. Placed /\ OneWriter => WholeAtRest
  BY DEF Placed, OneWriter, WholeAtRest, HasOpen
<1> QED  BY <1>1, Invariant, WriterInvariant, PTL

----------------------------------------------------------------------------
(* Only overlapped calls fail.                                             *)

Lone(c) == c \in Running /\ c \notin overlapped
Making(c) == c \in Running /\ call[c].pc \in {"hasTable", "createTable"}

Overlapping == \A c, d \in Running : c # d => c \in overlapped

(* What a call that is alone found is still there.                         *)
LoneFinds ==
  medium = "file" =>
  \A c \in Calls : Lone(c) =>
    /\ call[c].pc = "load" => stored # None /\ (crashes = 0 => stored # Torn)
    /\ call[c].pc = "remove" => stored # None
    /\ call[c].pc \in {"truncate", "removeFiles", "removeDir"} => dir
    /\ call[c].pc = "removeDir" => stored = None

(* At most one call makes the table, and nobody gets past it before.       *)
TableMade ==
  medium \in Databases =>
  /\ maker = "made" => dir
  /\ \A c, d \in Calls : Making(c) /\ Making(d) => c = d
  /\ \A c \in Calls : Making(c) => maker = "running"
  /\ \A c \in Running : call[c].pc = "await" => maker # "none"
  /\ \A c \in Running : call[c].pc \in {"query", "deleteRow"} /\ handle # "namespace"
                        => maker = "made"

LoneInv == Overlapping /\ LoneFinds /\ TableMade

LEMMA StepRunning ==
  ASSUME TypeOK, Placed, NEW c \in Calls, Step(c)
  PROVE  /\ c \in Running
         /\ \A d \in Calls \ {c} : /\ d \in Running' <=> d \in Running
                                 /\ call'[d].pc = call[d].pc
                                 /\ d \notin Running => call'[d] = call[d]
         /\ overlapped' = overlapped /\ medium' = medium /\ handle' = handle /\ crashes' = crashes
<1>1. c \in Running /\ SameBut(c)
  BY StepKeeps DEF Stays, Shaped
<1>2. overlapped' = overlapped /\ medium' = medium /\ handle' = handle /\ crashes' = crashes
  BY DEF Step, siteVars
<1> QED  BY <1>1, <1>2 DEF SameBut, Running

LEMMA PcAfter ==
  ASSUME TypeOK, NEW c \in Running
  PROVE  /\ \A res : Ends(c, res) => call'[c] = [pc |-> "done", method |-> call[c].method, res |-> res]
         /\ \A res : Ends(c, res) => call'[c].pc = "done"
         /\ \A stage : Goto(c, stage) => call'[c].pc = stage
         /\ Deletes(c) => call'[c].pc = "done" /\ stored' = None
<1>1. c \in Calls /\ call[c] \in Frames
  BY RunningFrames DEF Running
<1> HIDE DEF Running
<1>2. ASSUME NEW res, Ends(c, res)
      PROVE  call'[c] = [pc |-> "done", method |-> call[c].method, res |-> res] /\ call'[c].pc = "done"
  BY <1>1, <1>2 DEF Ends, TypeOK
<1>3. ASSUME NEW stage, Goto(c, stage)
      PROVE  call'[c].pc = stage
  <2>1. call'[c] = [call[c] EXCEPT !.pc = stage]
    BY <1>1, <1>3 DEF Goto, TypeOK
  <2> QED  BY <1>1, <2>1 DEF Frames
<1>4. ASSUME Deletes(c)  PROVE call'[c].pc = "done" /\ stored' = None
  <2>1. /\ call'[c] = [pc |-> "done", method |-> call[c].method, res |-> call[c].item]
        /\ stored' = None
    BY <1>4, DeletesShape
  <2> QED  BY <2>1
<1> QED  BY <1>2, <1>3, <1>4

LEMMA TableStep ==
  ASSUME TypeOK, Placed, TableMade, NEW c \in Calls, Step(c)
  PROVE  TableMade' /\ (maker = "failed" => maker' = "failed")
<1>0. /\ c \in Running /\ medium' = medium /\ handle' = handle
      /\ \A d \in Calls \ {c} : (d \in Running' <=> d \in Running) /\ call'[d].pc = call[d].pc
  <2>1. c \in Running /\ medium' = medium /\ handle' = handle
    BY StepRunning
  <2>2. SameBut(c)
    BY StepKeeps DEF Stays, Shaped
  <2>3. ASSUME NEW d \in Calls \ {c}
        PROVE  (d \in Running' <=> d \in Running) /\ call'[d].pc = call[d].pc
    BY <2>2 DEF SameBut, Running
  <2> QED  BY <2>1, <2>3
<1>1. CASE medium \notin Databases
  <2>1. maker' = maker
    BY <1>0, <1>1 DEF Step, HasTable, CreateTable, CreateIfNotExists, Placed, StagesOf,
         Stages, Databases, TypeOK
  <2> QED  BY <1>0, <1>1, <2>1 DEF TableMade
<1>2. CASE medium \in Databases
  <2>0. \A d \in Calls \ {c} : Making(d)' <=> Making(d)
    BY <1>0 DEF Making
  <2>1. CASE FileStep(c)
    BY <1>2, <2>1, FileKeeps DEF Databases
  <2>2. CASE RequestStep(c) /\ UNCHANGED maker
    <3>1. call[c].pc \in {"query", "deleteRow"} /\ call'[c].pc \in {"deleteRow", "done"} /\ dir' = dir
      <4>1. call[c].pc \in StagesOf(medium)
        BY <1>0 DEF Placed
      <4>2. /\ call[c].pc \in {"query", "deleteRow", "deleteItem"}
            /\ call'[c].pc \in {"deleteItem", "deleteRow", "done"}
        <5>1. CASE RedisGet(c) \/ GetDel(c) \/ RedisSet(c) \/ RedisUnlink(c)
          BY <1>0, <5>1, PcAfter DEF Requests, RedisGet, GetDel, RedisSet, RedisUnlink
        <5>2. CASE PutItem(c) \/ DeleteItem(c) \/ NoTable(c) \/ DeleteRow(c) \/ PruneRows(c)
          BY <1>0, <5>2, PcAfter DEF Requests, Queries, PutItem, DeleteItem, NoTable,
             DeleteRow, PruneRows
        <5>3. CASE GetItem(c) \/ Select(c)
          <6>1. call[c] \in Frames
            BY <1>0, RunningFrames
          <6>2. \A stage : call' = [call EXCEPT ![c].pc = stage, ![c].seen = stored,
                                              ![c].item = Found(stored)]
                         => call'[c].pc = stage
            BY <6>1 DEF TypeOK, Frames
          <6> QED  BY <1>0, <5>3, <6>2, PcAfter DEF Requests, Queries, GetItem, Select
        <5>4. CASE Upsert(c)
          <6>1. call[c].pc = "query" /\ (call'[c].pc = "done" \/ Ends(c, "true"))
            BY <5>4 DEF Upsert, Queries, TypeOK
          <6> QED  BY <1>0, <6>1, PcAfter
        <5> QED  BY <2>2, <5>1, <5>2, <5>3, <5>4 DEF RequestStep
      <4>3. "deleteItem" \notin StagesOf(medium)
        BY <1>2 DEF StagesOf, Stages, Databases
      <4>4. call'[c].pc \in {"done"} \cup StagesOf(medium)
        BY <2>2, RequestKeeps
      <4>5. dir' = dir
        BY <2>2 DEF RequestStep, RedisGet, GetDel, RedisSet, RedisUnlink, GetItem, PutItem,
           DeleteItem, NoTable, Select, DeleteRow, Upsert, PruneRows
      <4> QED  BY <4>1, <4>2, <4>3, <4>4, <4>5
    <3>2. ~Making(c)'
      BY <3>1 DEF Making
    <3> QED  BY <1>0, <1>2, <2>0, <2>2, <3>1, <3>2 DEF TableMade, Running
  <2>3. CASE Await(c) /\ UNCHANGED maker
    <3>1. dir' = dir /\ maker \in {"made", "failed"}
      BY <1>0, <1>2, <2>3 DEF Await, TableMade, TypeOK
    <3>2. call'[c].pc = IF maker = "failed" THEN "done" ELSE "query"
      BY <1>0, <2>3, PcAfter DEF Await
    <3>3. ~Making(c)'
      BY <3>2 DEF Making
    <3> QED  BY <1>0, <1>2, <2>0, <2>3, <3>1, <3>2, <3>3 DEF TableMade, Running
  <2>4. CASE HasTable(c)
    <3>1. Making(c) /\ maker = "running" /\ \A d \in Calls \ {c} : ~Making(d)
      BY <1>0, <1>2, <2>4 DEF HasTable, TableMade, Making
    <3>2. /\ maker' = IF dir THEN "made" ELSE maker
          /\ call'[c].pc = IF dir THEN "query" ELSE "createTable"
          /\ dir' = dir
      BY <2>4 DEF HasTable, Goto, TypeOK
    <3> QED  BY <1>0, <1>2, <2>0, <3>1, <3>2 DEF TableMade, Running, Making, TypeOK
  <2>5. CASE CreateTable(c) \/ CreateIfNotExists(c)
    <3>1. Making(c) /\ maker = "running" /\ \A d \in Calls \ {c} : ~Making(d)
      BY <1>0, <1>2, <2>5 DEF CreateTable, CreateIfNotExists, TableMade, Making
    <3>2. /\ maker' \in {"made", "failed"} /\ dir' = TRUE
          /\ call'[c].pc = IF maker' = "made" THEN "query" ELSE "done"
      BY <1>0, <2>5, PcAfter DEF CreateTable, CreateIfNotExists
    <3>3. ~Making(c)'
      BY <3>2 DEF Making
    <3> QED  BY <1>0, <1>2, <2>0, <3>1, <3>2, <3>3 DEF TableMade, Running
  <2> QED  BY <2>1, <2>2, <2>3, <2>4, <2>5 DEF Step
<1> QED  BY <1>1, <1>2

LEMMA NotErrors ==
  ASSUME TypeOK, NEW c \in Running
  PROVE  None # "error" /\ Found(stored) # "error" /\ call[c].item # "error"
<1>1. call[c] \in Frames
  BY RunningFrames DEF Running
<1> HIDE DEF Running
<1>2. call[c].item \in Values \cup {None}
  BY <1>1 DEF Frames
<1> QED  BY <1>2, EntryKinds, DriversAssumption DEF Values

(* Where a lone call goes in the file driver, and that it does not fail.   *)
LEMMA LoneFileStep ==
  ASSUME TypeOK, Placed, OneWriter, LoneInv, NEW c \in Calls, Lone(c), FileStep(c),
         UNCHANGED <<medium, crashes>>
  PROVE  /\ call'[c].pc = "load" => stored' # None /\ (crashes' = 0 => stored' # Torn)
         /\ call'[c].pc = "remove" => stored' # None
         /\ call'[c].pc \in {"truncate", "removeFiles", "removeDir"} => dir'
         /\ call'[c].pc = "removeDir" => stored' = None
         /\ crashes = 0 /\ call'[c].pc = "done" => call'[c].res # "error"
<1>1. c \in Running /\ medium = "file" /\ call[c] \in Frames
  BY FileKeeps, RunningFrames DEF Stays
<1>2. crashes = 0 /\ stored = Torn => call[c].pc = "write"
  BY <1>1 DEF OneWriter, HasOpen, LoneInv, Overlapping, Lone
<1>3. /\ call[c].pc = "load" => stored # None /\ (crashes = 0 => stored # Torn)
      /\ call[c].pc = "remove" => stored # None
      /\ call[c].pc \in {"truncate", "removeFiles", "removeDir"} => dir
      /\ call[c].pc = "removeDir" => stored = None
  BY <1>1 DEF LoneInv, LoneFinds
<1>4. ASSUME NEW res, Ends(c, res), res # "error"
      PROVE  call'[c].pc = "done" /\ call'[c].res # "error"
  <2>1. call'[c] = [pc |-> "done", method |-> call[c].method, res |-> res]
    BY <1>1, <1>4, PcAfter
  <2> QED  BY <1>4, <2>1
<1>5. \A stage : Goto(c, stage) => call'[c].pc = stage
  BY <1>1, PcAfter
<1>6. None # "error" /\ Found(stored) # "error" /\ call[c].item # "error" /\ "true" # "error"
  BY <1>1, NotErrors
<1>7. CASE Exists(c)
  BY <1>2, <1>4, <1>5, <1>6, <1>7 DEF Exists
<1>8. CASE Load(c)
  <2>1. CASE call' = [call EXCEPT ![c].pc = "find", ![c].seen = stored, ![c].item = Found(stored)]
    <3>1. call'[c].pc = "find"
      BY <1>1, <2>1 DEF TypeOK, Frames
    <3> QED  BY <3>1
  <2>2. CASE crashes = 0 /\ (Ends(c, None) \/ Ends(c, Found(stored)))
    BY <1>4, <1>6, <2>2
  <2>3. CASE crashes # 0 /\ \E res : Ends(c, res)
    <3>1. call'[c].pc = "done"
      BY <1>1, <2>3, PcAfter
    <3> QED  BY <2>3, <3>1
  <2> QED  BY <1>3, <1>8, <2>1, <2>2, <2>3 DEF Load
<1>9. CASE Find(c)
  BY <1>4, <1>5, <1>6, <1>9 DEF Find
<1>10. CASE Remove(c)
  <2>1. Deletes(c)
    BY <1>3, <1>10 DEF Remove
  <2>2. call'[c] = [pc |-> "done", method |-> call[c].method, res |-> call[c].item]
    BY <1>1, <2>1, DeletesShape
  <2> QED  BY <1>6, <2>2
<1>11. CASE Lock(c) \/ FindDir(c)
  BY <1>5, <1>11 DEF Lock, FindDir
<1>12. CASE MkDir(c)
  BY <1>5, <1>12 DEF MkDir
<1>13. CASE Truncate(c)
  <2>1. call'[c].pc = "write"
    BY <1>1, <1>3, <1>13 DEF Truncate, Frames
  <2> QED  BY <2>1
<1>14. CASE Write(c)
  BY <1>4, <1>6, <1>14 DEF Write
<1>15. CASE FindDirToClear(c)
  BY <1>4, <1>5, <1>6, <1>15 DEF FindDirToClear
<1>16. CASE RemoveFiles(c)
  <2>1. call'[c].pc = "removeDir" /\ stored' = None /\ dir' = dir
    BY <1>1, <1>16 DEF RemoveFiles, Detached, Frames
  <2>2. dir
    BY <1>3, <1>16 DEF RemoveFiles
  <2> QED  BY <2>1, <2>2
<1>17. CASE RemoveDir(c)
  BY <1>3, <1>4, <1>6, <1>17 DEF RemoveDir
<1>18. CASE Scan(c)
  <2>1. CASE call' = [call EXCEPT ![c].pc = "unlink", ![c].seen = stored]
    <3>1. call'[c].pc = "unlink"
      BY <1>1, <2>1 DEF TypeOK, Frames
    <3> QED  BY <3>1
  <2>2. CASE Ends(c, None)
    BY <1>4, <1>6, <2>2
  <2> QED  BY <1>18, <2>1, <2>2 DEF Scan
<1>19. CASE Unlink(c)
  <2>1. call'[c] = [pc |-> "done", method |-> call[c].method, res |-> None]
    BY <1>1, <1>19 DEF Unlink, Detached
  <2> QED  BY <1>6, <2>1
<1> QED  BY <1>7, <1>8, <1>9, <1>10, <1>11, <1>12, <1>13, <1>14, <1>15, <1>16,
            <1>17, <1>18, <1>19 DEF FileStep

(* The other drivers fail a lone call only for want of the table.          *)
LEMMA LoneRequestStep ==
  ASSUME TypeOK, Placed, LoneInv, NEW c \in Calls, Step(c), ~FileStep(c),
         call'[c].pc = "done", call'[c].res = "error"
  PROVE  medium \in Databases /\ (handle = "namespace" \/ maker' = "failed")
<1>1. c \in Running /\ call[c] \in Frames
  BY StepRunning, RunningFrames
<1>2. \A res : Ends(c, res) => call'[c] = [pc |-> "done", method |-> call[c].method, res |-> res]
  BY <1>1, PcAfter
<1>3. ASSUME NEW res, Ends(c, res)  PROVE res = "error"
  <2>1. call'[c] = [pc |-> "done", method |-> call[c].method, res |-> res]
    BY <1>2, <1>3
  <2> QED  BY <2>1
<1>4. None # "error" /\ Found(stored) # "error" /\ call[c].item # "error" /\ "true" # "error"
  BY <1>1, NotErrors
<1>5. ~Deletes(c)
  <2> SUFFICES ASSUME Deletes(c)  PROVE FALSE
    OBVIOUS
  <2>1. call'[c] = [pc |-> "done", method |-> call[c].method, res |-> call[c].item]
    BY <1>1, DeletesShape
  <2> QED  BY <1>4, <2>1
<1>6. \A stage : Goto(c, stage) => stage = "done"
  BY <1>1, PcAfter
<1>7. \A stage : call' = [call EXCEPT ![c].pc = stage, ![c].seen = stored, ![c].item = Found(stored)]
                 => stage = "done"
  BY <1>1 DEF TypeOK, Frames
<1>8. CASE RequestStep(c)
  <2>1. ~RedisGet(c) /\ ~GetDel(c) /\ ~RedisSet(c) /\ ~RedisUnlink(c) /\ ~PutItem(c)
    BY <1>3, <1>4 DEF RedisGet, GetDel, RedisSet, RedisUnlink, PutItem
  <2>2. ~DeleteItem(c) /\ ~DeleteRow(c) /\ ~PruneRows(c)
    BY <1>3, <1>4, <1>5 DEF DeleteItem, DeleteRow, PruneRows
  <2>3. ~GetItem(c) /\ ~Select(c)
    BY <1>3, <1>4, <1>7 DEF GetItem, Select
  <2>4. ~Upsert(c)
    <3> SUFFICES ASSUME Upsert(c)  PROVE FALSE
      OBVIOUS
    <3>1. ~Ends(c, "true")
      BY <1>3, <1>4
    <3>2. call' = [call EXCEPT ![c] = [pc |-> "done", method |-> "set", res |-> "true"]]
      BY <3>1 DEF Upsert
    <3>3. call'[c].res = "true"
      BY <3>2 DEF TypeOK
    <3> QED  BY <1>4, <3>3
  <2>5. NoTable(c)
    BY <1>8, <2>1, <2>2, <2>3, <2>4 DEF RequestStep
  <2> QED  BY <1>1, <2>5 DEF NoTable, LoneInv, TableMade
<1>9. CASE Await(c) /\ UNCHANGED maker
  <2>1. medium \in Databases
    BY <1>1, <1>9 DEF Await, Placed, StagesOf, Stages, TypeOK
  <2> QED  BY <1>6, <1>9, <2>1 DEF Await
<1>10. CASE HasTable(c)
  BY <1>6, <1>10 DEF HasTable
<1>11. CASE CreateTable(c)
  BY <1>6, <1>11 DEF CreateTable, Databases
<1>12. CASE CreateIfNotExists(c)
  BY <1>6, <1>12 DEF CreateIfNotExists
<1> QED  BY <1>8, <1>9, <1>10, <1>11, <1>12 DEF Step

LEMMA LoneStep ==
  ASSUME TypeOK, Placed, OneWriter, LoneInv, FailsOnlyOverlapped, NEW c \in Calls, Step(c)
  PROVE  LoneInv' /\ FailsOnlyOverlapped'
<1>1. /\ c \in Running /\ overlapped' = overlapped /\ medium' = medium
      /\ handle' = handle /\ crashes' = crashes
  BY StepRunning
<1>2. ASSUME NEW d \in Calls \ {c}
      PROVE  /\ d \in Running' <=> d \in Running
             /\ call'[d].pc = call[d].pc
             /\ d \notin Running => call'[d] = call[d]
  <2>1. SameBut(c)
    BY StepKeeps DEF Stays, Shaped
  <2> QED  BY <2>1 DEF SameBut, Running
<1>3. Overlapping'
  BY <1>1, <1>2 DEF LoneInv, Overlapping, Running
<1>4. TableMade' /\ (maker = "failed" => maker' = "failed")
  BY TableStep DEF LoneInv
<1>5. ASSUME NEW d \in Calls, Lone(d)'
      PROVE  Lone(d) /\ d = c
  BY <1>1, <1>2, <1>5 DEF Lone, LoneInv, Overlapping
<1>6. LoneFinds'
  <2> SUFFICES ASSUME medium = "file", NEW d \in Calls, Lone(d)'
               PROVE  /\ call'[d].pc = "load" => stored' # None /\ (crashes' = 0 => stored' # Torn)
                      /\ call'[d].pc = "remove" => stored' # None
                      /\ call'[d].pc \in {"truncate", "removeFiles", "removeDir"} => dir'
                      /\ call'[d].pc = "removeDir" => stored' = None
    BY <1>1 DEF LoneFinds
  <2>1. Lone(c) /\ d = c
    BY <1>5
  <2>2. FileStep(c)
    BY RequestKeeps DEF Step
  <2> QED  BY <1>1, <2>1, <2>2, LoneFileStep
<1>7. FailsOnlyOverlapped'
  <2> SUFFICES ASSUME NEW d \in Calls \ overlapped', call'[d].pc = "done", crashes' = 0,
                      call'[d].res = "error"
               PROVE  medium' \in Databases /\ (handle' = "namespace" \/ maker' = "failed")
    BY DEF FailsOnlyOverlapped
  <2>1. CASE d # c
    <3>1. call'[d] = call[d]
      BY <1>2, <2>1 DEF Running
    <3> QED  BY <1>1, <1>4, <3>1 DEF FailsOnlyOverlapped
  <2>2. CASE d = c
    <3>1. Lone(c) /\ crashes = 0
      BY <1>1, <2>2 DEF Lone
    <3>2. ~FileStep(c)
      BY <1>1, <2>2, <3>1, LoneFileStep
    <3> QED  BY <1>1, <2>2, <3>2, LoneRequestStep
  <2> QED  BY <2>1, <2>2
<1> QED  BY <1>3, <1>4, <1>6, <1>7 DEF LoneInv

LEMMA LoneBegin ==
  ASSUME TypeOK, Placed, LoneInv, FailsOnlyOverlapped, NEW c \in Calls, NEW method \in Methods,
         Begin(c, method)
  PROVE  LoneInv' /\ FailsOnlyOverlapped'
<1>1. /\ c \notin Running /\ UNCHANGED <<medium, handle, stored, dir, crashes>>
      /\ overlapped' = IF Running = {} THEN overlapped ELSE overlapped \cup Running \cup {c}
      /\ maker' = IF FirstStage(method) \in {"hasTable", "createTable"} THEN "running" ELSE maker
  BY DEF Begin, Starts, Running, siteVars
<1>2. /\ \A d \in Calls \ {c} : call'[d] = call[d] /\ (d \in Running' <=> d \in Running)
      /\ call'[c].pc = FirstStage(method)
  BY BeginKeeps DEF Running, TypeOK
<1>3. /\ FirstStage(method) \in StagesOf(medium)
      /\ FirstStage(method) \notin {"load", "remove", "truncate", "removeFiles", "removeDir", "done", "idle"}
      /\ medium \in Databases => FirstStage(method) = DatabaseStage
  <2>1. FileStage[method] \in {"exists", "lock", "find", "findDir", "scan"}
    BY DEF FileStage, Methods
  <2>2. FirstStage(method) \in {"exists", "lock", "find", "findDir", "scan", "query", "await",
                               "hasTable", "createTable"}
    BY <2>1 DEF FirstStage, DatabaseStage, Databases, TypeOK
  <2>3. medium \in Databases => FirstStage(method) = DatabaseStage
    BY DEF FirstStage, Databases
  <2> QED  BY <2>2, <2>3, BeginKeeps
<1> HIDE DEF FirstStage
<1>4. Overlapping'
  <2> SUFFICES ASSUME NEW d \in Running', NEW e \in Running', d # e
               PROVE  d \in overlapped'
    BY DEF Overlapping
  <2>1. d \in Running \/ e \in Running
    BY <1>2 DEF Running
  <2>2. d \in Running \cup {c}
    BY <1>2 DEF Running
  <2> QED  BY <1>1, <2>1, <2>2
<1>5. LoneFinds'
  <2>1. ASSUME NEW d \in Calls, Lone(d)'  PROVE d = c
    BY <1>1, <1>2, <2>1 DEF Lone, Running
  <2> QED  BY <1>2, <1>3, <2>1 DEF LoneFinds
<1>6. TableMade'
  <2> SUFFICES ASSUME medium \in Databases
               PROVE  TableMade'
    BY <1>1 DEF TableMade
  <2>0. TableMade
    BY DEF LoneInv
  <2>1. \A d \in Calls \ {c} : Making(d)' <=> Making(d)
    BY <1>2 DEF Making
  <2>2. CASE FirstStage(method) \in {"hasTable", "createTable"}
    <3>1. maker = "none" /\ handle # "namespace" /\ maker' = "running"
      BY <1>1, <1>3, <2>2 DEF DatabaseStage
    <3>2. \A d \in Calls : ~Making(d)
      BY <2>0, <3>1 DEF TableMade
    <3>3. \A d \in Running : call[d].pc \notin {"query", "deleteRow"}
      BY <2>0, <3>1 DEF TableMade
    <3> QED  BY <1>1, <1>2, <2>1, <2>2, <3>1, <3>2, <3>3 DEF TableMade, Running
  <2>3. CASE FirstStage(method) \notin {"hasTable", "createTable"}
    <3>1. maker' = maker /\ ~Making(c)'
      BY <1>1, <1>2, <2>3 DEF Making
    <3>2. /\ FirstStage(method) = "await" => maker # "none"
          /\ FirstStage(method) \in {"query", "deleteRow"} =>
               handle = "namespace" \/ maker = "made"
      BY <1>3 DEF DatabaseStage
    <3> QED  BY <1>1, <1>2, <2>0, <2>1, <3>1, <3>2 DEF TableMade, Running
  <2> QED  BY <2>2, <2>3
<1>7. FailsOnlyOverlapped'
  <2> SUFFICES ASSUME NEW d \in Calls \ overlapped', call'[d].pc = "done", crashes' = 0,
                      call'[d].res = "error"
               PROVE  medium' \in Databases /\ (handle' = "namespace" \/ maker' = "failed")
    BY DEF FailsOnlyOverlapped
  <2>1. d # c /\ call'[d] = call[d] /\ d \notin overlapped
    BY <1>1, <1>2, <1>3
  <2>2. medium \in Databases /\ (handle = "namespace" \/ maker = "failed")
    BY <1>1, <2>1 DEF FailsOnlyOverlapped
  <2>3. maker = "failed" => FirstStage(method) \notin {"hasTable", "createTable"}
    BY <1>3, <2>2 DEF DatabaseStage
  <2> QED  BY <1>1, <2>2, <2>3
<1> QED  BY <1>4, <1>5, <1>6, <1>7 DEF LoneInv

LEMMA LoneElsewhere ==
  ASSUME TypeOK, Placed, LoneInv, FailsOnlyOverlapped, Lapse \/ Created \/ Crash \/ UNCHANGED vars
  PROVE  LoneInv' /\ FailsOnlyOverlapped'
<1>1. CASE Lapse
  <2>1. stored' # None /\ stored' # Torn /\ stored # None
    BY <1>1, LapseKeeps, EntryKinds DEF Lapse
  <2> QED  BY <1>1, <2>1 DEF Lapse, siteVars, LoneInv, LoneFinds, TableMade, Overlapping,
             FailsOnlyOverlapped, Lone, Making, Running
<1>2. CASE Created
  BY <1>2 DEF Created, siteVars, LoneInv, LoneFinds, TableMade, Overlapping,
       FailsOnlyOverlapped, Lone, Making, Running, Databases
<1>3. CASE Crash
  <2>1. Running' = {} /\ crashes' # 0 /\ maker' = "none"
    BY <1>3, CrashKeeps, DriversAssumption DEF Crash, TypeOK
  <2> QED  BY <2>1 DEF LoneInv, LoneFinds, TableMade, Overlapping, FailsOnlyOverlapped, Lone, Making
<1>4. CASE UNCHANGED vars
  BY <1>4 DEF vars, siteVars, LoneInv, LoneFinds, TableMade, Overlapping,
       FailsOnlyOverlapped, Lone, Making, Running
<1> QED  BY <1>1, <1>2, <1>3, <1>4

LEMMA LoneInvariant == Spec => [](LoneInv /\ FailsOnlyOverlapped)
<1>1. Init => LoneInv /\ FailsOnlyOverlapped
  <2> SUFFICES ASSUME Init  PROVE LoneInv /\ FailsOnlyOverlapped
    OBVIOUS
  <2>1. Running = {} /\ \A c \in Calls : call[c].pc = "idle"
    BY DEF Init, Idle, Running
  <2>2. maker = "none"
    BY DEF Init
  <2> QED  BY <2>1, <2>2 DEF LoneInv, LoneFinds, TableMade, Overlapping, FailsOnlyOverlapped,
             Lone, Making
<1>2. TypeOK /\ Placed /\ OneWriter /\ LoneInv /\ FailsOnlyOverlapped /\ [Next]_vars
      => (LoneInv /\ FailsOnlyOverlapped)'
  BY LoneStep, LoneBegin, LoneElsewhere DEF Next
<1> QED  BY <1>1, <1>2, Invariant, WriterInvariant, PTL DEF Spec

(* A call that no other overlapped fails only where the table is missing.  *)
THEOREM DriversFailOnlyOverlapped == Spec => []FailsOnlyOverlapped
  BY LoneInvariant, PTL

----------------------------------------------------------------------------
(* Values are pulled once.                                                 *)

Holding == {"find", "remove", "deleteItem", "deleteRow"}

(* A value whose set has ended. *)
Settled(v, calls) == v = First \/ (v \in Calls /\ calls[v].pc = "done")

Pulled(c) == call[c].pc = "done" /\ call[c].method = "pull" /\ call[c].res \in Values

(* What is stored, held by a call or pulled is of sets that ended, a       *)
(* pulled value is gone, and who still holds it overlapped the pull.       *)
PullInv ==
  /\ stored \in Entries => Settled(stored.val, call)
  /\ \A c \in Running : call[c].item # None =>
       call[c].pc \in Holding /\ Settled(call[c].item, call)
  /\ \A d \in Calls : Pulled(d) =>
       /\ Settled(call[d].res, call)
       /\ stored \in Entries => stored.val # call[d].res
       /\ \A c \in Running : call[c].item = call[d].res => {c, d} \subseteq overlapped

(* What a step of c does to what is stored, held and returned.             *)
Hands(c) ==
  /\ stored' \in Entries =>
       \/ stored' = stored
       \/ stored'.val = c /\ call'[c].pc = "done" /\ call'[c].res = "true"
  /\ call'[c].pc # "done" /\ call'[c].item # None =>
       /\ call'[c].pc \in Holding
       /\ \/ call'[c].item = call[c].item
          \/ call'[c].item = Found(stored)
  /\ call'[c].pc = "done" /\ call'[c].method = "pull" /\ call'[c].res \in Values =>
       /\ stored' \notin Entries
       /\ \/ call'[c].res = Found(stored)
          \/ (call'[c].res = call[c].item /\ call[c].pc \in Holding)

LEMMA NotValues == None \notin Values /\ "error" \notin Values /\ "true" \notin Values
  BY DriversAssumption DEF Values

(* The ways in which a step changes the frame of its call.                 *)
LEMMA HandsWays ==
  ASSUME TypeOK, NEW c \in Running
  PROVE  /\ \A res : Ends(c, res) => call'[c] =
              [pc |-> "done", method |-> call[c].method, res |-> res]
         /\ \A stage : Goto(c, stage) => call'[c].pc = stage /\ call'[c].item = call[c].item
         /\ \A stage : call' = [call EXCEPT ![c].pc = stage, ![c].seen = stored,
                                            ![c].item = Found(stored)]
              => call'[c].pc = stage /\ call'[c].item = Found(stored)
         /\ Deletes(c) => /\ stored' = None
                          /\ call'[c] = [pc |-> "done", method |-> call[c].method,
                                         res |-> call[c].item]
<1>1. c \in Calls /\ call[c] \in Frames
  BY RunningFrames DEF Running
<1> HIDE DEF Running
<1>2. ASSUME NEW stage, Goto(c, stage)
      PROVE  call'[c].pc = stage /\ call'[c].item = call[c].item
  <2>1. call'[c] = [call[c] EXCEPT !.pc = stage]
    BY <1>1, <1>2 DEF Goto, TypeOK
  <2> QED  BY <1>1, <2>1 DEF Frames
<1>3. ASSUME NEW stage, call' = [call EXCEPT ![c].pc = stage, ![c].seen = stored,
                                             ![c].item = Found(stored)]
      PROVE  call'[c].pc = stage /\ call'[c].item = Found(stored)
  BY <1>1, <1>3 DEF TypeOK, Frames
<1> QED  BY <1>1, <1>2, <1>3, PcAfter, DeletesShape

LEMMA FileHands ==
  ASSUME TypeOK, Placed, PullInv, NEW c \in Calls, FileStep(c)
  PROVE  Hands(c)
<1>1. c \in Running /\ call[c] \in Frames
  BY FileKeeps, RunningFrames DEF Stays
<1>2. call[c].item # None => call[c].pc \in Holding
  BY <1>1 DEF PullInv
<1>3. /\ None \notin Entries /\ Torn \notin Entries
      /\ None \notin Values /\ "error" \notin Values /\ "true" \notin Values
  BY EntriesAssumption, NotValues
<1> DEFINE Item == call[c].item
<1>4. ASSUME NEW res, Ends(c, res)
      PROVE  call'[c].pc = "done" /\ call'[c].method = call[c].method /\ call'[c].res = res
  <2>1. call'[c] = [pc |-> "done", method |-> call[c].method, res |-> res]
    BY <1>1, <1>4, HandsWays
  <2> QED  BY <2>1
<1>5. \A stage : Goto(c, stage) => call'[c].pc = stage /\ call'[c].item = call[c].item
  BY <1>1, HandsWays
<1>6. CASE Exists(c)
  BY <1>2, <1>3, <1>4, <1>5, <1>6 DEF Exists, Hands, Holding
<1>7. CASE Load(c)
  <2>1. CASE call' = [call EXCEPT ![c].pc = "find", ![c].seen = stored, ![c].item = Found(stored)]
    <3>1. call'[c].pc = "find" /\ call'[c].item = Found(stored)
      BY <1>1, <2>1, HandsWays
    <3> QED  BY <1>7, <3>1 DEF Load, Hands, Holding
  <2>2. CASE Ends(c, "error") \/ Ends(c, None)
    BY <1>3, <1>4, <1>7, <2>2 DEF Load, Hands
  <2>3. CASE Ends(c, Found(stored)) /\ call[c].method = "get"
    BY <1>4, <1>7, <2>3 DEF Load, Hands
  <2> QED  BY <1>7, <2>1, <2>2, <2>3 DEF Load
<1>8. CASE Find(c)
  BY <1>2, <1>3, <1>4, <1>5, <1>8 DEF Find, Hands, Holding
<1>9. CASE Remove(c)
  <2>1. CASE Deletes(c)
    <3>1. stored' = None /\ call'[c] = [pc |-> "done", method |-> call[c].method, res |-> Item]
      BY <1>1, <2>1, HandsWays
    <3>2. call'[c].pc = "done" /\ call'[c].res = Item
      BY <3>1
    <3>3. call[c].pc \in Holding
      BY <1>9 DEF Remove, Holding
    <3> QED  BY <1>3, <3>1, <3>2, <3>3 DEF Hands
  <2>2. CASE Ends(c, "error") /\ UNCHANGED stored
    BY <1>3, <1>4, <2>2 DEF Hands
  <2> QED  BY <1>9, <2>1, <2>2 DEF Remove
<1>10. CASE Lock(c) \/ FindDir(c) \/ MkDir(c)
  BY <1>2, <1>5, <1>10 DEF Lock, FindDir, MkDir, Hands, Holding
<1>11. CASE Truncate(c)
  <2>1. CASE Ends(c, "error") /\ UNCHANGED stored
    BY <1>3, <1>4, <2>1 DEF Hands
  <2>2. CASE dir
    <3>1. call'[c].item = call[c].item /\ call'[c].pc = "write" /\ stored' = Torn
      BY <1>1, <1>11, <2>2 DEF Truncate, Frames
    <3> QED  BY <1>2, <1>3, <1>11, <3>1 DEF Truncate, Hands, Holding
  <2> QED  BY <1>11, <2>1, <2>2 DEF Truncate
<1>12. CASE Write(c)
  <2>1. stored' \in Entries => stored' = stored \/ stored'.val = c
    BY <1>3, <1>12 DEF Write, Written
  <2> QED  BY <1>3, <1>4, <1>12, <2>1 DEF Write, Hands
<1>13. CASE FindDirToClear(c) \/ RemoveDir(c)
  BY <1>2, <1>3, <1>4, <1>5, <1>13 DEF FindDirToClear, RemoveDir, Hands, Holding
<1>14. CASE RemoveFiles(c)
  <2>1. call'[c].pc = "removeDir" /\ call'[c].item = call[c].item /\ stored' = None
    BY <1>1, <1>14 DEF RemoveFiles, Detached, Frames
  <2> QED  BY <1>2, <1>3, <1>14, <2>1 DEF RemoveFiles, Hands, Holding
<1>15. CASE Scan(c)
  <2>1. CASE call' = [call EXCEPT ![c].pc = "unlink", ![c].seen = stored]
    <3>1. call'[c].pc = "unlink" /\ call'[c].item = call[c].item
      BY <1>1, <2>1 DEF TypeOK, Frames
    <3> QED  BY <1>2, <1>15, <3>1 DEF Scan, Hands, Holding
  <2>2. CASE Ends(c, None)
    BY <1>3, <1>4, <1>15, <2>2 DEF Scan, Hands
  <2> QED  BY <1>15, <2>1, <2>2 DEF Scan
<1>16. CASE Unlink(c)
  <2>1. call'[c] = [pc |-> "done", method |-> call[c].method, res |-> None]
    BY <1>1, <1>16 DEF Unlink, Detached
  <2>2. call'[c].pc = "done" /\ call'[c].res = None /\ stored' = None
    BY <1>16, <2>1 DEF Unlink
  <2> QED  BY <1>3, <2>2 DEF Hands
<1> QED  BY <1>6, <1>7, <1>8, <1>9, <1>10, <1>11, <1>12, <1>13, <1>14, <1>15, <1>16
     DEF FileStep

LEMMA RequestHands ==
  ASSUME TypeOK, Placed, PullInv, NEW c \in Calls,
         RequestStep(c) \/ Await(c) \/ HasTable(c) \/ CreateTable(c) \/ CreateIfNotExists(c)
  PROVE  Hands(c)
<1>1. c \in Running /\ call[c] \in Frames
  BY RequestKeeps, RunningFrames DEF Stays
<1>2. call[c].item # None => call[c].pc \in Holding
  BY <1>1 DEF PullInv
<1>3. /\ None \notin Entries /\ None \notin Values /\ "error" \notin Values /\ "true" \notin Values
      /\ stored = None => Found(stored) = None
      /\ Written(c) \subseteq Entries /\ \A entry \in Written(c) : entry.val = c
  BY EntriesAssumption, NotValues DEF Found, Written, Entries, Values
<1>4. ASSUME NEW res, Ends(c, res)
      PROVE  call'[c].pc = "done" /\ call'[c].method = call[c].method /\ call'[c].res = res
  <2>1. call'[c] = [pc |-> "done", method |-> call[c].method, res |-> res]
    BY <1>1, <1>4, HandsWays
  <2> QED  BY <2>1
<1>5. \A stage : Goto(c, stage) => call'[c].pc = stage /\ call'[c].item = call[c].item
  BY <1>1, HandsWays
<1>6. ASSUME Deletes(c), call[c].pc \in Holding \/ call[c].item = None
      PROVE  Hands(c)
  <2>1. stored' = None /\ call'[c] = [pc |-> "done", method |-> call[c].method, res |-> call[c].item]
    BY <1>1, <1>6, HandsWays
  <2>2. call'[c].pc = "done" /\ call'[c].res = call[c].item
    BY <2>1
  <2> QED  BY <1>3, <1>6, <2>1, <2>2 DEF Hands
<1>7. ASSUME NEW stage \in Holding, stored' = stored,
             call' = [call EXCEPT ![c].pc = stage, ![c].seen = stored, ![c].item = Found(stored)]
      PROVE  Hands(c)
  <2>1. call'[c].pc = stage /\ call'[c].item = Found(stored)
    BY <1>1, <1>7, HandsWays
  <2> QED  BY <1>7, <2>1 DEF Hands, Holding
<1>8. CASE RedisGet(c) \/ RedisUnlink(c)
  BY <1>3, <1>4, <1>8 DEF RedisGet, RedisUnlink, Requests, Hands
<1>9. CASE GetDel(c)
  BY <1>3, <1>4, <1>9 DEF GetDel, Hands
<1>10. CASE RedisSet(c) \/ PutItem(c)
  BY <1>3, <1>4, <1>10 DEF RedisSet, PutItem, Hands
<1>11. CASE GetItem(c)
  <2>1. CASE Ends(c, Found(stored)) /\ (call[c].method = "get" \/ Found(stored) = None)
    BY <1>3, <1>4, <1>11, <2>1 DEF GetItem, Hands
  <2> QED  BY <1>7, <1>11, <2>1 DEF GetItem, Holding
<1>12. CASE DeleteItem(c) \/ DeleteRow(c)
  BY <1>2, <1>6, <1>12 DEF DeleteItem, DeleteRow, Requests, Queries, Holding
<1>13. CASE NoTable(c)
  BY <1>3, <1>4, <1>13 DEF NoTable, Hands
<1>14. CASE Select(c)
  <2>1. CASE Ends(c, Found(stored)) /\ (stored = None \/ call[c].method # "pull")
    BY <1>3, <1>4, <1>14, <2>1 DEF Select, Hands
  <2> QED  BY <1>7, <1>14, <2>1 DEF Select, Holding
<1>15. CASE Upsert(c)
  <2>1. PICK row \in Upserted(c) :
          /\ stored' = row
          /\ IF Lapsed(row)
               THEN /\ call' = [call EXCEPT ![c] =
                          [pc |-> "done", method |-> "set", res |-> "true"]]
                    /\ allowed' = allowed \cup {None}
               ELSE Ends(c, "true")
    BY <1>15 DEF Upsert
  <2>2. row.val = c
    <3>1. ASSUME NEW entry \in Written(c)  PROVE Kept(entry).val = c
      BY <1>3 DEF Kept, Entries
    <3> QED  BY <1>3, <2>1, <3>1 DEF Upserted
  <2>3. call'[c].pc = "done" /\ call'[c].res = "true"
    BY <1>1, <1>4, <2>1 DEF TypeOK
  <2> QED  BY <1>3, <2>1, <2>2, <2>3 DEF Hands
<1>16. CASE PruneRows(c)
  BY <1>3, <1>4, <1>16 DEF PruneRows, Pruned, Hands
<1>17. CASE Await(c) /\ stored' = stored
  BY <1>2, <1>3, <1>4, <1>5, <1>17 DEF Await, Hands, Holding
<1>18. CASE HasTable(c) \/ CreateTable(c) \/ CreateIfNotExists(c)
  BY <1>2, <1>3, <1>4, <1>5, <1>18 DEF HasTable, CreateTable, CreateIfNotExists, Hands, Holding
<1> QED  BY <1>8, <1>9, <1>10, <1>11, <1>12, <1>13, <1>14, <1>15, <1>16, <1>17, <1>18
     DEF RequestStep, Await

LEMMA PullStep ==
  ASSUME TypeOK, Placed, LoneInv, PullInv, PulledOnce, NEW c \in Calls, Step(c)
  PROVE  PullInv' /\ PulledOnce'
<1>1. /\ c \in Running /\ overlapped' = overlapped /\ medium' = medium
      /\ call[c].pc \notin {"idle", "done"}
      /\ c \in overlapped \/ \A d \in Running : d = c
  BY StepRunning DEF LoneInv, Overlapping, Running
<1>2. Hands(c)
  BY FileHands, RequestHands DEF Step
<1>3. ASSUME NEW d \in Calls \ {c}
      PROVE  /\ d \in Running' <=> d \in Running
             /\ call'[d].pc = call[d].pc
             /\ d \notin Running => call'[d] = call[d]
             /\ d \in Running => call'[d].item = call[d].item
             /\ Pulled(d)' => Pulled(d) /\ call'[d] = call[d]
  <2>1. SameBut(c)
    BY StepKeeps DEF Stays, Shaped
  <2> QED  BY <2>1 DEF SameBut, Running, Pulled
<1>4. \A v : Settled(v, call) => Settled(v, call') /\ v # c
  BY <1>1, <1>3, DriversAssumption DEF Settled
<1>5. /\ call[c].item # None => call[c].pc \in Holding /\ Settled(call[c].item, call)
      /\ Found(stored) # None => stored \in Entries /\ Found(stored) = stored.val
      /\ None \notin Entries
  BY <1>1, EntryKinds DEF PullInv, Found
<1>6. stored' \in Entries => Settled(stored'.val, call')
  BY <1>1, <1>2, <1>4 DEF Hands, PullInv, Settled
<1>7. ASSUME NEW d \in Running', call'[d].item # None
      PROVE  call'[d].pc \in Holding /\ Settled(call'[d].item, call')
  <2>1. CASE d # c
    BY <1>3, <1>4, <1>7, <2>1 DEF PullInv, Running
  <2>2. CASE d = c
    <3>1. call'[c].pc # "done"
      BY <2>2 DEF Running
    <3> QED  BY <1>2, <1>4, <1>5, <1>7, <2>2, <3>1 DEF Hands, PullInv
  <2> QED  BY <2>1, <2>2
<1>8. Pulled(c)' =>
        /\ call'[c].res \in Values /\ call'[c].res # None
        /\ call'[c].pc = "done" /\ call'[c].method = "pull"
  BY NotValues DEF Pulled
<1>9. ASSUME NEW d \in Calls, Pulled(d)'
      PROVE  /\ Settled(call'[d].res, call')
             /\ stored' \in Entries => stored'.val # call'[d].res
  <2>1. CASE d # c
    <3>1. Pulled(d) /\ call'[d] = call[d]
      BY <1>3, <1>9, <2>1
    <3>2. Settled(call[d].res, call) /\ (stored \in Entries => stored.val # call[d].res)
      BY <3>1 DEF PullInv
    <3> QED  BY <1>2, <1>4, <3>1, <3>2 DEF Hands
  <2>2. CASE d = c
    BY <1>2, <1>4, <1>5, <1>8, <1>9, <2>2 DEF Hands, PullInv
  <2> QED  BY <2>1, <2>2
<1>10. ASSUME NEW d \in Calls, Pulled(d)', NEW e \in Running', call'[e].item = call'[d].res
       PROVE  {e, d} \subseteq overlapped
  <2>0. call'[d].res # None /\ e \in Calls /\ e # d
    BY <1>10, NotValues DEF Pulled, Running
  <2>1. CASE d # c /\ e # c
    BY <1>3, <1>10, <2>0, <2>1 DEF PullInv
  <2>2. CASE d = c /\ e # c
    BY <1>1, <1>3, <2>0, <2>2 DEF LoneInv, Overlapping
  <2>3. CASE e = c
    <3>1. Pulled(d) /\ call'[d] = call[d] /\ call'[c].pc # "done"
      BY <1>3, <1>10, <2>0, <2>3 DEF Running
    <3>2. call'[c].item = call[c].item \/ call'[c].item = Found(stored)
      BY <1>2, <1>10, <2>0, <2>3, <3>1 DEF Hands
    <3>3. call'[c].item # Found(stored)
      BY <1>5, <1>10, <2>0, <2>3, <3>1 DEF PullInv
    <3> QED  BY <1>1, <1>10, <2>3, <3>1, <3>2, <3>3 DEF PullInv
  <2> QED  BY <2>1, <2>2, <2>3
<1>11. PullInv'
  BY <1>1, <1>6, <1>7, <1>9, <1>10 DEF PullInv
<1>12. ASSUME NEW d \in Calls \ {c}, Pulled(d)', Pulled(c)', call'[d].res = call'[c].res
       PROVE  medium # "redis" /\ {c, d} \subseteq overlapped
  <2>1. Pulled(d) /\ call'[d] = call[d]
    BY <1>3, <1>12
  <2>2. call'[c].res # Found(stored)
    BY <1>5, <1>8, <1>12, <2>1 DEF PullInv
  <2>3. call'[c].res = call[c].item /\ call[c].pc \in Holding
    BY <1>2, <1>8, <1>12, <2>2 DEF Hands
  <2>4. {c, d} \subseteq overlapped
    BY <1>1, <1>12, <2>1, <2>3 DEF PullInv
  <2>5. medium # "redis"
    BY <1>1, <2>3 DEF Placed, StagesOf, Stages, Holding
  <2> QED  BY <2>4, <2>5
<1>13. PulledOnce'
  <2> SUFFICES ASSUME NEW d \in Calls, NEW e \in Calls, d # e, Pulled(d)', Pulled(e)',
                      call'[d].res = call'[e].res
               PROVE  medium # "redis" /\ {d, e} \subseteq overlapped
    BY <1>1 DEF PulledOnce, Pulled
  <2>1. CASE d = c \/ e = c
    BY <1>12, <2>1
  <2>2. CASE d # c /\ e # c
    <3>1. Pulled(d) /\ Pulled(e) /\ call'[d] = call[d] /\ call'[e] = call[e]
      BY <1>3, <2>2
    <3> QED  BY <3>1 DEF PulledOnce, Pulled
  <2> QED  BY <2>1, <2>2
<1> QED  BY <1>11, <1>13

LEMMA PullBegin ==
  ASSUME TypeOK, Placed, PullInv, PulledOnce, NEW c \in Calls, NEW method \in Methods,
         Begin(c, method)
  PROVE  PullInv' /\ PulledOnce'
<1>1. /\ UNCHANGED <<medium, stored>> /\ overlapped \subseteq overlapped'
      /\ call[c].pc = "idle"
  BY DEF Begin, Starts, siteVars
<1>2. /\ \A d \in Calls \ {c} : call'[d] = call[d] /\ (d \in Running' <=> d \in Running)
      /\ call'[c].pc = FirstStage(method) /\ call'[c].item = None
      /\ FirstStage(method) \in StagesOf(medium)
  BY BeginKeeps DEF Running, TypeOK
<1>3. FirstStage(method) # "done"
  BY <1>2 DEF StagesOf, Stages
<1> HIDE DEF FirstStage
<1>4. \A d \in Calls : Pulled(d)' <=> Pulled(d) /\ d # c
  BY <1>1, <1>2, <1>3 DEF Pulled
<1>5. \A v : Settled(v, call) => Settled(v, call')
  BY <1>1, <1>2 DEF Settled
<1>6. PullInv'
  <2>1. stored' \in Entries => Settled(stored'.val, call')
    BY <1>1, <1>5 DEF PullInv
  <2>2. ASSUME NEW d \in Running', call'[d].item # None
        PROVE  call'[d].pc \in Holding /\ Settled(call'[d].item, call')
    <3>1. d # c /\ d \in Running
      BY <1>2, <2>2 DEF Running
    <3>2. call'[d] = call[d]
      BY <1>2, <3>1 DEF Running
    <3> QED  BY <1>5, <2>2, <3>1, <3>2 DEF PullInv
  <2>3. ASSUME NEW d \in Calls, Pulled(d)'
        PROVE  /\ Settled(call'[d].res, call')
               /\ stored' \in Entries => stored'.val # call'[d].res
               /\ \A e \in Running' : call'[e].item = call'[d].res => {e, d} \subseteq overlapped'
    <3>1. d # c /\ Pulled(d) /\ call'[d] = call[d] /\ call[d].res # None
      BY <1>2, <1>4, <2>3, NotValues DEF Pulled
    <3>2. ASSUME NEW e \in Running', call'[e].item = call'[d].res
          PROVE  {e, d} \subseteq overlapped'
      <4>1. e # c /\ e \in Running /\ call'[e] = call[e]
        BY <1>2, <3>1, <3>2 DEF Running
      <4> QED  BY <1>1, <3>1, <3>2, <4>1 DEF PullInv
    <3> QED  BY <1>1, <1>5, <3>1, <3>2 DEF PullInv
  <2> QED  BY <2>1, <2>2, <2>3 DEF PullInv
<1>7. PulledOnce'
  BY <1>1, <1>2, <1>4 DEF PulledOnce, Pulled
<1> QED  BY <1>6, <1>7

LEMMA PullElsewhere ==
  ASSUME TypeOK, Placed, PullInv, PulledOnce, Lapse \/ Created \/ Crash \/ UNCHANGED vars
  PROVE  PullInv' /\ PulledOnce'
<1>1. CASE Lapse
  <2>1. stored \in Entries /\ stored'.val = stored.val /\ UNCHANGED <<medium, call, overlapped>>
    BY <1>1, LapseKeeps DEF Lapse, siteVars
  <2> QED  BY <2>1 DEF PullInv, PulledOnce, Pulled, Settled, Running
<1>2. CASE Created \/ UNCHANGED vars
  <2>1. UNCHANGED <<medium, stored, call, overlapped>>
    BY <1>2 DEF Created, vars, siteVars
  <2> QED  BY <2>1 DEF PullInv, PulledOnce, Pulled, Settled, Running
<1>3. CASE Crash
  <2>1. Running' = {} /\ UNCHANGED <<medium, stored, overlapped>>
    BY <1>3, CrashKeeps DEF Crash, siteVars
  <2>2. ASSUME NEW c \in Calls
        PROVE  /\ c \in Running => call'[c].pc = "done" /\ call'[c].res = "error"
               /\ c \notin Running => call'[c] = call[c]
    BY <1>3, <2>2 DEF Crash
  <2>3. \A c \in Calls : Pulled(c)' => Pulled(c) /\ call'[c] = call[c]
    BY <2>2, NotValues DEF Pulled
  <2>4. \A v : Settled(v, call) => Settled(v, call')
    BY <2>2 DEF Settled
  <2> QED  BY <2>1, <2>3, <2>4 DEF PullInv, PulledOnce, Pulled
<1> QED  BY <1>1, <1>2, <1>3

LEMMA PullInvariant == Spec => [](PullInv /\ PulledOnce)
<1>1. Init => PullInv /\ PulledOnce
  <2> SUFFICES ASSUME Init  PROVE PullInv /\ PulledOnce
    OBVIOUS
  <2>1. Running = {} /\ \A c \in Calls : call[c].pc = "idle"
    BY DEF Init, Idle, Running
  <2>2. stored \in Entries => stored.val = First
    BY EntriesAssumption DEF Init
  <2> QED  BY <2>1, <2>2 DEF PullInv, PulledOnce, Pulled, Settled
<1>2. TypeOK /\ Placed /\ LoneInv /\ PullInv /\ PulledOnce /\ [Next]_vars
      => (PullInv /\ PulledOnce)'
  BY PullStep, PullBegin, PullElsewhere DEF Next
<1> QED  BY <1>1, <1>2, Invariant, LoneInvariant, PTL DEF Spec

(* A value is pulled once, unless by calls that overlapped another, and by *)
(* Redis once at all.                                                      *)
THEOREM DriversPulledOnce == Spec => []PulledOnce
  BY PullInvariant, PTL

----------------------------------------------------------------------------
(* Gets return what the calls made of the key.                             *)

(* Who has the file open has it in its place, and a set that is alone      *)
(* still has it.                                                           *)
FileOpen ==
  medium = "file" =>
  \A c \in Calls :
    /\ HasOpen(c) => stored # None
    /\ Lone(c) /\ call[c].pc = "write" => HasOpen(c)

(* The stages a method of the file driver goes through.                    *)
PlacesOf(method) ==
  CASE method \in {"get", "pull"} -> {"exists", "load", "find", "remove"}
    [] method = "set" -> {"lock", "dir", "mkdir", "truncate", "write"}
    [] method = "delete" -> {"find", "remove"}
    [] method = "clear" -> {"findDir", "removeFiles", "removeDir"}
    [] OTHER -> {"scan", "unlink"}

InPlace == medium = "file" => \A c \in Running : call[c].pc \in PlacesOf(call[c].method)

(* Files and rows are in a directory or a table.                           *)
Standing == medium \notin {"redis", "dynamo"} /\ stored # None => dir

(* The key has what it may have, which includes what the running calls     *)
(* make of it; who is about to delete for a get or a pull saw it gone or   *)
(* takes it.                                                               *)
Accounted ==
  /\ stored # Torn => Found(stored) \in allowed
  /\ \A c \in Running :
       /\ Outcome(c, call[c].method) \subseteq allowed
       /\ call[c].pc \in Holding => None \in allowed
       /\ call[c].method = "get" => call[c].item = None

(* What a step of c makes of the key and of the values it may have.        *)
Accounts(c) ==
  /\ stored' # Torn => Found(stored') \in allowed'
  /\ medium \notin {"redis", "dynamo"} /\ stored' # None => dir'
  /\ c \in overlapped \/ call'[c].pc # "done" => allowed \subseteq allowed'
  /\ call'[c].pc \in Holding => None \in allowed'
  /\ call'[c].pc # "done" /\ call[c].method = "get" => call'[c].item = None
  /\ call'[c].pc = "done" /\ call[c].method = "get" /\ call'[c].res # "error"
     => call'[c].res \in allowed

(* The ways in which a step does so: it ends, goes on, or deletes.         *)
LEMMA AccountsWays ==
  ASSUME TypeOK, Accounted, Standing, NEW c \in Running
  PROVE  /\ \A res :
              /\ Ends(c, res)
              /\ stored' # Torn => Found(stored') \in allowed'
              /\ medium \notin {"redis", "dynamo"} /\ stored' # None => dir'
              /\ call[c].method = "get" /\ res # "error" => res \in allowed
              => Accounts(c)
         /\ \A stage :
              /\ Goto(c, stage) /\ UNCHANGED stored /\ dir' \in {dir, TRUE}
              /\ stage # "done" /\ (stage \in Holding => None \in allowed)
              => Accounts(c)
         /\ \A stage :
              /\ call' = [call EXCEPT ![c].pc = stage, ![c].seen = stored,
                                      ![c].item = Found(stored)]
              /\ UNCHANGED <<stored, dir, allowed>>
              /\ stage # "done" /\ None \in allowed
              /\ call[c].method = "get" => Found(stored) = None
              => Accounts(c)
         /\ Deletes(c) /\ None \in allowed /\ UNCHANGED dir => Accounts(c)
<1>1. /\ call[c] \in Frames /\ call[c].method \in Methods
      /\ Outcome(c, call[c].method) \subseteq allowed
      /\ call[c].method = "get" => call[c].item = None
  BY RunningFrames DEF Accounted, Running, Frames
<1>2. ASSUME NEW res, Ends(c, res), stored' # Torn => Found(stored') \in allowed',
             medium \notin {"redis", "dynamo"} /\ stored' # None => dir',
             call[c].method = "get" /\ res # "error" => res \in allowed
      PROVE  Accounts(c)
  <2>0. call'[c] = [pc |-> "done", method |-> call[c].method, res |-> res]
    BY <1>2, HandsWays
  <2>1. call'[c].pc = "done" /\ call'[c].res = res
    BY <2>0
  <2>2. c \in overlapped => allowed' = allowed
    BY <1>2 DEF Ends
  <2> QED  BY <1>2, <2>1, <2>2 DEF Accounts, Holding
<1>3. ASSUME NEW stage, Goto(c, stage), UNCHANGED stored, dir' \in {dir, TRUE},
             stage # "done", stage \in Holding => None \in allowed
      PROVE  Accounts(c)
  <2>1. call'[c].pc = stage /\ call'[c].item = call[c].item /\ allowed' = allowed
    BY <1>3, HandsWays DEF Goto
  <2>2. medium \notin {"redis", "dynamo"} /\ stored' # None => dir'
    <3>1. dir => dir'
      BY <1>3 DEF TypeOK
    <3> QED  BY <1>3, <3>1 DEF Standing
  <2>3. stored' # Torn => Found(stored') \in allowed'
    BY <1>3, <2>1 DEF Accounted
  <2> QED  BY <1>1, <1>3, <2>1, <2>2, <2>3 DEF Accounts
<1>4. ASSUME NEW stage, call' = [call EXCEPT ![c].pc = stage, ![c].seen = stored,
                                             ![c].item = Found(stored)],
             UNCHANGED <<stored, dir, allowed>>, stage # "done", None \in allowed,
             call[c].method = "get" => Found(stored) = None
      PROVE  Accounts(c)
  <2>1. call'[c].pc = stage /\ call'[c].item = Found(stored)
    BY <1>4, HandsWays
  <2> QED  BY <1>1, <1>4, <2>1 DEF Accounts, Accounted, Standing
<1>5. ASSUME Deletes(c), None \in allowed, UNCHANGED dir  PROVE Accounts(c)
  <2>1. stored' = None /\ call'[c] = [pc |-> "done", method |-> call[c].method, res |-> call[c].item]
    BY <1>5, HandsWays
  <2>2. call'[c].pc = "done" /\ call'[c].res = call[c].item
    BY <2>1
  <2>3. Found(stored') = None
    BY <2>1 DEF Found
  <2>4. None \in allowed' /\ (c \in overlapped => allowed \subseteq allowed')
    BY <1>5 DEF Deletes, Swept
  <2> QED  BY <1>1, <1>5, <2>1, <2>2, <2>3, <2>4 DEF Accounts, Holding
<1> QED  BY <1>2, <1>3, <1>4, <1>5

(* No step opens the file for another call, and a removal closes it.       *)
LEMMA OpenOfOthers ==
  ASSUME TypeOK, Placed, NEW c \in Calls, FileStep(c), NEW d \in Calls \ {c}, HasOpen(d)'
  PROVE  HasOpen(d) /\ (stored' = None => stored = None)
<1>1. c \in Running /\ call[c] \in Frames /\ stored' \in Contents
  BY FileKeeps, RunningFrames DEF Stays
<1>2. (\E res : Ends(c, res)) \/ (\E stage : Goto(c, stage)) => HasOpen(d)
  BY DEF Ends, Goto, HasOpen, Running, TypeOK
<1>3. None # Torn /\ None \notin Entries /\ Written(c) \subseteq Entries
  BY EntryKinds DEF Written, Entries, Values
<1>4. ASSUME NEW frame, call' = [Detached(call) EXCEPT ![c] = frame]  PROVE FALSE
  <2>1. call'[d] = IF d \in Running THEN [call[d] EXCEPT !.open = "no"] ELSE call[d]
    BY <1>4 DEF Detached
  <2>2. d \in Running => call[d] \in Frames
    BY RunningFrames
  <2>3. d \in Running => call'[d].open = "no"
    <3> HIDE DEF Running
    <3> QED  BY <2>1, <2>2 DEF Frames
  <2> QED  BY <2>1, <2>3 DEF HasOpen, Running
<1>5. CASE Exists(c) \/ Find(c) \/ Lock(c) \/ FindDir(c) \/ MkDir(c) \/ FindDirToClear(c) \/ RemoveDir(c)
  BY <1>2, <1>5 DEF Exists, Find, Lock, FindDir, MkDir, FindDirToClear, RemoveDir
<1>6. CASE Load(c)
  <2>1. CASE call' = [call EXCEPT ![c].pc = "find", ![c].seen = stored, ![c].item = Found(stored)]
    <3>1. call'[d] = call[d] /\ UNCHANGED stored
      BY <1>6, <2>1 DEF Load, TypeOK
    <3> QED  BY <3>1 DEF HasOpen, Running
  <2> QED  BY <1>2, <1>6, <2>1 DEF Load
<1>7. CASE Remove(c)
  <2>1. ~Deletes(c)
    BY <1>4 DEF Deletes
  <2> QED  BY <1>2, <1>7, <2>1 DEF Remove
<1>8. CASE Truncate(c)
  <2>1. CASE ~dir
    BY <1>2, <1>8, <2>1 DEF Truncate
  <2>2. CASE dir
    <3> DEFINE sharing == {e \in Running : call[e].open # "no"}
    <3>1. /\ stored' = Torn
          /\ call'[d] = IF d \in sharing THEN [call[d] EXCEPT !.open = "shared"] ELSE call[d]
      BY <1>8, <2>2 DEF Truncate
    <3> QED  BY <1>3, <3>1 DEF HasOpen, Running
  <2> QED  BY <2>1, <2>2
<1>9. CASE Write(c)
  <2>1. stored' = None => stored = None
    BY <1>3, <1>9 DEF Write
  <2> QED  BY <1>2, <1>9, <2>1 DEF Write
<1>10. CASE RemoveFiles(c)
  <2> DEFINE frame == [call[c] EXCEPT !.pc = "removeDir", !.open = "no"]
  <2>1. call' = [Detached(call) EXCEPT ![c] = frame]
    BY <1>1, <1>10 DEF RemoveFiles, Detached, Frames
  <2> QED  BY <1>4, <2>1
<1>11. CASE Scan(c)
  <2>1. CASE call' = [call EXCEPT ![c].pc = "unlink", ![c].seen = stored]
    <3>1. call'[d] = call[d] /\ UNCHANGED stored
      BY <1>11, <2>1 DEF Scan, TypeOK
    <3> QED  BY <3>1 DEF HasOpen, Running
  <2> QED  BY <1>2, <1>11, <2>1 DEF Scan
<1>12. CASE Unlink(c)
  BY <1>4, <1>12 DEF Unlink
<1> QED  BY <1>5, <1>6, <1>7, <1>8, <1>9, <1>10, <1>11, <1>12 DEF FileStep

LEMMA FileAccounts ==
  ASSUME TypeOK, Placed, OneWriter, LoneInv, FileOpen, Standing, InPlace, Accounted,
         NEW c \in Calls, FileStep(c)
  PROVE  /\ Accounts(c)
         /\ call'[c].pc \in {"done"} \cup PlacesOf(call[c].method)
         /\ call'[c].pc = "write" => stored' # None /\ call'[c].open # "no"
<1>1. c \in Running /\ call[c] \in Frames /\ medium = "file"
  BY FileKeeps, RunningFrames DEF Stays
<1>2. /\ \A stage : Goto(c, stage) => call'[c].pc = stage
      /\ \A res : Ends(c, res) => call'[c].pc = "done"
      /\ Deletes(c) => call'[c].pc = "done"
      /\ call[c].pc \in PlacesOf(call[c].method) /\ call[c].method \in Methods
  BY <1>1, PcAfter DEF InPlace, Frames
<1>3. /\ Found(None) = None /\ None # Torn
      /\ stored # Torn => Found(stored) \in allowed
      /\ stored # None => dir
      /\ Outcome(c, call[c].method) \subseteq allowed
      /\ call[c].pc \in Holding => None \in allowed
      /\ call[c].method = "get" => call[c].item = None
  BY <1>1, DriversAssumption DEF Accounted, Standing, Found
<1>4. ASSUME NEW res, Ends(c, res), UNCHANGED <<stored, dir>>,
             \/ Outcome(c, call[c].method) = {} \/ res = "error"
             \/ Outcome(c, call[c].method) = {None} /\ Found(stored) = None,
             call[c].method = "get" /\ res # "error" => res \in allowed
      PROVE  Accounts(c)
  <2>1. stored' # Torn => Found(stored') \in allowed'
    BY <1>3, <1>4 DEF Ends
  <2> QED  BY <1>1, <1>3, <1>4, <2>1, AccountsWays
<1>5. ASSUME NEW stage, Goto(c, stage), UNCHANGED stored, dir' \in {dir, TRUE},
             stage # "done", stage \in Holding => None \in allowed
      PROVE  Accounts(c)
  BY <1>1, <1>5, AccountsWays
<1>6. Outcome(c, call[c].method) =
        IF call[c].method = "set" THEN {c}
        ELSE IF call[c].method \in {"pull", "delete", "clear"} THEN {None} ELSE {}
  BY DEF Outcome
<1> HIDE DEF Running, Outcome
<1>7. CASE Exists(c)
  <2>1. call[c].method \in {"get", "pull"}
    BY <1>2, <1>7 DEF Exists, PlacesOf, Methods
  <2> QED  BY <1>2, <1>3, <1>4, <1>5, <1>6, <1>7, <2>1 DEF Exists, Holding, PlacesOf
<1>8. CASE Load(c)
  <2>1. call[c].method \in {"get", "pull"}
    BY <1>2, <1>8 DEF Load, PlacesOf, Methods
  <2>2. Lapsed(stored) => Found(stored) = None /\ stored # Torn
    BY DEF Lapsed, Found
  <2>3. CASE Ends(c, "error") \/ (Lapsed(stored) /\ Ends(c, None))
    BY <1>2, <1>3, <1>4, <1>6, <1>8, <2>1, <2>2, <2>3 DEF Load
  <2>4. CASE Found(stored) # None /\ call[c].method = "get" /\ Ends(c, Found(stored))
    <3>1. stored # Torn
      BY <2>4 DEF Found
    <3> QED  BY <1>2, <1>3, <1>4, <1>6, <1>8, <2>4, <3>1 DEF Load
  <2>5. CASE /\ \/ Lapsed(stored) /\ handle # "prefixed"
                \/ Found(stored) # None /\ call[c].method = "pull"
             /\ call' = [call EXCEPT ![c].pc = "find", ![c].seen = stored,
                                     ![c].item = Found(stored)]
             /\ UNCHANGED allowed
    <3>1. None \in allowed /\ (call[c].method = "get" => Found(stored) = None)
      BY <1>3, <1>6, <2>2, <2>5
    <3>2. Accounts(c)
      BY <1>1, <1>8, <2>5, <3>1, AccountsWays DEF Load
    <3>3. call'[c].pc = "find"
      BY <1>1, <2>5, HandsWays
    <3> QED  BY <2>1, <3>2, <3>3 DEF PlacesOf
  <2> QED  BY <1>8, <2>3, <2>4, <2>5 DEF Load
<1>9. CASE Find(c) \/ Remove(c)
  <2>1. call[c].method \in {"get", "pull", "delete"} /\ None \in allowed
    BY <1>2, <1>3, <1>9 DEF Find, Remove, PlacesOf, Methods, Holding
  <2>2. Deletes(c) /\ UNCHANGED dir => Accounts(c)
    BY <1>1, <2>1, AccountsWays
  <2> QED  BY <1>2, <1>3, <1>4, <1>5, <1>6, <1>9, <2>1, <2>2 DEF Find, Remove, PlacesOf
<1>10. CASE Lock(c) \/ FindDir(c) \/ MkDir(c)
  <2>1. call[c].method = "set"
    BY <1>2, <1>10 DEF Lock, FindDir, MkDir, PlacesOf, Methods
  <2> QED  BY <1>2, <1>5, <1>10, <2>1 DEF Lock, FindDir, MkDir, PlacesOf, Holding
<1>11. CASE Truncate(c)
  <2>1. call[c].method = "set"
    BY <1>2, <1>11 DEF Truncate, PlacesOf, Methods
  <2>2. CASE ~dir
    BY <1>2, <1>4, <1>11, <2>1, <2>2 DEF Truncate
  <2>3. CASE dir
    <3>1. /\ stored' = Torn /\ UNCHANGED <<allowed, dir>>
          /\ call'[c].pc = "write" /\ call'[c].open \in {"alone", "shared"}
      <4>1. /\ stored' = Torn /\ UNCHANGED <<allowed, dir>>
            /\ \E how \in {"alone", "shared"} :
                 call'[c] = [call[c] EXCEPT !.pc = "write", !.open = how]
        BY <1>11, <2>3 DEF Truncate
      <4>2. call[c] \in Frames
        BY <1>1 DEF Running
      <4> QED  BY <4>1, <4>2 DEF Frames
    <3> QED  BY <1>3, <2>1, <2>3, <3>1 DEF Accounts, PlacesOf, Holding
  <2> QED  BY <2>2, <2>3
<1>12. CASE Write(c)
  <2>1. call[c].method = "set"
    BY <1>2, <1>12 DEF Write, PlacesOf, Methods
  <2>2. /\ call[c].open # "no" => call[c].open = "alone" /\ dir /\ stored # None
        /\ call[c].open = "no" => c \in overlapped
    BY <1>1, <1>3, <1>12 DEF Write, OneWriter, FileOpen, HasOpen, Lone, Running
  <2>3. Ends(c, "true") /\ c \in allowed'
    BY <1>3, <1>6, <1>12, <2>1 DEF Write, Ends
  <2>4. \A entry \in Written(c) : Found(entry) = c
    <3>1. {None, Torn} \cap Written(c) = {}
      BY EntriesAssumption, <1>1 DEF Written, Entries, Values, Running
    <3> QED  BY <3>1 DEF Written, Found, Lapsed
  <2>5. stored' # Torn => Found(stored') \in allowed'
    BY <1>3, <1>12, <2>2, <2>3, <2>4 DEF Write, Ends
  <2>6. stored' # None => dir'
    BY <1>3, <1>12, <2>2 DEF Write
  <2>7. Accounts(c)
    BY <1>1, <2>1, <2>3, <2>5, <2>6, AccountsWays
  <2> QED  BY <1>2, <2>3, <2>7
<1>13. CASE FindDirToClear(c) \/ RemoveDir(c)
  <2>1. call[c].method = "clear"
    BY <1>2, <1>13 DEF FindDirToClear, RemoveDir, PlacesOf, Methods
  <2>2. CASE FindDirToClear(c)
    BY <1>2, <1>3, <1>4, <1>5, <1>6, <2>1, <2>2 DEF FindDirToClear, PlacesOf, Holding
  <2>3. CASE RemoveDir(c)
    <3>1. CASE dir /\ stored = None
      <4>1. Ends(c, None) /\ UNCHANGED stored
        BY <2>3, <3>1 DEF RemoveDir
      <4>2. Found(stored') \in allowed'
        BY <1>3, <1>6, <2>1, <3>1, <4>1 DEF Ends
      <4> QED  BY <1>1, <1>2, <2>1, <3>1, <4>1, <4>2, AccountsWays
    <3>2. CASE ~(dir /\ stored = None)
      BY <1>2, <1>4, <2>3, <3>2 DEF RemoveDir
    <3> QED  BY <3>1, <3>2
  <2> QED  BY <1>13, <2>2, <2>3
<1>14. CASE RemoveFiles(c)
  <2>1. call[c].method = "clear"
    BY <1>2, <1>14 DEF RemoveFiles, PlacesOf, Methods
  <2>2. stored' = None /\ UNCHANGED <<dir, allowed>> /\ call'[c].pc = "removeDir"
    BY <1>1, <1>14 DEF RemoveFiles, Detached, Running, Frames
  <2> QED  BY <1>3, <1>6, <2>1, <2>2 DEF Accounts, PlacesOf, Holding
<1>15. CASE Scan(c)
  <2>1. call[c].method = "prune"
    BY <1>2, <1>15 DEF Scan, PlacesOf, Methods
  <2>2. CASE /\ call' = [call EXCEPT ![c].pc = "unlink", ![c].seen = stored]
             /\ UNCHANGED allowed
    <3>1. call'[c].pc = "unlink"
      BY <1>1, <2>2 DEF TypeOK, Running, Frames
    <3> QED  BY <1>3, <1>15, <2>1, <2>2, <3>1 DEF Scan, Accounts, PlacesOf, Holding
  <2>3. CASE Ends(c, None)
    BY <1>2, <1>4, <1>6, <1>15, <2>1, <2>3 DEF Scan
  <2> QED  BY <1>15, <2>2, <2>3 DEF Scan
<1>16. CASE Unlink(c)
  <2>1. call[c].method = "prune"
    BY <1>2, <1>16 DEF Unlink, PlacesOf, Methods
  <2>2. /\ stored' = None /\ allowed' = allowed \cup {None} /\ UNCHANGED dir
        /\ call'[c] = [pc |-> "done", method |-> call[c].method, res |-> None]
    BY <1>1, <1>16 DEF Unlink, Detached, Running
  <2>3. call'[c].pc = "done"
    BY <2>2
  <2> QED  BY <1>3, <2>1, <2>2, <2>3 DEF Accounts, Holding
<1> QED  BY <1>7, <1>8, <1>9, <1>10, <1>11, <1>12, <1>13, <1>14, <1>15, <1>16
     DEF FileStep

LEMMA RequestAccounts ==
  ASSUME TypeOK, Placed, Standing, Accounted, NEW c \in Calls,
         RequestStep(c) \/ Await(c) \/ HasTable(c) \/ CreateTable(c) \/ CreateIfNotExists(c)
  PROVE  Accounts(c)
<1>1. c \in Running /\ call[c] \in Frames
  BY RequestKeeps, RunningFrames DEF Stays
<1>2. stored # Torn /\ medium # "file"
  BY RequestKeeps, <1>1 DEF Placed
<1>3. /\ Found(None) = None /\ None # Torn
      /\ Found(stored) \in allowed
      /\ medium \notin {"redis", "dynamo"} /\ stored # None => dir
      /\ Outcome(c, call[c].method) \subseteq allowed
      /\ call[c].pc \in Holding => None \in allowed
  BY <1>1, <1>2, DriversAssumption DEF Accounted, Standing, Found
<1>4. Outcome(c, call[c].method) =
        IF call[c].method = "set" THEN {c}
        ELSE IF call[c].method \in {"pull", "delete", "clear"} THEN {None} ELSE {}
  BY DEF Outcome
<1>5. ASSUME NEW res, Ends(c, res), UNCHANGED dir,
             stored' = stored \/ stored' = None,
             call[c].method = "get" /\ res # "error" => res \in allowed,
             \/ Outcome(c, call[c].method) = {} /\ Found(stored') = Found(stored)
             \/ res = "error" /\ stored' = stored
             \/ Outcome(c, call[c].method) = {None} /\ Found(stored') = None
      PROVE  Accounts(c)
  <2>1. Found(stored') \in allowed'
    BY <1>3, <1>5 DEF Ends
  <2>2. medium \notin {"redis", "dynamo"} /\ stored' # None => dir'
    BY <1>3, <1>5
  <2> QED  BY <1>1, <1>5, <2>1, <2>2, AccountsWays
<1>6. ASSUME NEW entry, Ends(c, "true"), stored' = entry, UNCHANGED dir, Found(entry) = c,
             call[c].method = "set", medium \in {"redis", "dynamo"} \/ dir
      PROVE  Accounts(c)
  <2>1. Found(stored') \in allowed'
    BY <1>3, <1>4, <1>6 DEF Ends
  <2> QED  BY <1>1, <1>6, <2>1, AccountsWays
<1>7. ASSUME NEW stage, Goto(c, stage), UNCHANGED stored, dir' \in {dir, TRUE},
             stage \notin {"done"} \cup Holding
      PROVE  Accounts(c)
  BY <1>1, <1>7, AccountsWays
<1>8. ASSUME NEW entry \in Written(c)
      PROVE  entry \in Entries /\ entry.val = c /\ Found(entry) = c
  <2>1. entry \in Entries /\ entry.val = c /\ entry.until # "past"
    BY DEF Written, Entries, Values
  <2> QED  BY <2>1, EntriesAssumption DEF Found, Lapsed
<1>9. Deletes(c) /\ None \in allowed /\ UNCHANGED dir => Accounts(c)
  BY <1>1, AccountsWays
<1> HIDE DEF Running, Outcome
<1>10. CASE RedisGet(c)
  BY <1>3, <1>4, <1>5, <1>10 DEF RedisGet, Requests
<1>11. CASE GetDel(c) \/ RedisUnlink(c)
  BY <1>3, <1>4, <1>5, <1>11 DEF GetDel, RedisUnlink, Requests
<1>12. CASE RedisSet(c) \/ PutItem(c)
  BY <1>6, <1>8, <1>12 DEF RedisSet, PutItem, Requests
<1>13. CASE GetItem(c)
  <2>1. CASE Ends(c, Found(stored)) /\ (call[c].method = "get" \/ Found(stored) = None)
    BY <1>3, <1>4, <1>5, <1>13, <2>1 DEF GetItem, Requests
  <2>2. CASE /\ Found(stored) # None /\ call[c].method # "get"
             /\ call' = [call EXCEPT ![c].pc = "deleteItem", ![c].seen = stored,
                                     ![c].item = Found(stored)]
             /\ UNCHANGED <<stored, dir, allowed>>
    <3>1. None \in allowed
      BY <1>3, <1>4, <1>13, <2>2 DEF GetItem, Requests
    <3> QED  BY <1>1, <2>2, <3>1, AccountsWays
  <2> QED  BY <1>13, <2>1, <2>2 DEF GetItem
<1>14. CASE DeleteItem(c) \/ DeleteRow(c)
  <2>1. None \in allowed
    BY <1>3, <1>4, <1>14 DEF DeleteItem, DeleteRow, Requests, Queries, Holding
  <2> QED  BY <1>9, <1>14, <2>1 DEF DeleteItem, DeleteRow
<1>15. CASE NoTable(c)
  BY <1>5, <1>15 DEF NoTable
<1>16. CASE Select(c)
  <2>1. CASE Ends(c, Found(stored)) /\ (stored = None \/ call[c].method = "get")
    BY <1>3, <1>4, <1>5, <1>16, <2>1 DEF Select, Queries
  <2>2. CASE /\ Lapsed(stored) \/ (stored # None /\ call[c].method = "pull")
             /\ call' = [call EXCEPT ![c].pc = "deleteRow", ![c].seen = stored,
                                     ![c].item = Found(stored)]
             /\ UNCHANGED <<stored, dir, allowed>>
    <3>1. Lapsed(stored) => Found(stored) = None
      BY DEF Found
    <3>2. None \in allowed /\ (call[c].method = "get" => Found(stored) = None)
      BY <1>3, <1>4, <2>2, <3>1
    <3> QED  BY <1>1, <2>2, <3>2, AccountsWays
  <2> QED  BY <1>16, <2>1, <2>2 DEF Select, Queries
<1>17. CASE Upsert(c)
  <2>1. PICK row \in Upserted(c) :
          /\ stored' = row
          /\ IF Lapsed(row)
               THEN /\ call' = [call EXCEPT ![c] =
                          [pc |-> "done", method |-> "set", res |-> "true"]]
                    /\ allowed' = allowed \cup {None}
               ELSE Ends(c, "true")
    BY <1>17 DEF Upsert
  <2>2. call[c].method = "set" /\ dir /\ UNCHANGED dir
    BY <1>17 DEF Upsert, Queries
  <2>3. row \in Entries /\ row.val = c
    <3>1. stored # None => stored \in Entries
      BY <1>2, EntryKinds
    <3>2. ASSUME NEW entry \in Written(c)  PROVE Kept(entry) \in Entries /\ Kept(entry).val = c
      BY <1>8, <3>1 DEF Kept, Entries
    <3> QED  BY <1>8, <2>1, <3>2 DEF Upserted
  <2>4. Found(row) = IF Lapsed(row) THEN None ELSE c
    BY <2>3, EntriesAssumption DEF Found
  <2>5. CASE Lapsed(row)
    <3>1. call'[c] = [pc |-> "done", method |-> "set", res |-> "true"]
      BY <1>1, <2>1, <2>5 DEF TypeOK, Running
    <3>2. call'[c].pc = "done"
      BY <3>1
    <3> QED  BY <2>1, <2>2, <2>4, <2>5, <3>2 DEF Accounts, Holding
  <2>6. CASE ~Lapsed(row)
    BY <1>6, <2>1, <2>2, <2>4, <2>6
  <2> QED  BY <2>5, <2>6
<1>18. CASE PruneRows(c)
  <2>1. Found(Pruned(stored)) = Found(stored)
    BY DEF Pruned, Found, Lapsed
  <2> QED  BY <1>3, <1>4, <1>5, <1>18, <2>1 DEF PruneRows, Queries, Pruned
<1>19. CASE Await(c)
  BY <1>5, <1>7, <1>19 DEF Await, Holding
<1>20. CASE HasTable(c) \/ CreateIfNotExists(c)
  BY <1>7, <1>20 DEF HasTable, CreateIfNotExists, Holding
<1>21. CASE CreateTable(c)
  <2>1. CASE dir
    <3>1. dir' = dir
      BY <1>21, <2>1 DEF CreateTable, TypeOK
    <3> QED  BY <1>5, <1>21, <2>1, <3>1 DEF CreateTable
  <2>2. CASE ~dir
    BY <1>7, <1>21, <2>2 DEF CreateTable, Holding
  <2> QED  BY <2>1, <2>2
<1> QED  BY <1>10, <1>11, <1>12, <1>13, <1>14, <1>15, <1>16, <1>17, <1>18, <1>19, <1>20, <1>21
     DEF RequestStep

GetInv == FileOpen /\ Standing /\ InPlace /\ Accounted

(* A get that ends without an error returns a value the key may have.      *)
GetEnds ==
  \A c \in Calls :
    (call[c].pc \notin {"idle", "done"} /\ call'[c].pc = "done"
     /\ call[c].method = "get" /\ call'[c].res # "error")
    => call'[c].res \in allowed

LEMMA GetStep ==
  ASSUME TypeOK, Placed, OneWriter, OneWriter', LoneInv, GetInv, NEW c \in Calls, Step(c)
  PROVE  GetInv' /\ GetEnds
<1>1. /\ c \in Running /\ overlapped' = overlapped /\ medium' = medium
      /\ call[c].pc \notin {"idle", "done"} /\ call'[c].method = call[c].method
      /\ c \in overlapped \/ \A d \in Running : d = c
  BY StepRunning, StepKeeps DEF LoneInv, Overlapping, Running, Stays, Shaped
<1>2. Accounts(c)
  BY FileAccounts, RequestAccounts DEF Step, GetInv
<1>3. ASSUME NEW d \in Calls \ {c}
      PROVE  /\ d \in Running' <=> d \in Running
             /\ call'[d].pc = call[d].pc
             /\ d \notin Running => call'[d] = call[d]
             /\ d \in Running => /\ call'[d].item = call[d].item
                                 /\ call'[d].method = call[d].method
                                 /\ c \in overlapped /\ d \in overlapped
  <2>1. SameBut(c)
    BY StepKeeps DEF Stays, Shaped
  <2> QED  BY <1>1, <2>1 DEF SameBut, Running, LoneInv, Overlapping
<1>4. medium = "file" => FileStep(c)
  BY RequestKeeps DEF Step
<1>5. FileOpen'
  <2> SUFFICES ASSUME medium = "file", NEW d \in Calls
               PROVE  /\ HasOpen(d)' => stored' # None
                      /\ Lone(d)' /\ call'[d].pc = "write" => HasOpen(d)'
    BY <1>1 DEF FileOpen
  <2>1. CASE d = c
    <3>1. call'[c].pc = "write" => stored' # None /\ call'[c].open # "no"
      BY <1>4, FileAccounts DEF GetInv
    <3>2. HasOpen(c)' => call'[c].pc = "write"
      BY <1>1 DEF OneWriter
    <3> QED  BY <2>1, <3>1, <3>2 DEF Lone, HasOpen
  <2>2. CASE d # c
    <3>1. ~Lone(d)'
      BY <1>1, <1>3, <2>2 DEF Lone
    <3>2. HasOpen(d)' => stored' # None
      BY <1>4, <2>2, OpenOfOthers DEF GetInv, FileOpen
    <3> QED  BY <3>1, <3>2
  <2> QED  BY <2>1, <2>2
<1>6. Standing'
  BY <1>1, <1>2 DEF Accounts, Standing
<1>7. InPlace'
  <2> SUFFICES ASSUME medium = "file", NEW d \in Running'
               PROVE  call'[d].pc \in PlacesOf(call'[d].method)
    BY <1>1 DEF InPlace
  <2>1. CASE d = c
    <3>1. call'[c].pc \in {"done"} \cup PlacesOf(call[c].method)
      BY <1>4, FileAccounts DEF GetInv
    <3> QED  BY <1>1, <2>1, <3>1 DEF Running
  <2>2. CASE d # c
    <3>1. d \in Calls /\ d \in Running
      BY <1>3, <2>2 DEF Running
    <3> QED  BY <1>3, <2>2, <3>1 DEF GetInv, InPlace
  <2> QED  BY <2>1, <2>2
<1>8. Accounted'
  <2>1. ASSUME NEW d \in Running'
        PROVE  /\ Outcome(d, call'[d].method) \subseteq allowed'
               /\ call'[d].pc \in Holding => None \in allowed'
               /\ call'[d].method = "get" => call'[d].item = None
    <3>1. CASE d = c
      <4>1. call'[c].pc # "done"
        BY <2>1, <3>1 DEF Running
      <4>2. Outcome(c, call[c].method) \subseteq allowed
        BY <1>1 DEF GetInv, Accounted
      <4> QED  BY <1>1, <1>2, <3>1, <4>1, <4>2 DEF Accounts
    <3>2. CASE d # c
      <4>1. d \in Calls /\ d \in Running
        BY <1>3, <2>1, <3>2 DEF Running
      <4>2. allowed \subseteq allowed'
        BY <1>2, <1>3, <3>2, <4>1 DEF Accounts
      <4>3. /\ Outcome(d, call[d].method) \subseteq allowed
            /\ call[d].pc \in Holding => None \in allowed
            /\ call[d].method = "get" => call[d].item = None
        BY <4>1 DEF GetInv, Accounted
      <4> QED  BY <1>3, <3>2, <4>1, <4>2, <4>3
    <3> QED  BY <3>1, <3>2
  <2> QED  BY <1>2, <2>1 DEF Accounts, Accounted
<1>9. GetEnds
  <2> SUFFICES ASSUME NEW d \in Calls, call[d].pc \notin {"idle", "done"},
                      call'[d].pc = "done", call[d].method = "get", call'[d].res # "error"
               PROVE  call'[d].res \in allowed
    BY DEF GetEnds
  <2>1. d = c
    BY <1>3
  <2> QED  BY <1>2, <2>1 DEF Accounts
<1> QED  BY <1>5, <1>6, <1>7, <1>8, <1>9 DEF GetInv

LEMMA GetBegin ==
  ASSUME TypeOK, Placed, OneWriter, GetInv, NEW c \in Calls, NEW method \in Methods,
         Begin(c, method)
  PROVE  GetInv' /\ GetEnds
<1>1. /\ UNCHANGED <<medium, stored, dir>> /\ overlapped \subseteq overlapped'
      /\ call[c].pc = "idle" /\ allowed' = allowed \cup Outcome(c, method)
  BY DEF Begin, Starts, siteVars
<1>2. /\ \A d \in Calls \ {c} : call'[d] = call[d] /\ (d \in Running' <=> d \in Running)
      /\ call'[c].pc = FirstStage(method) /\ call'[c].item = None
      /\ call'[c].method = method /\ call'[c].open = "no"
      /\ FirstStage(method) \in StagesOf(medium)
  BY BeginKeeps DEF Running, TypeOK
<1>3. /\ FirstStage(method) \notin {"write", "done"}
      /\ medium = "file" => FirstStage(method) \in PlacesOf(method)
      /\ FirstStage(method) \in Holding => method = "delete"
  BY DEF FirstStage, FileStage, DatabaseStage, Databases, Methods, PlacesOf, Holding
<1> HIDE DEF FirstStage
<1>4. FileOpen'
  BY <1>1, <1>2, <1>3 DEF GetInv, FileOpen, HasOpen, Lone
<1>5. Standing'
  BY <1>1 DEF GetInv, Standing
<1>6. InPlace'
  BY <1>1, <1>2, <1>3 DEF GetInv, InPlace, Running
<1>7. method = "delete" => None \in Outcome(c, method)
  BY DEF Outcome
<1> HIDE DEF Outcome
<1>8. ASSUME NEW d \in Running'
      PROVE  /\ Outcome(d, call'[d].method) \subseteq allowed'
             /\ call'[d].pc \in Holding => None \in allowed'
             /\ call'[d].method = "get" => call'[d].item = None
  BY <1>1, <1>2, <1>3, <1>7 DEF GetInv, Accounted, Running
<1>9. Accounted'
  BY <1>1, <1>8 DEF GetInv, Accounted
<1>10. GetEnds
  BY <1>1, <1>2 DEF GetEnds
<1> QED  BY <1>4, <1>5, <1>6, <1>9, <1>10 DEF GetInv

LEMMA GetElsewhere ==
  ASSUME TypeOK, Placed, PullInv, GetInv, Lapse \/ Created \/ Crash \/ UNCHANGED vars
  PROVE  GetInv' /\ GetEnds
<1>1. CASE Lapse
  <2>1. /\ UNCHANGED <<medium, dir, call, overlapped>> /\ stored \in Entries
        /\ allowed' = (allowed \ {stored.val}) \cup {None}
        /\ stored' \in Entries /\ stored' = [stored EXCEPT !.until = "past"]
    BY <1>1, LapseKeeps DEF Lapse, siteVars
  <2>2. Found(stored') = None /\ stored' # None
    BY <2>1, EntriesAssumption DEF Found, Lapsed, Entries
  <2>3. ASSUME NEW c \in Running  PROVE stored.val \notin Outcome(c, call[c].method)
    <3>1. stored.val # c /\ stored.val # None
      BY <2>1, <2>3, EntryKinds, NotValues, DriversAssumption DEF PullInv, Settled, Running
    <3> QED  BY <3>1 DEF Outcome
  <2> HIDE DEF Outcome
  <2>4. Accounted'
    BY <2>1, <2>2, <2>3 DEF GetInv, Accounted, Running
  <2>5. FileOpen' /\ Standing' /\ InPlace'
    BY <2>1, <2>2, EntriesAssumption DEF GetInv, FileOpen, HasOpen, Lone, Standing, InPlace, Running
  <2>6. GetEnds
    BY <2>1 DEF GetEnds
  <2> QED  BY <2>4, <2>5, <2>6 DEF GetInv
<1>2. CASE Created \/ UNCHANGED vars
  <2>1. /\ UNCHANGED <<medium, stored, call, overlapped, allowed>>
        /\ dir => dir'
    BY <1>2 DEF Created, vars, siteVars
  <2>2. GetInv'
    BY <2>1 DEF GetInv, FileOpen, HasOpen, Lone, Standing, InPlace, Accounted, Running
  <2> QED  BY <2>1, <2>2 DEF GetEnds
<1>3. CASE Crash
  <2>1. Running' = {} /\ UNCHANGED <<medium, stored, dir, overlapped, allowed>>
    BY <1>3, CrashKeeps DEF Crash, siteVars
  <2>2. ASSUME NEW c \in Running  PROVE call'[c].res = "error"
    BY <1>3, <2>2 DEF Crash, Running
  <2>3. GetInv'
    BY <2>1 DEF GetInv, FileOpen, HasOpen, Lone, Standing, InPlace, Accounted
  <2> QED  BY <2>2, <2>3 DEF GetEnds, Running
<1> QED  BY <1>1, <1>2, <1>3

(* A get returns what the last calls, and those that overlapped each other *)
(* since, made of the key.                                                 *)
THEOREM DriversGetWhatIsStored == Spec => GetsWhatIsStored
<1>1. Init => GetInv
  <2> SUFFICES ASSUME Init  PROVE GetInv
    OBVIOUS
  <2>1. Running = {}
    BY DEF Init, Idle, Running
  <2>2. (stored # None => dir) /\ Found(stored) \in allowed
    <3>1. CASE stored = None
      BY <3>1 DEF Init, Found
    <3>2. CASE stored = [val |-> First, until |-> "later"]
      <4>1. stored \in Entries /\ stored.val = First /\ stored.until = "later"
        BY <3>2 DEF Entries, Values
      <4>2. stored # None /\ stored # Torn
        BY <4>1, EntriesAssumption
      <4> QED  BY <4>1, <4>2 DEF Init, Found, Lapsed
    <3> QED  BY <3>1, <3>2 DEF Init
  <2> QED  BY <2>1, <2>2 DEF GetInv, FileOpen, HasOpen, Lone, Standing, InPlace, Accounted
<1>2. TypeOK /\ Placed /\ OneWriter /\ OneWriter' /\ LoneInv /\ PullInv /\ GetInv /\ [Next]_vars
      => GetInv' /\ [GetEnds]_vars
  BY GetStep, GetBegin, GetElsewhere DEF Next
<1> QED  BY <1>1, <1>2, Invariant, WriterInvariant, LoneInvariant, PullInvariant, PTL DEF Spec, GetsWhatIsStored, GetEnds

=============================================================================
