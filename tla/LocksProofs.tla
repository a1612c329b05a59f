---------------------------- MODULE LocksProofs ----------------------------
(* Theorems about Locks, for every set of requests. *)
EXTENDS Locks, TLAPS, SequenceTheorems

(* A mutex exists only once the request it is named after created it. *)
MutexesCreated ==
  \A r \in Requests : mutexOf[r] # None =>
    /\ mutexOf[r] \in Requests
    /\ mutexOf[mutexOf[r]] = mutexOf[r]

(* The creator of a mutex is granted it at once: it never waits. *)
CreatorsNeverWait ==
  \A r \in Requests : mutexOf[r] = r =>
    /\ r \notin gaveUp
    /\ holder[r] = r \/ r \in released

(* Only a request that asked for the lock gives up or releases. *)
LeaversAsked == \A r \in gaveUp \cup released : mutexOf[r] # None

(* While no release was crowded, a held mutex is the one the map names. *)
OnlyMappedMutexHeld ==
  ~crowded => \A m \in Requests : holder[m] # None => m = lock

IInv ==
  /\ LocksTypeOK
  /\ QueuesConsistent
  /\ HoldersConsistent
  /\ NoLostWakeup
  /\ MapNamesCreatorsMutex
  /\ MutexesCreated
  /\ CreatorsNeverWait
  /\ LeaversAsked
  /\ OnlyMappedMutexHeld

----------------------------------------------------------------------------

(* Facts about the head and the tail of a waiting queue. *)
LEMMA HeadAndTail ==
  ASSUME NEW S, NEW s \in Seq(S), s # <<>>
  PROVE  /\ Head(s) \in S
         /\ Head(s) = s[1]
         /\ Tail(s) \in Seq(S)
         /\ 1 \in 1..Len(s)
         /\ Len(Tail(s)) = Len(s) - 1
         /\ \A i \in 1..Len(Tail(s)) : i + 1 \in 1..Len(s) /\ Tail(s)[i] = s[i + 1]
OBVIOUS

LEMMA InitIInv == LocksInit => IInv
<1> SUFFICES ASSUME LocksInit PROVE IInv
  OBVIOUS
<1> USE DEF LocksInit
<1>1. LocksTypeOK
  <2>1. <<>> \in Seq(Requests)
    OBVIOUS
  <2>2. queue \in [Requests -> Seq(Requests)]
    BY <2>1
  <2>3. QED
    BY <2>2 DEF LocksTypeOK
<1>2. QueuesConsistent
  BY DEF QueuesConsistent
<1>3. HoldersConsistent /\ NoLostWakeup /\ MapNamesCreatorsMutex
  BY DEF HoldersConsistent, NoLostWakeup, MapNamesCreatorsMutex
<1>4. MutexesCreated /\ CreatorsNeverWait /\ LeaversAsked /\ OnlyMappedMutexHeld
  BY NoneAssumption
     DEF MutexesCreated, CreatorsNeverWait, LeaversAsked, OnlyMappedMutexHeld
<1>5. QED
  BY <1>1, <1>2, <1>3, <1>4 DEF IInv

----------------------------------------------------------------------------
(* Handing a mutex over: what Release and Discard have in common. *)

LEMMA HandOverKeeps ==
  ASSUME IInv, NEW r \in Requests, Holds(r), r \notin released,
         HandOver(mutexOf[r]), released' = released \cup {r},
         UNCHANGED <<mutexOf, gaveUp>>
  PROVE  /\ holder' \in [Requests -> Requests \cup {None}]
         /\ queue' \in [Requests -> Seq(Requests)]
         /\ QueuesConsistent'
         /\ HoldersConsistent'
         /\ NoLostWakeup'
         /\ MutexesCreated'
         /\ CreatorsNeverWait'
<1> DEFINE m == mutexOf[r]
<1>1. m \in Requests /\ holder[m] = r /\ m # None
  BY NoneAssumption DEF Holds, IInv, MutexesCreated
<1>2. MutexesCreated'
  BY DEF IInv, MutexesCreated
<1>3. CASE queue[m] = <<>>
  <2>1. holder' = [holder EXCEPT ![m] = None] /\ queue' = queue
    BY <1>3 DEF HandOver
  <2>2. /\ holder' \in [Requests -> Requests \cup {None}]
        /\ queue' \in [Requests -> Seq(Requests)]
    BY <2>1 DEF IInv, LocksTypeOK
  <2>3. QueuesConsistent'
    <3> SUFFICES ASSUME NEW n \in Requests, NEW i \in 1..Len(queue[n])
                 PROVE  /\ mutexOf[queue[n][i]] = n
                        /\ queue[n][i] \notin released \cup {r}
                        /\ holder'[n] # queue[n][i]
                        /\ \A j \in 1..Len(queue[n]) :
                             queue[n][i] = queue[n][j] => i = j
      BY <2>1 DEF QueuesConsistent
    <3>1. n # m
      BY <1>3
    <3>2. holder'[n] = holder[n]
      BY <1>1, <2>1, <3>1 DEF IInv, LocksTypeOK
    <3>3. QED
      BY <1>1, <3>1, <3>2 DEF IInv, QueuesConsistent
  <2>4. HoldersConsistent'
    BY <1>1, <2>1 DEF IInv, HoldersConsistent, LocksTypeOK
  <2>5. NoLostWakeup'
    BY <1>1, <1>3, <2>1 DEF IInv, NoLostWakeup, LocksTypeOK
  <2>6. CreatorsNeverWait'
    BY <1>1, <2>1 DEF IInv, CreatorsNeverWait, LocksTypeOK
  <2>7. QED
    BY <1>2, <2>2, <2>3, <2>4, <2>5, <2>6
<1>4. CASE queue[m] # <<>>
  <2> DEFINE h == Head(queue[m])
  <2>1. /\ holder' = [holder EXCEPT ![m] = h]
        /\ queue' = [queue EXCEPT ![m] = Tail(queue[m])]
    BY <1>4 DEF HandOver
  <2>2. queue[m] \in Seq(Requests)
    BY <1>1 DEF IInv, LocksTypeOK
  <2>3. /\ h \in Requests
        /\ h = queue[m][1]
        /\ Tail(queue[m]) \in Seq(Requests)
        /\ 1 \in 1..Len(queue[m])
        /\ Len(Tail(queue[m])) = Len(queue[m]) - 1
        /\ \A i \in 1..Len(Tail(queue[m])) :
             i + 1 \in 1..Len(queue[m]) /\ Tail(queue[m])[i] = queue[m][i + 1]
    BY <1>4, <2>2, HeadAndTail
  <2>4. mutexOf[h] = m /\ h \notin released /\ h # r
    BY <1>1, <2>3 DEF IInv, QueuesConsistent
  <2>5. /\ holder' \in [Requests -> Requests \cup {None}]
        /\ queue' \in [Requests -> Seq(Requests)]
    BY <1>1, <2>1, <2>3 DEF IInv, LocksTypeOK
  <2>6. QueuesConsistent'
    <3> SUFFICES ASSUME NEW n \in Requests, NEW i \in 1..Len(queue'[n])
                 PROVE  /\ mutexOf[queue'[n][i]] = n
                        /\ queue'[n][i] \notin released \cup {r}
                        /\ holder'[n] # queue'[n][i]
                        /\ \A j \in 1..Len(queue'[n]) :
                             queue'[n][i] = queue'[n][j] => i = j
      BY DEF QueuesConsistent
    <3>1. CASE n = m
      <4>1. queue'[n] = Tail(queue[m]) /\ holder'[n] = h
        BY <1>1, <2>1, <3>1 DEF IInv, LocksTypeOK
      <4>2. i \in Nat /\ i + 1 \in 1..Len(queue[m]) /\ queue'[n][i] = queue[m][i + 1]
        BY <2>3, <4>1
      <4>3. \A j \in 1..Len(queue[m]) : queue[m][i + 1] = queue[m][j] => i + 1 = j
        BY <1>1, <4>2 DEF IInv, QueuesConsistent
      <4>4. /\ mutexOf[queue[m][i + 1]] = m
            /\ queue[m][i + 1] \notin released
            /\ queue[m][i + 1] # r
        BY <1>1, <4>2 DEF IInv, QueuesConsistent
      <4>5. queue[m][i + 1] # h
        BY <2>3, <4>2, <4>3
      <4>6. \A j \in 1..Len(queue'[n]) : queue'[n][i] = queue'[n][j] => i = j
        BY <2>3, <4>1, <4>2, <4>3
      <4>7. QED
        BY <3>1, <4>1, <4>2, <4>4, <4>5, <4>6
    <3>2. CASE n # m
      <4>1. queue'[n] = queue[n] /\ holder'[n] = holder[n]
        BY <1>1, <2>1, <3>2 DEF IInv, LocksTypeOK
      <4>2. QED
        BY <1>1, <3>2, <4>1 DEF IInv, QueuesConsistent
    <3>3. QED
      BY <3>1, <3>2
  <2>7. HoldersConsistent'
    BY <1>1, <2>1, <2>3, <2>4 DEF IInv, HoldersConsistent, LocksTypeOK
  <2>8. NoLostWakeup'
    BY NoneAssumption, <1>1, <2>1, <2>3 DEF IInv, NoLostWakeup, LocksTypeOK
  <2>9. CreatorsNeverWait'
    BY <1>1, <2>1 DEF IInv, CreatorsNeverWait, LocksTypeOK
  <2>10. QED
    BY <1>2, <2>5, <2>6, <2>7, <2>8, <2>9
<1>5. QED
  BY <1>3, <1>4

----------------------------------------------------------------------------
(* One lemma per action. *)

LEMMA AcquireKeeps ==
  ASSUME IInv, NEW r \in Requests, Acquire(r)
  PROVE  IInv'
<1> DEFINE m == IF lock = None THEN r ELSE lock
<1>1. /\ m \in Requests
      /\ m # None
      /\ lock' = m
      /\ mutexOf[r] = None
      /\ mutexOf' = [mutexOf EXCEPT ![r] = m]
      /\ UNCHANGED <<gaveUp, released, crowded>>
  BY NoneAssumption DEF Acquire, IInv, LocksTypeOK
<1>2. \A q \in Requests : mutexOf[q] # r
  BY NoneAssumption, <1>1 DEF IInv, MutexesCreated
<1>3. holder[r] = None /\ queue[r] = <<>>
  BY NoneAssumption, <1>2 DEF IInv, HoldersConsistent, NoLostWakeup, LocksTypeOK
<1>4. \A n \in Requests : holder[n] # r
  BY NoneAssumption, <1>1 DEF IInv, HoldersConsistent, LocksTypeOK
<1>5. \A n \in Requests : \A i \in 1..Len(queue[n]) : queue[n][i] # r
  BY NoneAssumption, <1>1 DEF IInv, QueuesConsistent
<1>6. CASE lock = None
  <2>1. /\ m = r
        /\ holder' = [holder EXCEPT ![r] = r]
        /\ queue' = queue
        /\ mutexOf' = [mutexOf EXCEPT ![r] = r]
    BY <1>1, <1>3, <1>6 DEF Acquire
  <2>2. LocksTypeOK'
    BY <1>1, <2>1 DEF IInv, LocksTypeOK
  <2>3. QueuesConsistent'
    <3> SUFFICES ASSUME NEW n \in Requests, NEW i \in 1..Len(queue[n])
                 PROVE  /\ mutexOf'[queue[n][i]] = n
                        /\ queue[n][i] \notin released
                        /\ holder'[n] # queue[n][i]
                        /\ \A j \in 1..Len(queue[n]) :
                             queue[n][i] = queue[n][j] => i = j
      BY <1>1, <2>1 DEF QueuesConsistent
    <3>1. n # r
      BY <1>3
    <3>2. queue[n][i] # r /\ queue[n][i] \in Requests
      BY <1>5 DEF IInv, LocksTypeOK
    <3>3. mutexOf'[queue[n][i]] = mutexOf[queue[n][i]] /\ holder'[n] = holder[n]
      BY <2>1, <3>1, <3>2 DEF IInv, LocksTypeOK
    <3>4. QED
      BY <3>3 DEF IInv, QueuesConsistent
  <2>4. HoldersConsistent'
    BY <1>1, <1>4, <2>1 DEF IInv, HoldersConsistent, LeaversAsked, LocksTypeOK
  <2>5. NoLostWakeup' /\ MapNamesCreatorsMutex'
    BY NoneAssumption, <1>1, <2>1
       DEF IInv, NoLostWakeup, MapNamesCreatorsMutex, LocksTypeOK
  <2>6. MutexesCreated'
    <3> SUFFICES ASSUME NEW q \in Requests, mutexOf'[q] # None
                 PROVE  mutexOf'[q] \in Requests /\ mutexOf'[mutexOf'[q]] = mutexOf'[q]
      BY DEF MutexesCreated
    <3>1. CASE q = r
      BY <2>1, <3>1 DEF IInv, LocksTypeOK
    <3>2. CASE q # r
      <4>1. mutexOf'[q] = mutexOf[q] /\ mutexOf[q] \in Requests /\ mutexOf[q] # r
        BY <1>2, <2>1, <3>2 DEF IInv, LocksTypeOK
      <4>2. QED
        BY <2>1, <4>1 DEF IInv, MutexesCreated, LocksTypeOK
    <3>3. QED
      BY <3>1, <3>2
  <2>7. CreatorsNeverWait'
    <3>1. r \notin gaveUp
      BY <1>1 DEF IInv, LeaversAsked
    <3>2. QED
      BY <1>1, <2>1, <3>1 DEF IInv, CreatorsNeverWait, LocksTypeOK
  <2>8. LeaversAsked' /\ OnlyMappedMutexHeld'
    BY NoneAssumption, <1>1, <1>6, <2>1
       DEF IInv, LeaversAsked, OnlyMappedMutexHeld, LocksTypeOK
  <2>9. QED
    BY <2>2, <2>3, <2>4, <2>5, <2>6, <2>7, <2>8 DEF IInv
<1>7. CASE lock # None
  <2>1. m = lock /\ holder[m] = m /\ holder[m] # None
    BY <1>1, <1>7 DEF IInv, MapNamesCreatorsMutex
  <2>2. holder' = holder /\ queue' = [queue EXCEPT ![m] = Append(queue[m], r)]
    BY <1>7, <2>1 DEF Acquire
  <2>3. LocksTypeOK'
    BY <1>1, <2>2 DEF IInv, LocksTypeOK
  <2>4. QueuesConsistent'
    <3> SUFFICES ASSUME NEW n \in Requests, NEW i \in 1..Len(queue'[n])
                 PROVE  /\ mutexOf'[queue'[n][i]] = n
                        /\ queue'[n][i] \notin released
                        /\ holder[n] # queue'[n][i]
                        /\ \A j \in 1..Len(queue'[n]) :
                             queue'[n][i] = queue'[n][j] => i = j
      BY <1>1, <2>2 DEF QueuesConsistent
    <3>1. CASE n # m
      <4>1. queue'[n] = queue[n]
        BY <1>1, <2>2, <3>1 DEF IInv, LocksTypeOK
      <4>2. queue[n][i] \in Requests
        BY <4>1 DEF IInv, LocksTypeOK
      <4>3. QED
        BY <1>1, <1>5, <4>1, <4>2 DEF IInv, QueuesConsistent, LocksTypeOK
    <3>2. CASE n = m
      <4>1. queue[m] \in Seq(Requests) /\ queue'[n] = Append(queue[m], r)
        BY <1>1, <2>2, <3>2 DEF IInv, LocksTypeOK
      <4>2. /\ Len(queue'[n]) = Len(queue[m]) + 1
            /\ queue'[n][Len(queue[m]) + 1] = r
            /\ \A j \in 1..Len(queue[m]) :
                 queue'[n][j] = queue[m][j] /\ queue[m][j] \in Requests
        BY <4>1
      <4>3. r \notin released
        BY <1>1 DEF IInv, LeaversAsked
      <4>4. CASE i = Len(queue[m]) + 1
        <5>1. queue'[n][i] = r /\ mutexOf'[r] = n
          BY <1>1, <3>2, <4>2, <4>4 DEF IInv, LocksTypeOK
        <5>2. \A j \in 1..Len(queue'[n]) : j # i => queue'[n][j] # r
          BY <1>1, <1>5, <4>1, <4>2, <4>4
        <5>3. QED
          BY <1>4, <4>3, <5>1, <5>2
      <4>5. CASE i # Len(queue[m]) + 1
        <5>1. i \in 1..Len(queue[m]) /\ queue'[n][i] = queue[m][i]
          BY <4>1, <4>2, <4>5
        <5>2. queue[m][i] \in Requests /\ queue[m][i] # r
          BY <1>1, <1>5, <4>2, <5>1
        <5>3. /\ mutexOf[queue[m][i]] = m
              /\ queue[m][i] \notin released
              /\ holder[m] # queue[m][i]
              /\ \A j \in 1..Len(queue[m]) : queue[m][i] = queue[m][j] => i = j
          BY <1>1, <5>1 DEF IInv, QueuesConsistent
        <5>4. mutexOf'[queue[m][i]] = m
          BY <1>1, <5>2, <5>3 DEF IInv, LocksTypeOK
        <5>5. \A j \in 1..Len(queue'[n]) : queue'[n][i] = queue'[n][j] => i = j
          BY <4>1, <4>2, <5>1, <5>2, <5>3
        <5>6. QED
          BY <3>2, <5>1, <5>3, <5>4, <5>5
      <4>6. QED
        BY <4>4, <4>5
    <3>3. QED
      BY <3>1, <3>2
  <2>5. HoldersConsistent'
    BY <1>1, <1>4, <2>2 DEF IInv, HoldersConsistent, LocksTypeOK
  <2>6. NoLostWakeup' /\ MapNamesCreatorsMutex'
    BY <1>1, <2>1, <2>2
       DEF IInv, NoLostWakeup, MapNamesCreatorsMutex, LocksTypeOK
  <2>7. MutexesCreated'
    BY <1>1, <1>2, <2>1 DEF IInv, MutexesCreated, HoldersConsistent, LocksTypeOK
  <2>8. CreatorsNeverWait'
    BY <1>1, <1>2, <2>1, <2>2
       DEF IInv, CreatorsNeverWait, HoldersConsistent, LocksTypeOK
  <2>9. LeaversAsked' /\ OnlyMappedMutexHeld'
    BY <1>1, <2>1, <2>2 DEF IInv, LeaversAsked, OnlyMappedMutexHeld, LocksTypeOK
  <2>10. QED
    BY <2>3, <2>4, <2>5, <2>6, <2>7, <2>8, <2>9 DEF IInv
<1>8. QED
  BY <1>6, <1>7

LEMMA ReleaseKeeps ==
  ASSUME IInv, NEW r \in Requests, Release(r)
  PROVE  IInv'
<1> USE DEF Release
<1>1. lock' = None /\ crowded' \in BOOLEAN /\ mutexOf[r] # None
  BY DEF Granted, Holds, IInv, LocksTypeOK, LeaversAsked
<1>2. MapNamesCreatorsMutex'
  BY <1>1 DEF MapNamesCreatorsMutex
<1>3. CASE r \in released
  <2>1. UNCHANGED <<holder, queue, released, mutexOf, gaveUp>> /\ crowded'
    BY <1>3 DEF Releaser
  <2>2. LocksTypeOK'
    BY <1>1, <2>1 DEF IInv, LocksTypeOK
  <2>3. QueuesConsistent' /\ HoldersConsistent' /\ NoLostWakeup'
    BY <2>1 DEF IInv, QueuesConsistent, HoldersConsistent, NoLostWakeup
  <2>4. /\ MutexesCreated' /\ CreatorsNeverWait'
        /\ LeaversAsked' /\ OnlyMappedMutexHeld'
    BY <2>1 DEF IInv, MutexesCreated, CreatorsNeverWait, LeaversAsked,
                OnlyMappedMutexHeld
  <2>5. QED
    BY <1>2, <2>2, <2>3, <2>4 DEF IInv
<1>4. CASE r \notin released
  <2>1. Holds(r) /\ HandOver(mutexOf[r]) /\ released' = released \cup {r}
    BY <1>4 DEF Granted, Releaser
  <2>2. /\ holder' \in [Requests -> Requests \cup {None}]
        /\ queue' \in [Requests -> Seq(Requests)]
        /\ QueuesConsistent' /\ HoldersConsistent' /\ NoLostWakeup'
        /\ MutexesCreated' /\ CreatorsNeverWait'
    BY <1>4, <2>1, HandOverKeeps
  <2>3. LocksTypeOK'
    BY <1>1, <2>1, <2>2 DEF IInv, LocksTypeOK
  <2>4. LeaversAsked'
    BY <1>1, <2>1 DEF IInv, LeaversAsked
  <2>5. OnlyMappedMutexHeld'
    <3> SUFFICES ASSUME ~crowded', NEW m \in Requests
                 PROVE  holder'[m] = None
      BY DEF OnlyMappedMutexHeld
    <3>1. ~crowded /\ queue[mutexOf[r]] = <<>>
      BY <1>1 DEF IInv, LocksTypeOK
    <3>2. holder' = [holder EXCEPT ![mutexOf[r]] = None]
      BY <2>1, <3>1 DEF HandOver
    <3>3. holder[m] # None => m = mutexOf[r]
      BY NoneAssumption, <1>1, <2>1, <3>1
         DEF IInv, OnlyMappedMutexHeld, Holds, LocksTypeOK
    <3>4. QED
      BY <3>2, <3>3 DEF IInv, LocksTypeOK
  <2>6. QED
    BY <1>2, <2>2, <2>3, <2>4, <2>5 DEF IInv
<1>5. QED
  BY <1>3, <1>4

LEMMA GiveUpKeeps ==
  ASSUME IInv, NEW r \in Requests, GiveUp(r)
  PROVE  IInv'
<1> USE DEF GiveUp
<1>1. mutexOf[r] # None /\ r \notin released /\ ~Holds(r)
  BY DEF Waits
<1>2. LocksTypeOK' /\ LeaversAsked'
  BY <1>1 DEF IInv, LocksTypeOK, LeaversAsked
<1>3. QueuesConsistent' /\ HoldersConsistent' /\ NoLostWakeup'
  BY DEF IInv, QueuesConsistent, HoldersConsistent, NoLostWakeup
<1>4. MapNamesCreatorsMutex' /\ MutexesCreated' /\ OnlyMappedMutexHeld'
  BY DEF IInv, MapNamesCreatorsMutex, MutexesCreated, OnlyMappedMutexHeld
<1>5. CreatorsNeverWait'
  BY <1>1 DEF IInv, CreatorsNeverWait, Holds
<1>6. QED
  BY <1>2, <1>3, <1>4, <1>5 DEF IInv

(* A request that gave up never created its mutex, so the one it discards  *)
(* is not the one the map names: CreatorsNeverWait is needed here.         *)
LEMMA DiscardKeeps ==
  ASSUME IInv, NEW r \in Requests, Discard(r)
  PROVE  IInv'
<1> DEFINE m == mutexOf[r]
<1>1. /\ r \in gaveUp
      /\ Holds(r)
      /\ UNCHANGED <<lock, mutexOf, gaveUp, crowded>>
  BY DEF Discard
<1>2. m # None /\ m \in Requests /\ m # r /\ holder[m] = r
  BY <1>1 DEF IInv, Holds, MutexesCreated, CreatorsNeverWait, LocksTypeOK
<1>3. r \notin released
  BY NoneAssumption, <1>2 DEF IInv, HoldersConsistent
<1>4. HandOver(m) /\ released' = released \cup {r}
  BY <1>3 DEF Discard, Releaser
<1>5. /\ holder' \in [Requests -> Requests \cup {None}]
      /\ queue' \in [Requests -> Seq(Requests)]
      /\ QueuesConsistent' /\ HoldersConsistent' /\ NoLostWakeup'
      /\ MutexesCreated' /\ CreatorsNeverWait'
  BY <1>1, <1>3, <1>4, HandOverKeeps
<1>6. LocksTypeOK' /\ LeaversAsked'
  BY <1>1, <1>2, <1>4, <1>5 DEF IInv, LocksTypeOK, LeaversAsked
<1>7. \A n \in Requests : n # m => holder'[n] = holder[n]
  BY <1>2, <1>4 DEF HandOver, IInv, LocksTypeOK
<1>8. lock # m
  BY <1>2 DEF IInv, MapNamesCreatorsMutex
<1>9. MapNamesCreatorsMutex'
  BY <1>1, <1>7, <1>8 DEF IInv, MapNamesCreatorsMutex, LocksTypeOK
<1>10. OnlyMappedMutexHeld'
  BY NoneAssumption, <1>1, <1>2, <1>8 DEF IInv, OnlyMappedMutexHeld
<1>11. QED
  BY <1>5, <1>6, <1>9, <1>10 DEF IInv

LEMMA StepKeepsIInv == IInv /\ [LocksNext]_lockVars => IInv'
<1> SUFFICES ASSUME IInv, [LocksNext]_lockVars PROVE IInv'
  OBVIOUS
<1>1. ASSUME NEW r \in Requests, LocksStep(r) PROVE IInv'
  BY <1>1, AcquireKeeps, ReleaseKeeps, GiveUpKeeps, DiscardKeeps DEF LocksStep
<1>2. CASE UNCHANGED lockVars
  BY <1>2 DEF lockVars, IInv, LocksTypeOK, QueuesConsistent, HoldersConsistent,
              NoLostWakeup, MapNamesCreatorsMutex, MutexesCreated,
              CreatorsNeverWait, LeaversAsked, OnlyMappedMutexHeld
<1>3. QED
  BY <1>1, <1>2 DEF LocksNext

LEMMA Invariance == LocksSpec => []IInv
BY InitIInv, StepKeepsIInv, PTL DEF LocksSpec

----------------------------------------------------------------------------

(* The variables of the lock keep their types (locks.ts:8). *)
THEOREM LocksTypeCorrect == LocksSpec => []LocksTypeOK
<1>1. IInv => LocksTypeOK
  BY DEF IInv
<1>2. QED
  BY <1>1, Invariance, PTL

(* The mutex the map names is the only one held. *)
LEMMA OwnersAlone == IInv => SingleFlight
<1> SUFFICES ASSUME IInv, ~crowded,
                    NEW q \in Requests, NEW r \in Requests, Holds(q), Holds(r)
             PROVE  q = r
  BY DEF SingleFlight
<1>1. /\ mutexOf[q] \in Requests /\ holder[mutexOf[q]] = q
      /\ mutexOf[r] \in Requests /\ holder[mutexOf[r]] = r
  BY DEF IInv, Holds, MutexesCreated
<1>2. mutexOf[q] = lock /\ mutexOf[r] = lock
  BY NoneAssumption, <1>1 DEF IInv, OnlyMappedMutexHeld
<1>3. QED
  BY <1>1, <1>2

(* Single flight for any number of requests (locks.ts:16-29): two requests *)
(* hold mutexes of the key at once only after a release that was repeated  *)
(* or that left others waiting on the mutex it forgot.                     *)
THEOREM SingleFlightHolds == LocksSpec => []SingleFlight
BY OwnersAlone, Invariance, PTL

(* The map entry of a key is never a mutex that came free nor one that was *)
(* handed on: it always belongs to the request that created it.            *)
THEOREM MapEntryLive == LocksSpec => []MapNamesCreatorsMutex
<1>1. IInv => MapNamesCreatorsMutex
  BY DEF IInv
<1>2. QED
  BY <1>1, Invariance, PTL

(* Forgetting a mutex while requests wait on it loses none of them: a      *)
(* mutex with waiters is always held by somebody.                          *)
THEOREM WakeupsKept == LocksSpec => []NoLostWakeup
<1>1. IInv => NoLostWakeup
  BY DEF IInv
<1>2. QED
  BY <1>1, Invariance, PTL

(* Queues hold each request once, on the mutex it asked for (locks.ts:23): *)
(* a request that timed out and stayed queued is not served twice.         *)
THEOREM QueuesStayConsistent == LocksSpec => []QueuesConsistent
<1>1. IInv => QueuesConsistent
  BY DEF IInv
<1>2. QED
  BY <1>1, Invariance, PTL

(* A mutex is only ever granted to a request that asked for it and has not *)
(* released it, however often release is called (locks.ts:26-29).          *)
THEOREM HoldersStayConsistent == LocksSpec => []HoldersConsistent
<1>1. IInv => HoldersConsistent
  BY DEF IInv
<1>2. QED
  BY <1>1, Invariance, PTL

----------------------------------------------------------------------------
(* Locks implements Exclusion.                                             *)

Owners == {r \in Requests : Holds(r)}
Waiters == {r \in Requests : Waits(r)}

(* A request that waits is in the queue of the mutex it asked for. *)
WaitersQueued ==
  \A r \in Waiters : \E i \in 1..Len(queue[mutexOf[r]]) : queue[mutexOf[r]][i] = r

NobodyLeftWaiting == Owners = {} => Waiters = {}

LEMMA AcquireQueues ==
  ASSUME IInv, WaitersQueued, NEW r \in Requests, Acquire(r)
  PROVE  WaitersQueued'
<1> DEFINE m == IF lock = None THEN r ELSE lock
<1>1. /\ m \in Requests
      /\ m # None
      /\ mutexOf[r] = None
      /\ mutexOf' = [mutexOf EXCEPT ![r] = m]
      /\ released' = released
      /\ queue[m] \in Seq(Requests)
  BY NoneAssumption DEF Acquire, IInv, LocksTypeOK
<1>2. \A q \in Requests : mutexOf[q] # r
  BY NoneAssumption, <1>1 DEF IInv, MutexesCreated
<1>3. holder[r] = None
  BY NoneAssumption, <1>2 DEF IInv, HoldersConsistent, LocksTypeOK
<1> SUFFICES ASSUME NEW q \in Requests, Waits(q)'
             PROVE  \E i \in 1..Len(queue'[mutexOf'[q]]) : queue'[mutexOf'[q]][i] = q
  BY DEF WaitersQueued, Waiters
<1>4. CASE q = r
  <2>1. mutexOf'[q] = m
    BY <1>1, <1>4 DEF IInv, LocksTypeOK
  <2>2. holder[m] # None
    <3> SUFFICES ASSUME holder[m] = None PROVE FALSE
      OBVIOUS
    <3>1. holder' = [holder EXCEPT ![m] = r]
      BY DEF Acquire
    <3>2. QED
      BY <1>1, <1>4, <2>1, <3>1 DEF Waits, Holds, IInv, LocksTypeOK
  <2>3. queue' = [queue EXCEPT ![m] = Append(queue[m], r)]
    BY <2>2 DEF Acquire
  <2>4. queue'[m] = Append(queue[m], r)
    BY <1>1, <2>3 DEF IInv, LocksTypeOK
  <2>5. /\ Len(queue[m]) + 1 \in 1..Len(queue'[m])
        /\ queue'[m][Len(queue[m]) + 1] = r
    BY <1>1, <2>4
  <2>6. QED
    BY <1>4, <2>1, <2>5
<1>5. CASE q # r
  <2>1. mutexOf'[q] = mutexOf[q] /\ mutexOf[q] \in Requests /\ mutexOf[q] # r
    BY <1>1, <1>2, <1>5 DEF Waits, IInv, LocksTypeOK
  <2>2. Waits(q)
    <3>1. CASE holder[m] = None
      <4>1. holder' = [holder EXCEPT ![m] = r]
        BY <3>1 DEF Acquire
      <4>2. QED
        BY <1>1, <1>5, <2>1, <3>1, <4>1, NoneAssumption
           DEF Waits, Holds, IInv, LocksTypeOK
    <3>2. CASE holder[m] # None
      <4>1. holder' = holder
        BY <3>2 DEF Acquire
      <4>2. QED
        BY <1>1, <2>1, <4>1 DEF Waits, Holds
    <3>3. QED
      BY <3>1, <3>2
  <2>3. PICK i \in 1..Len(queue[mutexOf[q]]) : queue[mutexOf[q]][i] = q
    BY <2>2 DEF WaitersQueued, Waiters
  <2>4. CASE queue'[mutexOf[q]] = queue[mutexOf[q]]
    BY <2>1, <2>3, <2>4
  <2>5. CASE mutexOf[q] = m /\ queue'[m] = Append(queue[m], r)
    <3>1. i \in 1..Len(queue'[m]) /\ queue'[m][i] = queue[m][i]
      BY <1>1, <2>3, <2>5
    <3>2. QED
      BY <2>1, <2>3, <2>5, <3>1
  <2>6. queue' = queue \/ queue' = [queue EXCEPT ![m] = Append(queue[m], r)]
    BY DEF Acquire
  <2>7. QED
    BY <1>1, <2>1, <2>4, <2>5, <2>6 DEF IInv, LocksTypeOK
<1>6. QED
  BY <1>4, <1>5

(* The request at the head stops waiting when it leaves the queue. *)
LEMMA HandOverQueues ==
  ASSUME IInv, WaitersQueued, NEW r \in Requests, Holds(r), r \notin released,
         HandOver(mutexOf[r]), released' = released \cup {r}, UNCHANGED mutexOf
  PROVE  WaitersQueued'
<1> DEFINE m == mutexOf[r]
<1>1. m \in Requests /\ holder[m] = r /\ m # None
  BY NoneAssumption DEF Holds, IInv, MutexesCreated
<1> SUFFICES ASSUME NEW q \in Requests, Waits(q)'
             PROVE  \E i \in 1..Len(queue'[mutexOf[q]]) : queue'[mutexOf[q]][i] = q
  BY DEF WaitersQueued, Waiters
<1>2. mutexOf[q] \in Requests /\ mutexOf[q] # None /\ q # r /\ q \notin released
  BY DEF Waits, IInv, LocksTypeOK
<1>3. CASE mutexOf[q] # m
  <2>1. queue'[mutexOf[q]] = queue[mutexOf[q]] /\ holder'[mutexOf[q]] = holder[mutexOf[q]]
    BY <1>1, <1>2, <1>3 DEF HandOver, IInv, LocksTypeOK
  <2>2. Waits(q)
    BY <1>2, <2>1 DEF Waits, Holds
  <2>3. QED
    BY <2>1, <2>2 DEF WaitersQueued, Waiters
<1>4. CASE mutexOf[q] = m
  <2>1. Waits(q)
    BY <1>1, <1>2, <1>4 DEF Waits, Holds
  <2>2. PICK i \in 1..Len(queue[m]) : queue[m][i] = q
    BY <1>4, <2>1 DEF WaitersQueued, Waiters
  <2>3. queue[m] \in Seq(Requests) /\ queue[m] # <<>>
    BY <1>1, <2>2 DEF IInv, LocksTypeOK
  <2>4. /\ holder' = [holder EXCEPT ![m] = Head(queue[m])]
        /\ queue' = [queue EXCEPT ![m] = Tail(queue[m])]
    BY <2>3 DEF HandOver
  <2>5. holder'[m] = Head(queue[m]) /\ queue'[m] = Tail(queue[m])
    BY <1>1, <2>4 DEF IInv, LocksTypeOK
  <2>6. Head(queue[m]) # q
    BY <1>2, <1>4, <2>5 DEF Waits, Holds
  <2>7. i # 1
    BY <2>2, <2>3, <2>6, HeadAndTail
  <2>8. i - 1 \in 1..Len(Tail(queue[m])) /\ Tail(queue[m])[i - 1] = queue[m][i]
    BY <2>2, <2>3, <2>7
  <2>9. QED
    BY <1>4, <2>2, <2>5, <2>8
<1>5. QED
  BY <1>3, <1>4

LEMMA StepKeepsWaitersQueued ==
  IInv /\ WaitersQueued /\ [LocksNext]_lockVars => WaitersQueued'
<1> SUFFICES ASSUME IInv, WaitersQueued, [LocksNext]_lockVars PROVE WaitersQueued'
  OBVIOUS
<1>1. ASSUME UNCHANGED <<mutexOf, holder, queue, released>> PROVE WaitersQueued'
  BY <1>1 DEF WaitersQueued, Waiters, Waits, Holds
<1>2. ASSUME NEW r \in Requests, Acquire(r) PROVE WaitersQueued'
  BY <1>2, AcquireQueues
<1>3. ASSUME NEW r \in Requests, Release(r) PROVE WaitersQueued'
  <2>1. CASE r \in released
    BY <1>1, <1>3, <2>1 DEF Release, Releaser
  <2>2. CASE r \notin released
    BY <1>3, <2>2, HandOverQueues DEF Release, Releaser, Granted
  <2>3. QED
    BY <2>1, <2>2
<1>4. ASSUME NEW r \in Requests, GiveUp(r) PROVE WaitersQueued'
  BY <1>1, <1>4 DEF GiveUp
<1>5. ASSUME NEW r \in Requests, Discard(r) PROVE WaitersQueued'
  <2>1. Holds(r) /\ r \notin released
    BY NoneAssumption, <1>5 DEF Discard, Holds, IInv, HoldersConsistent, MutexesCreated
  <2>2. QED
    BY <1>5, <2>1, HandOverQueues DEF Discard, Releaser
<1>6. CASE UNCHANGED lockVars
  BY <1>1, <1>6 DEF lockVars
<1>7. QED
  BY <1>2, <1>3, <1>4, <1>5, <1>6 DEF LocksNext, LocksStep

LEMMA OwnersServeWaiters == IInv /\ WaitersQueued => NobodyLeftWaiting
<1> SUFFICES ASSUME IInv, WaitersQueued, NEW w \in Requests, Waits(w)
             PROVE  \E h \in Requests : Holds(h)
  BY DEF NobodyLeftWaiting, Owners, Waiters
<1> DEFINE m == mutexOf[w]
<1>1. m \in Requests /\ m # None
  BY DEF Waits, IInv, LocksTypeOK
<1>2. queue[m] # <<>>
  <2>1. PICK i \in 1..Len(queue[m]) : queue[m][i] = w
    BY DEF WaitersQueued, Waiters
  <2>2. QED
    BY <2>1
<1>3. holder[m] # None /\ holder[m] \in Requests
  BY <1>1, <1>2 DEF IInv, NoLostWakeup, LocksTypeOK
<1>4. Holds(holder[m])
  BY <1>1, <1>3 DEF IInv, HoldersConsistent, Holds
<1>5. QED
  BY <1>3, <1>4

(* The invariant the refinement needs. *)
RInv == IInv /\ WaitersQueued /\ NobodyLeftWaiting

LEMMA InitWaitersQueued == LocksInit => WaitersQueued
BY DEF LocksInit, WaitersQueued, Waiters, Waits

LEMMA RefinementInvariance == LocksSpec => []RInv
<1>1. LocksInit => IInv /\ WaitersQueued
  BY InitIInv, InitWaitersQueued
<1>2. (IInv /\ WaitersQueued) /\ [LocksNext]_lockVars => (IInv /\ WaitersQueued)'
  BY StepKeepsIInv, StepKeepsWaitersQueued
<1>3. IInv /\ WaitersQueued => RInv
  BY OwnersServeWaiters DEF RInv
<1>4. QED
  BY <1>1, <1>2, <1>3, PTL DEF LocksSpec

(* Requests asking for the lock find it free, loose or owned.              *)
LEMMA AcquireAsks ==
  ASSUME RInv, NEW r \in Requests, Acquire(r)
  PROVE  Abstract!Ask(r)
<1> DEFINE m == IF lock = None THEN r ELSE lock
<1>1. /\ m \in Requests
      /\ m # None
      /\ mutexOf[r] = None
      /\ mutexOf' = [mutexOf EXCEPT ![r] = m]
      /\ UNCHANGED <<released, crowded>>
  BY NoneAssumption DEF Acquire, RInv, IInv, LocksTypeOK
<1>2. \A q \in Requests : mutexOf[q] # r
  BY NoneAssumption, <1>1 DEF RInv, IInv, MutexesCreated
<1>3. holder[r] = None
  BY NoneAssumption, <1>2 DEF RInv, IInv, HoldersConsistent, LocksTypeOK
<1>4. \A n \in Requests : holder[n] # r
  BY NoneAssumption, <1>1 DEF RInv, IInv, HoldersConsistent, LocksTypeOK
<1>5. r \notin Owners \cup Waiters \cup released
  BY <1>1 DEF Owners, Waiters, Holds, Waits, RInv, IInv, LeaversAsked
<1>6. \A q \in Requests \ {r} : /\ mutexOf'[q] = mutexOf[q]
                                /\ mutexOf[q] # None => mutexOf[q] \in Requests \ {r}
  BY <1>1, <1>2 DEF RInv, IInv, LocksTypeOK
<1>7. mutexOf'[r] = m
  BY <1>1 DEF RInv, IInv, LocksTypeOK
<1>8. CASE lock = None
  <2>1. m = r /\ holder' = [holder EXCEPT ![r] = r]
    BY <1>3, <1>8 DEF Acquire
  <2>2. Owners' = Owners \cup {r}
    <3>1. Holds(r)'
      BY <1>1, <1>7, <2>1 DEF Holds, RInv, IInv, LocksTypeOK
    <3>2. \A q \in Requests \ {r} : Holds(q)' <=> Holds(q)
      BY <1>6, <2>1 DEF Holds, RInv, IInv, LocksTypeOK
    <3>3. QED
      BY <3>1, <3>2 DEF Owners
  <2>3. Waiters' = Waiters
    <3>1. ~Waits(r)' /\ ~Waits(r)
      BY <1>1, <1>7, <2>1 DEF Waits, Holds, RInv, IInv, LocksTypeOK
    <3>2. \A q \in Requests \ {r} : Waits(q)' <=> Waits(q)
      BY <1>1, <1>6, <2>1 DEF Waits, Holds, RInv, IInv, LocksTypeOK
    <3>3. QED
      BY <3>1, <3>2 DEF Waiters
  <2>4. Owners = {} \/ crowded
    <3> SUFFICES ASSUME ~crowded, NEW q \in Requests, Holds(q) PROVE FALSE
      BY DEF Owners
    <3>1. mutexOf[q] \in Requests /\ mutexOf[q] # None /\ holder[mutexOf[q]] # None
      BY NoneAssumption DEF Holds, RInv, IInv, LocksTypeOK
    <3>2. QED
      BY <1>8, <3>1 DEF RInv, IInv, OnlyMappedMutexHeld
  <2>5. QED
    BY <1>1, <1>5, <2>2, <2>3, <2>4 DEF Abstract!Ask, Owners, Waiters
<1>9. CASE lock # None
  <2>1. m = lock /\ holder[m] = m /\ m # r
    BY <1>1, <1>3, <1>9 DEF RInv, IInv, MapNamesCreatorsMutex
  <2>2. holder' = holder
    BY <1>1, <1>9, <2>1 DEF Acquire
  <2>3. m \in Owners
    BY <1>1, <2>1 DEF Owners, Holds, RInv, IInv, HoldersConsistent
  <2>4. Owners' = Owners
    <3>1. ~Holds(r)' /\ ~Holds(r)
      BY <1>1, <1>4, <1>7, <2>2 DEF Holds
    <3>2. \A q \in Requests \ {r} : Holds(q)' <=> Holds(q)
      BY <1>6, <2>2 DEF Holds
    <3>3. QED
      BY <3>1, <3>2 DEF Owners
  <2>5. Waiters' = Waiters \cup {r}
    <3>1. Waits(r)'
      BY <1>1, <1>4, <1>5, <1>7, <2>2 DEF Waits, Holds
    <3>2. \A q \in Requests \ {r} : Waits(q)' <=> Waits(q)
      BY <1>1, <1>6, <2>2 DEF Waits, Holds
    <3>3. QED
      BY <3>1, <3>2 DEF Waiters
  <2>6. QED
    BY <1>1, <1>5, <2>3, <2>4, <2>5 DEF Abstract!Ask, Owners, Waiters
<1>10. QED
  BY <1>8, <1>9

(* A mutex handed over passes the lock on. *)
LEMMA HandOverPasses ==
  ASSUME RInv, NEW r \in Requests, Holds(r), r \notin released,
         HandOver(mutexOf[r]), released' = released \cup {r}, UNCHANGED mutexOf
  PROVE  Abstract!Pass(r)
<1> DEFINE m == mutexOf[r]
<1>1. m \in Requests /\ holder[m] = r /\ m # None
  BY NoneAssumption DEF Holds, RInv, IInv, MutexesCreated
<1>2. ~Waits(r) /\ ~Waits(r)'
  BY DEF Waits
<1>3. \A q \in Requests : mutexOf[q] # None => mutexOf[q] \in Requests
  BY DEF RInv, IInv, LocksTypeOK
<1>4. CASE queue[m] = <<>>
  <2>1. holder' = [holder EXCEPT ![m] = None]
    BY <1>4 DEF HandOver
  <2>2. ~Holds(r)' /\ \A q \in Requests \ {r} : Holds(q)' <=> Holds(q)
    BY NoneAssumption, <1>1, <1>3, <2>1 DEF Holds, RInv, IInv, LocksTypeOK
  <2>3. \A q \in Requests \ {r} : Waits(q)' <=> Waits(q)
    BY <2>2 DEF Waits
  <2>4. Owners' = Owners \ {r}
    BY <2>2 DEF Owners
  <2>5. Waiters' = Waiters
    BY <1>2, <2>3 DEF Waiters
  <2>6. QED
    BY <2>4, <2>5 DEF Abstract!Pass, Owners, Waiters
<1>5. CASE queue[m] # <<>>
  <2>1. PICK h \in Requests : h = Head(queue[m])
    BY <1>1, <1>5, HeadAndTail DEF RInv, IInv, LocksTypeOK
  <2>2. /\ holder' = [holder EXCEPT ![m] = h]
        /\ h = queue[m][1] /\ 1 \in 1..Len(queue[m])
    BY <1>1, <1>5, <2>1, HeadAndTail DEF HandOver, RInv, IInv, LocksTypeOK
  <2>3. mutexOf[h] = m /\ h \notin released /\ h # r
    BY <1>1, <2>2 DEF RInv, IInv, QueuesConsistent
  <2>4. Waits(h) /\ Holds(h)' /\ ~Waits(h)'
    BY <1>1, <2>2, <2>3 DEF Waits, Holds, RInv, IInv, LocksTypeOK
  <2>5. ~Holds(r)' /\ \A q \in Requests \ {r, h} : Holds(q)' <=> Holds(q)
    BY <1>1, <1>3, <2>2, <2>3 DEF Holds, RInv, IInv, LocksTypeOK
  <2>6. \A q \in Requests \ {r, h} : Waits(q)' <=> Waits(q)
    BY <2>5 DEF Waits
  <2>7. Owners' = (Owners \ {r}) \cup {h}
    BY <2>2, <2>3, <2>4, <2>5 DEF Owners
  <2>8. Waiters' = Waiters \ {h}
    BY <1>2, <2>4, <2>6 DEF Waiters
  <2>9. h \in Waiters
    BY <2>2, <2>4 DEF Waiters
  <2>10. QED
    BY <2>7, <2>8, <2>9 DEF Abstract!Pass, Owners, Waiters
<1>6. QED
  BY <1>4, <1>5

LEMMA ReleaseLeaves ==
  ASSUME RInv, RInv', NEW r \in Requests, Release(r)
  PROVE  Abstract!Leave(r) \/ Abstract!LeaveAgain(r)
<1> DEFINE m == mutexOf[r]
<1>1. CASE r \in released
  <2>1. UNCHANGED <<holder, queue, released, mutexOf>> /\ crowded' = TRUE
    BY <1>1 DEF Release, Releaser, RInv, IInv, LocksTypeOK
  <2>2. Owners' = Owners /\ Waiters' = Waiters
    BY <2>1 DEF Owners, Waiters, Waits, Holds
  <2>3. QED
    BY <1>1, <2>1, <2>2 DEF Abstract!LeaveAgain, Owners, Waiters
<1>2. CASE r \notin released
  <2>1. /\ Holds(r) /\ HandOver(m) /\ UNCHANGED mutexOf
        /\ released' = released \cup {r}
        /\ crowded' = (crowded \/ queue[m] # <<>>)
    BY <1>2 DEF Release, Releaser, Granted
  <2>2. Abstract!Pass(r)
    BY <1>2, <2>1, HandOverPasses
  <2>3. m \in Requests /\ m # None /\ holder[m] = r
    BY NoneAssumption, <2>1 DEF Holds, RInv, IInv, MutexesCreated
  <2>4. queue[m] # <<>> => Waiters # {}
    <3> SUFFICES ASSUME queue[m] # <<>> PROVE Waiters # {}
      OBVIOUS
    <3> DEFINE h == Head(queue[m])
    <3>1. h \in Requests /\ h = queue[m][1] /\ 1 \in 1..Len(queue[m])
      BY <2>3, HeadAndTail DEF RInv, IInv, LocksTypeOK
    <3>2. mutexOf[h] = m /\ h \notin released /\ h # r
      BY <2>3, <3>1 DEF RInv, IInv, QueuesConsistent
    <3>3. Waits(h)
      BY <2>3, <3>2 DEF Waits, Holds
    <3>4. QED
      BY <3>1, <3>3 DEF Waiters
  <2>5. ~crowded /\ Waiters # {} => queue[m] # <<>>
    <3> SUFFICES ASSUME ~crowded, NEW w \in Requests, Waits(w) PROVE queue[m] # <<>>
      BY DEF Waiters
    <3>1. mutexOf[w] \in Requests /\ queue[mutexOf[w]] # <<>>
      <4>1. PICK i \in 1..Len(queue[mutexOf[w]]) : queue[mutexOf[w]][i] = w
        BY DEF RInv, WaitersQueued, Waiters
      <4>2. QED
        BY <4>1 DEF Waits, RInv, IInv, LocksTypeOK
    <3>2. mutexOf[w] = lock
      BY <3>1 DEF RInv, IInv, NoLostWakeup, OnlyMappedMutexHeld
    <3>3. m = lock
      BY NoneAssumption, <2>3 DEF RInv, IInv, OnlyMappedMutexHeld
    <3>4. QED
      BY <3>1, <3>2, <3>3
  <2>6. crowded' = (crowded \/ Waiters # {})
    BY <2>1, <2>4, <2>5 DEF RInv, IInv, LocksTypeOK
  <2>7. r \in Owners
    BY <2>1 DEF Owners
  <2>8. Owners' = {} => Waiters' = {}
    BY DEF RInv, NobodyLeftWaiting
  <2>9. QED
    BY <2>1, <2>2, <2>6, <2>7, <2>8 DEF Abstract!Leave, Owners, Waiters
<1>3. QED
  BY <1>1, <1>2

(* Who gave up was queued, so the mutex it discards was handed to it: that *)
(* release was crowded already.                                            *)
LEMMA DiscardLeaves ==
  ASSUME RInv, RInv', NEW r \in Requests, Discard(r)
  PROVE  Abstract!Leave(r)
<1> DEFINE m == mutexOf[r]
<1>1. /\ Holds(r) /\ r \in gaveUp /\ UNCHANGED <<mutexOf, crowded>>
      /\ m \in Requests /\ m # None /\ holder[m] = r
  BY DEF Discard, Holds, RInv, IInv, MutexesCreated
<1>2. r \notin released
  BY NoneAssumption, <1>1 DEF RInv, IInv, HoldersConsistent
<1>3. HandOver(m) /\ released' = released \cup {r}
  BY <1>2 DEF Discard, Releaser
<1>4. Abstract!Pass(r)
  BY <1>1, <1>2, <1>3, HandOverPasses
<1>5. crowded = TRUE
  <2> SUFFICES ASSUME ~crowded PROVE FALSE
    BY DEF RInv, IInv, LocksTypeOK
  <2>1. m = lock
    BY NoneAssumption, <1>1 DEF RInv, IInv, OnlyMappedMutexHeld
  <2>2. m = r
    BY <1>1, <2>1 DEF RInv, IInv, MapNamesCreatorsMutex
  <2>3. QED
    BY <1>1, <2>2 DEF RInv, IInv, CreatorsNeverWait
<1>6. r \in Owners
  BY <1>1 DEF Owners
<1>7. Owners' = {} => Waiters' = {}
  BY DEF RInv, NobodyLeftWaiting
<1>8. QED
  BY <1>1, <1>3, <1>4, <1>5, <1>6, <1>7 DEF Abstract!Leave, Owners, Waiters

LEMMA StepRefines == RInv /\ RInv' /\ [LocksNext]_lockVars => [Abstract!Next]_(Abstract!vars)
<1> SUFFICES ASSUME RInv, RInv', [LocksNext]_lockVars
             PROVE  [Abstract!Next]_(Abstract!vars)
  OBVIOUS
<1>1. ASSUME NEW r \in Requests, Acquire(r) PROVE Abstract!Next
  BY <1>1, AcquireAsks DEF Abstract!Next
<1>2. ASSUME NEW r \in Requests, Release(r) PROVE Abstract!Next
  BY <1>2, ReleaseLeaves DEF Abstract!Next
<1>3. ASSUME NEW r \in Requests, Discard(r) PROVE Abstract!Next
  BY <1>3, DiscardLeaves DEF Abstract!Next
<1>4. ASSUME UNCHANGED <<mutexOf, holder, released, crowded>>
      PROVE  UNCHANGED Abstract!vars
  BY <1>4 DEF Abstract!vars, Holds, Waits
<1>5. ASSUME NEW r \in Requests, GiveUp(r) PROVE UNCHANGED Abstract!vars
  BY <1>4, <1>5 DEF GiveUp
<1>6. CASE UNCHANGED lockVars
  BY <1>4, <1>6 DEF lockVars
<1>7. QED
  BY <1>1, <1>2, <1>3, <1>5, <1>6 DEF LocksNext, LocksStep

(* For any number of requests the mutexes, queues and map entry of a key   *)
(* behave as one lock that is passed on (locks.ts:10-29): it is exclusive  *)
(* until somebody leaves it while others wait, and as long as a request    *)
(* waits another one has it.                                               *)
THEOREM LocksImplementExclusion == LocksSpec => ImplementsExclusion
<1>1. LocksInit => Abstract!Init
  BY DEF LocksInit, Abstract!Init, Holds, Waits
<1>2. QED
  BY <1>1, StepRefines, RefinementInvariance, PTL
     DEF LocksSpec, ImplementsExclusion, Abstract!Spec
=============================================================================
