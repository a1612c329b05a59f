# bentocache in TLA+

Specifications, model-checking runs and proofs for bentocache, a multi-tier
cache for Node.js. File names below are relative to
`src/packages/bentocache/src/` unless they start with `src/`.

## The system

A `BentoCache` (bento_cache.ts) holds named stores. Each store is a `Cache`
(cache/cache.ts) over a `CacheStack` (cache/cache_stack.ts): an optional L1 in
the memory of the process, an optional L2 shared by all processes, and an
optional bus by which processes tell each other to drop what their L1s hold.

| Part | State it keeps | Operations | What makes it correct |
| --- | --- | --- | --- |
| Locks (cache/locks.ts) | a map from keys to async-mutex mutexes | getOrCreateForKey + acquire, release | one holder per key, no waiter lost, no entry left behind |
| FactoryRunner (cache/factory_runner.ts) | jobs that outlive the call that started them | run | the lock comes free, the value is stored, errors have a handler |
| TwoTierHandler, SingleTierHandler (cache/get_set/) | what a call read before it awaited | handle | every call answered, stampede protection, newer values win |
| CacheEntryOptions, CacheEntry (cache/cache_entry/) | TTLs, grace, timeouts, flags; value, expiration, tags | decisions; expire, applyBackoff, serialize | stale values only inside the grace period |
| Cache, CacheStack (cache/) | the tiers | get, set, pull, delete, deleteMany, expire, clear, getOrSet | tiers and processes agree once all is through |
| LocalCache, RemoteCache (cache/facades/) | L1; L2 and its breaker | get, set, delete, logicallyExpire, clear | errors of L2 suppressed or thrown, never half of each |
| CircuitBreaker (circuit_breaker/) | open or closed, until when | isOpen, open, close | closes again |
| Bus (bus/bus.ts) | retry queue, L1s by namespace | publish, subscribe, onMessage | messages reach every other process, repeated or late ones do no harm |
| TagSystem (cache/tag_system.ts) | tag records kept in the cache itself | isTagInvalidated, createTagInvalidations | entries older than an invalidation are not served |
| Drivers (drivers/) | memory LRU, Redis, DynamoDB, SQL tables, files | get, set, pull, delete, clear, prune, namespace | an operation does not lose a concurrent write, nor touch the keys of others |
| BinaryEncoder (bus/encoders/) | none | encode, decode | decode inverts encode |
| BentoCache, BentoStore, options | stores by name, their namespaces | use, namespace, clearAll, get, set, delete | stores and namespaces do not remove each other's keys |
| Logger, events, tracing channels, telemetry packages | none the cache depends on | | observation only |

How they interact. A `getOrSet` reads L1, waits for the lock of the key, reads
L1 and L2 again, and hands its lock to the FactoryRunner, which stores the
factory's value by `CacheStack.set` and releases the lock, perhaps long after
the caller was answered with a stale value. `set`, `delete` and `expire` change
L1 in the caller's turn, await L2, then publish. `clear` does its three parts
at the same time. Messages change only the L1 of their receivers.

What is hard. JavaScript runs one turn at a time, but every `await` lets other
calls of the process in, and L2 and the bus let other processes in. The hard
behaviours are therefore: values read before an await and used after it; jobs
that outlive their call; locks released twice, too early or never; requests to
L2 that fail before or after they took effect; messages that are late, merged,
lost with a process or sent before the change they announce; a breaker that
turns changes into no-ops; clocks that differ.

`PROJECT.json` lists these hazards one by one at the line where they bite.

## Modules

| Module | Models | Uses |
| --- | --- | --- |
| `Exclusion` | what the lock of a key promises, abstractly | |
| `Locks` | locks.ts and the mutexes of async-mutex, one key | instance of `Exclusion` |
| `CacheEntryOptions` | decisions taken from options and entries | |
| `FactoryRunner` | tiers, clock, factory jobs and their write | `Locks`, instance of `CacheEntryOptions` |
| `TwoTierHandler` | getOrSet with an L1 | `FactoryRunner` |
| `SingleTierHandler` | getOrSet with L2 only | `FactoryRunner` |
| `Cluster` | the other methods in several processes, breaker, bus, restarts | |
| `Tags` | tag_system.ts in several processes | |
| `Drivers` | one key of the file, Redis, DynamoDB and database drivers | |
| `Keys` | prefixes and full keys, what each clear matches | |
| `BinaryEncoder` | the bytes of a bus message | |
| `Stores` | managers, stores and namespaces in several processes, memory driver, clear | `Keys`, `BinaryEncoder` |
| `LocksProofs`, `ClusterProofs`, `DriversProofs`, `TagsProofs`, `StoresProofs` | theorems | their module |
| `RunnerProofs` | lemmas both handlers need | `FactoryRunner` |
| `HandlerProofs`, `SingleTierProofs` | theorems about the handlers | `RunnerProofs`, `LocksProofs` |
| `MC...` | values of constants, symmetry | their module |

**Exclusion.** Owners, waiting requests and those that left; no mutex, queue or
map. A lock excludes until somebody leaves while others wait, or leaves twice;
then it is `loose` and newcomers may come in. What it promises in every case is
that nobody waits while nobody owns. `Locks` implements it (`ImplementsExclusion`
there gives the refinement mapping): the owners are the requests that hold some
mutex or will be handed one, those that wait are queued, `loose` is `crowded`.

**Locks.** A request is one getOrSet call. `lock` is the map's entry for the
key, `holder[m]` and `queue[m]` the state of mutex m, named after the request
that created it. `Acquire` is `getOrCreateForKey` followed by `acquire`, which
run in one turn. `Release` calls the releaser (idempotent in async-mutex) and
deletes the map's entry, whoever owns it. `GiveUp` and `Discard` are
`withTimeout`: its promise is rejected, the queued request stays, and the
mutex is passed on when it gets there. Entries of different keys share
nothing, so one key is enough. `crowded` records that a release was repeated
or left others waiting.

**FactoryRunner, TwoTierHandler, SingleTierHandler.** `pc[r]` is the await the
handler of r stands at, `localItem[r]` and `remoteItem[r]` its local variables,
`fac[r]` the state of its factory job, which is a process of its own because it
may outlive the call. Every action is one turn of the event loop: the code
from one await to the next. An L2 request that fails may have taken effect.
Values are numbered by the order in which their factories started; value 0 is
one of an earlier time. Options are records of the fields that decide control
flow; `CacheEntryOptions` translates each decision. In the L2-only handler a
prolonged stale entry is sent to L2 by a promise nobody awaits: `fallback[r]` is
the one of r still on its way. The bus is left to `Cluster`: publishing is one more
await of the job, and it never rejects.

**Cluster.** One key in several processes. `call[c].pc` says which request call
c awaits: `l2` its first request to L2, `item` that L2 answered a read,
`refused` that the breaker answered for L2, `pulled` the second half of pull,
`publish` the bus, `orphan` that its process died while L2 had its request.
`inbox` counts messages under way by type, taken in any order; `outbox` is the
retry queue. A restarted process has an empty L1 and is not subscribed at
once, because the constructor of `Bus` does not wait. getOrSet enters this
picture as a get followed by a set. `disturbed` is a history variable: the
processes for which coherence is not promised, because of overlapping calls of
one process, a fill that L2 has overtaken, an opt-out, or a failure between two
steps; the next orderly write or the removal of the entry ends it. The list is
the result of model checking: each reason was needed, each is a hazard of the
code, and everything not listed is shown to be harmless.

**Tags.** One tagged key ("item") and the record of its tag ("tag") in the tiers
of several processes. `call[c].pc` is the await of a call: `read` for the entry
in L2, `lock` and `tag` for the getOrSet of the record, `tagWrite` and
`tagNotify` for what its factory stored, `expire`, `expireWrite` and
`expireNotify` for an entry found invalidated, `write` and `notify` for set and
deleteByTag. `Judge` is the end of `isTagInvalidated` and what get does next.
`lock[p]` is the map entry of the record's key in p and `ahead` the mutex a call
waits for: `Locks.release` forgets the mutex although others wait (locks.ts:28),
so two checks of one process may read the record together, as in `Locks`. This
getOrSet has no lock timeout. Which waiter is next is left open, more than FIFO
allows. Stale records stay in their tier and feed `TagFactory`. `misled` is a
history variable like `disturbed` above: the processes that were not told of an
invalidation, whose own record was lost or aged, or whose check put into L1 a
record that a message, a failed read or another call of the same process had
overtaken; and None for an L2 whose record is out of date, because it was lost,
was not written, or invalidations and checks overlapped. Left to `Cluster`: the
breaker, thrown L2 errors, the retry queue, restarts. getOrSet of a tagged key
is a get followed by a set.

**Drivers.** One key in a store that outlives the process. `medium` is the kind
of driver ("kysely" on SQLite), `handle` says whether it has a prefix or is that
of a namespace. Each await on the file system or the store is a step: the
file driver needs up to four for a set and three for a pull, a database driver
two for a get that finds an expired row, DynamoDB two for a pull, Redis one for
everything. `stored` is what the store holds, `Torn` a file truncated and not yet
written; `call[c].open` says whether c has the file open, alone or with another
writer. `maker` is the promise of the database driver's initializer, which Knex
makes of two requests and the others of one, and which stays rejected once it
was. Drivers of a namespace never run it. `overlapped` and `allowed` are history:
a call that nothing overlaps fixes the value of the key, others leave several
possible. An expired file found by get is looked for under a key prefixed twice
(file.ts:158), so with a prefix it stays where it is until it is pruned.

**Keys, BinaryEncoder, Stores.** Here keys, prefixes and names are sequences of
characters, because the properties are about their composition. `Stores` has
several managers, one per process, and several stores that share an L2 and
differ in their prefix only. A handle is a store and a path of `namespace()`
calls. The memory driver is one LRU that all namespaces of a store share, with
`MaxItems` items. Redis clears page by page of a scan, DynamoDB page by page in
batches, a table in one statement; `left` and `seen` are what a clear has still
to delete. A store is usable as soon as it is opened, but its bus hears messages
only from `Subscribe` on, since the constructor of `Bus` does not await the
transport (bus.ts:54-56). A bus message is encoded, carried as bytes, and
decoded by the receiver, who applies it to the L1 of the namespace it names if
it has opened it. Patterns are read as patterns (`Matched`): `%` and `_` in a
prefix, and letters of the other case (`Lower`), in the LIKE of a table; `*` and
`?` in the MATCH of Redis. `dead` collects the values a set, delete or clear
that ended had found when it began; `excused` the places in L1s where a get put
a copy that L2 or a change under way had overtaken, or where the message that
would have removed it named a namespace the process never opened or was
published before its bus was subscribed.

## Runs

| Run | Instance | Question |
| --- | --- | --- |
| `locks` | 4 requests | is the lock sound and live, with timeouts and repeated releases; does it implement `Exclusion` |
| `two_tier` | 2 calls, 6 kinds of options (one lets L2 errors through), 4 factory outcomes, 1 tick, 1 L2 failure | does every call end and free its lock |
| `two_tier_trio` | 3 calls, 2 kinds of options, 1 eviction | stampede protection, tiers in order |
| `stampede` (violation) | 3 calls, plain options | can factories of a key overlap |
| `single_tier` | 2 calls, 5 kinds of options, 1 tick, 1 eviction, 1 L2 failure | does one factory serve all, is every call answered and the lock given back, with L2 only |
| `single_tier_leak` (violation) | 2 calls, 1 L2 failure | does a waiter always get on |
| `cluster` | 2 processes, 3 calls of 6 kinds, 3 kinds of options, 1 failure | coherence of L1s with L2 |
| `cluster_clear` (violation) | 2 processes, one get, one clear | does clear remove the key everywhere |
| `tags` | 2 processes, 3 calls, 2 instants, 1 mishap | does deleteByTag reach every process, and only old entries |
| `tags_race` (violation) | 1 process, 3 calls, no mishap | is an invalidated entry always stale |
| `drivers` | 4 calls of 6 methods, 1 crash, 5 kinds of driver | does a driver keep what it was given |
| `stores` | 2 processes, 3 calls, 2 stores on one L2, 1 namespace, 1 item per L1, Redis or a table, buses subscribed at any time | do stores and namespaces remove what they must and nothing else |

Bounds, and why they suffice. Four requests are a holder, a waiter, a waiter
that times out and a newcomer, the most roles the lock tells apart. Two calls
show every interleaving of a call with the job of another; a third is needed
only where a lock is handed over, which is what the trio adds. One tick takes
entries over their expiration, one failure is enough because failures act
independently. Three calls in two processes are two writers and a reader; a
third process adds only another receiver of the same messages. For tags, three
calls are an invalidation, the check it races and either a second invalidation
or a set; the run was repeated once with three instants and two mishaps. The
file driver has five roles: writer, second writer, reader, remover, cleaner;
four calls leave out only the case where all five are at work, and the theorems
about `Drivers` do not depend on the number. Orchid makes its table like Kysely
and overwrites rows like Knex, and is left to them. In `stores`, three calls are a
set, a clear or delete of another handle and a reader, the two prefixes are one
a beginning of the other, a key of the root looks like one of the namespace, and
one of the letters takes two bytes, so that each confusion of keys that a wrong
comparison could make can happen; one item per L1 makes every set of a second
key an eviction. DynamoDB clears like Redis when no prefix is empty, and
"orchid" like DynamoDB in one step, so neither has a run. Prefixes with
wildcards, prefixes that differ in case only and the empty prefix are left out
of that instance: see the divergences below. `Matched` is compared in `MCStores`
with a reader of patterns from left to right, over all patterns and keys of up
to four characters.

Fairness. `Locks`: a request that was granted the lock releases it once, and
async-mutex drains timed-out waiters. Handlers: settled promises are continued
by the event loop, the L2 driver answers or fails, factories end. The last is an
assumption about callers that the code needs: a factory that never settles,
without hard timeout, keeps the lock of its key (factory_runner.ts:68). Nothing
is assumed of timers, the clock or evictions. `Cluster`, `Tags`, `Drivers` and
`Stores` have safety properties only and no fairness. Deadlock is not checked,
since a cache whose calls are over rightly stops.

`LockGivenBack`, `EveryCallAnswered` and `EveryLockFreed` allow one case: a
request that was thrown the error of the L2 read under the lock
(two_tier_handler.ts:160, single_tier_handler.ts:155) keeps it, and who waits for
it without a lock timeout waits on.

### What the violations show

* `stampede`: `Locks.release` forgets the mutex while others wait on it. After
  a failed factory the next waiter and a newcomer run theirs together, although
  stampede_protection.md:40 rules that out. `SingleFlight` states what remains
  true.
* `single_tier_leak`: an L2 error in the read under the lock
  (single_tier_handler.ts:155) is thrown outside the `try`, and the lock is
  never released. `AnsweredUnlessLeaked` states what remains true.
* `cluster_clear`: a get that overlaps a clear refills an L1 after the message
  was handled. `CoherentUnlessDisturbed` counts such a process as disturbed.
* `tags_race`: a check that missed the record in L2 stores its 0 in L1 after a
  deleteByTag of the same process stored the record there; for 10 days the
  process serves what was invalidated. `InvalidatedUnlessMisled` states what
  remains true.

`Tags` also shows that a failed read of the record, or a record that aged in
both tiers, lets the stale record of one process replace the newer one in L2;
`Drivers`, that the cleaner unlinks a file a set has just truncated, that a get
of the database driver deletes a row that was replaced after it was read, and
that a pull of DynamoDB deletes a value it did not return. These are outcomes
the history variables account for, not violations of a documented claim.

Met while modelling, modelled as the code has it, and without a run of their own:

* the backoff of a failed refresh is added to the old expiration
  (cache_entry.ts:72), where walkthrough.md:149 lets it count from now;
* without a prefix "all keys will be deleted" (options.md:54), which only Redis
  does: the others match keys that begin with a colon (`Glob` and `StartsWith`);
* the LIKE pattern of the SQL adapters (knex.ts:76, kysely.ts:97) reads `_` and
  `%` in a prefix as any characters, and on SQLite and MySQL letters of either case
  as the same, so clear may remove keys of another prefix (`Like`);
* the MATCH pattern of Redis (redis.ts:131-136) reads `*` and `?` in a prefix as any
  characters, with the same effect (`Glob`);
* a store is used before its bus is subscribed (bus.ts:54-56), and keeps serving
  what a message published meanwhile should have removed (`excused`);
* Kysely on SQLite keeps the expiration of a row overwritten without a ttl
  (`Kept`);
* the driver of a namespace never creates the table it needs (database.ts:34),
  which `FailsOnlyOverlapped` excepts;
* a message for a namespace the receiver has not opened is dropped (bus.ts:81),
  although the L1 it would clean is shared (`excused`).

## Proofs

The theorems hold for any sets of requests, processes, calls and options and
any bounds, from the assumptions named in the modules: None and the other marks
are different from calls, requests, options, values and entries
(`NoneAssumption`, `ItemsAssumption`, `ClusterAssumption`, `DriversAssumption`,
`TagsAssumption`, `EntriesAssumption` of `Cluster`, `Drivers` and `Tags`), options are
records of the kind `CacheEntryOptions` describes (`OptionsAssumption`), factory
outcomes are those the runner tells apart (`OutcomesAssumption`), bounds are
numbers and the requests are finitely many (`BoundsAssumption`). `Stores` adds
that names are strings over the characters the encoder knows and that the id of a
process fills the bytes reserved for it (`NamesAssumption`; an id is a cuid of 24
characters, binary_encoder.ts:26-29), and `BinaryEncoder` what UTF-8 is: characters
have different bytes and the first of them is known from the others
(`EncoderAssumption`).

* **Locks.** `IInv` of `LocksProofs` adds to the checked invariants that a mutex
  exists once its creator asked for it (`MutexesCreated`), that a creator is
  granted its mutex at once and so never gives up (`CreatorsNeverWait`), that
  only those who asked leave (`LeaversAsked`), and that while no release was
  crowded a held mutex is the one the map names (`OnlyMappedMutexHeld`).
  `CreatorsNeverWait` is what makes `MapNamesCreatorsMutex` survive `Discard`,
  which passes a mutex on without telling the map; `OnlyMappedMutexHeld` gives
  `SingleFlight`. `LocksImplementExclusion` maps each step of `Locks` to a step of
  `Exclusion` or to a stutter, from the same invariant.
* **Handlers.** `TwoTierImplementsLocks` and `SingleTierImplementsLocks` are
  lemmas and no more: the handlers' actions are built from those of `Locks`, so
  that they are steps of it holds by construction. What is proved of the lock
  (`SingleFlight`, the refinement of `Exclusion`) carries over by them. Type
  correctness needs to know where a call may stand while its job is in which
  stage (`Places`), and that frames hold what they read (`Shape`).
  `LockGivenBack` follows from the same table, which says who may own the lock
  at which await; `OnlyUndefinedUnhandled` from one of what each job was started
  with (`Rejections`). `L1NotBehindL2` and `L2MovesForward` are about order:
  versions are bounded by the number of factories started (`VersionsBounded`),
  the job of the owner is the latest (`JobsLatest`), and what is about to be
  written is not older than what is there; all hold only while the lock is
  `Calm`, that is neither crowded nor outlived by a job. `OneFactoryServesAll`
  is `OneFlight`: an undisturbed key has had no factory and no valid value, or
  has the one job running under the lock, or has the job's value in L1 with
  nobody past the second look on the way to a factory of his own. With L2 only
  the job is under way until L2 took its value (`UnderWay`), and that it gets
  there needs that no request of the handler or the job failed (`Sound`).
  `Stages` says that a call has no options before it starts and fails only
  through its job, so that no later step undoes a disturbance.
* **Cluster.** `CoherentUnlessDisturbed` speaks of quiet states only. `IInv` of
  `ClusterProofs` says of every state why an undisturbed process may hold a valid
  entry L2 does not hold: a message is under way or due (`Awaited`), or the value
  is its own and L2 has still to take it (`OwnWrite`). This is `Explained`.
  When L2 takes a write, `Explained` needs two more facts: a process with a
  change pending serves at most its own pending value (`OwnWritesKept`), and
  while a clear empties L2 the others have its message coming or hold nothing
  (`ClearAnnounced`). `NoL2Calls` separates stacks without L2. In a quiet state
  nothing is due and nothing pending, so `Explained` is the property. The proof
  has one lemma per action; two general lemmas cover steps that leave both tiers
  alone (`AwaitKept`) and steps that write one L1 (`LocalStep`).
* **Drivers.** Calls stand only where their medium has steps (`Placed`). Files
  are whole at rest because at most one set is between its lock and its write,
  only it has the file open, and a torn file has a writer (`OneWriter`); removing
  a file closes it for its writer. A call alone does not fail because what it
  found is still there (`LoneFinds`), calls that run together are overlapped
  (`Overlapping`), and nobody gets past the initializer before the table is there
  (`TableMade`). `PulledOnce` rests on `PullInv`: what is stored, held or pulled is
  of sets that ended, a pulled value is gone from the store, and a call that
  still holds it ran beside the pull. `GetsWhatIsStored` is about a step; `Accounted`
  says of every state that the key has one of the values it may have, that what
  the running calls make of it is among them, and that a get or pull about to
  delete saw the value gone or takes it. It needs that a set alone writes to the
  file in its place (`FileOpen`), that rows and files have their table or directory
  (`Standing`), and the stages of each file method (`InPlace`).
* **Tags.** A check writes a record back (`ReadTag`), so that it stays true to the
  last invalidation has to be known of every record wherever it is: in either
  tier (`Tier`), read by a check or about to be written (`Proper`).
  None tells of a later time than that of the last deleteByTag (`Dated`), whatever
  failed, was lost or aged, and so an entry a check rejects is not younger.
  The converse, `InvalidatedUnlessMisled`, needs where the last invalidation is:
  in L2 or about to be written there, and in every L1 that holds a valid record
  unless a message to drop it is due (`WithL2`); in each L1 when there is no L2
  (`WithoutL2`); and that neither a deleteByTag nor a check that writes a record
  back puts an older one over it (`Requests`). Nothing is assumed of the lock of the
  tag, which does not keep two checks of one process apart; a check that writes a
  record while another call of the process awaits L2 with its own (`Recording`)
  misleads the process. The theorem therefore says nothing of processes whose own
  calls raced so, as in `tags_race`, nor once an L2 record is out of date.
* **Stores.** `MessageRoundTrip` is about the encoder alone: with names, keys and
  characters of any length, `Decode(Encode(m)) = m`. Its operators recurse over
  positions, so the proof makes its own induction (`Induction`: a set of numbers
  with 0 and each next one, from the fact that an injection of a finite set into
  itself is onto) and its own solutions of recursive definitions (`Recursion`);
  `TextRoundTrip` and `TextsRoundTrip` follow the bytes of a string from the front,
  `FlattenSeq` being known by what each step adds (`Joins`). `TypeInv` says that the
  messages under way are encodings and that calls stand where their method has a
  step; with the round trip a bus applies what was published. `DeadLeftL2` is
  `L2Inv`: who wrote a value is known (`Owns`), and of what a running call found
  when it began, whatever is still in L2 is `LeftTo` it: for a clear by pages, the
  scan has still to return it or it is in the page at hand. That a clear
  matches all keys under its prefix, in Redis, DynamoDB and SQL, is
  `CoveredMatches`.
  `DeadAnnounced` is `L1Inv`, on top of it: every value in an L1 was set for the
  key in L2 that goes with it (`Lives`), in a process that has opened the store,
  and unless the copy is excused, its process has been told of its end (`Told`),
  or each running call that is to end it is of another process and will tell
  (`Due`). Telling excuses the copies of processes not yet subscribed
  (`Missed`). A get that is not late meets this because what it read is still in
  L2 (`NotLate`, from `L2Inv`). `OnlyOwnRemoved` needs that what a call has
  still to remove is its own (`LeftInv`).

The last two say which names they are about, as hypotheses stated in `Stores`.
`KeysAligned`: an L2 key a call covers is of the call's store, and the call's
message is about the L1 key that goes with it. `StoresApartAligned` proves that
it holds when each store has one prefix for both layers and none of its keys is
under a prefix of another store. `PrefixesPlain`: no prefix is empty, none has a
wildcard of SQL or Redis in it, and no key is under a prefix but for the case of
letters, for the code does otherwise remove foreign keys (see the list above).
Names have no brackets or backslashes at all (`NamesAssumption`), which a Redis
pattern and some databases give a meaning the model does not have. `MCStores`
assumes all three of the names it checks, so TLC evaluates them. Namespaces may
still share keys: `b:n:E` may be the key `E` of the namespace or `n:E` of the
root, as in `MCStores`.

Only model-checked: liveness (`WaitersServed`, `EveryCallAnswered`,
`EveryLockFreed`, `AnsweredUnlessLeaked`), which the prover does not reach.

## Not modelled, and what is left

Not modelled for good: formatting, logging, events, tracing, telemetry packages,
docs, simulator, playground and benchmarks, which keep no state the cache
depends on. `has` and `missing` read as get does; `disconnect` ends everything.
Physical TTLs are drops at any time: L1 and L2 entries vanish in the handler
modules; `Cluster` leaves evictions out, where an evicted entry is a miss and
serves nobody. Items DynamoDB leaves unprocessed, which the code does not look
at, SQL statements that fail, and a retry queue that is bounded or disabled are
left out too, as are a clear on Redis Cluster, where the scan asks one node and
misses the keys of the others, and a `keyPrefix` of the Redis connection, which
changes what the pattern has to match (redis.ts:124-147). The update and the
insert by which Orchid overwrites a row are taken for one statement
(orchid.ts:90-104). A memory driver may have a prefix of its own, which goes
over that of the stack in L1 only (bento_cache.ts:69-73); `L1Prefix` leaves it
out.

Left, in order:

1. Clocks that disagree, and entries with several tags.
2. Freshness in the handler modules: what an entry's age may be when it is
   served, TTLs of zero, and the backoff that counts from the old expiration.
3. In `Stores`, names that clash: what a clear removes when two stores share a
   prefix, or a driver has one of its own.
