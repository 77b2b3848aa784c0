# Formal models of the openDAQ OPC UA modules

TLA+ modules that model this repository's OPC UA server, its two clients and the
libraries below them, TLC configurations that check the models on small instances,
and TLAPS proofs of their safety properties for every instance. `PROJECT.json`
records, for each definition, the source lines it stands for; for each property, a
mutation of the model that breaks it; and the list of hazards the properties are
aimed at.

```
tlc -workers 2 -config <run>.cfg <module>     model-check one run
tlapm <module>Proofs.tla                      check the proofs of a module
```

Contents: 1 The system, 2 The models, 3 Runs, 4 Proofs, 5 What was found,
6 What is not modelled, 7 Plan.

## 1. The system

The repository connects openDAQ devices to OPC UA in three ways: a *server* that
publishes a device (its components, properties, signals, function blocks) as an
OPC UA node tree; a *TMS client* that rebuilds such a device from the tree of a
remote server; and a *generic client* that polls single nodes of any OPC UA
server and publishes them as signals. The openDAQ SDK and the OPC UA stack
(open62541) are dependencies outside the repository.

### Generic client (`shared/libraries/opcuageneric`, `modules/opcua_generic_client_module`)

| Component | State | Operations | Talks to |
|---|---|---|---|
| `OpcuaGenericClientDevice` | connection status, reconnect thread and its flag, next block index, folder of blocks | reconnect loop, add/remove block, removal | `OpcUaClient`, scheduler, blocks |
| `SamplingScheduler` | list of entries (item, weak owner, deadline), `running`, `revalidatePending`, loop thread | `start`, `stop`, `registerItem`, `unregisterItem`, `onReconnected`, loop, destructor | items through `ISampledItem`, `isConnected` callback |
| `OpcUaMonitoredItemFbImpl` | configuration, node type, descriptors, last published timestamp, errors, back-pointer to the scheduler | construct, write property, sample, revalidate, `removed`, destroy | `OpcUaClient` reads, scheduler, its signals |
| `StatusContainer`, `StatusAdaptor` | one message and one "updated" flag per kind of error; the component status | set, add, reset, query | the block |
| Module | none of its own | parse connection string, derive the local ID, create the device | device |

Hard here: the scheduler calls into blocks without its lock while other threads
remove and destroy them; a block can be destroyed by the scheduler's own thread,
inside the call, because that thread may hold the last reference; a reconnect
is announced while blocks are being added; a property write meets a sample; the
device is removed while a call is in progress; attempts to reconnect fail at any
step. Correct means: a call finds its block alive, freed memory is never in the
list, every registered block is revalidated after a reconnect, no block
starves, removal terminates, packets fit their descriptor, and the status a
block shows is that of its errors.

### Client library (`shared/libraries/opcua/opcuaclient`)

| Component | State | Operations | Module |
|---|---|---|---|
| `OpcUaClient` | the UA client of the stack under one recursive lock, the iterate thread | connect, disconnect (with or without deleting the UA client), iterate | `ClientTasks` |
| Timer tasks, `OpcUaTimerTaskHelper` | the stack's timers, a map of callbacks by identifier, a helper's identifier and its `terminated` flag | schedule, fire, remove, start, stop, terminate | `ClientTasks` |
| `OpcUaTaskProcessor` | queue, thread, promises | push, run, stop, destroy | `ClientTasks` |
| `CachedReferenceBrowser` | entries of references by node | browse, browse in batches and levels, invalidate | `ReferenceBrowser` |
| `AttributeReader` | a set of attributes and a map of results | add, read in batches, clear | `AttributeReader` |

Hard here: a helper outlives the UA client that numbered its timer, and the next
one numbers from 1 again; a callback stops the task it runs in; two threads
iterate; a job is pushed while the processor stops; a browse runs over cyclic
references that change; a batch fails behind others that were stored. Correct
means: a timer runs the task it was scheduled with, a stopped helper is never
called again, every job is answered, an entry of the cache is one answer of the
server, a value is read into its own attribute.

### Server library (`shared/libraries/opcua/opcuaserver`)

`OpcUaServer` runs the stack in one thread, authenticates users, keeps a context
for each session and resolves the address of each client in a task of its own.
`OpcUaServerLock` grants one session, or those that share a token, the control of
the configuration for a time. `ServerEventManager` holds callbacks of the server
by node. Hard: sessions, tasks and `stop()` overlap; a lock is held under a token
that no session has any more; one callback of the server is asked for the children
of all nodes. Correct means: a stopped server leaves neither sessions nor tasks
behind; nobody takes a lock or a password from its holder; a callback meets a
live object.

### TMS server (`shared/libraries/opcuatms/opcuatms_server`, `modules/opcua_server_module`)

`TmsServer` builds the node tree of a device, adds the server capability and
keeps the list of connected clients in the device information. The objects
behind the nodes (`TmsServerObject` and its subclasses) mirror names,
descriptions, properties, function blocks, values and signal connections in both
directions: core events of the device update nodes, writes and method calls of
clients update the device. Hard: the two directions meet in different threads
with an unsynchronised flag to tell them apart; nodes are replaced and objects
destroyed while requests are served; the registry keeps the first object of a
local ID; list positions are taken from the size of a list that shrinks. Correct
means: the device and the tree agree when both are quiet, but for named
exceptions, and the list of clients is that of the open sessions.

### TMS client (`shared/libraries/opcuatms/opcuatms_client`, `modules/opcua_client_module`)

`TmsClient` connects twice (once to read the namespaces, once with the data
types registered). `TmsClientContext` maps nodes to raw pointers of the objects
that mirror them. The client objects read attributes in batches, and forward
property reads and writes, function-block calls and connections to the server.
Hard: the raw pointers, the order of children, parts that fail to be built,
errors that are swallowed, types of several servers in one manager. Correct
means: order and values of the mirror are those of the server, an object that is
found is alive, a reported success is a success.

### Modules and conversions

The two client modules make devices of server addresses and complete the
capabilities of servers that others discovered. The conversions
(`opcuatms/opcuatms`, `opcua/opcuashared`) translate between openDAQ values and OPC
UA structures. Correct means: a device has its own ID and the information of one
node; a value that is carried over arrives or is refused.

## 2. The models

### SamplingScheduler and ItemCalls

`SamplingScheduler` models `sampling_scheduler.cpp` in full, and of a monitored
item the part the scheduler meets: the back-pointer, `removed()` and the
destructor. One action per critical section of the scheduler's mutex; the loop
thread is a program counter `pc` whose labels are the waits, the lock
acquisitions after a call and the calls themselves. The loop keeps the mutex
over several actions only while it walks the snapshot of a revalidation round,
which `MutexFree` expresses. Memory is `life` (`free`, `live`, `dying`) and one
outside reference `ext`; `Owned` items are registered with an owner, whose weak
pointer fails to lock once the item is dying; items without owner must be
removed before they die, as the interface requires. Time is relative: `due[i]`
is the deadline minus now, and `Tick` passes one unit. `MaxLate` stops the clock
while an item is that late, which bounds lateness, not the number of calls; a
schedule that reached a lateness above the bound differs only in the order of
entries that are overdue anyway, and with `MaxLate` 2 and intervals 0 and 2 every
order of two deadlines occurs. Spurious wakeups are an action.

The host that starts, stops and destroys the scheduler is one thread, which may
do so at any time and restart it; items come and go independently.

`ItemCalls` is the abstract service: calls come one at a time, into living
registered items only, and an announced reconnect owes every item registered at
that time one call of `onConnectionRestored()`. `SamplingScheduler` implements
it under the mapping `Promise`; `GenericClientDevice` uses `ItemCalls` in place
of the scheduler.

The model lets `registerItem` be called only by an item that has not been
removed. `GenericClientDevice` shows that the device does not keep this rule
(run `device_detached`).

### GenericClientDevice

The reconnect thread (`mon`), the threads that add blocks (`adding`, one per
block, so two blocks are added at the same time), removal of blocks, and the
removal of the device (`removing`), composed with `ItemCalls`. A connection
attempt meets a server that is up, down or refuses the credentials (`server`),
and can fail after the client was created but before its iterate thread runs.
Blocks are given one of `UserNames` or none; generated names are numbers, so a
user name can be the very name that is generated later. `nodeErr` records which
blocks failed to validate their node: validation succeeds when there is a
connection.

### MonitoredItemFb

One block: its sampling thread and a thread that writes properties.
`processingMutex` makes a sample, a revalidation and the parts of a property
change atomic, except `updateStatuses()` at the end of a sample, which runs
without it: that call is three steps (`CheckNews`, `Decide`, `Show`) that
interleave with the writer's. `StatusContainer` is translated operation by
operation: messages, and the set of kinds whose flag is raised. Values are
abstracted to their type (supported or not) and timestamp. A sample may fail at each
of its points, and each leaves something else behind: at the read; when the type is
already told but the descriptor of the signal is not (`TellingTypeFails`); when the
type is accepted and no packet can be built of the value, or building it throws
(`NothingSent`); and between the two packets, when the domain packet is out and its
timestamp is not remembered yet (`HalfSent`). Three history variables: `lastSent`, the
latest timestamp on the present domain signal, `carried`, that of the last sample that
was sent whole on it, and `overlapped`, set when a write takes the mutex while a sample
has not ended its `updateStatuses()`. Telling the signal its descriptor is an SDK call:
the signal has it before its connections are told, so a failure there leaves signal and
block in agreement; the calls during a property write and a revalidation are taken to
succeed.

### TmsServer

The servers that are created for one device, one after the other or side by
side. `phase` follows `start()` and `stop()` of each in the thread of the
application, `thread` the thread of its `OpcUaServer`, `infos` the tasks of
`std::async`. A task is two steps, because `running` is read before the mutex is
taken. `connectedClientsMutex` is held by each handler and by the first half of
`stop()` for one step. `StartChecked` covers a `prepare()` that throws, `Run` a
`start()` of the stack that throws (the port is taken); both leave a server
whose destructor calls `stop()`, and so does a server whose `start()` was refused
because of the capability (`BeginStop` from `off`). Assumed: the application
starts and stops servers one at a time (`Idle`), session identifiers are never
used twice, the device is not removed.

### ClientTasks

The timers of the stack (`timers`, numbered by `lastId`), the map `callbacks` and
each helper's `callbackIdent` (`ident`) are three places that must agree.
Everything an operation does holds the client's lock and is one step, but a timer
callback is two (`FireTimer`, `EndCallback`), between which the thread that holds
the lock may start and stop helpers, its own included. `Disconnect(TRUE)` deletes
the UA client with its timers and leaves map and helpers, as the code does; the
next UA client numbers from 1. The processor is a program counter over the loop of
`execute()`; `executeTaskAwait()` from a job runs the nested job at once. One
application thread is assumed, which clears the client only while the processor
does not run.

### ReferenceBrowser and AttributeReader

`ReferenceBrowser` follows `browseMultiple()` level by level and batch by batch
(one response is one step); between batches the server may change its references,
and a response may refuse nodes or fail. Histories: what the server last said of a
node (`told`), and the nodes that a failed batch has left marked as cached
(`spoiled`). `invalidateRecursive` goes one level deep, as the code does.
`AttributeReader` is the loop of `read()`, with values represented by attribute and
age. Both are pure control over data that changes between their steps.

What one response does is stated for the response as a whole: `Kept` are the places
of a batch whose answers are kept (those up to the first bad status that are not
refused), `Processed` is the cache and the list for the next level they give,
`AddBatch` what a batch of reads stores. This is the result of the loops over the
results of the response, which look at one result each and never at what an earlier
one has stored: the whole batch is marked as cached before the request.

### PropertyCalls and PropertyMirror

`PropertyCalls` is one property object of the server and the calls of its clients
(get, set, protected set, begin and end of an update, function calls), as steps with
the error paths of both sides; in a set the client first looks at what it knows and
the server decides later, so a change may come between. Reference properties resolve
through the value of another property on each side for itself. How a client's view is
made of the object is the parameter `ViewOf`. Of it the calls need that a view shows
only what is there, references as references, and the read-only flag as the object
has it (`Fits`), which TLC evaluates for every object, every value of its properties
and every client.

`PropertyMirror` is that view as the code makes it (`ClientView`, the value of `ViewOf`
in the run): the nodes of an object (the children of every property: introspection
fields, evaluation variables, methods, nested objects), the attributes a client reads
ahead of them, and the properties it builds of those. `MCPropertyMirror`
gives four objects: reference properties that switch targets, fixed and evaluated
fields, functions and procedures with and without arguments that have OPC UA types,
nested objects, structures with and without UA type, selections.

### The TMS library, part by part

`TmsLibrary` puts modules that share no state side by side: a behaviour follows one
*part* and the others stand still, so a run explores the sum of their states.
`ClientLibrary` does so for `ClientTasks`, `ReferenceBrowser` and `AttributeReader`,
`PropertyLibrary` for the property objects and the conversion of values.

| Part | Module | What it follows |
|---|---|---|
| `tree` | `ComponentTree` | A device with its children, the nodes and numbers the server gives them, the client's browse, attributes read ahead, children that cannot be built, servers added late. |
| `blocks` | `BlockMirror` | Function blocks added and removed by two clients and by the application: the device's list, the server's objects, the nodes, the registry by local ID, and what each client shows. |
| `names` | `NameMirror` | Name and description changed on the server's thread and on the application's, statement by statement around the unsynchronised `selfChange`. |
| `info`, `mode` | `DeviceInfoMirror` | Fields of the device info (written once, or windows on the device; editable or not; with servers of older versions), operation modes, time domain. |
| `port` | `SignalMirror` | The connection of an input port, the references that stand for it, and the registry of signal objects while their destructors run. |
| `value` | `SignalValues` | The value nodes of a signal as its descriptor changes, and a client that looks at them once and reads through them for good. |
| `enums` | `EnumTypes` | Enumeration types of two servers in one type manager, over connections that fail, end and return with other firmware. |
| `sessions` | `ServerSessions` | Who a session acts for, and the configuration lock with tokens, times and password. |
| `nodes` | `ServerNodes` | Registering objects step by step, their nodes and callbacks, requests that are served meanwhile, a value node that is replaced, blocks that come and go, `stop()`. |
| `convert` (of `PropertyLibrary`) | `Converters`, `SampleValues` | Every converter in both directions, with its target types, lists, wrapped and generic structures: a value is written, carried, and read. |
| `create`, `complete` | `ClientModules` | Making devices under the lock of a module: connecting, finding the node, its type and info, choosing an ID, adding it to the parent; completing a capability with other addresses. |

`ComponentTree` gives the result of the client's loops and not their turns: the map of
children by number, with the first to claim one, and the vector of the others after it
are one order of the nodes (`HasPlace`, `Precedes`), and a list is its nodes by rank.

In `DeviceInfoMirror` a time domain is what the code makes of it: the server gives none
when the domain has no unit, since its read callback swallows the failure; the client
keeps the former one then, and otherwise shows a unit only of an id above 0 (the
default is -1) and 1 for a denominator of 0. In `PropertyCalls` arguments are a value,
nothing, or a list of any length: a list of one value and an empty one reach the method
as that value and as nothing.

`OpcUaServerLock` has no mutex. In `ServerSessions` each of its calls is one step, which
is what its callers in the server's thread see; two callers in different threads would
race in it, and the model does not show that.

How state corresponds to code: each VARIABLE has beside it the member it stands
for; variables that record only what a property needs are called histories, or say
which exception they mark (`apart`, `dangling`, `differ`, `disputed`, `aside`). They
name the windows in which the two ends do disagree, and section 5 tells what each of
them means.

In `Converters` a conversion is the set of its results, empty when it throws. A value
is read by the base converter (`ToDaq`), which takes off one extension object and one
variant, or by the converter of one interface (`ReadOwn`, `ReadOwnList`), which decodes
an extension object at most. It is read on the side where it was written, as values of
eval nodes and members of structures are, or after the stack has carried it (`Wire`),
which turns arrays of structures into extension objects, enumerations into numbers, and
refuses a variant alone in a variant (`Crosses`). Integers keep their sign and have 2, 3, 4
and 5 bits for 8, 16, 32 and 64, so each narrowing of the code is one of the model; a
float is a count of steps of which a 32-bit float keeps the even ones. Recursive
operators are used here and in `PropertyMirror` (nested objects), which is why
nothing is proved about these two.

Some data is written down by what it is and not by how it is computed. A chain of
supertypes in `ClientModules` is a function from depths to types that follows the
server's table (`Ascents`), cut at `MaxTypeDepth` as the code's loop is; of servers it
is assumed that a chain has ended or repeated itself by then, so hierarchies deeper
than 32 types are out of the model. The labels in the type manager are those of
something that some server has defined (`defined`, a history). Signals that have the
name of a child node of the port (`ClashingSignals`) leave their reference behind,
since `deleteReferencesOfType()` looks the target up by name.

## 3. Runs

Every property of a run is an invariant or a temporal formula of its module; the
properties of the library runs are conjunctions of named parts, each defined and
explained beside the state it is about.

Passing runs:

| Run | Instance | What it shows |
|---|---|---|
| `scheduler_safety` | 2 items (1 owned), intervals 0 and 2, lateness 2 | `CallsOnlyLiveItems`: memory; `ReconnectNotLost`: an announcement is covered by a round until it is served; `LiveItemsForgetScheduler`: the sweep of the destructor; `NoOvertaking`: earliest deadline first; `PromiseKept`: it implements `ItemCalls`; `IInv` |
| `scheduler_live` | 2 items, interval 1, lateness 1 | `ReconnectServed`, `NoStarvation`, `TeardownReturns` (`stop()` and destructors return) |
| `device_safety` | 2 blocks, names: none or `MonitoredItemFb0` | `MonitorSurvives`: no exception ends the reconnect thread; `NoCallDuringTeardown`; `UnrecoverableIsFinal`; `IInv`, in which `FolderNamesUnique` |
| `device_live` | 1 block | `OutagesEnd`: reconnects, and a loss is reported; `RegisteredBlocksResume`; `RemovalTerminates` |
| `item_safety` | 2 types, 2 messages, 2 timestamps, symmetric | `StatusCurrentUnlessOverlapped`; `PacketsMatchDescriptor`: a packet is built for the type that descriptor and signal announce; `NoDuplicateTimestamps`: no two whole samples in a row have one timestamp, and the domain signal repeats one only after a sample of which the value was not sent; `IInv` |
| `server_safety` | 2 servers, 2 sessions, 2 activations each | `StoppedIsClean`, `EntriesAgree`: the list of clients and the sessions, both ways; `ListedWhileOpen`; `StopReturns`; `IInv` |
| `client_library` | 2 helpers, 2 timers, 1 job; 3 nodes in 2 cyclic trees, batches of 2, 1 refused; 3 attributes, batches of 2 | `TimerTasksHold`: map, timers and helpers agree; `DataIsTheServers`: an entry is one answer, a browse reaches all, a value is of its attribute; `NothingStaleIsUsed`: a stopped helper is silent, a read is fresh; `WaitersAreAnswered`: jobs, `stop()` and browses end |
| `property_mirror` | 4 objects, one client that may write and one that may not, 1 nested update | `ObjectIsMirrored`: types, order, fields, arguments of calls; `AnswersAreTrue`: read-only stays, reads and writes report what has happened; `SamplesArrive`: what is written without target, or wrapped, is read as it was or refused, by the reader that is used, carried over or not; an integer that fits its target arrives, selections and labels arrive |
| `tms_library` | see below | `TreeIsMirrored`, `BlocksAreMirrored`, `TextsAndInfoAreMirrored`, `SignalsAreMirrored`, `ServerKeepsItsOwn`, `DevicesAreIdentified`, `ServerIsGuarded`, `ClientsAreToldTheTruth` |

Runs that TLC must find violated: `scheduler_teardown`
(`NoDestructorReachesFreedScheduler`), `device_detached` (`DetachedBlocksRest`),
`server_single` (`OneServerPerDevice`); see section 5.

What the properties of `tms_library` are made of:

* `TreeIsMirrored`: the client's lists have the order of the application's
  (`OrderIsKept`); a component that cannot be built takes with it exactly what it is
  a mandatory part of (`FailureStaysInItsPart`); all attributes used were read ahead.
* `BlocksAreMirrored`: device and nodes differ by what was done behind the server's
  back or refused, and by nothing else; clients show the order of the device until a
  block is removed; the first block under an ID hears its events.
* `TextsAndInfoAreMirrored`: texts agree at rest except where changes overlapped or
  were refused; what a client may edit is what the server lets it write; what it is
  told is what the device has, and of a time domain what the client can show of it; it
  keeps a former domain only while the server gives none.
* `SignalsAreMirrored`: references are the connection; the registry never holds a
  destroyed object; value nodes have the type of the samples; a client that saw a
  signal whole goes on reading it through all replacements.
* `ServerKeepsItsOwn`: sessions act for users they have shown; a lock has a session
  or a token; optional nodes belong to their own object; callbacks reach live
  objects, but in two named cases; a bound node has its callback.
* `DevicesAreIdentified`: the info of a device is one node's; a refused sibling was
  made in the window between choosing an ID and being added; a configured ID is
  kept; every address has one entry.
* `ServerIsGuarded`: nobody takes a lock or a password; blocks change only with
  Write and Execute. `ClientsAreToldTheTruth`: attributes read before a block was
  replaced are used only within one connection; an accepted mode is set; a completed
  capability stays as it is.

### Bounds

Two items are needed for overtaking, for an item dropped from a snapshot while
another is called, and for owned and unowned ones to meet; a third adds nothing that
two do not relate. Item objects are reused after they are freed, so a run contains
any number of items over time. Two blocks suffice for two callers who ask for one
name. A liveness property of blocks is about one block at a time; what the blocks
owe each other is the scheduler's fairness, checked in `scheduler_live`. Two
messages tell a stale status from a current one. Two servers are one that runs and
one that fails; two activations are a first and a repeated one.

`ClientLibrary`: two timers (`MaxId`) and two helpers are the least with which a
helper meets the number of another; three nodes on two trees with cycles make a
node reachable on two levels and shared by two parents, and a batch of two leaves a
level unfinished.

`TmsLibrary`: four trees, each with the kinds of children that share a list, and up
to two faults (`MaxFaults`), so that one can lie inside the other; block IDs `b1`,
`b2` and three blocks ever (`MaxBlocks`), so that an ID is used again while the other
stays; two text attributes with three texts (old, new, other); values 0..2 of which a
narrow field casts modulo `Span` 2; signals `s1`, `s2` and one that is not shown,
each made twice (`MaxObjects`); time domains with and without unit, id and denominator
(`Domains`); four sample types (a number with and one without
another number, a text, one without OPC UA type); three firmwares (types equal,
added, of the same name with other labels) on two hosts; two sessions, one token,
one named user beside the anonymous one, two passwords, time 2; six server objects; two
creations at a time over three servers (one device beside a node whose types run in a
ring; two devices; one device without the DI namespace), type chains (`MaxTypeDepth`, 32 in the code), which also ends the ring.

CHECK_DEADLOCK is off for runs whose parts may come to a regular end (all blocks made,
a value carried over).

### Fairness

* Scheduler: the loop thread goes on (weak fairness of its steps, an item's call
  returns), time passes, a `stop()` or destructor that was begun goes on. An
  `unregisterItem` and `onReconnected` wait for a mutex that is free again and
  again rather than for good: strong fairness, which a mutex that does not
  starve a waiter for ever justifies. Nothing is assumed of the connection: the
  properties have the premise that it stays up.
* Device: threads go on; calls return; a connection that is gone is noticed; a
  block that is owed a revalidation gets it, if it stays registered while no
  call is in progress infinitely often (strong fairness): this is
  `ReconnectServed` of the scheduler.
* Server: a `stop()` that has begun goes on; a thread that was told to end closes
  its sessions and ends; tasks finish. Nothing makes a client connect or
  disconnect.
* Client library: the processor takes and runs its jobs, a callback returns, a batch
  of a browse is answered (weak fairness). `iterate()` gets the client's lock some
  time (strong fairness): callbacks hold it only for a while, and nobody keeps it.
  Nothing makes the application stop a helper or push a job.
* `item_safety`, `property_mirror` and `tms_library` check safety only and assume no
  fairness: what threads, clients and application do there, they do when they like.

## 4. Proofs

TLAPS proves the invariants and action properties of the runs for any sets of items,
blocks, types, messages, timestamps, servers, sessions, helpers, nodes, attributes,
texts, values, signals, ids and objects, and for any bounds. Of the 40 properties of
the passing runs 30 are theorems; the others are named at the end of this section.

The assumptions are those the modules name (`...Assumption`); TLC evaluates them in the
run that uses the module. They say that placeholders (`None`, `Missing`, `Unset`, ...)
are not elements of the sets they stand beside, that bounds are natural numbers (and
large enough for the objects that are there from the start), that a type of each kind
is what the name says, and of data that comes from outside what the model relies on:
the server has finitely many nodes (`ReferenceBrowserAssumption`); a chain of
supertypes ends or repeats within the limit, addresses are listed once in a capability
that is found (`ClientModulesAssumption`); the references of a property object end, and
a client's view shows what is there (`PropertyCallsAssumption`); a component has one
place in a tree's lists, below a component with a smaller number
(`ComponentTreeAssumption`).

Each proof is the usual one: an invariant (`IInv`, or named for its module) that `Init`
implies and every action preserves, one lemma per action or group of actions, and the
properties as consequences. TLC has checked each of these invariants on the instance of
its run before it was proved.

* `SamplingSchedulerProofs`. `NoDanglingEntry` is not inductive: an entry is safe
  because its item still has its back-pointer or holds a pointer it took for
  `unregisterItem` (`ItemsConsistent`), so its destructor has not got past
  detaching; an item without owner is registered only while alive.
  `NoOvertaking` needs `ServedConsistent`: an item that was sampled while another
  was overdue has a later deadline than that one until it is sampled itself,
  because the new deadline is computed from now or the old deadline plus the
  interval. Also proved: that the scheduler implements `ItemCalls`
  (`SchedulerImplementsItemCalls`), so `GenericClientDevice` may rely on it.
* `GenericClientDeviceProofs`. `Rest` says what each thread has established on its
  way: between disconnect and connect no iterate thread runs; a block not
  constructed yet is not alive; the sampler has stopped from the step after it
  is joined.
* `MonitoredItemFbProofs`. `StatusConsistent` says which thread has taken the
  news upon itself at each point of `updateStatuses()`; as long as no write has
  overlapped with the end of a sample at most one thread is inside. `StampConsistent`
  says that the block remembers the timestamp of the last whole sample (`carried`), not
  of the last domain packet (`lastSent`): the two differ after a sample that was sent by
  half, and only then may a timestamp be repeated (`ItemTimestampsDiffer`).
* `TmsServerProofs`. `SessionConsistent` ties the registered clients to sessions
  with a context, and those to a running server thread; `InfoConsistent` says that
  the number of a task or entry was given out by an activation that happened,
  which makes the entry of a second activation distinct from the first.
  `ServerEntriesAgree` states both directions at once.

  The calls on property objects (`PropertyCalls`) are proved here as well, for any
  objects and any views that fit. `CallsInv` says what a call has established when
  other clients and the application have changed values since: `CallFits`, that it is
  about the property asked for or about one that this refers to, and that a write
  that has passed the check is of a property that is not always read-only, or was asked for
  as protected. It gives `AnswersTrue`, the three action properties of
  `AnswersAreTrue`, and `CallsArrive`: a method is handed the values that were given, in
  their number and order; that it is handed a list where one was given holds for lists of
  two or more.
* `ClientLibraryProofs`, for the specification of the run. `TimerTasksHold` is not
  inductive: that an identifier is not shared rests on `IdentifiersDiffer` (above
  `lastId` are only helpers a deleted UA client has left over) and on
  `EntryOfItsHelper` (an entry is found under the identifier its helper remembers),
  which holds without exception and gives `LibraryStoppedIsSilent`. A callback in
  progress needs `FiringIsFound`: its entry is its own until it is erased, so ending
  it removes no other task. Jobs need `JobsOnce`.

  The browser needs `FoundIsAhead`: what a node that was answered for refers to has an
  entry, or is in the batches of this level that are still to come, or in the next
  level. With nothing ahead it is the completeness that `DataIsTheServers` states. A
  batch adds to the next level by joining lists of any number; `FlattenedHasAll` shows
  that the joined list has the elements of each. The reader needs `AskedOnce` and
  `ReadSoFar`: the attributes before `pos` have been read since the call, those behind
  it wait.
* `MirrorProofs`, about what a mirrored device keeps in two places. *Names:* `Progress`
  says how far a change that met no other has come; `AloneIsAlone` that two changes at a
  time know of each other, so that only an undisturbed one takes its text off the list
  of those that may differ. *Device info:* what a node or a copy shows is the cast of a
  value the device has had (`NodesShowTheDevice`, `CopiesAreOld`), with the present
  one among those (`HistoryIsComplete`). *Signals:* an object that dies is still
  held, and numbers of objects are not given twice. *Values:* `NodesAreOfOneType`
  remembers that the two nodes were made for one type, though the signal may have lost
  its descriptor since; without it a descriptor that comes back could find an analog
  node of another type. *Enumeration types:* `TypesWereDefined`, and
  `PassedNamesAreKnown` of a connection half made. *Blocks:* `ListsOfBlocks` (an ID and
  a serial number are one block's, the lists grow in the order of making),
  `NodesOfBlocks` (the nodes are those of the server's list, numbered by place until one
  goes) and `ClientsHaveRead`. Only with all three is the statement inductive that
  device and nodes differ where something was done behind the server's back.
* `EndpointProofs`, about what lies beneath the mirror and above it. *Sessions:*
  `LockHasASession` is inductive with the types; it also gives that the null id, under
  which the server acts, never holds an active lock, which `PasswordIsTheHolders` needs.
  *Nodes:* `RegistrationOf` says how far a thread is with the object it registers, and
  that its node was made for that object; `ContextsAreAlive`, that no node has an object
  that is gone while the server runs; `RequestIsAllowed`, what a request has been
  checked for. *Modules:* `LocksAreHeld`, `StagesOfModules` and `WaitingOverlap` (two
  devices that wait to be added know of each other). The search for a device type is
  about chains of any length: the lemmas about `Ascents` show that where a chain
  repeats, more steps find nothing new. *Capabilities:* `TargetInv`, that completing
  one again finds each address there.
* `TmsLibraryProofs` puts them together for the specification of the run `tms_library`:
  a step of the library is a step of a part or leaves it alone (`StepOfParts`), and each
  of its invariants is a theorem: `TextsAndInfo`, `SignalsMirrored`, `BlocksMirrored`,
  `ServerOwn`, `Guarded`, `DevicesIdentified`, `ToldTheTruth`, `TreeMirrored`.
  *The tree:* `TreeInv` has every node hang where the kinds of its component and owner
  say, with the number of the children before it in its list, or as a server that was
  added late (`NodesHang`); and when a client has connected, a set of components around
  the root, closed under the nodes (`MirrorRight`): all that belongs to it was read
  (`ReadWhole`), what can be built of it is told by what hangs below (`BuiltWhole`), and
  the lists have what is sought, once and in order (`ListsRight`). The proof has four
  steps. The collector, the builder and the property's `Lost` are recursive functions of
  the tree, which exist because numbers of components grow downwards
  (`GatheringExists`, `FailuresExist`); that the collector follows every list, for every
  kind that hangs there, is `HungIsCollected`. A list is the nodes it is made of by
  their rank in one order, which is total, so that no node is lost or listed twice
  (`ArrangedHasAll`); where numbers were read and no server was added, that order is the
  one of the application (`NumbersOfList`, `ArrangedInOrder`). The lists of each kind of
  component are of the nodes that are looked for (`ClientListsConnect`, from
  `KindsOfLists`). At last what the client cannot build is what is lost, from the last
  component up to the root (`BuiltIsNotLost`). `CollectorMissesNothing` states the part
  about reading ahead for itself.

Induction is used in its form over sets (a set with 0 and the successor of each of its
numbers has all of them, by the least counterexample), since the theorem with an operator
as parameter is beyond the installed provers. It shows that the recursive function inside
`FlattenSeq` exists and what it returns.

Model-checked only, and why:

* every liveness property (`NoStarvation`, `ReconnectServed`, `TeardownReturns`,
  `OutagesEnd`, `RegisteredBlocksResume`, `RemovalTerminates`, `StopReturns`,
  `WaitersAreAnswered`): fairness and ENABLED are outside the prover's reach;
* `ObjectIsMirrored`, that a client's view has the properties in order with their fields,
  and `SamplesArrive`: the nodes of nested objects, what is collected of them and the
  converters of lists and structures are recursive operators, with which the SMT
  prover does not work, over data of any depth. That views have no property the object
  lacks and that calls arrive is proved (`CallsArrive`);
* the properties listed next as violated.

## 5. What was found

Each of these runs checks one statement of the repository's comments or checks, and
TLC finds a behaviour of the code that contradicts it.

* `scheduler_teardown`: the sweep in `~SamplingScheduler` clears the back-pointer
  of living items, but an item whose destructor has taken the pointer already
  calls `unregisterItem` on a scheduler that is gone.
* `device_detached`: a block removed between entering the folder and its
  registration is registered after `removed()` and sampled from then on.
* `server_single`: the `stop()` of a server that was refused, called by its
  destructor, removes the capability of the server that runs. The next start
  passes the check that only one server exists.

Windows that are exceptions of a passing property or were met while modelling:

* A block constructed during an outage validates its node and joins the sampler
  later; a reconnect announced in between leaves it in error, where USAGE.md:349 has
  it recover (the premise of `RegisteredBlocksResume`: registered).
* A property write between the end of a sample and its `updateStatuses()` leaves the
  wrong status (`StatusCurrentUnlessOverlapped`), where USAGE.md:198 has the status
  follow the errors. A refused sampling interval stops reading, where USAGE.md:269
  has it go on at 100 ms. A generated local ID is not looked up in the folder, so
  `addFunctionBlock` can fail, which USAGE.md:213 excludes.
* A session that is activated twice leaves its first entry in the list of clients
  (`EntriesAreRegistered`).
* A helper that was started before the UA client was deleted and not stopped leaves an
  entry under which a new task is looked up: the new timer runs the old task (`mixed`).
* `browseBatch` marks its nodes as cached before the request; if it fails they stay
  cached without references until they are invalidated (`spoiled`).
* A block that takes the local ID of a removed one is not heard of: the registry keeps
  the first object, and the name callback reaches the destroyed one (`CallsReachLiveObjects`,
  `FirstBlockIsHeard`). Blocks the application adds or removes are not mirrored (`apart`,
  `dangling`). After a removal the next number may be taken, and the order of a client
  is then its browse's (`OrderUntilRemoval`). A client keeps the attributes of an ID it
  has read and shows them for the next block of that ID (`OldValuesWithinAConnection`).
* A value node that is replaced while a request holds its address is read through an
  object that is gone (`CallsReachLiveObjects`, `sound`).
* Two changes of one text that overlap may leave component and node apart until the
  next change (`NamesAgreeAtRest`, `differ`).
* A client that browses a signal while its nodes are replaced reads nothing of it for
  good; a last value is read only of numbers; a changed domain signal is not told
  (`ClientKeepsReading`).
* An enumeration type is taken under its name: the second server's labels are lost
  (`disputed`), and a type that does not count from 0 shows other labels (`counted`).
* A lock under a token outlives its sessions until its time is over
  (`LockHasASession`). A generic device may find its ID taken when it is added, because
  the module's lock ends before (`RefusedSiblingOverlaps`).
* A sample whose value packet is refused has its timestamp on the domain signal already,
  and the next poll of the unchanged node sends it again (`NoDuplicateTimestamps` states
  when).
* A method that is called with a list of one value gets the value, and with an empty list
  nothing (`CallArrives`).
* A value wrapped in a variant is read by the base converter only, and a wrapped
  dictionary becomes a structure of its first pair. A list of units that was not carried
  over is read as structures, since the table of list converters has no node ids for
  units. The base converter looks at the first element of an empty array of extension
  objects, and the converter of descriptors decodes an extension object and then reads
  the object itself as a descriptor (`data_descriptor_converter.cpp:254`): nothing in
  the repository hands it one. Both are `Garbage` in the model and excepted
  (`Undefined`).
* An update that is refused by the server may be only logged (`WriteIsAccountedFor`:
  nothing was written then).

## 6. What is not modelled, and why

* Values, descriptors and texts beyond what the properties tell apart; formatting;
  logging.
* The OPC UA stack, the nodeset types and the openDAQ SDK. Their behaviour is assumed
  where the code calls them: a request succeeds or throws, a folder refuses a
  duplicate name, a handler is called by the server thread. The stack is built so that
  callbacks run without its lock.
* Memory model: each access to a flag or pointer is atomic and ordered. The modelled
  flags are atomics or guarded by a mutex, but for `selfChange`, whose reads and
  writes are steps of their own in `NameMirror`.
* Whole components: subscriptions, the task queue of the server, node browser and
  factory (used by tests and tools only), the password hash (vendored), wrappers of OPC
  UA data (copying), conversion of property objects to name-value lists, the
  configuration of the server module, discovery (I/O).
* `ReferenceBrowser`: references of one node that arrive over several responses. The
  loop over continuation points never takes the continuation point of the last answer
  and starts the entry anew on each page, so a model of it would show little else.
* `PropertyMirror` and `PropertyCalls`: nested updates of several clients, names with dots, permissions of
  single properties, `setLocksForAttributes`, numbers that collide with other children.
* `ComponentTree` and the others: the windows of Active, Visible and Tags (a read or a
  write of the component each), tags, the synchronization component, uploads and
  downloads of logs and configurations (one call each). Io folders are below IO only.
* `SignalValues`: two threads that change one descriptor at the same time. `EnumTypes`:
  types that use labels and values mixed, the lookup of UA types by name.
* `Converters`: optional lists in generic structures, registration of types with the
  type manager, null texts, enumerations of unknown types.
* `ServerNodes`: one value node; a registration that fails half-way; events; methods of
  objects without permissions of their own. `ServerSessions`: certificates. The lock is
  exercised only by callers of the library; the TMS server never calls it.
* `ClientModules`: parsing of strings, which are taken as their parts; types with
  more than one supertype and hierarchies deeper than the limit; a server that changes during a creation.
* Seen, and without a property: a reconnect announced to a disconnected
  client makes the scheduler's wait return at once until the loop takes it
  (`sampling_scheduler.cpp:157`), which costs turns of the loop and nothing else; and
  `wait_until` takes the deadline by reference into a vector that may move meanwhile
  (`:184`): whether it is read again after the wait is the standard library's choice. A handler of a packet
  that reads a property of its block would deadlock
  (`opcua_monitored_item_fb_impl.cpp:509`); the locks are outside the repository and
  USAGE.md tells handlers not to.

## 7. Plan

What is left, in the order of what it would add:

1. The safety parts of the liveness properties as theorems: that a step of a waiting
   thread cannot be undone by another thread.
2. The pages of a browse in `ReferenceBrowser`, and a registration that fails half-way in
   `ServerNodes`.
3. Nested updates of several clients in `PropertyCalls`.
4. The composition of `ServerNodes` with `TmsServer`: which phase of `stop()` a request
   meets.
5. Subscriptions, when something in the repository uses them.
