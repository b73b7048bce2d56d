# A specification of the LeviLamina mod loader

This directory holds TLA+ models of the parts of the loader where correctness
is a matter of order, interleaving or failure, the TLC configurations that
check them on small instances, and TLAPS proofs of what must hold for any
number of mods, listeners or threads. Paths below are relative to the
repository. `map` in `PROJECT.json` gives, for every definition that models
code, the lines it stands for.

Run a check with `tlc -config MCEvents.cfg MCEvents.tla`, and a proof with
`tlapm EventBus_proofs.tla`.

## 1. The system

LeviLamina is loaded into the Minecraft Bedrock server or client (or, on
Android, into the launcher's process). It reads the manifests in the mods
directory, decides which mods to load and in which order, loads them, and
offers them events, executors, coroutines, commands, services, forms and user
interfaces. Nearly all the 25 000 files of the repository are declarations of
the game's own classes (`src/src/mc`); the loader's logic is in
`src/src/ll/{api,core}`, `src/src-client/ll`, `src/src-server/ll` and
`src/src-pl-android`.

### Inventory

| component | state | operations | what is hard | what makes it correct |
|---|---|---|---|---|
| mod life cycle: `ModRegistrar`, `ModManagerRegistry`, `ModManager`, `Mod`, `DependencyGraph` | registered managers; loaded mods and their state; `lifecycleDependencies`; `loadedOrder` | `loadAllMods`, `enableAllMods`, `disableAllMods`, load, unload, enable and disable of one mod, managers added and erased | three records of what is loaded, updated one after the other, under two mutexes; managers withdrawn in mid-pass; every callback of a mod may fail; manifests change on disk between a load and a reload | the records agree, or at least hide no mod; required dependencies stay loaded and bound; dependencies precede dependents; conflicts never meet; nothing is switched off under a mod that relies on it |
| load planning: `ModLoadPlanner` | candidates, rejections, in-degrees, order | `resolve` | the loops feed each other: a rejected cycle makes others unavailable, and the sort starts again | the plan is exactly what the manifests call for; each issue told to the user is so; termination |
| event bus: `EventBus`, `CallbackStream`, `ListenerBase` | streams, `listenerInfos`, `modInfos`, `events` | add and remove listeners, register events, publish, removal with a mod | publications call listeners without a lock; three tables of one fact; mods that fail, are disabled, are unloaded | the tables agree; nothing of a mod outlives it; a publication calls all it should |
| thread pool: `ThreadPoolExecutor`, `CancellableCallback`, `thread::InterruptableSleep` | task queue and semaphore; schedule; worker and scheduler threads; `impl` | `execute`, `executeAfter`, `cancel`, `resize`, `destroy`, destructor | permits against tasks; a scheduler going to sleep while work arrives; a pool that goes while its own tasks submit | no task lost, none twice, none early, none after its cancellation; destruction ends |
| concurrent priority queue | a heap and a tail of new elements; waiting operations | `push`, `try_pop`, `try_pop_if` | one thread carries out a batch of operations for the others, which wait on their stacks | each batch acts as some order of its operations; every caller is answered |
| server and client thread executors, tick sleeps | works, scheduled works, `frame`; `timepoint`, `interrupted` | `execute`, `executeAfter`, one update a tick; `sleepFor`, `interrupt`, `check` | a budget for each tick; `timepoint` read without its lock | no work lost or starved; a sleep ends |
| coroutines: `CallbackTransformer`, `Collect`, `CoroTask`, `InterruptableSleep` | a stored handle, a value, a semaphore, a counter | `begin`, `++`, `emplace`, `finish`, `collectAll`, `via`, `launch`, `syncLaunch` | a coroutine resumed while `await_suspend` still runs; an end that falls between check and suspension | every suspension is ended once; values come once and in order |
| services: `ServiceManager` | services by id, by name and by mod | add, remove, remove with a mod, get, subscribe | events published under a recursive mutex; a registration between look-up and subscription | the tables agree; a subscriber knows what is registered, and lets go of a service before it is invalid |
| commands: `CommandRegistrar`, `CommandHandle`, `RuntimeOverload` | overloads of each command, those in the game's signature, those withdrawn | register, disable with the mod, clear | overloads known by their parameters only; a registry that comes and goes | each factory the game may call is on record for its mod |
| data-driven UI: `ScreenSession`, `Binding`, `Property`, `Subscription`, `FormRuntime`, `Observable` | phase of a session; stored and last good values, permissions, subscriptions; bridges of forms | show, complete, close, abandon; writes of the client, the session and others; `setData` | listeners that write in the middle of a dispatch; completion, closing, leaving and failing in any order | completion called exactly once; listeners are told of valid news; a rejected value is rolled back; all is released |
| forms: `FormHandler` | handlers by form, forms by viewer | send, update, answer | answers to forms that are gone or replaced | each answer reaches at most one handler |
| key input: `KeyRegistry`, `KeyHandle` | handles by name | register, disable with the mod | handles outlive the mod that registered them | a disabled mod's handlers are not called |
| hooks: `HookRegistrar` | a counter per hook | construct, copy, move, destroy | counting across copies and moves | hooked while wanted |
| startup: `main_win.cpp`, `AndroidMain.cpp`, `mod_registration.cpp` | `GamingStatus` | hooks of the game's life | Android never enables mods by itself, and may launch twice | modelled by its effect on the registrar and the bus |

Logging, internationalisation, configuration and reflection, packets, the
database, versions, the hooks behind single events, tweaks of the game, crash
reports, the Android preloader and launcher, and utilities keep no state whose
order matters, or are input and output; `components` in `PROJECT.json` lists
them with the reason they are left out.

### Interactions

`loadAllMods` asks `ModLoadPlanner::resolve` for a plan and loads it mod by mod
through `ModManagerRegistry` and the manager of each type. `Mod::onLoad`,
`onEnable`, `onDisable` and `onUnload` run the mod's callbacks and then those
that parts of LeviLamina registered; through them `EventBus` drops the
listeners of a mod that is disabled while the game runs or is unloaded, each
`CommandHandle` withdraws its overloads; its services a mod unregisters itself.
What they do depends on `GamingStatus`. `ServiceManager` tells its
subscribers through the event bus. The thread pool's scheduler keeps its works in
a `ConcurrentPriorityQueue`, as the server thread's executor does, and both hand
out `CancellableCallback`s. Executors run on the level's tick or on threads of
their own, and coroutines on executors. A form is a screen session with
bindings to observables. The mod records are guarded by recursive mutexes, the
bus by `infoMutex` and a mutex for each stream; both are released or re-entered
when code of a mod is called.

## 2. Modules

| module | models |
|---|---|
| `ModManifest` | manifests, and what a load plan is, stated without loops |
| `ModRegistrar`, `ModRegistrar_proofs` | the life cycle: registrar, registry, managers, graph, gaming status; and proofs about it |
| `LifecycleContract` | what the life cycle promises a mod that depends on another |
| `ManagerWithdrawal` | the life cycle while managers are withdrawn; its proofs are in `ModRegistrar_proofs` |
| `ModLoadPlanner`, `ModLoadPlanner_proofs` | `resolve`, loop by loop; and proofs about it and its search |
| `FindCycles` | Tarjan's algorithm, as `resolve` uses it |
| `EventBus`, `EventBus_proofs` | the event bus; and proofs about it, commands and services |
| `CommandHandle` | the overloads of a command, on the lives of mods of `EventBus` |
| `ServiceManager` | services, their removal, and those who subscribe |
| `ExecutorContract` | what every executor promises of a function it is given |
| `ThreadPool`, `ThreadPool_proofs` | the thread pool with its scheduler and cancellation, and proofs about it |
| `ConcurrentPriorityQueue`, `ConcurrentPriorityQueue_proofs` | the queue the schedulers use, down to the heap and the compare-and-swap; and proofs about its lists, its heap and its batches |
| `TickExecutor` | the executors of the server and client thread |
| `Executors_proofs` | proofs about `TickExecutor`, `CallbackTransformer` and `TickSyncSleep` |
| `TickSyncSleep` | sleeps that the level's tick ends |
| `CallbackTransformer` | a stream of values from a thread to a coroutine |
| `DataBinding` | one binding of a screen, with its validation and its listeners |
| `FormRuntime` | forms that share an observable |
| `UserInterface_proofs` | proofs about `DataBinding` and `FormRuntime` |
| `Selections`, `Selections_proofs` | `std::erase_if` and `copy_if` on a vector, and what they leave |
| `MC*` | the small instances |

Some definitions are named `Bug...` and marked "Mutant". They are not used by
any specification: each is what a definition would be with a plausible bug, and
shows that the property it goes with can fail.

Most `MC` modules hold several components that belong together, and a variable
(`part`, `searching`) that says which of them moves in a behaviour. These
components share no state with one another in the code either, or the one takes
the other's calls as atomic, which the other justifies: every interleaving of
them has, for each, the steps of a behaviour in which it moves alone, so nothing is
lost by looking at them one at a time, and the product of their states is
avoided. `CommandHandle` is different: it shares the lives of the mods with
`EventBus`, whose actions it extends.

### ModManifest, ModRegistrar, LifecycleContract, ManagerWithdrawal

A manifest is a record of what loading decides on; a version range is the set of
versions it accepts. The model's `loaded`, `enabled`, `nodes`, `dependOn`,
`loadedOrder` and `managers` are the registry's mods, their states, the nodes
and edges of `lifecycleDependencies`, `loadedOrder` and the registered types.
A call of the registrar holds a recursive mutex from beginning to end, so it is
one step, and its failures are steps that leave behind what the code leaves
behind: an unload that fails after disabling leaves the mod loaded and disabled.
The passes over all mods take one step for each mod, because callbacks run
between them; the lock keeps other calls out (`LockFree`). A plan is any
element of `Plans(disk)` for any set of manifests on disk, so `ModRegistrar`
does not depend on how the planner finds it, and `ModLoadPlanner` shows that it
finds one.

`LifecycleContract` is the abstract specification: a mod that appears relies on
mods already there, which neither go nor are switched off before it.
`ContractKept` states that the registrar implements it, with the edges of the
graph as what is relied on.

`ManagerWithdrawal` adds `ModManagerRegistry::eraseManager`, which takes the
registry's mutex only: it may come in the middle of a pass or of a load, from
another thread or from a mod's callback. There a load is no longer one step but
one for each call it makes into the registry (`call`): the dependencies are looked
up, the mod is loaded, `commitLoadedMod` looks it up again and lists it, and each
dependency is looked up once more and bound. Erasures fall in between, and `together`
notes which mods have been loaded beside which ever since. Enabling,
disabling and unloading stay one step: each makes one call into the registry that
changes anything, and an erasure in its midst has the outcome of one right before or
right after it. What `loadAllMods`, `enableAllMods` and `disableAllMods` then still
achieve is not claimed; what is, is that no loaded mod is hidden (`NothingHidden`).

### ModLoadPlanner, FindCycles

One action for each loop or loop body of `resolve`: reading, the visit of a
candidate, the platform and conflict checks, the propagation of unavailable
dependencies, edges, one removal from the ready set, the rejection of cycles.
`PlanMeetsContract` says that its result is one of the plans of `ModManifest`;
`OrderIsFirst` that hash order never decides. The planner takes the set of
cycles as a definition; `FindCycles` models the search for them, with its
recursion as a stack of frames, and `FindsCycles` says that it finds the components
that hold a cycle, which are defined by what is closed under edges.

### EventBus, CommandHandle, ServiceManager

`stream`, `attached`, `held` and `owner` are the streams, the events of
`listenerInfos`, the listeners in `modInfos` and the registered events with
their owners. A name may have several `Mod` objects one after the other, since
listeners hold weak pointers to an object while `modInfos` is keyed by name.
Calls that change the records hold `infoMutex` and are one step each. A
publication (`pub`) copies the list of listeners and then calls them one at a
time with anything in between.

`CommandHandle` adds to the lives of the mods what one command keeps: which mod
registered which parameters (`overloads`), the entries of the game's signature
with the mod whose factory each has, and those put aside by a disable. Every call
holds the handle's mutex and is one step; a disable that another subscriber
refuses has withdrawn the overloads all the same.

`ServiceManager` has the three tables, a stack of calls for each thread, and what
each subscriber was told last (`view`). A registration or removal holds the
recursive mutex over its publication, so the steps between belong to the thread
itself, as calls of the subscriber that is being told; a subscription holds it
only for the look-up, and adds its two listeners afterwards.

### ThreadPool, ConcurrentPriorityQueue, ExecutorContract

`impl` is the pointer of the executor; every resize makes a new Impl, with a
queue (`tasks`), a semaphore (`permits`), workers, and a scheduler (`sched`,
`sch`, `schNow`, `front`, `wake`; `since` is when it went to sleep, and with
`front` says when `sleepFor` returns). `call` holds what each caller has still to
do: an outside thread, a running task, or the scheduler of an Impl. The two halves of `execute` are two steps that read
`impl` separately, as the code does; so are the steps of `executeAfter` and of
the destructors. Outside threads do not call while the pool is resized or
destroyed, as a caller of a non-const member must see to; tasks and the
scheduler of the pool do, since no caller can stop them. The release of a
binary semaphore that already holds its permit is undefined behaviour: it keeps
one permit or counts a second (the two implementations of the libraries the
loader is built with). The task queue is taken as linearizable, and unordered:
that the queue library keeps the order of one producer is not used.

`ConcurrentPriorityQueue` justifies what is assumed of the other queue. A call
pushes its operation on a list by compare-and-swap (`AggregatorExecute`); the thread
that found the list empty waits for `handler_busy`, grabs the list, and
carries it out: the two passes over the operations and the final heapify are
functions on sequences, with the failure of an allocation as a choice.
`BatchesLinearize` compares the answers and the final contents of a batch with
those of an abstract priority queue under some order of the operations.

`ExecutorContract` is the abstract specification that `ThreadPool` and
`TickExecutor` implement (`ExecutorKept`): a function is called at most once, not before
its time, and not after a cancel() that answered true.

### TickExecutor, TickSyncSleep, CallbackTransformer

`TickExecutor` has the two queues, `frame`, and what the tick's thread is doing;
whether the budget is spent when the clock is looked at is left open.
`executeAfter` reads the frame and emplaces in two steps. The owner may let go of
the executor while its listener is in a tick.

`TickSyncSleep` splits the listener's check as the code does: a look at
`timepoint` without the mutex, the comparison, and the interruption under it.

`CallbackTransformer` has the steps of `emplace`, of `~ValueSetter`, of
`await_ready` and `await_suspend`, and of `~Iterator`; `tail` is what the thread
that suspended the coroutine has still to do when another has resumed it.

### DataBinding, FormRuntime

Both run on the server thread; what is hard is nesting, which a stack of
dispatches holds. In `DataBinding` each write, nested ones included, dispatches
to the validation and then to the listeners there were; a listener may write,
grant, revoke, listen or unsubscribe. Writes are the client's, those of the
session (`ServerWrite`, and the restoring of the last good value), or those of other
code on the server, such as another session that borrowed the property
(`OtherWrite`): `mServerMutationActive` is a member of the session, so listeners are told of
the last like of the client's. `last` notes what became of the listener a
dispatch has just come to. In `FormRuntime` each form has a stage, a session
phase, a permission and a location, and the observable a stack of `setData` calls.
`missed` notes the locations that were passed over because they brought the
outer call about.

## 3. Runs

All runs finish. `CHECK_DEADLOCK FALSE` is set where the system may stop for
good: a stopped server, a plan returned, all `Mod` objects of the instance
used up, a pool that is gone, a stream that has ended, a closed session.

| run | instance | what it shows |
|---|---|---|
| `lifecycle` | 3 mods with 2 manifests each, 2 managers; hooks of server and client, or Android with a second launch | the records agree, dependencies are bound and first, conflicts never meet, passes are complete, the contract is implemented |
| `lifecycle_withdrawal` | the same without Android, with 5 of the manifests, managers withdrawn at any moment and loads in their steps | the records may name mods that are gone, but every loaded mod is listed, and bound to the dependencies it was loaded beside |
| `planner` | 3 names, 46 manifests, every disk; every graph on 4 names, with and without one loop | `resolve` returns, with exactly the plan the contract defines; hash order never decides; issues are genuine, of all six kinds; the cycles found are the components that hold one |
| `events` | 2 mods, one loaded twice, 3 listeners, 2 events, a publisher; 2 kinds of parameters; 3 services of 2 mods, two with one id, 2 subscribers, 2 threads | the tables agree, nothing but a failed load leaves listeners, publications are complete and in order, factories are on record, subscribers are told before a service is invalid |
| `pool` | 2 works, 2 workers, 2 Impls, 2 instants; a queue with 3 threads, 3 priorities and at most 3 elements | nothing lost, early, or run after its cancellation; no sleep too long; batches linearize, one thread handles them |
| `pool_live` | 2 works, 2 workers, 1 Impl; a queue with 3 threads | everything submitted is settled; destruction ends; every call of the queue returns |
| `executors` | 3 works, 2 clients, ticks of 2 works, 3 frames; 6 ticks with 4 sleeps; 3 values | the contract of executors in ticks; no starvation; every sleep ends; values come once and in order; no sender waits for ever |
| `ui` | 2 forms on one observable with 2 values; a binding with 2 listeners, 3 values and a bad one, writes nested 3 deep | told once, released, in step with the observable; only valid news of others reaches listeners, nothing bad stays |
| `eventbus_unload` | `events` with the bus only | **violation**: a listener is called after its mod was unloaded |
| `services_known` | `events` with the services only | **violation**: a subscription misses a registration |
| `pool_resize` | `pool` with the pool only | **violation**: a resize that never returns |
| `transformer_end` | `executors` with the stream only | **violation**: a coroutine that is not told of the end |

Why the bounds suffice. Three mods are the least with a chain of dependencies
and a mod outside it; two manifests for each let a mod come back with another
version, another manager, or another conflict. Three names give every shape of
cycle the planner tells apart (none, one, one that leads to another mod), four
all nestings of components in the search. Two objects of one mod and one of
another give each order of failed load, unload and new load, and a listener of
another mod on a mod's event; with two kinds of parameters two mods may share
one and differ in the other. Three services are a version beside another and
two objects that compete for an id; calls nest three deep, so that a subscriber
may remove the services of a mod while it is told of a removal. Two works let
a task submit another while its pool goes, two workers let one return while the
other runs, two Impls give one resize, and two instants a work that is due and one
that is not. Three threads make batches of up to three operations, the least in
which two pops compete over a push; pushes posted together take a queue of two to
four elements, a heap with both children and more. Three works and a budget of two leave one for the next tick. Three
values have one that is neither the first nor the last. Two listeners, one of
which writes while the other has still to be told, let what a client wrote be replaced in the
middle of its dispatch. Writes of the session and of the client never nest more than
two deep; a third level is for a write of others in a listener that was told of a
write of others, beyond which nothing new nests. Five manifests keep, for the run with
withdrawals, a chain of dependencies, a mod of the other manager, a conflict, and two
versions of the mods at both ends.

The type invariants are stated in each module and, but for that of `TickSyncSleep`,
proved; no run spends time on those.

### Fairness

Safety needs none. `MCLoadPlanning` has weak fairness of the step of `resolve`,
which is sequential code that is run until it returns. `ThreadPool` has weak
fairness of its internal steps: threads are scheduled, tasks return, sleeps end
and the clock advances. Nothing is assumed of callers: nobody need ever submit,
cancel or destroy. One condition on all internal steps is enough because a call
is followed by finitely many of them. `ConcurrentPriorityQueue` has weak
fairness of each thread's step within a call, since a thread that spins does not
stop the others. `TickExecutor`: the level ticks, works return, a call under way
goes on; not how much of its budget a tick has. `TickSyncSleep`: the level ticks,
its listener runs, a notified thread gets the mutex. `CallbackTransformer`:
threads run on and the executor resumes what it is given; the coroutine need
never leave the loop, and the thread may keep its `ValueSetter`.

### Disagreements found

* `eventbus_unload`: `CallbackStream::publish` (`src/src/ll/api/event/EventBus.cpp:35`)
  calls a copy of the listeners without a lock. An unload between two calls,
  by another thread or by a listener, removes a listener and frees its library
  before it is called. The tutorial
  (`src/docs/main/contents/developer_guides/tutorials/create_your_first_mod.md:553`)
  says there is no need to worry about the lifetime of listeners.
* `services_known`: `subscribeService` (`src/src/ll/api/service/ServiceManager.h:45`)
  looks the service up and adds its listeners afterwards. A registration or removal
  in between is missed, and the subscriber is left with nothing, or with a
  service that is gone; the test of services says that it is told of both.
* `pool_resize`: `execute` (`src/src/ll/api/thread/ThreadPoolExecutor.cpp:120`)
  reads `impl` twice. When a task of the pool, or its scheduler, has enqueued
  into the old Impl and releases into the new one, the old Impl has a permit
  less than tasks and workers need, its last worker waits for ever, and `resize`
  with it. `src/docs/main/contents/api_reference/thread.md:119` shows `resize(8)`
  directly after `execute`. The new Impl has a permit too many, so that a worker
  of it spins; `NoIdleSpin`, which is proved, says that nothing else makes one spin.
* `transformer_end`: `await_ready` (`src/src/ll/api/coro/CallbackTransformer.h:84`)
  reads `finished`, and the handle is stored later. A `ValueSetter` that goes in
  between finds no handle, and the coroutine is never resumed; `ExecTest.cpp:118`
  counts on being told of the end.

The models have more steps a reader may not expect, which the properties above
make room for:

* Listeners are removed on disable only while the game is `Running`
  (`EventBus.cpp:153`), hence not on Android, nor for a mod disabled during startup
  or shutdown (`DisableSilences` has that condition), though the tutorial's line
  553 says that they are. Overloads of commands likewise (`CommandRegistrar.cpp:42`),
  and no unload withdraws them.
* Once a stream has finished while the loop has a value, every further turn of
  the loop gets that value again (`OnceInOrder` is about streams whose thread
  keeps its `ValueSetter`).
* A listener that writes to its binding while it is told of a client's value
  keeps the listeners after it from being told of that value, and no listener is
  told of what its own session writes (`Subscription.cpp:248`; `OnlyNewAndValid` says
  who is told, not that all are).
* A subscriber that calls `setData` while it is told of what a client wrote changes
  every location but the one the client wrote (`FormRuntime.cpp:69`; `missed` in
  `BridgeAgrees`).

## 4. Proofs

Each is for any values of the constants that meet the module's assumptions
(finite sets of works and workers, manifests that are manifests, an order of
names or listeners without ties).

**`ModRegistrar_proofs`.** `IInv` strengthens the checked invariants by: loaded
mods carry their own name; only loaded mods are enabled; nothing is loaded
before the native manager; what `loadAllMods` has still to load fits what is
loaded. The last is what makes `NoLoadedConflict` inductive, since the loop of
`loadAllMods` does not check conflicts again; it rests on a lemma that the
survivors of a plan are free of conflicts. Each conjunct has a lemma that every
step keeps it, on top of two that say what a load and an unload do (`LoadEffect`,
`UnloadEffect`). From `IInv` follow `RecordsAlwaysAgree`, `RequiredAlwaysBound`,
`DependenciesAlwaysFirst`, `ConflictsNeverLoaded`, the action properties
`ProtectionHolds` (`DependenciesProtected`, the part of `ContractKept` that a user
notices) and `OnlyHotLoad`, and the refinement `ImplementsContract`.
`EnableAllComplete` and `DisableAllComplete` use two more invariants, `EnableLoop`
and `DisableLoop`, of how far the passes have got.

Where managers are withdrawn, `WithdrawalInv` is inductive (`WithdrawalInvariance`) and
`NothingEverHidden` follows. It says what a load knows in between: once the mod is in
the registry and until it is committed, it is the one loaded mod that need not be
listed, and while it is being bound, each dependency already looked up that has been
there since is bound. Nothing is asked of a name whose mod is gone; a mod that comes
back under it has its edges from its own commit, or from those of the mods loaded after
it, and an unload of it, the only call that takes edges away, ends what `together` notes.

**`ModLoadPlanner_proofs`.** `PlanInv` says of each loop of `resolve` what it has
established and what it still owes. `CollectFits`: the visits collect only
candidates of the contract, and whatever they miss is pending. `OwnFits`: a mod
is rejected for its own sake as its manifest says, and `OwnStaysGenuine` that the kind
it is told stays true (a missing dependency, a version out of range, a platform). `RoundsFit`: the propagation
stays between what is active and the largest supported part of it, once of what
was not rejected by itself, and once more of what is left of that when the cycles
are gone. `OrderFits` and `SortFits`: the order so far is closed under what must
precede, each element had the lowest name of those that could have come, and an
in-degree counts what is still to come before. When the sort is stuck, all that
is left has something left before it, and so there is a cycle: the proof takes
the mod with the most beyond it (`CycleExists`). The survivors have no cycle,
so that the search is made once at most (`StuckIsCyclic`), and the fallback of the
code, which rejects all that was not placed, is never taken. `ReturnsPlan`,
`ReturnsFirst` and `IssuesAlwaysGenuine` follow, for any manifests; that finitely
many mods are on disk is part of the contract (`IsDisk`) and not assumed.

`SearchInv` is what Tarjan's algorithm knows. The frames and the stack are in the order
of the indices (`StackFits`, `CallsFit`), and every edge out of a visited mod was
looked at or is still in a frame (`LookedAt`). What left the stack is closed
(`SettledClosed`); what is on it leads down to a frame (`ReachesCaller`), and each frame
leads up to all above it (`CallerReaches`). A link is the index of a mod that is reached
(`LinksReach`), and is as low as any edge looked at from the frame's part of the stack
(`LinksLeast`). So when a call returns with its own index as its link, what is above
it on the stack, with what is settled, is closed, and each of it reaches and is reached
from the mod that returns (`CircleIsAbove`): it is that mod's component.
`CyclesAllFound` follows for any edges between any mods, and `SearchFindsCyclic`, that
on the edges between active mods the members of these components are what
`ModLoadPlanner` has as `Cyclic`. No part of this needs induction on paths: what is
reached is what is in every closed set.

**`EventBus_proofs`.** Of the bus, `IInv` adds to `RecordsAgree`, `ListenersFound` and
`OnlyFailedLoadsLeave` that at most one object of a name is alive; without it, the
removal for one object could take the listeners of another. `DisablingSilences`
follows from `ListenersFound`: what a disable removes is what it finds by name.
`DeliversToAll` adds `PubInv`: what is still to be called is exactly who was there at
the beginning and has not been called, by strictly increasing rank, so that the next
is the first of them (`NextInOrder`). It needs that a stream can be put in
order whatever listeners it has, which is proved from a sorted sequence of any
finite set with ranks.

`OverloadsAlwaysAgree` is about `CommandHandle`: `OverloadsAgree` becomes inductive with
`WithdrawnOnce`, that no parameters are put aside twice. A registration that finds the
parameters of another mod, and a return of what was withdrawn, then keep the
signature free of duplicates.

Of `ServiceManager`, `ServiceInv` says what the calls under way know of each other,
however subscribers nest them: the mutex is one thread's (`OneLocks`); a service that
is being removed is there still and is removed once (`RemovedOnce`); it is not
registered below its own removal (`NotAddedMeanwhile`), and the removal of its mod
does not come to its id (`ModRemovesOthers`); who was told of it has let go
(`ToldSoFar`). A step is taken in two parts, a call that goes on and one that
begins. `TablesStayInStep` and `ToldFirst` follow.

**`ThreadPool_proofs`.** The strengthening has four groups. `Placed`, `OnePlace`
and `RunsSomewhere` put each work in the place its phase says, and only there;
with `CallbackFits` (a callback is available only until somebody takes its
function) they give `CancelIsFinal`. `CallFits` and `TimeFits` say what a call
of `executeAfter` has done so far and to which Impl, which `NeverEarly` and
`NeverOversleeps` rest on: a scheduler that sleeps past an entry is one that a
call is about to interrupt. `LifeFits`, `WorkersFit`, `QueueFits` and `CrashFits`
say that one Impl ends at a time, that its workers return between the stop and
the join, and that an Impl nobody points to gets no work but from its own
scheduler; hence `ExecutedNotDropped` and `NeverBetweenPools`. `PermitsFit` counts:
the tasks of a live Impl are at most the permits of its semaphore, of its
workers, and of calls between the halves of `execute`, and before a resize exactly
as many (`AlwaysCovered`, `NeverSpinsIdle`). `ImplementsContract` is the refinement of
`ExecutorContract`: each step of the pool is a step of the contract for one work,
or a stutter. All of it holds for any number of works, workers, outside threads
and resizes.

**`Executors_proofs`.** For `TickExecutor`, `IInv` puts works where their phase says and
bounds the frame at which each is popped (`NotEarly`: what left the schedule
was due by a frame that the update had read, though `frame` may be behind by the time
`executeAfter` emplaces). `ImplementsContract` is the refinement of the same contract as
the pool's, with frames as time.

For `CallbackTransformer`, `StreamInv` says whose turn it is as long as the thread keeps
its `ValueSetter`: the coroutine runs, or makes itself ready (`Readying`), is ready and
the permit is in one place (`Ready`), or has a value and waits to be resumed
(`Resumable`). Each determines how many values were taken and seen; hence
`EachValueOnce`.

For `TickSyncSleep`, `SleepKeepsItsEnd` is the safety part of `EverySleepEnds`: no step
takes the end of a sleep away or defers it without interrupting the sleep, although
a check may be one of an earlier sleep. That the sleep then ends is liveness.

**`UserInterface_proofs`.** For `FormRuntime`, `FormInv` says what a form holds at each
stage (`Stages`), that exactly the forms with a bridge observe, and that a bound
location that differs from the observable will be told by a `setData` it did not
bring about (`WillAgree`); hence `EverythingReleased`, `BridgesAgree` and
`ToldOnlyOnce`. For `DataBinding`, `BindingInv` says how dispatches nest (`Nested`: only
under writes of others that were validated and were new), what the last one has
established (`Arrived`), and when listeners are still to be told of it (`Telling`); hence `GoodDataStays`
and `OnlyNewAndValidTold`.

**`ConcurrentPriorityQueue_proofs`.** `QueueInv` says that one thread at a time collects
operations and one works on them, and that the lists the `next` pointers form are
apart: the one that operations are pushed on, and the two of the handler
(`ListsApart`), in which nothing is answered and of which the second has pops only.
`HandlerIsAlone` follows: no thread that returned left an operation of its stack in
a list.

`BatchesAlwaysLinearize` rests on `LinearInv`. Of the vector it says that its first
`mark` elements are a heap (`QueueFits`); for that `Up`, `Heapified` and `Reheap` are
shown to keep a heap and what it holds (`UpKeeps`, `HeapifiedIs`, `ReheapHeap`,
`ReheapBag`). Of a batch under way it says how far an order of its operations has
been found (`Batch`). The operations it puts in order lead from what the queue held
to what the *heap* holds now. The push of an element that still follows the heap is
left out of the order; so is every pop that looked at that element as the newest and
did not want it, and with the push they form a group (`Group`), one for each such
element and no two with an operation in common. A pop of the newest element is
above the heap, so its group, and then the pop, can be put last (`BatchPopLast`). A
pop of the root goes last where the newest element is not above it, and the group of
the element that `reheap` moves into the heap goes before it (`BatchPopRoot`). Pops
that fail on the root, or find the queue empty, and pushes that fail, change nothing
and go last (`BatchStay`). In the end the groups that are left go last one after the
other, the least element first, so that a pop that failed did look at the top
(`BatchEnd`), and `heapify` changes no contents. Induction runs over the size of a set of
what is not yet done, which has a least element, as in `Selections_proofs`.

The invariant needs no bound on the number of threads in a batch and none on
elements, and `MaxSize` is not used. Elements are integers compared as such: a strict
weak order is what the code needs `my_compare` to be, and elements that it does not
tell apart are one here.

**`Selections_proofs`.** What erasing from a vector leaves: the elements that stay, in their
order, and different keys where there were. The library states induction for an
operator, which the installed provers cannot instantiate. Induction over a *set* of numbers
is within their reach, since every such set has a least element (`SetInduction`),
and `Selected` is a recursive function, to which that applies.

Not proved, only checked: liveness (`ResolveReturns`, `EveryWorkSettles`,
`EndReached`, `EveryCallReturns`, `EverySleepEnds`, `EmplaceReturns`) and the use of
ENABLED are out of the prover's reach. Every invariant and every action property of
the runs that are to pass is proved, for every value of the constants that
satisfies the assumptions.

## 5. Not modelled

Nearly all lines of the repository are under `src/src/mc` and
`src/src-client/mc`: declarations of the game's classes, without bodies, that are
generated from its symbols. They have no behaviour to model; of the rest, some
30 000 lines, a large part is hooks of single functions of the game, templates that
map structures to JSON, and formatting. Components left out are listed with
their reasons in `PROJECT.json`.

Inside the modelled components the models leave out:

* callbacks of mods that call back into the registrar (its mutexes are
  recursive), but for `eraseManager`; of that, a callback of a load that withdraws
  the very manager that is loading the mod;
* in `DataBinding`, listeners of another session on the same path, and a permission that
  another session grants or takes there. A listener of another session that writes
  while a replay or a write is dispatched would change `suppressNotification` and
  `lastGood` for the listeners after it, as no listener of the session itself can;
* services whose `invalidate()` calls back into the manager;
* in `ServiceManager`, the two calls a subscriber may make that leave an iterator
  dangling (`ServiceManager.cpp:96`): removing what is being removed, and
  registering so that the table grows during a removal. What happens then is
  undefined;
* promises, tasks and `collectAll`, whose hazards are lifetimes of coroutine
  frames, which a model would have to restate; sleeps of coroutines, where an
  interrupt may come before the callback is stored (`coro/InterruptableSleep.h:26`)
  and two threads then assign one pointer;
* of commands, enumerations and the parsing of parameters; of the data-driven UI,
  the components of a form and their serialization, and values bound as a whole
  tree;
* `FormHandler`, where what an answer finds depends on how many forms a client
  shows at once, which nothing in the repository says; `KeyRegistry`, whose handles
  stay invalid once their mod was disabled (`KeyHandle.cpp:89`); the counter of
  `HookRegistrar`, which goes wrong only when one is moved or assigned, as no code
  here does;
* the text of manifests, and versions beyond which range accepts which; hash order,
  except where a property is about it; memory, except where its end is what a
  property is about. `MultiListener`, `DynamicListener`, emitters of events and
  `InplaceExecutor` are wrappers of what is modelled.

A data race is modelled where the code has one that a caller cannot prevent
(`impl`, `timepoint`), and otherwise excluded by what callers must do.

## 6. Plan

The plan is carried out as far as TLC and the provers reach. What one could add are
the parts that section 5 leaves out, of which re-entrant callbacks of mods in the
registrar and the parameters of commands hold the most state.
