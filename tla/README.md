# Verification of OS_5_SEM

The repository holds four C programs that share no code:

| | program | source | hard because |
|---|---|---|---|
| A | user-level threads with a reaper | `src/1.6/src` | raw `clone()` threads, futexes, a lock-free claim of every thread, deferred reclamation |
| B | user-level threads without a reaper | `src/1.6/src/wo_reaper` | an exiting thread frees the stack it runs on |
| C | storage list, searchers and swappers | `src/2.3/src/{mutex,rwlock,spinlock}` | hand-over-hand locking over a list that others relink |
| D | HTTP proxy | `src/3/src` | one thread per connection, one descriptor table, partial reads and writes |

Every module below is a translation of that code: a step of a model is one
atomic access of the program (a load, a store, a compare-and-swap, a lock, a
system call), and a guard is the condition the code tests.  `PROJECT.json` gives,
for every definition, the lines it stands for.

## 1. Inventory

### A. User-level threads with a reaper

State: a descriptor `mythread_t` per thread (state word with the flags
JOINED, DETACHED, QUEUED, REAPED; `finished`, which is also the futex word a
joiner sleeps on; `retval`; `stack`), the flag `reaper_started`, and one global
queue (`head`, `tail`, a spinlock, and `count`, which is also the futex word
the reaper sleeps on).

| operation | code | what it does |
|---|---|---|
| `mythread_create` | `mythread.c` | allocates descriptor and stack, `clone()`s |
| `thread_startup` | `mythread.c` | runs the routine, stores `retval` and `finished`, wakes a joiner, hands itself over when it was detached |
| `mythread_join` | `mythread.c` | claims by compare-and-swap, waits for `finished`, takes the value, frees stack and descriptor |
| `mythread_detach` | `mythread.c` | claims by compare-and-swap; if the thread has finished, hands it over |
| `start_reaper` | `queue.h` | starts the reaper thread once, with an error path |
| `reap_enqueue` | `queue.h` | links a node, counts it, wakes the reaper |
| `reaper_main`, `reap_dequeue` | `queue.h` | sleep on `count`, take the whole list, free every thread in it |

Interactions: clients, threads and the reaper share the descriptors through
three atomics (`state`, `finished`, `reaper_started`) and the queue through a
spinlock; the reaper is reached only through `count`.  All of them share one
`errno`, because the threads are cloned without thread-local storage.

What is hard: the exiting thread and the detaching client each write a flag and
then read the other's; a join and a detach race on one word; a joiner polls and
then sleeps; the counter of the queue is changed outside its lock; the reaper
frees memory on which the thread that queued it may still stand.

What makes it correct: a thread is claimed once; a claimed, finished thread is
released once, stack before descriptor, and never before both hold; a joiner
gets the value and is woken; no wake-up of the reaper is lost; no node is lost
or taken twice.

### B. User-level threads without a reaper

State: a descriptor with the flags `finished`, `joined`, `detached`, its `retval`
and its `stack`. `joined` is an exchange: whoever is first to set it releases the
thread.  A detached thread releases itself: it maps a temporary stack, moves there
with `swapcontext`, unmaps its own stack, frees its descriptor and exits.
What is hard: three parties race for `joined`; a join tests `detached` once and then
reads the descriptor again and again, so that it may read one that is freed; and a
thread has steps left to make on its stack when it has announced its end.
Correct means: one releaser, on a stack that is still mapped; nothing leaks but
what the exiting thread has claimed and nobody had detached in time; a joiner that
nobody overtakes gets the value and is woken; and the same contract as A, as far as
the code keeps it.

### C. Storage list

State: a singly linked list of nodes, a lock in each, its `size`, `is_running`.
`main` builds the list (`storage_init`, which gives back what it has made when a
`malloc()` fails), starts the threads, sleeps, stops them and joins them.
Searchers (`search_pairs`) traverse with two locks and count pairs of
neighbours; swappers (`swap_pairs`) walk to a random index with three locks and
exchange two neighbours when their order asks for it (`swap_nodes`, three
writes). The three directories are the same program, with a mutex, a read-write
lock or a spinlock in each node.
Correct means: the list is built whole or not at all, and stays a list of all
its nodes; a traversal sees each node once and counts the pairs of one order; a
swap is one atomic exchange of the nodes at the drawn index; all threads end
after `stop()`.

### D. HTTP proxy

State: the descriptor table of the process; in `main` the variable
`client_sock_fd` and a heap cell for each new thread; in each thread one buffer,
two sockets, and the positions of its read/write loops.  `main` accepts and
creates threads; `handle_client` reads, parses and edits a request, resolves,
connects, sends, relays the answer, and closes, with an early return after each
failing call.  Threads share nothing but the descriptor table (and the process:
an unhandled signal ends them all).
Correct means: a thread uses and closes only its own descriptors; each early
return closes what is open; bytes arrive at the right peer, in order; a
request arrives with a path for a URL, `Connection: close` and its other headers
untouched; a connection ends.

`PROJECT.json` lists the hazards of all four, each at its line.

## 2. Modules

```
ThreadContract        what a thread library promises         (abstract)
   ^ implements            ^ implements
MyThread (A)          MyThreadWoReaper (B)
   | INSTANCE; uses it as it allows
ReapQueue (A)

ExchangeList          a list whose neighbours change places  (abstract)
   ^ implements
StorageList (C)

RequestEdit (D)       what becomes of the text of a request  (pure)
   ^ EXTENDS
HttpProxy (D)
```

| module | models | notes |
|---|---|---|
| `ReapQueue` | `queue.h`: `start_reaper`, `reap_enqueue`, `reap_dequeue`, `reaper_main` | alone it is driven by *callers* that claim a descriptor and submit it; `MyThread` instantiates it with callers = threads and clients; `InProgram` is what it asks of a program that does so |
| `MyThread` | `mythread.c`: create, join, detach, `thread_startup` | the clients' call sequences are the constant `Programs` |
| `MyThreadTests` | the call sequences of the tests in `1.6/src/main.c` | used as `Programs` |
| `ThreadContract` | the promise | `life`, `owner`, `held` of a thread |
| `MyThreadWoReaper` | `wo_reaper/mythread.c` | |
| `WoReaperTests` | the call sequences of the tests in `wo_reaper/main.c` | used as `Programs` of `MyThreadWoReaper` |
| `StorageList` | `2.3/src/*/main.c`, `list.c` | `shared` chooses the build, `size` is the argument |
| `ExchangeList` | the promise of the storage | |
| `RequestEdit` | the edits of `parse_request_line`, `parse_headers` and `handle_client` | functions on sequences of tokens |
| `HttpProxy` | `3/src/main.c`, `3/src/handler.c` | |
| `MC...` | instances for TLC | |
| `MyThreadProofs`, `MyThreadReleaseProofs` | theorems about `MyThread` | section 5; the second extends the first |
| `ReapQueueProofs`, `MyThreadWoReaperProofs`, `StorageListProofs`, `HttpProxyProofs` | theorems about the module of that name | section 5 |
| `RequestEditProofs` | lemmas about the edits of a request and how a server reads it | extended by `HttpProxyProofs` |
| `DataLemmas` | lemmas about numbers, folds, sums and sequences | extended by the proofs of A's queue, C and D |

How state corresponds to code.

* **ReapQueue.** `state[t]` is the set of bits in `t->state`; `live` and `stack`
  are the descriptors that are allocated and the stacks that are mapped;
  `head`, `tail`, `next`, `count`, `lock` are the fields of `reap_queue` and its
  nodes (a node and its thread have one name); `rpc`, `current`, `processed` are
  the locals of a reaper.  Several `Reapers` exist because the error path of
  `start_reaper` can let a second one start.  `failures` counts system or
  library calls that have failed, at most `MaxFail`.
* **MyThread.** `pc` of a client is its place inside a library call; `arg` the
  descriptor it was given; `seen` the value it has loaded for its
  compare-and-swap.  A compare-and-swap that fails although the word has not
  changed repeats the same load, which is a stutter.  `Fault` is a thread that
  steps on an unmapped stack (`crashed`); `uaf` collects clients that touched a
  freed descriptor.  Both are what the program really does, observed: no
  guard keeps the model from them.
* **MyThreadWoReaper.** `joined`, `detached`, `finished` are sets of threads
  whose flag is set, `retval` the threads whose value has been stored; `got` is what
  a join has stored for its caller; `temp` the temporary stacks.  A client that
  looks at a descriptor which has been freed meanwhile finds any value there (`Sees`)
  and is noted in `uaf`; if it finds `joined` clear it releases what is not its own, and
  the process may go down (`Claim`).  `claimedBy` and `inTime` are history: who
  has won `joined`, and which threads were detached before they looked.
* **StorageList.** `mpc` is the place of `main`, in `storage_init` first; `heap` is
  what is allocated, `storage` and `first` are main's `s` and `s->first`;
  `crashed` says that a thread has read `s->size` through a null pointer.
  `holders[n]` are the threads that hold the lock of `n`;
  `prev`, `cur`, `nxt`, `left_index`, `i`, `cycle_pairs` the locals, and `visited`
  is history: what a searcher has met on its way.  Because the three
  builds are alike line by line, the map points each part at a different one:
  the searchers and `storage_init` at `rwlock`, `swap_pairs` and the creation of
  the threads at `mutex`, and `swap_nodes`, the swappers, `stop` and the joins at
  `spinlock`.
* **HttpProxy.** `table[d]` is the socket that descriptor `d` stands for, and a
  free descriptor is always the lowest one, as in POSIX: a closed number is
  handed out again at once, which is what makes a stale or a doubled close
  visible.  A request is a sequence of tokens of about the same length, so that
  the edits make it longer or shorter as they do in the code, and overwrite what
  stands in the way.  `TextOf`, `ParsedOf` and `EditedOf` are `RequestEdit`'s
  functions on the requests of an instance.

## 3. Runs

| run | instance | checks |
|---|---|---|
| `reap` | 2 descriptors, 2 callers, 2 reapers, 1 failing call | `CountBalance`, `NoLostWakeup`, `LostOnlyToFailure`, `OwnedOnce`, `ReaperBound`, `EventuallyReclaimed`, `ReaperDrains` |
| `reap_underflow` | 2 callers, 1 reaper | finding 1: `CountNonNegative` is violated |
| `thread_safety` | 2 threads, 2 clients, 2 reapers, 1 failing call; `CompetingClients` | `OwnershipProtocol`, `DetachHandover`, `ReleasedOnce`, `JoinValue`, `JoinerWoken`, `ImplementsContract`, `UsesQueue` |
| `thread_live` | 2 threads, 2 clients, 1 reaper, no failing call; `Lifecycles` | `KeepsPromise`, `JoinReturns` |
| `thread_join` | `test_join`, 2 threads | finding 2: `NoCrash` is violated |
| `thread_repeat` | `test_multiple_detach` | finding 3: `NoUseAfterFree` is violated |
| `thread_errno` | `test_detach_then_join_fails` | finding 4: `ErrnoKept` is violated |
| `wo_reaper` | 2 threads, 2 clients, 1 failing call; the tests and two competing clients | `ReleasedOnce`, `OnlyLateClaimsLeak`, `JoinValue`, `DeathHasCause`, `ImplementsContract`, `DetachedBeforeExitReleased`, `FirstJoinerReturns` |
| `wo_reaper_ended` | `test_detach_after_exit` | finding 6: `DetachReleasesEnded` is violated |
| `list` | sizes 0 to 3, any allocation failing, 2 searchers, 2 swappers, both kinds of lock | `StorageWhole`, `NoNodeLost`, `TraversalComplete`, `PairsOfOneOrder`, `SwapsAtItsIndex`, `ImplementsExchanges`, `Terminates` |
| `proxy` | 2 connections, 6 requests of one and 1 of the other, 2 or 3 descriptors, answers of 2 pieces | `DescriptorsOwned`, `NothingLeaked`, `RelayFaithful`, `RequestAsMeant`, `ConnectionsEnd` |
| `proxy_edit` | 1 connection, 9 requests | finding 5: `ConnectionSetToClose` is violated |

Most passing runs also check `TypeOK` of their module.

**Bounds, and why they are enough.**

* *Threads, clients.* The claim of a thread is a race of two clients and the
  thread itself; `Contest` is every pair of a join and a detach by two clients on one
  thread, in A and in B, so that two joiners can sleep on one thread too. A
  second thread is there so that the queue can hold more than one
  node while a reaper works, and so that each client can wait for what the
  other one starts (`Exchange`).
* *Reapers.* `ReaperBound` says how many can exist: one more than the failing
  calls.  With `MaxFail = 1` two are enough, and with `MaxFail = 0` one.
* *Queue.* Two callers make the reaper find an empty queue, one node, two, and a
  node linked behind one that it has just taken; both start a reaper when a call
  fails in between. Callers submit any number of descriptors, one after another,
  until all are claimed.  The safety properties are proved for any number.
* *List.* Three nodes give a swapper two places to swap at, so that two swaps
  overlap in one node; two of the nodes are equally long, so a comparison can
  refuse and a searcher for equal lengths finds a pair or none.  `up` sorts and
  `apart` shuffles, so the order never settles for good.  Every initial order is
  taken.  Size 0 is refused, size 1 has no pair and size 2 no room for two swaps;
  a `malloc()` fails at each place where one is made, with none to two nodes to
  give back.
* *Proxy.* With two descriptors one connection takes all of them; with three the
  second thread has a client socket and finds none for its server. Two pieces
  and a buffer of two give partial reads and partial writes. A
  request that grows and ones that shrink when they are edited are served, among
  them each of the three the edits spoil; two requests have a header whose value
  holds a word that the edits look for (`Via`, `Vary`) and must be left alone. A
  partial write of a request ends at a
  multiple of `SendStep` tokens, so that it takes one or more writes; the answer is
  cut anywhere.  The second client sends one plain request: it is there for what
  two threads do to each other, which the text of a request has no part in.
* *Symmetry* is used in `thread_safety` only, over the reapers, which no
  configuration distinguishes; never where a liveness property is checked.

**Fairness.** Weak fairness for every thread, client and reaper: the kernel runs
what can run.  A start routine is assumed to return (the model lets it take
arbitrarily long).  The spinlock of the queue is promised to nobody: a step that
takes it is fair only while it is free. A caller gets it all the same, because a
run claims finitely many descriptors and the lock is taken finitely often.  In
`StorageList` no lock is promised to any waiter; after `stop()`, which main's
`sleep(10)` is followed by, everybody makes at most one more round, which is why
`Terminates` holds all the same.  In `HttpProxy` the five-second timeouts of the
server's socket are what makes the steps that end a wait enabled; the client's
socket has none, so a client may stay silent for ever (`mute`), and
`ConnectionsEnd` assumes that silent clients leave at least one descriptor.

**What the passing runs show.** The claim of a thread (compare-and-swap on the state
word, then the test of `finished` on one side and of DETACHED on the other) is
sound in every interleaving of the instances: nobody else's flag is overwritten, the
hand-over happens, the queue neither loses nor doubles, and no wake-up is lost
although `count` lags behind the list; and joins and detaches keep out of what the
queue owns (`UsesQueue`).  In B, `joined` gives one releaser; whatever leaks was
claimed by the exiting thread and not detached by then; a join has the value unless
a detach or another join has overtaken it and freed the descriptor; the process
dies of three causes, which `DeathHasCause` names, and a thread that releases itself
is none of them once it has its temporary stack; and of several joiners one always
returns.  In C,
hand-over-hand locking makes three writes one exchange, for mutexes and for
shared locks, so that a searcher counts the pairs of an order the list could have
had although it changes on the way; and `storage_init` hands over a whole list or
none.  In D, no early return leaks or closes twice, nobody's bytes get mixed up,
and the edits do what they are for exactly to the requests that are `Plain`.

## 4. Findings

Each is a run that must end in a counterexample.

1. `queue.h:88`. The counter is raised after the unlock.  A reaper that is
   already awake can take, free and subtract the node first: `count` goes
   below zero, which the code reports as `ERROR: old < processed`.  No wake-up is
   lost by it (`NoLostWakeup` holds).
2. `mythread.c:170`. `mythread_join` unmaps the stack as soon as `finished` is
   set. The thread has still to call `futex_wake` and to exit, on that stack.
3. `mythread.c:205`. After the compare-and-swap that sets DETACHED, the exiting
   thread may queue itself and the reaper free it; the detaching client then reads
   `thread->finished`. A second detach reads `thread->state` as well.
4. `main.c:197`. `errno` is shared by all threads of the library, and
   a `futex_wait` in the reaper overwrites the EINVAL of a rejected join.
5. `handler.c:245`. The send loop is bounded by the length of the request before
   it was edited. When the edits make it longer, its end is cut off.
6. `wo_reaper/mythread.c:203`. "If the stream has already ended, we release it
   ourselves", says the comment of `mythread_detach`; but every thread that has ended
   has set `joined` itself, so the detach releases nothing, and the thread, which
   was not detached when it looked, has not done so either.  It leaks.

Two defects have the cause of finding 2, a stack that is unmapped while its thread has
steps left on it, and no run of their own.  In B, `mythread_join` and `mythread_detach` do the
same (`wo_reaper/mythread.c:185`, `206`): it is the second case of `DeathHasCause`,
and without that case the run `wo_reaper` fails.  In A, the reaper unmaps the stack of a
thread that has queued itself and not yet exited (`queue.h:134`): `Fault` and the
reaper's release are steps of `MyThread`, and `thread_join`, whose program has no
detach, does not take them.

Met as well, and stated where the properties leave room for them: a failing
`clone()` resets `reaper_started` twice, so two reapers can exist
(`ReaperBound`); a failing `malloc()` in `reap_enqueue` gives a descriptor up, and
is the only thing that does (`LostOnlyToFailure`; `EventuallyReclaimed` excepts
failures); in B a join that comes after the exiting thread has taken `joined` releases nothing
either (`OnlyLateClaimsLeak`; `DetachedBeforeExitReleased` is what remains), a join that
a detach overtakes reads a freed descriptor (`uaf`, which `JoinValue` and
`FirstJoinerReturns` except), a second joiner is not woken (`FirstJoinerReturns` promises one,
`Stranded` is the other), and the temporary stack is never unmapped; in C a size
of zero or less, or a `malloc()` that fails, takes the process down in the first
thread that runs (`Terminates` excepts it), the Storage leaks when the second
`malloc()` fails (`StorageWhole` excepts it), and `generate_gandom_string` makes
values of at most 7 characters, the size of a pointer less one, where its comment
says `buf_size - 1` (`MaxLength`); in D a failing `malloc()` loses a descriptor
(`unfreed`), SIGPIPE ends the process (`dead`), and three kinds of requests are
spoiled by their edits (`RequestAsMeant`): a URL without a path, whose cut reaches
to the slash of the version; a path for a URL and `http://` in a header, which is cut
instead; and a Connection value shorter than `close`, which is overwritten
together with the line end behind it.

## 5. Proofs

TLC checks an instance; the theorems below hold for **any** sets of threads,
clients, reapers, connections and nodes, any programs of the clients, any requests,
and any number of failing calls.  Every one is about `Safe`, the specification
without its fairness (`SoundInProgram` about `InProgram`).  All invariants of the
passing runs are proved, `RequestAsMeant` for ordinary requests (see D), and so are
the four refinements.

| module | theorem | proves |
|---|---|---|
| `MyThreadProofs` (A) | `TypeCorrect` | `TypeOK` |
| | `ClaimedOnce` | `OwnershipProtocol` |
| | `HandoverNeverDropped` | `DetachHandover` |
| | `Implementation` | `ImplementsContract`, the safety half of the contract |
| `MyThreadReleaseProofs` (A) | `ThreadReleasedOnce` | `ReleasedOnce` |
| | `JoinDeliversValue` | `JoinValue` |
| | `WakeUpToCome` | `JoinerWoken` |
| | `QueueUsedRightly` | `UsesQueue` |
| | `QueueSoundInside` | `OwnedOnce`, `CountBalance`, `NoLostWakeup`, `LostOnlyToFailure` and `ReaperBound` of the queue, in the library |
| `ReapQueueProofs` (A) | `TypeCorrect` | `TypeOK` |
| | `OneOwner` | `OwnedOnce` |
| | `CounterBalances` | `CountBalance` |
| | `WakeUpToCome` | `NoLostWakeup` |
| | `LossIsFailure` | `LostOnlyToFailure` |
| | `ReapersBounded` | `ReaperBound` |
| | `SoundInProgram` | all of these, in every program that uses the queue as `InProgram` says |
| `MyThreadWoReaperProofs` (B) | `TypeCorrect` | `TypeOK` |
| | `ThreadReleasedOnce` | `ReleasedOnce` |
| | `LateClaimsLeak` | `OnlyLateClaimsLeak` |
| | `JoinDeliversValue` | `JoinValue` |
| | `DeathIsExplained` | `DeathHasCause` |
| | `Implementation` | `ImplementsContract`, the same contract as A |
| `StorageListProofs` (C) | `TypeCorrect` | `TypeOK` |
| | `WholeOrNothing` | `StorageWhole` |
| | `NodesStay` | `NoNodeLost` |
| | `EveryNodeMet` | `TraversalComplete` |
| | `OneOrderCounted` | `PairsOfOneOrder` |
| | `IndexIsThere` | `SwapsAtItsIndex` |
| | `Implementation` | `ImplementsExchanges` |
| `HttpProxyProofs` (D) | `TypeCorrect` | `TypeOK` |
| | `DescriptorsStayOwn` | `DescriptorsOwned` |
| | `NoDescriptorLost` | `NothingLeaked` |
| | `BytesArriveInOrder` | `RelayFaithful` |
| | `ServerGetsEdited` | the edited request arrives, up to the length of the client's text |
| | `OrdinaryArrives` | of ordinary requests, the server reads what it is meant to |
| | `EditsDecide` | `RequestAsMeant`, if it holds of the edits alone |
| | `OrdinaryDecides` | `RequestAsMeant`, if all requests that do not grow are ordinary |

**Assumptions.** One named assumption for each component, in its module:
`ConstantsOK`, `ThreadConstantsOK`, `WoReaperConstantsOK`, `StorageConstantsOK`,
`ProxyConstantsOK`; and `ActorsFinite` in `MyThread`, for what the queue counts. They say that sets which stand for
different things are disjoint, that `NULL` is none of them, that what is counted is
finite (threads; nodes; the callers and reapers of the queue, which the
counter sums over), that `Programs` are sequences of calls and `Requests` records
of tokens, and that buffers and a write have room for one token at least.
`StorageConstantsOK` also fixes the orders to the comparisons that `main.c` starts
threads with, three for searchers and three for swappers.

**A, the library.** The inductive invariant of `MyThreadProofs` is

    IInv == TypeOK /\ ArgInv /\ LifeInv /\ OwnershipProtocol /\ KnowledgeInv /\ QueueInv

`OwnershipProtocol` alone is not inductive: that a compare-and-swap sets JOINED
only on a word without DETACHED follows from what the client has tested in the
value it saw, `Knows(c, label)`, not from the word itself; and that only finished,
detached threads are queued follows from what a client knows between its
claim and its return.  `ArgInv` says which thread a client's knowledge is about,
`LifeInv` ties the `finished` word to the thread's progress (an unborn thread has
a blank state), and `QueueInv` that what the queue and the reapers point at is
QUEUED, so that a reaper never releases anything else.  `TypeOK` contributes
that a stack is never mapped without its descriptor.  Each action has its own
lemma (`ThreadInv`, `CreateInv`, `JoinWins`, `DetachWins`, `CallerInv`,
`ReaperInv`, ...); the actions of the queue enter through what they change
(`CallerStepEffect`, `ReaperStepEffect`).

`Implementation` maps a thread's life to `pc` and `finished`, its owner to the flags,
and what it holds to `stack` and `live`; every step is one of the contract's
steps or a stutter (`ThreadContractStep`, `ClientContractStep`,
`ReaperContractStep`), because `IInv` gives each releasing step a thread that is
finished and claimed.  Note what the contract does *not* promise: that the
finished thread has left its stack.  That is finding 2.

`MyThreadReleaseProofs` adds two conjuncts that are inductive relative to that
invariant.  `JoinInv`: a thread has one joiner, which sleeps only while its
wake-up is still to come.  `ReleaseInv`: MT_REAPED is the right to release; a thread
without the bit is whole, and the actor that has set it finds what it is about to
release.  The right, not the list, is what the proof follows: two reapers could
point at one node and still only one would release it, because the bit is set by
an atomic `fetch_or` whose result is tested.

**A, the queue.** That a node is in one place is a property of `ReapQueue` itself, and
`OwnedOnce` and `CountBalance` speak of it through `Chain`, which follows `next`.
The invariant does not: it says that there are a numbering of all the nodes ever
linked (`rank`), a set `queue` and for each reaper a set `batch[r]`, so that in each of
them `next` leads from a node to the one of the next rank (`IsList`), the sets are
disjoint (`Listed`), the node of the highest rank is the one `tail` points to
(`EndInv`), all are fresh but the one a reaper is working on (`FreshInv`), the
counter balances against their sizes (`Balanced`), and what is in none of
them was lost to a failure (`LostInv`).  Each step shows its new witnesses: a link
adds a node of the next rank to `queue`, a take moves `queue` to a batch, an
advance drops the node of the lowest rank.  That the nodes of `Chain` are the set so
described is proved once (`ChainIs`), by induction on the number of steps.
`LockInv` is the mutual exclusion of the spinlock, `ClaimInv` and `ReapInv` say in
whose hands a descriptor is before and after the queue, `WakeInv` and `BoundInv` are
`NoLostWakeup` and `ReaperBound` made inductive: the second counts the callers that
may start another reaper or reset the flag twice.

**A, the queue in the library.** Alone, the queue's callers do nothing but claim and
submit.  `InProgram` lets them do anything else in between that leaves the queue
alone (`Elsewhere`), and the inductive invariant survives it (`SoundInProgram`).
`UsesQueue` says that the library is such a program, through a refinement mapping
(`QueueView`): the queue's view of a descriptor that nobody has handed over is a
detached thread that is whole, whatever joins and detaches do to it meanwhile; as
soon as QUEUED is set it is the descriptor as it is. A client or thread outside the
queue's code is an idle caller.  The mapping works because of `IInv`: no join or
detach changes the word of a queued thread (its compare-and-swap fails), and a
release that is not the queue's concerns a thread that is not queued.  The mutant
of `UsesQueue` is a join that overwrites the word.  `QueueSoundInside`
then carries the queue's invariants over: the view and the library have `head`,
`tail`, `next`, `count` and the reapers in common.

**B.** `IInv == TypeOK /\ ArgInv /\ LifeInv /\ KnowledgeInv /\ ReleaseInv /\ FreedInv`.  The history
variable `claimedBy` names the winner of `joined`; `LifeInv` ties it to the
thread's own control points, `Knows` to the client's, and `ReleaseInv` says that a
thread is whole until it is claimed and then in the hands of its one winner.
`FreedInv` says of what is freed who can have freed it, and of a thread that was
detached in time and has claimed itself that it is on its way to free itself or
has: `OnlyLateClaimsLeak` follows, and `JoinValue`, because a client that has touched a
freed descriptor was overtaken by whoever freed it.  `DeathHasCause` follows for
`Fault` from `ReleaseInv`: a thread that has swapped has its temporary stack, one
that has claimed itself has its own, and so has one that nobody has claimed; what is
left is a stack that a client has released.

**C.** `IInv == TypeOK /\ PhaseInv /\ LocalInv /\ LockInv /\ ListInv /\ PathInv`.
`LockInv` says that the holders of each lock are the threads that believe they hold
it, and that two threads hold one lock only if both search; it turns the
control points of a swapper into exclusive possession of three nodes.  `ListInv`
says that there is an order `at` of the nodes in which everyone stands where he
should: each node points to its successor, except for the nodes of a half done
swap, whose pointers are named write by write (`Linked`); a searcher is at some
place and has met the nodes up to it, and a swapper that counts is at the place it
has counted (`Placed`).  The third write of a swap changes `at` in two
neighbouring places, and nobody else is there.  `StorageWhole` on
the error path needs the same order of a list that is partly freed (`IsRest`).
`PathInv` gives each searcher the path it has gone, in the order in which it has
met the nodes; what it has counted is the number of pairs along that path, which
others may have rearranged behind it since.  `Implementation` maps the abstract
list to the one `Walk` reads, which undoes half done swaps (`Shown`).

**D.** `FdInv` has what `main` and each thread believe of their descriptors (`MainInv`,
`ThreadInv`) and two facts neither of them knows: no socket has two descriptors
(`OneDescriptor`), so that a close ends it, and every open socket has somebody
who will close it (`Accounted`).  `RelayInv` is the arithmetic of the two loops:
`Progress(k)` says what has arrived in terms of `sent`, `total` and `fetched`, at
each place of the loops.  That an edited request is again a text, whatever the edits
overwrite, is proved in `RequestEditProofs`.

What a request means to its server takes two proofs.  `ArriveInv` follows the buffer
from the edits to the end of the send loop: it holds the edited text with what is
left behind it, the loop is bounded by the length of the text the client sent, and
when the relay begins the server has that much of it, which is `SentOf(q)`
(`ServerGetsEdited`; that it may be cut off is finding 5).  So threads, partial
writes and failures do not matter, and `RequestAsMeant` depends on the edits of the
texts alone (`EditsDecide`).  About the texts, `OrdinaryEdits` is proved in
`RequestEditProofs`: of an *ordinary* request the server reads the lines it is meant
to, whatever bytes follow.  Ordinary is a URL that is a path, or a host of
tokens without a slash and then a path; headers that are one line each; no
`http://` in a header where the search would reach it; and either no header that holds the word Connection, and at least one header, or exactly
one, longer than `close`.  The argument goes part by part: a text is a request
line and a sequence of header lines (`TextHasParts`); each edit changes one of the
parts (`VersionOfText`; `ConnectionOfHeaders` and `ConnectionOfNone`; `PathOfURL`);
and a server reads such a text line by line (`LineFirst`, `HeadersRead`, by
induction).  Ordinary requests are `Plain` (`OrdinaryIsPlain`), hence `OrdinaryDecides`.
Of the requests of the run `proxy`, two are ordinary and do not grow.

**Induction.** The library's induction theorems take an operator as their parameter,
which the installed provers cannot instantiate.  `DataLemmas` states induction
over a *set* instead (`SetInduction`: a set of naturals that has 0 and with n its
successor is `Nat`), and that a function may be defined by recursion on a
natural number (`Recursion`); the facts about folds, sums, `FlattenSeq` and chains
that the proofs need follow from these two.

**Only model-checked.** Everything under fairness (`KeepsPromise`, `JoinReturns`,
`EventuallyReclaimed`, `ReaperDrains`, `Terminates`, `ConnectionsEnd`,
`DetachedBeforeExitReleased`, `FirstJoinerReturns`), which is beyond the prover;
and `RequestAsMeant` for requests that are not ordinary.  It says that the edits do
what they are for to the `Plain` requests *and to no others*.  That is
one about the texts of the instance: a spoiled text may happen to be the right one
when tokens coincide, and a plain request may hold line ends or a second Connection
header, so it is computed for each request and not claimed for all.

## 6. What is abstracted or left out

* *Memory model.* Interleavings of atomic accesses are sequentially consistent.
  The code is weaker: `finished` is stored with release order and `state` loaded
  with acquire order, and C11 alone would let the exiting thread and the detaching
  client both read the old value of the other's flag. On x86 the outcome
  is excluded, since the client's compare-and-swap and the `futex_wake` between the
  thread's two accesses are full barriers; the models describe that build
  (the hazard is listed).
* *Memory reuse.* Descriptors are not allocated again.  In A a freed one keeps its
  contents; a touch of it is recorded in `uaf`, and finding 3 is that there is one. In
  B a client finds anything in it (`Sees`), and what it writes there is lost: that
  the write might spoil somebody else's memory is not followed.
* *Allocator.* `malloc()` and `free()` are atomic, although the library's threads
  share the thread-local cache of glibc's allocator with their creator (listed
  as a hazard, not modelled).
* *Read-write locks.* Readers may overtake a waiting writer, as with the default
  attributes; no order among waiters is modelled.
* *Arguments.* The tests of the libraries' functions for a null pointer
  (`mythread.c:83`, `135`, `179`, and the same in B) and their EINVAL: no call that is
  modelled passes one.
* *Errors.* `start_reaper` puts back the `errno` of the `mmap()` or `mprotect()` that has
  failed; nobody reads it in between but other threads that share it, so the
  failure and the writing back are one step (after a failing `clone()` it is a step
  of its own).  In B, `errno` is left out.
* *Test programs.* Their waits, which bound no interleaving, and their output.  The
  1000 detaches of `test_race_detach_vs_exit` and the 50 threads of
  `test_many_detached_threads` are three detaches and two threads.
* *List.* The monitor and the totals, which nothing but the report reads; a
  `pthread_create()` that fails, whose result the code does not test; the
  initialisation of the locks, whose result it does not test either.
* *Proxy.* How parsing finds a request malformed (it is a choice); bytes within a
  token, so that a Connection value of the length of `close` is one that is
  overwritten in place.  A value of four bytes leaves, in the code, a bare line feed
  that many servers take for a line end; the model's short value is a
  token less than `close`, and the line end behind it is lost.  `HTTP/1.0` and
  `HTTP/1.1` are a token for the name and one for the version.
* *Proxy, the buffer.* It is as large as an edit needs. In the code it has `BUFF_SIZE`
  bytes, and the line that is inserted at `handler.c:124` fits only a request that has
  left 20 of them.
* *Proxy, the rest.* Name resolution as more than success or failure; a client
  that neither reads nor leaves, which would hold its thread for ever.
* Not modelled at all: `threads.c` in 2.3 (commented out), the notes and
  measurements.

## 7. Plan

Done, in this order: the inventory; `ReapQueue`; `ThreadContract` and `MyThread`
with the tests as programs; `MyThreadProofs`; `StorageList` with `ExchangeList`;
`MyThreadWoReaper`; `HttpProxy`; `WoReaperTests` and the values and leaks of
`MyThreadWoReaper`; `main` and the allocations of `StorageList`; `RequestEdit`;
the proofs of `MyThreadWoReaper`, of the releases of `MyThread`, of `HttpProxy`, of
`ReapQueue` and of `StorageList`; the queue inside the library (`UsesQueue`,
`QueueSoundInside`); what arrives at a server (`ServerGetsEdited`, `OrdinaryArrives`).

Left, for whoever goes on:

1. *Requests without a header.* An ordinary request without a Connection header has
   at least one other; the empty line is then found behind it.  Without any the
   proof needs the same steps for the request line.
2. *The spoiled requests.* That a URL without a path, a misleading `http://` and a
   short Connection value always spoil the text is false when tokens coincide;
   which coincidences there are is not worked out.
3. *Liveness* stays with TLC as long as the prover has no ENABLED.
