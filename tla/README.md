# A TLA+ verification of the `_data_struct` collection

The repository is a collection of C, C++ and shell programs written to learn systems programming, data
structures and design patterns. This directory holds TLA+ models of the programs that compile and have a
behaviour of their own, TLC runs over small instances of them, and TLAPS proofs for every instance of many. Paths
below are relative to `src/cpp` of the repository unless they name a module.

1. [Inventory](#1-inventory) · 2. [Modules](#2-modules-and-how-they-correspond-to-the-code) ·
3. [Runs](#3-runs-bounds-fairness) · 4. [Proofs](#4-proofs) · 5. [Findings](#5-findings) ·
6. [What is not modelled](#6-what-is-not-modelled) · 7. [Plan](#7-plan)

## 1. Inventory

Every part with its files is in `PROJECT.json` (`components`), and the places where each can go wrong are its
`hazards`, each with the properties that cover it.

**TCP time servers** (`c/udp/*_tcp`). Four servers with one client: `client.c`, the same file in all
directories, connects, sends one request and reads one answer. The servers differ only in who serves the connection.

| server | state it keeps | operations | what makes it hard |
|---|---|---|---|
| `loop_tcp` | listening socket, the connection being served | accept, recv, send, close in one loop | recv has no timeout: a silent client stops everybody behind it; one failed accept ends the server |
| `bf_tcp` | the same in the parent, one child per connection | accept, fork, two closes of one connection | descriptors inherited by the child, children never waited for, a parent that gives up while children run |
| `pth_tcp` | one `fd_client` shared with every thread | accept, pthread_create, recv, send, close | the thread loads `fd_client` through a pointer after the next accept may have overwritten it; descriptor numbers are reused |
| `mutex_pth_tcp` | `LOCK`, a connection per worker | lock, accept, unlock, recv, send, close, join | an accept that fails keeps `LOCK`; main joins workers that will never get it; all answer out of ctime's one buffer |

They interact with the clients through the kernel only: the accept queue of the listening socket, the bytes
waiting on a connection, its end, and the reset that answers a send to a peer that has gone. What makes them
correct: one answer per request and none unasked, every connection served or released by exactly one owner, no
SIGPIPE (nobody handles it), and a client that behaves is let go.

**UDP programs** (`c/udp/loop_udp`, `c/udp/server.c`, `c/udp/client.c`): request and answer are datagrams; either
may be lost, doubled or overtaken, and `recvfrom` has no timeout. Correct: whoever is told the time asked for it
and was heard, and nothing but a loss keeps a client waiting.

**Other programs with processes or threads** (`c/server.c` with `c/cliet.c`, `c/pthread`, `c/progress`): an echo
server whose children return into the parent's accept loop; a semaphore whose consumer can be asleep when the
program ends; a counter under a mutex that main destroys while it is in use; a flag read without
synchronisation; two processes over a pipe.

**Singletons** (`design/singleton`): `getInstance` with double-checked locking; the state is the pointer
`m_pInstance` and the mutex, which the constructor re-initialises while it is held.

**Data structures** (`date_struct`): a ring queue, singly and doubly linked lists, stacks, queues, a binary tree, an
infix evaluator and a bracket matcher, sorts, merges and searches on arrays. Sequential; what is hard is
long sequences of legal calls: counters that are never taken back, pointers to freed nodes, indices that turn
negative, loops that must agree with the recursion they replace.

**Design patterns** (`design`): observer, iterator, state, command, composite, decorator and mvc keep state that
several objects share (subscriber lists, one cached iterator, states of a building); the others only delegate.

**C++ classes and exercises** (`C++`): a reference count, an owned string, four set algorithms written by hand, two
erase loops and a table of functions have a behaviour; the rest call the library and print.

## 2. Modules and how they correspond to the code

```
TimeService  <- implemented by -  LoopTcp  ForkTcp  ThreadTcp  PreThreadTcp      UdpTime
                                      \_______ TcpClients ______/          UdpNet -/   \- UdpEcho
```

The exact lines behind every definition are in `PROJECT.json` (`map`). A definition called *Mutant of X* is
not part of a specification: it is X with a bug, and the property named for it in `PROJECT.json` (`mutants`) fails
when it takes X's place.

### Programs that run concurrently

| module | code | how state and steps correspond |
|---|---|---|
| `TimeService` | (promise) | a request goes from *asking* to *answered*, *dropped* (not asked for the time, or the server has stopped) or *left*; no queue, process, thread or network |
| `TcpClients` | `client.c`, the kernel's sockets | `cpc[c]` is the client's place; the kernel is `backlog`, `listening` and per connection `inbox`, `sent`, `closed`, `reset`; a server's calls change it through `Accepted`, `Read`, `Sent`, `Released`, marked external |
| `LoopTcp` | `loop_tcp/server.c` | one action per system call, with the failing branches |
| `ForkTcp` | `bf_tcp/server.c` | `pc`, `cur` are the parent, `kid[c]` the child for connection c, which stays in the process table; a connection is released with the second of its copies, the listener with the last process |
| `ThreadTcp` | `pth_tcp/server.c` | with its descriptor table: `fdClient` is the shared local, `fd[t]` the number a thread loaded from it, `conn[t]` the connection it blocked on |
| `PreThreadTcp` | `mutex_pth_tcp/server.c` | `at[w]`, `cur[w]` are a worker, `lock` the owner of `LOCK`, which may be a worker that has ended |
| `ThreadData` | `c/pthread/test.c`; ctime in the two threaded servers | the flag, the value left and the value joined; the shared buffer, written and read in two halves |
| `UdpNet`, `UdpTime`, `UdpEcho` | `loop_udp`, `c/udp/server.c`, `client.c` | datagrams under way each way, lost or doubled at any moment; bind whose result nobody looks at; the receive into 0 bytes |
| `ForkEcho` | `c/server.c`, `c/cliet.c` | parent, children with their copies of both sockets, requests and answers under way |
| `SemThreads`, `LockThreads` | `c/pthread/sem.c`, `lock.c` | a step per call; the counter's load and store are two |
| `ForkPipe` | `c/progress/pipe.c`, `fork.c` | the ends each process has open, the bytes in the pipe, a kill of either |
| `SingletonLock` | `singleton_=`, `singleton_mutex` | the mutex one level down: `word` in memory (0 free, 1 taken, 2 taken with possible sleepers) and the threads asleep on it, since `pthread_mutex_init` undoes exactly that. Unlocking a free mutex is undefined; both behaviours of a build are allowed |

Contents are abstracted to what the programs look at: a request is for the time or not (`strncmp`), answers are
counted, a request of four bytes is read whole. The unlocked reads of `m_pInstance` and of the flags are data races;
the unoptimised x86 builds return the old or the new value, and a store follows the constructor.

### Programs of one thread

| module | code | what a step is |
|---|---|---|
| `RingQueue` | `date_struct/queue/Queue` | a call; both outcomes of `m_QueueHead = m_QueueHead++`, the sign of `%` |
| `SigList`, `DobList` | `date_struct/list` | a call on a heap whose nodes are freed and reused; a dereference of NULL or of a freed node is a fault |
| `Stacks` | `stack/Stack`, `queue/queue2stack.cpp`, `sortStack.cpp`, `sortQueue.cpp`, `resverQueue.cpp` | a call, or a round of a sort's loop |
| `BTree`, `BTreeWalk` | `date_struct/tree/btree` | a call; the recursive ones are operators, the loops over a stack or a queue a step per round |
| `Expressions` | `stack/fix`, `stack/match.cpp` | a character |
| `SortNum`, `Merges`, `SearchAndSort` | `array/code`, `sort/StableSort.cpp`, `C++/setalg.cpp` | a round of the innermost loop |
| `PointClass`, `ValueClass` | `C++/Prime/class/point_class`, `value_class` | a construction, copy, assignment or destruction, on memory that is reused |
| `NotifyList`, `AggregateIterator`, `Patterns`, `ShowTree` | `design/observe`, `command`, `iterator`, `state`, `mvc`, `decorator/tab`, `compoent/directory` | a call, or a round of the loop that calls others |
| `Exercises` | `Prime/stl/9-26.cpp`, `9-34.cpp`, `9-4.cpp`, `Prime/1/type_chag.cpp` | a round of each loop |

### Modules for TLC

`MCThreadTcp` adds the symmetry of `ThreadTcp`. `MCThreads`, `MCUdp`, `MCStructures`, `MCAlgorithms` and `MCObjects`
each check several programs that have nothing to do with each other in one run: Init chooses `program`, only
that program's actions are enabled, and the variables of the others keep their first values. A behaviour is so a
behaviour of one program, the state space is the sum of theirs and not the product, and every property is guarded
by the program it is about. The conditions of fairness are shared for the same reason: `WF_vars(A \/ B)` with
A and B of different programs is `WF(A)` in the behaviours of the one and `WF(B)` in those of the other. The
bounds of an instance are constants of its configuration in `MCThreads`, `MCUdp` and `MCObjects`, which are proved
about for every value, and stand for the most part at its `INSTANCE ... WITH` in the others. What reaches a RECURSIVE
operator is in `MCStructures` (linked nodes, expressions), so that the other four reach none and can be proved about.
`SortNum`, `Merges` and `SearchAndSort` spell out the few library operators they need for the same reason: a lemma
about them is easier to find for the provers with few definitions around it.

## 3. Runs, bounds, fairness

| run | module, configuration | instance | states | what it shows |
|---|---|---|---|---|
| `loop` | LoopTcp | 3 clients, queue of 2 | 5 084 | `LoopHolds`: each connection has one owner and one answer, no broken pipe; only a silent client being served keeps a prompt one waiting (`HeadOfLine`); implements `TimeService` |
| `fork` | ForkTcp | 3 clients, queue of 2, 3 processes | 50 329 | `ForkHolds`: a connection is released by the last of its copies, the listener outlives the parent, no broken pipe; unreaped children bound the answers ever sent (`NoReaping`); silent clients hold up nobody (`NobodyInTheWay`); implements `TimeService` |
| `threads` | MCThreadTcp, ThreadTcp.cfg | 3 symmetric clients, 2 descriptors | 73 746 | under every interleaving no answer is sent that nobody asked for (`AnswersAreAskedFor`), and the race over `fd_client` has its price first (`MixUpsLoseDescriptors`): as long as every open descriptor is answered for, each thread serves its own client and nobody is answered twice or cut off; a lost descriptor stays lost. Once one is lost a thread does close another's connection: two threads load one number, the first closes it, the next client gets it, and the second closes that |
| `threads_spaced` | ThreadTcp, ThreadTcpSpaced.cfg | 3 clients, 2 descriptors | 85 579 | when no connection is accepted before the last thread has loaded its descriptor the server is right (`SpacedHolds`) and implements `TimeService` |
| `threads_race` | ThreadTcp, ThreadTcpRace.cfg | 2 clients, 2 descriptors | | *violation*: two threads serve one client |
| `pool` | PreThreadTcp | 3 clients, queue of 2, 2 workers | 67 468 | mutual exclusion, one owner, one answer, no broken pipe; one failed accept wedges the server for good (`WedgedForGood`), and only that or silent clients keep a prompt client waiting; implements `TimeService` |
| `shared` | MCThreads | 9 programs | 26 194 | see below |
| `singleton_twice` | SingletonLock, SingletonLockTwice.cfg | 2 threads | | *violation*: one thread is given two instances |
| `udp` | MCUdp | 3 clients of the time server, 2 of the echo server, 2 copies of a datagram | 109 277 | `TellsTheTime` (implements `TimeService`), `OnlyLossStarves`, `WaitsForGood`; every echo is empty and the echo client prints its own words (`DatagramsHold`) and only a loss keeps it waiting |
| `structures` | MCStructures | 7 programs | 249 787 | see below |
| `algorithms` | MCAlgorithms | 9 programs | 65 108 | see below |
| `objects` | MCObjects | 11 programs | 104 184 | see below |

The properties of a composed run are conjunctions of properties of the modules, stated and commented there:

- **`shared`**, `ThreadsHold`: the semaphore is destroyed idle (`DestroyedIdle`); the mutex keeps the counter exact
  until main destroys it (`ExactUntilDestroyed`, `InsideOwns`) and then one update is lost at most
  (`AtMostOneLost`); main prints what its thread stored and the thread makes no further round (`PrintsEight`,
  `OneRoundMore`); a part of an answer that is not the thread's time is that of a thread that answered
  meanwhile (`WrongOnlyByOverlap`); the pipe gives the message whole, and SIGPIPE needs a kill
  (`WholeOrNothing`, `BrokenByAKill`); an echo client is cut off only by a failed fork and has one answer under
  way per request (`CutOnlyByFailedFork`, `OneUnderWay`). `ThreadsEnd`: `sem.c` ends unless its consumer sleeps on
  an empty semaphore for good, and one unit left is enough; `test.c` and both ends of the pipe end; each visit
  costs the echo server a process until it drops everybody; a pool of one worker (the code has two) ends with its
  failed accept; the thread server's accept queue drains unless every descriptor is lost or has a silent client. The singleton's own: `OneBuilderAtATime`,
  `NeverNull`, `SettledForGood`, and whoever hangs is a sleeper the constructor made the mutex forget.
- **`structures`**, `LinksHold`: nothing but the calls named in the modules leaves a pointer to a freed node, a wrong
  link back or a leak (`EndsInNull`, `NoLeak`, `HuanOnlyEven`, `BackLinks`); `showTree` shows every way to a file once
  and in order, and overflows for a cycle only (`ShownIsTheTree`, `OverflowIsACycle`); the loops over a tree show
  what the recursion shows (`AsTheRecursion`), with a stack no deeper than the tree, and `DestoryBTree_Queue`
  deletes each node once. `ParsersKnow`: an expression becomes the postfix string of its parse whose value
  has the operands exchanged; balanced brackets match, and what matches has a right bracket behind every left one
  (`PostfixOfTheParse`, `ResultIsTurned`, `BalancedAccepted`, `LeftsAreClosed`). `StructuresMove`: a list loses its last node to `DeleteSameValue1` only (`OnlyRunsEmptyIt`);
  `FreeList` deletes all nodes, and the walks and `showTree` return.
- **`algorithms`**, `LoopsKnow`: what each loop has placed, found or written so far is right for every input within
  the bounds (`OrderKept`, `MovedOnce`, `ReadsFirst`, `PlacedInOrder`, `AsTheLibrary`, `MapCounts`, `VectorKeepsOdd`,
  ...), and wrong exactly as the modules say where the code is (`TwoZerosSpin`, `LeaksWithoutPlus`, `LastDecides`,
  `FirstOddAgain`). `CallsEnd`: which calls return.
- **`objects`**, `CountsOwners`: a block's counter is the number of objects that point at it. `NothingOverwritten`:
  the ring is append-only for life. `ObjectsHold`: owners agree (`SharedAlike`), strings are owned (`OwnString`,
  `KeepsText`, `KeepsIfSet`), a building has one activity and loses its state objects in turn (`OneActivity`,
  `LostInTurn`), a fight takes the rounds the division says (`RoundsNeeded`, `OthersDoNot`), walks that do not overlap
  give each item its turn and those that do pass the end by one place each at most (`EachOnceInTurn`, `ClimbsOn`,
  `Overshoot`), only Mishu's own removal loses its way (`WildOnlyByErasing`), the array is a stack until its counter
  leaves it (`IsAStack`), one of `MyStack`'s queues is empty (`OneQueue`). `NoStepUndoes`: a ring that has been full
  stays full and takes nothing (`FullForGood`), the end of an object nobody shares its block with, and no other step,
  reads the deleted counter (`ReadsDeleted`), a stack popped below nothing never says again that it is empty
  (`NeverEmptyAgain`), and `MyStack` turns into a queue (`StackThenQueue`). `CallsReturn`: fights of
  a positive attack, walks, tables, notifications and sorts end; on the way a table prints a beginning of its
  headings, a notification calls what was registered, a removal that comes back took every registration of its
  object, and the sorts lose nothing.

**Bounds.** Every state space is finite without state constraints. A TCP client connects once and asks once, as
`client.c` does. `Backlog` (2 or 5 in `listen`), `MaxFds` and `ProcLimit` (limits of the system) and `Workers`
(`CLIENTNUM`, 2 in the code as well) are constants: three clients are enough for one to be served, one queued
and one arriving; two descriptors are the fewest that can be mixed up; three processes let the table fill after two
children; two workers are the fewest that can exclude each other. `SemMax` is a little above the code's 10,
`MaxRounds` above the one round the threads have left after the mutex has gone, `Times` above main's three rounds.
A network copy is doubled once (`Copies`), so that a second answer meets a client that has its first. Three
cells and two values turn the ring over in both directions; four nodes let a freed one be reused next to two
live neighbours, and trees of four nodes have every shape a walk distinguishes. Arrays of up to four or five
with doubles, zeros and both signs, expressions of seven tokens (a bracketed sum in a product), multisets of three,
three objects over as many blocks and one more, directories with shared children and cycles.
Counters that the code does not bound stop at a constant (`MaxRounds`, `MaxTime`, `MaxMade`, `MaxWalks`, `MaxNotify`,
`MaxDepth`, `Pushes`, `Room`).

**Fairness** is what a scheduler gives: a process, a thread or a prompt client that can go on goes on. System calls
are never forced to fail, clients are never forced to come or to be killed. `LOCK` is granted to some waiter
when free, in no order. A TCP client outside `Prompt` has no fairness: it is the peer the servers' recv waits for
without a timeout. A UDP server takes each datagram that stays in its socket's queue (`SF` on `Receive(c)`, since
the queue is served in turn), and the network is never forced to lose or to double. In `SingletonLock` nobody
has to call. A program of one thread goes on with a call it has begun and is not forced to make another; lists that
hang are faults of the model's step, not endless steps.

**Deadlock** is checked in the runs of one server: where it has ended and its clients too, `Done` stutters, and in
`PreThreadTcp` it also covers the wedged pool, whose last clients wait in a queue for ever. The composed runs
have `CHECK_DEADLOCK FALSE`: a program that has returned, faulted or answered everybody stops. That the ones that
should go on do is the subject of their liveness properties.

## 4. Proofs

`tlapm` checks the following for all values of the constants, from the assumptions named in the modules. Where the
assumption is a definition (`ProgramsAssumption` and its parts) it is a hypothesis of the component's theorem, and
the composed theorem discharges it; TLC evaluates it on every instance.

### The TCP time servers

**`TcpClientsProofs`** holds what the four servers share, as lemmas about the client's and the kernel's steps:
`QueueInv` (a connection waits in the queue once, is made and open while it does) with one lemma per kind of step
(`QueueClient`, `QueueAccepted`, `QueueReleased`, `QueueStopped`, `QueueKept`), `AskedInv` (what waits on a connection is its
one request, an answer that is due has not been sent, a reset presupposes an answer) with `AskedClient`,
`AskedRead`, `AskedSent`, and `ClientPhase`, a client's step as a step of `TimeService`. Each server then adds who
holds a connection.

| module | theorem | statement | inductive invariant |
|---|---|---|---|
| `LoopTcpProofs` | `LoopIsSafe`, `LoopServesTime` | `[]LoopHolds`, `ImplementsTimeService` | `LoopInv`: main has a connection exactly while it serves one; an open connection is queued or main's; before send nothing has been answered; nobody connects before `listen` |
| `ForkTcpProofs` | `ForkIsSafe`, `ForkServesTime` | `[]ForkHolds`, `ImplementsTimeService` | `ForkInv`: a connection is closed exactly when it is neither queued, nor the parent's, nor a serving child's; the listener is open while the parent runs |
| | `AnswersAreNumbered` | `[]NoReaping` | `TableInv`: only a child answers, and no child leaves the process table, so the answers are a subset of the entries `fork` has counted |
| `ThreadTcpProofs` | `RaceCostsDescriptors` | `MixUpsLoseDescriptors`, under every interleaving | `MixInv`: while main is in its loop, either some descriptor is lost or `SpacedInv` holds (below). An accept that meets a thread at its load overwrites the number only that thread would have loaded, and so loses it (`OverwritingLoses`); nothing the server does reaches a lost one, since no thread has its number and `accept` gives only free ones (`LostStays`) |
| | `AnswersBalance` | `[]AnswersAreAskedFor`, under every interleaving | `BalanceInv`: answers and sends on the way are no more than the requests taken, whoever took them |
| | `SpacedIsSafe`, `SpacedServesTime` | `[]SpacedHolds`, `ImplementsTimeService` of `SpacedSpec` | `SpacedInv`: `fd_client` holds the connection just accepted until its thread has loaded it, a descriptor in use has exactly one thread to its account, and no thread works on another's |
| `PreThreadTcpProofs` | `AcceptsExclude` | `[]MutualExclusion` | `OwnsLock`: a worker inside the critical section, or ended while the process runs, is the owner of `LOCK` |
| | `FailedAcceptWedges` | `WedgedForGood` | `TypeInv` and `OwnsLock`: with the owner ended nobody can be at accept or unlock, so nothing frees the lock or shortens the queue |
| | `OneOwnerAlways` | `[]OneOwner` | `OwnerInv`: queued, held and released exclude each other, nobody is queued or held twice, an idle worker holds nothing, an open connection has an owner |
| | `AnsweredOnce`, `PipeNeverBreaks` | `[]OneAnswer`, `[]NoBrokenPipe` | `PoolInv`: a worker about to send holds a connection without an answer whose request it has taken |
| | `PoolServesTime` | `ImplementsTimeService` | `PoolInv`: the connection of a client that asked for the time and is still there is closed only after its answer or with the process |

The argument is the same four times: first ownership (who has the connection), because an answer is the only one
only if nobody else has the connection; then the data (what has been asked and answered); then a step simulation:
the server's start and end are `StartUp` and `ShutDown`, its send is `Answer`, its close of an unanswered
connection `Drop`, a client's steps move its own phase, all others stutter. The race of `pth_tcp` breaks the
first; what remains is that it does so only after a descriptor was lost, and counting: every answer has a request
to its account though perhaps not its own. That a free descriptor is the lowest one needs that a set of naturals has a least element (`LeastNatural`,
from the library's well-foundedness of `<`).

### Threads and processes

**`ThreadsProofs`** proves `ProgramsAreSafe`, `MCSpec => []ThreadsHold`: the composed model with every number of
threads, clients, workers, rounds and units. A step of a behaviour is a step of its one program, so the invariant is
the conjunction of theirs, each guarded by the program:

| program | theorem | inductive invariant |
|---|---|---|
| `getInstance` | `BuildersExclude`, `AlwaysAnInstance`, `SettledInstance` | `LockInv`: until `m_pInstance` is assigned the mutex works, it is free only when nobody is between lock and constructor. The constructor's reset opens it for one more caller at a time, and after the first assignment the second test turns everybody away |
| `sem.c` | `NoUseAfterDestroy`, `StarvationIsFinal` | `SemInv`: main is past a join only when that thread has left its loop |
| `lock.c` | `CounterIsExact`, `OwnerInside`, `OneUpdateAtMost` | `CounterInv`, in two halves: with the mutex alive its owner is the one inside and has read the counter as it is; without it each thread stores once more at most, and what the slower one has loaded is at most one old |
| `test.c` | `FlagIsSeen` | `JoinedAfterStore`: main is past the join only when the thread has returned what it stored |
| ctime's buffer | `WrongTimesAreRecent` | `OwnOrMet`: each half of the shared buffer, and each half copied out of it, is the time of the thread that will use it or of one it has met since it began |
| `pipe.c`, `fork.c` | `PipeIsSafe` | `PipeInv`: the child keeps its write end until it has written or was killed, so the pipe is empty and unread until then and holds the whole message after |
| `server.c`, `cliet.c` | `EchoIsSafe` | `EchoInv`: who holds each copy of a connection's descriptor; per connection, the messages under way in both directions and in the child's hand are one exactly while its client waits |

### Datagrams

**`UdpAndLoopProofs`**, any number of clients of either server and any number of copies: `DatagramsAreSafe`
(`[]DatagramsHold`), `WaitingIsFinal` (`WaitsForGood`), `EchoesItself` and the refinement `UdpServesTime`
(`TellsTheTime`). `UdpInv`: answers under way, the datagram in hand and clients that are done presuppose that the
server heard a request for the time. `EchoInv`: the server's buffer is empty and
so is every echo it has sent; `NothingWritten` says that such an echo, written over a client's buffer, leaves it.

### Classes, containers on an array, patterns

**`ClassProofs`** proves of `MCObjects`, for every number of objects, strings, walkers, items, rounds, values and cells,
`ObjectsAreSafe`, `MCSpec => []ObjectsHold`, and `NothingIsUndone`, `MCSpec => NoStepUndoes`. As above the invariant,
`ObjectInv`, is the conjunction of the programs' own, each guarded by its program, and a step is one of the program
that runs (`OneRuns`).

| program | code | inductive invariant and why it is needed |
|---|---|---|
| `ring` | `queue/Queue` | `RingInv` ties the tail to the size, which only grows: a full ring stays full and refuses before the tail could come round. Also `NoValueIsOverwritten`, `ReadsInside`, `RefusesForGood` of `RingSpec` |
| `point` | `point_class` | `PointInv` counts owners as the cardinality of the set of objects that point at the block; the lemmas say how it changes when one object turns from a block to another (`OwnMoves`), the assignment to itself included. Also `CounterIsOwners`, `OwnersAgree` of `Spec`. `DeletedIsRead`: the deleted counter is read exactly where an object dies that is its block's only owner, which is where the counter was 1 (`AloneIsOne`) |
| `value` | `value_class` | `ValueInv`: a string in use has exactly one object; so the one made for a copy is nobody's, and the one an assignment deletes is nobody else's |
| `building` | `design/state` | `BuildingInv`: what the building does decides how the objects made for upgrading and for producing compare, which bounds what is lost |
| `fight` | `design/mvc` | `FightInv`: the second hero has lost the attack times the rounds, clamped at 0, and had something left before the last round; a number of rounds with that property is the division rounded up (`RoundedUp`) |
| `iterator` | `design/iterator` | `IterInv`: what a walker saw climbs and lies before the iterator's place, or at it while that walker is in its body; without nesting an item before that place was given at exactly one place, any other at none |
| `notify` | `design/observe`, `command` | `NotifyInv`: while Mishu removes, what is left in its list was there when the call began |
| `array` | `stack/Stack` | `ArrayInv`: the cells keep their places, and `IsAStack` |
| `two` | `queue2stack.cpp` | `TwoInv`: the values are the numbers of their pushes, each queue rises, one is empty; `RisingShrinks` says that the first of such a queue is its least and the last its greatest |

### Loops

The second part of **`UdpAndLoopProofs`** proves `LoopsAreRight`, `LoopsSpec => []LoopsKnow`: inputs of every length, and
every bound of the numbers, in place of the few of the run. (It shares nothing with the datagrams but the file.)
The invariant `LoopsInv` is once more the conjunction of the algorithms' own, each guarded by its algorithm, and each
has three lemmas: it holds at the beginning, every step keeps it, and it says what the properties say.

| algorithm | inductive invariant and why it is needed |
|---|---|
| `sort_num.cpp`, `NumInv` | the array is a rearrangement of the input (`Turned`: a bijection of places that keeps the order of the negative numbers, and of the others, where the function does), and what the indices have passed is on its side: `FirstAt`, `SecondAt`, `ThirdAt`, `FourthAt`. `SortNum` ends in time only because the number of negatives it has counted first leaves room for the positives at the end (`RoomAtEnd`); `SortNum3` copies back as many numbers as there are places, so its witness `CopiedTo` is a bijection, which is shown by counting |
| `merge_array.cpp`, `MergeInv` | to a new array, `NewMoment`: the output has the numbers passed, ordered and below all others. To the old one, `OldMoment`: the cells still to be read are untouched, and above them, with as many cells between as the second array has numbers left, stand the greatest of both |
| `setalg.cpp`, `SetInv` | `SetMoment`: the output has of each value what the call wants of the copies passed in either multiset, and a value still ahead in one has not been met more often in the other (`Leads`); without that the smaller number could not be written at once |
| `StableSort.cpp`, `BubbleInv` | the cells are a rearrangement, and the cell the pass has come to is the largest so far |
| the searches, `SearchInv` | the two numbers found stand at two places of their own (`TwoAt`); the map's pairs count what has been read, in the order of the places where their numbers are met first (`MetAt`), which is why the first pair with a 1 is the first number that is there once |
| `9-26.cpp`, `EraseInv` | the vector is a subsequence with all odd numbers of the array (`Takes`), and the cell behind its end holds the array's last number: the list's loop reads it |
| `9-34.cpp`, `InsertInv` | `CopiedAt`: so many copies of the first odd number stand before it |
| `type_chag.cpp`, `TableInv`; `9-4.cpp`, `FindInv` | the table is pushed in its order and called in it; nothing passed is the number |

Nothing lost and nothing invented is counting: `Amount(v, s, a, b)` is the cardinality of the places from a to b where
s holds v. Its lemmas say how it changes with one place more (`AmountUp`, `AmountDown`), that it adds up
(`AmountSplit`) and that a bijection of places keeps it (`AmountMoved`); they stand in for inductions over sequences,
which the provers cannot do.

### Only model-checked

- All liveness properties and those that speak of ENABLED or fairness (`CallsEnd`, `ThreadsEnd`, `StructuresMove`, ...): the
  proof system has no rules for them.
- `LinksHold` and `ParsersKnow`: their modules walk heaps, trees and expressions with RECURSIVE operators, which the
  provers' translation refuses in every module they reach, and most of the conjuncts compare a loop with such a
  definition, which would need an induction over data.
- Of `objects`, what is part of `CallsReturn`: `CalledAsRegistered` and `RemovedEverywhere` speak of what `SelectSeq` leaves,
  an operator the provers cannot look into; `PrintsHeadings` compares with a recursive function; the sorts'
  `NothingLost` counts occurrences in concatenations, and is next in the plan.

## 5. Findings

Two disagreements between the code and what its own text says are runs of their own:

- **`threads_race`**. `pth_tcp/server.c:45` passes every thread the address of one `fd_client`. The comment at line
  57 says "单客户端单线程，统一accept", one thread for one client; two connections in a row give two threads on the
  second one and none on the first, whose descriptor is then never closed.
- **`singleton_twice`**. `Singleton.h:20` re-initialises the mutex the constructor runs under, so a second caller
  constructs too. `singleton_=/main.cpp:11` compares two results and prints "one"; with a second
  thread they can differ. The same reset can leave a third caller asleep for ever (`OnlyForgottenSleepersHang`
  says that this is the only way to hang).

Others are part of the models, and a property that holds says what the code does instead:

| the text says | the code does | property |
|---|---|---|
| `udp/client.c:19` "recv data : %s" | prints the buffer it sent from, since the echo is empty or recvfrom failed | `PrintsItsOwnWords` (`udp`) |
| `Queue.h:9` "2.出队:head++" | `m_QueueHead = m_QueueHead++` (`Queue.cpp:52`) leaves the head; only `GetTop` moves it, downwards | `InsideWithoutGetTop` (`objects`) |
| `Queue.h:26` "实际size", the actual size | nothing takes away from `m_QueueSize`: full once is full for good | `FullForGood` (`objects`) |
| `BTree.h:58` "查找与根节点距离k的节点", nodes at distance k | `--k` twice (`BTree.cpp:518-519`): the right child is searched for k - 2 | `RightCountsTwice` (`structures`) |
| `BTree.h:36` "销毁", destroy | `_DestroyBTree_Queue` (`BTree.cpp:126-139`) leaves `root` at a deleted node | `TypeOK`, `OneTree` (`structures`) |
| `Fix.h:16` "获取结果", the result | differences and quotients have their operands exchanged (`Fix.cpp:163-184`) | `ResultIsTurned` (`structures`) |
| `match.cpp:52` "match successful" | a right bracket that does not fit is passed over: `(])` matches | `LeftsAreClosed`, `StackIsOpen` (`structures`) |
| `StableSort.cpp:5` the last element is then the largest | the inner loop tests `i` and leaves the array | `CarriesTheLargest`, `LeavesTheArray` (`algorithms`) |
| `type_chag.cpp:50` `assert(b > 0)` | main calls it with -20 (line 76) | `ThreeThenAbort` (`algorithms`) |
| `Hero.cpp:18` "attack error must > 0" | a negative attack is subtracted all the same and heals | `RoundsNeeded` (`objects`) |
| `Value_class.h:14` a number as second parameter | `i(i)` initialises the member with itself (`Value_class.cpp:17-18`) | `KeepsIfSet` (`objects`) |
| `lock.c:45-46` main joins its threads | it joins two function addresses, and destroys the mutex in use | `AtMostOneLost` (`shared`) |

## 6. What is not modelled

- Programs that do not compile and so have no behaviour: `udp/io_tcp/server.c`, `udp/bf_udp`, `tree/trie`,
  `design/command/main.cpp`, `design/decorator/main.cpp` and `phone`, in `C++/Prime` the classes `Message`, `Sales_data`,
  `StrVec` and `person`, `share`, `shar_memory` and `test/union.cpp`; in `SigList` the templates `Reverse` and
  `FreeList`, which do not compile once they are used.
- Programs without state of their own: `exec.c`, `pid.c`, the empty `signal.c`, the byte-order conversions, the
  STL and language exercises (a call of the library each), the unguarded singleton of one thread, and the patterns
  that only delegate (adapter, proxy, facade, factories, template method, duck): what they keep is set once
  and no call depends on an earlier one. The shell exercises are out of scope.
- Partial reads and writes on TCP connections: requests are four bytes and answers fewer than thirty.
- The text of answers and of what is printed, except where a property is about it.
- What the kernel or the library may do and no property tells apart: a failing `pthread_create` in `sem.c` and `lock.c`,
  which do not look at its result (the thread servers do, and there it is modelled); the `struct tm` that `ctime`
  shares besides its text; a reset that follows a FIN in `c/server.c`, which ends the read as the FIN does; what
  `pipe.c` and `fork.c` print, and when stdio flushes it; the end of the input in `BTree.cpp:22`, after which
  `ch` keeps no value: the trees tried are given in full.
- What happens after a fault: a read or write through a freed pointer ends a behaviour, and so does an index
  outside an array, except where the model has memory behind it (`SearchAndSort`).

## 7. Plan

- `SortedSoFar` and `NothingLost` of the sorts of stacks and queues, with the counting lemmas of `UdpAndLoopProofs`.
- `BackLinks` and `NoLeak` for `DobList`, whose heap needs its list as a sequence in place of the recursive walk.
