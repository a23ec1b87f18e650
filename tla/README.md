# A verification project for the ServoController

TLA+ specifications of the ServoController daemon (C, `src/`), TLC
configurations that model-check them on small instances, and TLAPS proofs of the
properties that matter most.  Line numbers refer to the files under `src/`.

- [Inventory](#inventory): what the program consists of
- [Modules](#modules): which module models what, and how it corresponds to the code
- [Runs](#runs): what TLC checks, with which bounds and fairness
- [Proofs](#proofs): what is proved for all instances, and along which argument
- [Disagreements](#disagreements): where the code and its documentation differ
- [Not modelled](#not-modelled) and [Plan](#plan)

## Inventory

The daemon runs on a model (a boat, a car, a plane) and moves its servos.
Remote controls are clients that send JSON datagrams over UDP: `hello` registers
a client, `cdc` carries one value per servo and, optionally, the positions for
loss of contact.  Several clients may be registered; one at a time controls.

The process is single threaded.  `Reactor_Dispatch` waits in `epoll_wait` and
calls one callback after the other; a callback runs to its end.  All
concurrency is the order in which datagrams, timer ticks and the death of clients
reach that loop.

| component | state | operations | interacts with |
|---|---|---|---|
| `ConnectionFsm.c` | state of one connection | hello, cdc, timeout, invalid | calls A1..A6 of `Connection.c` in the order of the table row |
| `SystemFsm.c` | `SYS_IDLE` / `SYS_CONTROLLING` | to active, to passive, is idle | called by A2 and A3, asked before a cdc is passed on |
| `Connection.c` | address, last sequence number, timeout counter, timer | `HandleJsonMessage`, `ConnectionTimeoutHandler`, A1..A6 | owns an FSM and a 1 s timer in the reactor, uses the container and the driver |
| `ConnectionContainer.c` | AVL tree by IP address, the active connection | find, add, remove, set active, (handover: no caller) | owns the system FSM |
| `MessageReceiver.c` | control socket | `MessageReceiverHandler` | finds or creates the connection of a datagram |
| `MessageSinkCdc.c` | vectors of one cdc | parse, get, delete | reads JSON objects for `Connection.c` |
| `ServoDriver.c`, `ServoDriverRPi.c`, `ServoDriverLinino.c`, `ServoDriverMock.c` | positions in force, failsafe positions, refresh counter | set servos, store failsafe, set failsafe | write to the FIFO of `servod`, or to sysfs |
| `base/Reactor.c`, `base/TimerFd.c` | epoll set, current batch | add, remove, dispatch | calls everybody |
| `TransmitTelemetry.c` and its sources | sequence number, list of sources | a report per second | walks the container, asks who is active |
| `base/avltree.c` | nodes with links and balances, the currency | insert, find, step, walk, update, remove | below the container, the console's commands and the simulator |
| `base/linklist.c`, `deque.c`, `memchunk.c` | rings of nodes; areas, free list and reserve of a chunk | add, find, delete, merge, reverse; alloc, free, clean | the telemetry's list of sources; the lists' nodes come from one chunk |
| `base/heap.c`, `btree.c`, `dlist.c` | array, tree, ring | add, delete, retrieve | no caller in the daemon |
| `base/DBG.c` | none | assertions, error entries | may end the process |
| `base/MON.c`, `base/TRC.c` | command and trace tables | console commands | diagnostics only |
| `main.c`, `CommandLineArguments.c` | configuration | start | registers a driver, then runs the reactor |
| `json-c/` (vendored) | stack of the tokener; reference counts; hash table of an object | parse, write, get, put, add, delete, iterate | every datagram is parsed with it, every telemetry message written |
| `ServoBlaster/servod.c` (vendored) | masks read by the DMA controller, widths, kill times | set a width, idle timeout, terminate | reads the FIFO of `ServoDriverRPi.c`; runs against the DMA controller |
| `RtspServer/` (vendored) | | | a process of its own |
| `test/RCSimulator/`, `Tools/` | clients | send hello and cdc periodically | over UDP |

What is hard to get right, and what correctness means there:

- **Control.**  Who controls is recorded three times: in the connection's FSM,
  in `activeConnectionObject` and in the system FSM, written in different
  callbacks.  They must agree; control must not pass from one client to another
  unless it was given up; only its holder moves the servos.
- **Loss of contact.**  UDP loses, duplicates and reorders; a client may die.  A
  silent controller must lead to failsafe within a few ticks and its late
  datagrams must not bring it back by themselves.
- **Registration.**  A connection is created for every datagram of an address the
  container does not know, and only some are ever registered.  The others must
  not be found, must not disturb the registered one and must go away.
- **Lifetime.**  Connections, FSMs and reactor entries are freed inside
  callbacks that still use them, or while their event waits in a batch.
- **Drivers.**  A cache of positions decides what is written to the hardware, and
  the hardware or its daemon can fail or restart independently.
- **Pulses.**  `servod` changes the masks of a pulse store by store while the DMA
  controller walks through them; a pulse must not come out as neither the old
  width nor the new one, and a signal may come between any two stores.
- **Telemetry.**  Who is reported in control is read in another callback than the
  one that changes it, and a report may be lost.
- **Library structures.**  Hand-made balances, rings of pointers and free lists: a
  bug shows after a long sequence of legal calls.  The container uses the tree
  with a comparison and a flag that its author did not foresee.
- **JSON.**  A text may be cut at any character, an object is shared by reference
  counts, and the code must release exactly what it owns.

`PROJECT.json` lists every hazard at its line with the properties that cover it.

## Modules

| module | models |
|---|---|
| `ConnectionFsm` | the transition table and `ExecuteEvent` of `ConnectionFsm.c`; no variables |
| `SystemFsm` | the table of `SystemFsm.c`; no variables |
| `ServoController` | the core: connections, container, system FSM, driver interface, one action per kind of datagram and the timer tick |
| `ControlLock` | abstract specification: the right to control as a lock |
| `ServoControllerProperties` | properties of the core, and the refinement of `ControlLock` |
| `Reactor` | the batch loop of `Reactor_Dispatch` and the lifetime of its entries |
| `ServoChannels` | what both hardware drivers share: which servos a vector updates |
| `ServoDriverRPi`, `ServoDriverLinino` | the two drivers with the device they write to |
| `Servod` | `servod` for one servo against the DMA controller |
| `Telemetry` | the report of `TransmitTelemetry.c`, composed with the core |
| `OrderedMap` | abstract specification: a map in key order with a currency |
| `AvlTree` | `base/avltree.c` on pointers and balances; implements `OrderedMap` |
| `Deques` | abstract specification: some sequences of data |
| `MemChunk`, `LinkList` | `base/memchunk.c`, and `linklist.c` with `deque.c` on top of it; implement `Deques` |
| `Heap`, `BTree`, `DList` | the containers without a caller |
| `LinkHash` | `json-c/linkhash.c` with its iterator |
| `JsonTokener`, `JsonGrammar` | the tokener, character by character; the grammar it is compared with, and the writer |
| `JsonObjects` | reference counts of `json_object.c` under any caller that keeps the rules |
| `JsonCommand` | what `HandleJsonMessage` and `ParseJsonObj` do to those counts |
| `MC*` | instances for TLC: input vectors and symmetry; `MCDevices` puts the reactor and the drivers side by side, `MCLibrary` the library modules |
| `Iteration` | a step repeated `k` times, as a recursive function: what the loops and recursions of `AvlTree`, `Heap`, `LinkHash`, `MemChunk`, `LinkList` and `JsonObjects` are written with |
| `ServoControllerProofs`, `ServoChannelsProofs`, `ServoDriverRPiProofs`, `ServoDriverLininoProofs`, `ReactorProofs`, `ContainerProofs` (`DList`, `Heap`, `LinkHash`, `JsonObjects`), `ListProofs` (`MemChunk`, `LinkList`), `AvlTreeProofs` | theorems and proofs; `ServoDriverRPiProofs` holds those of `ServoDriverRPi` and `Servod` |

### ServoController

One action is one callback, from the reactor's call to its return.

| variable | code |
|---|---|
| `state`, `addr`, `lastSequence`, `timeout` | fields of each `Connection_t` and its FSM; `"FREED"` when there is none |
| `container`, `active` | `hAllConnections`, `activeConnectionObject` |
| `sysState` | the state of the system FSM |
| `servos`, `failsafe` | `oldChannels` and `failsafe` of the driver |
| `process` | running; running with a stray key in the container's tree; or ended by an assertion or by running out of descriptors |

| action | code |
|---|---|
| `RxUnparsable` | the tokener returns nothing, `HandleJsonMessage` returns at once |
| `RxMalformed` | no `v` or not 1, no `user`, no `sequence` |
| `RxStaleSequence` | a sequence number that is not larger than the last |
| `RxNoCommand` | no `cmd`; the sequence number is not recorded |
| `RxHello`, `RxCdc`, `RxUnknownCommand` | the three outcomes of `cmd` |
| `RxOutOfDescriptors` | `Reactor_AddReadFd` gets no descriptor for a new connection |
| `TimerTick` | `ConnectionTimeoutHandler` |
| `StrayKeyIsFound` | the assertion of `ConnectionContainerAddConnection`, in the one outcome that is followed after an inner removal |

Choices that need a word:

- `Conn` is the number of connection objects the process can hold, that is, its
  limit of descriptors.  A freed object may be allocated again; its fields are
  those `NewConnection` gives it.
- `container` maps an address to the connection that `avlFind` returns for it.
  `sock_addr_cmp_addr` ignores the port, so two programs on one host are one client
  here as they are there.
- `RemoveConnection` does what the tree does (`AvlTree` with `CopyKeys`).  A node
  with at most one child is cut out.  A node with two, which takes three
  registered addresses, gets the connection of its predecessor, keeps its key, and
  the node of the predecessor goes.  Which nodes have two children depends on the
  history and on `IpCmp`; the model leaves it open, for any address that has two
  others beside it.  The tree holds the caller's pointers as keys, and `A1` passes
  the address inside the connection, which `A5` frees: from there on `process` is
  `"stray_key"` and the tree compares addresses with freed memory.  That is
  undefined, and of its outcomes the model follows the one in which a new
  connection gets the freed block (`StrayKeyIsFound`); no datagram or tick is
  modelled after an inner removal.  The properties of the core are therefore
  about the program up to its first inner removal, and the two that would be
  false afterwards say so (`RegistryConsistent`, `AssertionNeedsStrayKey`).
- Every datagram may arrive at any time, any number of times and in any order.
  That contains loss, duplication, reordering and restarting clients; nothing is
  assumed of clients but that a vector has at most `MAX_SERVOS` values.
- Sequence numbers are `0 .. MaxSequence`: only their order matters, and there is
  a largest one.  How `int` becomes `UINT32` is left out.
- After its event, `HandleJsonMessage` asks a connection for its state even when
  the event freed it.  The model takes the outcome "not active" (the allocator
  reuses the first words of a freed block).
- The user name does nothing but produce a log entry when it differs.
- Whether a negative sequence number (read as `int`, compared as `UINT32`) is
  accepted is covered by there being a largest number: after it nothing is.
- The driver keeps positions beyond the vector at 0 for a command and unchanged
  for the failsafe positions, which is what `memcpy` of the shorter vector does.

### ControlLock

A lock with modes `free`, `controlled`, `failsafe` and `lost`, a holder, an
output and a fallback output.  `LockMode` and the substitution in
`ServoControllerProperties` map the program to it: free is `SYS_IDLE`, lost is
`SYS_CONTROLLING` with no active connection.  The lock says in one screen what
a client may rely on: control is taken only when free, the output moves only
under control, a timeout puts out the fallback and keeps it until the holder
speaks.  It also says what the program does not promise: control can get lost.

### Reactor

`ready` is the kernel's ready list (first come first served, level triggered;
entries handed over go to its end), `events` the part of `reactor.events` still
to be looked at, `pollList` the blocks that are registered.  Callbacks are
modelled by what they do to the poll list: the control socket's may add or
remove a connection's timer, a timer's may remove itself, the telemetry timer
and the console only read.

### Drivers

`ServoChannels` holds the rule shared by both drivers: a servo is written when
its value changes, and one servo per call is refreshed (`count++ % 50`).
`count` is kept modulo the period; the jump of phase when the 32-bit counter
wraps is left out.  `ServoDriverLinino` adds the sysfs files, each of whose
writes may fail for the channels in `Unreliable`; `EchoInt` goes on after an
error.  `ServoDriverRPi` adds `servod`: it ignores widths outside its limits
(`parse_width`), it may be restarted, and an unwritable FIFO ends the program in
the middle of a call.  Channel values are 0..1000, so the 32-bit products of the
Linino conversion do not overflow.  On the Linino, values beyond the six PWM
channels are assumed to be 0 (the code indexes its path table with the servo
number).

### Servod

A step of the program is one store to the shared masks, a step of the DMA
controller one control block (turn off, turn on, delay), so every interleaving
the bus allows is there.  `job` is what the program is about to store.
`set_servo` clears or sets the turn-off bits between the old and the new width
in the order of the code, then commits the width and sets the turn-on mask.
`since` and `shrunk` record the widths asked for since the pulse began.  A pulse
ends when the output goes off, at a control block or by `gpio_set` in the program
(`Forced`), or when the next one begins with the output on.  `PulsesAreWhole` says
what the program keeps: a pulse that is only widened has one of the widths asked for, one
that is narrowed under way lies between two of them, and the idle timer forces the
output off only where no turn-off bit is left to do it.  The comment at
`servod.c:452` promises more of narrowing (`PulsesAreOldOrNew`), see
[Disagreements](#disagreements).  `OffWhenReset` makes one exception: a signal that interrupts `set_servo`
after it has cleared the turn-off bits of the whole cycle, and before the width
is stored, finds a width that does not match the bits; `terminate` then sets
none, and the output may stay on.  The model gives one servo a start within the cycle;
the lists of pins, the mapping of the hardware and the command line are left out.

### Telemetry

One action, over the core's variables: it reads the container and the active
connection and changes neither.  `shown` is the last report that reached each
observer; the addressees that the network loses are left out of `delivered`.
The sources are asked once at the start.

### AvlTree and OrderedMap

A node is named by its key, and the tree is one record with the fields of
`struct avltree` and of its nodes.  Mirrored functions of the source are one
operator with a side as argument, and its loops and recursions (the search, the way back
from an insertion or a removal, `avlFirstNode`, the checks) are steps taken repeatedly.  The currency may be `Freed`: removing a node
with two children frees the node of its predecessor, which `avlPrevNode` had
just made current.  `OrderedMap` allows that, and `CurrencyLostOnlyInside` says when.
`CopyKeys` is the argument of `avlNewTree`.  Every caller of the program passes a
value other than 0, so `TRUE` is the mode that counts; `FALSE` is the one the author of
the tree had in mind.  Both implement `OrderedMap`, with `KeysStay` telling them
apart: when keys stay, a removal may be a `Displace`, which puts the data of the
neighbour below under the removed key and drops the neighbour's.  That this is all that goes
wrong is what `ImplementsMap` shows; that it does go wrong is `avl_container`
([Disagreements](#disagreements)).
The runs take the comparison of the container, with a range of 16 for 2^32: a difference
cut to an `int`, which orders addresses as long as they span less than half the range.
That is what `CmpAssumption` asks; the proofs take any such order.

### LinkList, MemChunk and Deques

A ring is reached by its tail; its nodes are atoms of the chunk, which is one
record that the lists pass to `mc_alloc` and `mc_free_atom`.  So the refinement to
sequences and the accounting of the chunk are checked together.  `ll_merge` with
an empty destination returns with both mutexes locked; calls on a locked list are
not enabled.

### JSON

`JsonTokener` has one action per state of `json_tokener_parse_ex`, with the two
ways a case ends (`goto redo_char` and the next character) and the checks at
`out:`.  A text arrives in calls of any length.  `JsonGrammar` reads the same texts
by recursive descent.  The words are cut to two letters, and two letters stand for
the four digits after `\u`: the first says what they make (`H` and `L` the halves of a
surrogate pair, `X` any other character), so a call may end inside the digits, between
the halves, and in the `\u` between them.  `escape_unicode` and `surrogate` keep the
locals of that state apart (`num`, which every call starts afresh) from what the tokener
remembers (`st_pos`, `ucs_char`).  What the tokener does on more than the text is
recorded in `odd`, and `VerdictOfGrammar` is about the texts with nothing recorded:

- `"cut"`: a call ended inside a number or between the halves of a pair.  The first
  forgets where a sign may stand (`1-1` is refused, but taken for 1 when the first call
  ends behind the `1`; `json_tokener.c:672`), the second the high half (a call that ends
  behind the `\u` of the low half makes the next one refuse a text that is right, one
  that ends before it gives two replacement characters; `json_tokener.c:535`), although
  `json_tokener.h:138` says that a partial text can be continued with additional bytes.
  The server parses each datagram in one call, so neither concerns it.
- `"word"`: `-Infinity` is refused after another word or a `\u` escape, because `st_pos`
  is not reset.
- `"comment"`: a terminated text that ends in a comment inside an array yields an object.

`JsonObjects` lets a client create, share, replace and drop objects as `json_object.h`
allows.  `JsonCommand` is one client, the program, which does not keep to it.

## Runs

Each TLC run answers one question.  All of them stop where the process has ended
or no bounded number is left, hence `CHECK_DEADLOCK FALSE`.

| run | question | instance |
|---|---|---|
| `safety` | do the three records of control and the registry agree in every interleaving; who gets, keeps and loses control, step by step; does it refine the lock? | 3 connections, 3 addresses, limit 1, sequence 0..3, 2 servos; symmetric |
| `live` | do unregistered connections and silent clients go away, does the silence of a controller end in failsafe, do clients learn who controls? | the core with the telemetry: 2 connections, 2 addresses, limit 1, sequence 0..3, 1 servo, 1 observer |
| `devices` | the sum of three parts, below | |
| `library` | the sum of nine parts, below | |
| `release`, `hello`, `failsafe_cdc` | see [Disagreements](#disagreements) | 2 connections, 2 addresses, 1 servo |
| `reactor_stale` | see [Disagreements](#disagreements) | 2 timers, 2 permanent descriptors |
| `rpi_full` | see [Disagreements](#disagreements) | 2 servos |
| `avl_container`, `json_put` | see [Disagreements](#disagreements) | 3 keys; 1 datagram of up to 5 fields |
| `servod_narrowing` | see [Disagreements](#disagreements) | a cycle of 4 samples, widths 1 and 4, no idle timer |

The runs `devices` and `library` explore several modules side by side.  A variable `part` says which of
them a behaviour belongs to; only that one takes steps, so the states are the sum
and not the product of the parts, and no property relates two of them.

| part | checked | bounds |
|---|---|---|
| `linino` | `TypeOK`, `DeviceFollows`, `DutyCycleIsRepaired`: does a reliable channel follow the commands, does the refresh repair failed duty cycles? | 3 servos, 2 channels, 1 unreliable, period 4 |
| `rpi` | `RPiTypeOK`, `WidthFollows`, `WidthIsRestored`: is an output ever somewhere else than commanded, does the refresh survive a restart of `servod`? | 3 servos, period 4 |
| `reactor` | `ReactorTypeOK`, `WakesAreGenuine`, `StaleIsNotReused`, `EveryReadyHasItsTurn`: can a batch overrun the array, wake a callback for nothing, or reach a new owner; does every ready descriptor have its turn? | 3 timers, 2 permanent descriptors, batches of 3 |
| `avl` | `AvlShape`, `WalksAgree`, `ImplementsMap`, `CurrencyLostOnlyInside` | 5 keys, with `CopyKeys` as in the program; both kinds of rotation and inner removals; addresses around the highest one.  A loss of height that goes up two levels takes 7 keys: the proofs cover it |
| `list` | `ListsAreSequences`, `ChunkAccounts` | 2 lists, 3 nodes, 3 areas of 2 atoms: an area is marked while another is current, one is in reserve when another comes back |
| `heap` | `HeapOrder` | 6 elements of 3 values, growing by 2 |
| `btree` | `SearchTree` | 5 nodes of 3 values, so with equal data |
| `dlist` | `RingIntact` | 4 nodes |
| `hash` | `OrderKept`, `IteratorSeesAll` | 4 keys that collide, table of 3 to 12 slots: two resizes |
| `tokener` | `VerdictOfGrammar`, `RoundTrip` | every text of 4 or 5 characters over seven alphabets, and strings built of escapes and halves of pairs, in calls of any length, strict or not, several texts with one tokener; depth 3; what is written of 43 documents in four layouts |
| `objects` | `ReferencesCounted` | 3 objects, 1 field, arrays of 2, 2 references a client |
| `servod` | `PulsesAreWhole`, `OffWhenReset` | a cycle of 4 samples, 8 commands in the three units and both signs; the pulse wraps around the end of the cycle and may be the whole of it |

Why the bounds are enough:

- Two addresses give a controller and a competitor; a third connection object
  gives two connections of one address at a time (a registered one and one the
  container does not find), or an orphan beside two clients.
- A node of the tree has two children only with three addresses: two cannot show what
  an inner removal does, so `safety` has three.
- Sequence numbers up to 3 are the least with which one client can say hello,
  control, fall into failsafe and say hello again.
- `MAX_TIMEOUT_TIME` is 3.  With 1 a counter is below and at the limit; 2 adds a
  state in between that a datagram resets.
- The batch limit is below the number of descriptors, so that a wait leaves some
  of them for the next one.
- One observer is enough, as what it is shown depends on no other.
- The refresh period is larger than the number of servos, as 50 > 8, so there are
  calls that refresh nobody.
- The vectors contain an empty one, one shorter than the servos, one with a
  servo switched off before another, and the largest channel value.

Fairness:

- `ServoController!FairSpec`: weak fairness of each connection's timer tick.
  The timers are periodic and level triggered, so an expired timer stays ready
  until it is read, and the reactor gives every ready descriptor its turn:
  `EveryReadyHasItsTurn` says so in the run `devices`, with the batch limit and
  under a flood of datagrams.  Nothing is assumed of clients.
- `Telemetry!TeleFairSpec`: the same timers, and strong fairness of a report that
  is delivered to each observer.  The telemetry's timer is as periodic as the
  others; that the network lets a report through again and again is an assumption
  about the network, without which no client could learn anything.
- `Reactor!ReactorFairSpec`: the thread keeps running its loop.
- The drivers' `FairSpec`: commands keep coming.  A client in control sends one
  every 20 ms (`test/RCSimulator/RCClient.c:201`, `Tools/JoystickController`).
  The properties under it say what happens while it does.
- `MCDevices!DevicesSpec` states the last three for the part that runs.

Every property of a passing run comes with a mutant, an operator next to the
definition it alters (marked *Mutant*), under which TLC finds the property
violated: a forgotten callback in a table row, two callbacks swapped, a guard
dropped, a counter off by one, a refresh left out.

## Proofs

TLAPS proves for every value of the constants, under the assumptions named in the
modules:

- `None` is neither a connection nor an address, the limits are natural numbers, a
  vector has at most one value per servo;
- the refresh period is positive, and the channel values of the Linino driver end at
  1000, which keeps its products within 32 bits;
- `ServodAssumption`: the cycle has a sample at least, pulses start in it, and the
  largest width is no more than it, as `main` makes sure;
- `NodeAssumption`: `NULL` is no node; `HeapAssumption`: the values are numbers and the
  increment is positive;
- `HashAssumption`: hashes are natural numbers, the three special values are no keys
  or slots, and a table starts with three slots at least.  The code starts with 16
  (`JSON_OBJECT_DEF_HASH_ENTRIES`).  With one or two the load factor of 66 % lets the
  last slot be taken, and `OrderKept` says that one is always left;
- `ChunkAssumption`: `NoArea` is no area, and an area has room for an atom;
- `TreeAssumption`, `CmpAssumption`: the keys are finitely many, the special values are
  none of them, and the comparison orders them;
- `ObjectsAssumption`: `NoObject` is no object, and objects and fields are finitely many.

| module | theorems |
|---|---|
| `ServoControllerProofs` | of every state: `TypeCorrectness`, `ControlIsExclusive`, `RegistryIsConsistent`, `FailsafeIsHeld`, and with two addresses `TwoClientsKeepTheAssertion`; of every step: `AssertionHoldsUntilStray`, `ControllerImplementsLock`, `LostControlIsForever`, `ControlIsNotStolen`, `OnlyTheControllerMoves`, `FailsafeEndsOnlyByItsClient`; of the telemetry: `DisplayIsCoherent` |
| `ServoDriverLininoProofs` | `TypeCorrectness`, `ReliableDeviceFollows`, `StateFileIsAlwaysCurrent` |
| `ServoDriverRPiProofs` | of the driver: `TypeCorrectness`, `OutputsFollow`; of `Servod`: `ServodInvariant`, `ServodTypes`, `WholePulses`, `OffAtReset` |
| `ServoChannelsProofs` | lemmas of both: what a vector and the refresh counter may become |
| `ReactorProofs` | `TypeCorrectness`, `WakesGenuine`, `StaleEventsStayStale` |
| `ContainerProofs` | of `DList`: `DListInvariant`, `RingStaysIntact`; of `Heap`: `HeapInvariant`, `HeapIsOrdered`; of `LinkHash`: `HashInvariant`, `OrderIsKept`, `IteratorComesToAll`; of `JsonObjects`: `ObjectsInvariant`, `ReferencesAreCounted` |
| `ListProofs` | `ListInvariant`, `ChunkAccounted`, `ListsRefineSequences` |
| `AvlTreeProofs` | `TreeInvariant`, `ShapeInvariant`, `WalksInvariant`, `MapImplemented`, `CurrencyTheorem` |

**The core.**  None of its invariants is inductive alone.  That control is
exclusive needs the registry (A4 removes the entry of the sender's *address*,
which must be the connection itself); the registry needs that the process runs
(after an inner removal an entry is wrong, after a failed assertion one would be
overwritten); that failsafe is
held needs exclusiveness (or the active client could be another one than that in
failsafe).  `IInv` is their conjunction with the types and `LiveHasAddress` (an
allocated connection has an address).  The proof goes in three layers:

1. The table of `ConnectionFsm` is reduced: for every state and event, which
   callbacks run (`TableCalls`) and which state results (`TableStates`).
2. `EventContext` collects what holds whenever an event is executed; one
   lemma per event and conjunct shows that `ExecuteEvent` preserves it.
3. One step per action puts these together; datagrams differ only in the event
   and in the servos.

`ControllerImplementsLock` uses `IInv` as the refinement's invariant: each action maps
to `Acquire`, `Command`, `FailSafe`, `Release` or `Lose`, or to a stutter.  That
lost control stays lost, and that control is not stolen, follow from the same
case analysis.  So does `OnlyTheControllerMoves`: besides an accepted
cdc only a timeout in `CONN_ACTIVE` runs A6, and a cdc in `CONN_FAILSAFE` is not
passed to the FSM because exclusiveness says that the system FSM is not idle.

**The stray key.**  What is proved of the registry and of the assertion is proved up to
the first inner removal (`process = "running"`), for any number of addresses, as in the
code it is false afterwards.  `AssertionHoldsUntilStray` says that the several
connections of one address do not make the assertion fail; `TwoClientsKeepTheAssertion`
that nothing does as long as clients come from two addresses, since no removal finds
two others beside the one removed.  Everything else is proved without that condition but
means no more, as the handlers are not followed beyond it.

**The telemetry.**  The core composed with the telemetry satisfies the core's
specification (`TelemetryOnlyWatches`, a lemma), so `IInv` holds there too.  The list of
clients is made from the container and `activeip` from the active connection; that an
addressee is listed exactly once needs the registry (the active connection is the one
the container has for its address), which `IInv` provides.  `ShownIsCoherent` is
stated of the last report shown, and is proved together with the types of the report.

**The Linino driver.**  `DeviceFollows` says that an enabled channel has a
period, which holds because `InitServos` runs before the first write and its
writes to a reliable channel succeed.  `IInv` adds that the channels are
configured once `isInit` is set, that every servo is off before, and that failures are
confined to `Unreliable`.

**The Raspberry Pi driver.**  `WidthFollows` is inductive with the types of the
vectors.  Below full deflection the conversion yields a width `servod` accepts
(`ConversionIsAccepted`), so every servo a call updates ends up at its width; a
call that fails half-way has updated a prefix of them, and `oldChannels` follows
for the same prefix (`SettingKeepsIInv` covers both).

**The reactor.**  Only the callback of the control socket allocates a block or
frees one that is not its own, and the socket comes up at most once in a batch.
So the invariant is `NothingIsStaleBeforeTheSocket`: while the socket is still to come,
every event left is registered.  With it, a block allocated by the socket's
callback cannot be one that a waiting event points to, as it was free when the batch was
taken.  `WakesAreGenuine` rests on the ready list and the batch having no
duplicates: a callback that is called takes its own entry off the ready list only.
`Unready`, which removes an element of the list, is not recursive for this reason.

**The pulses.**  Samples are counted from the start of the pulse (`D`), so that the
wrap around the cycle appears in three lemmas only.  The invariant has five parts.
`MaskInv` says which turn-off bits are set at every store of `set_servo`: those from the
width on, and between the two widths those that the loop has not cleared yet or has
already set.  `ForcedIsFull` reads off it that the idle timer reaches `gpio_set` only with
all bits of the cycle cleared.  `JobInv` ties the loop's counter to its pointer.  `PulseInv` says that a
pulse that is on has been on for as long as the DMA controller is past its start,
and that the next turn-off it meets is no later than a width asked for since it began,
unless it is the whole cycle.  `SleepInv` counts control blocks: while `terminate`
sleeps, each turn-off that is set is fewer blocks ahead than are left to wait.  A signal
voids `MaskInv` (the bits are then those of no width), so the parts about pulses are
stated for a program that is not being ended, as `PulsesAreWhole` is.

**The ring.**  `RingIntact` speaks of what a walk along `next` finds.  The invariant
says instead that the two links are inverse and that no set of nodes but the set of
all of them is closed under `next` and holds the caller's node.  `Inserted` and
`Removed` follow that through one change of the links, for any set; no induction
along the ring is needed, and the set of nodes a walk finds is one such closed set.

**Repeated steps.**  The library's induction theorems take an operator as a parameter,
which the provers cannot instantiate.  `NatInduct` states induction for a set of
numbers instead (its complement has no least element), from well-foundedness, and
`IteratedIn` from it: when `F` leads from each of a family of sets `P[n]` into
`P[n + 1]`, then `k` steps lead from `P[0]` into `P[k]`.  A loop of the code is such
an `F`, and what it has done after `k` rounds is such a family.  The loops of the code are
written with `Iterated` for this reason.

**The heap.**  During a sift the array is in order but for the element that moves, and
what is above it is in order with what is below it (`UpOrder`, `DownOrder`; `Rising` and
`Sinking` are the families in the number of steps).  A deletion keeps the heap when the last element, which takes the
place of the deleted one, is below it; otherwise `sideways` is set and the invariant
only keeps sizes.

**The hash table.**  `TableInv` says that some sequence of slots holds the keys in the
order of their insertion and is linked both ways, that no other slot holds a key, and
`Findable`: among the slots that are probed for a key before its own, none was never
used.  A deletion leaves its slot `FREED` and not `EMPTY`, which is why the second
survives it.  An insertion needs a slot that is not in use, which the load factor
guarantees (by counting the slots).  A resize is a sequence of insertions into an empty table,
with the keys of the old list in their order as its family of sets.  A walk along
a link gives the sequence of slots, as the list does not come back to a slot.  For
the iterator, `IterInv` says that it is at the entry after the first `p` keys of the
order, for some `p`; a deletion of an earlier key moves `p` down, an insertion lengthens
what is due.

**The chunk.**  `Accounts` is not inductive alone.  `Books` adds what the code relies on
when it follows a pointer: the current area and the reserve are areas of the chunk, every
atom lies in the carved part of its area, and a marked area has an atom on the free list
(or nothing would ever give it back).  `Books` is stated of two sets, the atoms in use and
the free ones, and not of the free list: inside `mc_alloc` and `mc_clean` the list runs
short of the atoms still to be looked at, and the books hold for the sets at every round
(`SkipMarked` and `Sweep` lead from one member of a family into the next).  Each operation
changes the state of one area, and `ChangedBooks` reduces the rest to that area.

**The lists.**  `Ring` says that a sequence of nodes, each once, is what following the
pointers gives, with the tail last.  `ListInv` says that every list has one, that no
two share a node, that no node in use is on none, and that the nodes are the atoms of
the chunk that are in use: a node that was freed and is still linked, or one that two lists
got from `mc_alloc`, would break it.  There is one lemma about rings for each operation
(a node after the tail, a node out, tail moved on, pointers reversed, two rings cut and
joined), and `OneList` and `TwoLists` carry the other lists along.  `ListsRefineSequences` then
maps each call to the one of `Deques`: the data along the ring before and after are what
the sequence operators say.

**The tree.**  `AvlShape` and `WalksAgree` say what recursions and loops along the links
come to, about which nothing can be shown from one state to the next.  `TreeInv` says
that the root is the link of a *branch*: `Sub(t, r, S, h)` holds when the nodes below the
link `r` are `S`, in order, with parents and balances that agree, and `h` deep.  These
triples are the least set that has the empty branch and is closed under joining two
below a node (`SubInduct`), which does for induction over trees what `NatInduct` does for numbers.
There is a lemma about branches for each thing the code does: a rotation; a leaf put in
and the way back that restores the balances; a branch that lost height and the round of
the fix-up that repairs its parent; a node that takes the name of its predecessor, which is
how the inner removal reads when nodes are named by their keys.  A loop carries such a
fact from round to round, a path upwards at most; as a branch is no deeper than it has nodes,
the number of nodes bounds every loop.  From a branch the walks
follow: the search ends at each of its nodes and at no others, and the neighbour of a node,
found through links or parents, is the next key in order.
All of them hold with and without `CopyKeys`.  `MapImplemented` maps an inner removal
to the removal of the map when keys move with the data, and to `Displace` when they
stay, as in every tree of the program.

**The objects.**  `RefInv` says that the count of an object is the client's references
and the entries of members that hold it, that a freed object has no entries left, and that
no object is inside itself.  The two calls that release and then write break it in
between, in two ways that the proof names: a reference that was given up is still
`Owing` until its object is counted down, and the entry that is about to be overwritten
counts for nothing any more while `json_object_put` takes the old value apart.  Releasing
the members of one freed object can free the next; each round takes one entry away
(`OneLess`), so as many rounds as there are entries are enough, and none touches an
object outside what the released one reaches (`Draining`).  What lives is what
the client can reach because no set of objects can keep itself alive: every object of
such a set would be a member of another one in it, against `Acyclic`.  That the client never hands over
a container to something inside it (the guard of `Hands`) is what the proof asks of it besides
the ownership rules of `json_object.h`.

Only proved, and in no run of their own: `StateFileIsAlwaysCurrent`,
`TwoClientsKeepTheAssertion` and `DisplayIsCoherent`.  The theorems of
`ServoDriverRPiProofs` are about `ServoDriverRPi`, which the run `devices` takes as an instance.

Only model-checked:

- all liveness (`UnregisteredFreed`, `SilentClientIsForgotten`, `SilenceEndsInFailsafe`,
  `ClientsLearnWhoControls`, `EveryReadyHasItsTurn`, `DutyCycleIsRepaired`,
  `WidthIsRestored`), which is out of the prover's reach;
- `SearchTree`: `BTree` has no caller, and is written with recursion along both links;
- `VerdictOfGrammar` and `RoundTrip`: the grammar is recursive in the text.

## Disagreements

1. **Control gets lost** (`release`, `ControlReleased`; `ConnectionFsm.c:120,128`).
   A rejected datagram (a duplicate is enough) in `CONN_ACTIVE` or
   `CONN_FAILSAFE` runs A4 and A5 but not A3.  The active connection is gone and
   the system FSM stays in `SYS_CONTROLLING`, so no cdc reaches an FSM again.
   `SystemFsm.h:50` says the transition to passive "must be called when the active
   connection becomes inactive".  `LostControlStaysLost` shows, and
   `LostControlIsForever` proves, that nothing repairs this but a restart.
2. **A hello does not set failsafe** (`hello`, `HelloSetsFailsafe`;
   `ConnectionFsm.c:117`).  `ConnectionFsmTest.c:173` expects A6; the table has A3
   only.  The test reads past its array and does not notice.
3. **Stale events** (`reactor_stale`, `OnlyPollListIsCalled`;
   `base/Reactor.c:154`).  A datagram that deletes a connection whose timer is
   later in the same batch leaves a pointer to a freed `PollData_t`, which the
   loop reads.  `Reactor.h:67` promises callbacks for descriptors in the poll list.
   `StaleIsNotReused` shows the damage is bounded: the block is not yet
   allocated to another connection.
4. **Full deflection is out of range** (`rpi_full`, `ServodAcceptsPosition`;
   `ServoDriverRPi.c:37`).  Channel value 1000 becomes width 1000, which `servod`
   ignores; the servo stays where it was.
5. **A connection under another's address** (`avl_container`, `FoundUnderOwnKey`;
   `ConnectionContainer.c:111`).  `avlNewTree(IpCmp, sizeof(UINT32), 0)` passes the
   size of a key where the third parameter is meant; the second is
   `copy_keys`.  With it set, the removal of a node with two children moves the data of its
   predecessor into it and not the key (`avltree.c:539`), because the code that
   copies keys is compiled out.  `avltree.c:57` warns that the tree "works as long
   as ULAF uses the avlNewTree() with copy_keys=0".
   A consequence: in the container the key that stays points into the connection that is
   freed.  With three clients, the one at the inner node is deleted (a stale datagram
   does), an address that is not registered says hello, its connection is allocated where
   the freed one was, and the search before the insertion finds its own address: the
   assertion of `ConnectionContainer.c:151` ends the process (`StrayKeyIsFound`).  The
   search reads freed memory; another allocator gives another outcome.
6. **Objects released twice** (`json_put`, `NoneReleasedAfterDeletion`;
   `Connection.c:126`, `MessageSinkCdc.c:36,39`).  What `json_object_object_get` and
   `json_object_array_get_idx` return is put; the put of the whole message then
   releases it again.  `json_object.h:283`: "do not do json_object_put unless you have
   done a json_object_get".
7. **A cdc does not end failsafe** (`failsafe_cdc`, `CdcEndsFailsafe`;
   `Connection.c:102`).  The row of the table for a cdc in `CONN_FAILSAFE` leads to
   `CONN_ACTIVE` (`ConnectionFsm.c:125`), `ConnectionFsmTest.c:200` sends one there, and
   `Connection_States.uxf:235` draws an arrow between the two states (labelled `CONN_E1`,
   which the legend calls a hello; `CONN_E2` is the cdc, "and System State machine is in
   SYS_IDLE state").  The caller passes a cdc on only in `SYS_IDLE`, when nobody is in
   `CONN_FAILSAFE`, so the row is never used: the owner has to say hello
   (`FailsafeEndsWithOwnDatagram` shows that nobody else ends its failsafe).
8. **A narrowed pulse may have a third width** (`servod_narrowing`,
   `PulsesAreOldOrNew`; `ServoBlaster/servod.c:489`).  The turn-off bits of a narrower
   width are set from the new width upwards, while the DMA controller may be past the first
   of them.  `servod.c:452` says that a pulse will only ever have "the old width
   or the new width", whether it is increased or decreased.

Also seen, and true of the models, though no text says otherwise: as long as the owner
in `CONN_FAILSAFE` says nothing, nobody else can take control; on the Linino a failed write of
`enable` is not repeated while the servo stays on; and a controller that says hello and falls
silent afterwards leaves the servos at its last command (2), which is why
`SilentClientIsForgotten` says nothing of the servos.

In the library parts: `hp_delete` moves the last element into the hole and only lets it
sink, so an element of another branch may stay above a parent that is larger;
`HeapOrder` holds as long as every deleted element was above the last one, as the root always is.
`bt_delete` gives the root's node back to the chunk, whatever the key, while the tree
keeps pointing to it; `dl_append` puts an element first and `dl_prepend` puts it
last, and `dl_delete` may return a node it has just freed;
`hp_empty` answers the opposite of its name.  `ll_merge` into an empty list leaves
both mutexes locked.

## Not modelled

- The RTSP server: a vendored process of its own that shares no state.
- The console, traces and log files: they print and change trace levels.  Signal
  handlers: they end the process.
- Start-up (`main.c`, command line, opening the socket): straight-line, before the
  reactor runs; a failure ends the program.
- Client programs (`test/RCSimulator`, `Tools/`) and packaging.  Datagrams arrive
  arbitrarily in `ServoController`, whoever sends them.
- Of `json-c`: conversions between types, files, `printbuf`, sorting of arrays.
  Of the AD library: `mc_free` (it unlocks a mutex through `NULL`; no caller),
  traversals of `btree.c` other than in order, freeing whole heaps and trees.
- Of `servod`: command line and pin lists, registers and memory of the DMA
  controller, and the mapping between boards.
- Failed allocations, everywhere: the program does not check most of them.

## Plan

Done: the core (`ConnectionFsm`, `SystemFsm`, `ServoController`, `ControlLock`),
the reactor, the drivers, `Telemetry`, the tree, the lists and their chunk, the
other containers, the JSON library and what the program does with it, `servod`.
Proved: the core's safety and its refinement, the telemetry's display, the drivers,
the reactor, `servod`'s pulses, the ring, the heap and the hash table, the lists with their
chunk, the reference counts of the JSON objects, and the tree.
Next, in this order:

1. `RemoteControl`: a client with its own sequence counter and restarts, and a
   network that loses, duplicates and reorders, composed with the core; a client
   that is alone and keeps saying hello gets control, where the code lets it.
2. The width of sequence numbers: `int` read as `UINT32`.
3. Whose failsafe positions are put out: what a controller inherits when it sends none.
4. Proofs about the rest of the library: that the tokener's stack is never left
   (`JsonTokener`), and the order of `BTree`, with branches as in `AvlTreeProofs`.
