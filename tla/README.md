# SNMP--DemoTest in TLA+

A verification development for the network scanner under `scanhost/` of this
repository.  The program pings a range of IPv4 addresses, traces the routes to
hosts, and is meant to turn both into a topology; beside it, under `TestCip4/`,
lies a first SNMP client with the headers of the SNMP++ library it is linked
with.  As far as these headers hold code, and the binary library does not, they
are modelled too.  The C++ files are GB18030 encoded
(`iconv -f gb18030 -t utf-8 FILE`); line numbers below are theirs.

## 1. Inventory

| Component | Source | State | Operations |
|---|---|---|---|
| Active-host scanner | `scanhost.cpp`, `scanhost.h` | globals `sockRaw`, `dest`, `from`, `recvbuf`, `IP1`, `IP2`, `ThreadNumCounter`; the static string `Scanhost::result` | `setIP1`, `setIP2`, `make`; thread body `FindIP` with `decode_resp` |
| Route tracer | `tracert.cpp`, `MyTrace.h` | locals of `tracert` (`reach`, `max_hop`, `ttl`, `seq_number`, `result`, the receive buffer); the static string `TraceRT::route` | `tracert`, `decode` |
| String splitter | `StringSpilt.cpp` | locals | `split` |
| Host list initialisation | `init.cpp`, `getMyIP.cpp` | the vector `v` | `init`, `getMyIP` |
| ICMP checksums | `scanhost.cpp` 59-74, `tracert.cpp` 168-183 | none | `checksum`, `chechsum` (the same algorithm twice) |
| Main program | `main.cpp` | the objects `sc`, `tr` | trace, then split of `getMyIP() + "-" + route` |
| SNMP GET client | `TestCip4/TestCip4/test.cpp` 10-45 | locals | one `Snmp::get` |
| SNMP++ class tests | `*Test.cpp`, `SnmpTargetTset.cpp` in the root | locals | getters and setters |
| Collections | `snmp_pp/collect.h` | `count`, the chain of blocks | append, replace, remove, copy, clear |
| Object identifiers | `snmp_pp/oid.h` | array and length | assign, append, trim, compare |
| Default logger | `snmp_pp/log.h`, `reentrant.h` | static `instance`, `entry`, `mutex` | `LOG_BEGIN`, `LOG`, `LOG_END`, `init`, `init_ts`, `cleanup` |
| Value classes | `snmp_pp/integer.h`, `counter.h`, `gauge.h`, `timetick.h`, `ctr64.h`, `octet.h`, `oid.h`, `address.h` | value, validity, printed text and whether it is out of date | assign, write a part, clear, print |
| Variable bindings | `snmp_pp/vb.h`, `pdu.h` | the value a `Vb` points to, the array of a `Pdu` | set, copy, clone, append, delete |
| Other library headers | `TestCip4/include/**`, `TestCip4/lib` | - | declarations, DES headers, a binary library |

How they interact.  `make()` and the threads it creates share the raw socket,
the receive buffer, the sender address, the thread counter and the list of
hosts, without any lock; the counter alone is touched by interlocked
operations.  `make()` and `tracert()` each open a raw ICMP socket, and a raw
ICMP socket receives every ICMP packet of the host, so the two and any other
program's pings meet there.  `init()` and `main()` consume what the scanner and
the tracer leave in their static strings, by way of `split()`; today `init()`
uses a literal list in place of `Scanhost::result`, and nobody calls it.
The SNMP client is a program of its own.  It builds a `Pdu` of one `Vb`, hands
it to `Snmp::get()` and prints the value that the `Vb` holds afterwards;
`Snmp::get()` sends the request again after a time-out, and answers travel over
UDP.  The library's classes share no state with each other, except that a `Pdu`
holds `Vb`s; threads of a program that uses the library share its logger.

What is hard in each of them, and what has to hold:

* **Scanner.** A thread is started per address and terminated after a busy-wait
  of 60,000,000 iterations, wherever it is then: before its first instruction,
  inside `recvfrom`, inside the statement
  `Scanhost::result = Scanhost::result + str1 + ";"`, holding the heap lock.
  Replies are late, repeated or somebody else's.  The list must contain only
  hosts that answered, once per probe, in order; the throttle must do its work;
  a range must be scanned once; the call must end.
* **Tracer.** Up to 30 probes with growing TTL are told apart by a sequence
  number; answers come late, repeated or not at all, and `decode()` reads inner
  headers it has not checked the presence of.  A listed hop must be a router on
  the path at that distance, the destination must come last, the call must end.
* **Splitter, initialisation.** Index arithmetic around separators and around
  an element erased in a loop.
* **Main program.** The route passes through a string; no address may be cut or
  glued to its neighbour.
* **SNMP client.** Only an answer to this request may be printed, and the
  request must end whatever is lost.
* **Collections.** Two ways to find the next slot, by division and by a slot
  number kept beside the count, have to agree at every boundary of blocks.
* **Object identifiers.** An `Oid` may be its own operand while its array is
  replaced; the order must hold for any lengths and any limit.
* **Logger.** One entry for all threads, filled between two macros that take
  and release the mutex; a pointer read without it.
* **Value classes.** A cached text must never be older than the value.
* **Variable bindings.** Each value must have exactly one owner.

## 2. Modules

| Module | What it is |
|---|---|
| `HostScan` | the scanner: `make()`, its threads, the network |
| `ActiveHostLog` | what the scanner promises about its list |
| `MCHostScan` | who answers whom, and thread identifiers, for TLC |
| `HostScanProofs` | theorems about `HostScan` |
| `TraceRoute` | the tracer and the network |
| `MCTraceRoute` | a network of five hosts for TLC |
| `TraceRouteProofs` | theorems about `TraceRoute` |
| `Split` | `split()` |
| `InitList` | `init()`, which EXTENDS `Split` and runs it as its first statement |
| `InitListProofs` | theorems about `Split` and about `InitList` |
| `MCInitList` | strings and local addresses for TLC |
| `Checksum` | `checksum()` and `TraceRT::chechsum()`, which are the same algorithm |
| `ChecksumProofs` | theorems about `Checksum` |
| `MainProgram` | `main()`: EXTENDS `TraceRoute`, and runs an instance of `Split` on the route |
| `MainProgramProofs` | theorems about `MainProgram`, on top of `TraceRouteProofs` |
| `MCMainProgram` | a network of five hosts and their texts for TLC |
| `GetClient` | `main()` of the SNMP client |
| `ItemLists` | what a collection promises |
| `SnmpCollection`, `SnmpCollectionProofs` | the chain of blocks; theorems about it |
| `OidValue`, `OidProofs` | the class `Oid`; theorems about it |
| `DefaultLog` | the logger and its threads |
| `PrintedValue` | the value classes: value, two halves of a `Counter64`, printed text |
| `VariableBindings` | `Vb`s, a `Pdu`, and the values they own |
| `MCLibrary` | the parts that share no state side by side, and values for TLC |
| `LibraryProofs` | theorems about `GetClient`, `DefaultLog`, `PrintedValue`, `VariableBindings` and all the parts together |

Each module also holds a few operators that stand next to an action and differ
from it as a plausible mistake would (`StartWorkerPastEnd`, `CompareStuck`,
...).  No specification uses them; they are named in the `mutants` of
`PROJECT.json`, which puts them in the action's place to see that the property
in question is violated then.

### HostScan

`mpc` is the control state of the caller's thread and `wpc[t]` that of thread
`t` in `FindIP`.  Actions and code:

| Action | Code (`scanhost.cpp`) |
|---|---|
| `SetIP1`, `SetIP2` | 131-143 |
| `Make` | 150-196: socket set-up, any failure of which ends the process; the bounds of the range |
| `StartWorker` | 198-218: loop condition, throttle, `new`, `CreateThread` (which may fail) |
| `TerminateWorker` | 219-222: end of the busy-wait, `TerminateThread` |
| `Advance` | 223-227 |
| `Return` | 199, 228-234 |
| `Enter`, `Send`, `Receive`, `ReceiveFails` | 76-87, 88-112, 113-114, 115-124 |
| `Discard` | 43-52, the early returns of `decode_resp` |
| `Concat`, `Concatenated`, `AssignClear`, `AssignStore` | 54-55 |
| `Leave` | 127-128 |
| `EchoReply`, `ForeignPacket` | the network, external |

Line 55 is one statement in C++ and four steps here.  A new string is built
from the old list while the heap is locked (`Concat`, `Concatenated`), then
move-assigned: the target is emptied (`AssignClear`) and takes over the new
buffer (`AssignStore`).  A thread may be terminated between any two of these.

An address is a number in host byte order, `0..MaxAddr`, so that
`htonl(htonl(startIP) + 1)` is addition modulo `MaxAddr + 1`.  `inet_addr` of a
string with an octet out of range is the all-ones address.  The 16-bit
identifier of a thread is the constant function `IcmpId`; that two of them, or
one and another program's, may coincide is why `OwnAnswer` has the premise
`DistinctIds`.  An entry of the list carries, as history, the thread that made
it.

What the abstraction rests on:

* `TerminateThread` takes effect at once; a request to a thread of higher
  priority could be delayed by the scheduler.
* Only the allocation on line 55 and the `new` on line 207 contend for the heap
  lock; releasing memory would be a second place where a termination leaves it
  locked.  The list is taken to be longer than the 15 characters a `std::string`
  holds without the heap.
* `new` throws rather than return null, so lines 208-213 are dead; `Sleep(5000)`
  and another look at the counter (201-205) is a stuttering step, as nothing
  that `make()` itself does could change the outcome.
* A thread that is killed while the string's move assignment runs finds the list
  as it was, empty, or as it is to be; a killed move that leaves the pointer of
  one string and the length of the other is an empty list here.
* Thread identifiers are not reused in a run, as the handles stay open.

### ActiveHostLog

A log of addresses in which turns are taken, and in each turn at most one
address is appended; the log may be lost as a whole.  `HostScan` implements it
with `log <- HostList`, `turn <- created`, where `HostList` is
`Scanhost::result` as it will read once the thread that is assigning to it is
through: the empty string between `AssignClear` and `AssignStore` is not a
state of the log unless the thread is terminated there, which is `Lose`.

### TraceRoute

`Tracert` is lines 10-92, `SendProbe` 93-121, `Receive` 123-138, `TimeOut`
139-143 and 155, `ReceiveFails` 145-152, `Complete` 158-162.  `decode()` is
`Decodes`: a packet is a record of its kind, identifier, number and sender.  A
time exceeded message without the copy of the probe (`"cut"`) makes `decode()`
read what the buffer holds there already: `leftover`, which `Leaves` updates
with every packet received.  Bytes of another packet's payload are assumed not
to spell the process's identifier; `setsockopt(IP_TTL)`, whose result the code
ignores, is assumed to succeed.  `max_hop` is the value the next iteration
starts with; the code leaves it at -1 after the last one, where nobody reads
it.  The string `route` survives the call, as it does in the code.

### Split and InitList

A piece is the pair of indices between which `substr` cuts it, so that
`SplitExact` can speak of what is between pieces.  The two inner `while` loops
are the control states `"skip"` and `"scan"`.  In `InitList` the reads past the
end of the vector that `i != v.size()` allows are the state `"overrun"`, after
which the program's behaviour is undefined and the model stops; a null result
of `gethostbyname` is the state `"crashed"`.

That the erasing loop loses no other host is stated with a map `from` from the
entries of the vector to the hosts of the list (`Keeps`): it is increasing, an
entry equals the host it comes from, and every host but the local one is hit.

### Checksum

One action per statement: `AddWord` and `LastWord` are the loop, `AddByte` the
odd byte (always absent here: both callers pass 40 bytes), `Fold1`, `Fold2` and
`Return` the last three lines.  `cksum` is an unsigned long, so sums are taken
modulo `Radix^2`.  The history variable `ones` is the sum as RFC 1071 defines
it, with the carry added at the bottom after each addition; the code adds the
carries up in the upper half instead.

### MainProgram

`CallTracert` is `main.cpp` 20, the steps of `TraceRoute` follow, `Join` is
line 22 with `getMyIP()` (whose null pointer is the state `"crashed"`),
`SplitStep` line 23, `PrintHosts` lines 24-26.  The string `TraceRT::route` is
the variable `routeText`, beside the sequence of hops that `TraceRoute` keeps of
it; it grows in the step that appends a hop (`tracert.cpp` 135).  `Text[h]` is what
`inet_ntoa` writes for a host;
all that is assumed of it is that it is not empty and has no dash.  Two hosts
may have texts that put together read like a third one, so that only the dashes
keep addresses apart.

### GetClient

`OpenSession` is `test.cpp` 14, `BuildPdu` 15-18, `MakeTarget` 21-29,
`StartGet` 30, `CheckStatus` 33, `PrintVb` 36-40.  What `Snmp::get()` does in
between is external: it sends, sends again after a time-out (`Resend`) as often
as the target says, gives up (`GiveUp`), or takes an answer with the id of its
request (`Receive`).  So is what `StartGet` does with a session without a socket;
of the program itself only the call is visible.  The network holds a set of answers, from which none is
ever taken: they are lost by not being received, and may be received late.
Answers to earlier requests may be there from the start.  The agent answers
each request as often as it likes, with the value it has at that time or with
an error.

### SnmpCollection and ItemLists

A collection is its `count` and a sequence of blocks of `MaxT` slots; the
pointers `next` and `prev` are the order of the sequence.  Slots that the code
leaves uninitialised or dangling are `Wild`; a loop that reads one goes to the
state `wrecked = "walk"`, an argument that leads to one to `"index"`, and
`set_element()` with a reference to the element it deletes to `"alias"`.  `new`
may return null, as the test after it in `+=` provides for: there the item is
left out (`NoBlock`), in `operator=`, which does not test, the null block is
followed (`"memory"`).  An item whose clone is refused is not modelled, as its
class decides what happens.  The
loop of `operator=` and the copy constructor (`LoadStep`) and the two of
`remove()` (`RebuildStep`, then `LoadStep` again) run one item at a time; the
collection `Rest` is the local variable of `remove()`.  `+=`, `clear()` and
`set_element()` change the chain in a single step, as nobody can look in
between.

`ItemLists` is what a user of the container sees: lists.  `SnmpCollection`
implements it with `lists <- Visible`, where a collection that is being loaded
already counts as a copy of its source: all steps of loops stutter, and
`remove()` takes effect when it has collected the other items.  A block refused
to `+=` leaves the list as it was.  One refused to `remove()` is the abstract
step `Refuse`, which changes only `short`; that `remove()` then keeps some of the
other items, in their order (`RemoveAndLose`).

### OidValue

`ptr` and `len` are the array and the length; freed and uninitialised memory
reads as `WildSub`.  `operator+=` is three steps, copying the own
subidentifiers and freeing the old array (`CopyOwn`), copying the operand
through its pointer (`CopyOther`), which is the new array by then if the
operand is this `Oid`, and adding the length (`Grow`).  `new` may return null,
as the code provides for.  `nCompare()` is its adjustment of the length
(`StartCompare`), its loop and its end; with one argument it is the case
`limit = -1`.  The operators `==` and `<`, which compare the lengths before and
after they call it, are `Equal` and `Less`.

### DefaultLog

`lpc[t]` is where thread `t` is in `LOG_BEGIN` (`FetchLogger`, `InitTs`,
`LogNeeded`, `LockLog`, `CreateEntry`), between the macros (`LogItem`) and in
`LOG_END` (`Publish`, `DeleteEntry`, `UnlockLog`).  `fetched[t]` is the logger
whose `log_needed()` the thread is about to call without the mutex.  The
library's own `init_ts()` is external; its comment and the call in `log()` say
that it makes a logger only if there is none, and that it may be called by
several threads.  The mutex may be taken again by its owner, as a Windows
critical section may.  `init()` runs before any thread logs, as its comment
demands; `cleanup()` runs at any time.  An entry remembers, as history, the logger
that made it (`from`): `LOG_END` must give it to that one (`EntryHasLogger`).
`create_log_entry()` and `log_entry()` both make an entry if there is none and use
the one there is otherwise (`UseEntry`).  Threads that log while they log are not
modelled.

### PrintedValue

An object of any of the value classes is its value, its validity, its text and
the flag `m_changed` (`addr_changed`).  A class is a record of the ways in
which it differs from the others: whether it checks for self-assignment, keeps
its value in halves, may be without a value (an address or an `Oid` after a text
that is none), keeps its value in an array inside the object, hands out
references or a pointer to it, prints in a style set for all objects, or erases
its text in `clear()`.  References to an array inside the object outlive an
assignment; those to an allocated one do not, and an `Oid` without its array has
none to give (`HasArray`).  `late` records that the value was last written
through such a reference or pointer after the text had been made.  One style
stands for the output type, the output function, the character for what cannot
be printed and the line feed of `OctetStr`; when its text is made again is in
the binary library (`Remake`).

The halves of a `Counter64` are of type `unsigned long`, of `LongRadix` values.
On Windows these are 32 bits, `LongRadix = HalfRadix`; where they are 64 bits,
`set_high()`, `set_low()` and the constructor from two halves store whatever they
are given.  The conversion to a number shifts and adds modulo 2^64.  `wide` is the
set of halves last given a number outside of the range that `ctr64.h` 84 and 85
document for them; `HoldsNumber` speaks of the objects that have none, also of
those that had.

### VariableBindings

`heap[o]` is the value object at address `o` and `place[p]` the `Vb` at place
`p`: 0 is a clone in the hands of the caller of `clone_value()`, then come the
`Vb`s of the `Pdu` and those outside it.  An address may be used again as soon
as it has been freed, so that a pointer kept by mistake finds another value.
`CopyVb` is `Vb::operator=`, which the header only declares: it is taken to clone,
as the copy constructor, which calls it, needs; assigning a `Vb` to itself is left
out.

## 3. Runs

| Run | Bounds | Shows |
|---|---|---|
| `scan_safety` | one call, addresses 1..3 of 0..4: a host, a silent address, a broadcast address that all other hosts answer; 3 threads; 2 packets in the socket; foreign packets | `OneWorker`, `NeverThrottled`, `OwnAnswer`, `ListedInOrder`, `ListedHostsExist`, `LossOnlyByTermination` |
| `scan_calls` | two calls over ranges of addresses 0..2 that may be empty, or end at an argument that is no address; 3 threads, fewer than addresses, so that `CreateThread` fails too | `TypeOK`, `ProbedOnce`, `LogSpec`, `ScanEnds`, `AllOnesNeverReturns` |
| `scan_counter` | two hosts | `CounterCountsThreads` is **violated** |
| `scan_missed` | two hosts | `WaitingAnswerIsTaken` is **violated** |
| `main_trace` | one call, three hops, 4 TTLs, 2 packets in the socket, foreign and cut packets; texts of one or two letters | `TypeOK`, `NumberMeansTTL`, `FirstRouteTrue`, `RouteEndsAtDestination`, `PrintsRoute`, `TraceEnds` |
| `trace_gap` | one call, three hops | `ListedHopsAdjacent` is **violated** |
| `trace_two` | two calls to two destinations | `EveryRouteTrue` is **violated** |
| `init_all` | all 3,280 strings of up to 7 characters over two letters and a separator, two local addresses | `SplitTypeOK`, `SplitExact`, `OthersKept`, `ErasedUnlessRepeated`, `InitEnds` |
| `init_literal` | the list in `init.cpp` on each of its five hosts | `OtherLocalsDeleted` is **violated** |
| `library` | checksums: 3-bit words, up to 4 of them and an odd byte; two collections of up to 4 items of two kinds in blocks of 2; Oids of up to 4 subidentifiers with operands of up to 3; two threads, entries of up to 2 items, 3 loggers, `cleanup()` at any time; a class of each kind, 1-bit halves kept in 2 bits; two values of the agent, two request ids; a `Pdu` of up to 2 `Vb`s and two others | `InternetChecksum`, `CollTypeOK`, `SlotsMatchCount`, `ListsImplemented`, `HoldsExpected`, `ComparesLexicographically`, `EntryHasLogger`, `EntriesOwn`, `PrintsCurrent`, `HoldsNumber`, `PrintsAnswer`, `GetEnds`, `ValuesOwned`, `BindingsKept`, `LibraryTypesOK` |
| `log_cleanup` | the logger, with `cleanup()` while threads log | `LoggerAlive` is **violated** |
| `collection_index` | the collections | `BadIndexRefused` is **violated** |

The run `library` checks seven parts at once, which have nothing to do with each
other: a behaviour is one of one part, chosen by `part` in the initial state,
with the variables of the others at rest, so that its states are the sum and
not the product of those of the parts.

Why the bounds are enough for the cases that matter.  Three threads are what it
takes for a late reply to pass over one thread and meet the next, with another
thread's entry already listed; a socket of two packets lets a late reply stand
in front of the right one; `MaxDrift` is larger than the number of iterations
of any call that ends, so it only cuts off the call that never ends.  Seven
characters hold two pieces that are equal and adjacent with separators doubled
or missing at either end.  Four TTLs pass a destination three hops away.  Two
3-bit words already give a sum (15) for which the second fold matters.  Four
items in blocks of two fill two blocks and empty them again, and leave one in
the second after a removal.  Two half values let the carry between the halves
be wrong in either direction, and two more let a half be out of its range.
Three loggers are one that is deleted, one that an entry is made with, and one
that takes its place.  Oids of up to four subidentifiers and operands of
up to three give every order of a limit and two lengths.  The theorems of
section 5 hold for all values.

`CHECK_DEADLOCK FALSE` is in every configuration because all these programs
stop: by returning from the last call, by `ExitProcess` or `exit`, or at the
bound on calls.  That `make()` can also wait forever for the heap is the
disjunct `HeapOrphaned` of `ScanEnds`.

### What the violated properties tell

* `CounterCountsThreads`: lines 16, 77 and 201 of `scanhost.cpp` take
  `ThreadNumCounter` for the number of threads.  It is decremented twice per
  thread (127 and 223), and never above 0 at the comparison, so that
  `Sleep(5000)` is never reached (`NeverThrottled`, proved).  What bounds the
  number of threads is that each is terminated before the next one starts.
* `WaitingAnswerIsTaken`: `main.cpp` 12 calls the search for active hosts done
  but for the local one.  One late reply makes the following threads drop their
  own.
* `ListedHopsAdjacent`: `main.cpp` 19 wants to make an adjacency matrix of
  routes from which silent hops are missing without a mark.
* `EveryRouteTrue`: `main.cpp` 19 wants one call per active host, and numbers
  start at 0 in each, so that answers to an earlier call fit a later probe.
* `LoggerAlive`: `log.h` 525 calls `cleanup()` thread-safe.
  Another thread may be about to call `log_needed()` of the logger it deletes.
* `BadIndexRefused`: `collect.h` 228 and 247 promise -1 for an index that is not
  found.  The size itself is an index that is let through.
* `OtherLocalsDeleted`: `init.cpp` 9.  With the list as written, the host
  192.168.2.100 reads past the end of the vector.  On any other list that
  repeats the local address, one of two adjacent copies stays.

## 4. Fairness

* `MakeFairness`: weak fairness of `make()`'s own steps, that is, the calling
  thread is scheduled.  The busy-wait is finite, so `TerminateWorker` follows.
  Nothing is assumed of the threads or of the network; they are not needed for
  a call to end.  `StartWorker` is disabled while the heap is locked, and stays
  so if the owner was terminated.
* `TracertFairness`: the calling thread is scheduled and `recvfrom` returns
  when a packet is there or `SO_RCVTIMEO` has passed.  `TimeOut` is enabled
  only while the socket is empty: a time-out with a packet waiting does not
  happen.  `TraceEnds` needs the premise that packets stop coming in, because
  the time-out starts again after each of them.
* `InitList`: the program runs.
* `MainProgram`: that of `tracert()`, for its steps within `main()`.
* `GetClient`: weak fairness of `MainStep`, that is, the program runs and
  time-outs elapse; nothing is assumed of the agent or the network.  In the run
  `library` it is fairness of the same steps while `part` is `"get"`.

## 5. Proofs

The assumptions are `ScanAssumption`, `TraceAssumption`, `SplitAssumption`: the
types of the constants, no more; likewise `CollAssumption`, `OidAssumption`,
`LogAssumption`, `GetAssumption` and `PrintedAssumption`, which also keep the
special values apart from the others; `InitAssumption`, that the local address
is a string; `BindingAssumption`, that a `Pdu` has room for a `Vb` and that
there is one outside it; `MainAssumption`, that an address as text is not empty
and has no dash; and `ChecksumAssumption`, that a buffer has
fewer than 2^16 words (the program's have 20).  In particular nothing is assumed about the
thread identifiers, the topology or the number of addresses, threads, calls and
TTLs.

`HostScanProofs`:

| Theorem | States |
|---|---|
| `TypeCorrect` | `[]TypeOK` |
| `OneWorkerAtATime` | `[]OneWorker` |
| `ThrottleNeverEngages` | `[]NeverThrottled` |
| `ListInOrder` | `[]ListedInOrder` |
| `OnlyTerminationLoses` | `LossOnlyByTermination` |
| `ImplementsLog` | `LogSpec`, the refinement of `ActiveHostLog` |
| `OnlyOwnAnswers` | `[]OwnAnswer` |
| `ListedHostsAreReal` | `[]ListedHostsExist` |
| `EveryAddressOnce` | `[]ProbedOnce` |

Everything rests on `Turns`: a live thread is the latest one, and `make()` is
in its busy-wait (or the process has ended).  `OneWorker` alone is not
inductive, because starting thread `created + 1` needs that this number has not
been used.  `CounterBound` follows the counter through one iteration: at most 0
before it, at most 1 and then with a thread between its increment and its
decrement during it, at most 1 just before `make()`'s own decrement.
`ListShape` describes the list and the new string at each point of line 55; from
it, `ListSteps` classifies every step of the system as leaving the list alone,
appending one address of the latest thread, or losing the list, and both
`LossOnlyByTermination` and the refinement are read off that.  `Provenance`
follows an address from the request to the socket, the buffer, `from` and the
list; `Heard` does the same without asking whose request it was.  `ProbeRange`
keeps `startIP` ahead of all probes of the call and at most one past its end.

`TraceRouteProofs` proves `TypeOK`, `NumberMeansTTL`, `RouteEndsAtDestination`
and `FirstRouteTrue`.  `Counters` ties `ttl`, `seq_number` and `max_hop`
together (without it the type of `ttl` is not inductive); `Numbering` says that
a probe's TTL is its number plus one; `FirstCall` that every packet with the
process's identifier answers some probe and that the bytes left in the buffer
are never those of the current number.

`MainProgramProofs` shows that `main()` runs the tracer (`MainRunsTracer`), so
that the theorems above hold of the trace it makes (`MainTracesTruly`), and
proves `PrintsRoute` (`RouteIsPrinted`).  `PrintsRoute` says something of the
last state only.  What is inductive is that a text is laid out: `LaidOut(t, w,
off)` says that behind index `off[n]` of `t` comes the word `w[n]`, and a dash
behind that.  A hop written to the route extends the layout at its end
(`WordAppended`), the local address in front of it at its beginning
(`WordPrepended`), and `split()` has then cut along it up to `Len(v)`
(`CutAlong`): behind a piece it stands on the dash or just after it, in a piece
it is not past the piece's dash.  The words being free of dashes and not empty
is what makes each of its steps go where the layout says.

`InitListProofs` proves `SplitTypeOK` and `SplitExact` for every string and set
of separators; the invariant `SplitInv` says that the string is cut exactly up
to `i` and that there is only text between `i` and `j`.  `InitRunsSplit` carries
that over to `init()`.  For the loop after it, `OthersKept` and
`ErasedUnlessRepeated` are not inductive.  `LoopInv` adds to the map `from` of
`OthersKept` where it points (`LoopKeeps`): entries the loop has not reached
were moved by as many places as hosts are gone, and a local address it has
passed over stood next to another one in the list.  With that a step that
erases an entry yields the map with one entry less (`CompareInv`).

`ChecksumProofs` proves `InternetChecksum`.  The sum the code keeps and the
one's complement sum are congruent modulo `Radix - 1`, and one is 0 only if the
other is (`SameSum`); additions and the first fold keep that
(`AdditionKeepsSum`, `FoldKeepsSum`), the first fold leaves at most
`2 * Radix - 2`, and from there the second one is exact (`SecondFoldExact`).

`SnmpCollectionProofs` proves `CollTypeOK`, `SlotsMatchCount` and
`ListsImplemented` for blocks of any size.  The inductive invariant `CollInv`
adds to the first two what the loops have done so far: in `LoadFacts` the target
holds the first items of the source and `cn` is the next slot of its last
block, in `RebuildFacts` `newCollection` holds the items below `z` but for the one
at `pos`, and in `StarvedFacts`, after a block was refused, some of these in their
order.  `SlotsMatchCount` alone is not inductive, because a loop writes to
the slot its own number names.  `PutExtends` is the step all of it rests on: an
item in the next free place extends the list and leaves the rest alone.

`OidProofs` proves `HoldsExpected` and `ComparesLexicographically`.  Its
invariant says what each step of `operator+=` has already put into the new
array (`StoreFacts`), that the loop of `nCompare()` has found equal what it has
passed, and that `length` and `reduced_len` describe the shorter of the two
prefixes (`CompareFacts`).

`LibraryProofs` proves the rest of what the run `library` checks.

* `EntriesOwn` and `EntryHasLogger`, with `cleanup()` at any time: the mutex belongs
  to the one thread that is inside, and the entry to that thread (`OneInside`);
  while it is held no logger can be deleted.
* `PrintsAnswer` for any set of values and request ids: an answer to this
  request, if it is no error, carries a value the agent gave, and so does the
  `Pdu` once `get()` has succeeded, which takes an open session.
* `HoldsNumber` and `PrintsCurrent` for every class and every width of a half and
  of an unsigned long.  `HoldsNumber` needs to know each half by itself
  (`HalvesHeld`): one that is out of its range says nothing of the other.
  `PrintsCurrent` speaks of what would be printed now; the invariant `TextKept`
  speaks of the text kept in the object, and is stated for as long as the
  object is not marked as changed.
* `ValuesOwned` and `BindingsKept` for any number of `Vb`s.  `Owned` is
  `ValuesOwned` one direction at a time.  That a new value finds a free address
  (`FreeObject`) is the pigeonhole principle: otherwise there were more values
  than places, and two of them had the same owner.
* `LibraryRunsParts`: a behaviour of the composition is one of each of its seven
  parts, so that each theorem about a part holds there.  Of the get it is one up
  to the fairness (`GetSafety`), which only behaviours of that part have.  And `LibraryTypesOK`,
  from the invariants of the parts.

Every invariant that a passing run checks is proved.  Only model-checked are
the liveness properties `ScanEnds`, `AllOnesNeverReturns`, `TraceEnds`,
`InitEnds` and `GetEnds`, which need fairness and `ENABLED`, out of this
prover's reach; and the seven violated properties, for which TLC's
counterexample is the result.

## 6. Not modelled

* The commented-out SNMP walk (`test.cpp` 50-227) and the class tests, which
  print what getters return: no behaviour that a property could be about.
* Most of the headers under `TestCip4/include`: declarations and comments.  What
  they declare is in a binary library (`TestCip4/lib`), of which there is no
  source to translate: the SNMPv3 engine (`usm_v3.h`, `auth_priv.h`,
  `mp_v3.h`), the message and event queues (`msgqueue.h`, `eventlist.h`,
  `notifyqueue.h`) and `Snmp` itself (`uxsnmp.h`).  These and the like are
  more than half of the lines of the repository.  `des.h`, `des_locl.h` and `libsnmp.h` are
  declarations and macros that the program does not use.
* Of the modelled headers: logging from within a log statement, the levels of
  the log filter and the length of an entry; `GenAddress`, which delegates to
  the address it holds; `MacAddress`, `IpxAddress` and `IpxSockAddress`, which
  `config_snmp_pp.h` 127-138 leaves out of the build; ports and scopes of
  addresses; comparing octet strings
  and addresses; the buffer for a part of an `Oid`'s text; the fields of a `Pdu`
  other than its `Vb`s.
* How the library draws request ids.  `uxsnmp.h` 105 asks for `srand()`, which
  `test.cpp` does not call.
* Leaks of thread handles, sockets and `sockaddr_in` (their consequence, a
  failing `CreateThread`, is an alternative of `StartWorker`).
* What several calls of `tracert()` leave in `TraceRT::route`, which none of them
  clears: `main()` makes one.
* Printing, and the identity matrix `init()` prints.
* Time: how long the busy-wait takes compared with a reply or with the
  one-second time-out.  Every order is possible in the model.

## 7. Plan

Done: the scanner, the tracer, the splitter, the list, the checksums, `main()`,
the SNMP client, and the classes of the library whose code is in its headers,
with a proof of every invariant that the runs check.
Left:

1. `GenAddress`, if the program comes to use it: an address that may be absent,
   with the validity flag of its own that `operator[]` sets.
2. The scanner and the tracer on one network, if `main()` comes to run both.
