# MC-SLP: models, checks and proofs

TLA+ models of the Minecraft server list ping (SLP) server of this repository,
the TLC configurations that check them on small instances, and the TLAPS proofs
that hold for every instance. `PROJECT.json` lists the runs, the mutants of
every property, the source lines of every definition, the findings, the hazards
and the theorems; this file says how they hang together.

## The system

`main` reads its options, creates a queue of sockets and a thread pool of at most
200 threads, adds the work `get_stop`, and then for ever accepts a connection,
queues its socket and adds one work `handle_client`. A pool thread that runs
`handle_client` takes the *oldest* socket of the queue, reads a handshake, reads a
status request, sends the status as JSON, reads a ping, sends it back and closes
the socket. `get_stop` reads stdin and calls `exit(0)` when it reads `stop`. The
JSON is made and parsed by a vendored library, yyjson.

| component | source | state | operations | what makes it correct |
|---|---|---|---|---|
| thread pool | util/thread_pool.c | linked list of work, `work_count`, `tid` array, `busy_thrd`, two exit flags, one mutex | create, add_work, exit; the loops of the workers and of the admin thread | work is started once, in order; never more than `max_thrd` threads; the counters and the array agree with the threads; waiting work starts; exit frees no pool that has threads in use of it |
| connection queue | util/queue.c | linked list of ints, one mutex | create, enqueue, dequeue, destroy | first-in first-out under any threads; nodes neither lost nor freed early |
| server | main.c | the sockets on their way, each handler's progress | the accept loop, `handle_client`, `get_stop` | every socket is closed once and used by one handler; every client gets the answers to its own packets; every client is let go |
| options | main.c | the settings, the favicon | getopt loop, start of the server | the server runs with what it was told; files and sockets are opened and closed once |
| network | network/network.c | one packet being received | init, accept, send, recv, free, close | packets come out as the client sent them, however TCP cuts the stream |
| packets, types | util/packets.c, util/types.c | none | varints, strings, packets to and from bytes | what is written is read back; nothing is written past a buffer; nothing is lost when memory is |
| config | util/config.c | the strings it allocates | JSON to and from `config_t` | a failed conversion leaves nothing allocated; a round trip |
| base64 | util/base64.c | none | encode, decode | the bits of the input, and a round trip |
| log | log/log.c | table of callbacks, lock, level, the structure of localtime | log_log, log_add_callback, log_add_fp, log_set_* | a message is in each sink that wants it, once; lines do not mix under a lock |
| yyjson | util/yyjson.c, .h | documents, iterators, allocators | read, write, copy, edit, pointers, patches, files | texts are read as the grammar says, the same by each reader; a written document is read back; linked lists behave as sequences; memory neither overlaps nor leaks |

How they interact: `main` and the pool's threads share the connection queue
(`cnnts`) and the pool (`tpool`), each behind its own mutex; the pool reads
several of its own fields without the mutex; the handlers talk to clients through
descriptors that the kernel reuses as soon as they are closed; handlers convert
the shared `defcfg` to JSON, each in a document and a stack array of its own, and
log. Nothing is persisted; the library's file functions are not called.

The hard behaviours: unlocked reads in the pool's two loops and in
`thrdpool_exit`; `busy_thrd` that lags behind the threads it counts; a socket and
its job that travel through two queues and are matched by order alone; failures
half-way through the accept loop, a conversion or a document; ten early returns of
`handle_client`, each with its own clean-up; TCP that cuts packets; clients that
fall silent or go away; circular lists known by their last member only; one
buffer that is filled from both ends. `PROJECT.json` lists each at its line, with
the properties that would catch it.

## The modules

| module | models | state and actions |
|---|---|---|
| `WorkPool` | what `thread_pool.h` promises | `pending`, `status`; Add, Start, Finish, Discard |
| `ThreadPool` | `thread_pool.c` while it serves | the fields of `thrdpool_t` under their names, the admin's and the workers' locals and program counters; one action per access to shared state outside the mutex, two per critical section |
| `ThreadPoolExit` | `thrdpool_exit` with both flags, called from outside or by a worker, while the pool goes on | `x_*`: the call's program counter and locals |
| `FifoQueue` | what `queue.h` promises | `items`, `got`; Enqueue, Dequeue, DequeueEmpty, Destroy |
| `ConnQueue` | `queue.c` on nodes and pointers | the fields of `queue_t` and its nodes, the addresses that are allocated |
| `StatusSession` | the SLP session a client sees | `script`, `conn`, `read`, `replies` |
| `Server` | `main.c`: accept loop, handlers, get_stop | descriptor table, the accept loop's and the handlers' program counters and locals |
| `Startup` | `main` up to its accept loop, and `network_init` | `su*`: the next option, the settings, what is open and allocated |
| `Varint` | the varints of `types.c`, as functions | - |
| `PacketRecv` | `network_recv`, call after call on one connection | the bytes delivered and taken, the call's locals |
| `Packets` | every writer and reader of `packets.c`, the strings of `types.c` | `pk*`: the packet put together malloc by malloc, and the position of its reader |
| `Base64` | `base64.c` | `b6*`: input, text and output, with what lies behind them |
| `StatusReply` | `config2json` and the part of `handle_client` that packs and sends its text | `sr*`: values left in the document's chunks, members made and added, the heap |
| `StatusParse` | `json2config` | `sp*`: the next lookup, the fields set, the heap |
| `Log` | `log.c` | `L`, the mutex, localtime's structure, the pieces in each sink |
| `JsonReader` | `yyjson_read_opts` and its three readers, one action per label | the text, `cur`, the array of values, the open container, `alc_len` |
| `JsonWriter` | the five writers | the text and the stack that share a buffer, the container and its length |
| `JsonCopy` | the two layouts of a value, and the copy of a document that is written | - |
| `JsonText` | the three composed: read, copy, write, read again; what their memory is | `round` |
| `JsonGrammar` | the grammar of RFC 8259 as the readers' reference; the other copies and the comparisons, as functions | - |
| `JsonTree` | what RFC 6901, 6902 and 7386 say, on trees | - |
| `JsonPointer` | pointers, patches and merge patches on linked values, and the context one call leaves the next | `heap`, `root`, `pctx`, `call` |
| `JsonSequence`, `JsonPairs` | what `yyjson.h` promises of arrays and objects | `items` or `pairs`, and the iterator's `pos` |
| `JsonArray`, `JsonObject` | mutable arrays and objects as circular lists, each with an iterator | `next` of every value, `uni.ptr`, the length, the iterator's fields |
| `JsonPoolAlc`, `JsonDynAlc` | the pool allocator and the dynamic allocator | the chunks: free, in use, and what was asked for |
| `JsonDocPool` | the string and value pools of mutable documents | `docs`, `held`, `given` |
| `JsonFile` | reading and writing files | the file, its position, the buffer |
| `ThreadPoolProofs`, `ServerProofs` | theorems about `ThreadPool` and `ThreadPoolExit`, `Server` | - |
| `PacketProofs`, `JsonDocProofs` | theorems about `Varint`, `PacketRecv`, `Packets` and `Base64`; `JsonDynAlc`, `JsonPoolAlc`, `JsonDocPool`, `JsonFile` and `JsonArray` | - |
| `JsonObjectProofs` | theorem about `JsonObject` | - |
| `JsonTextProofs` | theorem about `JsonText`, that is the reader, the copy and the writers | - |
| `StatusProofs` | theorems about `Startup`, `StatusReply`, `StatusParse`, `Log` and `ConnQueue` | - |
| `NaturalRecursion` | induction and recursion on the naturals, and lists, for the proofs | - |
| `MC*` | instances for TLC | scripts, bodies, texts, symmetry |

Composition: `Server` uses `FifoQueue` for `cnnts` and `WorkPool` for the pool, the
abstract specifications that `ConnQueue` and `ThreadPool` are shown to implement
(and proved to, for all constants); its client side implements `StatusSession`.
`ThreadPoolExit` extends `ThreadPool` with one more process. `PacketRecv` justifies
what `Server` takes `network_recv` to do: return the next packet whole, or fail.
`StatusReply` is one step of `Server`'s handler, `respond`, in detail. `JsonText`
composes the reader, the copies and the writers. `MCConnection`, `MCJsonText` and
`MCJsonDoc` put models that do not interact side by side: a behaviour is of one of
them, which its variable `part` names; the constant `Parts` says which of them a
run has.

Correspondence, where it is not by name:

* *Granularity of the pool.* A critical section is one step that takes the lock
  and a second that frees it, so that threads that read without the lock see the
  section's effects before its end. Everything read outside the mutex is one step
  per read; the admin's condition is read as the -O3 build of the Makefile reads
  it, `work_count` once and `busy_thrd` once (thread_pool.c:2 asks for -O0, which the
  Makefile does not pass). Clocks are abstracted to one
  Boolean for each worker, `wait_tm >= timeout`.
* *Undefined reads.* `pos` at thread_pool.c:89 and `client_addr_len` at
  main.c:275 are read without a value: any value in the first case, success or
  failure of accept in the second. The decoder's `padding` in base64.c is any of
  three values, and what lies behind an input, a packet or a favicon is any of a
  few (`b6Behind`, `Beyond`, `Stray`).
* *size_t and int.* `busy_thrd` wraps around at `SizeMax` (7 in the runs: larger
  than any true count, so that a wrapped value is told apart); lengths wrap
  around at `IntMax`.
* *Jobs and clients.* `Server` names a `handle_client` job for the client in whose
  round of the accept loop it was added; the job does not know, and serves
  whichever socket is oldest. A socket is the lowest free descriptor above
  `sockfd`, as the kernel gives them out.
* *Packets in Server.* It keeps of a packet what the handler can tell of it (four
  kinds, `StatusSession` lists them). A packet that is too short for a handshake is
  read past its end by `handshake_packet_read`: any of its three results.
* *SIGPIPE.* A send to an end that has been closed is answered with a reset, and
  the next send raises SIGPIPE, which `main.c` neither ignores nor handles.
  Resets of other kinds are among the failures of recv and send.
* *Allocations* in `Server` are kept for the packet of network_recv (`held`); those
  of the JSON and of the packet to send are in `StatusReply` and `Packets`.
* *JSON texts* are sequences of lexical elements, among them a string, a number, a
  literal, an element of each kind that is refused, and a NUL; `JsonReader` lists
  them. The fast paths of the readers (the first part of each label) do what the
  slow ones do and are one action with them. Values lie in an array that starts
  behind the document's header, as in the code, and its room counts the header.
* *JSON writers.* Written bytes are counted only as far as the room in the buffer
  depends on them: a string has 0 or 20 bytes, so that both an element and the
  stack can be what the buffer is too small for.
* *Linked values.* A value that was taken out keeps its `next`, as in the code, and
  may be put in again; `yyjson_mut_val` pointers are numbers or model values.
* *Allocators.* Sizes are counted in the allocator's unit and a chunk's header is
  one of them (`Hdr`, `Step`). The system's `realloc` may move, extend or fail.

Lines that begin with "Mutation" in a module are variants of the definition below
them with a plausible bug (in some modules the comment only says what the bug
is); they are used by nothing but the mutants of `PROJECT.json`, each of which
must violate its property.

## The runs

| run | instance | what it shows |
|---|---|---|
| `pool` | 3 threads, 2 works (one endless), `max_thrd` 2 | the list, `work_count` and `busy_thrd` are exact in every interleaving; never more than `max_thrd` threads; the admin stores over a slot only after a search that found none; `WorkPool` is implemented; with get_stop running, other work is started; idle workers leave |
| `pool_full_array` | 3 threads, 3 works, `max_thrd` 2 | *violation*: after a search that found no free slot the admin overwrites one |
| `exit` | 2 threads, 1 work, call from outside or by a worker, both flags | on a pool at rest, the free finds the admin gone and every worker that is left counted out, at most about to unlock; a waiting exit does not cut off running work; from outside the call returns unless work is added meanwhile |
| `exit_waits` | 2 threads, 1 work, call from outside | *violation*: a pool that was waited for is freed while a worker has its unlock before it |
| `connection` | the eight parts below, one at a time | |
| - queue | 3 callers, 4 nodes, 2 ints | list, nodes and size are exact, addresses reused; destroy frees every node; `FifoQueue` is implemented |
| - recv, packets, base64 | 2 packets of 5 bodies in any pieces; the handshakes, texts and inputs of `MCConnection` | packets come out whole and in order until part of a length prefix has been seen, and one that has arrived is received; each kind of packet but the status request, which is written without its id, is framed, and what arrives whole, a client's status request too, is read back whatever lies behind it; writing runs over no buffer but for negative ints and loses no memory but at packets.c:78; base64 is the input's bits and decodes to it, less an end that base64.c:70 may take |
| - reply, parse, startup, log | configs with and without each text, documents with any two lookups wrong, every two options, 2 threads that log | an answer has every member or a malloc failed, and is the config's; `config2json` loses the favicon's buffer and nothing else; a config's own document is read back; the server starts with the settings of the last options, on every address, and a start that stops has its status; log lines are whole under a lock, and complete without |
| `server` | 2 clients, 6 scripts, 2 descriptors, up to 2 failed allocations | each descriptor has one owner; sockets and jobs stay in step but for what failed; a handler leaks a packet only when it rejects one; `StatusSession` is implemented; every client, a silent one too, is let go |
| `server_sigpipe` | 1 client | *violation*: the pong to a client that has left kills the process |
| `json_text` | every text of up to 2 elements, and of up to 4 of the common ones, all texts one element away from longer ones of all shapes; 5 sets of flags; 8 documents with 23 pointers, and patches of one and three operations | the readers accept the grammar and leave the values of the text; no value, text or stack runs over its buffer and no memory is lost; errors say what is wrong; copies agree; what is written is read again; pointers and merge patches do what the RFCs say or leave the document alone, and patches that add no member a second time too |
| `patch_add` | the pointers of `json_text` | *violation*: a patch adds a member that exists a second time |
| `json_doc` | arrays of 4 values, objects of 3 pairs, buffers of 7, 8 and 25 units, one document, files of 3 bytes | arrays and objects are sequences under every order of edits, and an iterator goes along them until it is astray; allocators neither overlap, lose nor leak; files are read into their buffers, unless one ended below its position, and closed once |
| `array_loop` | the arrays of `json_doc` | *violation*: the documented loop that removes values breaks the list |
| `file_shrinks` | the files of `json_doc` | *violation*: the padding of a file that has become too short is set in front of the buffer |

Deadlock is not checked: each of these systems may stop (all works done, all
clients gone, the stream at its end, the text read), and liveness runs say what
must happen before.

Bounds. Three threads for `max_thrd` 2 allow a leaving thread, one being created and
a full pool at once, which is what the slot and count races need; the safety
properties of the pool are proved for any number of works. `exit` has two threads and
one work: the racing decrement of a calling worker meets the decrement of another
that leaves and the admin's increment. It does not meet a second running work; that
case is in the proofs of its two safety properties. Every function of
`queue.c` touches at most two nodes, so four with three callers give every shape,
freed addresses included; its properties are proved, too. Two clients with two
descriptors overlap, and the second may get the number the first has closed. In
the packets a digit has three bits, a varint three digits and an int eight bits: as in
the code, an int needs every digit and the last digit has bits to spare. The
bodies are chosen so that, read as prefixes, they are negative, zero with the
prefix added, and too big. In Base64 a quarter of a byte is one bit: every carry
between bytes and digits occurs. `ChunkValues` is 15, the room of the first chunk of
values of the code after its header, since it is the sixteenth value of an answer
that needs a second one. `MaxFaults` bounds failed allocations, `MaxPackets`
packets and calls, `MaxLines` and `MaxCallbacks` the log, `MaxRoom` the
allocations one pointer call is granted, `MaxCtxOps` the calls that use one
context, `MostChunks` and `MostBytes` the pools and files. The texts of
`json_text` reach each label of each reader, the growth of the values'
array and the growth of the writer's buffer with the stack in use. Four values are enough to
have a first, a last and two between, which is all that the list operations tell
apart; three pairs for two names give every key twice.

Symmetry is used in runs without liveness only: for nodes in `connection`, for keys,
values and names in `json_doc`, and for threads and works that are alike in
`pool_full_array` and `exit_waits`. `json_doc` has a VIEW that leaves out `next` of keys
and values that are not in the object: every operation writes it before it is
read, and without the view the same states are counted many times over.

Fairness. *Pool:* weak fairness for each step of the admin, of each worker and of
a mutex holder: threads are scheduled, sleeps end, and a func returns unless
it is in `Endless`. *exit* needs strong fairness for one step, the lock of
`ClearList`: between the exit flag and that lock the admin may start workers one
after another, and only a mutex that starves nobody lets the caller in.
*Server:* weak fairness for the accept loop, each handler and the start of the
oldest job. That handlers proceed is the code's receive timeout (main.c:66) for
receiving; for sending it is an assumption on clients, since there is no send
timeout. That the oldest job is started is `WorkStarts` of `ThreadPool`, checked with
one endless work; it fails when two works block for ever and one waits, since
thread_pool.c:128 then creates no thread, so it leans on the same assumption.
The mutant that removes the receive timeout violates `EveryClientLeaves`.

## What is proved

`ThreadPoolProofs` (TLAPS, every value of the constants under
`ThreadPoolAssumption`). None of the safety properties is inductive alone. `IInv` joins
the type invariant, `ListIntact`, `OneRunner`, `BusyExact`, `PoolBound`, `SlotStaysFree` and
`SlotsExact` with three facts that carry them over a step:

* `FifoExact`: the auxiliary sequence of queued work has no duplicates and is what
  `status` says; the list properties need it when a node is linked or taken.
* `RoomForOne`: between the admin's condition and pthread_create the pool stays
  below `max_thrd`. The condition is read without the lock, but only the admin
  increments, and all others can do meanwhile is leave.
* `FirstSearch`: until a search has found a slot no thread has been created.

`BusyExact` is what makes `PoolBound` work: `busy_thrd` is the number of registered
threads less the one not counted yet, or `SizeMax` when that one has already left.
One lemma for each action and conjunct, `Invariance` puts them together, and
`TypeCorrect`, `PoolBounded`, `BusyIsExact`, `ListIsIntact`, `OneRunnerEach`, `SlotIsKept`,
`SlotsAreExact` and the action property `OnlyFullClobbers` follow. `Refinement` shows
that every step of the pool is a step of `WorkPool` or leaves it alone.

The last part of `StatusProofs` does the same for the connection queue: `QueueInv` is
`TypeOK`, `QueueIntact`, `NodesExact` and `NodeReady` (a node that has been filled and not
yet linked is complete and not in the list); `QueueIsIntact`, `NodesAreExact` and
`QueueIsFifo` (it implements `FifoQueue`) follow. `NodesExact` includes that `queue_destroy`,
which trusts `size`, frees every node. Its loop is a recursive function, `Walk`, and the
lemma `WalksTheList` says that it passes the nodes in the list's order. That is an
induction over the rounds of the loop; it is done without a theorem that takes an
operator: if some round passed another node, there would be a first such round
(`First`, from the well-foundedness of strict inclusion on finite sets), and the
round before it, or the head of the list, says that there is not.

The second part of `ThreadPoolProofs` is about the exit, under `ExitAssumption` (a call
from outside is no thread of the pool). Until the call the pool has its `IInv`. The call breaks `BusyExact`, since its decrement of `busy_thrd` is a
read and a write with steps of others between them. What remains true of a
pool at rest is `QuietCount`: `busy_thrd` is never smaller than the number of threads
that are left, because every update that this decrement loses or undoes is a
decrement as well. So when the loop at thread_pool.c:281 ends there is no thread
but the caller and workers that have counted themselves out and have their unlock
before them. `ExitIsSafe` and `WaitFinishes` say so for any number of threads and
works, either flag, and a call from outside or by a worker; that such a worker may
find the mutex freed is `exit_waits`.

`ServerProofs`: `FdOwnership` is not inductive, because a handler has no record of whose
socket it serves. The invariant joins it (stated pairwise, `OwnedOnce`, and completely,
`AllOwned`) with what a descriptor is open for (`ConnsOpen`), what a client that is not
served yet has seen (`NotYetServed`), what the place of a handler says of the client
*behind its socket* (`InStage`), why a packet is held (`HeldForReason`), and the order of
the jobs. `FdsAreOwned`, `QueueIsMatched` and the action property `LeaksAreRejections` follow for
any clients, scripts, descriptors and numbers of failures, whichever thread
runs a handler and whichever round its socket is from. `Refinement` shows that each
step is a step of `StatusSession` or leaves every session alone: the answers a client
gets are those to its own packets, in their order.

`PacketProofs`: `LengthsAreReadBack` is the round trip of the varints for digits of
any number of bits, `VarintAssumption` giving the digits an int needs. `PacketsAreWhole`
says that `network_recv` gives the packets that were sent, in order, for every list
of packets and every way in which TCP cuts them, up to the first prefix of which
only a part had arrived. The invariant relates the local variables of the call to
the position in the stream where the current packet begins. It has one
hypothesis, `PacketsFit`: the length of a body plus that of its prefix is an int;
the run meets it, and without it network.c:89 refuses the packet.

The same module follows a packet to its reader (`PacketsAreReadBack`, `BuffersAreEnough`);
a status request as the client sends it is one of the packets, and of the one
that is written here, which has no id, nothing is said.
`IntNext` and `StringNext` say of one field that a reader which comes to its beginning, or
is already behind the bytes that have arrived, ends at its end or behind them again,
and has its value if all of it is there; `HandshakeFields` chains this through id,
version, address, port and state. So nothing depends on what lies in memory behind the
packet. On the writer's side the invariant is `BeingWritten`: what is in the buffer
followed by the encoding of what is left of a number is the packet, and of a negative
number something is always left. The sizes are parameters; what is asked of them
(`PacketsAssumption`) is what the arrays of packets.c have: room for the longest
handshake (273 bytes), lengths that are ints, and a ping whose length is one byte.

The last part of `PacketProofs` is about base64 (`Base64IsExact`), for groups of bits of
any number of values: a byte is four groups (`FourIs`), a digit three (`ThreeIs`), and
`DigitsOfBytes` says that the digits of three bytes have their twelve groups and give the
three bytes back. `RoundGroups` and `RoundDecoded` say it of each round of the loops, the
last one with its padding, and `PaddingIs` that the decoder finds the padding the encoder
has written. A text without "=" decodes to the input only if the padding the
decoder never set happens to be 0; otherwise the theorem says which bytes are missing.

`JsonDocProofs` has five parts, for sizes and numbers of any kind.
*Dynamic allocator* (`DynListsAreExact`): the free and the used list have no element
twice and none in common, hold together what the system gave, and the free list is
ordered by size, whatever address `realloc` returns. *Pool allocator* (`PoolIsTiled`):
every address of the buffer behind its header belongs to one block or one free chunk
(`Shared`), free chunks are in order and do not touch, and a block is at most two
headers larger than what was asked for (`Fit`). `Fit` is what `pool_realloc` needs, which
copies as much as the old chunk has room for: with `MinGrowth` at least two headers
the new block has that room too. *Documents* (`RoomOfDocuments`): the chunks of a
document are numbered in the order in which they were made and keep their sizes
(`Later`), the cursor stays in the newest (`Sound`), every part handed out is inside a
chunk of its document and before the cursor if that is the newest (`InChunk`), parts of
one chunk do not overlap (`Apart`), and `held` is exactly the chunks and headers of the
documents that exist, so a failed copy leaves nothing behind. A copy allocates string by string, in a loop of the length of its input.
*Files* (`FilesAreWhole`): for files of any size, pieces and padding of any size, and
files that others change during a call; what was read is counted from zero, or, when
the file was shorter than the position, from as far below it (`Counted`), and only then may
the padding be outside of the buffer. *Arrays* (`ArraysAreSequences`): the refinement `ImplementsSequence` for any
number of values. The invariant is that the values lie as a `Ring`: each one's next is
the one behind it in the sequence, the last one's the first, the last one is the one the
array knows, and none is in it twice. `RingInserted`, `RingCut`, `RingReplaced` and `RingTurned` say which
assignments to `next` take a ring to that of an edited sequence, and `StepsAlong` that
the loops which look for a position find it. An iterator that has removed no value, or the last, is
where its index says (`OnItsWay`). One that goes on after another removal is astray:
`JsonSequence` then lets a removal take out any value, or break the sequence, and says
nothing after that (`Break`). The theorem holds for every call the code accepts.

`JsonObjectProofs` (`ObjectsArePairs`) is the refinement `ImplementsPairs` for any keys,
values and strings. The invariant, `ObjectInv`, says that the keys an object counts, each
followed by its value, lie in a circle (`Lies`), and that the iterator is at the place of
the circle its index says (`IterLies`). `PairCut`, `PairChanged`, `PairAdded` and
`PairsTurned` say which assignments to `next` take the pairs to the edited ones. The loops of
yyjson.h that remove a key wherever it occurs have invariants of their own between two
turns (`Removing`, `Sweeping`): what the loop has passed is left without the pairs of that
key, and what it has not passed is as before. `LoopRuns` and `LoopKeeps` carry them from
the first turn to the last. A search that goes around
the end leaves the iterator's index one short (yyjson.h:6564). It may still step and
remove; of the removal the theorem says that some pair goes or that the list is
broken, which `Unlinks` tells, and of what follows a break nothing.

`JsonTextProofs` (`MemoryIsExact`) is about texts, nesting and values of any number. The
reader's invariant `RInv` has four parts: where the cursor is at each label (`Cursor`),
what is allocated (`Held`), that a comma has been read and is still there
wherever the label of a trailing one can be reached (`CommaBehind`), and `Room`: every
value behind the header is below `alc_len`, and at the labels from which a value is stored
without a look at the room there is one more slot. That is why `val_incr` keeps two in
reserve, for a key and its value. The writer's invariant `WInv` sees one buffer in which
the text grows up and the stack of containers grows down. `incr_len` compares what a
value needs at most (`Need`) with the room between them, and what is then written
(`Width`) is less by what closing its containers takes; so the text ends below the
stack when a container is closed without a look at the room. With pretty printing
the level is the number of open containers (`Levels`), since the indentation is
part of `Need`. Of constants it is only assumed that texts are sequences and lengths
of strings naturals (`ReaderAssumption`, `WriterAssumption`).

`StatusProofs` is, besides the queue, about three short programs whose invariants say what
has been done at each place, and about the log. *Start* (`ServerStartsAsTold`): a setting is that of the last option with its
letter among those read so far, or the default (`Up`), for command lines of any length.
*Answer* (`FaviconAloneLeaks`, `AnswersAreComplete`): what may be allocated where
(`MayHave`), and that nothing is missing of what the calls so far add, because the first
chunk still has the values that the calls up to the sample's key take (`Needs`): only the
description and the favicon can come upon a full chunk. This needs `ChunkValues >= 15`
of `StatusReplyAssumption`; yyjson's first chunk (yyjson.c:307, 16 values less a header) has
room for exactly 15. *Parse* (`ParsedAsWritten`,
`OwnTextIsReadBack`): at each place every field behind it says what the document says
(`FieldsTold`), what is allocated is exactly what has been copied, and a failure with all
its memory has come upon something that is not usable (`Usable`). That `config2json`'s own
texts come back needs of a config only that its texts have no 0 and its numbers are
ints (`StatusParseAssumption`). *Log* (`LinesAreWhole`): what a thread has written is known
without the lock, sink by sink, from where it is in `log_log`: `LinesDue` counts the pieces
of its message and `PartsDue` all of its pieces, to within whole lines. With the lock
`WholeLines` says the same of what all threads have written, because the line a sink ends
with is the holder's (`Rest`). The order is that of the lock, which no variable records;
`SameOrder` is inductive with `Latest`: in every sink that has it, the holder's line is the
last, so a line that is begun comes behind all that any other sink has before it.

`NaturalRecursion` makes these inductions possible without theorems that take an
operator. `LeastNumber` says that a non-empty set of naturals has a least one: what is
to be shown of every number is shown by looking at the least for which it fails.
`RecursiveFunction` says that a function defined at each number by its value at a
smaller one, as the loops of the code are modelled, satisfies its equation; what it
recurs by are functions, not operators. The same module has the facts about lists
that the documents, the arrays and the objects share.

Assumptions about constants are named in the module that declares them
(`ThreadPoolAssumption`, `ExitAssumption`, `VarintAssumption`, `PacketsAssumption`, `DynAssumption`, `PoolAssumption`,
`DocAssumption`, `FileAssumption`, `Base64Assumption`, ...), and TLC evaluates each in a run. Most only say that
a size is a natural number. Those that say more are `PoolAssumption` (`MinGrowth` is at
least two headers; see the findings), `DocAssumption` (nobody asks for zero values, as
the callers in yyjson.c do not), `PacketsAssumption`, `StatusReplyAssumption` and `StatusParseAssumption`.
`StartupAssumption` says that options are those getopt returns and numbers are numbers,
`ReaderAssumption` and `WriterAssumption` that texts are sequences and lengths naturals,
`ObjectAssumption` that keys and values are different and neither is NULL.

Only model-checked:

* Liveness: `WorkStarts`, `PoolDrains`, `ExitReturns`, `EveryClientLeaves`. The prover reasons
  about neither fairness nor ENABLED.
* `ReadsTheGrammar`, `ErrorsTell`, `RereadSame`, `CopiesAgree` and `PointersAgree`, of `JsonText`
  and `JsonPointer`. What they compare the code with, `JsonGrammar` and `JsonTree`, are
  RECURSIVE operators on texts and trees, for which the prover has no arithmetic; and what
  a recursive definition gives for every text or tree is an induction over data.

## Findings

With a violation run:

1. *Overwritten slot* (`pool_full_array`, thread_pool.c:132). After a search of a full
   array `work_thrd` is stale; when a worker leaves before the condition is read, a
   new thread is stored over a live one. One of the two then finds no slot of its
   own and writes through an unassigned index. An odd `max_thrd` leads to the same
   write, since the search never looks at the middle slot; main passes 200.
2. *SIGPIPE* (`server_sigpipe`, network.c:55). A client that closes after its ping
   stops the server.
3. *Wait that is too short* (`exit_waits`, thread_pool.c:281). A worker decrements
   `busy_thrd` at line 105 and unlocks at line 106; between them an exit that waits for
   zero may stop the admin and free the pool, the mutex included.
4. *Removal in a loop* (`array_loop`, yyjson.h:5900). `yyjson_mut_arr_iter_remove` leaves
   `cur` at the value behind the one it removed, where the object's leaves it at the
   one before: the next step of the loop that yyjson.h:2493 shows passes a value over,
   and its second removal unlinks from the wrong place.
5. *Added twice* (`patch_add`, yyjson.c:2502). An operation "add" of a JSON Patch on a
   member that exists adds a second one, where RFC 6902, section 4.1, to which
   yyjson.h:4398 and 4443 refer, says that its value is replaced. `JsonTree` has the RFC's rule;
   `PointersAgree` is about patches that do not come upon the case.
6. *File below its position* (`file_shrinks`, yyjson.c:6890). When a file has become
   shorter than the position it is read from, `file_size` starts below zero, the pieces
   are added to it, and the `memset` of yyjson.c:6937 sets the padding in front of the
   buffer or of the text's end. `JsonFile` has the size, not what such a write overwrites.

Seen on the way, without a run of their own:

* network.c:24: `network_init` never uses its parameter `addr`. The server listens on
  every address, whatever `-a` says (main.c:235, network.h:12); `StartedAsTold` states it so.
* thread_pool.c:281: a waiting `thrdpool_exit` may return from its wait while a
  worker runs that has taken its work and has not been counted; `QuietWaitFinishes`
  holds for a pool at rest, at which the admin is not on its way to count one more. Work
  added during an exit can keep it from returning.
  thread_pool.c:127 says "more than" where the code has, and needs, `>=`.
* thread_pool.c:200: a pool without an admin thread ends the process with `exit(-1)`
  from inside `thrdpool_create`, not with main's return; nothing is closed.
* network.c:97: `recv` without MSG_WAITALL fails a packet that arrives in two
  pieces; a length prefix of which only a part has arrived is misread (`cut` in
  `PacketsWhole`, which says nothing from then on: a length that is negative or zero
  comes of such a prefix only).
* packets.c:129: `status_request_packet_write` writes `sizeof(char)-1`, that is no, bytes,
  where packets.h:39-50 gives the packet an id and line 122 has its two bytes ready.
  Nothing in the program calls it. `Framed` says nothing of it.
* The packet leaks of main.c:80-84 and 104-108 (`LeakOnlyOnRejection` shows they are
  the only ones), against network.h:50 "you should call this function after use
  network_recv". A failed `thrdpool_add_work` leaves a socket queued, and from then
  on every client is served in the round of the next one (`QueueMatchesJobs`).
* main.c:121: a text of 32767 characters passes and `strcpy` writes one byte past the
  array (`srPast` in `AnswerComplete`). config.c:96 does not free `name`;
  config.c:157's buffer is freed on no path; config.c:122 skips 22 characters of
  any text. `varint_write` does not end for negative ints.
* main.c:23 and 31 define a lock for the log and nothing calls `log_set_lock`: `L.lock`
  stays NULL, handlers' lines may mix and show another line's time. `LinesWhole`
  says what holds with the lock and what without.
* yyjson.h:6564: a search by `yyjson_mut_obj_iter_getn` that goes around the end leaves
  `idx` one short. `yyjson_mut_obj_iter_next` then returns one pair more; a removal at the
  first pair is refused, since `idx` is 0, and one at the last leaves `uni.ptr` at the key
  that is gone (yyjson.h:6536): the object is no sequence any more. `JsonPairs` allows that
  break and nothing behind it; no run reports it.
* yyjson.c:1126: `pool_realloc` copies what the old chunk has room for. It fits as long
  as sizes grow by 32 bytes or more, which every caller in the library sees to;
  `MinGrowth` states it.
* yyjson.c:2234: a bad escape right below a new array element is reported as RESOLVE.
  
* yyjson.c:2273: putting a value in the place of a name that occurs twice may unlink
  the member `ctx->pre` is at (`PreLinked`), against yyjson.h:3884 "`pre` is the previous
  node". `yyjson_ptr_ctx_remove` then takes one off the length and nothing out of the
  list. `ContextAimed` excepts that removal and what is done with the list after it.

## Not modelled, and why

* Numbers and strings of yyjson character by character: how digits become a double
  and back, UTF-8 and escapes (yyjson.c:2799-5756 and 6950-8286). They are tables
  and bit arithmetic with no state, and best tested against another
  implementation; an element stands for each way they can end.
* The accessors of yyjson.h that only forward a call or read a field, its
  declarations, `yyjson_locate_pos`, `yyjson_read_number` and `yyjson_write_number`.
* Error messages, and error positions but for that of a trailing comma and the
  order that decides which error is found.
* `ftell` that fails after `fseek` has succeeded, and a caller's file that is not at
  the position it says.
* Tokens of JSON pointers of more than 19 digits, and array indices above
  what the documents of the run tell apart.
* The operating system: sockets, threads and memory are what the code sees of them.
* What a thread does after a data race has given it a torn value: the fields of the
  pool are aligned words, and read as such.

## Plan

Done: the models and runs of every component, and the proofs of the pool, the exit,
the queue, the server with its session, varints, packets and their readers, base64,
the allocators, the documents' pools, the arrays, the objects, the files, the memory of
the JSON reader, copy and writers, the start, the answer, the parse and the log. So
every safety property of the runs is a theorem but for the five named above.

Left: these five, for a prover that has induction over data; and liveness.
