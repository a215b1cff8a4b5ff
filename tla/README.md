# A TLA+ verification of the AFS-like client-server file system

The repository is a network file system in the style of AFS. A FUSE client
(`src/AFS/afsfuse_client.cc`) keeps whole copies of files in a cache directory on
its own disk; a gRPC server (`afsfuse_server.cc`) keeps the files themselves. A
file is fetched when it is opened, read and written locally, and sent back whole
when it is closed. This directory holds TLA+ models of the code, the runs of TLC
that check them and proofs that TLAPS checks.

Contents: [1 the system](#1-the-system) · [2 modules](#2-modules) ·
[3 correspondence](#3-how-the-models-correspond-to-the-code) ·
[4 runs](#4-what-the-runs-check) · [5 fairness](#5-fairness) ·
[6 proofs](#6-what-is-proved) · [7 assumptions](#7-what-the-models-assume) ·
[8 not modelled](#8-not-modelled)

## 1 The system

| component | where | state | operations |
|---|---|---|---|
| close buffer | `afsfuse_client.cc` 45-76, 995-1004, 1059-1099 | ring of 100 paths, `front`, `rear`, `count`, `notDone`, a mutex, two condition variables | `submitRequest`/`deposit`, `fetch`, `consumer`, `cleanupBuffer` |
| client session | `afsfuse_client.cc` 176-380, 596-854 | open descriptors; `tempFdToPathMap` from descriptor numbers to temporary files | `client_getattr`, `_open`, `_read`, `_write`, `_create`, `_flush`, `_fsync`, `_release` |
| cache | `afsfuse_client.cc` 1101-1312 | the files of `.cached`: copies `f`, temporary files `f.temp.N`, recovery files `f.temp.N.recover` | `isCached`, `correctStaleness`, `fetchFile`, `mirrorDirectoryStructure`, `cp` |
| recovery scan | `afsfuse_client.cc` 141-150, 1314-1437 | the same directory, after a restart | `recurseDirectoryTraversal`, `renameFile`, `removePath` |
| namespace operations | `afsfuse_client.cc` 382-421, 496-594 and their stubs and handlers | directories and names, on both sides | `mkdir`, `rmdir`, `unlink`, `rename`, `utimens`, `mknod` |
| RPC stubs | `AfsClient.h` | deadline, back-off and retries of a call | `rpc_*` |
| server store | `afsfuse_server.cc` 79-538 | the files under `server/`, temporary files `f.tmpN` | `afsfuse_getattr`, `_getFile`, `_putFile`, `_create`, ... |
| file streaming | `sequential_file_reader.cc`, `sequential_file_writer.cc`, `file_reader_into_stream.h` | a memory map and a position; an output stream | `Read`, `OnChunkAvailable`, `OpenIfNecessary`, `Write` |

**How they interact.** libfuse runs the `client_*` handlers on several threads.
They share the cache directory, `tempFdToPathMap` (no lock) and the close buffer
(one mutex). A handler calls the server synchronously through a stub. `client_release`
sends a small file itself and hands a large one to the buffer, whose one thread,
started by `client_init`, sends it later. `client_init` also runs the recovery scan,
before any request is served. The clients know of each other only through the
modification times that the server reports.

**What is hard about it.**

- *Concurrency on one client*: two opens of a path fetch it and rename it into the
  cache while a third handle is being closed; a descriptor number is reused while
  the release that had it still has to erase its map entry.
- *Concurrency between clients*: content and time of a file are fetched by two
  calls; a release compares with the server's time of that moment.
- *Crashes*: a release renames the temporary file to its recovery name, closes
  it, sends it and renames it into the cache. A crash may fall between any two of
  these, and again between the steps of the recovery.
- *Failed calls*: the result of nearly every call is ignored.
- *Transfers*: a put is several streams of messages, of which earlier ones may still
  be received when a later one is under way; a file gets its name before its last
  bytes are written; a reader keeps the inode it has opened.
- *Calls on names*: a call that ran into its deadline may have been carried out, may
  be later, or never; it is sent again all the same, and the client repeats it in
  its cache.
- *The close buffer*: a bounded ring with two condition variables that are
  notified outside the mutex, and a shutdown flag written without it.

**What makes each component correct.**

- close buffer: nobody sleeps who has work to do; each path that was accepted is
  sent once, in order; shutdown ends the thread and leaves nothing behind.
- session and cache: a handle has a copy of its own; what a close carried is on the
  server when it returns (flush on close); what is not closed yet stays local; an
  open shows what was on the server when it began (close-to-open); the contents
  that a client sees never go back.
- recovery: what got as far as its recovery name is sent in the end; what did not is
  never sent.
- server store: no file mixes two versions; an answer true means that the whole file
  was stored; a reader gets one whole version of a file; nothing is left behind.
- stubs: repeating a call has the effect of making it once; every call returns.
- namespace: after an operation that succeeded both sides have the same names.

## 2 Modules

| module | what it is |
|---|---|
| `CloseQueue` | abstract: a bounded FIFO queue with one sender that can be closed |
| `CloseBuffer` | the ring buffer with its threads, mutex, condition variables and shutdown |
| `CloseBuffer_proofs` | type correctness, both wake-up invariants and the refinement of `CloseQueue` |
| `MCCloseBuffer` | instances of `CloseBuffer` for TLC |
| `AfsSession` | clients, cache, temporary and recovery files, close thread, crashes and recovery, and one server |
| `AfsSession_proofs` | type correctness of `AfsSession` |
| `AfsSafety_proofs` | `HandlesPrivate` and `UnclosedStaysLocal` |
| `AfsFlush_proofs` | `JournalKept`, `LastCloseKept` and `FlushOnClose`, each under its conditions |
| `MCAfsSession` | instances of `AfsSession` for TLC |
| `WholeFileStore` | abstract: puts and gets of one file, each at an instant and as a whole |
| `Transfer` | `rpc_putFile`, `rpc_getFile`, their handlers and the streaming classes, chunk by chunk, with broken streams, crashes, failed writes and callers that die |
| `Transfer_proofs` | type correctness, `OneVersion`, `TrueMeansStored`, `NothingLeft` and the refinement of `WholeFileStore` |
| `MCTransfer` | instances of `Transfer` for TLC |
| `FileTree` | trees of names and what each call of the server on names makes of them (operators only) |
| `FileTree_proofs` | repeating a call changes nothing, directories stay above what is in them, and what a call makes of a part of a tree |
| `AtomicTree` | abstract: calls on a tree, made whole and never twice in a row |
| `Namespace` | the FUSE operations on names, their remote calls with deadlines and retries, handlers that run late, and the caches |
| `Namespace_proofs` | type correctness and the refinement of `AtomicTree` |
| `NamespaceCache_proofs` | `CacheAgrees` and `OpenHasFile` |
| `MCNamespace` | instances of `Namespace` for TLC |

`CloseBuffer` instantiates `CloseQueue` (`Abstract`) with a refinement mapping:
the queue is the occupied part of the ring from `front` on. `AfsSession` uses the
queue in its abstract form (`Submit`, `Dequeue`), which that refinement justifies.
`Transfer` implements `WholeFileStore` (`Store`); in `AfsSession` and `Namespace` a
put or a get is one step, which that refinement justifies where it holds.
`Namespace` and `AtomicTree` share the operators of `FileTree`, which both sides of
the code share too (the same system calls on the server's folder and on the cache).

Operators whose comment begins with VARIANT are not part of a specification. Each is
a definition of the model as a plausible mistake in the code would have it, and
`PROJECT.json` ("mutants") says which property is violated with it.

## 3 How the models correspond to the code

`PROJECT.json` ("map") gives the source lines of every definition. In outline:

**CloseBuffer.** `ppc[p]`, `cpc` and `dpc` say where a producer, the close thread and
`client_destroy` are. A critical section that reads and writes only variables
under the mutex is one step (`Deposit`, `WaitNotFull`). `fetch` is split at each
read of `notDone`, which `cleanupBuffer` writes without the mutex: the test of the
predicate, the beginning of the wait, and what follows are steps of their own, and
the mutex is held in between (`LockFree`). Notifications are steps of their own
because they come after the unlock. Who waits on a condition variable is who has
the pc `"waiting"`; `notify_one` picks any of them, and wake-ups can be spurious.

**AfsSession.** One step is one system call on the client's disk or one RPC.

| code | model |
|---|---|
| the server's files and their times | `srv[f]`; `log[f]` remembers every content f had |
| names in `.cached`, inodes | `names[c][n]`, `nodes[c][i]`; an open handle keeps its inode (`th[t].ino`) |
| `tempFdToPathMap` | `tempMap[c][d]` |
| close buffer, close thread | `queue[c]`, `sending[c]` |
| `client_open` | `Lookup`, `Check`, `Fetch`, `Install`, `Getattr`, `Utimens`, `Copy`, `Stamp` |
| `client_getattr` of a path | `Lookup` with `want = "getattr"`, and the same steps up to `Utimens` |
| `client_create` | `CreateLookup`, `CreateRemote`, `CreateLocal`, `Getattr`, `Utimens` |
| `client_write` | `Write` |
| `client_release` | `Release` (`isFileModified`), then `Drop`, or `Mark`, `Close` and one of: `Send`, `Swap`, `Erase`; `Swap`, `Erase`, `Submit`; `SendPath`; `Submit` |
| the process dies, is started again | `Crash`, `Restart` |
| `recurseDirectoryTraversal` | `RecoverRename`, `RecoverSend`, `DiscardTemp`, `RecoverDone` |

A handle `t` of `Handles` is a request for a path, from the lookup of its open or create
until its release has returned, with whatever FUSE threads serve it: `th[t]` is what
happens to it, whoever does it. Two handles of a client overlap also where one FUSE
worker serves both, since the worker is free between open, writes and release. The
handles of `MCAfsTwoHandles` are of one client, those of `MCAfsTwoClients` of two.

A content is a token `<<f, k>>`, the whole file f as the k-th write of the
behaviour left it. History variables for the properties, which no guard reads, are
`released` (written contents whose release has begun), `marked` (those that got a
recovery name), `acked` (those whose release has returned), `closed` (what a client gave a
recovery name last, by file), `since` (the number of writes when a file was put on the server
last) and `viewed` (the place in the server's log of what a client opened or closed
last). A call has the parameter `ok`, FALSE for a
call that failed at once or used up its retries; what the code does with such a call
is modelled, not that the caller notices (it mostly does not). The nanoseconds that
`isFileModified` compares are the time modulo `Nanos`: `Nanos = 1000`, as
in all runs, keeps them from wrapping around. `Boot` is the distance of the
server's two clocks: `afsfuse_create` stamps files with `CLOCK_MONOTONIC`, everything
else with the wall clock. `Skew` is the distance of a client's clock from the server's.

**Transfer.** One step is one message with the write it causes, one rename, or the
end of a call; all of one path.

| code | model |
|---|---|
| a folder: the file, the temporary files by their numbers, the inodes | `srv`, `cli` (`Disk`); an inode keeps its data when its names go |
| `rpc_putFile` | `Begin`, `AttemptEnds` (a retry, true or false), `Die` |
| `afsfuse_putFile`, one handler for each attempt | `hand[p][a]`: `Receive` for a message (`OpenIfNecessary`, `Write`), `Rename` or `RenameFails`, `Flush` (the destructor of the ofstream), `Refuse` (a write failed) |
| `rpc_getFile` with `afsfuse_getFile` | `Open` (the map of the server's file), `Chunk`, `Install`, `FlushGet`, `BreakGet` |
| the server dies; a stream breaks | `Crash`; `BreakPut`, `BreakGet` |

The handler of a stream that broke runs on beside that of the next attempt, and
takes the end of what it got for the end of the file, as `Read` returns false for
both. A version of the file is the call that sends it, chunk k of it the version at
position k; so a mix of versions, a missing end and a hole are told apart, and bytes
are not. `Small` are the files whose last chunk fits into the buffer of the ofstream
and is written by its destructor only, after the rename. `applied` remembers whose
whole file has been the file on the server's disk, and `replaced` whose file was that but
for the chunk in its buffer when another put's file was renamed over it: the destructor
then writes into an inode without a name. Both are read off the disk (`InPlace`,
`Unfinished`), not off what a handler has received, and no guard reads them.

**FileTree, Namespace.** A tree maps each path to nothing, a directory or a number
that stands for a file's content. One step is one handler of the server, one local
system call of the client with what precedes and follows it, or the end of an attempt.

| code | model |
|---|---|
| `afsfuse_mkdir`, `_rmdir`, `_unlink`, `_rename`, `_mknod`, `_utimens`, `_create` | `Can`, `Effect` in `FileTree`, taken by `Execute` and `ExecuteLate` |
| `client_*` of these, and `client_getattr`, `client_open` as far as names go | `Begin` (the first step), `Execute`, `Answered` or `Unanswered` (the local step), `Return`; `Fetch` |
| `client_release` of a small file that was written | `Close`; if something is sent, `Execute` of the put; then the rename of the recovery file, `Answered` or `Unanswered` |
| `client_release` of a file that was not | `Leave` |
| the loop of a stub | `Deadline` (`Again`, or `GivenUp`), `Crash` |
| `mirrorDirectoryStructure` | `Mirrored`, with `HostDirs[c]` the directories that the host has too |

`Deadline` falls before the handler runs, which then runs late (`late`, `ExecuteLate`)
or never, or after it, when only the answer is lost. What a call gives up may take
effect at any later time, also during later calls. `last` (whose call changed the tree
last) and `upset` (the clients whose cache need not agree with the server any more) are
history variables.

`held[c]` are the files client c has open. A handle has the name it was opened with, the
place of its temporary file, and its name now: libfuse gives an open file its new name
when it or a directory above it is renamed (`client_rename` returns 0 in any case), and
turns its removal or replacement into a rename to a hidden name, so `MayCall` has no such
calls (nor a rename of a path to itself, which the kernel answers without the client). A
close sends the file to the last component of the first name and then renames the
recovery file to the present one (`op.path` and `op.to` of the put). Hence, as in the code,
a file in a directory is cached and not sent, one that was renamed while it was open is sent
to its old name, and one whose directory was renamed is lost, since its recovery file has
moved with the directory. `litter[c]` has the temporary and recovery files that closes leave
in directories of the cache; because of them a rmdir or rename can succeed on the server
and fail in the cache (`Room`).

## 4 What the runs check

Runs that pass:

| run | instance | checked |
|---|---|---|
| `MCCloseBuffer` | 3 producers, ring of 2, 4 submissions, fair | `TypeOK`, `ConsumerNotForgotten`, `ProducerNotForgotten`, `ImplementsCloseQueue`, `EverySubmitSent`, `ShutdownOutsideWindow` |
| `MCAfsTwoClients` | 2 clients with one handle at a time each, 4 opens, 3 writes; the file does not exist at first | `TypeOK`, `FlushOnClose`, `ViewsMoveForward` |
| `MCAfsTwoHandles` | 1 client with two handles at a time, 3 opens, 2 writes | `HandlesPrivate`, `JournalKept` |
| `MCAfsCrash` | 1 client with one handle at a time, a small and a large file, 3 opens, 2 writes, 2 failed calls, 2 crashes, cut names | `UnclosedStaysLocal`, `LastCloseKept` |
| `MCAfsRecoveryLive` | 1 client, 1 crash, fair | `JournalKept`, `MarkedReachesServer` |
| `MCTransfer` | 2 puts, 1 get, files of 2, 1 and no chunks, 2 crashes or failed writes, 2 attempts | `ImplementsStore` |
| `MCTransferFaults` | 2 puts, 1 get, one tail in the buffer, 2 attempts, one fault (a crash, a broken stream, a caller that dies, or a failing write, rename or destructor), fair | `TypeOK`, `OneVersion`, `TrueMeansStored`, `NothingLeft`, `CallsReturn` |
| `MCNamespace` | 2 clients, a directory with a file and a file beside it, 3 calls of any kind but getattr and rename with flags, 2 faults (4 calls and faults together), 2 attempts, fair | `TypeOK`, `CacheAgrees`, `OpenHasFile`, `CallsReturn`, `ImplementsAtomicTree` |

*Why the bounds are enough.* A ring of two with three producers gets full and empty, has a
producer that waits while two others fill the ring, and wraps around with four
submissions. The races of the session need two requests on one file and a third that
observes the result, so three or four opens; two writes give an older and a newer content,
and the third of `MCAfsTwoClients` one that meets a refreshed cache. One crash can fall
between any two steps; the second one of `MCAfsCrash` also falls into the recovery from
the first. There are as many suffixes as opens, so a draw without collision always exists.
The races of a transfer are those of a put with another put, with a get, and with an
earlier attempt of its own; two chunks give a file a middle and an end. More attempts
repeat what two do, and the proofs have no bound on them. Two suffixes make handlers reuse
the file of a dead one. Each call on names can meet one late handler of an earlier call
and one of another client's calls, and three calls with two faults are enough for the
repetition of a call that somebody else has undone meanwhile. Suffixes and descriptors are
symmetric where there are several; the runs with a liveness property use no symmetry.
Deadlock is not checked: the system stops when nobody opens a file, submits a path or
makes a call any more, and the bounds end every behaviour.

Each property takes steps of several actors to break. Some hold only in a part of the
parameter space; the runs above are on one side of the border, the following ones on
the other. In each of them TLC finds the property violated, because the code does
something other than the README of the repository says; `PROJECT.json` ("findings")
quotes it.

| run | property | what happens |
|---|---|---|
| `MCAfsNested` | `FlushOnClose` | files in subdirectories are sent under their last component, that is, not at all |
| `MCAfsStaleCache` | `CloseToOpen` | content and time are fetched by two calls; the cache keeps old content with a new time |
| `MCTransferWindow` | `GetsAreWhole` | the server renames a received file into place before its last chunk is written; a get in between caches it without its end |
| `MCNamespaceCrash` | `SuccessHappened` | the server dies during a call; the stub returns the 0 of a result that was never filled in |

Further disagreements of the same kind can be reproduced by changing a cfg: the
constants of the second column and the property of the third, as the only one.

| cfg | change | property | what happens |
|---|---|---|---|
| `MCCloseBuffer` | one producer and submission | `UnmountFlushes` | paths in the ring at unmount are dropped |
| `MCAfsTwoHandles` | none | `FlushOnClose` | a late erase hits the entry of a reused descriptor, and the old cached copy is sent instead of what was written |
| `MCAfsStaleCache` | none | `SentOnce` | a handle that only read sends its old copy over another client's newer file |
| `MCAfsTwoHandles` | one suffix, `Collisions = TRUE` | `UnclosedStaysLocal` | two handles share a temporary file |
| `MCAfsNested` | `Nested = {}`, `Nanos = 3`, `MaxWrites = 3` | `FlushOnClose` | equal nanoseconds count as unmodified |
| `MCAfsNested` | `Nested = {}`, `Files = {f, g}`, `MayCreate = TRUE` | `FlushOnClose` | the map entry left by a reader is taken for that of a created file |
| `MCAfsNested` | `Nested = {}`, `Present = {}`, `MayCreate = TRUE`, `MaxCrashes = 1` | `UnclosedStaysLocal` | a created file that a crash has torn is published later |
| `MCAfsNested` | `Nested = {}`, `Large = {f}`, `MaxCrashes = 1` | `JournalKept` | a crash while a large file waits in the queue loses its close |
| `MCAfsNested` | `Nested = {}`, `MaxCrashes = 2` | `JournalKept` | a crash between rename and put of the recovery scan |
| `MCAfsNested` | `Nested = {}`, `NameIntact = {TRUE, FALSE}`, `MaxCrashes = 1` | `JournalKept` | the name to be recovered is cut at an uninitialised length |
| `MCAfsNested` | one of the two changes above | `ViewsMoveForward` | the scan has cached an old file that it does not send, and the next open takes it for the newest |
| `MCAfsNested` | `Nested = {}`, `Large = {f}`, `MaxOpens = 3`, `MaxWrites = 2`, `FairSpec` | `BackgroundFlush` | a refresh replaces a file that is queued |
| `MCAfsTwoHandles` | `MaxFailures = 1` | `LastCloseKept` | an open that began to fetch before the close renames what it got over the file of a close whose put has failed |
| `MCAfsTwoHandles` | `Files = {f, g}`, `Present = {f, g}`, `MaxWrites = 3`, `MaxFailures = 2`, `MaxCrashes = 1`, `CONSTRAINT Sequential` | `LastCloseKept` | a late erase leaves two recovery files of one path, and the scan caches the older one over the newer |
| `MCTransferWindow` | `Collisions = TRUE` | `OneVersion` | two handlers draw the same number and write one temporary file |

`FlushOnClose` thus holds between clients with one handle at a time each, and not with two
handles of one client, for created files after a read, in subdirectories, for a file that the
close thread sends, when a put fails, or when nanoseconds coincide. Two handles of one client
also break `LastCloseKept`, as the table has it. It holds when the opens and releases of one
path come one after the other (`Sequential`; between them a path may be open more than once)
and no open gets a descriptor whose map entry a release has yet to look up or to erase
(`DescriptorsApart`). One handle at a time implies both, and TLC takes them as CONSTRAINTs.
Without failed calls it holds in `MCAfsTwoHandles` as well, since what is closed is then on
the server at once.

`LastCloseKept` is a promise only until something is put on the server: it excepts a file that
has been put since it was written (`since`). It has to. Two handles write, the first one's
close is sent and the second one's put fails: the second file is then cached with a
modification time before the server's, and the next open fetches the first over it. The same
happens to a file that the close thread sends late, while a newer close of it, whose put
failed, is in the cache or found by the scan. Both losses come from the time that a file gets
on the server, which is that of its arrival, and happen also where all clocks agree.

`ViewsMoveForward` does not contradict `SentOnce`: a content that a stale reader sends again
becomes the newest in the order of the closes, so the property says that no client goes back in
that order, not that nobody overwrites a newer file. `TrueMeansStored` says that a put which
returned true has had its whole file as the server's file at one time, or all of it but the
chunk in its ofstream's buffer when another put replaced it. It excepts a failed rename, a
failed write of the destructor and a file that its caller cannot open, after which the code
returns true for a file that is not there. The file may also be gone when the call returns:
the handler of an earlier, broken attempt runs on and renames the beginning it has over it.

## 5 Fairness

`CloseBuffer!Fairness`: a thread that can run is scheduled (weak fairness of the
close thread and of `client_destroy`), and a producer that asks for the mutex again
and again while it is free gets it some time (strong fairness; a waiting producer
competes with others for each free slot). Nobody has to close a file or to unmount,
and no spurious wake-up is ever owed: `ShutdownOutsideWindow` excludes exactly the
window in which only a spurious wake-up would end the close thread.

`AfsSession!Fairness`: a request that has begun runs on (libfuse does not abandon a
handler, and each call ends by its deadline), the close thread is scheduled, a client
that crashed is started again, and the scan goes on (it is a loop over a finite
directory). The restart is the operator's part; without it nothing is recovered, and
the README of the repository promises recovery after restarting. Nobody has to open,
write, release or crash.

`Transfer!FairSpec` is weak fairness of the union of the steps of calls and handlers
that are under way (`Step`), and `Namespace!FairSpec` of the union of the steps of
the calls (`Progress`): while something can go on, something does. That is less than
fairness of each thread, which the operating system gives, and enough, since each
step brings a call or a handler nearer to its end. No call has to begin, no fault has
to happen, a deadline need not pass, and a late handler need not run.

## 6 What is proved

TLAPS checks the following for every value of the constants that satisfies the
named assumptions of the modules.

**CloseBuffer_proofs.** `TypeCorrect`, `NeverForgetsConsumer`, `NeverForgetsProducer`:
`Spec` implies that `TypeOK`, `ConsumerNotForgotten` and `ProducerNotForgotten` always
hold; `RefinesQueue`: `Spec => ImplementsCloseQueue`. They rest on
`CapacityAssumption` and `ProducersAssumption` (finitely many producers, for the
cardinality) among others. The inductive invariant `IInv` strengthens the properties
by three facts: the ring is well formed (`rear` is `count` slots after `front`, and
the occupied slots hold paths), a producer has a path exactly while its request is
under way, and the consumer's local path is one exactly from its fetch to its send.
The first makes `Queued` a sequence of paths that a deposit appends to and a fetch
takes the head of. The third is needed because an empty `taken` is the empty
`inflight` of `CloseQueue`. The wake-up invariants are inductive with these: a step
that adds a free slot or a path also adds a pending notification, and a step that
uses a notification wakes a sleeper.

**AfsSession_proofs.** `TypeCorrect`: `Spec => []TypeOK`. `TypeOK` is not inductive: a
step through a name or a descriptor must find an inode. `IInv` adds `Linked` (a name
is linked to no inode or to one that exists) and `RequestOK` for each handle (what a
request has at its pc: an inode that exists while its descriptor is open, a path that
is one, a temporary name from `Copy` to `Stamp` and after `Mark`, and a kind of
request that goes with the pc). `Rank` is the last place of a content in a log; that
there is a last one is proved from the well-foundedness of the natural numbers.

**AfsSafety_proofs.** `HandlesStayPrivate`: if `Collisions = FALSE`,
`Spec => []HandlesPrivate`. That a handle has its inode to itself is not inductive,
because names move: a release renames the temporary file to its recovery name and
that to the cached copy, a fetch replaces the cached copy, and an entry of the map
survives the close of its descriptor, so that `Mark` may look up a descriptor number
that has been used before. `PInv` adds to the `IInv` of `AfsSession_proofs`

- `OneName`: no inode has two names, so a rename moves an inode and never shares it;
- `HeldOK(t)`, for a request of `client_open` from its copy to its close: its inode
  has the temporary name of the request or the recovery name that goes with it
  (`OwnName`), the map has that name for the descriptor of the request or for none
  (`OwnEntry`), and no other request of the client has the name or the inode
  (`Unshared`);
- `DistinctFds`, `Serving` and `CopiesToOpen`: open descriptors differ, a client that
  is down or recovering has no requests, and only opens copy.

A step of a request keeps `HeldOK` of the others if it leaves their two names, their
entry and their inode alone (`Spares`); the lemmas show this action by action, and
a crash or a recovery step for all requests of a client at once. The assumption is
used where a copy is made: under a name that is new (`CopyKeeps`, `CopyCloses`). The
instance with `Collisions = TRUE` in section 4 shows that it is needed.

`UnclosedStays`: if `Collisions = FALSE` and `MayCreate = FALSE`,
`Spec => []UnclosedStaysLocal`. Call a content closed if it is in `released` or was
not written by anybody. `SInv` adds to `PInv` that everything on the server, under a
cached or recovery name, or in the buffer of a fetch is closed, and that the inode
of a request holds something closed or, while it is open, what that request wrote
last (`HandleData`). The privacy of inodes is what makes this inductive: `Write`
changes an inode that no cached or recovery name leads to (`WriteCloses`), and
`Release` adds what its own inode holds to `released` before `Mark` lets the
recovery scan see it (`ReleaseCloses`, `MarkCloses`). A file that `client_create`
opens is the cached copy itself, which breaks the property; an instance with
`MayCreate = TRUE` in section 4 shows it.

**AfsFlush_proofs.** The three properties follow a content through the files of a client,
so the first part says once what each step makes of the files by their names (`File`,
`FileNext`), of the request that takes it and of the server. A step changes the file of
one name, or moves a file from one name to another; `OneName` is what makes that true of
names rather than inodes. `PathInv` says that a name of file f leads to a content of f.

- `JournalIsKept`: `JournalConditions => (Spec => []JournalKept)`. `JInv`: a content that
  is marked has been on the server, has a recovery name, or is the file in the hands of
  the scan (`Journaled`); a release about to give its recovery name up has sent it
  (`SwapSent`); a temporary file and its recovery file are not there together, so `Mark`
  replaces nothing (`Rested`); and a scan comes after a crash (`OneCrash`), so that the
  step `RecoverRename` cannot be cut off by another one. The conditions are those of the
  table in section 4 (small files in the root, whole names, one crash), that no call
  fails, and what `SInv` needs. There may be any number of clients and handles.
- `LastCloseIsKept`:
  `NewestConditions => (Spec /\ [](Sequential /\ DescriptorsApart) => []LastCloseKept)`, where
  `NewestConditions` says that names do not collide and nothing is created. It is about
  behaviours, not about constants: clients may have any number of handles within the two
  conditions of section 4, whose instances show that both are needed. Crashes, scans, failed
  calls, cut names, clocks, large files, directories and other clients are unrestricted.
  `NInv` is about the files that are `New`, that is written
  since something was put on the server: they look newer than the server's file (`Later`, from
  `Counted`), so no request that has looked at one goes on to fetch, and none that fetches has
  one in the cache (`RequestNew`); a path has one recovery file at most
  (`OneRecovery`), and while the client is up the release it belongs to still has it
  (`Borne`), so that no scan meets two; and the last close is that recovery file or, when
  there is none, the cached copy (`LastKept`).
- `FlushesOnClose`: `FlushConditions =>
  (Spec /\ []DescriptorsApart /\ [][NanosDiffer /\ PutAnswered]_vars => []FlushOnClose)`, where
  `FlushConditions` says that files are small and in the root directory, names do not collide
  and nothing is created. Of the behaviour it asks that no descriptor is used again before its last
  release is over, that the put of a release is answered (`PutAnswered`), and that when a
  written file is released its nanoseconds are not those of the server's file, nor the 0 that a
  failed getattr gives (`NanosDiffer`). Each of these is one way for `client_release` not to
  send: a late erase, an ignored error, and a comparison of `tv_nsec` alone. Nothing
  else is restricted: any clients with any number of handles, also of one path, crashes, scans,
  other calls that fail and any clocks, for any length of time. `FInv` follows the written
  content of a request from its temporary file to the recovery file to the server (`FlushOK`),
  by its own name, which no other request has (`TempsApart`), through its entry in the map.

**Transfer_proofs.** The first part says what each operation makes of a disk
(`OpenedFacts`, `WroteFacts`, `PlacedFacts`, `RemovedFacts`, and `Reception` for a
message), once for both sides. The theorems hold for any calls, files, numbers of
attempts and faults.

- `TypeCorrect`: `Spec => []TypeOK`, which includes that every name leads to an inode
  of its own. `TypeInv` adds that what a handler or a get has open exists, that calls
  under way have attempts left, and that the inode a get has mapped has no temporary name.
  It stays so because an inode without a temporary name never gets one again and does not
  shrink (`Grows`).
- `NeverMixes`: if `Collisions = FALSE`, `Spec => []OneVersion`. `OneInv` says that
  every inode has a beginning of one version, that whoever writes has its inode to
  itself and, until the rename, the temporary name that leads to it, and how far it
  has got (`Holds`); and that a get in the middle of its stream has received the
  version that its mapped inode has (`Reads`), which does not change under it since
  only inodes with temporary names are written from their first chunk. A drawn number
  that a running handler has is the one way to lose that, which is the assumption.
- `TrueIsStored`: if `Collisions = FALSE`, `Spec => []TrueMeansStored`. `StoredInv`: a handler
  whose stream is alive renames only when it has every message; from then on its put is in
  `applied` or `replaced`, or its inode is still the server's file and lacks what is in the
  buffer; and when it answers its put is in one of the two. `AttemptEnds` takes no answer
  of another attempt. That the file which is placed is the one that was received, and whole,
  is `OneInv` of `NeverMixes`, hence the assumption.
- `NothingIsLeft`: `Spec => []NothingLeft`, also when numbers collide. `LeftInv`: until
  the server has died or a rename has failed, a temporary file of its own belongs to a handler that is at work
  (`ServerHolds`); until it has died or a stream has broken, one of the client belongs to
  a get under way (`ClientHolds`); and only attempts that were made have handlers
  (`InOrder`).
- `RefinesStore`: `Undisturbed => (Spec => ImplementsStore)`, where `Undisturbed` says
  that streams and callers live (the faults are crashes and failed writes), that files can be
  opened, do not end in the buffer of the ofstream and numbers do not collide.
  `RefInv` adds that only the handler of the current attempt receives, and that a
  mapped file has the size it had when it was mapped; `Rename` is then the
  step at which the put happens, `Open` and `Install` those of a get. The runs and
  findings show that each condition is needed: `MCTransferWindow` for the buffer.

**FileTree_proofs, Namespace_proofs.** `RepetitionChangesNothing`: for every tree and
operation, `Do(Do(tree, op, file), op, file) = Do(tree, op, file)`; by cases on the
operation, mkdir and mknod fail on what they have made, create and put find what they
would put there, rmdir, unlink and rename find nothing. `TypeCorrect`: `Spec => []TypeOK`,
with the operation and the file of every call under way. `RefinesAtomicTree`:
`Spec => ImplementsAtomicTree`. `TreeInv` says that a file belongs to one call among
those under way or given up (`OwnFiles`), and that the one whose file is `last` would
change nothing now (`LastDone`), which `RepetitionChangesNothing` keeps up: a
step that carries it out again is a stutter of `AtomicTree`, and any other call that
changes the tree becomes the last.

`CallsKeepDirectories`: `Rooted(tree) => Rooted(Do(tree, op, file))`: what is above
something in a tree is a directory and stays one, whatever is called. It rests on
lemmas about prefixes of paths; that of the rename (`RenamedRooted`) says what is above
a moved path.

**NamespaceCache_proofs.** `CacheFollowsServer`: `Spec => []CacheAgrees`, and
`OpensAreCached`: `Spec => []OpenHasFile`. No condition is needed beyond the assumptions of
the modules. `CacheInv` adds to type correctness that the server's tree is rooted and,
for every client that is not in `upset`, `Follows(c)`:

- `CacheFits`: what the cache has, the server has too; once the handler has run it is the
  cache as it will be after the local step, if that works (`EffectAgrees` says that the
  same call on both keeps the one a part of the other, `PlacedAgrees` the same of a file
  that is put);
- `Asked`: what the kernel has found out before a call is still so when the handler runs,
  and nothing but an open, a getattr, a utimens or a close goes on without an answer;
- `OpenFinds`: at each point of an open, the file is in the cache or can be put there.

The last two are needed because an answer `error`, or a local step that fails, would make
the trees differ. The first attempt to prove this showed that an earlier form of the model
was wrong about closes: it kept one name for an open file, so that a file its client had
renamed meanwhile was cached where the server refused it. The handles of `held` and the two
names of a put are in the model since.

Each invariant was checked by TLC as an invariant of the instances before it was
proved. Only model-checked are `ViewsMoveForward`, `ShutdownOutsideWindow` and the liveness properties of all
modules (liveness under fairness and ENABLED are beyond the prover), and the findings,
which are counterexamples.

## 7 What the models assume

- In `AfsSession` an RPC takes effect at one instant of the server. A put whose answer
  is lost is the outcome `ok`, since no result is looked at; only one without effect
  is not. `Transfer` shows when that is so (`ImplementsStore`) and what is left of it
  when a stream breaks (`OneVersion`, `TrueMeansStored`).
- The recovery scan sends a file without looking at the server's modification time,
  which the comment at `afsfuse_client.cc` 1413 asks for. It overwrites what other
  clients have closed since the crash; `ViewsMoveForward` counts that as a new
  place in the order of the closes; its run has no crash.
- Any two writes or publications have different clock readings (`clock` is
  incremented by each). File systems with coarse time stamps make more files look
  unmodified, not fewer.
- Each operation on `tempFdToPathMap` is atomic. The code does not lock it; a
  concurrent rehash is undefined behaviour and not modelled.
- `renameFile` returns although it has no return statement.
- `O_TRUNC` and `O_EXCL` of a create are left out: `CreateLocal` and `CreateRemote`
  open a file that somebody else has just created as it is.
- The name of a temporary file is drawn at random and not checked. `Collisions =
  FALSE` assumes that the number drawn is not in use for the path on that client: no
  file, entry of the map or request has it (`InUse`).
- A request of `client_open` ends in `Stamp` when there is no cached copy or no temporary
  file, and what is done with its handle is left out. In the first case the code returns 0
  early (258-264) and the handle is descriptor 0: an `fstat` or `close` of it succeeds while
  descriptor 0 is open, its release closes that descriptor and sends the path from the cache,
  and an open after that can get descriptor 0 for a file of its own. In the second case
  (a collision, or a failed copy) the handle is -1, and reads, writes and `fstat` of it fail.
- The temporary file of a fetch (`f_N.txt`) has no name in the model, only the
  rename that ends it. A crash in the middle of a fetch leaves such a file, which
  nothing reads.
- A file is above the size threshold or not (`Large`), for the whole behaviour.
- A name that recovery cuts too short, and the last component of a nested path, are
  taken to name no file of the cache.
- An orderly remount is a crash while no request is under way. That it drops the queue is
  in `CloseBuffer`, as `FetchNothing`.
- `client_read`, `client_flush` and `client_fsync` change nothing in the model
  (`fdatasync` would matter for a crash of the machine, not of the process).

- `Transfer` has one path and one client that gets; the directories on the way
  (`createPath`) are in `Namespace`, and a put that ends because they cannot be made
  (`afsfuse_server.cc` 497-504) is left out. A running handler's number is drawn by no other (`Collisions = FALSE`;
  there are 1000), while the files of dead ones are met. Writes that fail are those of
  the server. The handler of a broken stream may still receive messages that were on the
  way. A retried put sends the same content again (`AfsSession` has a file that changes
  while it waits in the queue).
- A chunk is in the buffer of the ofstream until the destructor, or written when it
  arrives: the library may keep any last part of less than its buffer.
- `Namespace`: a client makes one call at a time, since the kernel locks a directory
  while it is changed; calls of different directories of one client could overlap. The
  kernel looks names up before a call, through `client_getattr`, and the answer may be
  out of date (`MayCall`). The kernel refuses a rename into the renamed directory.
- `Paths` has with a path the directories it lies in; a name outside of it is taken as
  too long. The server's tree has a directory above everything in it at first (`Rooted`).
- `Close` of `Namespace` is that of a small file; large ones, which are sent later from the
  cache, are in `AfsSession`. Two handles of a client that agree in all three names count as
  one. A handle whose file is renamed out of `Paths` is forgotten. Hidden names
  (`.fuse_hidden`) are names like others.
- A rename with flags is refused by the server (`EINVAL`); times and permissions are
  left out, and so are FIFOs, the other thing that `mknod` makes.
- A put in `Namespace` that runs late has its whole content; `Transfer` has those that
  have a part. Temporary files have no names there, only the places they are in.
- A remote call that changes nothing on the server is not kept in `late`.

## 8 Not modelled

What could still be added: an order of closes across crashes (the scan overwrites what
others closed meanwhile, so there is no last writer to state); the agreement of times
between `Namespace` and `AfsSession`; several calls at once on one client.

Left out for good:

- `readdir`: its handlers pass names on and keep no state on either side. Its
  flaws (names twice after a deadline, an empty answer for an error) are visible in a
  single call and listed as hazards.
- `translatePath` and `getCachedPath` put a prefix before a name; the models have
  names without it. What the cuts at `.temp` and at the last `/` do is in `AfsSession`
  (`NameIntact`, `Nested`).
- `rpc_open`, `rpc_read`, `rpc_write` and their handlers: never called.
- `main`, option parsing and the making of directories at start-up: sequential, before
  the first request; their result is `Init`.
- messages, error formatting, time and debug output, `afsfuse.proto`, `bench.cpp` and
  the scripts: no behaviour of the file system.
