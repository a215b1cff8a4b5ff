---------------------------- MODULE AfsSession ----------------------------
(***************************************************************************)
(* Open, write and close of regular files by the FUSE clients of one AFS   *)
(* server (afsfuse_client.cc), with the whole-file cache on each client's  *)
(* disk, the temporary and recovery files, the map from descriptors to     *)
(* temporary files, the close thread, client crashes and the recovery scan *)
(* of client_init.                                                         *)
(*                                                                         *)
(* One step is one system call on the client's disk or one RPC: those are  *)
(* the points at which other requests, other clients and crashes get in.   *)
(* An RPC takes effect at one instant (the server's lstat, open or rename).*)
(* Contents are tokens <<f, k>>: k = 0 is what f held before any write, and*)
(* k > 0 is the whole file as left by the k-th write of the behaviour.     *)
(* Every write and every publication has a clock reading of its own.       *)
(***************************************************************************)
EXTENDS Naturals, Sequences, FiniteSets

CONSTANTS
  Clients,            \* machines
  Handles,            \* requests for a path that are under way at one time: an
                      \* open or create, from its lookup until its release has
                      \* returned, with the FUSE threads that serve it; or one
                      \* refresh of the cache by a getattr
  ClientOf,           \* ClientOf[t]: the client of handle t
  Files,              \* paths of regular files
  Present,            \* the files on the server initially
  Nested,             \* the files that are not directly in the root
  Large,              \* the files above parallel_close_file_size_thresh
  Fds,                \* descriptors open(2) may return
  NoFd,
  Suffixes,           \* the numbers drawn by rand() % 10000
  Collisions,         \* may a drawn number already be in use on this path?
  NoSuffix, NoFile,
  Boot,               \* CLOCK_REALTIME - CLOCK_MONOTONIC on the server
  Skew,               \* Skew[c]: how far c's clock is ahead of the server's
  Nanos,              \* number of values of tv_nsec
  NameIntact,         \* outcomes of the uninitialised read in the recovery
                      \* scan: TRUE when the name it computes is complete
  MayCreate,          \* are files also created?
  MaxOpens, MaxWrites, MaxFailures, MaxCrashes   \* model bounds

ASSUME ClientsAssumption == ClientOf \in [Handles -> Clients]
ASSUME FilesAssumption ==
  /\ Present \subseteq Files /\ Nested \subseteq Files /\ Large \subseteq Files
  /\ NoFile \notin Files /\ NoSuffix \notin Suffixes /\ NoFd \notin Fds
ASSUME ClockAssumption ==
  /\ Boot \in Nat \ {0} /\ Nanos \in Nat \ {0} /\ Skew \in [Clients -> Nat]
ASSUME SwitchAssumption ==
  Collisions \in BOOLEAN /\ MayCreate \in BOOLEAN /\ NameIntact \subseteq BOOLEAN
ASSUME BoundAssumption == {MaxOpens, MaxWrites, MaxFailures, MaxCrashes} \subseteq Nat

VARIABLES
  clock,      \* the server's monotonic clock
  srv,        \* srv[f]: the file on the server, or Absent
  log,        \* history: log[f], every content f has had on the server
  since,      \* history: since[f], the number of writes when f was last put on
              \* the server
  names,      \* names[c][n]: the inode that name n is linked to, or NoNode
  nodes,      \* nodes[c]: the inodes of c's cache directory, in order of creation
  tempMap,    \* tempMap[c][d]: tempFdToPathMap, a temporary name or NoName
  queue,      \* queue[c]: the paths in closeBuffer
  sending,    \* sending[c]: the path the close thread sends, or NoFile
  mode,       \* mode[c]: "up", "down" (crashed) or "recovering"
  rescued,    \* rescued[c]: the path the recovery scan is about to send
  th,         \* th[t]: what the thread that serves handle t is doing
  released,   \* history: written contents whose client_release has begun
  marked,     \* history: contents renamed to a recovery name by a release
  acked,      \* history: written contents whose client_release has returned
  closed,     \* history: closed[c][f], the content that c renamed to a recovery
              \* name last
  viewed,     \* history: viewed[c][f], the place in log[f] of the content that
              \* c opened or closed last
  opens, writes, failures, crashes               \* counters for the bounds

server == <<clock, srv, log, since>>
disk == <<names, nodes>>
closer == <<queue, sending>>
scan == <<mode, rescued>>
history == <<released, marked, acked, closed, viewed>>
bounds == <<opens, writes, failures, crashes>>
vars == <<server, disk, tempMap, closer, scan, th, history, bounds>>

-----------------------------------------------------------------------------
(* Data.                                                                   *)

Absent == [data |-> <<NoFile, 0>>, mtime |-> 0]
NoNode == 0
NoName == <<"none", NoFile, NoSuffix>>

Cached(f) == <<"cached", f, NoSuffix>>
Temp(f, s) == <<"temp", f, s>>
\* createRecoveryPath appends ".recover" to a temporary name.
Recover(n) == <<"recover", n[2], n[3]>>

CachedNames == {"cached"} \X Files \X {NoSuffix}
TempNames == {"temp"} \X Files \X Suffixes
RecoverNames == {"recover"} \X Files \X Suffixes
Names == CachedNames \cup TempNames \cup RecoverNames

Contents == Files \X Nat
Node == [data : Contents, mtime : Nat]
Base(f) == <<f, 0>>
Written(x) == x[2] > 0

\* A request at its beginning, and a handle that is not in use.
Request(pc, want, path, got, floor) ==
  [pc |-> pc, want |-> want, path |-> path, got |-> got,
   buf |-> <<NoFile, 0>>, tmp |-> NoName, fd |-> NoFd, ino |-> NoNode,
   floor |-> floor]

Idle == Request("idle", "none", NoFile, 0, 0)

PCs == {"idle", "check", "fetch", "install", "getattr", "utimens", "copy",
        "stamp", "create", "createLocal", "open", "mark", "close", "drop",
        "send", "swap", "erase", "submit", "sendPath"}

ThreadState ==
  [pc : PCs, want : {"none", "open", "getattr", "create", "submit"},
   path : Files \cup {NoFile}, got : Nat,
   buf : Contents \cup {<<NoFile, 0>>}, tmp : TempNames \cup {NoName},
   fd : Fds \cup {NoFd}, ino : Nat, floor : Nat]

\* The client's own clock, and the part of a time that isFileModified compares.
Local(c) == Boot + clock + Skew[c]
Nsec(time) == time % Nanos

OnServer(f) == srv[f] # Absent
Has(c, n) == names[c][n] # NoNode
At(c, n) == nodes[c][names[c][n]]

\* rename(2): an error, which nobody looks at, if there is no such file.
Move(c, from, to) ==
  IF Has(c, from)
  THEN [names EXCEPT ![c][to] = names[c][from], ![c][from] = NoNode]
  ELSE names

\* A release remembers the number of a descriptor after it has closed it.
IsOpen(t) == th[t].ino # NoNode

\* The last place of a content in a history, 0 if it has none.
LastPlace(s, x) ==
  CHOOSE i \in 0 .. Len(s) :
    /\ i = 0 \/ s[i] = x
    /\ \A j \in i + 1 .. Len(s) : s[j] # x

Rank(f, x) == LastPlace(log[f], x)

\* A temporary name that is on the disk, in the map or held by a request.
InUse(c, n) ==
  \/ Has(c, n) \/ Has(c, Recover(n))
  \/ \E d \in Fds : tempMap[c][d] = n
  \/ \E t \in Handles : ClientOf[t] = c /\ th[t].tmp = n

FdFree(c, d) ==
  \A t \in Handles : (ClientOf[t] = c /\ IsOpen(t)) => th[t].fd # d

Init ==
  /\ clock = 1
  /\ srv = [f \in Files |-> IF f \in Present
                            THEN [data |-> Base(f), mtime |-> Boot] ELSE Absent]
  /\ since = [f \in Files |-> 0]
  /\ log = [f \in Files |-> IF f \in Present THEN <<Base(f)>> ELSE <<>>]
  /\ names = [c \in Clients |-> [n \in Names |-> NoNode]]
  /\ nodes = [c \in Clients |-> <<>>]
  /\ tempMap = [c \in Clients |-> [d \in Fds |-> NoName]]
  /\ queue = [c \in Clients |-> <<>>]
  /\ sending = [c \in Clients |-> NoFile]
  /\ mode = [c \in Clients |-> "up"]
  /\ rescued = [c \in Clients |-> NoFile]
  /\ th = [t \in Handles |-> Idle]
  /\ released = {} /\ marked = {} /\ acked = {}
  /\ closed = [c \in Clients |-> [f \in Files |-> Base(f)]]
  /\ viewed = [c \in Clients |-> [f \in Files |-> 0]]
  /\ opens = 0 /\ writes = 0 /\ failures = 0 /\ crashes = 0

-----------------------------------------------------------------------------
(* RPCs.                                                                   *)

\* A call that has used up its retries or failed otherwise is not ok.
Call(ok) ==
  /\ ok \/ failures < MaxFailures
  /\ failures' = IF ok THEN failures ELSE failures + 1
  /\ UNCHANGED <<opens, writes, crashes>>

\* rpc_getattr: a missing file gives a result other than -1 and a zeroed
\* stat, a failed call gives 0 and a zeroed stat.
Mtime(f, ok) == IF ok THEN srv[f].mtime ELSE 0

\* afsfuse_putFile renames the received file into place.
Publish(f, data) ==
  /\ srv' = [srv EXCEPT ![f] = [data |-> data, mtime |-> Boot + clock]]
  /\ log' = [log EXCEPT ![f] = Append(log[f], data)]
  /\ since' = [since EXCEPT ![f] = writes]
  /\ clock' = clock + 1

\* rpc_putFile of name n as file f.  If n cannot be opened, the server gets
\* an empty stream and its rename fails; the result is ignored in every case.
Put(c, n, f, ok) ==
  /\ Call(ok)
  /\ IF ok /\ Has(c, n) THEN Publish(f, At(c, n).data)
                        ELSE UNCHANGED server

-----------------------------------------------------------------------------
(* client_open, and client_getattr on a path, which runs the same check of *)
(* a cached copy.  The kernel has looked the path up before.               *)

Goto(t, label) == th' = [th EXCEPT ![t].pc = label]

\* isCached: lstat of the cached copy.
Lookup(t, f, want) ==
  LET c == ClientOf[t] IN
  /\ th[t] = Idle
  /\ mode[c] = "up"
  /\ opens < MaxOpens
  /\ Has(c, Cached(f)) \/ (want = "open" /\ OnServer(f))
  /\ th' = [th EXCEPT ![t] =
       IF Has(c, Cached(f))
       THEN Request("check", want, f, At(c, Cached(f)).mtime, Len(log[f]))
       ELSE Request("fetch", want, f, 0, Len(log[f]))]
  /\ opens' = opens + 1
  /\ UNCHANGED <<server, disk, tempMap, closer, scan, history, writes,
                 failures, crashes>>

\* correctStaleness: an older modification time than the server's is stale.
Check(t, ok) ==
  /\ th[t].pc = "check"
  /\ Call(ok)
  /\ IF th[t].got < Mtime(th[t].path, ok)
     THEN Goto(t, "fetch")
     ELSE IF th[t].want = "open" THEN Goto(t, "copy")
                                 ELSE th' = [th EXCEPT ![t] = Idle]
  /\ UNCHANGED <<server, disk, tempMap, closer, scan, history>>

\* rpc_getFile: the server streams the inode it opened.
Fetch(t, ok) ==
  LET f == th[t].path IN
  /\ th[t].pc = "fetch"
  /\ Call(ok)
  /\ IF ok /\ OnServer(f)
     THEN th' = [th EXCEPT ![t].pc = "install", ![t].buf = srv[f].data]
     ELSE Goto(t, "getattr")
  /\ UNCHANGED <<server, disk, tempMap, closer, scan, history>>

\* The received file is renamed over the cached copy.
Install(t) ==
  LET c == ClientOf[t] IN
  /\ th[t].pc = "install"
  /\ nodes' = [nodes EXCEPT ![c] =
                 Append(@, [data |-> th[t].buf, mtime |-> Local(c)])]
  /\ names' = [names EXCEPT ![c][Cached(th[t].path)] = Len(nodes[c]) + 1]
  /\ th' = [th EXCEPT ![t].pc = "getattr", ![t].buf = <<NoFile, 0>>]
  /\ UNCHANGED <<server, tempMap, closer, scan, history, bounds>>

\* A second RPC, for the modification time.
Getattr(t, ok) ==
  /\ th[t].pc = "getattr"
  /\ Call(ok)
  /\ th' = [th EXCEPT ![t].pc = "utimens", ![t].got = Mtime(th[t].path, ok)]
  /\ UNCHANGED <<server, disk, tempMap, closer, scan, history>>

Utimens(t) ==
  LET c == ClientOf[t]
      n == Cached(th[t].path)
  IN
  /\ th[t].pc = "utimens"
  /\ nodes' = IF Has(c, n)
              THEN [nodes EXCEPT ![c][names[c][n]].mtime = th[t].got]
              ELSE nodes
  /\ CASE th[t].want = "open" -> Goto(t, "copy")
       [] th[t].want = "create" -> Goto(t, "open")
       [] th[t].want = "getattr" -> th' = [th EXCEPT ![t] = Idle]
  /\ UNCHANGED <<server, names, tempMap, closer, scan, history, bounds>>

\* VARIANT: the copy has its recovery name from the beginning.
CopyToRecoveryName(t, s) ==
  LET c == ClientOf[t]
      f == th[t].path
      n == Recover(Temp(f, s))
  IN
  /\ th[t].pc = "copy"
  /\ ~Has(c, n)
  /\ Has(c, Cached(f))
  /\ nodes' = [nodes EXCEPT ![c] = Append(@,
                 [data |-> At(c, Cached(f)).data, mtime |-> Local(c)])]
  /\ names' = [names EXCEPT ![c][n] = Len(nodes[c]) + 1]
  /\ th' = [th EXCEPT ![t].pc = "stamp", ![t].tmp = n]
  /\ UNCHANGED <<server, tempMap, closer, scan, history, bounds>>

\* cp to a temporary name.  It opens the target with O_EXCL and copies nothing
\* if it exists; nobody looks at the error.
Copy(t, s) ==
  LET c == ClientOf[t]
      f == th[t].path
      n == Temp(f, s)
  IN
  /\ th[t].pc = "copy"
  /\ Collisions \/ ~InUse(c, n)
  /\ IF Has(c, Cached(f)) /\ ~Has(c, n)
     THEN /\ nodes' = [nodes EXCEPT ![c] = Append(@,
                         [data |-> At(c, Cached(f)).data, mtime |-> Local(c)])]
          /\ names' = [names EXCEPT ![c][n] = Len(nodes[c]) + 1]
     ELSE UNCHANGED disk
  /\ th' = [th EXCEPT ![t].pc = "stamp", ![t].tmp = n]
  /\ UNCHANGED <<server, tempMap, closer, scan, history, bounds>>

\* VARIANT: enableTempFileWrites is false, the cached copy itself is opened.
StampInPlace(t) ==
  LET c == ClientOf[t]
      n == Cached(th[t].path)
  IN
  /\ th[t].pc = "stamp"
  /\ Has(c, n)
  /\ \E d \in Fds :
       /\ FdFree(c, d)
       /\ th' = [th EXCEPT ![t].pc = "open", ![t].fd = d, ![t].ino = names[c][n]]
  /\ UNCHANGED <<server, disk, tempMap, closer, scan, history, bounds>>

\* lstat of the cached copy, utimensat and open of the temporary file, and
\* setTimeFileNameWithFd.  Without a cached copy client_open returns early and
\* leaves the handle 0, and without a temporary file open gives -1: the model ends
\* the request there, and what is done with such a handle is left out.
Stamp(t) ==
  LET c == ClientOf[t]
      n == th[t].tmp
  IN
  /\ th[t].pc = "stamp"
  /\ IF Has(c, Cached(th[t].path)) /\ Has(c, n)
     THEN \E d \in Fds :
            /\ FdFree(c, d)
            /\ nodes' = [nodes EXCEPT ![c][names[c][n]].mtime =
                           At(c, Cached(th[t].path)).mtime]
            /\ tempMap' = [tempMap EXCEPT ![c][d] = n]
            /\ th' = [th EXCEPT ![t].pc = "open", ![t].fd = d,
                                ![t].ino = names[c][n]]
            /\ viewed' = [viewed EXCEPT ![c][th[t].path] =
                            Rank(th[t].path, At(c, n).data)]
     ELSE /\ th' = [th EXCEPT ![t] = Idle]
          /\ UNCHANGED <<nodes, tempMap, viewed>>
  /\ UNCHANGED <<server, names, closer, scan, released, marked, acked,
                 closed, bounds>>

-----------------------------------------------------------------------------
(* client_create, which works on the cached copy itself.                   *)

CreateLookup(t, f) ==
  /\ MayCreate
  /\ th[t] = Idle
  /\ mode[ClientOf[t]] = "up"
  /\ opens < MaxOpens
  /\ ~Has(ClientOf[t], Cached(f)) /\ ~OnServer(f)
  /\ th' = [th EXCEPT ![t] = Request("create", "create", f, 0, 0)]
  /\ opens' = opens + 1
  /\ UNCHANGED <<server, disk, tempMap, closer, scan, history, writes,
                 failures, crashes>>

\* afsfuse_create opens the file and sets its times from CLOCK_MONOTONIC.  A
\* call that fails without an answer counts as a success.
CreateRemote(t, ok) ==
  LET f == th[t].path IN
  /\ th[t].pc = "create"
  /\ Call(ok)
  /\ IF ok
     THEN /\ srv' = [srv EXCEPT ![f] =
                [data |-> IF OnServer(f) THEN srv[f].data ELSE Base(f),
                 mtime |-> clock]]
          /\ log' = IF OnServer(f) THEN log
                    ELSE [log EXCEPT ![f] = Append(@, Base(f))]
          /\ clock' = clock + 1
          /\ UNCHANGED since
     ELSE UNCHANGED server
  /\ Goto(t, "createLocal")
  /\ UNCHANGED <<disk, tempMap, closer, scan, history>>

CreateLocal(t) ==
  LET c == ClientOf[t]
      n == Cached(th[t].path)
      i == IF Has(c, n) THEN names[c][n] ELSE Len(nodes[c]) + 1
  IN
  /\ th[t].pc = "createLocal"
  /\ nodes' = IF Has(c, n) THEN nodes
              ELSE [nodes EXCEPT ![c] =
                      Append(@, [data |-> Base(n[2]), mtime |-> Local(c)])]
  /\ names' = [names EXCEPT ![c][n] = i]
  /\ \E d \in Fds :
       /\ FdFree(c, d)
       /\ th' = [th EXCEPT ![t].pc = "getattr", ![t].fd = d, ![t].ino = i]
  /\ UNCHANGED <<server, tempMap, closer, scan, history, bounds>>

-----------------------------------------------------------------------------
(* client_write.                                                           *)

Write(t) ==
  LET c == ClientOf[t]
      x == <<th[t].path, writes + 1>>
  IN
  /\ th[t].pc = "open"
  /\ writes < MaxWrites
  /\ nodes' = [nodes EXCEPT ![c][th[t].ino] = [data |-> x, mtime |-> Local(c)]]
  /\ th' = [th EXCEPT ![t].buf = x]
  /\ writes' = writes + 1
  /\ clock' = clock + 1
  /\ UNCHANGED <<srv, log, since, names, tempMap, closer, scan, history, opens,
                 failures, crashes>>

-----------------------------------------------------------------------------
(* client_release.  client_flush and client_fsync change no state here.    *)

\* What this request wrote last, if it wrote: the content its close is about.
Own(t) == {x \in {th[t].buf} : Written(x)}

\* client_release returns.
Finish(t) ==
  /\ th' = [th EXCEPT ![t] = Idle]
  /\ acked' = acked \cup Own(t)
  /\ viewed' = IF Own(t) = {} THEN viewed
               ELSE [viewed EXCEPT ![ClientOf[t]][th[t].path] =
                       LastPlace(log'[th[t].path], th[t].buf)]
  /\ UNCHANGED <<released, marked, closed>>

\* isFileModified: no answer of the server and no file there count as modified;
\* otherwise only the nanoseconds are compared.
Modified(t, ok) ==
  \/ ok /\ ~OnServer(th[t].path)
  \/ Nsec(nodes[ClientOf[t]][th[t].ino].mtime) # Nsec(Mtime(th[t].path, ok))

Release(t, ok) ==
  /\ th[t].pc = "open"
  /\ Call(ok)
  /\ Goto(t, IF Modified(t, ok) THEN "mark" ELSE "drop")
  /\ released' = released \cup Own(t)
  /\ UNCHANGED <<server, disk, tempMap, closer, scan, marked, acked, closed,
                 viewed>>

\* An unmodified file is closed and nothing else: the temporary file and its
\* entry in the map stay.
Drop(t) ==
  /\ th[t].pc = "drop"
  /\ UNCHANGED <<server, disk, tempMap, closer, scan, bounds>>
  /\ Finish(t)

\* VARIANT: erases the entry of the map with the temporary name.
MarkAndErase(t) ==
  LET c == ClientOf[t]
      n == tempMap[c][th[t].fd]
  IN
  /\ th[t].pc = "mark"
  /\ n # NoName
  /\ names' = Move(c, n, Recover(n))
  /\ tempMap' = [tempMap EXCEPT ![c][th[t].fd] = NoName]
  /\ th' = [th EXCEPT ![t].pc = "close", ![t].tmp = n]
  /\ marked' = marked \cup {At(c, n).data}
  /\ UNCHANGED <<server, nodes, closer, scan, released, acked, closed, viewed,
                 bounds>>

\* isTempFile and createRecoveryPath, while the descriptor is still open.
Mark(t) ==
  LET c == ClientOf[t]
      n == tempMap[c][th[t].fd]
  IN
  /\ th[t].pc = "mark"
  /\ IF n # NoName
     THEN /\ names' = Move(c, n, Recover(n))
          /\ th' = [th EXCEPT ![t].pc = "close", ![t].tmp = n]
          /\ marked' = IF Has(c, n) /\ Written(At(c, n).data)
                       THEN marked \cup {At(c, n).data} ELSE marked
          /\ closed' = IF Has(c, n)
                       THEN [closed EXCEPT ![c][n[2]] = At(c, n).data] ELSE closed
     ELSE Goto(t, "close") /\ UNCHANGED <<names, marked, closed>>
  /\ UNCHANGED <<server, nodes, tempMap, closer, scan, released, acked,
                 viewed, bounds>>

\* VARIANT: the recovery name is given up before the file is sent.
CloseSwapFirst(t) ==
  LET c == ClientOf[t] IN
  /\ th[t].pc = "close"
  /\ th' = [th EXCEPT ![t].pc = IF tempMap[c][th[t].fd] # NoName
                                THEN "swap" ELSE "submit",
                      ![t].ino = NoNode, ![t].want = "submit"]
  /\ UNCHANGED <<server, disk, tempMap, closer, scan, history, bounds>>

\* isTempFile once more, then close, then getFileSize of the cached copy.
Close(t) ==
  LET c == ClientOf[t]
      f == th[t].path
      isTemp == tempMap[c][th[t].fd] # NoName
      large == f \in Large /\ Has(c, Cached(f))
      next == CASE isTemp /\ ~large -> "send"
              []   isTemp /\ large  -> "swap"
              [] ~isTemp /\ ~large -> "sendPath"
              [] ~isTemp /\ large  -> "submit"
  IN
  /\ th[t].pc = "close"
  /\ th' = [th EXCEPT ![t].pc = next, ![t].ino = NoNode,
                      ![t].want = IF large THEN "submit" ELSE @]
  /\ UNCHANGED <<server, disk, tempMap, closer, scan, history, bounds>>

\* VARIANT: sends the cached copy, which the swap has not replaced yet.
SendCachedCopy(t, ok) ==
  LET n == Cached(th[t].path) IN
  /\ th[t].pc = "send"
  /\ Put(ClientOf[t], n, n[2], ok)
  /\ Goto(t, "swap")
  /\ UNCHANGED <<disk, tempMap, closer, scan, history>>

\* The recovery file is sent under its last path component, which names no file
\* of the cache if the file is not in the root directory.  The server cuts the
\* name at ".temp".
Send(t, ok) ==
  LET n == th[t].tmp IN
  /\ th[t].pc = "send"
  /\ IF n[2] \in Nested
     THEN Call(ok) /\ UNCHANGED server
     ELSE Put(ClientOf[t], Recover(n), n[2], ok)
  /\ Goto(t, "swap")
  /\ UNCHANGED <<disk, tempMap, closer, scan, history>>

\* VARIANT: the recovery file is deleted once it has been sent.
SwapUnlinks(t) ==
  LET c == ClientOf[t] IN
  /\ th[t].pc = "swap"
  /\ names' = [names EXCEPT ![c][Recover(th[t].tmp)] = NoNode]
  /\ Goto(t, "erase")
  /\ UNCHANGED <<server, nodes, tempMap, closer, scan, history, bounds>>

\* renameRecoveryFileDuringRelease.
Swap(t) ==
  LET c == ClientOf[t] IN
  /\ th[t].pc = "swap"
  /\ names' = Move(c, Recover(th[t].tmp), Cached(th[t].path))
  /\ Goto(t, "erase")
  /\ UNCHANGED <<server, nodes, tempMap, closer, scan, history, bounds>>

\* clearTempFile, by the number of a descriptor that was closed long ago.
Erase(t) ==
  /\ th[t].pc = "erase"
  /\ tempMap' = [tempMap EXCEPT ![ClientOf[t]][th[t].fd] = NoName]
  /\ UNCHANGED <<server, disk, closer, scan, bounds>>
  /\ IF th[t].want = "submit"
     THEN Goto(t, "submit") /\ UNCHANGED history
     ELSE Finish(t)

Submit(t) ==
  LET c == ClientOf[t] IN
  /\ th[t].pc = "submit"
  /\ queue' = [queue EXCEPT ![c] = Append(@, th[t].path)]
  /\ UNCHANGED <<server, disk, tempMap, sending, scan, bounds>>
  /\ Finish(t)

\* A file without a map entry is sent from the cache.
SendPath(t, ok) ==
  LET f == th[t].path IN
  /\ th[t].pc = "sendPath"
  /\ Put(ClientOf[t], Cached(f), f, ok)
  /\ Finish(t)
  /\ UNCHANGED <<disk, tempMap, closer, scan>>

-----------------------------------------------------------------------------
(* The close thread; CloseBuffer has its queue in detail.                  *)

Dequeue(c) ==
  /\ queue[c] # <<>>
  /\ sending[c] = NoFile
  /\ sending' = [sending EXCEPT ![c] = Head(queue[c])]
  /\ queue' = [queue EXCEPT ![c] = Tail(@)]
  /\ UNCHANGED <<server, disk, tempMap, scan, th, history, bounds>>

CloseOnServer(c, ok) ==
  /\ sending[c] # NoFile
  /\ Put(c, Cached(sending[c]), sending[c], ok)
  /\ sending' = [sending EXCEPT ![c] = NoFile]
  /\ UNCHANGED <<disk, tempMap, queue, scan, th, history>>

-----------------------------------------------------------------------------
(* A client process dies and is started again.                             *)

Crash(c) ==
  /\ mode[c] # "down"
  /\ crashes < MaxCrashes
  /\ mode' = [mode EXCEPT ![c] = "down"]
  /\ rescued' = [rescued EXCEPT ![c] = NoFile]
  /\ tempMap' = [tempMap EXCEPT ![c] = [d \in Fds |-> NoName]]
  /\ queue' = [queue EXCEPT ![c] = <<>>]
  /\ sending' = [sending EXCEPT ![c] = NoFile]
  /\ th' = [t \in Handles |-> IF ClientOf[t] = c THEN Idle ELSE th[t]]
  /\ crashes' = crashes + 1
  /\ UNCHANGED <<server, disk, history, opens, writes, failures>>

Restart(c) ==
  /\ mode[c] = "down"
  /\ mode' = [mode EXCEPT ![c] = "recovering"]
  /\ UNCHANGED <<server, disk, tempMap, closer, rescued, th, history, bounds>>

\* recurseDirectoryTraversal visits the entries in any order.  A recovery file
\* is renamed over the cached copy ...
RecoverRename(c, n) ==
  /\ mode[c] = "recovering"
  /\ rescued[c] = NoFile
  /\ Has(c, n)
  /\ names' = Move(c, n, Cached(n[2]))
  /\ rescued' = [rescued EXCEPT ![c] = n[2]]
  /\ UNCHANGED <<server, nodes, tempMap, closer, mode, th, history, bounds>>

\* ... and sent, under its last path component, cut to a length that is read
\* from an uninitialised string.
RecoverSend(c, intact, ok) ==
  LET f == rescued[c] IN
  /\ f # NoFile
  /\ IF intact /\ f \notin Nested
     THEN Put(c, Cached(f), f, ok)
     ELSE Call(ok) /\ UNCHANGED server
  /\ rescued' = [rescued EXCEPT ![c] = NoFile]
  /\ UNCHANGED <<disk, tempMap, closer, mode, th, history>>

\* A temporary file without ".recover" was not closed.
DiscardTemp(c, n) ==
  /\ mode[c] = "recovering"
  /\ rescued[c] = NoFile
  /\ Has(c, n)
  /\ names' = [names EXCEPT ![c][n] = NoNode]
  /\ UNCHANGED <<server, nodes, tempMap, closer, scan, th, history, bounds>>

\* VARIANT: the scan stops at the first file that is neither.
RecoverDoneEarly(c) ==
  /\ mode[c] = "recovering"
  /\ rescued[c] = NoFile
  /\ mode' = [mode EXCEPT ![c] = "up"]
  /\ UNCHANGED <<server, disk, tempMap, closer, rescued, th, history, bounds>>

\* client_init returns and requests are served.
RecoverDone(c) ==
  /\ mode[c] = "recovering"
  /\ rescued[c] = NoFile
  /\ \A n \in TempNames \cup RecoverNames : ~Has(c, n)
  /\ mode' = [mode EXCEPT ![c] = "up"]
  /\ UNCHANGED <<server, disk, tempMap, closer, rescued, th, history, bounds>>

-----------------------------------------------------------------------------

OpenStep(t) ==
  \/ \E ok \in BOOLEAN : Check(t, ok) \/ Fetch(t, ok) \/ Getattr(t, ok)
  \/ Install(t) \/ Utimens(t) \/ Stamp(t)
  \/ \E s \in Suffixes : Copy(t, s)
  \/ \E ok \in BOOLEAN : CreateRemote(t, ok)
  \/ CreateLocal(t)

ReleaseStep(t) ==
  \/ Drop(t) \/ Mark(t) \/ Close(t) \/ Swap(t) \/ Erase(t) \/ Submit(t)
  \/ \E ok \in BOOLEAN : Send(t, ok) \/ SendPath(t, ok)

UserStep(t) ==
  \/ \E f \in Files : \/ \E want \in {"open", "getattr"} : Lookup(t, f, want)
                      \/ CreateLookup(t, f)
  \/ Write(t)
  \/ \E ok \in BOOLEAN : Release(t, ok)

CloserStep(c) == Dequeue(c) \/ \E ok \in BOOLEAN : CloseOnServer(c, ok)

\* VARIANT: temporary files are recovered like recovery files.
ScanRecoversTemps(c) ==
  \/ \E n \in TempNames \cup RecoverNames : RecoverRename(c, n)
  \/ \E intact \in NameIntact, ok \in BOOLEAN : RecoverSend(c, intact, ok)
  \/ RecoverDone(c)

\* VARIANT: ".temp" is looked for first, which recovery names contain as well.
ScanDiscardsAll(c) ==
  \/ \E n \in TempNames \cup RecoverNames : DiscardTemp(c, n)
  \/ RecoverDone(c)

ScanStep(c) ==
  \/ \E n \in RecoverNames : RecoverRename(c, n)
  \/ \E intact \in NameIntact, ok \in BOOLEAN : RecoverSend(c, intact, ok)
  \/ \E n \in TempNames : DiscardTemp(c, n)
  \/ RecoverDone(c)

Next ==
  \/ \E t \in Handles : UserStep(t) \/ OpenStep(t) \/ ReleaseStep(t)
  \/ \E c \in Clients : CloserStep(c) \/ Crash(c) \/ Restart(c) \/ ScanStep(c)

Spec == Init /\ [][Next]_vars

\* Requests that have begun run on, the close thread is scheduled, and a client
\* that crashed is started again; nobody is obliged to use files or to crash.
Fairness ==
  /\ \A t \in Handles : WF_vars(OpenStep(t)) /\ WF_vars(ReleaseStep(t))
  /\ \A c \in Clients : /\ WF_vars(CloserStep(c))
                        /\ WF_vars(Restart(c)) /\ WF_vars(ScanStep(c))

FairSpec == Spec /\ Fairness

-----------------------------------------------------------------------------
(* Properties.                                                             *)

\* Type invariant.
TypeOK ==
  /\ clock \in Nat
  /\ srv \in [Files -> Node \cup {Absent}]
  /\ log \in [Files -> Seq(Contents)]
  /\ names \in [Clients -> [Names -> Nat]]
  /\ nodes \in [Clients -> Seq(Node)]
  /\ tempMap \in [Clients -> [Fds -> TempNames \cup {NoName}]]
  /\ queue \in [Clients -> Seq(Files)]
  /\ sending \in [Clients -> Files \cup {NoFile}]
  /\ mode \in [Clients -> {"up", "down", "recovering"}]
  /\ rescued \in [Clients -> Files \cup {NoFile}]
  /\ th \in [Handles -> ThreadState]
  /\ released \subseteq Contents /\ marked \subseteq Contents
  /\ acked \subseteq Contents
  /\ closed \in [Clients -> [Files -> Contents]]
  /\ since \in [Files -> Nat]
  /\ viewed \in [Clients -> [Files -> Nat]]
  /\ {opens, writes, failures, crashes} \subseteq Nat

PublishedContents(f) == {log[f][i] : i \in 1 .. Len(log[f])}

\* A handle of client_open refers to a copy of its own: no other request on the
\* client has the same inode open, and it is not the cached copy of any path,
\* whatever fetches, renames and descriptor reuse happen meanwhile.
HandlesPrivate ==
  \A t \in Handles : (th[t].pc \in {"open", "mark", "close", "drop"}
                      /\ th[t].want = "open") =>
    /\ \A n \in CachedNames : names[ClientOf[t]][n] # th[t].ino
    /\ \A u \in Handles \ {t} : ClientOf[u] = ClientOf[t] => th[u].ino # th[t].ino

\* Nothing reaches the server before the request that wrote it is being closed,
\* not through other handles, the cache, the close thread or a recovery scan:
\* writes in progress and writes torn by a crash stay on the client.
UnclosedStaysLocal ==
  \A f \in Files : \A x \in PublishedContents(f) : Written(x) => x \in released

\* Flush on close: once client_release has returned, what the request wrote has
\* been on the server.
FlushOnClose == \A x \in acked : x \in PublishedContents(x[1])

\* The contents a client sees by its opens and publishes by its closes never
\* go back in the order in which they were on the server.
ViewsMoveForward ==
  [][\A c \in Clients, f \in Files : viewed'[c][f] >= viewed[c][f]]_vars

\* Close-to-open consistency: an open that begins after a content was put on
\* the server shows that content or a later one.
CloseToOpen ==
  \A t \in Handles : (th[t].pc = "open" /\ th[t].want = "open" /\ Own(t) = {}) =>
    Rank(th[t].path, nodes[ClientOf[t]][th[t].ino].data) >= th[t].floor

\* A file renamed to its recovery name is not lost: it has been on the server,
\* or the client's disk still has it where the recovery scan will find it, or
\* the scan is about to send it.
JournalKept ==
  \A x \in marked :
    \/ x \in PublishedContents(x[1])
    \/ \E c \in Clients : \/ \E n \in RecoverNames : Has(c, n) /\ At(c, n).data = x
                          \/ /\ rescued[c] # NoFile
                             /\ Has(c, Cached(rescued[c]))
                             /\ At(c, Cached(rescued[c])).data = x

\* The requests of a client for one path come one after the other: between its
\* calls an open handle has none.
Sequential ==
  \A t, u \in Handles :
    (/\ {th[t].pc, th[u].pc} \cap {"idle", "open"} = {}
     /\ ClientOf[t] = ClientOf[u] /\ th[t].path = th[u].path) => t = u

\* A handle has no descriptor whose former entry of the map a release on the
\* client has yet to look up or to erase.
DescriptorsApart ==
  \A t, u \in Handles :
    (/\ th[t].pc \in {"send", "swap", "erase"} /\ IsOpen(u)
     /\ ClientOf[t] = ClientOf[u]) => th[t].fd # th[u].fd

\* What a client closed last survives failed calls, the refreshes of the cache,
\* crashes and scans: as long as nothing has been put on the server as this file
\* since it was written, the client has it in its cache or under a recovery name.
\* For clients that are Sequential and whose descriptors are apart, as those with
\* one handle at a time are.
LastCloseKept ==
  \A c \in Clients, f \in Files : closed[c][f][2] > since[f] =>
    \E n \in RecoverNames \cup {Cached(f)} :
      Has(c, n) /\ At(c, n).data = closed[c][f]

\* Unmodified files are not transferred to the server: no content is put there
\* a second time.
SentOnce ==
  \A f \in Files : \A i, j \in 1 .. Len(log[f]) : log[f][i] = log[f][j] => i = j

\* Every close that got as far as its recovery name reaches the server, in this
\* or in a later life of the client.
MarkedReachesServer ==
  \A f \in Files, k \in 1 .. MaxWrites :
    (<<f, k>> \in marked) ~> (<<f, k>> \in PublishedContents(f))

\* A close that was handed to the close thread is flushed in the background, or
\* a later write of the file is instead.
BackgroundFlush ==
  \A f \in Files, k \in 1 .. MaxWrites :
    (<<f, k>> \in acked) ~>
      (\E j \in k .. MaxWrites : <<f, j>> \in PublishedContents(f))
=============================================================================
