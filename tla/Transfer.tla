------------------------------ MODULE Transfer ------------------------------
(***************************************************************************)
(* Whole files between clients and server: rpc_putFile and rpc_getFile     *)
(* (AfsClient.h), their handlers (afsfuse_server.cc) and the streaming     *)
(* classes both sides use (sequential_file_reader.cc, sequential_file_     *)
(* writer.cc, file_reader_into_stream.h), chunk by chunk, for one path.    *)
(*                                                                         *)
(* Either side receives into a temporary file with a random number in its  *)
(* name, renames it into place when the stream has ended, and only then    *)
(* destroys the ofstream, which writes what is left in its buffer.         *)
(*                                                                         *)
(* A content is the sequence of its chunks; chunk k of version v is        *)
(* written as v at position k.                                             *)
(***************************************************************************)
EXTENDS Naturals, Sequences

CONSTANTS
  Puts,         \* calls of rpc_putFile, each with its file
  Missing,      \* those whose file cannot be opened
  Gets,         \* calls of rpc_getFile on one client
  Initial,      \* the version on the server at first
  Length,       \* Length[v]: the chunks of version v, 0 for an empty file
  Small,        \* the versions whose last chunk stays in the ofstream's buffer
  Suffixes,     \* the numbers drawn by rand() % 1000
  Collisions,   \* may a drawn number already be in use?
  NoSuffix,
  Hole,         \* what a file has where nothing has been written
  NoChunk,      \* the chunk of the message for an empty file
  PutAttempts,  \* numRetriesLeft in rpc_putFile (3)
  GetAttempts,  \* MAX_NUM_RETRIES (12)
  Faults,       \* the kinds of fault that happen
  MaxFaults     \* model bound

Versions == Puts \cup {Initial}
FaultKinds == {"crash",   \* the server dies and is started again
               "break",   \* a stream breaks, or its deadline passes
               "client",  \* the process of a caller dies
               "disk",    \* a write of the server fails
               "rename",  \* a rename of the server fails
               "tail"}    \* the write in the destructor of the ofstream fails

ASSUME VersionsAssumption ==
  /\ Missing \subseteq Puts /\ Initial \notin Puts
  /\ {Hole, NoChunk} \cap Versions = {} /\ Hole # NoChunk
  /\ Length \in [Versions -> Nat]
  /\ Small \subseteq {v \in Versions : Length[v] > 0}
ASSUME SuffixAssumption == NoSuffix \notin Suffixes /\ Collisions \in BOOLEAN
ASSUME AttemptsAssumption == PutAttempts \in Nat \ {0} /\ GetAttempts \in Nat \ {0}
ASSUME FaultsAssumption == Faults \subseteq FaultKinds /\ MaxFaults \in Nat

VARIABLES
  srv, cli,   \* the disks of the server and of the getters' client
  put,        \* put[p]: where rpc_putFile is
  hand,       \* hand[p][a]: the server's handler of attempt a of put p
  get,        \* get[g]: where rpc_getFile and its handler are
  seen,       \* the kinds of faults so far
  faults,     \* their number
  applied,    \* history: the puts whose whole file has been in place
  replaced    \* history: the puts whose file was in place, but for what the buffer
              \* still had of it, when another was renamed over it

history == <<applied, replaced>>
vars == <<srv, cli, put, hand, get, seen, faults, history>>

-----------------------------------------------------------------------------
(* A disk has the inode of the file, those of the temporary files by their *)
(* numbers, and the contents of the inodes.                                *)

NoNode == 0
Chunks == Versions \cup {Hole}
Disk == [file : Nat, temp : [Suffixes -> Nat], nodes : Seq(Seq(Chunks))]
WholeFile(v) == [k \in 1 .. Length[v] |-> v]
Linked(disk) == ({disk.file} \cup {disk.temp[s] : s \in Suffixes}) \ {NoNode}

\* VARIANT: an existing file is not truncated.
OpenedForUpdate(disk, s) ==
  IF disk.temp[s] # NoNode
  THEN disk
  ELSE [file |-> disk.file,
        temp |-> [disk.temp EXCEPT ![s] = Len(disk.nodes) + 1],
        nodes |-> Append(disk.nodes, <<>>)]

\* OpenIfNecessary: out | trunc.
Opened(disk, s) ==
  IF disk.temp[s] # NoNode
  THEN [disk EXCEPT !.nodes = [@ EXCEPT ![disk.temp[s]] = <<>>]]
  ELSE [file |-> disk.file,
        temp |-> [disk.temp EXCEPT ![s] = Len(disk.nodes) + 1],
        nodes |-> Append(disk.nodes, <<>>)]

\* Each stream writes at its own position.
WriteAt(data, k, v) ==
  [i \in 1 .. (IF k > Len(data) THEN k ELSE Len(data)) |->
     IF i = k THEN v ELSE IF i <= Len(data) THEN data[i] ELSE Hole]

Wrote(disk, i, k, v) ==
  [disk EXCEPT !.nodes = [@ EXCEPT ![i] = WriteAt(disk.nodes[i], k, v)]]

\* VARIANT: the temporary file keeps its name.
PlacedAsLink(disk, s) ==
  IF disk.temp[s] # NoNode
  THEN [disk EXCEPT !.file = disk.temp[s]]
  ELSE disk

\* rename of the temporary file; an error, which is ignored, if it is gone.
Placed(disk, s) ==
  IF disk.temp[s] # NoNode
  THEN [file |-> disk.temp[s],
        temp |-> [disk.temp EXCEPT ![s] = NoNode],
        nodes |-> disk.nodes]
  ELSE disk

\* unlink.
Removed(disk, s) == [disk EXCEPT !.temp = [disk.temp EXCEPT ![s] = NoNode]]

\* An empty file is sent as one empty chunk.
Messages(n) == IF n = 0 THEN 1 ELSE n
InBuffer(v, k) == v \in Small /\ k = Length[v]

\* One chunk of version v arrives at a SequentialFileWriter: the first opens the
\* file, and a small one stays in the buffer.
Received(disk, s, i, k, v) ==
  LET open == IF k = 1 THEN Opened(disk, s) ELSE disk
      node == IF k = 1 THEN open.temp[s] ELSE i
  IN IF v = NoChunk \/ InBuffer(v, k) THEN open ELSE Wrote(open, node, k, v)

NodeOf(disk, s, i, k) == IF k = 1 THEN Opened(disk, s).temp[s] ELSE i

-----------------------------------------------------------------------------
NoHandler == [pc |-> "none", got |-> 0, link |-> "up", suf |-> NoSuffix, ino |-> NoNode]
\* What a handler or a call remembers is of no use when it has ended.
Ended(h, pc) == [pc |-> pc, got |-> 0, link |-> h.link, suf |-> NoSuffix, ino |-> NoNode]
NewHandler == [NoHandler EXCEPT !.pc = "receive"]
NewGet == [pc |-> "idle", left |-> GetAttempts, src |-> NoNode, size |-> 0,
           got |-> 0, suf |-> NoSuffix, ino |-> NoNode, last |-> NoChunk]
EndedGet(r, pc) == [pc |-> pc, left |-> r.left, src |-> NoNode, size |-> 0,
                    got |-> 0, suf |-> NoSuffix, ino |-> NoNode, last |-> NoChunk]

Attempts == 1 .. PutAttempts
\* The attempt a put is at; numRetriesLeft counts down after each.
Current(p) == PutAttempts + 1 - put[p].left

Init ==
  /\ \E nodes \in {<<>>, <<WholeFile(Initial)>>} :
       srv = [file |-> Len(nodes), temp |-> [s \in Suffixes |-> NoNode],
              nodes |-> nodes]
  /\ cli = [file |-> NoNode, temp |-> [s \in Suffixes |-> NoNode], nodes |-> <<>>]
  /\ put = [p \in Puts |-> [pc |-> "idle", left |-> PutAttempts]]
  /\ hand = [p \in Puts |-> [a \in Attempts |-> NoHandler]]
  /\ get = [g \in Gets |-> NewGet]
  /\ seen = {} /\ faults = 0 /\ applied = {} /\ replaced = {}

Fault(kind) ==
  /\ kind \in Faults /\ faults < MaxFaults
  /\ seen' = seen \cup {kind}
  /\ faults' = faults + 1
noFault == <<seen, faults>>

-----------------------------------------------------------------------------
(* rpc_putFile.                                                            *)

Begin(p) ==
  /\ put[p].pc = "idle"
  /\ put' = [put EXCEPT ![p].pc = "streaming"]
  /\ hand' = [hand EXCEPT ![p][1] = NewHandler]
  /\ UNCHANGED <<srv, cli, get, noFault, history>>

\* VARIANT: the client waits for the handler's answer, whatever becomes of the stream.
FinishedByHandler(h) == h.pc \in {"reply", "refused"}

\* Finish returns when the handler has, or when the stream is broken.
StatusOk(h) == h.pc = "reply" /\ h.link = "up"
Finished(h) == h.link = "down" \/ h.pc \in {"reply", "refused"}

\* VARIANT: a stream that broke counts as sent.
AttemptStoredAnyway(p) ==
  LET h == hand[p][Current(p)]
      left == put[p].left - 1
  IN
  /\ put[p].pc = "streaming" /\ Finished(h)
  /\ put' = [put EXCEPT ![p] = [pc |-> "true", left |-> left]]
  /\ UNCHANGED <<srv, cli, hand, get, noFault, history>>

\* The end of an attempt.  shouldRetry is set if the file could not be opened
\* (or a Write failed, but then the status is not ok either).
AttemptEnds(p) ==
  LET h == hand[p][Current(p)]
      left == put[p].left - 1
      shouldRetry == p \in Missing
  IN
  /\ put[p].pc = "streaming" /\ Finished(h)
  /\ \/ /\ left > 0 /\ (shouldRetry \/ ~StatusOk(h))
        /\ put' = [put EXCEPT ![p].left = left]
        /\ hand' = [hand EXCEPT ![p][Current(p) + 1] = NewHandler]
     \/ /\ StatusOk(h) /\ (left = 0 \/ ~shouldRetry)
        /\ put' = [put EXCEPT ![p] = [pc |-> "true", left |-> left]]
        /\ UNCHANGED hand
     \/ /\ ~StatusOk(h) /\ left = 0
        /\ put' = [put EXCEPT ![p] = [pc |-> "false", left |-> left]]
        /\ UNCHANGED hand
  /\ UNCHANGED <<srv, cli, get, noFault, history>>

-----------------------------------------------------------------------------
(* afsfuse_putFile.                                                        *)

\* One more message may still arrive when the client has given the stream up.
More(p, h) == p \notin Missing /\ h.got < Messages(Length[p])

\* A number is free if no running handler has a file of that name.  The file of an
\* ended one is truncated.
HasTemp(h) == h.pc \in {"receive", "unplaced"}
FreeSuffix(s) ==
  \A q \in Puts, b \in Attempts : HasTemp(hand[q][b]) => hand[q][b].suf # s

\* VARIANT: the server writes the file itself.
ReceiveInPlace(p, a, s) ==
  LET h == hand[p][a]
      k == h.got + 1
      at == IF k = 1 /\ srv.file = NoNode THEN Len(srv.nodes) + 1 ELSE srv.file
  IN
  /\ h.pc = "receive" /\ More(p, h)
  /\ srv' = [srv EXCEPT
       !.file = at,
       !.nodes = [i \in 1 .. (IF at > Len(@) THEN at ELSE Len(@)) |->
                    IF i = at
                    THEN WriteAt(IF k = 1 THEN <<>> ELSE srv.nodes[i], k, p)
                    ELSE srv.nodes[i]]]
  /\ hand' = [hand EXCEPT ![p][a].got = k]
  /\ UNCHANGED <<cli, put, get, noFault, history>>

\* One message is read and written.
Receive(p, a, s) ==
  LET h == hand[p][a]
      k == h.got + 1
  IN
  /\ h.pc = "receive" /\ More(p, h)
  /\ IF k = 1 THEN Collisions \/ FreeSuffix(s) ELSE s = h.suf
  /\ srv' = Received(srv, s, h.ino, k, IF Length[p] = 0 THEN NoChunk ELSE p)
  /\ hand' = [hand EXCEPT ![p][a] =
       [h EXCEPT !.got = k, !.suf = s, !.ino = NodeOf(srv, s, h.ino, k)]]
  /\ UNCHANGED <<cli, put, get, noFault, history>>

\* The server's file is the inode of handler h and holds the whole file of put p.
InPlace(p, h, disk) ==
  h.got > 0 /\ disk.file = h.ino /\ disk.nodes[h.ino] = WholeFile(p)

\* The puts whose last chunk is in a buffer still and belongs to the server's file.
Unfinished ==
  {q \in Puts : \E b \in Attempts :
     LET h == hand[q][b] IN
     h.pc = "flush" /\ InBuffer(q, h.got) /\ h.ino = srv.file}

\* Read returns false at the end of the stream and when it is broken alike.
StreamEnded(p, h) == h.pc = "receive" /\ (h.link = "down" \/ ~More(p, h))

Rename(p, a) ==
  LET h == hand[p][a] IN
  /\ StreamEnded(p, h)
  /\ srv' = IF h.got > 0 THEN Placed(srv, h.suf) ELSE srv
  /\ hand' = [hand EXCEPT ![p][a].pc = "flush"]
  /\ applied' = IF InPlace(p, h, srv') THEN applied \cup {p} ELSE applied
  /\ replaced' = IF srv'.file # srv.file THEN replaced \cup Unfinished ELSE replaced
  /\ UNCHANGED <<cli, put, get, noFault>>

\* A rename that fails sets err of the reply, which nobody reads, and the temporary
\* file stays.
RenameFails(p, a) ==
  LET h == hand[p][a] IN
  /\ StreamEnded(p, h) /\ h.got > 0
  /\ Fault("rename")
  /\ hand' = [hand EXCEPT ![p][a].pc = "unplaced"]
  /\ UNCHANGED <<srv, cli, put, get, history>>

\* The destructor of the ofstream, when the status is on its way.
Flush(p, a) ==
  LET h == hand[p][a] IN
  /\ h.pc \in {"flush", "unplaced"}
  /\ hand' = [hand EXCEPT ![p][a] = Ended(h, "reply")]
  /\ \/ /\ srv' = IF InBuffer(p, h.got)
                  THEN Wrote(srv, h.ino, h.got, p) ELSE srv
        /\ applied' = IF InPlace(p, h, srv') THEN applied \cup {p} ELSE applied
        /\ UNCHANGED noFault
     \/ /\ InBuffer(p, h.got)
        /\ Fault("tail")
        /\ UNCHANGED <<srv, applied>>
  /\ UNCHANGED <<cli, put, get, replaced>>

\* VARIANT: a write fails and the temporary file stays.
RefuseAndKeep(p, a) ==
  LET h == hand[p][a] IN
  /\ h.pc = "receive" /\ More(p, h)
  /\ Fault("disk")
  /\ hand' = [hand EXCEPT ![p][a] = Ended(h, "refused")]
  /\ UNCHANGED <<srv, cli, put, get, history>>

\* Opening or writing fails: the file is removed by its name.
Refuse(p, a) ==
  LET h == hand[p][a] IN
  /\ h.pc = "receive" /\ More(p, h)
  /\ Fault("disk")
  /\ srv' = IF h.got > 0 THEN Removed(srv, h.suf) ELSE srv
  /\ hand' = [hand EXCEPT ![p][a] = Ended(h, "refused")]
  /\ UNCHANGED <<cli, put, get, history>>

-----------------------------------------------------------------------------
(* rpc_getFile and afsfuse_getFile.                                        *)

\* The server maps the inode with the size it has now.
Open(g) ==
  /\ get[g].pc \in {"idle", "again"}
  /\ get' = [get EXCEPT ![g] =
       IF srv.file = NoNode
       THEN EndedGet(get[g], "false")
       ELSE [get[g] EXCEPT !.pc = "stream", !.src = srv.file, !.got = 0,
                           !.size = Len(srv.nodes[srv.file])]]
  /\ UNCHANGED <<srv, cli, put, hand, noFault, history>>

FreeLocal(s) ==
  \A g \in Gets : get[g].pc = "stream" => get[g].got = 0 \/ get[g].suf # s

\* A chunk is read from the map, sent and written on the client.
Chunk(g, s) ==
  LET r == get[g]
      k == r.got + 1
      v == IF r.size = 0 THEN NoChunk ELSE srv.nodes[r.src][k]
  IN
  /\ r.pc = "stream" /\ r.got < Messages(r.size)
  /\ IF k = 1 THEN Collisions \/ FreeLocal(s) ELSE s = r.suf
  /\ cli' = Received(cli, s, r.ino, k, v)
  /\ get' = [get EXCEPT ![g] =
       [r EXCEPT !.got = k, !.suf = s, !.ino = NodeOf(cli, s, r.ino, k), !.last = v]]
  /\ UNCHANGED <<srv, put, hand, noFault, history>>

Install(g) ==
  LET r == get[g] IN
  /\ r.pc = "stream" /\ r.got = Messages(r.size)
  /\ cli' = Placed(cli, r.suf)
  /\ get' = [get EXCEPT ![g].pc = "flush"]
  /\ UNCHANGED <<srv, put, hand, noFault, history>>

FlushGet(g) ==
  LET r == get[g] IN
  /\ r.pc = "flush"
  /\ cli' = IF InBuffer(r.last, r.got)
            THEN Wrote(cli, r.ino, r.got, r.last) ELSE cli
  /\ get' = [get EXCEPT ![g] = EndedGet(r, "true")]
  /\ UNCHANGED <<srv, put, hand, noFault, history>>

-----------------------------------------------------------------------------
(* Faults.                                                                 *)

Lose(h) == [h EXCEPT !.link = "down"]
Running == {"receive", "flush", "unplaced", "reply", "refused"}

\* The handlers die with the server.  A get ends with another status than
\* DEADLINE_EXCEEDED and is not retried.
Crash ==
  /\ Fault("crash")
  /\ hand' = [p \in Puts |-> [a \in Attempts |->
                IF hand[p][a].pc \in Running
                THEN Ended(Lose(hand[p][a]), "gone") ELSE hand[p][a]]]
  /\ get' = [g \in Gets |->
               IF get[g].pc = "stream" THEN EndedGet(get[g], "false") ELSE get[g]]
  /\ UNCHANGED <<srv, cli, put, history>>

BreakPut(p) ==
  /\ put[p].pc = "streaming" /\ hand[p][Current(p)].link = "up"
  /\ Fault("break")
  /\ hand' = [hand EXCEPT ![p][Current(p)] = Lose(hand[p][Current(p)])]
  /\ UNCHANGED <<srv, cli, put, get, history>>

\* A deadline is followed by another attempt, up to GetAttempts of them; any
\* other error is not.
BreakGet(g) ==
  /\ get[g].pc = "stream"
  /\ Fault("break")
  /\ \E deadline \in BOOLEAN :
       LET pc == IF deadline /\ get[g].left > 1 THEN "again" ELSE "false" IN
       get' = [get EXCEPT ![g] = [EndedGet(get[g], pc) EXCEPT !.left = get[g].left - 1]]
  /\ UNCHANGED <<srv, cli, put, hand, history>>

Die(p) ==
  /\ put[p].pc = "streaming"
  /\ Fault("client")
  /\ put' = [put EXCEPT ![p].pc = "dead"]
  /\ hand' = [hand EXCEPT ![p][Current(p)] = Lose(hand[p][Current(p)])]
  /\ UNCHANGED <<srv, cli, get, history>>

-----------------------------------------------------------------------------
Serve(p, a) ==
  (\E s \in Suffixes : Receive(p, a, s)) \/ Rename(p, a) \/ Flush(p, a)
GetStep(g) == (\E s \in Suffixes : Chunk(g, s)) \/ Install(g) \/ FlushGet(g)

Next ==
  \/ \E p \in Puts :
       \/ Begin(p) \/ AttemptEnds(p) \/ BreakPut(p) \/ Die(p)
       \/ \E a \in Attempts : Serve(p, a) \/ Refuse(p, a) \/ RenameFails(p, a)
  \/ \E g \in Gets : Open(g) \/ GetStep(g) \/ BreakGet(g)
  \/ Crash

Spec == Init /\ [][Next]_vars

\* What is under way goes on, in whatever order: calls and handlers have a thread
\* each.  No call has to begin and no fault to happen.
Step ==
  \/ \E p \in Puts : AttemptEnds(p) \/ \E a \in Attempts : Serve(p, a)
  \/ \E g \in Gets : GetStep(g) \/ (get[g].pc = "again" /\ Open(g))

FairSpec == Spec /\ WF_vars(Step)

-----------------------------------------------------------------------------
\* Every name leads to an inode of its own.
DiskOK(disk) ==
  /\ disk \in Disk
  /\ disk.file \in 0 .. Len(disk.nodes)
  /\ \A s \in Suffixes :
       /\ disk.temp[s] \in 0 .. Len(disk.nodes)
       /\ disk.temp[s] # NoNode =>
            disk.temp[s] # disk.file /\ \A t \in Suffixes \ {s} : disk.temp[t] # disk.temp[s]

PutState == [pc : {"idle", "streaming", "true", "false", "dead"}, left : 0 .. PutAttempts]
HandState ==
  [pc : Running \cup {"none", "gone"}, got : Nat, link : {"up", "down"},
   suf : Suffixes \cup {NoSuffix}, ino : Nat]
GetState ==
  [pc : {"idle", "again", "stream", "flush", "true", "false"},
   left : 0 .. GetAttempts, src : Nat, size : Nat, got : Nat,
   suf : Suffixes \cup {NoSuffix}, ino : Nat, last : Chunks \cup {NoChunk}]

TypeOK ==
  /\ DiskOK(srv) /\ DiskOK(cli)
  /\ put \in [Puts -> PutState]
  /\ hand \in [Puts -> [Attempts -> HandState]]
  /\ get \in [Gets -> GetState]
  /\ seen \subseteq Faults /\ faults \in 0 .. MaxFaults
  /\ applied \subseteq Puts /\ replaced \subseteq Puts

\* Chunks of two versions never come together in one file, on either side,
\* whatever breaks: every name leads to a beginning of one version.  A stream that
\* broke half-way is placed by afsfuse_putFile all the same, so this is the most
\* that holds of the server's file (the temporary name of putFile, the truncation
\* in OpenIfNecessary, the temporary file of each attempt of rpc_getFile).
Beginning(data) ==
  \E v \in Versions : /\ Len(data) <= Length[v]
                      /\ \A k \in DOMAIN data : data[k] = v
OneVersion ==
  /\ \A i \in Linked(srv) : Beginning(srv.nodes[i])
  /\ \A i \in Linked(cli) : Beginning(cli.nodes[i])

\* A put that returned true has had its whole file in place, at whichever of its
\* attempts, or all of it but what the buffer still had when the file of another put
\* was renamed over it: its answer is never that of a stream that broke.  (Not so for
\* a file that could not be opened, whose third attempt returns true, or when the
\* rename or the write of the destructor fails, which nobody hears of.)
TrueMeansStored ==
  seen \cap {"tail", "rename"} = {} =>
    \A p \in Puts \ Missing : put[p].pc = "true" => p \in applied \cup replaced

\* Everything comes to rest, whatever fails: rpc_putFile returns after three
\* attempts at most and rpc_getFile after MAX_NUM_RETRIES, each handler ends, also
\* that of a stream nobody waits for.  (No call is made twice.)
Quiet ==
  /\ \A p \in Puts : put[p].pc # "streaming"
  /\ \A p \in Puts, a \in Attempts : hand[p][a].pc \notin {"receive", "flush", "unplaced"}
  /\ \A g \in Gets : get[g].pc \in {"idle", "true", "false"}
CallsReturn == <>[]Quiet

\* At rest, no temporary file is left on either side unless the server or a stream
\* to a getter has died or the server's rename has failed: a failed write removes its
\* file, the others are renamed, also those of broken streams.
NothingLeft ==
  Quiet /\ seen \cap {"crash", "rename"} = {}
  => /\ \A s \in Suffixes : srv.temp[s] = NoNode
     /\ "break" \notin seen => \A s \in Suffixes : cli.temp[s] = NoNode

\* A client that gets a file while it is replaced has one whole version of it in
\* its cache when rpc_getFile has returned true ("file flush/write is atomic").
GetsAreWhole ==
  ( /\ cli.file # NoNode
    /\ \A g \in Gets : get[g].pc # "flush" )
  => \E v \in Versions : cli.nodes[cli.file] = WholeFile(v)

-----------------------------------------------------------------------------
(* Without broken streams, unwritten tails and dead callers, the calls     *)
(* implement whole-file operations.                                        *)

NoContent == <<Hole>>
ContentOf(disk) == IF disk.file = NoNode THEN NoContent ELSE disk.nodes[disk.file]
Putting == [p \in Puts |-> IF put[p].pc = "streaming" THEN "pending" ELSE put[p].pc]
View == [g \in Gets |-> IF get[g].pc = "stream" THEN srv.nodes[get[g].src] ELSE NoContent]

Store == INSTANCE WholeFileStore WITH
  File <- [p \in Puts |-> WholeFile(p)],
  First <- {NoContent, WholeFile(Initial)},
  store <- ContentOf(srv),
  cached <- ContentOf(cli),
  putting <- Putting,
  done <- applied,
  view <- View

\* Each put replaces the server's file as a whole while it is pending, and each get
\* puts into the cache what the server had at one instant of the call: the
\* temporary files, the renames and the retries after a crash are not seen.
ImplementsStore == Store!Spec
=============================================================================
