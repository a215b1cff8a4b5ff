----------------------------- MODULE Namespace -----------------------------
(***************************************************************************)
(* Calls on names: the FUSE operations client_mkdir, _rmdir, _unlink,      *)
(* _rename, _mknod, _create, _utimens, _getattr and _open                  *)
(* (afsfuse_client.cc), the remote calls they make with their deadlines    *)
(* and retries (AfsClient.h) and the handlers (afsfuse_server.cc).  Each   *)
(* client has its cache, a tree of its own in which it repeats what the    *)
(* server has done.                                                        *)
(*                                                                         *)
(* A client makes one call at a time: the kernel holds the lock of the     *)
(* directory during a call that changes it.  Contents and times are those  *)
(* of AfsSession; here a file is a number that stands for its content.     *)
(***************************************************************************)
EXTENDS FileTree

CONSTANTS
  Clients,
  Initial,      \* the server's tree at first
  HostDirs,     \* HostDirs[c]: the paths that are directories of the host of c too
  UsedKinds,    \* the operations that are called
  Tries,        \* MAX_NUM_RETRIES + 1 (13); 3 for rpc_putFile
  Faults,       \* the kinds of fault that happen
  MaxCalls, MaxFaults, MaxEvents   \* model bounds: calls, faults, and both together

FaultKinds == {"deadline", "crash"}

ASSUME TreeAssumption == Initial \in Trees /\ Rooted(Initial)
ASSUME KindsAssumption ==
  HostDirs \in [Clients -> SUBSET Paths] /\ UsedKinds \subseteq Kinds /\ Faults \subseteq FaultKinds
ASSUME TriesAssumption == Tries \in Nat \ {0}
ASSUME BoundsAssumption == MaxCalls \in Nat /\ MaxFaults \in Nat /\ MaxEvents \in Nat

VARIABLES
  server,   \* the tree on the server
  cache,    \* cache[c]: the tree in the cache of client c
  held,     \* held[c]: the files that client c has open
  litter,   \* litter[c]: the paths in directories beside which the cache of c has a temporary
            \* or recovery file that nobody has open
  call,     \* call[c]: the call that client c makes
  calls,    \* the number of calls so far
  late,     \* the requests that a client has given up and a handler still has
  faults,   \* the number of faults so far
  last,     \* history: which call has changed the server's tree last, by its file
  upset     \* history: the clients whose cache may differ from the server

vars == <<server, cache, held, litter, call, calls, late, faults, last, upset>>

-----------------------------------------------------------------------------
(* The contents: those on the server at first, an empty file that only the *)
(* client's open has made, and what the calls bring, by their number.      *)

Blank == 2
FirstNew == 10
NewFile(n) == FirstNew + n
NoOp == [kind |-> "none"]
CallAt(pc, op, file) ==
  [pc |-> pc, op |-> op, file |-> file, left |-> Tries,
   answer |-> "none", took |-> FALSE, mine |-> TRUE, result |-> "ok"]
NoCall == CallAt("idle", NoOp, None)

\* An open file: the name it was opened with, the path its temporary file is beside, and
\* its name now.  One that client_create has made has no temporary file.  Two handles
\* that agree in all this count as one.
NoTemp == <<>>
Handles == [name : Paths, temp : Paths \cup {NoTemp}, now : Paths]
Opened(op) ==
  [name |-> op.path, temp |-> IF op.kind = "create" THEN NoTemp ELSE op.path, now |-> op.path]

Init ==
  /\ server = Initial
  /\ cache = [c \in Clients |-> [p \in Paths |-> None]]
  /\ held = [c \in Clients |-> {}]
  /\ litter = [c \in Clients |-> {}]
  /\ call = [c \in Clients |-> NoCall]
  /\ calls = 0 /\ late = {} /\ faults = 0 /\ last = None /\ upset = {}

\* mirrorDirectoryStructure: directories of p that the cache lacks are made, unless
\* the HOST has a directory of the name of p's parent.
Mirrored(c, tree, p) ==
  IF Parent(p) \in HostDirs[c] THEN tree
  ELSE [q \in Paths |-> IF Under(p, q) /\ tree[q] = None /\ NoFileAbove(tree, q)
                        THEN Dir ELSE tree[q]]

-----------------------------------------------------------------------------
(* A call begins.                                                          *)

\* VARIANT: the directories are not mirrored before a file is fetched.
FetchOnly(c, op) == cache[c]

\* cacheFile, before rpc_getFile.
BeforeFetch(c, op) == Mirrored(c, cache[c], op.path)

NewCall(op, pc) == CallAt(pc, op, NewFile(calls))

\* What is asked of the server first; "local" if nothing, "fetch" if it is the file.
FirstStep(c, op) ==
  LET here == cache[c][op.path] IN
  CASE op.kind = "utimens" /\ IsFile(here)           -> "local"
    [] op.kind \in {"getattr", "open"} /\ here = Dir -> "done"
    [] op.kind = "open" /\ here = None               -> "fetch"
    [] OTHER                                         -> "rpc"

\* What client_getattr says, from the cache first.
View(c) == [p \in Paths |-> IF cache[c][p] # None THEN cache[c][p] ELSE server[p]]

Renames == {"rename", "renameFlags"}

\* The kernel looks names up before it makes a call, which may be late, and ends a rename
\* to the same name itself.  libfuse does not pass on that an open file is removed or
\* replaced, but renames it (.fuse_hidden).
MayCall(c, op) ==
  LET view == View(c) IN
  /\ op.kind = "unlink" => \A h \in held[c] : h.now # op.path
  /\ op.kind \in Renames => \A h \in held[c] : h.now # op.to
  /\ InDirectory(view, op.path) /\ InDirectory(view, op.to)
  /\ CASE op.kind \in {"mkdir", "mknod", "create"} -> view[op.path] = None
       [] op.kind = "rmdir"                       -> view[op.path] = Dir
       [] op.kind \in {"unlink", "open"}          -> IsFile(view[op.path])
       [] op.kind \in Renames                     ->
            /\ view[op.path] # None /\ op.path # op.to
            /\ ~Under(op.to, op.path) /\ ~Under(op.path, op.to)
            /\ view[op.to] # None => IsFile(view[op.to]) = IsFile(view[op.path])
       [] op.kind = "utimens"                     -> view[op.path] # None
       [] OTHER                                   -> TRUE

Begin(c, op) ==
  /\ call[c].pc = "idle" /\ calls < MaxCalls /\ calls + faults < MaxEvents
  /\ op.kind \in UsedKinds \ {"put"}
  /\ MayCall(c, op)
  /\ call' = [call EXCEPT ![c] = NewCall(op, FirstStep(c, op))]
  /\ cache' = IF FirstStep(c, op) = "fetch"
              THEN [cache EXCEPT ![c] = BeforeFetch(c, op)] ELSE cache
  /\ calls' = calls + 1
  /\ UNCHANGED <<server, held, litter, late, faults, last, upset>>

\* A file in the root leaves nothing in a directory that may be removed.
Litter(q) == IF Len(q) > 1 THEN {q} ELSE {}

\* The close of a small file that has been written (client_release; AfsSession has it in
\* detail, and large files).  A temporary file that its directory's rename has taken along
\* is not found again.  What is sent goes to the last component of the name it was opened
\* with, under which the cache has a recovery file only if that is the whole name.  A file
\* that client_create has made is sent from the cache.
Close(c, h) ==
  LET made == h.temp = NoTemp
      op == [kind |-> "put", path |-> IF made THEN h.now ELSE h.name, to |-> h.now]
      sent == IF made THEN IsFile(cache[c][h.now]) ELSE Len(h.name) = 1
      pc == IF sent THEN "rpc" ELSE IF h.temp = h.name THEN "local" ELSE "done"
  IN
  /\ call[c].pc = "idle" /\ calls < MaxCalls /\ calls + faults < MaxEvents
  /\ "put" \in UsedKinds
  /\ held' = [held EXCEPT ![c] = @ \ {h}]
  /\ litter' = IF pc = "done" THEN [litter EXCEPT ![c] = @ \cup Litter(h.temp)] ELSE litter
  /\ call' = [call EXCEPT ![c] = NewCall(op, pc)]
  /\ calls' = calls + 1
  /\ UNCHANGED <<server, cache, late, faults, last, upset>>

\* The close of a file that has not been written leaves its temporary file behind.
Leave(c, h) ==
  /\ call[c].pc = "idle"
  /\ held' = [held EXCEPT ![c] = @ \ {h}]
  /\ litter' = [litter EXCEPT ![c] = @ \cup Litter(h.temp)]
  /\ UNCHANGED <<server, cache, call, calls, late, faults, last, upset>>

-----------------------------------------------------------------------------
(* The local step, and the end of the call.                                *)

\* client_create: the directories are mirrored and the file is opened.  A file that
\* the server had before is empty here.
CreatedLocally(c) ==
  LET op == call[c].op
      tree == Mirrored(c, cache[c], op.path)
      made == IF call[c].mine THEN call[c].file ELSE Blank
  IN IF Can(tree, op) /\ InDirectory(tree, op.path) THEN Effect(tree, op, made) ELSE tree

NoLocalStep == {"getattr", "open"}

\* The local rename has no flags.
LocalOp(op) == IF op.kind = "renameFlags" THEN [op EXCEPT !.kind = "rename"] ELSE op

\* A directory with a temporary file in it is not empty.
Temps(c) == litter[c] \cup {h.temp : h \in held[c]}
Room(c, op) ==
  /\ op.kind = "rmdir" => \A q \in Temps(c) : ~Under(q, op.path)
  /\ op.kind = "rename" => \A q \in Temps(c) :
       /\ ~Under(q, op.to)
       /\ Under(q, op.path) => Moved(q, op.path, op.to) \in Paths

\* A close renames the recovery file over the cached one.
LocalWorks(c) ==
  LET op == LocalOp(call[c].op) IN
  CASE op.kind \in NoLocalStep -> TRUE
    [] op.kind = "create"      -> IsFile(CreatedLocally(c)[op.path])
    [] op.kind = "put"         -> InDirectory(cache[c], op.to) /\ cache[c][op.to] # Dir
    [] OTHER                   -> Can(cache[c], op) /\ Room(c, op)

\* VARIANT: a cached file keeps its old name.
AfterLocalWithoutRename(c) ==
  LET op == call[c].op IN
  CASE op.kind \in NoLocalStep \cup {"rename"} -> cache[c]
    [] op.kind = "create"                     -> CreatedLocally(c)
    [] ~LocalWorks(c)                         -> cache[c]
    [] op.kind = "put"                        -> [cache[c] EXCEPT ![op.to] = call[c].file]
    [] OTHER                                  -> Effect(cache[c], LocalOp(op), call[c].file)

AfterLocal(c) ==
  LET op == call[c].op IN
  CASE op.kind \in NoLocalStep -> cache[c]
    [] op.kind = "create"      -> CreatedLocally(c)
    [] ~LocalWorks(c)          -> cache[c]
    [] op.kind = "put"         -> [cache[c] EXCEPT ![op.to] = call[c].file]
    [] OTHER                   -> Effect(cache[c], LocalOp(op), call[c].file)

\* What returns 0 whatever happened.
Silent == {"rename", "renameFlags", "put", "open"}

\* libfuse gives an open file its new name in every rename, since all return 0.  The
\* temporary files in a directory move with it in the cache, if that rename is made, and
\* the map does not know.
NameAfter(op, q) ==
  IF op.kind \in Renames /\ Within(q, op.path) THEN Moved(q, op.path, op.to) ELSE q
TempAfter(op, q, done) ==
  IF op.kind \in Renames /\ done /\ Under(q, op.path) THEN Moved(q, op.path, op.to) ELSE q
HeldAfter(c, done) ==
  LET op == call[c].op
      After(h) == [h EXCEPT !.now = NameAfter(op, @), !.temp = TempAfter(op, @, done)]
  IN {After(h) : h \in held[c]} \cap Handles

\* The cache is changed if the server said ok, or else for utimens and a close, and a
\* step that fails there makes the call fail.
Finishes(c, answer) ==
  LET op == call[c].op
      goesOn == answer = "ok" \/ op.kind \in {"utimens", "put"}
      done == goesOn /\ LocalWorks(c)
      opens == op.kind \in {"open", "create"} /\ goesOn /\ IsFile(AfterLocal(c)[op.path])
      abandoned == IF op.kind = "put" /\ ~done THEN Litter(op.path) ELSE {}
      \* a close that has sent nothing, in vain, or to another name
      parted == op.kind = "put" /\ (call[c].pc = "local" \/ answer # "ok" \/ op.path # op.to)
  IN
  /\ cache' = IF goesOn THEN [cache EXCEPT ![c] = AfterLocal(c)] ELSE cache
  /\ held' = [held EXCEPT ![c] = HeldAfter(c, done) \cup (IF opens THEN {Opened(op)} ELSE {})]
  /\ litter' = [litter EXCEPT ![c] = {TempAfter(op, q, done) : q \in @} \cup abandoned]
  /\ call' = [call EXCEPT
       ![c].pc = "done", ![c].answer = "none",
       ![c].result = IF op.kind \in Silent \/ done THEN "ok" ELSE "error"]
  /\ upset' = IF (goesOn /\ ~done) \/ parted THEN upset \cup {c} ELSE upset
  /\ UNCHANGED <<server, calls, late, faults, last>>

-----------------------------------------------------------------------------
(* The remote call.                                                        *)

\* The handler runs.  For an open the answer is whether the server's file is newer
\* than the cached one, which it may be if it is another.
Execute(c) ==
  LET op == call[c].op
      result == Do(server, op, call[c].file)
      differs == IsFile(server[op.path]) /\ server[op.path] # cache[c][op.path]
  IN
  /\ call[c].pc = "rpc" /\ call[c].answer = "none"
  /\ server' = result
  /\ \E answer \in IF op.kind \in {"getattr", "open"} /\ IsFile(cache[c][op.path])
                   THEN {"ok"} \cup (IF differs THEN {"newer"} ELSE {})
                   ELSE {IF Can(server, op) THEN "ok" ELSE "error"} :
       call' = [call EXCEPT ![c].answer = answer,
                            ![c].took = @ \/ Can(server, op),
                            ![c].mine = op.kind = "create" => result[op.path] = call[c].file]
  /\ last' = IF result # server THEN call[c].file ELSE last
  /\ upset' = IF result # server THEN upset \cup (Clients \ {c}) ELSE upset
  /\ UNCHANGED <<cache, held, litter, calls, late, faults>>

\* VARIANT: an error is a reason to try again.
RetriedUntilOk(c) ==
  /\ call[c].pc = "rpc" /\ call[c].answer # "none"
  /\ IF call[c].answer = "error"
     THEN /\ call' = [call EXCEPT ![c].answer = "none"]
          /\ UNCHANGED <<server, cache, held, litter, calls, late, faults, last, upset>>
     ELSE Finishes(c, "ok")

\* The answer arrives in time.
Answered(c) ==
  /\ call[c].pc = "rpc"
  /\ \/ /\ call[c].answer \in {"ok", "error"}
        /\ Finishes(c, call[c].answer)
     \/ /\ call[c].answer = "newer"
        /\ call' = [call EXCEPT ![c].answer = "none", ![c].pc = "fetch"]
        /\ UNCHANGED <<server, cache, held, litter, calls, late, faults, last, upset>>

\* Nothing was asked, or no answer came: the result has never been filled in, and its
\* err() is 0.
Unanswered(c) == call[c].pc = "local" /\ Finishes(c, "ok")

Return(c) ==
  /\ call[c].pc = "done"
  /\ call' = [call EXCEPT ![c] = NoCall]
  /\ UNCHANGED <<server, cache, held, litter, calls, late, faults, last, upset>>

\* rpc_getFile, as a whole (Transfer has its parts): what cannot be opened, or be
\* renamed into place, is not cached, and the open goes on.
Fetch(c) ==
  LET p == call[c].op.path IN
  /\ call[c].pc = "fetch"
  /\ cache' = IF /\ IsFile(server[p])
                 /\ InDirectory(cache[c], p) /\ cache[c][p] # Dir
              THEN [cache EXCEPT ![c][p] = server[p]] ELSE cache
  /\ call' = [call EXCEPT ![c].pc = "local"]
  /\ UNCHANGED <<server, held, litter, calls, late, faults, last, upset>>

Fault(kind, c) ==
  /\ kind \in Faults /\ faults < MaxFaults /\ calls + faults < MaxEvents
  /\ faults' = faults + 1
  /\ upset' = upset \cup {c}

\* A stub gives up, or the call ends with a status that is not DEADLINE_EXCEEDED.
GivenUp(r) == [r EXCEPT !.answer = "none", !.pc = "local"]

\* It tries again.
Again(r) == [r EXCEPT !.answer = "none", !.left = @ - 1]

\* VARIANT: the counter is never compared.
NeverGivenUp(c) ==
  /\ call[c].pc \in {"rpc", "fetch"}
  /\ Fault("deadline", c)
  /\ call' = [call EXCEPT ![c] = Again(@)]
  /\ UNCHANGED <<server, cache, held, litter, calls, late, last>>

\* The request that c has sent at this attempt, if it has an effect.
Sent(c) ==
  IF call[c].op.kind \in {"utimens", "getattr", "open"} THEN {}
  ELSE {[op |-> call[c].op, file |-> call[c].file, left |-> call[c].left]}

\* The deadline passes: before the handler has run, which it then does late or never,
\* or before its answer arrives.
Deadline(c) ==
  /\ call[c].pc \in {"rpc", "fetch"}
  /\ Fault("deadline", c)
  /\ late' \in {late} \cup
       (IF call[c].pc = "rpc" /\ call[c].answer = "none" THEN {late \cup Sent(c)} ELSE {})
  /\ call' = [call EXCEPT ![c] =
       IF call[c].left = 1 THEN GivenUp(@) ELSE Again(@)]
  /\ UNCHANGED <<server, cache, held, litter, calls, last>>

\* A handler runs whose answer nobody waits for.
ExecuteLate(request) ==
  LET result == Do(server, request.op, request.file) IN
  /\ request \in late
  /\ late' = late \ {request}
  /\ server' = result
  /\ last' = IF result # server THEN request.file ELSE last
  /\ upset' = IF result # server THEN Clients ELSE upset
  /\ call' = [c \in Clients |->
       [call[c] EXCEPT !.took = @ \/ (call[c].file = request.file
                                        /\ Can(server, request.op))]]
  /\ UNCHANGED <<cache, held, litter, calls, faults>>

\* The server dies, with its handlers, and is started again.  Only rpc_putFile tries
\* again.
Crash ==
  /\ "crash" \in Faults /\ faults < MaxFaults /\ calls + faults < MaxEvents
  /\ faults' = faults + 1
  /\ upset' = upset \cup {c \in Clients : call[c].pc \in {"rpc", "fetch"}}
  /\ call' = [c \in Clients |->
       IF call[c].pc \notin {"rpc", "fetch"} THEN call[c]
       ELSE IF call[c].op.kind = "put" /\ call[c].left > 1
            THEN Again(call[c]) ELSE GivenUp(call[c])]
  /\ late' = {}
  /\ UNCHANGED <<server, cache, held, litter, calls, last>>

-----------------------------------------------------------------------------
Progress(c) ==
  Execute(c) \/ Answered(c) \/ Fetch(c) \/ Unanswered(c) \/ Return(c)

Next ==
  \/ \E c \in Clients :
       \/ \E op \in Operations : Begin(c, op)
       \/ \E h \in held[c] : Close(c, h) \/ Leave(c, h)
       \/ Progress(c)
       \/ Deadline(c)
  \/ \E request \in late : ExecuteLate(request)
  \/ Crash

Spec == Init /\ [][Next]_vars

\* A call that was begun goes on: it has a thread of the client, and a handler on
\* the server.  Nothing makes a call begin, a deadline pass or a late handler run.
FairSpec == Spec /\ WF_vars(\E c \in Clients : Progress(c))

-----------------------------------------------------------------------------
CallState ==
  [pc : {"idle", "rpc", "fetch", "local", "done"}, op : Operations \cup {NoOp}, file : Nat,
   left : 1 .. Tries, answer : {"none", "ok", "error", "newer"},
   took : BOOLEAN, mine : BOOLEAN, result : {"ok", "error"}]

TypeOK ==
  /\ server \in Trees /\ cache \in [Clients -> Trees]
  /\ held \in [Clients -> SUBSET Handles] /\ litter \in [Clients -> SUBSET Paths]
  /\ call \in [Clients -> CallState]
  /\ calls \in 0 .. MaxCalls /\ faults \in 0 .. MaxFaults
  /\ late \subseteq [op : Operations, file : Nat, left : 1 .. Tries]
  /\ last \in Nat /\ upset \subseteq Clients

\* What a client has in its cache is what the server has, between its calls, until
\* another client or a late handler changes the server, a remote call fails, a step
\* fails that the client makes in its cache after the server has made it, or a close
\* sends a file to another name or not at all.  (From then on it may differ for ever:
\* nothing brings removed or renamed names up to date.)
CacheAgrees ==
  \A c \in Clients \ upset :
    call[c].pc = "idle" =>
      \A p \in Paths : cache[c][p] # None => cache[c][p] = server[p]

\* Under the same conditions an open of a file of the server leaves it in the cache,
\* wherever it is: its directories are made there first.  (Not so when the host has a
\* directory of that name: mirrorDirectoryStructure looks there, not in the cache.)
OpenHasFile ==
  \A c \in Clients \ upset :
    LET r == call[c] IN
    r.pc = "done" /\ r.op.kind = "open" /\ Parent(r.op.path) \notin HostDirs[c]
    => IsFile(cache[c][r.op.path])

\* A call that returns 0 has been carried out ("if the client receives any other
\* status error message, it knows the RPC failed").
SuccessHappened ==
  \A c \in Clients :
    LET r == call[c] IN
    r.pc = "done" /\ r.op.kind \in {"mkdir", "mknod", "create", "rmdir", "unlink"}
    => (r.result = "ok" => r.took)

\* Every call returns, whatever fails, after MAX_NUM_RETRIES retries at most.
CallsReturn == <>[](\A c \in Clients : call[c].pc = "idle")

\* However often it is sent, a call changes the server at most once per attempt and
\* never twice in a row: what it has done makes its repetition fail, or change nothing,
\* also that of a handler which runs when the caller has long given up.
Atomic == INSTANCE AtomicTree WITH
  Callers <- Clients,
  Files <- {NewFile(n) : n \in 0 .. MaxCalls},
  Attempts <- 1 .. Tries,
  Idle <- <<>>,
  First <- Initial,
  tree <- server,
  pending <- [c \in Clients |->
                IF call[c].pc = "idle" THEN <<>> ELSE <<call[c].op, call[c].file>>],
  given <- {<<request.op, request.file, request.left>> : request \in late}

ImplementsAtomicTree == Atomic!Spec
=============================================================================
