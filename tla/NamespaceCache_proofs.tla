---------------------- MODULE NamespaceCache_proofs ----------------------
(***************************************************************************)
(* A client's cache follows the server: CacheAgrees and OpenHasFile of     *)
(* Namespace, for any sets of clients and paths, any directories of the    *)
(* hosts, and any number of calls, retries and faults.                     *)
(***************************************************************************)
EXTENDS Namespace_proofs

-----------------------------------------------------------------------------
(* The invariant.  While a call is under way the server is ahead of the    *)
(* cache by the local step that is to come.                                *)

\* The remote part of a call is not answered yet, or was and its local part is to come.
Asking(c) == call[c].pc = "rpc" /\ call[c].answer = "none"
Carried(c) == call[c].pc = "rpc" /\ call[c].answer = "ok"

\* What the cache will be.
CacheFits(c) ==
  LET op == call[c].op IN
  IF Carried(c)
  THEN (op.kind = "put" => op.path = op.to) /\ LocalWorks(c) => Agrees(AfterLocal(c), server)
  ELSE Agrees(cache[c], server)

\* What the kernel has found remains so until the handler runs.
Asked(c) ==
  LET op == call[c].op IN
  /\ Asking(c) /\ op.kind = "create" => server[op.path] = None
  /\ call[c].pc = "fetch" \/ (call[c].pc = "rpc" /\ call[c].answer = "newer")
       => op.kind \in {"open", "getattr"} /\ IsFile(server[op.path])
  /\ call[c].pc = "local" => op.kind \in {"open", "getattr", "utimens", "put"}

\* An open has the file in the cache, or can fetch it.
OpenFinds(c) ==
  LET p == call[c].op.path IN
  call[c].op.kind = "open" =>
    /\ call[c].pc = "rpc" => IsFile(cache[c][p])
    /\ call[c].pc = "fetch" =>
         /\ IsFile(server[p]) /\ cache[c][p] # Dir
         /\ IsFile(cache[c][p]) \/ Parent(p) \in HostDirs[c] \/ InDirectory(cache[c], p)
    /\ call[c].pc \in {"local", "done"} /\ Parent(p) \notin HostDirs[c] => IsFile(cache[c][p])

Follows(c) == CacheFits(c) /\ Asked(c) /\ OpenFinds(c)

CacheInv == TypeInv /\ Rooted(server) /\ \A c \in Clients \ upset : Follows(c)

LEMMA CacheTypes ==
  ASSUME TypeInv, NEW c \in Clients
  PROVE  /\ cache[c] \in Trees /\ server \in Trees /\ call[c] \in CallState
         /\ call[c].pc # "idle" => call[c].op \in Operations /\ call[c].op.path \in Paths
         /\ call[c].pc # "idle" => IsFile(call[c].file)
<1>1. call[c].pc # "idle" => call[c].op \in Operations /\ call[c].file \in FirstNew .. NewFile(calls) - 1
  BY DEF TypeInv, Begun
<1>2. call[c].pc # "idle" => IsFile(call[c].file) BY <1>1 DEF IsFile, Dir, FirstNew
<1>3. \A op \in Operations : op.path \in Paths BY DEF Operations
<1> QED BY <1>1, <1>2, <1>3 DEF TypeInv, TypeOK

\* What has a number that stands for nothing, a directory or a file.
LEMMA Entries ==
  ASSUME NEW tree \in Trees, NEW p \in Paths
  PROVE  /\ tree[p] # None /\ tree[p] # Dir <=> IsFile(tree[p])
         /\ IsFile(tree[p]) => tree[p] # None /\ tree[p] # Dir
BY DEF Trees, IsFile, None, Dir

\* A client whose call, cache and server have not changed.
LEMMA FollowsKept ==
  ASSUME NEW d \in Clients, Follows(d),
         server' = server, cache'[d] = cache[d], held'[d] = held[d], litter'[d] = litter[d],
         call'[d].pc = call[d].pc, call'[d].op = call[d].op, call'[d].file = call[d].file,
         call'[d].answer = call[d].answer, call'[d].mine = call[d].mine
  PROVE  Follows(d)'
<1>1. AfterLocal(d)' = AfterLocal(d) /\ (LocalWorks(d)' <=> LocalWorks(d))
  <2>1. CreatedLocally(d)' = CreatedLocally(d) BY DEF CreatedLocally
  <2>2. Temps(d)' = Temps(d) BY DEF Temps
  <2>3. \A op : Room(d, op)' <=> Room(d, op) BY <2>2 DEF Room
  <2>4. LocalWorks(d)' <=> LocalWorks(d) BY <2>1, <2>3 DEF LocalWorks
  <2> QED BY <2>1, <2>4 DEF AfterLocal
<1>2. (Carried(d)' <=> Carried(d)) /\ (Asking(d)' <=> Asking(d)) BY DEF Carried, Asking
<1>3. CacheFits(d)' BY <1>1, <1>2 DEF Follows, CacheFits
<1>4. Asked(d)' BY <1>2 DEF Follows, Asked
<1>5. OpenFinds(d)' BY DEF Follows, OpenFinds
<1> QED BY <1>3, <1>4, <1>5 DEF Follows

\* A step of one client that leaves the server alone.
LEMMA OneFollows ==
  ASSUME CacheInv, TypeInv', NEW c \in Clients, server' = server, upset \subseteq upset',
         \A d \in Clients \ {c} :
           cache'[d] = cache[d] /\ held'[d] = held[d] /\ litter'[d] = litter[d] /\ call'[d] = call[d],
         c \notin upset' => Follows(c)'
  PROVE  CacheInv'
<1>1. ASSUME NEW d \in Clients \ upset' PROVE Follows(d)'
  <2>1. CASE d = c BY <2>1, <1>1
  <2>2. CASE d # c
    <3>1. d \in Clients /\ Follows(d) BY <1>1 DEF CacheInv
    <3> QED BY <3>1, <2>2, FollowsKept
  <2> QED BY <2>1, <2>2
<1> QED BY <1>1 DEF CacheInv

-----------------------------------------------------------------------------
(* mirrorDirectoryStructure.                                               *)

LEMMA MirroredFacts ==
  ASSUME NEW c \in Clients, NEW tree \in Trees, NEW p \in Paths
  PROVE  /\ Mirrored(c, tree, p)[p] = tree[p]
         /\ \A q \in Paths : \/ Mirrored(c, tree, p)[q] = tree[q]
                             \/ Under(p, q) /\ Mirrored(c, tree, p)[q] = Dir
<1>1. ~Under(p, p) BY UnderNotItself
<1> QED BY <1>1 DEF Mirrored, Trees

\* What the server has a file under is a directory there.
LEMMA MirroredAgrees ==
  ASSUME NEW c \in Clients, NEW tree \in Trees, NEW p \in Paths,
         Rooted(server), server[p] # None, Agrees(tree, server)
  PROVE  Agrees(Mirrored(c, tree, p), server)
BY MirroredFacts DEF Agrees, Rooted

LEMMA MirroredDirectory ==
  ASSUME NEW c \in Clients, NEW tree \in Trees, NEW p \in Paths,
         Rooted(server), server[p] # None, Agrees(tree, server), Parent(p) \notin HostDirs[c]
  PROVE  InDirectory(Mirrored(c, tree, p), p)
<1>1. CASE Len(p) = 1 BY <1>1 DEF InDirectory
<1>2. CASE Len(p) # 1
  <2>1. PICK n \in Nat : n = Len(p) /\ n > 0 BY PathTypes
  <2>2. n > 1 BY <1>2, <2>1
  <2>3. Len(p) > 1 BY <2>1, <2>2
  <2> DEFINE d == Parent(p)
  <2>4. d \in Paths /\ Under(p, d) BY <2>3, ParentFacts
  <2>5. tree[d] # None => tree[d] = Dir BY <2>4 DEF Agrees, Rooted
  <2>6. NoFileAbove(tree, d)
    <3> SUFFICES ASSUME NEW q \in Paths, Under(d, q) PROVE ~IsFile(tree[q]) BY DEF NoFileAbove
    <3>1. server[q] = Dir BY <2>4, UnderTransitive DEF Rooted
    <3> QED BY <3>1 DEF Agrees, IsFile, None, Dir
  <2>7. Mirrored(c, tree, p)[d] = Dir BY <2>4, <2>5, <2>6 DEF Mirrored
  <2> QED BY <2>4, <2>7 DEF InDirectory
<1> QED BY <1>1, <1>2

-----------------------------------------------------------------------------
(* A call begins.                                                          *)

\* What the kernel finds is what the server has.
LEMMA ViewIsServer ==
  ASSUME NEW c \in Clients, Agrees(cache[c], server), NEW p \in Paths
  PROVE  View(c)[p] = server[p]
BY DEF View, Agrees

LEMMA AtRest ==
  ASSUME NEW c \in Clients, Follows(c), call[c].pc \in {"idle", "fetch", "local", "done"}
  PROVE  Agrees(cache[c], server)
BY DEF Follows, CacheFits, Carried

LEMMA NewCallFields ==
  ASSUME TypeInv, NEW c \in Clients, NEW op, NEW pc, call' = [call EXCEPT ![c] = NewCall(op, pc)]
  PROVE  /\ call'[c].pc = pc /\ call'[c].op = op /\ call'[c].answer = "none"
         /\ call'[c].file = NewFile(calls)
         /\ \A d \in Clients \ {c} : call'[d] = call[d]
<1>1. call \in [Clients -> CallState] BY DEF TypeInv, TypeOK
<1>2. call'[c] = NewCall(op, pc) /\ \A d \in Clients \ {c} : call'[d] = call[d] BY <1>1
<1> QED BY <1>2 DEF NewCall, CallAt

LEMMA BeginFollows ==
  ASSUME CacheInv, TypeInv', NEW c \in Clients, NEW op \in Operations, Begin(c, op)
  PROVE  CacheInv'
<1> DEFINE p == op.path
<1>0. PICK first \in {"rpc", "fetch", "local", "done"} : first = FirstStep(c, op) BY FirstStepType
<1>1. TypeInv /\ Rooted(server) /\ cache \in [Clients -> Trees] BY DEF CacheInv, TypeInv, TypeOK
<1>2. /\ call[c].pc = "idle" /\ op.kind # "put" /\ MayCall(c, op)
      /\ call' = [call EXCEPT ![c] = NewCall(op, first)]
      /\ cache' = IF first = "fetch" THEN [cache EXCEPT ![c] = BeforeFetch(c, op)] ELSE cache
      /\ UNCHANGED <<server, held, litter, upset>>
  BY <1>0 DEF Begin
<1>3. /\ call'[c].pc = first /\ call'[c].op = op /\ call'[c].answer = "none"
      /\ \A d \in Clients \ {c} : call'[d] = call[d]
  <2>1. call' = [call EXCEPT ![c] = NewCall(op, first)] BY <1>2
  <2>2. /\ call'[c].pc = first /\ call'[c].op = op /\ call'[c].answer = "none"
        /\ call'[c].file = NewFile(calls)
        /\ \A d \in Clients \ {c} : call'[d] = call[d]
    BY <1>1, <2>1, NewCallFields
  <2> QED BY <2>2
<1>4. p \in Paths /\ op.to \in Paths /\ cache[c] \in Trees /\ server \in Trees
  BY <1>1, CacheTypes DEF Operations
<1>5. cache'[c] = IF first = "fetch" THEN Mirrored(c, cache[c], p) ELSE cache[c]
  BY <1>1, <1>2 DEF BeforeFetch
<1>6. \A d \in Clients \ {c} : cache'[d] = cache[d] BY <1>1, <1>2
<1>8. ASSUME c \notin upset' PROVE Follows(c)'
  <2>1. Follows(c) BY <1>2, <1>8 DEF CacheInv
  <2>2. Agrees(cache[c], server) BY <1>2, <2>1, AtRest
  <2>3. \A q \in Paths : View(c)[q] = server[q] BY <2>2, ViewIsServer
  <2>4. op.kind = "open" => IsFile(server[p]) BY <1>2, <1>4, <2>3 DEF MayCall, Renames
  <2>5. first = "fetch" => op.kind = "open" /\ cache[c][p] = None BY <1>0 DEF FirstStep
  <2>6. Agrees(cache'[c], server)
    <3>1. CASE first = "fetch"
      <4>1. server[p] # None BY <2>4, <2>5, <3>1, <1>4, Entries
      <4> QED BY <1>1, <1>4, <1>5, <2>2, <3>1, <4>1, MirroredAgrees
    <3>2. CASE first # "fetch" BY <1>5, <2>2, <3>2
    <3> QED BY <3>1, <3>2
  <2>7. CacheFits(c)' BY <1>2, <1>3, <2>6 DEF CacheFits, Carried
  <2>8. Asked(c)'
    <3>1. op.kind = "create" => server[p] = None BY <1>2, <1>4, <2>3 DEF MayCall, Renames
    <3>2. first = "local" => op.kind = "utimens" BY <1>0 DEF FirstStep
    <3> QED BY <1>2, <1>3, <2>4, <2>5, <3>1, <3>2 DEF Asked, Asking
  <2>9. OpenFinds(c)'
    <3> SUFFICES ASSUME op.kind = "open"
                 PROVE  /\ first = "rpc" => IsFile(cache'[c][p])
                        /\ first = "fetch" =>
                             /\ IsFile(server[p]) /\ cache'[c][p] # Dir
                             /\ Parent(p) \in HostDirs[c] \/ InDirectory(cache'[c], p)
                        /\ first \notin {"local", "done"}
      BY <1>2, <1>3 DEF OpenFinds
    <3>1. IsFile(server[p]) /\ server[p] # None /\ server[p] # Dir BY <2>4, <1>4, Entries
    <3>2. cache[c][p] # None => IsFile(cache[c][p]) /\ cache[c][p] # Dir
      BY <1>4, <2>2, <3>1 DEF Agrees
    <3>3. first = IF cache[c][p] = None THEN "fetch" ELSE "rpc"
      BY <1>0, <3>2 DEF FirstStep, None, Dir
    <3>4. CASE cache[c][p] # None BY <1>5, <3>2, <3>3, <3>4
    <3>5. CASE cache[c][p] = None
      <4>1. cache'[c] = Mirrored(c, cache[c], p) BY <1>5, <3>3, <3>5
      <4>2. cache'[c][p] = None BY <1>4, <3>5, <4>1, MirroredFacts
      <4>3. Parent(p) \in HostDirs[c] \/ InDirectory(cache'[c], p)
        BY <1>1, <1>4, <2>2, <3>1, <4>1, MirroredDirectory
      <4> QED BY <3>1, <3>3, <3>5, <4>2, <4>3 DEF None, Dir
    <3> QED BY <3>4, <3>5
  <2> QED BY <2>7, <2>8, <2>9 DEF Follows
<1> QED BY <1>2, <1>3, <1>6, <1>8, OneFollows

\* A file is closed: nothing has happened to it yet.
LEMMA CloseFollows ==
  ASSUME CacheInv, TypeInv', NEW c \in Clients, NEW h \in held[c], Close(c, h)
  PROVE  CacheInv'
<1>1. TypeInv /\ held \in [Clients -> SUBSET Handles] /\ litter \in [Clients -> SUBSET Paths]
  BY DEF CacheInv, TypeInv, TypeOK
<1>2. PICK op \in Operations, pc \in {"rpc", "local", "done"} :
        call' = [call EXCEPT ![c] = NewCall(op, pc)] /\ op.kind = "put"
  BY <1>1, CloseBegins
<1>3. call'[c].pc = pc /\ call'[c].op = op /\ call'[c].answer = "none"
      /\ \A d \in Clients \ {c} : call'[d] = call[d]
  <2>1. call' = [call EXCEPT ![c] = NewCall(op, pc)] BY <1>2
  <2>2. /\ call'[c].pc = pc /\ call'[c].op = op /\ call'[c].answer = "none"
        /\ call'[c].file = NewFile(calls)
        /\ \A d \in Clients \ {c} : call'[d] = call[d]
    BY <1>1, <2>1, NewCallFields
  <2> QED BY <2>2
<1>4. call[c].pc = "idle" /\ UNCHANGED <<server, cache, upset>> BY DEF Close
<1>5. \A d \in Clients \ {c} : held'[d] = held[d] /\ litter'[d] = litter[d]
  <2>1. held' = [held EXCEPT ![c] = @ \ {h}] BY DEF Close
  <2>2. litter' = litter \/ litter' = [litter EXCEPT ![c] = @ \cup Litter(h.temp)] BY DEF Close
  <2> QED BY <1>1, <2>1, <2>2
<1>6. ASSUME c \notin upset' PROVE Follows(c)'
  <2>1. Follows(c) BY <1>4, <1>6 DEF CacheInv
  <2>2. Agrees(cache[c], server) BY <1>4, <2>1, AtRest
  <2>3. CacheFits(c)' BY <1>3, <1>4, <2>2 DEF CacheFits, Carried
  <2>4. Asked(c)' BY <1>2, <1>3 DEF Asked, Asking
  <2>5. OpenFinds(c)' BY <1>2, <1>3 DEF OpenFinds
  <2> QED BY <2>3, <2>4, <2>5 DEF Follows
<1> QED BY <1>3, <1>4, <1>5, <1>6, OneFollows

LEMMA LeaveFollows ==
  ASSUME CacheInv, TypeInv', NEW c \in Clients, NEW h \in held[c], Leave(c, h)
  PROVE  CacheInv'
<1>1. /\ held \in [Clients -> SUBSET Handles] /\ litter \in [Clients -> SUBSET Paths]
      /\ call[c].pc = "idle" /\ UNCHANGED <<server, cache, call, upset>>
  BY DEF CacheInv, TypeInv, TypeOK, Leave
<1>2. \A d \in Clients \ {c} : held'[d] = held[d] /\ litter'[d] = litter[d]
  BY <1>1 DEF Leave
<1>3. ASSUME c \notin upset' PROVE Follows(c)'
  <2>1. Follows(c) BY <1>1, <1>3 DEF CacheInv
  <2>2. CacheFits(c)' BY <1>1, <2>1 DEF Follows, CacheFits, Carried
  <2>3. Asked(c)' BY <1>1, <2>1 DEF Follows, Asked, Asking
  <2>4. OpenFinds(c)' BY <1>1, <2>1 DEF Follows, OpenFinds
  <2> QED BY <2>2, <2>3, <2>4 DEF Follows
<1> QED BY <1>1, <1>2, <1>3, OneFollows

-----------------------------------------------------------------------------
(* The handler runs.                                                       *)

LEMMA ExecuteFields ==
  ASSUME TypeInv, NEW c \in Clients, Execute(c)
  PROVE  LET op == call[c].op IN
         /\ server' = Do(server, op, call[c].file)
         /\ call'[c].pc = "rpc" /\ call'[c].op = op /\ call'[c].file = call[c].file
         /\ call'[c].mine = (op.kind = "create" => server'[op.path] = call[c].file)
         /\ IF op.kind \in {"getattr", "open"} /\ IsFile(cache[c][op.path])
            THEN \/ call'[c].answer = "ok"
                 \/ call'[c].answer = "newer" /\ IsFile(server[op.path])
            ELSE call'[c].answer = IF Can(server, op) THEN "ok" ELSE "error"
         /\ \A d \in Clients \ {c} : call'[d] = call[d]
         /\ cache' = cache /\ held' = held /\ litter' = litter
         /\ server' # server => upset' = upset \cup (Clients \ {c})
         /\ server' = server => upset' = upset
<1> DEFINE op == call[c].op
           result == Do(server, op, call[c].file)
           differs == IsFile(server[op.path]) /\ server[op.path] # cache[c][op.path]
           answers == IF op.kind \in {"getattr", "open"} /\ IsFile(cache[c][op.path])
                      THEN {"ok"} \cup (IF differs THEN {"newer"} ELSE {})
                      ELSE {IF Can(server, op) THEN "ok" ELSE "error"}
<1>1. call \in [Clients -> CallState] /\ call[c].pc = "rpc" BY DEF TypeInv, TypeOK, Execute
<1>2. PICK answer \in answers :
        call' = [call EXCEPT ![c].answer = answer, ![c].took = @ \/ Can(server, op),
                             ![c].mine = op.kind = "create" => result[op.path] = call[c].file]
  BY DEF Execute
<1>3. server' = result /\ cache' = cache /\ held' = held /\ litter' = litter
      /\ upset' = IF result # server THEN upset \cup (Clients \ {c}) ELSE upset
  BY DEF Execute
<1> DEFINE mine == op.kind = "create" => result[op.path] = call[c].file
           took == call[c].took \/ Can(server, op)
<1>4. call' = [call EXCEPT ![c].answer = answer, ![c].took = took, ![c].mine = mine] BY <1>2
<1>5. IF op.kind \in {"getattr", "open"} /\ IsFile(cache[c][op.path])
      THEN answer = "ok" \/ (answer = "newer" /\ IsFile(server[op.path]))
      ELSE answer = IF Can(server, op) THEN "ok" ELSE "error"
  BY <1>2
<1> HIDE DEF mine, took, answers, differs, result
<1>6. call'[c] = [call[c] EXCEPT !.answer = answer, !.took = took, !.mine = mine]
      /\ \A d \in Clients \ {c} : call'[d] = call[d]
  BY <1>1, <1>4
<1>7. /\ call'[c].pc = "rpc" /\ call'[c].op = op /\ call'[c].file = call[c].file
      /\ call'[c].answer = answer /\ call'[c].mine = mine
  BY <1>1, <1>6 DEF CallState
<1>8. mine = (op.kind = "create" => server'[op.path] = call[c].file) BY <1>3 DEF mine
<1> QED BY <1>3, <1>5, <1>6, <1>7, <1>8 DEF result

\* The local step of a create that the server has carried out.
LEMMA CreatedAgrees ==
  ASSUME TypeInv, Rooted(server), NEW c \in Clients, call[c].pc # "idle", call[c].op.kind = "create",
         Agrees(cache[c], server), server[call[c].op.path] = None, Can(server, call[c].op),
         NEW entry, entry = call[c].file,
         NEW tree, tree = Mirrored(c, cache[c], call[c].op.path)
  PROVE  Agrees(Placed(tree, call[c].op.path, entry), Placed(server, call[c].op.path, entry))
<1> DEFINE p == call[c].op.path
<1>1. cache[c] \in Trees /\ server \in Trees /\ p \in Paths BY CacheTypes
<1>2. tree \in Trees BY <1>1, MirroredIsTree
<1>3. NoFileAbove(server, p) BY DEF Can
<1>4. tree[p] = None BY <1>1, MirroredFacts DEF Agrees
<1>5. \A q \in Paths \ {p} : tree[q] # None => tree[q] = server[q] \/ (Under(p, q) /\ tree[q] = Dir)
  BY <1>1, MirroredFacts DEF Agrees
<1> HIDE DEF p
<1> QED BY <1>1, <1>2, <1>3, <1>4, <1>5, PlacedAgrees DEF p

LEMMA ExecuteFits ==
  ASSUME CacheInv, NEW c \in Clients, Execute(c), Follows(c)
  PROVE  CacheFits(c)'
<1> DEFINE op == call[c].op
           file == call[c].file
<1>1. TypeInv /\ Rooted(server) /\ call[c].pc = "rpc" /\ Asking(c) /\ ~Carried(c)
  BY DEF CacheInv, Execute, Asking, Carried
<1>2. /\ server \in Trees /\ cache[c] \in Trees /\ op \in Operations /\ op.path \in Paths
      /\ op.kind \in Kinds
  BY <1>1, CacheTypes DEF Operations
<1>3. /\ server' = Do(server, op, file) /\ cache' = cache /\ held' = held /\ litter' = litter
      /\ call'[c].pc = "rpc" /\ call'[c].op = op /\ call'[c].file = file
  BY <1>1, ExecuteFields
<1>4. call'[c].mine = (op.kind = "create" => server'[op.path] = file) BY <1>1, ExecuteFields
<1>5. IF op.kind \in {"getattr", "open"} /\ IsFile(cache[c][op.path])
      THEN call'[c].answer \in {"ok", "newer"}
      ELSE call'[c].answer = IF Can(server, op) THEN "ok" ELSE "error"
  BY <1>1, ExecuteFields
<1>6. Agrees(cache[c], server) BY <1>1 DEF Follows, CacheFits
<1>7. op.kind = "create" => server[op.path] = None BY <1>1 DEF Follows, Asked
<1> HIDE DEF op, file
<1>8. CASE call'[c].answer # "ok"
  <2>1. server' = server
    <3>1. CASE op.kind \in {"getattr", "open"} BY <1>3, <3>1 DEF Do, Effect
    <3>2. CASE op.kind \notin {"getattr", "open"} BY <1>3, <1>5, <1>8, <3>2 DEF Do
    <3> QED BY <3>1, <3>2
  <2>2. ~Carried(c)' BY <1>8 DEF Carried
  <2> QED BY <1>3, <1>6, <2>1, <2>2 DEF CacheFits
<1>9. CASE call'[c].answer = "ok"
  <2>1. Carried(c)' BY <1>3, <1>9 DEF Carried
  <2> SUFFICES ASSUME op.kind = "put" => op.path = op.to, LocalWorks(c)'
               PROVE  Agrees(AfterLocal(c)', server')
    BY <1>3, <2>1 DEF CacheFits
  <2>2. CASE op.kind \in {"getattr", "open"}
    <3>1. server' = server BY <1>3, <2>2 DEF Do, Effect
    <3>2. AfterLocal(c)' = cache[c] BY <1>3, <2>2 DEF AfterLocal, NoLocalStep
    <3> QED BY <1>6, <2>2, <3>1, <3>2
  <2>3. CASE op.kind = "put"
    <3>1. Can(server, op) /\ op.to = op.path BY <1>5, <1>9, <2>3
    <3>2. server' = Placed(server, op.path, file) BY <1>3, <2>3, <3>1 DEF Do, Effect
    <3>3. AfterLocal(c)' = [cache[c] EXCEPT ![op.path] = file]
      BY <1>3, <2>3, <3>1 DEF AfterLocal, NoLocalStep
    <3> DEFINE mine == [cache[c] EXCEPT ![op.path] = file]
    <3>4. NoFileAbove(server, op.path) BY <2>3, <3>1 DEF Can
    <3>5. mine \in Trees /\ mine[op.path] = file BY <1>1, <1>2, CacheTypes DEF Trees, CallState, file
    <3>6. \A q \in Paths \ {op.path} : mine[q] # None => mine[q] = server[q]
      BY <1>2, <1>6 DEF Agrees, Trees
    <3> HIDE DEF mine
    <3>7. Agrees(mine, Placed(server, op.path, file))
      BY <1>2, <3>4, <3>5, <3>6, PlacedAgrees
    <3> QED BY <3>2, <3>3, <3>7 DEF mine
  <2>4. CASE op.kind = "create"
    <3>1. Can(server, op) BY <1>5, <1>9, <2>4
    <3>2. server' = Placed(server, op.path, file) BY <1>3, <1>7, <2>4, <3>1 DEF Do, Effect
    <3>3. call'[c].mine = TRUE BY <1>2, <1>4, <3>2 DEF Placed
    <3> DEFINE tree == Mirrored(c, cache[c], op.path)
    <3>4. tree \in Trees /\ tree[op.path] = None
      BY <1>2, <1>6, <1>7, <2>4, MirroredIsTree, MirroredFacts DEF Agrees
    <3> HIDE DEF tree
    <3>5. CreatedLocally(c)' = IF Can(tree, op) /\ InDirectory(tree, op.path)
                               THEN Effect(tree, op, file) ELSE tree
      BY <1>3, <3>3 DEF CreatedLocally, tree
    <3>6. Effect(tree, op, file) = Placed(tree, op.path, file) BY <2>4, <3>4 DEF Effect
    <3>7. IsFile((CreatedLocally(c)')[op.path]) /\ AfterLocal(c)' = CreatedLocally(c)'
      <4>1. call[c].op = op /\ LocalOp(op) = op BY <2>4 DEF LocalOp, op
      <4> QED BY <1>3, <2>4, <4>1 DEF LocalWorks, AfterLocal, NoLocalStep
    <3>8. CreatedLocally(c)' = Placed(tree, op.path, file)
      BY <3>4, <3>5, <3>6, <3>7 DEF IsFile, None, Dir
    <3>9. Agrees(Placed(tree, op.path, file), Placed(server, op.path, file))
      BY <1>1, <1>6, <1>7, <2>4, <3>1, CreatedAgrees DEF tree, op, file
    <3> QED BY <3>2, <3>7, <3>8, <3>9
  <2>5. CASE op.kind \notin NoLocalStep \cup {"create", "put"}
    <3>1. Can(server, op) BY <1>5, <1>9, <2>5 DEF NoLocalStep
    <3>2. LocalOp(op) = op BY <3>1 DEF Can, LocalOp
    <3>3. AfterLocal(c)' = Effect(cache[c], op, file)
      BY <1>3, <2>5, <3>2 DEF AfterLocal
    <3>4. server' = Effect(server, op, file) BY <1>3, <3>1 DEF Do
    <3>5. Agrees(Effect(cache[c], op, file), Effect(server, op, file))
      BY <1>2, <1>6, <2>5, EffectAgrees DEF NoLocalStep
    <3> QED BY <3>3, <3>4, <3>5
  <2> QED BY <2>2, <2>3, <2>4, <2>5 DEF NoLocalStep
<1> QED BY <1>8, <1>9

LEMMA ExecuteFollows ==
  ASSUME CacheInv, TypeInv', NEW c \in Clients, Execute(c)
  PROVE  CacheInv'
<1>1. TypeInv /\ Rooted(server) BY DEF CacheInv
<1>2. /\ server \in Trees /\ call[c].op \in Operations /\ call[c].pc = "rpc"
  BY <1>1, CacheTypes DEF Execute
<1>3. Rooted(server')
  BY <1>1, <1>2, ExecuteFields, CallsKeepDirectories
<1>4. ASSUME c \notin upset' PROVE Follows(c)'
  <2>1. upset \subseteq upset' BY <1>1, ExecuteFields
  <2>2. Follows(c) BY <1>4, <2>1 DEF CacheInv
  <2>3. /\ call'[c].pc = "rpc" /\ call'[c].op = call[c].op /\ cache' = cache
        /\ call'[c].answer # "none"
    BY <1>1, ExecuteFields
  <2>4. call'[c].answer = "newer" =>
          call[c].op.kind \in {"open", "getattr"} /\ IsFile(server[call[c].op.path])
    BY <1>1, ExecuteFields
  <2>5. call[c].op.kind \in {"open", "getattr"} => server' = server
    BY <1>1, ExecuteFields DEF Do, Effect
  <2>6. Asked(c)' BY <2>3, <2>4, <2>5 DEF Asked, Asking
  <2>7. OpenFinds(c)' BY <1>2, <2>2, <2>3 DEF Follows, OpenFinds
  <2> QED BY <2>2, <2>6, <2>7, ExecuteFits DEF Follows
<1>5. CASE server' = server
  <2>1. /\ upset' = upset /\ cache' = cache /\ held' = held /\ litter' = litter
        /\ \A d \in Clients \ {c} : call'[d] = call[d]
    BY <1>1, <1>5, ExecuteFields
  <2> QED BY <1>4, <1>5, <2>1, OneFollows
<1>6. CASE server' # server
  <2>1. upset' = upset \cup (Clients \ {c}) BY <1>1, <1>6, ExecuteFields
  <2>2. \A d \in Clients \ upset' : d = c BY <2>1
  <2> QED BY <1>3, <1>4, <2>2 DEF CacheInv
<1> QED BY <1>5, <1>6

-----------------------------------------------------------------------------
(* The rest of a call.                                                     *)

LEMMA FinishesFields ==
  ASSUME TypeInv, NEW c \in Clients, NEW answer, Finishes(c, answer)
  PROVE  LET op == call[c].op
             goesOn == answer = "ok" \/ op.kind \in {"utimens", "put"}
         IN
         /\ call'[c].pc = "done" /\ call'[c].op = op
         /\ cache'[c] = IF goesOn THEN AfterLocal(c) ELSE cache[c]
         /\ goesOn /\ c \notin upset' => LocalWorks(c)
         /\ op.kind = "put" /\ c \notin upset' =>
              call[c].pc # "local" /\ answer = "ok" /\ op.path = op.to
         /\ server' = server /\ upset \subseteq upset'
         /\ \A d \in Clients \ {c} : /\ cache'[d] = cache[d] /\ held'[d] = held[d]
                                     /\ litter'[d] = litter[d] /\ call'[d] = call[d]
<1> DEFINE op == call[c].op
           goesOn == answer = "ok" \/ op.kind \in {"utimens", "put"}
           done == goesOn /\ LocalWorks(c)
           parted == op.kind = "put" /\ (call[c].pc = "local" \/ answer # "ok" \/ op.path # op.to)
<1>1. /\ cache \in [Clients -> Trees] /\ held \in [Clients -> SUBSET Handles]
      /\ litter \in [Clients -> SUBSET Paths] /\ call \in [Clients -> CallState]
  BY DEF TypeInv, TypeOK
<1>2. /\ cache' = IF goesOn THEN [cache EXCEPT ![c] = AfterLocal(c)] ELSE cache
      /\ upset' = IF (goesOn /\ ~done) \/ parted THEN upset \cup {c} ELSE upset
      /\ server' = server
  BY DEF Finishes
<1>3. \E H : held' = [held EXCEPT ![c] = H] BY DEF Finishes
<1>4. \E L : litter' = [litter EXCEPT ![c] = L] BY <1>1 DEF Finishes
<1>5. PICK result : call' = [call EXCEPT ![c].pc = "done", ![c].answer = "none", ![c].result = result]
  BY DEF Finishes
<1>6. call'[c] = [call[c] EXCEPT !.pc = "done", !.answer = "none", !.result = result]
      /\ \A d \in Clients \ {c} : call'[d] = call[d]
  BY <1>1, <1>5
<1>7. call'[c].pc = "done" /\ call'[c].op = op BY <1>1, <1>6 DEF CallState
<1>8. goesOn /\ c \notin upset' => LocalWorks(c) BY <1>2 DEF done
<1>9. op.kind = "put" /\ c \notin upset' =>
        call[c].pc # "local" /\ answer = "ok" /\ op.path = op.to
  BY <1>2 DEF parted
<1> HIDE DEF op, goesOn, done, parted
<1>10. /\ cache'[c] = IF goesOn THEN AfterLocal(c) ELSE cache[c]
       /\ \A d \in Clients \ {c} :
            cache'[d] = cache[d] /\ held'[d] = held[d] /\ litter'[d] = litter[d]
  BY <1>1, <1>2, <1>3, <1>4
<1>11. upset \subseteq upset' BY <1>2
<1> QED BY <1>2, <1>6, <1>7, <1>8, <1>9, <1>10, <1>11 DEF op, goesOn

LEMMA FinishesFollows ==
  ASSUME CacheInv, TypeInv', NEW c \in Clients, NEW answer \in {"ok", "error"}, Finishes(c, answer),
         \/ call[c].pc = "rpc" /\ call[c].answer = answer
         \/ call[c].pc = "local" /\ answer = "ok"
  PROVE  CacheInv'
<1> DEFINE op == call[c].op
           goesOn == answer = "ok" \/ op.kind \in {"utimens", "put"}
<1>1. TypeInv BY DEF CacheInv
<1>2. /\ call'[c].pc = "done" /\ call'[c].op = op
      /\ cache'[c] = IF goesOn THEN AfterLocal(c) ELSE cache[c]
      /\ goesOn /\ c \notin upset' => LocalWorks(c)
      /\ op.kind = "put" /\ c \notin upset' =>
           call[c].pc # "local" /\ answer = "ok" /\ op.path = op.to
  BY <1>1, FinishesFields
<1>3. /\ server' = server /\ upset \subseteq upset'
      /\ \A d \in Clients \ {c} : /\ cache'[d] = cache[d] /\ held'[d] = held[d]
                                  /\ litter'[d] = litter[d] /\ call'[d] = call[d]
  BY <1>1, FinishesFields
<1> HIDE DEF op, goesOn
<1>4. ASSUME c \notin upset' PROVE Follows(c)'
  <2>1. Follows(c) BY <1>3, <1>4 DEF CacheInv
  <2>2. op.kind \in {"open", "getattr", "utimens"} => cache'[c] = cache[c]
    BY <1>2 DEF AfterLocal, NoLocalStep, Effect, LocalOp, op
  <2>3. Agrees(cache'[c], server)
    <3>1. CASE Carried(c)
      <4>1. goesOn BY <3>1 DEF Carried, goesOn
      <4>2. op.kind = "put" => op.path = op.to BY <1>2, <1>4
      <4> QED BY <1>2, <1>4, <2>1, <3>1, <4>1, <4>2 DEF Follows, CacheFits, op
    <3>2. CASE call[c].pc = "rpc" /\ answer = "error"
      <4>1. Agrees(cache[c], server) BY <2>1, <3>2 DEF Follows, CacheFits, Carried
      <4>2. op.kind # "put" BY <1>2, <1>4, <3>2
      <4>3. cache'[c] = cache[c] BY <1>2, <2>2, <3>2, <4>2 DEF goesOn
      <4> QED BY <4>1, <4>3
    <3>3. CASE call[c].pc = "local"
      <4>1. Agrees(cache[c], server) BY <2>1, <3>3, AtRest
      <4>2. op.kind \in {"open", "getattr", "utimens"}
        BY <1>2, <1>4, <2>1, <3>3 DEF Follows, Asked, op
      <4> QED BY <2>2, <4>1, <4>2
    <3> QED BY <3>1, <3>2, <3>3 DEF Carried
  <2>4. CacheFits(c)' BY <1>2, <1>3, <2>3 DEF CacheFits, Carried
  <2>5. Asked(c)' BY <1>2 DEF Asked, Asking
  <2>6. OpenFinds(c)' BY <1>2, <2>1, <2>2 DEF Follows, OpenFinds, op
  <2> QED BY <2>4, <2>5, <2>6 DEF Follows
<1> QED BY <1>3, <1>4, OneFollows

LEMMA AnsweredFollows ==
  ASSUME CacheInv, TypeInv', NEW c \in Clients, Answered(c)
  PROVE  CacheInv'
<1>1. call[c].pc = "rpc" /\ call \in [Clients -> CallState]
  BY DEF CacheInv, TypeInv, TypeOK, Answered
<1>2. CASE call[c].answer \in {"ok", "error"} /\ Finishes(c, call[c].answer)
  BY <1>1, <1>2, FinishesFollows
<1>3. CASE /\ call[c].answer = "newer"
           /\ call' = [call EXCEPT ![c].answer = "none", ![c].pc = "fetch"]
           /\ UNCHANGED <<server, cache, held, litter, upset>>
  <2>1. /\ call'[c].pc = "fetch" /\ call'[c].op = call[c].op
        /\ \A d \in Clients \ {c} : call'[d] = call[d]
    BY <1>1, <1>3 DEF CallState
  <2>2. ASSUME c \notin upset' PROVE Follows(c)'
    <3>1. Follows(c) BY <1>3, <2>2 DEF CacheInv
    <3>2. Agrees(cache[c], server) BY <1>3, <3>1 DEF Follows, CacheFits, Carried
    <3>3. call[c].op.kind \in {"open", "getattr"} /\ IsFile(server[call[c].op.path])
      BY <1>1, <1>3, <3>1 DEF Follows, Asked
    <3>4. CacheFits(c)' BY <1>3, <2>1, <3>2 DEF CacheFits, Carried
    <3>5. Asked(c)' BY <1>3, <2>1, <3>3 DEF Asked, Asking
    <3>6. OpenFinds(c)'
      <4>1. call[c].op.kind = "open" => IsFile(cache[c][call[c].op.path])
        BY <1>1, <3>1 DEF Follows, OpenFinds
      <4> QED BY <1>3, <2>1, <3>3, <4>1 DEF OpenFinds, IsFile, Dir
    <3> QED BY <3>4, <3>5, <3>6 DEF Follows
  <2> QED BY <1>3, <2>1, <2>2, OneFollows
<1> QED BY <1>2, <1>3 DEF Answered

LEMMA FetchFollows ==
  ASSUME CacheInv, TypeInv', NEW c \in Clients, Fetch(c)
  PROVE  CacheInv'
<1> DEFINE p == call[c].op.path
           caches == IsFile(server[p]) /\ InDirectory(cache[c], p) /\ cache[c][p] # Dir
<1>1. /\ TypeInv /\ call[c].pc = "fetch" /\ call \in [Clients -> CallState]
      /\ cache \in [Clients -> Trees]
  BY DEF CacheInv, TypeInv, TypeOK, Fetch
<1>2. cache[c] \in Trees /\ p \in Paths BY <1>1, CacheTypes
<1>3. /\ cache' = IF caches THEN [cache EXCEPT ![c][p] = server[p]] ELSE cache
      /\ call' = [call EXCEPT ![c].pc = "local"]
      /\ UNCHANGED <<server, held, litter, upset>>
  BY DEF Fetch
<1>4. /\ call'[c].pc = "local" /\ call'[c].op = call[c].op
      /\ \A d \in Clients \ {c} : call'[d] = call[d]
  BY <1>1, <1>3 DEF CallState
<1> HIDE DEF caches
<1>5. /\ cache'[c] = IF caches THEN [cache[c] EXCEPT ![p] = server[p]] ELSE cache[c]
      /\ \A d \in Clients \ {c} : cache'[d] = cache[d]
  BY <1>1, <1>3
<1>6. ASSUME c \notin upset' PROVE Follows(c)'
  <2>1. Follows(c) BY <1>3, <1>6 DEF CacheInv
  <2>2. Agrees(cache[c], server) BY <1>1, <2>1, AtRest
  <2>3. Agrees(cache'[c], server) BY <1>2, <1>5, <2>2 DEF Agrees, Trees
  <2>4. CacheFits(c)' BY <1>3, <1>4, <2>3 DEF CacheFits, Carried
  <2>5. Asked(c)' BY <1>1, <1>4, <2>1 DEF Follows, Asked, Asking
  <2>6. OpenFinds(c)'
    <3> SUFFICES ASSUME call[c].op.kind = "open", Parent(p) \notin HostDirs[c]
                 PROVE  IsFile(cache'[c][p])
      BY <1>4 DEF OpenFinds
    <3>1. /\ IsFile(server[p]) /\ cache[c][p] # Dir
          /\ IsFile(cache[c][p]) \/ InDirectory(cache[c], p)
      BY <1>1, <2>1 DEF Follows, OpenFinds
    <3>2. CASE caches
      <4>1. cache'[c][p] = server[p] BY <1>2, <1>5, <3>2 DEF Trees
      <4> QED BY <3>1, <4>1
    <3>3. CASE ~caches BY <1>5, <3>1, <3>3 DEF caches
    <3> QED BY <3>2, <3>3
  <2> QED BY <2>4, <2>5, <2>6 DEF Follows
<1> QED BY <1>3, <1>4, <1>5, <1>6, OneFollows

LEMMA ReturnFollows ==
  ASSUME CacheInv, TypeInv', NEW c \in Clients, Return(c)
  PROVE  CacheInv'
<1>1. /\ call[c].pc = "done" /\ call \in [Clients -> CallState]
      /\ call' = [call EXCEPT ![c] = NoCall] /\ UNCHANGED <<server, cache, held, litter, upset>>
  BY DEF CacheInv, TypeInv, TypeOK, Return
<1>2. call'[c] = NoCall /\ \A d \in Clients \ {c} : call'[d] = call[d] BY <1>1
<1>3. call'[c].pc = "idle" /\ call'[c].op.kind = "none" BY <1>2 DEF NoCall, CallAt, NoOp
<1>4. ASSUME c \notin upset' PROVE Follows(c)'
  <2>1. Follows(c) BY <1>1, <1>4 DEF CacheInv
  <2>2. Agrees(cache[c], server) BY <1>1, <2>1, AtRest
  <2>3. CacheFits(c)' BY <1>1, <1>3, <2>2 DEF CacheFits, Carried
  <2>4. Asked(c)' BY <1>3 DEF Asked, Asking
  <2>5. OpenFinds(c)' BY <1>3 DEF OpenFinds
  <2> QED BY <2>3, <2>4, <2>5 DEF Follows
<1> QED BY <1>1, <1>2, <1>4, OneFollows

-----------------------------------------------------------------------------
(* Faults.                                                                 *)

LEMMA DeadlineFollows ==
  ASSUME CacheInv, TypeInv', NEW c \in Clients, Deadline(c)
  PROVE  CacheInv'
<1>1. call \in [Clients -> CallState] BY DEF CacheInv, TypeInv, TypeOK
<1>2. UNCHANGED <<server, cache, held, litter>> /\ upset' = upset \cup {c} BY DEF Deadline, Fault
<1>3. \A d \in Clients \ {c} : call'[d] = call[d] BY <1>1 DEF Deadline
<1> QED BY <1>2, <1>3, OneFollows

LEMMA LateFollows ==
  ASSUME CacheInv, TypeInv', NEW request \in late, ExecuteLate(request)
  PROVE  CacheInv'
<1>1. server' = Do(server, request.op, request.file) /\ UNCHANGED <<cache, held, litter>>
      /\ upset' = IF server' # server THEN Clients ELSE upset
  BY DEF ExecuteLate
<1>2. server \in Trees /\ request.op \in Operations /\ call \in [Clients -> CallState]
  BY DEF CacheInv, TypeInv, TypeOK
<1>3. Rooted(server)' BY <1>1, <1>2, CallsKeepDirectories DEF CacheInv
<1>4. ASSUME NEW d \in Clients \ upset' PROVE Follows(d)'
  <2>1. server' = server /\ d \notin upset BY <1>1, <1>4
  <2>2. Follows(d) BY <1>4, <2>1 DEF CacheInv
  <2>3. PICK b : call'[d] = [call[d] EXCEPT !.took = b] BY <1>4 DEF ExecuteLate
  <2>4. /\ call'[d].pc = call[d].pc /\ call'[d].op = call[d].op /\ call'[d].file = call[d].file
        /\ call'[d].answer = call[d].answer /\ call'[d].mine = call[d].mine
    BY <1>2, <1>4, <2>3 DEF CallState
  <2> QED BY <1>1, <1>4, <2>1, <2>2, <2>4, FollowsKept
<1> QED BY <1>3, <1>4 DEF CacheInv

LEMMA CrashFollows ==
  ASSUME CacheInv, TypeInv', Crash
  PROVE  CacheInv'
<1>1. UNCHANGED <<server, cache, held, litter>>
      /\ upset' = upset \cup {c \in Clients : call[c].pc \in {"rpc", "fetch"}}
  BY DEF Crash
<1>2. ASSUME NEW d \in Clients \ upset' PROVE Follows(d)'
  <2>1. d \notin upset /\ call[d].pc \notin {"rpc", "fetch"} BY <1>1, <1>2
  <2>2. call'[d] = call[d] BY <1>2, <2>1 DEF Crash
  <2> QED BY <1>1, <1>2, <2>1, <2>2, FollowsKept DEF CacheInv
<1> QED BY <1>1, <1>2 DEF CacheInv

-----------------------------------------------------------------------------

LEMMA InitCache == Init => CacheInv
<1> SUFFICES ASSUME Init PROVE CacheInv OBVIOUS
<1>1. TypeInv /\ Rooted(server) BY InitType, TreeAssumption DEF Init
<1>2. ASSUME NEW c \in Clients PROVE Follows(c)
  <2>1. /\ call[c].pc = "idle" /\ call[c].op.kind = "none"
        /\ \A p \in Paths : cache[c][p] = None
    BY <1>2 DEF Init, NoCall, CallAt, NoOp
  <2> QED BY <2>1 DEF Follows, CacheFits, Agrees, Asked, OpenFinds, Carried, Asking
<1> QED BY <1>1, <1>2 DEF CacheInv

LEMMA StepCache == CacheInv /\ [Next]_vars => CacheInv'
<1> SUFFICES ASSUME CacheInv, [Next]_vars PROVE CacheInv' OBVIOUS
<1>0. TypeInv' BY TypeStep DEF CacheInv
<1>1. ASSUME NEW c \in Clients, NEW op \in Operations, Begin(c, op) PROVE CacheInv'
  BY <1>0, <1>1, BeginFollows
<1>2. ASSUME NEW c \in Clients, NEW h \in held[c], Close(c, h) \/ Leave(c, h) PROVE CacheInv'
  BY <1>0, <1>2, CloseFollows, LeaveFollows
<1>3. ASSUME NEW c \in Clients, Progress(c) PROVE CacheInv'
  <2>1. CASE Execute(c) BY <1>0, <2>1, ExecuteFollows
  <2>2. CASE Answered(c) BY <1>0, <2>2, AnsweredFollows
  <2>3. CASE Fetch(c) BY <1>0, <2>3, FetchFollows
  <2>4. CASE Unanswered(c) BY <1>0, <2>4, FinishesFollows DEF Unanswered
  <2>5. CASE Return(c) BY <1>0, <2>5, ReturnFollows
  <2> QED BY <1>3, <2>1, <2>2, <2>3, <2>4, <2>5 DEF Progress
<1>4. ASSUME NEW c \in Clients, Deadline(c) PROVE CacheInv'
  BY <1>0, <1>4, DeadlineFollows
<1>5. ASSUME NEW request \in late, ExecuteLate(request) PROVE CacheInv'
  BY <1>0, <1>5, LateFollows
<1>6. CASE Crash BY <1>0, <1>6, CrashFollows
<1>7. CASE UNCHANGED vars
  <2>1. UNCHANGED <<server, cache, held, litter, call, upset>> BY <1>7 DEF vars
  <2>2. ASSUME NEW d \in Clients \ upset PROVE Follows(d)'
    BY <2>1, <2>2, FollowsKept DEF CacheInv
  <2> QED BY <1>0, <2>1, <2>2 DEF CacheInv
<1> QED BY <1>1, <1>2, <1>3, <1>4, <1>5, <1>6, <1>7 DEF Next

\* Between its calls, what a client has in its cache is what the server has, until
\* somebody else changes the server, a remote call is disturbed, a local step fails, or a
\* close sends nothing or to another name (client_mkdir and the others repeat in the cache
\* what the server has done).
THEOREM CacheFollowsServer == Spec => []CacheAgrees
<1>1. CacheInv => CacheAgrees
  <2> SUFFICES ASSUME CacheInv, NEW c \in Clients \ upset, call[c].pc = "idle"
               PROVE  Agrees(cache[c], server)
    BY DEF CacheAgrees, Agrees
  <2> QED BY AtRest DEF CacheInv
<1> QED BY <1>1, InitCache, StepCache, PTL DEF Spec

\* Until then, a file that has been opened is in the cache, in whatever directory, unless
\* the host has a directory of the name of its directory (mirrorDirectoryStructure).
THEOREM OpensAreCached == Spec => []OpenHasFile
<1>1. CacheInv => OpenHasFile BY DEF CacheInv, Follows, OpenFinds, OpenHasFile
<1> QED BY <1>1, InitCache, StepCache, PTL DEF Spec
=============================================================================
