------------------------- MODULE AfsSafety_proofs -------------------------
(* Two safety properties of AfsSession, for all values of its constants    *)
(* under which the numbers in temporary names do not collide.              *)
EXTENDS AfsSession_proofs

-----------------------------------------------------------------------------
(* The inductive invariant of HandlesPrivate.                              *)

\* No inode has two names.
OneName ==
  \A c \in Clients : \A m, n \in Names :
    names[c][m] = names[c][n] /\ names[c][m] # NoNode => m = n

\* Only a client that is up serves requests.
Serving == \A t \in Handles : mode[ClientOf[t]] # "up" => th[t] = Idle

Peers(t) == {u \in Handles \ {t} : ClientOf[u] = ClientOf[t]}

\* Descriptors that are open at the same time are different.
DistinctFds ==
  \A t \in Handles : \A u \in Peers(t) :
    IsOpen(t) /\ IsOpen(u) => th[t].fd # th[u].fd

\* From the copy to the close, a request of client_open has a temporary name of
\* its own.
Holds(t) ==
  th[t].want = "open" /\ th[t].pc \in {"stamp", "open", "mark", "drop", "close"}

\* The inode it has opened or is going to open.
Inode(t) == IF th[t].pc = "stamp" THEN names[ClientOf[t]][th[t].tmp] ELSE th[t].ino

\* The inode has that name, or the recovery name that goes with it.
OwnName(t) ==
  LET c == ClientOf[t]
      n == th[t].tmp
  IN
  /\ n \in TempNames
  /\ \/ Inode(t) = names[c][n]
     \/ th[t].pc = "close" /\ Inode(t) = names[c][Recover(n)]

\* The map has that name for the descriptor of the request, or for none.
OwnEntry(t) ==
  LET c == ClientOf[t] IN
  /\ th[t].pc # "stamp" => tempMap[c][th[t].fd] \in {NoName, th[t].tmp}
  /\ \A d \in Fds : tempMap[c][d] = th[t].tmp => th[t].pc # "stamp" /\ d = th[t].fd

\* Nobody else on the client has the name or the inode.
Unshared(t) ==
  \A u \in Peers(t) :
    /\ th[u].tmp # th[t].tmp
    /\ IsOpen(u) => th[u].ino # Inode(t)

HeldOK(t) == Holds(t) => OwnName(t) /\ OwnEntry(t) /\ Unshared(t)

\* A request that copies is one of client_open.
CopiesToOpen ==
  \A t \in Handles : th[t].pc \in {"copy", "stamp"} => th[t].want = "open"

PInv ==
  /\ IInv /\ OneName /\ Serving /\ DistinctFds /\ CopiesToOpen
  /\ \A t \in Handles : HeldOK(t)

-----------------------------------------------------------------------------
(* Steps that leave the name and the inode of a request alone.             *)

LEMMA Holder ==
  ASSUME PInv, NEW t \in Handles, Holds(t)
  PROVE  /\ ClientOf[t] \in Clients
         /\ th[t].tmp \in TempNames /\ th[t].tmp \in Names
         /\ Recover(th[t].tmp) \in Names /\ th[t].tmp # NoName
         /\ th[t].pc # "stamp" => IsOpen(t) /\ th[t].fd \in Fds
         /\ OwnName(t) /\ OwnEntry(t) /\ Unshared(t)
<1>1. OwnName(t) /\ OwnEntry(t) /\ Unshared(t) BY DEF PInv, HeldOK
<1>2. RequestOK(t) /\ ClientOf[t] \in Clients BY Thread DEF PInv
<1>3. th[t].pc # "stamp" => IsOpen(t) /\ th[t].fd \in Fds
  BY <1>2 DEF Holds, RequestOK, IsOpen
<1>4. th[t].tmp \in TempNames BY <1>1 DEF OwnName
<1>5. /\ th[t].tmp \in Names /\ Recover(th[t].tmp) \in Names /\ th[t].tmp # NoName
  BY <1>4, NameTypes DEF Names
<1> QED BY <1>1, <1>2, <1>3, <1>4, <1>5

\* What a step of t must leave alone for the request v.
Spares(t, v) ==
  LET c == ClientOf[v]
      n == th[v].tmp
  IN
  /\ names'[c][n] = names[c][n] /\ names'[c][Recover(n)] = names[c][Recover(n)]
  /\ \A d \in Fds :
       \/ tempMap'[c][d] \in {tempMap[c][d], NoName}
       \/ tempMap'[c][d] # n /\ (IsOpen(v) => d # th[v].fd)
  /\ t \in Peers(v) =>
       /\ th'[t].tmp # n
       /\ th'[t].ino # NoNode => th'[t].ino # Inode(v)

LEMMA SparedHeld ==
  ASSUME PInv, NEW t \in Handles, NEW v \in Handles \ {t},
         \A u \in Handles \ {t} : th'[u] = th[u],
         Holds(v) => Spares(t, v)
  PROVE  HeldOK(v)'
<1> SUFFICES ASSUME Holds(v)' PROVE OwnName(v)' /\ OwnEntry(v)' /\ Unshared(v)'
  BY DEF HeldOK
<1> DEFINE c == ClientOf[v]
           n == th[v].tmp
<1>1. th'[v] = th[v] OBVIOUS
<1>2. Holds(v) /\ Spares(t, v) BY <1>1 DEF Holds
<1>3. /\ OwnName(v) /\ OwnEntry(v) /\ Unshared(v) /\ n # NoName
      /\ th[v].pc # "stamp" => IsOpen(v) /\ th[v].fd \in Fds
  BY <1>2, Holder
<1>4. Inode(v)' = Inode(v) BY <1>1, <1>2 DEF Spares, Inode
<1>5. OwnName(v)' BY <1>1, <1>2, <1>3, <1>4 DEF Spares, OwnName
<1>6. OwnEntry(v)' BY <1>1, <1>2, <1>3 DEF Spares, OwnEntry
<1>7. Unshared(v)'
  <2>1. Peers(v)' = Peers(v) BY DEF Peers
  <2>2. ASSUME NEW u \in Peers(v)
        PROVE  th'[u].tmp # n /\ (th'[u].ino # NoNode => th'[u].ino # Inode(v))
    <3>1. CASE u = t BY <1>2, <2>2, <3>1 DEF Spares
    <3>2. CASE u # t
      <4>1. th'[u] = th[u] BY <3>2 DEF Peers
      <4> QED BY <1>3, <4>1 DEF Unshared, IsOpen
    <3> QED BY <3>1, <3>2
  <2> QED BY <1>1, <1>4, <2>1, <2>2 DEF Unshared, IsOpen
<1> QED BY <1>5, <1>6, <1>7

\* A step of request t.
LEMMA RequestKeeps ==
  ASSUME PInv, IInv', NEW t \in Handles, th' = [th EXCEPT ![t] = th'[t]],
         OneName', UNCHANGED mode, mode[ClientOf[t]] = "up" \/ th[t] # Idle,
         th'[t].ino # NoNode =>
           \/ IsOpen(t) /\ th'[t].fd = th[t].fd
           \/ \A u \in Peers(t) : IsOpen(u) => th'[t].fd # th[u].fd,
         th'[t].pc \in {"copy", "stamp"} => th'[t].want = "open",
         HeldOK(t)',
         \A v \in Handles \ {t} : Holds(v) => Spares(t, v)
  PROVE  PInv'
<1>1. \A u \in Handles \ {t} : th'[u] = th[u] BY DEF PInv, IInv, TypeOK
<1>2. \A v \in Handles : HeldOK(v)' BY <1>1, SparedHeld
<1>3. Serving'
  <2>1. mode[ClientOf[t]] = "up" BY DEF PInv, Serving
  <2> QED BY <1>1, <2>1 DEF PInv, Serving
<1>4. DistinctFds'
  <2>1. ASSUME NEW v \in Handles, NEW u \in Peers(v), th'[v].ino # NoNode,
               th'[u].ino # NoNode
        PROVE  th'[v].fd # th'[u].fd
    <3>1. u \in Handles /\ u # v /\ v \in Peers(u) BY DEF Peers
    <3>2. CASE v # t /\ u # t
      BY <1>1, <2>1, <3>1, <3>2 DEF PInv, DistinctFds, IsOpen
    <3>3. CASE v = t BY <1>1, <2>1, <3>1, <3>3 DEF PInv, DistinctFds, IsOpen
    <3>4. CASE u = t BY <1>1, <2>1, <3>1, <3>4 DEF PInv, DistinctFds, IsOpen
    <3> QED BY <3>2, <3>3, <3>4
  <2> QED BY <2>1 DEF DistinctFds, IsOpen, Peers
<1>5. CopiesToOpen' BY <1>1 DEF PInv, CopiesToOpen
<1> QED BY <1>2, <1>3, <1>4, <1>5 DEF PInv

\* A step of request t that changes neither names nor the map.
LEMMA QuietKeeps ==
  ASSUME PInv, IInv', NEW t \in Handles, th' = [th EXCEPT ![t] = th'[t]],
         UNCHANGED <<names, tempMap, mode>>,
         mode[ClientOf[t]] = "up" \/ th[t] # Idle,
         th'[t].tmp \in {th[t].tmp, NoName}, th'[t].ino \in {th[t].ino, NoNode},
         th'[t].fd = th[t].fd \/ th'[t].ino = NoNode,
         th'[t].pc \in {"copy", "stamp"} => th'[t].want = "open",
         Holds(t)' => /\ Holds(t) /\ th[t].pc # "stamp" /\ th'[t].pc # "stamp"
                      /\ th[t].pc = "close" => th'[t].pc = "close"
                      /\ th'[t].tmp = th[t].tmp /\ th'[t].fd = th[t].fd
                      /\ th'[t].ino = th[t].ino
  PROVE  PInv'
<1>1. OneName' BY DEF PInv, OneName
<1>2. \A u \in Handles \ {t} : th'[u] = th[u] BY DEF PInv, IInv, TypeOK
<1>3. HeldOK(t)'
  <2> SUFFICES ASSUME Holds(t)' PROVE OwnName(t)' /\ OwnEntry(t)' /\ Unshared(t)'
    BY DEF HeldOK
  <2>1. OwnName(t) /\ OwnEntry(t) /\ Unshared(t) BY Holder
  <2>2. Inode(t)' = Inode(t) BY DEF Inode
  <2>3. OwnName(t)' BY <2>1, <2>2 DEF OwnName
  <2>4. OwnEntry(t)' BY <2>1 DEF OwnEntry
  <2>5. Unshared(t)'
    <3>1. Peers(t)' = Peers(t) /\ \A u \in Peers(t) : th'[u] = th[u]
      BY <1>2 DEF Peers
    <3> QED BY <2>1, <2>2, <3>1 DEF Unshared, IsOpen
  <2> QED BY <2>3, <2>4, <2>5
<1>4. ASSUME NEW v \in Handles \ {t}, Holds(v) PROVE Spares(t, v)
  <2>1. Unshared(v) /\ th[v].tmp # NoName BY <1>4, Holder
  <2>2. t \in Peers(v) => th[t].tmp # th[v].tmp /\ (IsOpen(t) => th[t].ino # Inode(v))
    BY <2>1 DEF Unshared
  <2> QED BY <2>1, <2>2 DEF Spares, IsOpen
<1>5. th'[t].ino # NoNode => IsOpen(t) /\ th'[t].fd = th[t].fd BY DEF IsOpen
<1> QED BY <1>1, <1>3, <1>4, <1>5, RequestKeeps

-----------------------------------------------------------------------------
(* Requests that only go on to another step or end.                        *)

LEMMA GotoKeeps ==
  ASSUME PInv, IInv', NEW t \in Handles, NEW label \in PCs \ {"stamp"}, Goto(t, label),
         UNCHANGED <<names, tempMap, mode>>, th[t].pc \notin {"idle", "stamp"},
         label = "copy" => th[t].want = "open",
         label \in {"open", "mark", "drop", "close"} /\ th[t].want = "open" =>
           th[t].pc \in {"open", "mark"}
  PROVE  PInv'
<1>1. IInv /\ th[t] # Idle BY IdleState DEF PInv
<1>2. /\ th' = [th EXCEPT ![t] = th'[t]] /\ th'[t].pc = label
      /\ th'[t].want = th[t].want /\ th'[t].tmp = th[t].tmp
      /\ th'[t].fd = th[t].fd /\ th'[t].ino = th[t].ino
  BY <1>1, GotoState
<1> QED BY <1>1, <1>2, QuietKeeps DEF Holds

LEMMA IdleKeeps ==
  ASSUME PInv, IInv', NEW t \in Handles, th' = [th EXCEPT ![t] = Idle],
         UNCHANGED <<names, tempMap, mode>>, th[t].pc # "idle"
  PROVE  PInv'
<1>1. IInv /\ th[t] # Idle BY IdleState DEF PInv
<1>2. th'[t] = Idle BY <1>1 DEF IInv, TypeOK
<1>3. Idle.pc = "idle" /\ Idle.tmp = NoName /\ Idle.ino = NoNode
  BY DEF Idle, Request
<1>4. /\ th'[t].pc = "idle" /\ th'[t].tmp = NoName /\ th'[t].ino = NoNode
      /\ th' = [th EXCEPT ![t] = th'[t]]
  BY <1>2, <1>3
<1>5. ~ Holds(t)' BY <1>4 DEF Holds
<1>6. PInv /\ IInv' /\ UNCHANGED <<names, tempMap, mode>> /\ t \in Handles
  OBVIOUS
<1> QED BY ONLY <1>1, <1>4, <1>5, <1>6, QuietKeeps

\* The lookups.
LEMMA BeginKeeps ==
  ASSUME PInv, IInv', NEW t \in Handles, NEW pc \in {"check", "fetch", "create"},
         NEW want, NEW path, NEW got, NEW floor,
         th' = [th EXCEPT ![t] = Request(pc, want, path, got, floor)],
         UNCHANGED <<names, tempMap, mode>>, mode[ClientOf[t]] = "up"
  PROVE  PInv'
<1> DEFINE r == Request(pc, want, path, got, floor)
<1>1. r.pc = pc /\ r.tmp = NoName /\ r.ino = NoNode BY DEF Request
<1> HIDE DEF r
<1>2. th'[t] = r BY DEF PInv, IInv, TypeOK, r
<1>3. /\ th'[t].pc = pc /\ th'[t].tmp = NoName /\ th'[t].ino = NoNode
      /\ th' = [th EXCEPT ![t] = th'[t]]
  BY <1>1, <1>2 DEF r
<1>4. ~ Holds(t)' BY <1>3 DEF Holds
<1>5. PInv /\ IInv' /\ UNCHANGED <<names, tempMap, mode>> /\ t \in Handles
      /\ mode[ClientOf[t]] = "up" /\ th'[t].pc \notin {"copy", "stamp"}
  BY <1>3
<1> QED BY ONLY <1>3, <1>4, <1>5, QuietKeeps

LEMMA LookupKeeps ==
  ASSUME PInv, IInv', NEW t \in Handles, NEW f \in Files,
         NEW want \in {"open", "getattr"}, Lookup(t, f, want)
  PROVE  PInv'
<1>1. PICK pc \in {"check", "fetch"},
           got \in {0, At(ClientOf[t], Cached(f)).mtime} :
        th' = [th EXCEPT ![t] = Request(pc, want, f, got, Len(log[f]))]
  BY DEF Lookup
<1>2. UNCHANGED <<names, tempMap, mode>> /\ mode[ClientOf[t]] = "up"
  BY DEF Lookup, disk, scan
<1> QED BY <1>1, <1>2, BeginKeeps

LEMMA CreateLookupKeeps ==
  ASSUME PInv, IInv', NEW t \in Handles, NEW f \in Files, CreateLookup(t, f)
  PROVE  PInv'
BY BeginKeeps DEF CreateLookup, disk, scan

LEMMA CheckKeeps ==
  ASSUME PInv, IInv', NEW t \in Handles, NEW ok \in BOOLEAN, Check(t, ok)
  PROVE  PInv'
<1>1. UNCHANGED <<names, tempMap, mode>> /\ th[t].pc = "check"
  BY DEF Check, disk, scan
<1>2. CASE Goto(t, "fetch") BY <1>1, <1>2, GotoKeeps DEF PCs
<1>3. CASE th[t].want = "open" /\ Goto(t, "copy")
  BY <1>1, <1>3, GotoKeeps DEF PCs
<1>4. CASE th' = [th EXCEPT ![t] = Idle] BY <1>1, <1>4, IdleKeeps
<1> QED BY <1>2, <1>3, <1>4 DEF Check

LEMMA FetchKeeps ==
  ASSUME PInv, IInv', NEW t \in Handles, NEW ok \in BOOLEAN, Fetch(t, ok)
  PROVE  PInv'
<1>1. UNCHANGED <<names, tempMap, mode>> /\ th[t].pc = "fetch" /\ th[t] # Idle
  BY IdleState DEF Fetch, disk, scan
<1>2. CASE Goto(t, "getattr") BY <1>1, <1>2, GotoKeeps DEF PCs
<1>3. CASE ~Goto(t, "getattr")
  <2> DEFINE r == [th[t] EXCEPT !.pc = "install", !.buf = srv[th[t].path].data]
  <2>1. th' = [th EXCEPT ![t] = r] BY <1>3 DEF Fetch
  <2>2. th'[t] = r /\ th' = [th EXCEPT ![t] = th'[t]]
    BY <2>1 DEF PInv, IInv, TypeOK
  <2>3. r.pc = "install" /\ r.tmp = th[t].tmp /\ r.fd = th[t].fd /\ r.ino = th[t].ino
    BY Thread DEF ThreadState, PInv
  <2> HIDE DEF r
  <2> QED BY <1>1, <2>2, <2>3, QuietKeeps DEF Holds
<1> QED BY <1>2, <1>3

LEMMA GetattrKeeps ==
  ASSUME PInv, IInv', NEW t \in Handles, NEW ok \in BOOLEAN, Getattr(t, ok)
  PROVE  PInv'
<1>1. UNCHANGED <<names, tempMap, mode>> /\ th[t].pc = "getattr" /\ th[t] # Idle
  BY IdleState DEF Getattr, disk, scan
<1> DEFINE r == [th[t] EXCEPT !.pc = "utimens", !.got = Mtime(th[t].path, ok)]
<1>2. th' = [th EXCEPT ![t] = r] BY DEF Getattr
<1>3. th'[t] = r /\ th' = [th EXCEPT ![t] = th'[t]] BY <1>2 DEF PInv, IInv, TypeOK
<1>4. r.pc = "utimens" /\ r.tmp = th[t].tmp /\ r.fd = th[t].fd /\ r.ino = th[t].ino
  BY Thread DEF ThreadState, PInv
<1> HIDE DEF r
<1> QED BY <1>1, <1>3, <1>4, QuietKeeps DEF Holds

LEMMA UtimensKeeps ==
  ASSUME PInv, IInv', NEW t \in Handles, Utimens(t)
  PROVE  PInv'
<1>1. /\ UNCHANGED <<names, tempMap, mode>> /\ th[t].pc = "utimens"
      /\ th[t].want \in {"open", "create", "getattr"}
  BY Thread DEF Utimens, scan, PInv, RequestOK
<1>2. CASE th[t].want = "open"
  <2>1. Goto(t, "copy") BY <1>2 DEF Utimens
  <2> QED BY <1>1, <1>2, <2>1, GotoKeeps DEF PCs
<1>3. CASE th[t].want = "create"
  <2>1. Goto(t, "open") BY <1>3 DEF Utimens
  <2> QED BY <1>1, <1>3, <2>1, GotoKeeps DEF PCs
<1>4. CASE th[t].want = "getattr"
  <2>1. th' = [th EXCEPT ![t] = Idle] BY <1>4 DEF Utimens
  <2> QED BY <1>1, <2>1, IdleKeeps
<1> QED BY <1>1, <1>2, <1>3, <1>4

LEMMA CreateRemoteKeeps ==
  ASSUME PInv, IInv', NEW t \in Handles, NEW ok \in BOOLEAN, CreateRemote(t, ok)
  PROVE  PInv'
BY GotoKeeps DEF CreateRemote, disk, scan, PCs

LEMMA WriteKeeps ==
  ASSUME PInv, IInv', NEW t \in Handles, Write(t)
  PROVE  PInv'
<1>1. UNCHANGED <<names, tempMap, mode>> /\ th[t].pc = "open" /\ th[t] # Idle
  BY IdleState DEF Write, scan
<1> DEFINE r == [th[t] EXCEPT !.buf = <<th[t].path, writes + 1>>]
<1>2. th' = [th EXCEPT ![t] = r] BY DEF Write
<1>3. th'[t] = r /\ th' = [th EXCEPT ![t] = th'[t]] BY <1>2 DEF PInv, IInv, TypeOK
<1>4. /\ r.pc = "open" /\ r.want = th[t].want /\ r.tmp = th[t].tmp
      /\ r.fd = th[t].fd /\ r.ino = th[t].ino
  BY <1>1, Thread DEF ThreadState, PInv
<1> HIDE DEF r
<1> QED BY <1>1, <1>3, <1>4, QuietKeeps DEF Holds

LEMMA ReleaseKeeps ==
  ASSUME PInv, IInv', NEW t \in Handles, NEW ok \in BOOLEAN, Release(t, ok)
  PROVE  PInv'
<1>1. UNCHANGED <<names, tempMap, mode>> /\ th[t].pc = "open"
  BY DEF Release, disk, scan
<1>2. PICK label \in {"mark", "drop"} : Goto(t, label) BY DEF Release
<1> QED BY <1>1, <1>2, GotoKeeps DEF PCs

LEMMA CloseKeeps ==
  ASSUME PInv, IInv', NEW t \in Handles, Close(t)
  PROVE  PInv'
<1>1. UNCHANGED <<names, tempMap, mode>> /\ th[t].pc = "close" /\ th[t] # Idle
  BY IdleState DEF Close, disk, scan
<1>2. PICK pc \in {"send", "swap", "sendPath", "submit"},
           want \in {"submit", th[t].want} :
        th' = [th EXCEPT ![t].pc = pc, ![t].ino = NoNode, ![t].want = want]
  BY DEF Close
<1> DEFINE r == [th[t] EXCEPT !.pc = pc, !.ino = NoNode, !.want = want]
<1>3. th' = [th EXCEPT ![t] = r] BY <1>2
<1>4. th'[t] = r /\ th' = [th EXCEPT ![t] = th'[t]] BY <1>3 DEF PInv, IInv, TypeOK
<1>5. r.pc = pc /\ r.tmp = th[t].tmp /\ r.fd = th[t].fd /\ r.ino = NoNode
  BY Thread DEF ThreadState, PInv
<1> HIDE DEF r
<1> QED BY <1>1, <1>4, <1>5, QuietKeeps DEF Holds

\* The rest of client_release, as far as it changes neither names nor the map.
LEMMA EndKeeps ==
  ASSUME PInv, IInv', NEW t \in Handles,
         \/ Drop(t) \/ Submit(t)
         \/ \E ok \in BOOLEAN : Send(t, ok) \/ SendPath(t, ok)
  PROVE  PInv'
<1>1. CASE Drop(t)
  BY <1>1, IdleKeeps DEF Drop, Finish, disk, scan
<1>2. CASE Submit(t)
  BY <1>2, IdleKeeps DEF Submit, Finish, disk, scan
<1>3. ASSUME NEW ok \in BOOLEAN, Send(t, ok) PROVE PInv'
  BY <1>3, GotoKeeps DEF Send, disk, scan, PCs
<1>4. ASSUME NEW ok \in BOOLEAN, SendPath(t, ok) PROVE PInv'
  BY <1>4, IdleKeeps DEF SendPath, Finish, disk, scan
<1> QED BY <1>1, <1>2, <1>3, <1>4

-----------------------------------------------------------------------------
(* Names and inodes that differ.                                           *)

LEMMA NameKinds ==
  \A n \in TempNames :
    /\ \A f : Cached(f) # n /\ Cached(f) # Recover(n)
    /\ \A m \in TempNames : n # Recover(m) /\ (Recover(n) = Recover(m) => n = m)
BY DEF TempNames, Cached, Recover

LEMMA MoveOneName ==
  ASSUME PInv, NEW c \in Clients, NEW n \in Names, NEW m \in Names,
         names' = Move(c, n, m)
  PROVE  OneName'
<1>1. names \in [Clients -> [Names -> Nat]] BY DEF PInv, IInv, TypeOK
<1>2. CASE Has(c, n)
  <2>1. names' = [names EXCEPT ![c][m] = names[c][n], ![c][n] = NoNode]
    BY <1>2 DEF Move
  <2> QED BY <1>1, <2>1 DEF PInv, OneName
<1>3. CASE ~Has(c, n)
  BY <1>3 DEF Move, PInv, OneName
<1> QED BY <1>2, <1>3

LEMMA UnlinkOneName ==
  ASSUME PInv, NEW c \in Clients, NEW n \in Names,
         names' = [names EXCEPT ![c][n] = NoNode]
  PROVE  OneName'
BY DEF PInv, IInv, TypeOK, OneName

LEMMA FreshInode ==
  ASSUME PInv, NEW c \in Clients
  PROVE  /\ Len(nodes[c]) + 1 # NoNode
         /\ \A n \in Names : names[c][n] # Len(nodes[c]) + 1
         /\ \A t \in Handles : ClientOf[t] = c => th[t].ino # Len(nodes[c]) + 1
<1>1. Len(nodes[c]) \in Nat BY DEF PInv, IInv, TypeOK
<1>2. ASSUME NEW n \in Names PROVE names[c][n] # Len(nodes[c]) + 1
  BY <1>1 DEF PInv, IInv, TypeOK, Linked
<1>3. ASSUME NEW t \in Handles, ClientOf[t] = c PROVE th[t].ino # Len(nodes[c]) + 1
  <2>1. th[t].ino \in 0 .. Len(nodes[c]) BY <1>3, Thread DEF PInv
  <2> QED BY <1>1, <2>1
<1> QED BY <1>1, <1>2, <1>3 DEF NoNode

LEMMA GrowOneName ==
  ASSUME PInv, NEW c \in Clients, NEW n \in Names,
         names' = [names EXCEPT ![c][n] = Len(nodes[c]) + 1]
  PROVE  OneName'
<1> DEFINE i == Len(nodes[c]) + 1
<1>1. \A m \in Names : names[c][m] # i BY FreshInode
<1>2. names' = [names EXCEPT ![c][n] = i] OBVIOUS
<1> HIDE DEF i
<1> QED BY <1>1, <1>2 DEF PInv, IInv, TypeOK, OneName

\* Other names lead to other inodes than that of a request.
LEMMA OtherName ==
  ASSUME PInv, NEW v \in Handles, Holds(v), NEW m \in Names,
         Has(ClientOf[v], m), m # th[v].tmp, m # Recover(th[v].tmp)
  PROVE  names[ClientOf[v]][m] # Inode(v)
BY Holder DEF PInv, OneName, OwnName, Has

LEMMA FreshForHolder ==
  ASSUME PInv, NEW v \in Handles, Holds(v)
  PROVE  Len(nodes[ClientOf[v]]) + 1 # Inode(v)
BY FreshInode, Holder DEF OwnName

\* Of the names, a step of t changes at most some that v does not hold.
LEMMA SparesNames ==
  ASSUME PInv, NEW t \in Handles, NEW v \in Handles \ {t}, Holds(v),
         \A d \in Clients \ {ClientOf[t]} : names'[d] = names[d],
         ClientOf[v] = ClientOf[t] =>
           /\ names'[ClientOf[v]][th[v].tmp] = names[ClientOf[v]][th[v].tmp]
           /\ names'[ClientOf[v]][Recover(th[v].tmp)]
                = names[ClientOf[v]][Recover(th[v].tmp)],
         \A c \in Clients, d \in Fds : tempMap'[c][d] \in {tempMap[c][d], NoName},
         th'[t].tmp \in {th[t].tmp, NoName}, th'[t].ino \in {th[t].ino, NoNode}
  PROVE  Spares(t, v)
<1>1. Unshared(v) /\ th[v].tmp # NoName /\ ClientOf[v] \in Clients BY Holder
<1>2. t \in Peers(v) => th[t].tmp # th[v].tmp /\ (IsOpen(t) => th[t].ino # Inode(v))
  BY <1>1 DEF Unshared
<1> QED BY <1>1, <1>2 DEF Spares, IsOpen

-----------------------------------------------------------------------------
(* Requests that change names or the map.                                  *)

LEMMA InstallKeeps ==
  ASSUME PInv, IInv', NEW t \in Handles, Install(t)
  PROVE  PInv'
<1> DEFINE c == ClientOf[t]
           n == Cached(th[t].path)
           r == [th[t] EXCEPT !.pc = "getattr", !.buf = <<NoFile, 0>>]
<1>1. /\ c \in Clients /\ n \in Names /\ th[t] # Idle /\ UNCHANGED <<mode, tempMap>>
      /\ names' = [names EXCEPT ![c][n] = Len(nodes[c]) + 1]
  BY Thread, IdleState DEF Install, PInv, scan
<1>2. th' = [th EXCEPT ![t] = r] BY DEF Install
<1>3. th'[t] = r /\ th' = [th EXCEPT ![t] = th'[t]] BY <1>2 DEF PInv, IInv, TypeOK
<1>4. r.pc = "getattr" /\ r.tmp = th[t].tmp /\ r.fd = th[t].fd /\ r.ino = th[t].ino
  BY Thread DEF ThreadState, PInv
<1> HIDE DEF r
<1>5. OneName' BY <1>1, GrowOneName
<1>6. HeldOK(t)' BY <1>3, <1>4 DEF HeldOK, Holds
<1>7. ASSUME NEW v \in Handles \ {t}, Holds(v) PROVE Spares(t, v)
  <2>1. /\ th[v].tmp \in TempNames /\ th[v].tmp \in Names
        /\ Recover(th[v].tmp) \in Names
    BY <1>7, Holder
  <2>2. n # th[v].tmp /\ n # Recover(th[v].tmp) BY <2>1, NameKinds
  <2>3. /\ \A d \in Clients \ {c} : names'[d] = names[d]
        /\ \A m \in Names \ {n} : names'[c][m] = names[c][m]
    BY <1>1 DEF PInv, IInv, TypeOK
  <2> QED BY <1>1, <1>3, <1>4, <1>7, <2>1, <2>2, <2>3, SparesNames
<1> QED BY <1>1, <1>3, <1>4, <1>5, <1>6, <1>7, RequestKeeps DEF IsOpen

\* The name is not in use, and the inode is new.
LEMMA CopyKeeps ==
  ASSUME ~Collisions, PInv, IInv', NEW t \in Handles, NEW s \in Suffixes, Copy(t, s)
  PROVE  PInv'
<1> DEFINE c == ClientOf[t]
           f == th[t].path
           n == Temp(f, s)
           r == [th[t] EXCEPT !.pc = "stamp", !.tmp = n]
<1>1. /\ c \in Clients /\ f \in Files /\ n \in TempNames /\ n \in Names
      /\ th[t].pc = "copy" /\ th[t] # Idle /\ UNCHANGED <<mode, tempMap>>
      /\ ~InUse(c, n)
  BY Thread, IdleState, NameTypes DEF Copy, PInv, scan
<1>2. \/ UNCHANGED names
      \/ names' = [names EXCEPT ![c][n] = Len(nodes[c]) + 1]
  BY DEF Copy, disk
<1>3. th' = [th EXCEPT ![t] = r] BY DEF Copy
<1> HIDE DEF n
<1>4. th'[t] = r /\ th' = [th EXCEPT ![t] = th'[t]] BY <1>3 DEF PInv, IInv, TypeOK
<1>5. /\ r.pc = "stamp" /\ r.tmp = n /\ r.fd = th[t].fd /\ r.ino = th[t].ino
      /\ r.want = th[t].want
  BY Thread DEF ThreadState, PInv
<1> HIDE DEF r
<1>6. /\ ~Has(c, n) /\ ~Has(c, Recover(n)) /\ \A d \in Fds : tempMap[c][d] # n
      /\ \A u \in Handles : ClientOf[u] = c => th[u].tmp # n
  BY <1>1 DEF InUse
<1>7. OneName' BY <1>1, <1>2, GrowOneName DEF PInv, OneName
<1>8. /\ names'[c][n] \in {NoNode, Len(nodes[c]) + 1}
      /\ \A d \in Clients \ {c} : names'[d] = names[d]
      /\ \A m \in Names \ {n} : names'[c][m] = names[c][m]
  <2>1. names \in [Clients -> [Names -> Nat]] BY DEF PInv, IInv, TypeOK
  <2>2. CASE UNCHANGED names BY <1>6, <2>2 DEF Has
  <2>3. CASE names' = [names EXCEPT ![c][n] = Len(nodes[c]) + 1]
    BY <1>1, <2>1, <2>3
  <2> QED BY <1>2, <2>2, <2>3
<1>9. \A u \in Handles \ {t} : th'[u] = th[u] BY <1>4 DEF PInv, IInv, TypeOK
<1>10. HeldOK(t)'
  <2>1. Inode(t)' = names'[c][n] BY <1>4, <1>5 DEF Inode
  <2>2. OwnName(t)' BY <1>1, <1>4, <1>5, <2>1 DEF OwnName
  <2>3. OwnEntry(t)' BY <1>1, <1>4, <1>5, <1>6 DEF OwnEntry
  <2>4. ASSUME NEW u \in Peers(t)
        PROVE  th'[u].tmp # n /\ (th'[u].ino # NoNode => th'[u].ino # names'[c][n])
    <3>1. u \in Handles \ {t} /\ ClientOf[u] = c /\ th'[u] = th[u]
      BY <1>9, <2>4 DEF Peers
    <3>2. th[u].ino # Len(nodes[c]) + 1 BY <1>1, <3>1, FreshInode
    <3> QED BY <1>6, <1>8, <3>1, <3>2
  <2>5. Unshared(t)' BY <1>4, <1>5, <2>1, <2>4 DEF Unshared, IsOpen, Peers
  <2> QED BY <2>2, <2>3, <2>5 DEF HeldOK
<1>11. ASSUME NEW v \in Handles \ {t}, Holds(v) PROVE Spares(t, v)
  <2>1. /\ ClientOf[v] \in Clients
        /\ th[v].tmp \in TempNames /\ th[v].tmp \in Names
        /\ Recover(th[v].tmp) \in Names /\ Unshared(v)
    BY <1>11, Holder
  <2>2. ClientOf[v] = c => n # th[v].tmp BY <1>6
  <2>3. n # Recover(th[v].tmp) BY <1>1, <2>1, NameKinds
  <2>4. t \in Peers(v) => ClientOf[v] = c /\ (IsOpen(t) => th[t].ino # Inode(v))
    BY <2>1 DEF Unshared, Peers
  <2> QED BY <1>1, <1>4, <1>5, <1>8, <2>1, <2>2, <2>3, <2>4 DEF Spares, IsOpen
<1>12. th[t].want = "open" BY <1>1 DEF PInv, CopiesToOpen
<1> QED BY <1>1, <1>4, <1>5, <1>7, <1>10, <1>11, <1>12, RequestKeeps DEF IsOpen

\* The descriptor is not open, so the entry is not that of another request.
LEMMA StampKeeps ==
  ASSUME PInv, IInv', NEW t \in Handles, Stamp(t)
  PROVE  PInv'
<1> DEFINE c == ClientOf[t]
           n == th[t].tmp
<1>1. /\ th[t].pc = "stamp" /\ th[t] # Idle /\ UNCHANGED <<mode, names>>
  BY IdleState DEF Stamp, PInv, scan
<1>2. CASE th' = [th EXCEPT ![t] = Idle] /\ UNCHANGED tempMap
  BY <1>1, <1>2, IdleKeeps
<1>3. ASSUME Has(c, n), NEW d \in Fds, FdFree(c, d),
             tempMap' = [tempMap EXCEPT ![c][d] = n],
             th' = [th EXCEPT ![t].pc = "open", ![t].fd = d, ![t].ino = names[c][n]]
      PROVE  PInv'
  <2>1. th[t].want = "open" /\ Holds(t) BY <1>1 DEF PInv, CopiesToOpen, Holds
  <2>2. /\ c \in Clients /\ n \in TempNames /\ n \in Names
        /\ OwnEntry(t) /\ Unshared(t)
    BY <2>1, Holder
  <2> DEFINE i == names[c][n]
             r == [th[t] EXCEPT !.pc = "open", !.fd = d, !.ino = i]
  <2>3. th' = [th EXCEPT ![t] = r] BY <1>3
  <2>4. i # NoNode /\ i = Inode(t) BY <1>1, <1>3 DEF Has, Inode
  <2> HIDE DEF i
  <2>5. th'[t] = r /\ th' = [th EXCEPT ![t] = th'[t]]
    BY <2>3 DEF PInv, IInv, TypeOK
  <2>6. r.pc = "open" /\ r.tmp = n /\ r.fd = d /\ r.ino = i /\ r.want = th[t].want
    BY Thread DEF ThreadState, PInv
  <2> HIDE DEF r
  <2>7. \A u \in Handles \ {t} : th'[u] = th[u] BY <2>5 DEF PInv, IInv, TypeOK
  <2>8. /\ \A e \in Clients \ {c} : tempMap'[e] = tempMap[e]
        /\ tempMap'[c][d] = n
        /\ \A e \in Fds \ {d} : tempMap'[c][e] = tempMap[c][e]
    BY <1>3, <2>2 DEF PInv, IInv, TypeOK
  <2>9. HeldOK(t)'
    <3>1. Inode(t)' = i BY <2>5, <2>6 DEF Inode
    <3>2. OwnName(t)' BY <1>1, <2>2, <2>5, <2>6, <3>1 DEF OwnName, i
    <3>3. OwnEntry(t)' BY <1>1, <2>2, <2>5, <2>6, <2>8 DEF OwnEntry
    <3>4. \A u \in Peers(t) : th'[u] = th[u] BY <2>7 DEF Peers
    <3>5. Unshared(t)'
      BY <2>2, <2>4, <2>5, <2>6, <3>1, <3>4 DEF Unshared, IsOpen, Peers
    <3> QED BY <3>2, <3>3, <3>5 DEF HeldOK
  <2>10. ASSUME NEW v \in Handles \ {t}, Holds(v) PROVE Spares(t, v)
    <3>1. /\ ClientOf[v] \in Clients /\ Unshared(v) /\ th[v].tmp \in TempNames
      BY <2>10, Holder
    <3>2. ASSUME t \in Peers(v)
          PROVE  /\ n # th[v].tmp /\ ClientOf[v] = c /\ i # Inode(v)
                 /\ IsOpen(v) => d # th[v].fd
      <4>1. n # th[v].tmp /\ ClientOf[v] = c BY <3>1, <3>2 DEF Unshared, Peers
      <4>2. n # Recover(th[v].tmp) BY <2>2, <3>1, NameKinds
      <4>3. i # Inode(v) BY <1>3, <2>2, <2>10, <4>1, <4>2, OtherName DEF i
      <4>4. IsOpen(v) => d # th[v].fd BY <1>3, <4>1 DEF FdFree
      <4> QED BY <4>1, <4>3, <4>4
    <3>3. ClientOf[v] = c => t \in Peers(v) BY DEF Peers
    <3>4. \A e \in Fds :
            \/ tempMap'[ClientOf[v]][e] \in {tempMap[ClientOf[v]][e], NoName}
            \/ tempMap'[ClientOf[v]][e] # th[v].tmp /\ (IsOpen(v) => e # th[v].fd)
      BY <2>8, <3>1, <3>2, <3>3
    <3> QED BY <1>1, <2>5, <2>6, <3>2, <3>4 DEF Spares
  <2>11. \A u \in Peers(t) : IsOpen(u) => d # th[u].fd
    BY <1>3 DEF FdFree, Peers
  <2>12. OneName' BY <1>1 DEF PInv, OneName
  <2> QED BY <1>1, <2>5, <2>6, <2>9, <2>10, <2>11, <2>12, RequestKeeps
<1> QED BY <1>2, <1>3 DEF Stamp

LEMMA CreateLocalKeeps ==
  ASSUME PInv, IInv', NEW t \in Handles, CreateLocal(t)
  PROVE  PInv'
<1> DEFINE c == ClientOf[t]
           n == Cached(th[t].path)
           i == IF Has(c, n) THEN names[c][n] ELSE Len(nodes[c]) + 1
<1>1. /\ c \in Clients /\ n \in Names /\ th[t] # Idle /\ UNCHANGED <<mode, tempMap>>
      /\ names' = [names EXCEPT ![c][n] = i]
  BY Thread, IdleState DEF CreateLocal, PInv, scan
<1>2. PICK d \in Fds :
        /\ FdFree(c, d)
        /\ th' = [th EXCEPT ![t].pc = "getattr", ![t].fd = d, ![t].ino = i]
  BY DEF CreateLocal
<1> DEFINE r == [th[t] EXCEPT !.pc = "getattr", !.fd = d, !.ino = i]
<1>3. th' = [th EXCEPT ![t] = r] BY <1>2
<1>4. (i = names[c][n] /\ Has(c, n)) \/ i = Len(nodes[c]) + 1 OBVIOUS
<1> HIDE DEF i, n
<1>5. th'[t] = r /\ th' = [th EXCEPT ![t] = th'[t]] BY <1>3 DEF PInv, IInv, TypeOK
<1>6. r.pc = "getattr" /\ r.tmp = th[t].tmp /\ r.fd = d /\ r.ino = i
  BY Thread DEF ThreadState, PInv
<1> HIDE DEF r
<1>7. OneName'
  <2>1. CASE i = Len(nodes[c]) + 1 BY <1>1, <2>1, GrowOneName
  <2>2. CASE i = names[c][n]
    <3>1. names \in [Clients -> [Names -> Nat]] BY DEF PInv, IInv, TypeOK
    <3>2. names' = [names EXCEPT ![c][n] = names[c][n]] BY <1>1, <2>2
    <3> HIDE DEF c
    <3>3. \A e \in Clients, m \in Names : names'[e][m] = names[e][m]
      BY ONLY <1>1, <3>1, <3>2
    <3> QED BY <3>3 DEF PInv, OneName
  <2> QED BY <1>4, <2>1, <2>2
<1>8. HeldOK(t)' BY <1>5, <1>6 DEF HeldOK, Holds
<1>9. ASSUME NEW v \in Handles \ {t}, Holds(v) PROVE Spares(t, v)
  <2>1. /\ ClientOf[v] \in Clients
        /\ th[v].tmp \in TempNames /\ th[v].tmp \in Names
        /\ Recover(th[v].tmp) \in Names /\ Unshared(v)
    BY <1>9, Holder
  <2>2. n # th[v].tmp /\ n # Recover(th[v].tmp) BY <2>1, NameKinds DEF n
  <2>3. /\ \A d2 \in Clients \ {c} : names'[d2] = names[d2]
        /\ \A m \in Names \ {n} : names'[c][m] = names[c][m]
    BY <1>1 DEF PInv, IInv, TypeOK
  <2>4. ClientOf[v] = c => i # Inode(v)
    BY <1>1, <1>4, <1>9, <2>2, OtherName, FreshForHolder
  <2>5. t \in Peers(v) => ClientOf[v] = c /\ th[t].tmp # th[v].tmp
    BY <2>1 DEF Unshared, Peers
  <2> QED BY <1>1, <1>5, <1>6, <2>1, <2>2, <2>3, <2>4, <2>5 DEF Spares
<1>10. \A u \in Peers(t) : IsOpen(u) => d # th[u].fd
  BY <1>2 DEF FdFree, Peers
<1> QED BY <1>1, <1>5, <1>6, <1>7, <1>8, <1>9, <1>10, RequestKeeps

\* The map leads from a descriptor to its own temporary file, or to one that no
\* request of client_open has.
LEMMA MarkKeeps ==
  ASSUME PInv, IInv', NEW t \in Handles, Mark(t)
  PROVE  PInv'
<1> DEFINE c == ClientOf[t]
           n == tempMap[c][th[t].fd]
<1>1. /\ c \in Clients /\ th[t].fd \in Fds /\ IsOpen(t) /\ th[t].pc = "mark"
      /\ th[t] # Idle /\ UNCHANGED <<mode, tempMap>>
  BY Thread, IdleState DEF Mark, RequestOK, PInv, scan, IsOpen
<1>2. CASE n = NoName
  <2>1. Goto(t, "close") /\ UNCHANGED names BY <1>2 DEF Mark
  <2> QED BY <1>1, <2>1, GotoKeeps DEF PCs
<1>3. CASE n # NoName
  <2>1. n \in TempNames /\ n \in Names /\ Recover(n) \in Names
    <3>1. n \in TempNames BY <1>1, <1>3 DEF PInv, IInv, TypeOK
    <3> QED BY <3>1, NameTypes DEF Names
  <2> DEFINE r == [th[t] EXCEPT !.pc = "close", !.tmp = n]
  <2>2. names' = Move(c, n, Recover(n)) /\ th' = [th EXCEPT ![t] = r]
    BY <1>3 DEF Mark
  <2> HIDE DEF n
  <2>3. th'[t] = r /\ th' = [th EXCEPT ![t] = th'[t]]
    BY <2>2 DEF PInv, IInv, TypeOK
  <2>4. /\ r.pc = "close" /\ r.tmp = n /\ r.fd = th[t].fd /\ r.ino = th[t].ino
        /\ r.want = th[t].want
    BY Thread DEF ThreadState, PInv
  <2> HIDE DEF r
  <2>5. OneName' BY <1>1, <2>1, <2>2, MoveOneName
  <2>6. /\ \A d \in Clients \ {c} : names'[d] = names[d]
        /\ \A m \in Names \ {n, Recover(n)} : names'[c][m] = names[c][m]
        /\ names[c][n] # NoNode => names'[c][Recover(n)] = names[c][n]
    <3>1. names \in [Clients -> [Names -> Nat]] BY DEF PInv, IInv, TypeOK
    <3>2. CASE ~Has(c, n) BY <2>2, <3>2 DEF Move, Has
    <3>3. CASE Has(c, n)
      <4>1. names' = [names EXCEPT ![c][Recover(n)] = names[c][n], ![c][n] = NoNode]
        BY <2>2, <3>3 DEF Move
      <4>2. n # Recover(n) BY <2>1, NameKinds
      <4> QED BY <1>1, <2>1, <3>1, <4>1, <4>2
    <3> QED BY <3>2, <3>3
  <2>7. \A u \in Handles \ {t} : th'[u] = th[u] BY <2>3 DEF PInv, IInv, TypeOK
  <2>8. HeldOK(t)'
    <3> SUFFICES ASSUME Holds(t)' PROVE OwnName(t)' /\ OwnEntry(t)' /\ Unshared(t)'
      BY DEF HeldOK
    <3>1. Holds(t) BY <1>1, <2>3, <2>4 DEF Holds
    <3>2. OwnName(t) /\ OwnEntry(t) /\ Unshared(t) BY <3>1, Holder
    <3>3. th[t].tmp = n BY <1>1, <1>3, <3>2 DEF OwnEntry, n
    <3>4. Inode(t) = th[t].ino /\ Inode(t)' = th[t].ino
      BY <1>1, <2>3, <2>4 DEF Inode
    <3>5. OwnName(t)'
      BY <1>1, <2>1, <2>3, <2>4, <2>6, <3>2, <3>3, <3>4 DEF OwnName, IsOpen
    <3>6. OwnEntry(t)' BY <1>1, <2>3, <2>4, <3>2, <3>3 DEF OwnEntry
    <3>7. \A u \in Peers(t) : th'[u] = th[u] BY <2>7 DEF Peers
    <3>8. Unshared(t)'
      BY <2>3, <2>4, <3>2, <3>3, <3>4, <3>7 DEF Unshared, IsOpen, Peers
    <3> QED BY <3>5, <3>6, <3>8
  <2>9. ASSUME NEW v \in Handles \ {t}, Holds(v) PROVE Spares(t, v)
    <3>1. /\ ClientOf[v] \in Clients
          /\ th[v].tmp \in TempNames /\ th[v].tmp \in Names
          /\ Recover(th[v].tmp) \in Names /\ Unshared(v) /\ OwnEntry(v)
          /\ th[v].pc # "stamp" => IsOpen(v)
      BY <2>9, Holder
    <3>2. ASSUME t \in Peers(v) PROVE n # th[v].tmp /\ ClientOf[v] = c
      <4>1. ClientOf[v] = c BY <3>2 DEF Peers
      <4>2. IsOpen(v) => th[t].fd # th[v].fd
        BY <1>1, <3>2 DEF PInv, DistinctFds
      <4> QED BY <1>1, <3>1, <4>1, <4>2 DEF OwnEntry, n
    <3>3. ClientOf[v] = c => t \in Peers(v) BY DEF Peers
    <3>4. /\ th[v].tmp # Recover(n) /\ Recover(th[v].tmp) # n
          /\ n # th[v].tmp => Recover(th[v].tmp) # Recover(n)
      BY <2>1, <3>1, NameKinds
    <3>5. t \in Peers(v) => (IsOpen(t) => th[t].ino # Inode(v))
      BY <3>1 DEF Unshared
    <3> QED BY <1>1, <2>3, <2>4, <2>6, <3>1, <3>2, <3>3, <3>4, <3>5
        DEF Spares, IsOpen
  <2> QED BY <1>1, <2>3, <2>4, <2>5, <2>8, <2>9, RequestKeeps
<1> QED BY <1>2, <1>3

LEMMA SwapKeeps ==
  ASSUME PInv, IInv', NEW t \in Handles, Swap(t)
  PROVE  PInv'
<1> DEFINE c == ClientOf[t]
           n == Recover(th[t].tmp)
           m == Cached(th[t].path)
<1>1. /\ c \in Clients /\ th[t].tmp \in TempNames /\ n \in Names /\ m \in Names
      /\ th[t] # Idle /\ UNCHANGED <<mode, tempMap>> /\ names' = Move(c, n, m)
  BY Thread, IdleState, NameTypes DEF Swap, RequestOK, PInv, scan
<1>2. Goto(t, "erase") /\ "erase" \in PCs BY DEF Swap, PCs
<1>3. /\ th' = [th EXCEPT ![t] = th'[t]] /\ th'[t].pc = "erase"
      /\ th'[t].tmp = th[t].tmp /\ th'[t].fd = th[t].fd /\ th'[t].ino = th[t].ino
  BY <1>2, GotoState DEF PInv
<1>4. OneName' BY <1>1, MoveOneName
<1>5. HeldOK(t)' BY <1>3 DEF HeldOK, Holds
<1>6. ASSUME NEW v \in Handles \ {t}, Holds(v) PROVE Spares(t, v)
  <2>1. /\ th[v].tmp \in TempNames /\ th[v].tmp \in Names
        /\ Recover(th[v].tmp) \in Names /\ Unshared(v)
    BY <1>6, Holder
  <2>2. ClientOf[v] = c => th[t].tmp # th[v].tmp BY <2>1 DEF Unshared, Peers
  <2>3. /\ m # th[v].tmp /\ m # Recover(th[v].tmp) /\ n # th[v].tmp
        /\ th[t].tmp # th[v].tmp => n # Recover(th[v].tmp)
    BY <1>1, <2>1, NameKinds
  <2> HIDE DEF n, m
  <2>4. /\ \A d \in Clients \ {c} : names'[d] = names[d]
        /\ \A k \in Names \ {n, m} : names'[c][k] = names[c][k]
    <3>1. names \in [Clients -> [Names -> Nat]] BY DEF PInv, IInv, TypeOK
    <3> QED BY <1>1, <3>1 DEF Move
  <2> QED BY <1>1, <1>3, <1>6, <2>1, <2>2, <2>3, <2>4, SparesNames
<1> QED BY <1>1, <1>3, <1>4, <1>5, <1>6, RequestKeeps DEF IsOpen

LEMMA EraseKeeps ==
  ASSUME PInv, IInv', NEW t \in Handles, Erase(t)
  PROVE  PInv'
<1>1. /\ ClientOf[t] \in Clients /\ th[t] # Idle /\ UNCHANGED <<mode, names>>
      /\ \A c \in Clients, d \in Fds : tempMap'[c][d] \in {tempMap[c][d], NoName}
  BY Thread, IdleState DEF Erase, PInv, IInv, TypeOK, scan, disk
<1>2. /\ th' = [th EXCEPT ![t] = th'[t]] /\ th'[t].pc \in {"submit", "idle"}
      /\ th'[t].tmp \in {th[t].tmp, NoName} /\ th'[t].ino \in {th[t].ino, NoNode}
      /\ th'[t].ino # NoNode => th'[t].fd = th[t].fd
  <2>1. CASE Goto(t, "submit") /\ "submit" \in PCs
    BY <2>1, GotoState DEF PInv
  <2>2. CASE Finish(t)
    <3>1. th'[t] = Idle BY <2>2 DEF Finish, PInv, IInv, TypeOK
    <3>2. Idle.pc = "idle" /\ Idle.tmp = NoName /\ Idle.ino = NoNode
      BY DEF Idle, Request
    <3>3. th' = [th EXCEPT ![t] = th'[t]] BY <2>2, <3>1 DEF Finish
    <3> QED BY <3>1, <3>2, <3>3
  <2> QED BY <2>1, <2>2 DEF Erase, PCs
<1>3. OneName' BY <1>1 DEF PInv, OneName
<1>4. HeldOK(t)' BY <1>2 DEF HeldOK, Holds
<1>5. \A v \in Handles \ {t} : Holds(v) => Spares(t, v)
  BY <1>1, <1>2, SparesNames
<1> QED BY <1>1, <1>2, <1>3, <1>4, <1>5, RequestKeeps DEF IsOpen

-----------------------------------------------------------------------------
(* The close thread, crashes and the recovery scan.                        *)

LEMMA SameKeeps ==
  ASSUME PInv, IInv', UNCHANGED <<th, names, tempMap, mode>>
  PROVE  PInv'
<1>1. OneName' BY DEF PInv, OneName
<1>2. Serving' BY DEF PInv, Serving
<1>3. DistinctFds' BY DEF PInv, DistinctFds, Peers, IsOpen
<1>4. CopiesToOpen' BY DEF PInv, CopiesToOpen
<1>5. ASSUME NEW v \in Handles PROVE HeldOK(v)'
  BY DEF PInv, HeldOK, Holds, OwnName, OwnEntry, Unshared, Inode, Peers, IsOpen
<1> QED BY <1>1, <1>2, <1>3, <1>4, <1>5 DEF PInv

\* A step of client c after which none of its requests is left.
LEMMA ClientKeeps ==
  ASSUME PInv, IInv', OneName', NEW c \in Clients,
         \A u \in Handles : th'[u] = IF ClientOf[u] = c THEN Idle ELSE th[u],
         \A d \in Clients \ {c} : /\ names'[d] = names[d] /\ tempMap'[d] = tempMap[d]
                                  /\ mode'[d] = mode[d]
  PROVE  PInv'
<1>1. Idle.ino = NoNode /\ Idle.pc = "idle" BY DEF Idle, Request
<1>2. \A u \in Handles : ClientOf[u] \in Clients BY ClientsAssumption
<1>3. Serving' BY <1>2 DEF PInv, Serving
<1>4. DistinctFds' BY <1>1 DEF PInv, DistinctFds, Peers, IsOpen
<1>5. CopiesToOpen' BY <1>1 DEF PInv, CopiesToOpen
<1>6. ASSUME NEW v \in Handles PROVE HeldOK(v)'
  <2>1. CASE ClientOf[v] = c BY <1>1, <2>1 DEF HeldOK, Holds
  <2>2. CASE ClientOf[v] # c
    <3>1. HeldOK(v) /\ th'[v] = th[v] /\ ClientOf[v] \in Clients \ {c}
      BY <1>2, <2>2 DEF PInv
    <3>2. \A u \in Peers(v) : th'[u] = th[u] BY <2>2 DEF Peers
    <3> QED BY <3>1, <3>2
        DEF HeldOK, Holds, OwnName, OwnEntry, Unshared, Inode, Peers, IsOpen
  <2> QED BY <2>1, <2>2
<1> QED BY <1>3, <1>4, <1>5, <1>6 DEF PInv

LEMMA CloserKeeps ==
  ASSUME PInv, IInv', NEW c \in Clients, CloserStep(c)
  PROVE  PInv'
BY SameKeeps DEF CloserStep, Dequeue, CloseOnServer, disk, scan

LEMMA CrashKeeps ==
  ASSUME PInv, IInv', NEW c \in Clients, Crash(c)
  PROVE  PInv'
<1>1. UNCHANGED names BY DEF Crash, disk
<1>2. OneName' BY <1>1 DEF PInv, OneName
<1>3. \A d \in Clients \ {c} : tempMap'[d] = tempMap[d] /\ mode'[d] = mode[d]
  BY DEF Crash, PInv, IInv, TypeOK
<1>4. \A u \in Handles : th'[u] = IF ClientOf[u] = c THEN Idle ELSE th[u]
  BY DEF Crash
<1> QED BY <1>1, <1>2, <1>3, <1>4, ClientKeeps

LEMMA RestartKeeps ==
  ASSUME PInv, IInv', NEW c \in Clients, Restart(c)
  PROVE  PInv'
<1>1. UNCHANGED <<names, tempMap, th>> /\ mode[c] = "down" BY DEF Restart, disk
<1>2. OneName' BY <1>1 DEF PInv, OneName
<1>3. \A d \in Clients \ {c} : mode'[d] = mode[d]
  BY DEF Restart, PInv, IInv, TypeOK
<1>4. \A u \in Handles : th'[u] = IF ClientOf[u] = c THEN Idle ELSE th[u]
  BY <1>1 DEF PInv, Serving
<1> QED BY <1>1, <1>2, <1>3, <1>4, ClientKeeps

LEMMA ScanKeeps ==
  ASSUME PInv, IInv', NEW c \in Clients, ScanStep(c)
  PROVE  PInv'
<1>1. ASSUME mode[c] = "recovering", OneName', UNCHANGED <<th, tempMap>>,
             \A d \in Clients \ {c} : names'[d] = names[d] /\ mode'[d] = mode[d]
      PROVE  PInv'
  <2>1. \A u \in Handles : th'[u] = IF ClientOf[u] = c THEN Idle ELSE th[u]
    BY <1>1 DEF PInv, Serving
  <2> QED BY <1>1, <2>1, ClientKeeps
<1>2. ASSUME NEW n \in RecoverNames, RecoverRename(c, n) PROVE PInv'
  <2>1. n \in Names /\ Cached(n[2]) \in Names BY NameTypes
  <2>2. /\ mode[c] = "recovering" /\ UNCHANGED <<th, tempMap, mode>>
        /\ names' = Move(c, n, Cached(n[2]))
    BY <1>2 DEF RecoverRename
  <2>3. OneName' BY <2>1, <2>2, MoveOneName
  <2>4. \A d \in Clients \ {c} : names'[d] = names[d]
    BY <2>2 DEF Move, PInv, IInv, TypeOK
  <2> QED BY <1>1, <2>2, <2>3, <2>4
<1>3. ASSUME NEW intact \in NameIntact, NEW ok \in BOOLEAN, RecoverSend(c, intact, ok)
      PROVE  PInv'
  BY <1>3, SameKeeps DEF RecoverSend, disk
<1>4. ASSUME NEW n \in TempNames, DiscardTemp(c, n) PROVE PInv'
  <2>1. /\ mode[c] = "recovering" /\ UNCHANGED <<th, tempMap, mode>>
        /\ names' = [names EXCEPT ![c][n] = NoNode]
    BY <1>4 DEF DiscardTemp, scan
  <2>2. OneName' BY <2>1, NameTypes, UnlinkOneName
  <2>3. \A d \in Clients \ {c} : names'[d] = names[d]
    BY <2>1 DEF PInv, IInv, TypeOK
  <2> QED BY <1>1, <2>1, <2>2, <2>3
<1>5. CASE RecoverDone(c)
  <2>1. mode[c] = "recovering" /\ UNCHANGED <<th, tempMap, names>>
    BY <1>5 DEF RecoverDone, disk
  <2>2. OneName' BY <2>1 DEF PInv, OneName
  <2>3. \A d \in Clients \ {c} : mode'[d] = mode[d]
    BY <1>5 DEF RecoverDone, PInv, IInv, TypeOK
  <2> QED BY <1>1, <2>1, <2>2, <2>3
<1> QED BY <1>2, <1>3, <1>4, <1>5 DEF ScanStep

-----------------------------------------------------------------------------
(* The theorem.                                                            *)

LEMMA InitPInv == Init => PInv
<1> SUFFICES ASSUME Init PROVE PInv
  OBVIOUS
<1>1. \A t \in Handles : th[t] = Idle BY DEF Init
<1>2. Idle.pc = "idle" /\ Idle.ino = NoNode BY DEF Idle, Request
<1>3. OneName BY DEF Init, OneName
<1>4. Serving /\ DistinctFds /\ CopiesToOpen
  BY <1>1, <1>2 DEF Serving, DistinctFds, CopiesToOpen, IsOpen, Peers
<1>5. \A t \in Handles : HeldOK(t) BY <1>1, <1>2 DEF HeldOK, Holds
<1> QED BY <1>3, <1>4, <1>5, InitIInv DEF PInv

LEMMA StepPInv ==
  ASSUME ~Collisions, PInv, [Next]_vars
  PROVE  PInv'
<1>0. IInv' BY StepIInv DEF PInv
<1>1. ASSUME NEW t \in Handles, UserStep(t) PROVE PInv'
  BY <1>0, <1>1, LookupKeeps, CreateLookupKeeps, WriteKeeps, ReleaseKeeps DEF UserStep
<1>2. ASSUME NEW t \in Handles, OpenStep(t) PROVE PInv'
  BY <1>0, <1>2, CheckKeeps, FetchKeeps, InstallKeeps, GetattrKeeps, UtimensKeeps,
     CopyKeeps, StampKeeps, CreateRemoteKeeps, CreateLocalKeeps DEF OpenStep
<1>3. ASSUME NEW t \in Handles, ReleaseStep(t) PROVE PInv'
  BY <1>0, <1>3, MarkKeeps, CloseKeeps, SwapKeeps, EraseKeeps, EndKeeps
     DEF ReleaseStep
<1>4. ASSUME NEW c \in Clients, CloserStep(c) \/ Crash(c) \/ Restart(c) \/ ScanStep(c)
      PROVE  PInv'
  BY <1>0, <1>4, CloserKeeps, CrashKeeps, RestartKeeps, ScanKeeps
<1>5. CASE UNCHANGED vars
  BY <1>0, <1>5, SameKeeps DEF vars, disk, scan
<1> QED BY <1>1, <1>2, <1>3, <1>4, <1>5 DEF Next

LEMMA HeldPrivate == PInv => HandlesPrivate
<1> SUFFICES ASSUME PInv, NEW t \in Handles,
                    th[t].pc \in {"open", "mark", "close", "drop"}, th[t].want = "open"
             PROVE  /\ \A n \in CachedNames : names[ClientOf[t]][n] # th[t].ino
                    /\ \A u \in Handles \ {t} :
                         ClientOf[u] = ClientOf[t] => th[u].ino # th[t].ino
  BY DEF HandlesPrivate
<1>1. Holds(t) /\ Inode(t) = th[t].ino BY DEF Holds, Inode
<1>2. th[t].ino # NoNode /\ th[t].tmp \in TempNames /\ Unshared(t)
  BY <1>1, Holder DEF IsOpen
<1>3. ASSUME NEW n \in CachedNames PROVE names[ClientOf[t]][n] # th[t].ino
  <2>1. n \in Names /\ n[1] = "cached" BY DEF Names, CachedNames
  <2>2. n # th[t].tmp /\ n # Recover(th[t].tmp)
    BY <1>2, <2>1 DEF TempNames, Recover
  <2> QED BY <1>1, <1>2, <2>1, <2>2, OtherName DEF Has
<1>4. \A u \in Peers(t) : th[u].ino # th[t].ino
  BY <1>1, <1>2 DEF Unshared, IsOpen
<1> QED BY <1>3, <1>4 DEF Peers

\* Whatever requests, other clients, crashes and recoveries do in between, a
\* handle of client_open has its inode to itself until it is closed, if no drawn
\* number is in use already.  Files that client_create opens are not excluded.
THEOREM HandlesStayPrivate == (Collisions = FALSE) => (Spec => []HandlesPrivate)
<1>1. ASSUME ~Collisions PROVE Spec => []HandlesPrivate
  <2>1. PInv /\ [Next]_vars => PInv' BY <1>1, StepPInv
  <2> QED BY <2>1, InitPInv, HeldPrivate, PTL DEF Spec
<1> QED BY <1>1

-----------------------------------------------------------------------------
(* The inductive invariant of UnclosedStaysLocal.                          *)

Closed(x) == Written(x) => x \in released

\* Without client_create the handles are those of client_open.
Opening ==
  \A t \in Handles :
    /\ th[t].want # "create"
    /\ th[t].pc \in {"open", "mark", "drop", "close"} => th[t].want = "open"

ServerClosed ==
  \A f \in Files : /\ Closed(srv[f].data)
                   /\ \A i \in 1 .. Len(log[f]) : Closed(log[f][i])

\* The names from which opens copy and closes and recoveries send.
Sources == CachedNames \cup RecoverNames

CacheClosed ==
  \A c \in Clients : \A n \in Sources : Has(c, n) => Closed(At(c, n).data)

FetchClosed == \A t \in Handles : th[t].pc = "install" => Closed(th[t].buf)

\* The inode of a request has what its copy had or what its client_write put
\* there, and is not marked before its close has begun.
Datum(t) == nodes[ClientOf[t]][Inode(t)].data

HandleData(t) ==
  Holds(t) /\ Inode(t) # NoNode =>
    Closed(Datum(t)) \/ (th[t].pc = "open" /\ Datum(t) = th[t].buf)

SInv ==
  /\ PInv /\ Opening /\ ServerClosed /\ CacheClosed /\ FetchClosed
  /\ \A t \in Handles : HandleData(t)

-----------------------------------------------------------------------------
(* What a step does to the contents of the inodes.                         *)

DataStays ==
  \A c \in Clients : \A i \in 1 .. Len(nodes[c]) : nodes'[c][i].data = nodes[c][i].data

LEMMA SameData == UNCHANGED nodes => DataStays
BY DEF DataStays

LEMMA SetName ==
  ASSUME PInv, NEW c \in Clients, NEW n \in Names, NEW i,
         names' = [names EXCEPT ![c][n] = i]
  PROVE  /\ names'[c][n] = i
         /\ \A d \in Clients, m \in Names :
              d # c \/ m # n => names'[d][m] = names[d][m]
<1>1. names \in [Clients -> [Names -> Nat]] BY DEF PInv, IInv, TypeOK
<1> QED BY ONLY <1>1, names' = [names EXCEPT ![c][n] = i], c \in Clients, n \in Names

LEMMA GrowData ==
  ASSUME PInv, NEW c \in Clients, NEW x \in Node,
         nodes' = [nodes EXCEPT ![c] = Append(@, x)]
  PROVE  DataStays /\ nodes'[c][Len(nodes[c]) + 1] = x
<1>1. nodes \in [Clients -> Seq(Node)] /\ nodes[c] \in Seq(Node)
  BY DEF PInv, IInv, TypeOK
<1>2. /\ Append(nodes[c], x)[Len(nodes[c]) + 1] = x
      /\ \A i \in 1 .. Len(nodes[c]) : Append(nodes[c], x)[i] = nodes[c][i]
  BY ONLY <1>1, AppendProperties
<1>3. nodes'[c] = Append(nodes[c], x) /\ \A d \in Clients \ {c} : nodes'[d] = nodes[d]
  BY <1>1
<1> QED BY <1>2, <1>3 DEF DataStays

LEMMA TouchData ==
  ASSUME PInv, NEW c \in Clients, NEW i \in 1 .. Len(nodes[c]), NEW k,
         nodes' = [nodes EXCEPT ![c][i].mtime = k]
  PROVE  DataStays
<1>1. nodes \in [Clients -> Seq(Node)] /\ nodes[c] \in Seq(Node)
  BY DEF PInv, IInv, TypeOK
<1>2. nodes[c][i] \in Node BY ONLY <1>1, ElementOfSeq
<1>3. [nodes[c][i] EXCEPT !.mtime = k].data = nodes[c][i].data BY <1>2 DEF Node
<1>4. nodes'[c] = [nodes[c] EXCEPT ![i] = [nodes[c][i] EXCEPT !.mtime = k]]
      /\ \A d \in Clients \ {c} : nodes'[d] = nodes[d]
  BY <1>1
<1> DEFINE y == [nodes[c][i] EXCEPT !.mtime = k]
<1>5. \A j \in 1 .. Len(nodes[c]) :
        nodes'[c][j] = IF j = i THEN y ELSE nodes[c][j]
  <2>1. nodes'[c] = [nodes[c] EXCEPT ![i] = y] BY <1>4
  <2> HIDE DEF y
  <2> QED BY ONLY <1>1, <2>1, ExceptSeq
<1> QED BY <1>3, <1>4, <1>5 DEF DataStays

LEMMA SourceNames ==
  /\ Sources \subseteq Names
  /\ \A f \in Files : Cached(f) \in Sources
  /\ \A n \in TempNames : Recover(n) \in Sources /\ n \notin Sources
  /\ \A n \in RecoverNames : n \in Sources
BY DEF Sources, Names, CachedNames, TempNames, RecoverNames, Cached, Recover

\* Sources lead to inodes that sources led to, or to closed contents.
LEMMA CacheFrom ==
  ASSUME SInv, DataStays, released \subseteq released',
         \A c \in Clients, n \in Sources :
           \/ names'[c][n] = NoNode
           \/ \E m \in Sources : names'[c][n] = names[c][m]
           \/ Closed(nodes[c][names[c][n]].data)'
  PROVE  CacheClosed'
<1> SUFFICES ASSUME NEW c \in Clients, NEW n \in Sources, names'[c][n] # NoNode
             PROVE  Closed(nodes[c][names[c][n]].data)'
  BY DEF CacheClosed, Has, At
<1>1. ASSUME NEW m \in Sources, names'[c][n] = names[c][m]
      PROVE  Closed(nodes[c][names[c][n]].data)'
  <2>1. Has(c, m) BY <1>1 DEF Has
  <2>2. names[c][m] \in 1 .. Len(nodes[c])
    BY <2>1, NodeAt, SourceNames DEF SInv, PInv
  <2>3. nodes'[c][names'[c][n]].data = At(c, m).data
    BY <1>1, <2>2 DEF DataStays, At
  <2>4. Closed(At(c, m).data) BY <2>1 DEF SInv, CacheClosed
  <2> QED BY <2>3, <2>4 DEF Closed
<1> QED BY <1>1

LEMMA SameServer ==
  ASSUME SInv, UNCHANGED <<srv, log>>, released \subseteq released'
  PROVE  ServerClosed'
BY DEF SInv, ServerClosed, Closed

LEMMA PutClosed ==
  ASSUME SInv, NEW c \in Clients, NEW n \in Sources, NEW f \in Files,
         NEW ok \in BOOLEAN,
         Put(c, n, f, ok), released \subseteq released'
  PROVE  ServerClosed'
<1>1. CASE ok /\ Has(c, n)
  <2> DEFINE x == At(c, n).data
             y == [data |-> x, mtime |-> Boot + clock]
  <2>1. Closed(x) /\ y.data = x BY <1>1 DEF SInv, CacheClosed
  <2>2. x \in Contents BY <1>1, NodeAt, SourceNames DEF SInv, PInv
  <2>3. srv' = [srv EXCEPT ![f] = y] /\ log' = [log EXCEPT ![f] = Append(log[f], x)]
    BY <1>1 DEF Put, Publish
  <2> HIDE DEF x, y
  <2>4. srv \in [Files -> Node \cup {Absent}] /\ log \in [Files -> Seq(Contents)]
    BY DEF SInv, PInv, IInv, TypeOK
  <2>5. /\ Len(Append(log[f], x)) = Len(log[f]) + 1 /\ Len(log[f]) \in Nat
        /\ Append(log[f], x)[Len(log[f]) + 1] = x
        /\ \A i \in 1 .. Len(log[f]) : Append(log[f], x)[i] = log[f][i]
    BY <2>2, <2>4, AppendProperties
  <2>6. ASSUME NEW g \in Files
        PROVE  /\ Closed(srv[g].data)'
               /\ \A i \in 1 .. Len(log'[g]) : Closed(log[g][i])'
    <3>1. Closed(srv[g].data) /\ \A i \in 1 .. Len(log[g]) : Closed(log[g][i])
      BY DEF SInv, ServerClosed
    <3>2. CASE g # f
      <4>1. srv'[g] = srv[g] /\ log'[g] = log[g] BY <2>3, <2>4, <3>2
      <4> QED BY <3>1, <4>1 DEF Closed
    <3>3. CASE g = f
      <4>1. srv'[g] = y /\ log'[g] = Append(log[f], x) BY <2>3, <2>4, <3>3
      <4>2. ASSUME NEW i \in 1 .. Len(log'[g]) PROVE Closed(log[g][i])'
        <5>1. CASE i \in 1 .. Len(log[f])
          <6>1. log'[g][i] = log[g][i] /\ Closed(log[g][i])
            BY <2>5, <3>1, <3>3, <4>1, <5>1
          <6> QED BY <6>1 DEF Closed
        <5>2. CASE i \notin 1 .. Len(log[f])
          <6>1. i = Len(log[f]) + 1 BY <2>5, <4>1, <4>2, <5>2
          <6>2. log'[g][i] = x BY <2>5, <4>1, <6>1
          <6> QED BY <2>1, <6>2 DEF Closed
        <5> QED BY <5>1, <5>2
      <4>3. Closed(srv[g].data)' BY <2>1, <4>1 DEF Closed
      <4> QED BY <4>2, <4>3
    <3> QED BY <3>2, <3>3
  <2> QED BY <2>6 DEF ServerClosed
<1>2. CASE ~(ok /\ Has(c, n))
  <2>1. UNCHANGED <<srv, log>> BY <1>2 DEF Put, server
  <2> QED BY <2>1, SameServer
<1> QED BY <1>1, <1>2

LEMMA InodeExists ==
  ASSUME PInv, NEW v \in Handles, Holds(v), Inode(v) # NoNode
  PROVE  ClientOf[v] \in Clients /\ Inode(v) \in 1 .. Len(nodes[ClientOf[v]])
<1>1. /\ ClientOf[v] \in Clients /\ Len(nodes[ClientOf[v]]) \in Nat
      /\ th[v].ino \in 0 .. Len(nodes[ClientOf[v]])
  BY Thread DEF PInv
<1>2. th[v].tmp \in Names BY Holder
<1>3. names[ClientOf[v]][th[v].tmp] \in 0 .. Len(nodes[ClientOf[v]])
  BY <1>1, <1>2 DEF PInv, IInv, TypeOK, Linked
<1>4. Inode(v) \in {th[v].ino, names[ClientOf[v]][th[v].tmp]} BY DEF Inode
<1> QED BY ONLY <1>1, <1>3, <1>4, Inode(v) # NoNode DEF NoNode

\* A request that does not take the step, unless its copy is made.
LEMMA OtherData ==
  ASSUME SInv, DataStays, released \subseteq released', NEW v \in Handles,
         th'[v] = th[v],
         Holds(v) => names'[ClientOf[v]][th[v].tmp]
                       \in {names[ClientOf[v]][th[v].tmp], NoNode}
  PROVE  HandleData(v)'
<1> SUFFICES ASSUME Holds(v), Inode(v)' # NoNode
             PROVE  \/ Closed(Datum(v))'
                    \/ th[v].pc = "open" /\ Datum(v)' = th[v].buf
  BY DEF HandleData, Holds
<1>1. Inode(v)' = Inode(v) BY DEF Inode
<1>2. Inode(v) \in 1 .. Len(nodes[ClientOf[v]]) /\ ClientOf[v] \in Clients
  BY <1>1, InodeExists DEF SInv
<1>3. Datum(v)' = Datum(v) BY <1>1, <1>2 DEF DataStays, Datum
<1> QED BY <1>1, <1>3 DEF SInv, HandleData, Closed

\* A step of request t.
LEMMA RequestCloses ==
  ASSUME SInv, PInv', NEW t \in Handles, \A u \in Handles \ {t} : th'[u] = th[u],
         DataStays, released \subseteq released', ServerClosed', CacheClosed',
         \A v \in Handles \ {t} :
           Holds(v) => names'[ClientOf[v]][th[v].tmp]
                         \in {names[ClientOf[v]][th[v].tmp], NoNode},
         th'[t].want # "create",
         th'[t].pc \in {"open", "mark", "drop", "close"} => th'[t].want = "open",
         th'[t].pc = "install" => Closed(th[t].buf)',
         HandleData(t)'
  PROVE  SInv'
<1>1. \A v \in Handles : HandleData(v)' BY OtherData
<1>2. Opening' BY DEF SInv, Opening
<1>3. FetchClosed'
  <2>1. \A v \in Handles \ {t} : th[v].pc = "install" => Closed(th[v].buf)
    BY DEF SInv, FetchClosed
  <2> QED BY <2>1 DEF FetchClosed, Closed
<1> QED BY <1>1, <1>2, <1>3 DEF SInv

\* A step of request t that changes neither the names nor contents.
LEMMA QuietCloses ==
  ASSUME SInv, PInv', NEW t \in Handles, \A u \in Handles \ {t} : th'[u] = th[u],
         UNCHANGED names, DataStays, released \subseteq released', ServerClosed',
         th'[t].want # "create",
         th'[t].pc \in {"open", "mark", "drop", "close"} => th'[t].want = "open",
         th'[t].pc = "install" => Closed(th[t].buf)',
         HandleData(t)'
  PROVE  SInv'
<1>1. CacheClosed' BY CacheFrom
<1> QED BY <1>1, RequestCloses

\* Steps after which the request has no file, or not any more.
LEMMA WithoutFile ==
  ASSUME SInv, PInv', NEW t \in Handles, th' = [th EXCEPT ![t] = th'[t]],
         UNCHANGED names, DataStays, released \subseteq released', ServerClosed',
         th'[t].want # "create",
         th'[t].pc \notin {"stamp", "open", "mark", "drop", "close"},
         th'[t].pc = "install" => Closed(th[t].buf)'
  PROVE  SInv'
<1>1. \A u \in Handles \ {t} : th'[u] = th[u] BY DEF SInv, PInv, IInv, TypeOK
<1>2. HandleData(t)' BY DEF HandleData, Holds
<1> QED BY <1>1, <1>2, QuietCloses

LEMMA GotoCloses ==
  ASSUME SInv, PInv', NEW t \in Handles, UNCHANGED names, DataStays,
         released \subseteq released', ServerClosed',
         NEW label \in PCs \ {"install", "stamp", "open", "mark", "drop", "close"},
         Goto(t, label)
  PROVE  SInv'
<1>1. th' = [th EXCEPT ![t] = th'[t]] /\ th'[t].pc = label /\ th'[t].want = th[t].want
  BY GotoState DEF SInv, PInv
<1>2. th[t].want # "create" BY DEF SInv, Opening
<1> QED BY <1>1, <1>2, WithoutFile

LEMMA IdleCloses ==
  ASSUME SInv, PInv', NEW t \in Handles, UNCHANGED names, DataStays,
         released \subseteq released', ServerClosed',
         th' = [th EXCEPT ![t] = Idle]
  PROVE  SInv'
<1>1. Idle.pc = "idle" /\ Idle.want = "none" BY DEF Idle, Request
<1>2. th'[t] = Idle BY DEF SInv, PInv, IInv, TypeOK
<1>3. th' = [th EXCEPT ![t] = th'[t]] BY <1>2
<1> QED BY <1>1, <1>2, <1>3, WithoutFile

LEMMA LookupCloses ==
  ASSUME SInv, PInv', NEW t \in Handles, NEW f \in Files,
         NEW want \in {"open", "getattr"}, Lookup(t, f, want)
  PROVE  SInv'
<1>1. PICK pc \in {"check", "fetch"},
           got \in {0, At(ClientOf[t], Cached(f)).mtime} :
        th' = [th EXCEPT ![t] = Request(pc, want, f, got, Len(log[f]))]
  BY DEF Lookup
<1>2. /\ UNCHANGED names /\ DataStays /\ released \subseteq released'
      /\ UNCHANGED <<srv, log>>
  BY SameData DEF Lookup, disk, history, server
<1> DEFINE r == Request(pc, want, f, got, Len(log[f]))
<1>3. r.pc = pc /\ r.want = want BY DEF Request
<1> HIDE DEF r
<1>4. th'[t] = r BY <1>1 DEF SInv, PInv, IInv, TypeOK, r
<1>5. th' = [th EXCEPT ![t] = th'[t]] BY <1>1, <1>4 DEF r
<1>6. ServerClosed' BY <1>2, SameServer
<1> QED BY <1>2, <1>3, <1>4, <1>5, <1>6, WithoutFile

LEMMA CheckCloses ==
  ASSUME SInv, PInv', NEW t \in Handles, NEW ok \in BOOLEAN, Check(t, ok)
  PROVE  SInv'
<1>1. /\ UNCHANGED names /\ DataStays /\ released \subseteq released'
      /\ ServerClosed'
  BY SameData, SameServer DEF Check, disk, history, server
<1>2. CASE Goto(t, "fetch") BY <1>1, <1>2, GotoCloses DEF PCs
<1>3. CASE Goto(t, "copy") BY <1>1, <1>3, GotoCloses DEF PCs
<1>4. CASE th' = [th EXCEPT ![t] = Idle] BY <1>1, <1>4, IdleCloses
<1> QED BY <1>2, <1>3, <1>4 DEF Check

LEMMA FetchCloses ==
  ASSUME SInv, PInv', NEW t \in Handles, NEW ok \in BOOLEAN, Fetch(t, ok)
  PROVE  SInv'
<1>1. /\ UNCHANGED names /\ DataStays /\ UNCHANGED released /\ ServerClosed'
  BY SameData, SameServer DEF Fetch, disk, history, server
<1>2. CASE Goto(t, "getattr") BY <1>1, <1>2, GotoCloses DEF PCs
<1>3. CASE ~Goto(t, "getattr")
  <2> DEFINE x == srv[th[t].path].data
             r == [th[t] EXCEPT !.pc = "install", !.buf = x]
  <2>1. th' = [th EXCEPT ![t] = r] BY <1>3 DEF Fetch
  <2>2. th[t].path \in Files BY Thread DEF Fetch, SInv, PInv
  <2>3. Closed(x) BY <2>2 DEF SInv, ServerClosed
  <2> HIDE DEF x
  <2>4. th'[t] = r /\ th' = [th EXCEPT ![t] = th'[t]]
    BY <2>1 DEF SInv, PInv, IInv, TypeOK
  <2>5. r.pc = "install" /\ r.buf = x /\ r.want = th[t].want
    BY Thread DEF ThreadState, SInv, PInv
  <2> HIDE DEF r
  <2>6. th[t].want # "create" BY DEF SInv, Opening
  <2>7. Closed(th[t].buf)' BY <1>1, <2>3, <2>4, <2>5 DEF Closed
  <2> QED BY <1>1, <2>4, <2>5, <2>6, <2>7, WithoutFile
<1> QED BY <1>2, <1>3

LEMMA GetattrCloses ==
  ASSUME SInv, PInv', NEW t \in Handles, NEW ok \in BOOLEAN, Getattr(t, ok)
  PROVE  SInv'
<1>1. /\ UNCHANGED names /\ DataStays /\ released \subseteq released'
      /\ ServerClosed'
  BY SameData, SameServer DEF Getattr, disk, history, server
<1> DEFINE r == [th[t] EXCEPT !.pc = "utimens", !.got = Mtime(th[t].path, ok)]
<1>2. th' = [th EXCEPT ![t] = r] BY DEF Getattr
<1>3. th'[t] = r /\ th' = [th EXCEPT ![t] = th'[t]]
  BY <1>2 DEF SInv, PInv, IInv, TypeOK
<1>4. r.pc = "utimens" /\ r.want = th[t].want
  BY Thread DEF ThreadState, SInv, PInv
<1> HIDE DEF r
<1>5. th[t].want # "create" BY DEF SInv, Opening
<1> QED BY <1>1, <1>3, <1>4, <1>5, WithoutFile

LEMMA UtimensCloses ==
  ASSUME SInv, PInv', NEW t \in Handles, Utimens(t)
  PROVE  SInv'
<1> DEFINE c == ClientOf[t]
           n == Cached(th[t].path)
<1>1. c \in Clients /\ n \in Names /\ th[t].want \in {"open", "getattr"}
  BY Thread DEF Utimens, SInv, PInv, RequestOK, Opening
<1>2. DataStays
  <2>1. CASE Has(c, n)
    <3>1. names[c][n] \in 1 .. Len(nodes[c]) BY <1>1, <2>1, NodeAt DEF SInv, PInv
    <3>2. nodes' = [nodes EXCEPT ![c][names[c][n]].mtime = th[t].got]
      BY <2>1 DEF Utimens
    <3> DEFINE i == names[c][n]
    <3>3. i \in 1 .. Len(nodes[c]) /\ nodes' = [nodes EXCEPT ![c][i].mtime = th[t].got]
      BY <3>1, <3>2
    <3> HIDE DEF c, i
    <3> QED BY <1>1, <3>3, TouchData DEF SInv
  <2>2. CASE ~Has(c, n) BY <2>2, SameData DEF Utimens
  <2> QED BY <2>1, <2>2
<1>3. UNCHANGED names /\ released \subseteq released' /\ ServerClosed'
  BY SameServer DEF Utimens, history, server
<1>4. CASE th[t].want = "open"
  <2>1. Goto(t, "copy") BY <1>4 DEF Utimens
  <2> QED BY <1>2, <1>3, <2>1, GotoCloses DEF PCs
<1>5. CASE th[t].want = "getattr"
  <2>1. th' = [th EXCEPT ![t] = Idle] BY <1>5 DEF Utimens
  <2> QED BY <1>2, <1>3, <2>1, IdleCloses
<1> QED BY <1>1, <1>4, <1>5

\* The late part of client_release.
LEMMA EndCloses ==
  ASSUME SInv, PInv', NEW t \in Handles,
         \/ Drop(t) \/ Submit(t) \/ Erase(t)
         \/ \E ok \in BOOLEAN : Send(t, ok) \/ SendPath(t, ok)
  PROVE  SInv'
<1>1. UNCHANGED names /\ DataStays /\ UNCHANGED released
  BY SameData DEF Drop, Submit, Erase, Send, SendPath, Finish, disk, history
<1>2. CASE Drop(t)
  BY <1>1, <1>2, SameServer, IdleCloses DEF Drop, Finish, server
<1>3. CASE Submit(t)
  BY <1>1, <1>3, SameServer, IdleCloses DEF Submit, Finish, server
<1>4. CASE Erase(t)
  <2>1. ServerClosed' BY <1>1, <1>4, SameServer DEF Erase, server
  <2>2. CASE Goto(t, "submit") BY <1>1, <2>1, <2>2, GotoCloses DEF PCs
  <2>3. CASE Finish(t) BY <1>1, <2>1, <2>3, IdleCloses DEF Finish
  <2> QED BY <1>4, <2>2, <2>3 DEF Erase
<1>5. ASSUME NEW ok \in BOOLEAN, Send(t, ok) PROVE SInv'
  <2> DEFINE n == th[t].tmp
  <2>1. /\ ClientOf[t] \in Clients /\ n[2] \in Files /\ Recover(n) \in Sources
    BY <1>5, Thread, NameTypes, SourceNames DEF Send, RequestOK, SInv, PInv
  <2>2. ServerClosed'
    <3>1. CASE n[2] \in Nested
      BY <1>1, <1>5, <3>1, SameServer DEF Send, server
    <3>2. CASE n[2] \notin Nested
      <4>1. Put(ClientOf[t], Recover(n), n[2], ok) BY <1>5, <3>2 DEF Send
      <4> QED BY <1>1, <2>1, <4>1, PutClosed
    <3> QED BY <3>1, <3>2
  <2>3. Goto(t, "swap") BY <1>5 DEF Send
  <2> QED BY <1>1, <2>2, <2>3, GotoCloses DEF PCs
<1>6. ASSUME NEW ok \in BOOLEAN, SendPath(t, ok) PROVE SInv'
  <2>1. /\ ClientOf[t] \in Clients /\ th[t].path \in Files
        /\ Cached(th[t].path) \in Sources
    BY <1>6, Thread, SourceNames DEF SendPath, SInv, PInv
  <2>2. ServerClosed' BY <1>1, <1>6, <2>1, PutClosed DEF SendPath
  <2> QED BY <1>1, <1>6, <2>2, IdleCloses DEF SendPath, Finish
<1> QED BY <1>2, <1>3, <1>4, <1>5, <1>6

LEMMA CloseCloses ==
  ASSUME SInv, PInv', NEW t \in Handles, Close(t)
  PROVE  SInv'
<1>1. /\ UNCHANGED names /\ DataStays /\ released \subseteq released'
      /\ ServerClosed'
  BY SameData, SameServer DEF Close, disk, history, server
<1>2. PICK pc \in {"send", "swap", "sendPath", "submit"},
           want \in {"submit", th[t].want} :
        th' = [th EXCEPT ![t].pc = pc, ![t].ino = NoNode, ![t].want = want]
  BY DEF Close
<1> DEFINE r == [th[t] EXCEPT !.pc = pc, !.ino = NoNode, !.want = want]
<1>3. th' = [th EXCEPT ![t] = r] BY <1>2
<1>4. th'[t] = r /\ th' = [th EXCEPT ![t] = th'[t]]
  BY <1>3 DEF SInv, PInv, IInv, TypeOK
<1>5. r.pc = pc /\ r.want = want BY Thread DEF ThreadState, SInv, PInv
<1> HIDE DEF r
<1>6. want # "create" BY DEF SInv, Opening
<1> QED BY <1>1, <1>4, <1>5, <1>6, WithoutFile

-----------------------------------------------------------------------------
(* Steps that give a request its file, and steps that use it.              *)

LEMMA StampCloses ==
  ASSUME SInv, PInv', NEW t \in Handles, Stamp(t)
  PROVE  SInv'
<1> DEFINE c == ClientOf[t]
           f == th[t].path
           n == th[t].tmp
<1>1. /\ th[t].pc = "stamp" /\ UNCHANGED <<names, released>>
      /\ ServerClosed'
  BY SameServer DEF Stamp, server
<1>2. CASE th' = [th EXCEPT ![t] = Idle] /\ UNCHANGED nodes
  BY <1>1, <1>2, SameData, IdleCloses
<1>3. ASSUME Has(c, n), NEW d \in Fds, NEW k,
             nodes' = [nodes EXCEPT ![c][names[c][n]].mtime = k],
             th' = [th EXCEPT ![t].pc = "open", ![t].fd = d, ![t].ino = names[c][n]]
      PROVE  SInv'
  <2> DEFINE i == names[c][n]
             r == [th[t] EXCEPT !.pc = "open", !.fd = d, !.ino = i]
  <2>1. th[t].want = "open" /\ Holds(t)
    BY <1>1 DEF SInv, PInv, CopiesToOpen, Holds
  <2>2. c \in Clients /\ n \in Names BY <2>1, Holder DEF SInv
  <2>3. i \in 1 .. Len(nodes[c]) BY <1>3, <2>2, NodeAt DEF SInv, PInv
  <2>4. i # NoNode /\ i = Inode(t) BY <1>1, <1>3 DEF Has, Inode
  <2>5. th' = [th EXCEPT ![t] = r] /\ nodes' = [nodes EXCEPT ![c][i].mtime = k]
    BY <1>3
  <2> HIDE DEF i
  <2>6. DataStays
    <3> HIDE DEF c
    <3> QED BY <2>2, <2>3, <2>5, TouchData DEF SInv
  <2>7. th'[t] = r /\ \A u \in Handles \ {t} : th'[u] = th[u]
    BY <2>5 DEF SInv, PInv, IInv, TypeOK
  <2>8. r.pc = "open" /\ r.ino = i /\ r.want = th[t].want
    BY Thread DEF ThreadState, SInv, PInv
  <2> HIDE DEF r
  <2>9. HandleData(t)'
    <3>1. Closed(Datum(t)) BY <1>1, <2>1, <2>4 DEF SInv, HandleData
    <3>2. Inode(t)' = i BY <2>7, <2>8 DEF Inode
    <3>3. Datum(t)' = Datum(t) BY <2>2, <2>3, <2>4, <2>6, <3>2 DEF Datum, DataStays
    <3>4. Closed(Datum(t))' BY <1>1, <3>1, <3>3 DEF Closed
    <3> QED BY <3>4 DEF HandleData
  <2> QED BY <1>1, <2>1, <2>6, <2>7, <2>8, <2>9, QuietCloses
<1> QED BY <1>2, <1>3 DEF Stamp

\* The contents are those of the request, and their close has begun.
LEMMA ReleaseCloses ==
  ASSUME SInv, PInv', NEW t \in Handles, NEW ok \in BOOLEAN, Release(t, ok)
  PROVE  SInv'
<1>1. /\ UNCHANGED <<names, nodes>> /\ DataStays /\ released' = released \cup Own(t)
      /\ th[t].pc = "open" /\ th[t].want = "open"
  BY SameData DEF Release, disk, SInv, Opening
<1>2. ServerClosed' BY <1>1, SameServer DEF Release, server
<1>3. PICK label \in {"mark", "drop"} : Goto(t, label) BY DEF Release
<1>4. /\ th'[t].pc = label /\ th'[t].want = "open" /\ th'[t].ino = th[t].ino
      /\ \A u \in Handles \ {t} : th'[u] = th[u]
  BY <1>1, <1>3, GotoState DEF PCs, SInv, PInv, IInv, TypeOK
<1>5. HandleData(t)'
  <2> SUFFICES ASSUME Inode(t)' # NoNode PROVE Closed(Datum(t))'
    BY DEF HandleData
  <2>1. Inode(t)' = Inode(t) /\ Datum(t)' = Datum(t)
    BY <1>1, <1>4 DEF Inode, Datum
  <2>2. Closed(Datum(t)) \/ Datum(t) = th[t].buf
    BY <1>1, <2>1 DEF SInv, HandleData, Holds
  <2> QED BY <1>1, <2>1, <2>2 DEF Closed, Own
<1> QED BY <1>1, <1>2, <1>4, <1>5, QuietCloses

\* The inode is neither that of another request nor that of a source.
LEMMA WriteCloses ==
  ASSUME SInv, PInv', NEW t \in Handles, Write(t)
  PROVE  SInv'
<1> DEFINE c == ClientOf[t]
           i == th[t].ino
           x == <<th[t].path, writes + 1>>
           y == [data |-> x, mtime |-> Local(c)]
           r == [th[t] EXCEPT !.buf = x]
<1>1. /\ UNCHANGED <<names, released, srv, log>> /\ th[t].pc = "open"
      /\ th[t].want = "open"
  BY DEF Write, history, SInv, Opening
<1>2. Holds(t) /\ Inode(t) = i BY <1>1 DEF Holds, Inode
<1>3. c \in Clients /\ i \in 1 .. Len(nodes[c]) /\ IsOpen(t)
  BY <1>1, Thread DEF RequestOK, SInv, PInv, IsOpen, NoNode
<1>4. nodes' = [nodes EXCEPT ![c][i] = y] /\ th' = [th EXCEPT ![t] = r] /\ y.data = x
  BY DEF Write
<1> HIDE DEF x, y
<1>5. /\ th'[t] = r /\ \A u \in Handles \ {t} : th'[u] = th[u]
  BY <1>4 DEF SInv, PInv, IInv, TypeOK
<1>6. r.buf = x /\ r.pc = "open" /\ r.want = "open" /\ r.ino = i
  BY <1>1, Thread DEF ThreadState, SInv, PInv
<1> HIDE DEF r
<1>7. /\ \A d \in Clients \ {c} : nodes'[d] = nodes[d]
      /\ \A j \in 1 .. Len(nodes[c]) : nodes'[c][j] = IF j = i THEN y ELSE nodes[c][j]
  <2>1. nodes[c] \in Seq(Node) BY <1>3 DEF SInv, PInv, IInv, TypeOK
  <2>2. /\ nodes'[c] = [nodes[c] EXCEPT ![i] = y]
        /\ \A d \in Clients \ {c} : nodes'[d] = nodes[d]
    BY <1>3, <1>4 DEF SInv, PInv, IInv, TypeOK
  <2> HIDE DEF c, i
  <2> QED BY <1>3, <2>1, <2>2, ExceptSeq
<1>8. CacheClosed'
  <2> SUFFICES ASSUME NEW d \in Clients, NEW n \in Sources, Has(d, n)
               PROVE  Closed(At(d, n).data)'
    BY <1>1 DEF CacheClosed, Has
  <2>1. names[d][n] \in 1 .. Len(nodes[d]) /\ n \in Names
    BY NodeAt, SourceNames DEF SInv, PInv
  <2>2. d = c => names[d][n] # i
    <3>1. ASSUME d = c PROVE names[c][n] # i
      <4>1. /\ th[t].tmp \in TempNames /\ th[t].tmp \in Names
            /\ names[c][th[t].tmp] = i
        BY <1>1, <1>2, Holder DEF SInv, OwnName
      <4>2. n # th[t].tmp BY <4>1, SourceNames
      <4> QED BY <1>3, <2>1, <3>1, <4>1, <4>2 DEF SInv, PInv, OneName, Has
    <3> QED BY <3>1
  <2>3. nodes'[d][names[d][n]] = nodes[d][names[d][n]] BY <1>7, <2>1, <2>2
  <2>4. At(d, n)' = At(d, n) BY <1>1, <2>3 DEF At
  <2> QED BY <1>1, <2>4 DEF SInv, CacheClosed, Closed
<1>9. HandleData(t)'
  <2>1. Inode(t)' = i BY <1>5, <1>6 DEF Inode
  <2>2. Datum(t)' = x BY <1>3, <1>4, <1>7, <2>1 DEF Datum
  <2> QED BY <1>5, <1>6, <2>2 DEF HandleData
<1>10. ASSUME NEW v \in Handles \ {t} PROVE HandleData(v)'
  <2> SUFFICES ASSUME Holds(v), Inode(v) # NoNode
               PROVE  Closed(Datum(v))' \/ (th[v].pc = "open" /\ Datum(v)' = th[v].buf)
    BY <1>1, <1>5 DEF HandleData, Holds, Inode
  <2>1. Inode(v)' = Inode(v) BY <1>1, <1>5 DEF Inode
  <2>2. ClientOf[v] \in Clients /\ Inode(v) \in 1 .. Len(nodes[ClientOf[v]])
    BY <2>1, InodeExists DEF SInv
  <2>3. ClientOf[v] = c => Inode(v) # i
    <3>1. Unshared(v) BY Holder DEF SInv
    <3>2. ClientOf[v] = c => t \in Peers(v) BY DEF Peers
    <3> QED BY <1>3, <3>1, <3>2 DEF Unshared
  <2>4. Datum(v)' = Datum(v) BY <1>7, <2>1, <2>2, <2>3 DEF Datum
  <2> QED BY <1>1, <2>4 DEF SInv, HandleData, Closed
<1>11. ServerClosed' BY <1>1, SameServer
<1>12. Opening' BY <1>5, <1>6 DEF SInv, Opening
<1>13. FetchClosed'
  <2>1. \A v \in Handles : th'[v].pc = "install" => v # t BY <1>5, <1>6
  <2> QED BY <1>1, <1>5, <2>1 DEF SInv, FetchClosed, Closed
<1>14. \A v \in Handles : HandleData(v)' BY <1>9, <1>10
<1> QED BY <1>8, <1>11, <1>12, <1>13, <1>14 DEF SInv

-----------------------------------------------------------------------------
(* Steps that change names.                                                *)

LEMMA InstallCloses ==
  ASSUME SInv, PInv', NEW t \in Handles, Install(t)
  PROVE  SInv'
<1> DEFINE c == ClientOf[t]
           n == Cached(th[t].path)
           x == [data |-> th[t].buf, mtime |-> Local(c)]
           r == [th[t] EXCEPT !.pc = "getattr", !.buf = <<NoFile, 0>>]
<1>1. /\ c \in Clients /\ n \in Sources /\ n \in Names /\ th[t].pc = "install"
      /\ x \in Node /\ x.data = th[t].buf /\ UNCHANGED released
      /\ names' = [names EXCEPT ![c][n] = Len(nodes[c]) + 1]
      /\ nodes' = [nodes EXCEPT ![c] = Append(@, x)] /\ th' = [th EXCEPT ![t] = r]
  BY Thread, BaseContents, SourceNames
     DEF Install, RequestOK, Node, history, SInv, PInv, IInv
<1>2. Closed(x.data) BY <1>1 DEF SInv, FetchClosed
<1>3. DataStays /\ nodes'[c][Len(nodes[c]) + 1] = x
  <2> HIDE DEF c, x
  <2> QED BY <1>1, GrowData DEF SInv
<1>4. ServerClosed' BY <1>1, SameServer DEF Install, server
<1>5. /\ th'[t] = r /\ \A u \in Handles \ {t} : th'[u] = th[u]
  BY <1>1 DEF SInv, PInv, IInv, TypeOK
<1>6. r.pc = "getattr" /\ r.want = th[t].want
  BY Thread DEF ThreadState, SInv, PInv
<1> HIDE DEF r, x
<1>7. /\ names'[c][n] = Len(nodes[c]) + 1
      /\ \A d \in Clients, m \in Names : d # c \/ m # n => names'[d][m] = names[d][m]
  BY <1>1, SetName DEF SInv
<1>8. CacheClosed'
  <2>1. ASSUME NEW d \in Clients, NEW m \in Sources
        PROVE  \/ names'[d][m] = names[d][m]
               \/ Closed(nodes[d][names[d][m]].data)'
    <3>1. CASE d = c /\ m = n
      <4>1. (nodes[d][names[d][m]].data)' = x.data BY <1>3, <1>7, <3>1
      <4>2. released' = released BY <1>1
      <4> HIDE DEF c, n
      <4> QED BY <1>2, <4>1, <4>2 DEF Closed
    <3>2. CASE ~(d = c /\ m = n) BY <1>7, <3>2, SourceNames
    <3> QED BY <3>1, <3>2
  <2> QED BY <1>1, <1>3, <2>1, CacheFrom
<1>9. ASSUME NEW v \in Handles \ {t}, Holds(v)
      PROVE  names'[ClientOf[v]][th[v].tmp] = names[ClientOf[v]][th[v].tmp]
  <2>1. /\ ClientOf[v] \in Clients /\ th[v].tmp \in Names /\ th[v].tmp \in TempNames
    BY <1>9, Holder DEF SInv
  <2>2. th[v].tmp # n BY <1>1, <2>1, SourceNames
  <2> QED BY <1>7, <2>1, <2>2
<1>10. HandleData(t)' BY <1>5, <1>6 DEF HandleData, Holds
<1>11. th[t].want # "create" BY DEF SInv, Opening
<1> QED BY <1>1, <1>3, <1>4, <1>5, <1>6, <1>8, <1>9, <1>10, <1>11, RequestCloses

\* What is copied is closed.
LEMMA CopyCloses ==
  ASSUME ~Collisions, SInv, PInv', NEW t \in Handles, NEW s \in Suffixes, Copy(t, s)
  PROVE  SInv'
<1> DEFINE c == ClientOf[t]
           f == th[t].path
           n == Temp(f, s)
           x == [data |-> At(c, Cached(f)).data, mtime |-> Local(c)]
           r == [th[t] EXCEPT !.pc = "stamp", !.tmp = n]
<1>1. /\ c \in Clients /\ f \in Files /\ n \in TempNames /\ n \in Names
      /\ th[t].pc = "copy" /\ UNCHANGED released /\ ~InUse(c, n)
      /\ th' = [th EXCEPT ![t] = r]
  BY Thread, NameTypes DEF Copy, SInv, PInv, history
<1>2. ServerClosed' BY <1>1, SameServer DEF Copy, server
<1>3. \/ UNCHANGED <<names, nodes>>
      \/ /\ Has(c, Cached(f))
         /\ names' = [names EXCEPT ![c][n] = Len(nodes[c]) + 1]
         /\ nodes' = [nodes EXCEPT ![c] = Append(@, x)]
  BY DEF Copy, disk
<1>4. Has(c, Cached(f)) => x \in Node /\ Closed(x.data)
  <2>1. ASSUME Has(c, Cached(f)) PROVE x \in Node
    BY <1>1, <2>1, NodeAt, NameTypes, BaseContents DEF Node, SInv, PInv, IInv
  <2>2. Has(c, Cached(f)) => Closed(x.data)
    BY <1>1, SourceNames DEF SInv, CacheClosed
  <2> QED BY <2>1, <2>2
<1> HIDE DEF n, x
<1>5. th'[t] = r /\ \A u \in Handles \ {t} : th'[u] = th[u]
  BY <1>1 DEF SInv, PInv, IInv, TypeOK
<1>6. r.pc = "stamp" /\ r.tmp = n /\ r.want = th[t].want
  BY Thread DEF ThreadState, SInv, PInv
<1> HIDE DEF r
<1>7. ~Has(c, n) /\ \A u \in Handles : ClientOf[u] = c => th[u].tmp # n
  BY <1>1 DEF InUse
<1>8. /\ DataStays
      /\ \A d \in Clients, m \in Names : d # c \/ m # n => names'[d][m] = names[d][m]
      /\ names'[c][n] # NoNode =>
           \E z \in {x} : nodes'[c][names'[c][n]] = z /\ Closed(z.data)
  <2>1. CASE UNCHANGED <<names, nodes>>
    BY <1>7, <2>1, SameData DEF Has
  <2>2. CASE /\ Has(c, Cached(f))
             /\ names' = [names EXCEPT ![c][n] = Len(nodes[c]) + 1]
             /\ nodes' = [nodes EXCEPT ![c] = Append(@, x)]
    <3>1. DataStays /\ nodes'[c][Len(nodes[c]) + 1] = x
      <4> HIDE DEF c
      <4> QED BY <1>1, <1>4, <2>2, GrowData DEF SInv
    <3>2. /\ names'[c][n] = Len(nodes[c]) + 1
          /\ \A d \in Clients, m \in Names :
               d # c \/ m # n => names'[d][m] = names[d][m]
      <4> HIDE DEF c
      <4>1. names \in [Clients -> [Names -> Nat]] /\ c \in Clients /\ n \in Names
        BY <1>1 DEF SInv, PInv, IInv, TypeOK
      <4>2. names' = [names EXCEPT ![c][n] = Len(nodes[c]) + 1] BY <2>2
      <4> QED BY ONLY <4>1, <4>2
    <3>3. nodes'[c][names'[c][n]] = x BY <3>1, <3>2
    <3>4. Closed(x.data) BY <1>4, <2>2
    <3> QED BY <3>1, <3>2, <3>3, <3>4
  <2> QED BY <1>3, <2>1, <2>2
<1>9. CacheClosed'
  <2>1. ASSUME NEW d \in Clients, NEW m \in Sources
        PROVE  names'[d][m] = names[d][m]
    BY <1>1, <1>8, SourceNames
  <2> QED BY <1>1, <1>8, <2>1, CacheFrom
<1>10. ASSUME NEW v \in Handles \ {t}, Holds(v)
       PROVE  names'[ClientOf[v]][th[v].tmp] = names[ClientOf[v]][th[v].tmp]
  <2>1. ClientOf[v] \in Clients /\ th[v].tmp \in Names
    BY <1>10, Holder DEF SInv
  <2> QED BY <1>7, <1>8, <2>1
<1>11. HandleData(t)'
  <2>1. Inode(t)' = names'[c][n] BY <1>5, <1>6 DEF Inode
  <2>2. Datum(t)' = nodes'[c][names'[c][n]].data BY <2>1 DEF Datum
  <2>3. released' = released BY <1>1
  <2>4. names'[c][n] # NoNode => Closed(nodes'[c][names'[c][n]].data) BY <1>8
  <2>5. Closed(Datum(t))' <=> \/ ~Written(Datum(t)') \/ Datum(t)' \in released
    BY <2>3 DEF Closed, Written
  <2> QED BY <2>1, <2>2, <2>4, <2>5 DEF HandleData, Closed
<1>12. th[t].want = "open" BY <1>1 DEF SInv, PInv, CopiesToOpen
<1> QED BY <1>1, <1>2, <1>5, <1>6, <1>8, <1>9, <1>10, <1>11, <1>12, RequestCloses

\* The file that gets the recovery name is the one that is being closed.
LEMMA MarkCloses ==
  ASSUME SInv, PInv', NEW t \in Handles, Mark(t)
  PROVE  SInv'
<1> DEFINE c == ClientOf[t]
           n == tempMap[c][th[t].fd]
<1>1. /\ th[t].pc = "mark" /\ th[t].want = "open" /\ UNCHANGED <<nodes, released>>
      /\ DataStays
  BY SameData DEF Mark, SInv, Opening
<1>2. /\ Holds(t) /\ Inode(t) = th[t].ino
  BY <1>1 DEF Holds, Inode
<1>3. /\ c \in Clients /\ th[t].fd \in Fds /\ th[t].tmp \in TempNames
      /\ th[t].tmp \in Names /\ Recover(th[t].tmp) \in Names
      /\ n \in {NoName, th[t].tmp} /\ th[t].ino = names[c][th[t].tmp] /\ IsOpen(t)
  BY <1>1, <1>2, Holder DEF SInv, OwnEntry, OwnName
<1>4. Closed(Datum(t)) /\ Datum(t) = nodes[c][th[t].ino].data
  BY <1>1, <1>2, <1>3 DEF SInv, HandleData, Datum, IsOpen
<1>5. ServerClosed' BY <1>1, SameServer DEF Mark, server
<1>6. /\ th'[t].pc = "close" /\ th'[t].want = "open" /\ th'[t].ino = th[t].ino
      /\ \A u \in Handles \ {t} : th'[u] = th[u]
  <2>1. CASE n = NoName
    <3>1. Goto(t, "close") /\ "close" \in PCs BY <2>1 DEF Mark, PCs
    <3> QED BY <1>1, <3>1, GotoState DEF SInv, PInv, IInv, TypeOK
  <2>2. CASE n # NoName
    <3> DEFINE r == [th[t] EXCEPT !.pc = "close", !.tmp = n]
    <3>1. th' = [th EXCEPT ![t] = r] BY <2>2 DEF Mark
    <3>2. th'[t] = r /\ \A u \in Handles \ {t} : th'[u] = th[u]
      BY <3>1 DEF SInv, PInv, IInv, TypeOK
    <3>3. r.pc = "close" /\ r.want = th[t].want /\ r.ino = th[t].ino
      BY Thread DEF ThreadState, SInv, PInv
    <3> HIDE DEF r
    <3> QED BY <1>1, <3>2, <3>3
  <2> QED BY <2>1, <2>2
<1>7. HandleData(t)'
  <2>1. Datum(t)' = Datum(t) BY <1>1, <1>2, <1>6 DEF Datum, Inode
  <2> QED BY <1>1, <1>4, <2>1 DEF HandleData, Closed
<1>8. \A d \in Clients, m \in Names :
        \/ names'[d][m] \in {names[d][m], NoNode}
        \/ d = c /\ m = Recover(th[t].tmp) /\ names'[d][m] = th[t].ino
  <2>1. CASE n = NoName
    <3>1. UNCHANGED names BY <2>1 DEF Mark
    <3> QED BY <3>1
  <2>2. CASE n # NoName
    <3> DEFINE k == th[t].tmp
    <3>1. n = k BY <1>3, <2>2
    <3>2. names' = Move(c, k, Recover(k)) BY <2>2, <3>1 DEF Mark
    <3>3. names \in [Clients -> [Names -> Nat]] BY DEF SInv, PInv, IInv, TypeOK
    <3> HIDE DEF k
    <3>4. k \in Names /\ Recover(k) \in Names /\ names[c][k] = th[t].ino
      BY <1>3 DEF k
    <3> HIDE DEF n, c
    <3>5. CASE ~Has(c, k) BY <3>2, <3>5 DEF Move
    <3>6. CASE Has(c, k)
      <4>1. names' = [names EXCEPT ![c][Recover(k)] = names[c][k], ![c][k] = NoNode]
        BY <3>2, <3>6 DEF Move
      <4> QED BY <1>3, <3>3, <3>4, <4>1 DEF k
    <3> QED BY <3>5, <3>6
  <2> QED BY <2>1, <2>2
<1>9. CacheClosed'
  <2>1. Closed(nodes[c][th[t].ino].data)' BY <1>1, <1>4, <1>6 DEF Closed
  <2>2. ASSUME NEW d \in Clients, NEW m \in Sources
        PROVE  \/ names'[d][m] = NoNode
               \/ \E k \in Sources : names'[d][m] = names[d][k]
               \/ Closed(nodes[d][names[d][m]].data)'
    <3>1. m \in Names BY SourceNames
    <3>2. CASE names'[d][m] \in {names[d][m], NoNode} BY <3>2
    <3>3. CASE d = c /\ m = Recover(th[t].tmp) /\ names'[d][m] = th[t].ino
      BY <1>6, <2>1, <3>3
    <3> QED BY <1>8, <3>1, <3>2, <3>3
  <2> QED BY <1>1, <2>2, CacheFrom
<1>10. ASSUME NEW v \in Handles \ {t}, Holds(v)
       PROVE  names'[ClientOf[v]][th[v].tmp]
                \in {names[ClientOf[v]][th[v].tmp], NoNode}
  <2>1. /\ ClientOf[v] \in Clients /\ th[v].tmp \in Names /\ th[v].tmp \in TempNames
    BY <1>10, Holder DEF SInv
  <2>2. th[v].tmp # Recover(th[t].tmp) BY <1>3, <2>1, NameKinds
  <2> QED BY <1>8, <2>1, <2>2
<1> QED BY <1>1, <1>5, <1>6, <1>7, <1>9, <1>10, RequestCloses

LEMMA MoveNames ==
  ASSUME PInv, NEW c \in Clients, NEW n \in Sources, NEW m \in Sources,
         names' = Move(c, n, m)
  PROVE  \A d \in Clients, k \in Names :
           \/ names'[d][k] \in {names[d][k], NoNode}
           \/ k \in Sources /\ names'[d][k] = names[d][n]
<1>1. names \in [Clients -> [Names -> Nat]] BY DEF PInv, IInv, TypeOK
<1>2. n \in Names /\ m \in Names BY SourceNames
<1>3. CASE ~Has(c, n) BY <1>3 DEF Move
<1>4. CASE Has(c, n)
  <2>1. names' = [names EXCEPT ![c][m] = names[c][n], ![c][n] = NoNode]
    BY <1>4 DEF Move
  <2> QED BY <1>1, <1>2, <2>1
<1> QED BY <1>3, <1>4

\* Moving a source changes no temporary name and leaves the sources closed.
LEMMA MoveCloses ==
  ASSUME SInv, DataStays, released \subseteq released',
         NEW c \in Clients, NEW n \in Sources, NEW m \in Sources,
         names' = Move(c, n, m)
  PROVE  /\ CacheClosed'
         /\ \A v \in Handles :
              Holds(v) => names'[ClientOf[v]][th[v].tmp]
                            \in {names[ClientOf[v]][th[v].tmp], NoNode}
<1>1. \A d \in Clients, k \in Names :
        \/ names'[d][k] \in {names[d][k], NoNode}
        \/ k \in Sources /\ names'[d][k] = names[d][n]
  BY MoveNames DEF SInv
<1>2. CacheClosed'
  <2>1. ASSUME NEW d \in Clients, NEW k \in Sources
        PROVE  \/ names'[d][k] = NoNode
               \/ \E j \in Sources : names'[d][k] = names[d][j]
    BY <1>1, SourceNames
  <2> QED BY <2>1, CacheFrom
<1>3. ASSUME NEW v \in Handles, Holds(v)
      PROVE  names'[ClientOf[v]][th[v].tmp]
               \in {names[ClientOf[v]][th[v].tmp], NoNode}
  <2>1. /\ ClientOf[v] \in Clients /\ th[v].tmp \in Names
        /\ th[v].tmp \notin Sources
    BY <1>3, Holder, SourceNames DEF SInv
  <2> QED BY <1>1, <2>1
<1> QED BY <1>2, <1>3

LEMMA SwapCloses ==
  ASSUME SInv, PInv', NEW t \in Handles, Swap(t)
  PROVE  SInv'
<1> DEFINE c == ClientOf[t]
           n == Recover(th[t].tmp)
           m == Cached(th[t].path)
<1>1. /\ c \in Clients /\ n \in Sources /\ m \in Sources
      /\ names' = Move(c, n, m)
      /\ DataStays /\ released \subseteq released' /\ Goto(t, "erase")
  BY Thread, SourceNames, SameData DEF Swap, RequestOK, SInv, PInv, history
<1>2. ServerClosed' BY <1>1, SameServer DEF Swap, server
<1>3. /\ th'[t].pc = "erase" /\ th'[t].want = th[t].want
      /\ \A u \in Handles \ {t} : th'[u] = th[u]
  <2>1. "erase" \in PCs BY DEF PCs
  <2>2. /\ th'[t].pc = "erase" /\ th'[t].want = th[t].want
        /\ th' = [th EXCEPT ![t] = th'[t]]
    BY <1>1, <2>1, GotoState DEF SInv, PInv
  <2>3. \A u \in Handles \ {t} : th'[u] = th[u]
    BY <2>2 DEF SInv, PInv, IInv, TypeOK
  <2> QED BY <2>2, <2>3
<1> HIDE DEF n, m
<1>4. /\ CacheClosed'
      /\ \A v \in Handles :
           Holds(v) => names'[ClientOf[v]][th[v].tmp]
                         \in {names[ClientOf[v]][th[v].tmp], NoNode}
  BY <1>1, MoveCloses
<1>5. HandleData(t)' BY <1>3 DEF HandleData, Holds
<1>6. th'[t].want # "create" BY <1>3 DEF SInv, Opening
<1> QED BY <1>1, <1>2, <1>3, <1>4, <1>5, <1>6, RequestCloses

-----------------------------------------------------------------------------
(* The close thread, crashes and the recovery scan.                        *)

\* A step of a client after which its requests are as before or gone.
LEMMA ClientCloses ==
  ASSUME SInv, PInv', \A u \in Handles : th'[u] \in {th[u], Idle},
         DataStays, released \subseteq released', ServerClosed', CacheClosed',
         \A v \in Handles :
           Holds(v) => names'[ClientOf[v]][th[v].tmp]
                         \in {names[ClientOf[v]][th[v].tmp], NoNode}
  PROVE  SInv'
<1>1. Idle.pc = "idle" /\ Idle.want = "none" BY DEF Idle, Request
<1>2. Opening' BY <1>1 DEF SInv, Opening
<1>3. FetchClosed' BY <1>1 DEF SInv, FetchClosed, Closed
<1>4. ASSUME NEW v \in Handles PROVE HandleData(v)'
  <2>1. CASE th'[v] = th[v] BY <2>1, OtherData
  <2>2. CASE th'[v] = Idle BY <1>1, <2>2 DEF HandleData, Holds
  <2> QED BY <2>1, <2>2
<1> QED BY <1>2, <1>3, <1>4 DEF SInv

\* ... which changes no names.
LEMMA NamesStayCloses ==
  ASSUME SInv, PInv', \A u \in Handles : th'[u] \in {th[u], Idle},
         UNCHANGED <<names, nodes, released>>, ServerClosed'
  PROVE  SInv'
<1>1. DataStays BY SameData
<1>2. CacheClosed' BY <1>1, CacheFrom
<1> QED BY <1>1, <1>2, ClientCloses

LEMMA CloserCloses ==
  ASSUME SInv, PInv', NEW c \in Clients, CloserStep(c)
  PROVE  SInv'
<1>1. UNCHANGED <<th, names, nodes, released>>
  BY DEF CloserStep, Dequeue, CloseOnServer, disk, history
<1>2. CASE Dequeue(c)
  <2>1. ServerClosed' BY <1>1, <1>2, SameServer DEF Dequeue, server
  <2> QED BY <1>1, <2>1, NamesStayCloses
<1>3. ASSUME NEW ok \in BOOLEAN, CloseOnServer(c, ok) PROVE SInv'
  <2>1. sending[c] \in Files /\ Put(c, Cached(sending[c]), sending[c], ok)
    BY <1>3 DEF CloseOnServer, SInv, PInv, IInv, TypeOK
  <2>2. ServerClosed' BY <1>1, <2>1, SourceNames, PutClosed
  <2> QED BY <1>1, <2>2, NamesStayCloses
<1> QED BY <1>2, <1>3 DEF CloserStep

LEMMA CrashCloses ==
  ASSUME SInv, PInv', NEW c \in Clients, Crash(c) \/ Restart(c)
  PROVE  SInv'
<1>1. UNCHANGED <<names, nodes, released, srv, log>>
  BY DEF Crash, Restart, disk, history, server
<1>2. \A u \in Handles : th'[u] \in {th[u], Idle} BY DEF Crash, Restart
<1>3. ServerClosed' BY <1>1, SameServer
<1> QED BY <1>1, <1>2, <1>3, NamesStayCloses

LEMMA ScanCloses ==
  ASSUME SInv, PInv', NEW c \in Clients, ScanStep(c)
  PROVE  SInv'
<1>1. UNCHANGED <<th, nodes, released>> /\ DataStays
  BY SameData DEF ScanStep, RecoverRename, RecoverSend, DiscardTemp, RecoverDone,
     disk, history
<1>2. ASSUME NEW n \in RecoverNames, RecoverRename(c, n) PROVE SInv'
  <2>1. n \in Sources /\ Cached(n[2]) \in Sources BY SourceNames DEF RecoverNames
  <2>2. names' = Move(c, n, Cached(n[2])) BY <1>2 DEF RecoverRename
  <2>3. ServerClosed' BY <1>1, <1>2, SameServer DEF RecoverRename, server
  <2>4. /\ CacheClosed'
        /\ \A v \in Handles :
             Holds(v) => names'[ClientOf[v]][th[v].tmp]
                           \in {names[ClientOf[v]][th[v].tmp], NoNode}
    BY <1>1, <2>1, <2>2, MoveCloses
  <2> QED BY <1>1, <2>3, <2>4, ClientCloses
<1>3. ASSUME NEW intact \in NameIntact, NEW ok \in BOOLEAN, RecoverSend(c, intact, ok)
      PROVE  SInv'
  <2>1. rescued[c] \in Files /\ UNCHANGED names
    BY <1>3 DEF RecoverSend, disk, SInv, PInv, IInv, TypeOK
  <2>2. ServerClosed'
    <3>1. CASE Put(c, Cached(rescued[c]), rescued[c], ok)
      BY <1>1, <2>1, <3>1, SourceNames, PutClosed
    <3>2. CASE UNCHANGED server BY <1>1, <3>2, SameServer DEF server
    <3> QED BY <1>3, <3>1, <3>2 DEF RecoverSend
  <2> QED BY <1>1, <2>1, <2>2, NamesStayCloses
<1>4. ASSUME NEW n \in TempNames, DiscardTemp(c, n) PROVE SInv'
  <2>1. names' = [names EXCEPT ![c][n] = NoNode] BY <1>4 DEF DiscardTemp
  <2>2. \A d \in Clients, k \in Names : names'[d][k] \in {names[d][k], NoNode}
    BY <2>1, NameTypes DEF SInv, PInv, IInv, TypeOK
  <2>3. ServerClosed' BY <1>1, <1>4, SameServer DEF DiscardTemp, server
  <2>4. CacheClosed' BY <1>1, <2>2, SourceNames, CacheFrom
  <2>5. ASSUME NEW v \in Handles, Holds(v)
        PROVE  names'[ClientOf[v]][th[v].tmp]
                 \in {names[ClientOf[v]][th[v].tmp], NoNode}
    BY <2>2, <2>5, Holder DEF SInv
  <2> QED BY <1>1, <2>3, <2>4, <2>5, ClientCloses
<1>5. CASE RecoverDone(c)
  <2>1. UNCHANGED names BY <1>5 DEF RecoverDone, disk
  <2>2. ServerClosed' BY <1>1, <1>5, SameServer DEF RecoverDone, server
  <2> QED BY <1>1, <2>1, <2>2, NamesStayCloses
<1> QED BY <1>2, <1>3, <1>4, <1>5 DEF ScanStep

-----------------------------------------------------------------------------
(* The theorem.                                                            *)

LEMMA InitSInv == Init => SInv
<1> SUFFICES ASSUME Init PROVE SInv
  OBVIOUS
<1>1. PInv BY InitPInv
<1>2. \A t \in Handles : th[t] = Idle BY DEF Init
<1>3. Idle.pc = "idle" /\ Idle.want = "none" BY DEF Idle, Request
<1>4. Opening /\ FetchClosed /\ \A t \in Handles : HandleData(t)
  BY <1>2, <1>3 DEF Opening, FetchClosed, HandleData, Holds
<1>5. CacheClosed
  <2>1. \A c \in Clients, n \in Names : ~Has(c, n) BY DEF Init, Has
  <2> QED BY <2>1, SourceNames DEF CacheClosed
<1>6. ServerClosed
  <2>1. ASSUME NEW f \in Files
        PROVE  /\ Closed(srv[f].data)
               /\ \A i \in 1 .. Len(log[f]) : Closed(log[f][i])
    <3>1. ~Written(Base(f)) /\ ~Written(Absent.data) BY DEF Base, Absent, Written
    <3>2. srv[f].data \in {Base(f), Absent.data} BY DEF Init
    <3>3. log[f] \in {<<Base(f)>>, <<>>} BY DEF Init
    <3>4. \A i \in 1 .. Len(log[f]) : log[f][i] = Base(f) BY <3>3
    <3> QED BY <3>1, <3>2, <3>4 DEF Closed
  <2> QED BY <2>1 DEF ServerClosed
<1> QED BY <1>1, <1>4, <1>5, <1>6 DEF SInv

LEMMA StepSInv ==
  ASSUME ~Collisions, ~MayCreate, SInv, [Next]_vars
  PROVE  SInv'
<1>0. PInv' BY StepPInv DEF SInv
<1>1. ASSUME NEW t \in Handles, UserStep(t) PROVE SInv'
  BY <1>0, <1>1, LookupCloses, WriteCloses, ReleaseCloses DEF UserStep, CreateLookup
<1>2. ASSUME NEW t \in Handles, OpenStep(t) PROVE SInv'
  <2>1. th[t].pc \in {"create", "createLocal"} => th[t].want = "create"
    BY Thread DEF SInv, PInv, RequestOK
  <2>2. ~CreateLocal(t) /\ \A ok \in BOOLEAN : ~CreateRemote(t, ok)
    BY <2>1 DEF SInv, Opening, CreateLocal, CreateRemote
  <2> QED BY <1>0, <1>2, <2>2, CheckCloses, FetchCloses, InstallCloses,
             GetattrCloses, UtimensCloses, CopyCloses, StampCloses DEF OpenStep
<1>3. ASSUME NEW t \in Handles, ReleaseStep(t) PROVE SInv'
  BY <1>0, <1>3, MarkCloses, CloseCloses, SwapCloses, EndCloses DEF ReleaseStep
<1>4. ASSUME NEW c \in Clients, CloserStep(c) \/ Crash(c) \/ Restart(c) \/ ScanStep(c)
      PROVE  SInv'
  BY <1>0, <1>4, CloserCloses, CrashCloses, ScanCloses
<1>5. CASE UNCHANGED vars
  <2>1. UNCHANGED <<th, names, nodes, released, srv, log>>
    BY <1>5 DEF vars, disk, history, server
  <2>2. ServerClosed' BY <2>1, SameServer
  <2> QED BY <1>0, <2>1, <2>2, NamesStayCloses
<1> QED BY <1>1, <1>2, <1>3, <1>4, <1>5 DEF Next

\* Without client_create, and if no drawn number is in use already, nothing
\* that was written reaches the server before the client_release of its request
\* has begun: not through the cache, other handles, the close thread, or the
\* scan after a crash in the middle of any of this.
THEOREM UnclosedStays ==
  (Collisions = FALSE /\ MayCreate = FALSE) => (Spec => []UnclosedStaysLocal)
<1>1. ASSUME ~Collisions, ~MayCreate PROVE Spec => []UnclosedStaysLocal
  <2>1. SInv /\ [Next]_vars => SInv' BY <1>1, StepSInv
  <2>2. SInv => UnclosedStaysLocal
    BY DEF SInv, ServerClosed, UnclosedStaysLocal, PublishedContents, Closed
  <2> QED BY <2>1, <2>2, InitSInv, PTL DEF Spec
<1> QED BY <1>1

====
