------------------------- MODULE AfsSession_proofs -------------------------
(* Type correctness of AfsSession for all values of its constants.  TypeOK  *)
(* is not inductive: names must lead to inodes, and requests must know at   *)
(* each step the path, descriptor and temporary name that the step uses.    *)
EXTENDS AfsSession, SequenceTheorems, WellFoundedInduction, TLAPS

-----------------------------------------------------------------------------
(* The inductive invariant.                                                *)

\* Links lead to inodes that exist.
Linked ==
  \A c \in Clients : \A n \in Names : names[c][n] <= Len(nodes[c])

\* What a request knows at each of its steps.
RequestOK(t) ==
  /\ th[t].ino <= Len(nodes[ClientOf[t]])
  /\ th[t].pc # "idle" => th[t].path \in Files
  /\ th[t].pc \in {"create", "createLocal"} => th[t].want = "create"
  /\ th[t].pc \in {"check", "fetch", "install"} => th[t].want \in {"open", "getattr"}
  /\ th[t].pc \in {"getattr", "utimens"} => th[t].want \in {"open", "getattr", "create"}
  /\ \/ th[t].pc \in {"open", "mark", "close", "drop"}
     \/ th[t].pc \in {"getattr", "utimens"} /\ th[t].want = "create"
     => th[t].fd \in Fds /\ th[t].ino # NoNode
  /\ th[t].pc = "install" => th[t].buf \in Contents
  /\ th[t].pc \in {"stamp", "send", "swap"} => th[t].tmp \in TempNames
  /\ th[t].pc = "close" /\ tempMap[ClientOf[t]][th[t].fd] # NoName =>
       th[t].tmp \in TempNames

IInv == TypeOK /\ Linked /\ \A t \in Handles : RequestOK(t)

-----------------------------------------------------------------------------
(* Values of the operators the actions are built from.                     *)

LEMMA LeastNat ==
  ASSUME NEW T \in SUBSET Nat, T # {}
  PROVE  \E m \in T : \A n \in T : m <= n
<1> DEFINE R == OpToRel(<, Nat)
<1>1. IsWellFoundedOn(R, Nat) BY NatLessThanWellFounded
<1>2. R = {p \in Nat \X Nat : p[1] < p[2]} BY DEF OpToRel
<1> HIDE DEF R
<1>3. PICK m \in T : \A n \in T : ~ (<<n, m>> \in R) BY <1>1, WFMin
<1>4. ASSUME NEW n \in T PROVE m <= n
  <2>1. n \in Nat /\ m \in Nat OBVIOUS
  <2>2. ~ (n < m) BY <1>2, <1>3, <2>1
  <2> QED BY <2>1, <2>2
<1> QED BY <1>4

LEMMA LastPlaceFacts ==
  ASSUME NEW s, Len(s) \in Nat, NEW x
  PROVE  /\ LastPlace(s, x) \in 0 .. Len(s)
         /\ LastPlace(s, x) = 0 \/ s[LastPlace(s, x)] = x
         /\ \A j \in LastPlace(s, x) + 1 .. Len(s) : s[j] # x
<1> DEFINE L == Len(s)
           P(i) == i = 0 \/ s[i] = x
           Q(i) == P(i) /\ \A j \in i + 1 .. L : s[j] # x
           T == {n \in 0 .. L : P(L - n)}
<1>1. L \in Nat OBVIOUS
<1> HIDE DEF L
<1>2. L \in T BY <1>1
<1>3. PICK m \in T : \A n \in T : m <= n
  <2>1. T \subseteq 0 .. L OBVIOUS
  <2> HIDE DEF T
  <2>2. T \in SUBSET Nat /\ T # {} BY <1>1, <1>2, <2>1
  <2> QED BY <2>2, LeastNat
<1>4. L - m \in 0 .. L /\ P(L - m) BY <1>1, <1>3
<1>5. ASSUME NEW j \in L - m + 1 .. L PROVE s[j] # x
  <2>1. L - j \in 0 .. L /\ L - j < m /\ L - (L - j) = j BY <1>1, <1>4
  <2>2. m \in 0 .. L BY <1>3
  <2> DEFINE k == L - j
  <2>3. k \in 0 .. L /\ ~(m <= k) /\ L - k = j BY <1>1, <2>1, <2>2
  <2> HIDE DEF k
  <2>4. k \notin T
    <3> HIDE DEF T
    <3> QED BY <1>3, <2>3
  <2>5. ~P(L - k) BY <2>3, <2>4
  <2> QED BY <2>3, <2>5
<1>6. LastPlace(s, x) = CHOOSE i \in 0 .. L : Q(i) BY DEF LastPlace, L
<1>7. Q(L - m) BY <1>4, <1>5
<1> HIDE DEF P, Q, T
<1>8. \E i \in 0 .. L : Q(i) BY <1>4, <1>7
<1>9. LastPlace(s, x) \in 0 .. L /\ Q(LastPlace(s, x)) BY <1>6, <1>8
<1> QED BY <1>9 DEF P, Q, L

LEMMA RankNat ==
  ASSUME TypeOK, NEW f \in Files, NEW x
  PROVE  Rank(f, x) \in Nat
<1>1. Len(log[f]) \in Nat BY DEF TypeOK
<1> QED BY <1>1, LastPlaceFacts DEF Rank

LEMMA NameTypes ==
  /\ \A f \in Files : Cached(f) \in Names
  /\ \A f \in Files, s \in Suffixes : Temp(f, s) \in TempNames
  /\ \A n \in TempNames : n \in Names /\ Recover(n) \in RecoverNames /\ n[2] \in Files
  /\ \A n \in RecoverNames : n \in Names /\ n[2] \in Files
  /\ NoName \notin TempNames
BY FilesAssumption
   DEF Cached, Temp, Recover, NoName, Names, CachedNames, TempNames, RecoverNames

LEMMA NodeAt ==
  ASSUME IInv, NEW c \in Clients, NEW n \in Names, Has(c, n)
  PROVE  /\ names[c][n] \in 1 .. Len(nodes[c])
         /\ At(c, n) \in Node
         /\ At(c, n).data \in Contents /\ At(c, n).mtime \in Nat
<1>1. /\ nodes[c] \in Seq(Node) /\ names[c][n] \in Nat
      /\ names[c][n] <= Len(nodes[c]) /\ names[c][n] # 0
  BY DEF IInv, TypeOK, Linked, Has, NoNode
<1>2. names[c][n] \in 1 .. Len(nodes[c]) BY <1>1
<1>3. At(c, n) \in Node BY ONLY <1>1, <1>2, ElementOfSeq DEF At
<1> QED BY ONLY <1>2, <1>3 DEF Node

LEMMA BaseContents ==
  /\ \A f \in Files : Base(f) \in Contents
  /\ \A c \in Clients : TypeOK => Local(c) \in Nat
BY ClockAssumption DEF Base, Contents, Local, TypeOK

LEMMA MtimeNat ==
  ASSUME TypeOK, NEW f \in Files, NEW ok
  PROVE  Mtime(f, ok) \in Nat
<1>1. srv[f] \in Node \cup {Absent} BY DEF TypeOK
<1>2. srv[f].mtime \in Nat BY <1>1 DEF Node, Absent
<1> QED BY <1>2 DEF Mtime

LEMMA ServerData ==
  ASSUME TypeOK, NEW f \in Files, OnServer(f)
  PROVE  srv[f].data \in Contents
<1>1. srv[f] \in Node BY DEF TypeOK, OnServer
<1> QED BY <1>1 DEF Node

LEMMA OwnTypes ==
  ASSUME TypeOK, NEW t \in Handles
  PROVE  Own(t) \subseteq Contents
<1>1. th[t].buf \in Contents \cup {<<NoFile, 0>>} BY DEF TypeOK, ThreadState
<1>2. ~ Written(<<NoFile, 0>>) BY DEF Written
<1> QED BY <1>1, <1>2 DEF Own

LEMMA IdleState == Idle \in ThreadState /\ Idle.pc = "idle" /\ Idle.ino = 0
BY DEF Idle, Request, ThreadState, PCs, NoNode

-----------------------------------------------------------------------------
(* Types that the parts of an action preserve.                             *)

ServerTyped ==
  /\ clock \in Nat
  /\ srv \in [Files -> Node \cup {Absent}]
  /\ log \in [Files -> Seq(Contents)]
  /\ since \in [Files -> Nat]

HistoryTyped ==
  /\ released \subseteq Contents /\ marked \subseteq Contents
  /\ acked \subseteq Contents
  /\ closed \in [Clients -> [Files -> Contents]]
  /\ viewed \in [Clients -> [Files -> Nat]]

BoundsTyped == opens \in Nat /\ writes \in Nat /\ failures \in Nat /\ crashes \in Nat

CloserTyped ==
  /\ queue \in [Clients -> Seq(Files)]
  /\ sending \in [Clients -> Files \cup {NoFile}]

ScanTyped ==
  /\ mode \in [Clients -> {"up", "down", "recovering"}]
  /\ rescued \in [Clients -> Files \cup {NoFile}]

MapTyped == tempMap \in [Clients -> [Fds -> TempNames \cup {NoName}]]

DiskTyped ==
  /\ names \in [Clients -> [Names -> Nat]]
  /\ nodes \in [Clients -> Seq(Node)]
  /\ Linked

LEMMA TypeParts ==
  IInv <=> /\ ServerTyped /\ HistoryTyped /\ BoundsTyped /\ CloserTyped
           /\ ScanTyped /\ MapTyped /\ DiskTyped
           /\ th \in [Handles -> ThreadState] /\ \A t \in Handles : RequestOK(t)
BY DEF IInv, TypeOK, ServerTyped, HistoryTyped, BoundsTyped, CloserTyped,
       ScanTyped, MapTyped, DiskTyped

LEMMA CallTypes ==
  ASSUME IInv, NEW ok, Call(ok)
  PROVE  BoundsTyped'
BY DEF Call, IInv, TypeOK, BoundsTyped

LEMMA PublishTypes ==
  ASSUME IInv, NEW f \in Files, NEW x \in Contents, Publish(f, x)
  PROVE  ServerTyped'
<1>1. clock \in Nat /\ Boot + clock \in Nat BY ClockAssumption DEF IInv, TypeOK
<1>2. [data |-> x, mtime |-> Boot + clock] \in Node BY <1>1 DEF Node
<1>3. srv' \in [Files -> Node \cup {Absent}] BY <1>2 DEF Publish, IInv, TypeOK
<1>4. Append(log[f], x) \in Seq(Contents) BY DEF IInv, TypeOK
<1>5. log' \in [Files -> Seq(Contents)] BY <1>4 DEF Publish, IInv, TypeOK
<1>6. since' \in [Files -> Nat] BY DEF Publish, IInv, TypeOK
<1> QED BY <1>1, <1>3, <1>5, <1>6 DEF Publish, ServerTyped

LEMMA PutTypes ==
  ASSUME IInv, NEW c \in Clients, NEW n \in Names, NEW f \in Files, NEW ok, Put(c, n, f, ok)
  PROVE  ServerTyped' /\ BoundsTyped'
<1>1. BoundsTyped' BY CallTypes DEF Put
<1>2. CASE ok /\ Has(c, n)
  <2>1. At(c, n).data \in Contents BY <1>2, NodeAt
  <2> QED BY <1>1, <1>2, <2>1, PublishTypes DEF Put
<1>3. CASE ~ (ok /\ Has(c, n))
  BY <1>1, <1>3 DEF Put, server, ServerTyped, IInv, TypeOK
<1> QED BY <1>2, <1>3

\* No step takes an inode away.
DiskStep == DiskTyped' /\ \A c \in Clients : Len(nodes[c]) <= Len(nodes'[c])

LEMMA SameDisk == ASSUME IInv, UNCHANGED disk PROVE DiskStep
BY DEF IInv, TypeOK, DiskStep, DiskTyped, Linked, disk

LEMMA GrowDisk ==
  ASSUME IInv, NEW c \in Clients, NEW n \in Names, NEW x \in Node,
         nodes' = [nodes EXCEPT ![c] = Append(@, x)],
         names' = [names EXCEPT ![c][n] = Len(nodes[c]) + 1]
  PROVE  DiskStep
<1>1. nodes[c] \in Seq(Node) /\ Len(nodes[c]) \in Nat BY DEF IInv, TypeOK
<1>2. Append(nodes[c], x) \in Seq(Node) /\ Len(Append(nodes[c], x)) = Len(nodes[c]) + 1
  BY ONLY <1>1, AppendProperties
<1>3. nodes' \in [Clients -> Seq(Node)] BY <1>2 DEF IInv, TypeOK
<1>4. names' \in [Clients -> [Names -> Nat]] BY <1>1 DEF IInv, TypeOK
<1>5. ASSUME NEW d \in Clients
      PROVE  /\ Len(nodes[d]) \in Nat /\ Len(nodes[d]) <= Len(nodes'[d])
             /\ Len(nodes'[d]) \in Nat
  BY <1>1, <1>2 DEF IInv, TypeOK
<1>6. nodes'[c] = Append(nodes[c], x) BY DEF IInv, TypeOK
<1>7. ASSUME NEW d \in Clients, NEW m \in Names
      PROVE  names'[d][m] <= Len(nodes'[d])
  <2>1. names[d][m] \in Nat /\ names[d][m] <= Len(nodes[d])
    BY DEF IInv, TypeOK, Linked
  <2>2. CASE d = c /\ m = n
    BY <1>1, <1>2, <1>6, <2>2 DEF IInv, TypeOK
  <2>3. CASE ~ (d = c /\ m = n)
    <3>1. names'[d][m] = names[d][m] BY <2>3 DEF IInv, TypeOK
    <3> QED BY <1>5, <2>1, <3>1
  <2> QED BY <2>2, <2>3
<1> QED BY <1>3, <1>4, <1>5, <1>7 DEF DiskStep, DiskTyped, Linked

LEMMA MoveDisk ==
  ASSUME IInv, NEW c \in Clients, NEW n \in Names, NEW m \in Names,
         UNCHANGED nodes, names' = Move(c, n, m)
  PROVE  DiskStep
<1>1. /\ names \in [Clients -> [Names -> Nat]] /\ nodes \in [Clients -> Seq(Node)]
      /\ \A d \in Clients, k \in Names : names[d][k] <= Len(nodes[d])
  BY DEF IInv, TypeOK, Linked
<1>2. \A d \in Clients : Len(nodes[d]) \in Nat BY <1>1
<1>3. names' \in [Clients -> [Names -> Nat]] BY <1>1 DEF Move, NoNode
<1>4. ASSUME NEW d \in Clients, NEW k \in Names PROVE names'[d][k] <= Len(nodes[d])
  <2>1. names'[d][k] \in {names[d][k], names[d][n], 0} BY <1>1 DEF Move, NoNode
  <2>2. names[d][k] <= Len(nodes[d]) /\ names[d][n] <= Len(nodes[d]) BY <1>1
  <2>3. 0 <= Len(nodes[d]) BY <1>2
  <2> QED BY <2>1, <2>2, <2>3
<1> QED BY <1>1, <1>2, <1>3, <1>4 DEF Linked, DiskStep, DiskTyped

LEMMA UnlinkDisk ==
  ASSUME IInv, NEW c \in Clients, NEW n \in Names,
         UNCHANGED nodes, names' = [names EXCEPT ![c][n] = NoNode]
  PROVE  DiskStep
BY DEF IInv, TypeOK, Linked, NoNode, DiskStep, DiskTyped

LEMMA WriteDisk ==
  ASSUME IInv, NEW c \in Clients, NEW i \in 1 .. Len(nodes[c]), NEW x \in Node,
         UNCHANGED names, nodes' = [nodes EXCEPT ![c][i] = x]
  PROVE  DiskStep
<1>1. nodes[c] \in Seq(Node) BY DEF IInv, TypeOK
<1>2. [nodes[c] EXCEPT ![i] = x] \in Seq(Node)
      /\ Len([nodes[c] EXCEPT ![i] = x]) = Len(nodes[c])
  BY ONLY <1>1, ExceptSeq
<1>3. nodes' \in [Clients -> Seq(Node)]
      /\ \A d \in Clients : Len(nodes'[d]) = Len(nodes[d]) /\ Len(nodes[d]) \in Nat
  BY <1>2 DEF IInv, TypeOK
<1> QED BY <1>3 DEF IInv, TypeOK, Linked, DiskStep, DiskTyped

LEMMA TouchDisk ==
  ASSUME IInv, NEW c \in Clients, NEW i \in 1 .. Len(nodes[c]), NEW k \in Nat,
         UNCHANGED names, nodes' = [nodes EXCEPT ![c][i].mtime = k]
  PROVE  DiskStep
<1>1. nodes[c][i] \in Node BY ElementOfSeq DEF IInv, TypeOK
<1>2. [nodes[c][i] EXCEPT !.mtime = k] \in Node BY <1>1 DEF Node
<1>3. nodes' = [nodes EXCEPT ![c][i] = [nodes[c][i] EXCEPT !.mtime = k]]
  OBVIOUS
<1> QED BY <1>2, <1>3, WriteDisk

\* Other requests are not disturbed by a step that only adds inodes
\* and leaves the entries of open descriptors in the map, or removes them.
LEMMA OtherRequest ==
  ASSUME IInv, DiskStep, NEW u \in Handles, UNCHANGED th[u],
         th[u].pc = "close" => tempMap'[ClientOf[u]][th[u].fd]
                                 \in {tempMap[ClientOf[u]][th[u].fd], NoName}
  PROVE  RequestOK(u)'
<1>1. /\ ClientOf[u] \in Clients /\ th[u].ino \in Nat
      /\ Len(nodes[ClientOf[u]]) \in Nat /\ Len(nodes'[ClientOf[u]]) \in Nat
      /\ Len(nodes[ClientOf[u]]) <= Len(nodes'[ClientOf[u]])
  BY ClientsAssumption DEF IInv, TypeOK, ThreadState, DiskStep, DiskTyped
<1>2. RequestOK(u) BY DEF IInv
<1> QED BY <1>1, <1>2 DEF RequestOK

\* A step of one request, as far as the requests are concerned.
LEMMA RequestStep ==
  ASSUME IInv, DiskStep, NEW t \in Handles,
         th' = [th EXCEPT ![t] = th'[t]], th'[t] \in ThreadState, RequestOK(t)',
         \A u \in Handles \ {t} : th[u].pc = "close" =>
            tempMap'[ClientOf[u]][th[u].fd] \in {tempMap[ClientOf[u]][th[u].fd], NoName}
  PROVE  th' \in [Handles -> ThreadState] /\ \A u \in Handles : RequestOK(u)'
<1>1. th' \in [Handles -> ThreadState] BY DEF IInv, TypeOK
<1>2. ASSUME NEW u \in Handles \ {t} PROVE RequestOK(u)'
  <2>1. th'[u] = th[u] BY DEF IInv, TypeOK
  <2> QED BY <2>1, OtherRequest
<1> QED BY <1>1, <1>2

LEMMA RequestEnds ==
  ASSUME IInv, DiskStep, NEW t \in Handles, th'[t] = Idle
  PROVE  RequestOK(t)' /\ th'[t] \in ThreadState
<1>1. ClientOf[t] \in Clients BY ClientsAssumption
<1>2. Len(nodes'[ClientOf[t]]) \in Nat BY <1>1 DEF DiskStep, DiskTyped
<1> QED BY <1>2, IdleState DEF RequestOK

LEMMA FinishTypes ==
  ASSUME IInv, ServerTyped', NEW t \in Handles, th[t].path \in Files, Finish(t)
  PROVE  HistoryTyped'
<1>1. ClientOf[t] \in Clients BY ClientsAssumption
<1>2. LastPlace(log'[th[t].path], th[t].buf) \in Nat
  <2>1. Len(log'[th[t].path]) \in Nat BY DEF ServerTyped
  <2> QED BY <2>1, LastPlaceFacts
<1>3. Own(t) \subseteq Contents BY OwnTypes DEF IInv
<1>4. viewed' \in [Clients -> [Files -> Nat]]
  BY <1>1, <1>2 DEF Finish, IInv, TypeOK
<1> QED BY <1>3, <1>4 DEF Finish, HistoryTyped, IInv, TypeOK

\* What is known when a request takes a step.
LEMMA Thread ==
  ASSUME IInv, NEW t \in Handles
  PROVE  /\ ClientOf[t] \in Clients /\ th[t] \in ThreadState /\ RequestOK(t)
         /\ th[t].ino \in 0 .. Len(nodes[ClientOf[t]])
         /\ Len(nodes[ClientOf[t]]) \in Nat
         /\ th[t].pc # "idle" => th[t].path \in Files /\ Cached(th[t].path) \in Names
<1>1. ClientOf[t] \in Clients /\ th[t] \in ThreadState /\ RequestOK(t)
  BY ClientsAssumption DEF IInv, TypeOK
<1>2. Len(nodes[ClientOf[t]]) \in Nat BY <1>1 DEF IInv, TypeOK
<1>3. th[t].ino \in Nat BY <1>1 DEF ThreadState
<1>4. th[t].pc # "idle" => th[t].path \in Files BY <1>1 DEF RequestOK
<1> QED BY <1>1, <1>2, <1>3, <1>4, NameTypes DEF RequestOK

\* The request that takes the step is in order afterwards.
StateOK(t) == th'[t] \in ThreadState /\ th' = [th EXCEPT ![t] = th'[t]] /\ RequestOK(t)'

\* The part of the invariant that is not about the requests.
Typed ==
  ServerTyped /\ HistoryTyped /\ BoundsTyped /\ CloserTyped /\ ScanTyped /\ MapTyped

LEMMA TypedNow == IInv => Typed
BY TypeParts DEF Typed

LEMMA StepParts ==
  ASSUME IInv, Typed', DiskStep, NEW t \in Handles, StateOK(t),
         \A u \in Handles \ {t} : th[u].pc = "close" =>
            tempMap'[ClientOf[u]][th[u].fd] \in {tempMap[ClientOf[u]][th[u].fd], NoName}
  PROVE  IInv'
<1>1. th' \in [Handles -> ThreadState] /\ \A u \in Handles : RequestOK(u)'
  BY RequestStep DEF StateOK
<1> QED BY <1>1
  DEF IInv, TypeOK, ServerTyped, HistoryTyped, BoundsTyped, CloserTyped,
      ScanTyped, MapTyped, DiskTyped, DiskStep, Typed

LEMMA GotoState ==
  ASSUME IInv, NEW t \in Handles, NEW label \in PCs, Goto(t, label)
  PROVE  /\ th'[t] \in ThreadState /\ th' = [th EXCEPT ![t] = th'[t]]
         /\ th'[t] = [th[t] EXCEPT !.pc = label]
         /\ th'[t].pc = label /\ th'[t].want = th[t].want
         /\ th'[t].path = th[t].path /\ th'[t].buf = th[t].buf
         /\ th'[t].tmp = th[t].tmp /\ th'[t].fd = th[t].fd
         /\ th'[t].ino = th[t].ino
<1>1. th[t] \in ThreadState BY Thread
<1>2. th'[t] = [th[t] EXCEPT !.pc = label] BY DEF Goto, IInv, TypeOK
<1>3. th' = [th EXCEPT ![t] = th'[t]] BY <1>2 DEF Goto
<1>4. th'[t] \in ThreadState BY <1>1, <1>2 DEF ThreadState
<1> QED BY <1>1, <1>2, <1>3, <1>4 DEF ThreadState

LEMMA IdleAfter ==
  ASSUME IInv, DiskStep, NEW t \in Handles, th' = [th EXCEPT ![t] = Idle]
  PROVE  StateOK(t)
<1>1. th'[t] = Idle BY DEF IInv, TypeOK
<1>2. th' = [th EXCEPT ![t] = th'[t]] BY <1>1
<1> QED BY <1>1, <1>2, RequestEnds DEF StateOK

LEMMA InoKept ==
  ASSUME IInv, DiskStep, NEW t \in Handles, th'[t].ino \in {th[t].ino, 0}
  PROVE  th'[t].ino <= Len(nodes'[ClientOf[t]])
<1>1. /\ th[t].ino \in Nat /\ th[t].ino <= Len(nodes[ClientOf[t]])
      /\ ClientOf[t] \in Clients /\ Len(nodes[ClientOf[t]]) \in Nat
  BY Thread
<1>2. /\ Len(nodes'[ClientOf[t]]) \in Nat
      /\ Len(nodes[ClientOf[t]]) <= Len(nodes'[ClientOf[t]])
  BY <1>1 DEF DiskStep, DiskTyped
<1> QED BY <1>1, <1>2

-----------------------------------------------------------------------------
(* Opening.                                                                *)

LEMMA LookupIInv ==
  ASSUME IInv, NEW t \in Handles, NEW f \in Files,
         NEW want \in {"open", "getattr"}, Lookup(t, f, want)
  PROVE  IInv'
<1>1. DiskStep BY SameDisk DEF Lookup
<1>2. Typed'
  BY TypedNow DEF Lookup, Typed, server, disk, closer, scan, history,
     ServerTyped, HistoryTyped, BoundsTyped, CloserTyped, ScanTyped, MapTyped
<1>3. Len(log[f]) \in Nat BY DEF IInv, TypeOK
<1>4. Has(ClientOf[t], Cached(f)) => At(ClientOf[t], Cached(f)).mtime \in Nat
  BY NodeAt, NameTypes, Thread
<1>5. PICK pc \in {"check", "fetch"}, got \in Nat :
        th' = [th EXCEPT ![t] = Request(pc, want, f, got, Len(log[f]))]
  BY <1>4 DEF Lookup
<1>6. /\ th'[t] = Request(pc, want, f, got, Len(log[f]))
      /\ th' = [th EXCEPT ![t] = th'[t]]
  BY <1>5 DEF IInv, TypeOK
<1>7. th'[t] \in ThreadState
  BY <1>3, <1>6 DEF Request, ThreadState, PCs, NoNode
<1>8. Len(nodes'[ClientOf[t]]) \in Nat BY <1>1, Thread DEF DiskStep, DiskTyped
<1>9. RequestOK(t)' BY <1>6, <1>8 DEF RequestOK, Request, NoNode
<1> QED BY <1>1, <1>2, <1>6, <1>7, <1>9, StepParts DEF StateOK, Lookup

LEMMA CheckIInv ==
  ASSUME IInv, NEW t \in Handles, NEW ok \in BOOLEAN, Check(t, ok)
  PROVE  IInv'
<1>1. DiskStep BY SameDisk DEF Check
<1>2. Typed'
  BY TypedNow, CallTypes DEF Check, Typed, server, disk, closer, scan, history,
     ServerTyped, HistoryTyped, CloserTyped, ScanTyped, MapTyped
<1>3. StateOK(t)
  <2>1. CASE th' = [th EXCEPT ![t] = Idle] BY <1>1, <2>1, IdleAfter
  <2>2. ASSUME NEW label \in {"fetch", "copy"}, Goto(t, label) PROVE StateOK(t)
    <3>1. label \in PCs BY DEF PCs
    <3>2. RequestOK(t)'
      BY <1>1, <2>2, <3>1, GotoState, Thread, InoKept DEF Check, RequestOK
    <3> QED BY <2>2, <3>1, <3>2, GotoState DEF StateOK
  <2> QED BY <2>1, <2>2 DEF Check
<1> QED BY <1>1, <1>2, <1>3, StepParts DEF Check

LEMMA FetchIInv ==
  ASSUME IInv, NEW t \in Handles, NEW ok \in BOOLEAN, Fetch(t, ok)
  PROVE  IInv'
<1>1. DiskStep BY SameDisk DEF Fetch
<1>2. Typed'
  BY TypedNow, CallTypes DEF Fetch, Typed, server, disk, closer, scan, history,
     ServerTyped, HistoryTyped, CloserTyped, ScanTyped, MapTyped
<1>3. StateOK(t)
  <2>1. CASE Goto(t, "getattr")
    <3>1. "getattr" \in PCs BY DEF PCs
    <3>2. RequestOK(t)'
      BY <1>1, <2>1, <3>1, GotoState, Thread, InoKept DEF Fetch, RequestOK
    <3> QED BY <2>1, <3>1, <3>2, GotoState DEF StateOK
  <2>2. CASE OnServer(th[t].path) /\ ~ Goto(t, "getattr")
    <3>1. srv[th[t].path].data \in Contents BY <2>2, ServerData, Thread DEF Fetch, IInv
    <3> DEFINE x == srv[th[t].path].data
               r == [th[t] EXCEPT !.pc = "install", !.buf = x]
    <3>2. th' = [th EXCEPT ![t] = r] BY <2>2 DEF Fetch
    <3> HIDE DEF x
    <3>3. th'[t] = r /\ th' = [th EXCEPT ![t] = th'[t]] BY <3>2 DEF IInv, TypeOK
    <3>4. th'[t] \in ThreadState BY <3>1, <3>3, Thread DEF ThreadState, PCs, x
    <3>5. /\ r.pc = "install" /\ r.want = th[t].want /\ r.path = th[t].path
          /\ r.buf = x /\ r.fd = th[t].fd /\ r.ino = th[t].ino
      BY Thread DEF ThreadState
    <3> HIDE DEF r
    <3>6. RequestOK(t)'
      BY <1>1, <3>1, <3>3, <3>5, InoKept, Thread DEF Fetch, RequestOK, x
    <3> QED BY <3>3, <3>4, <3>6 DEF StateOK
  <2> QED BY <2>1, <2>2 DEF Fetch
<1> QED BY <1>1, <1>2, <1>3, StepParts DEF Fetch

LEMMA InstallIInv ==
  ASSUME IInv, NEW t \in Handles, Install(t)
  PROVE  IInv'
<1> DEFINE c == ClientOf[t]
           x == [data |-> th[t].buf, mtime |-> Local(c)]
<1>1. c \in Clients /\ Cached(th[t].path) \in Names /\ th[t].buf \in Contents
  BY Thread DEF Install, RequestOK
<1>2. x \in Node BY <1>1, BaseContents DEF Node, IInv
<1>3. DiskStep BY <1>1, <1>2, GrowDisk DEF Install
<1>4. Typed'
  BY TypedNow DEF Install, Typed, server, closer, scan, history, bounds,
     ServerTyped, HistoryTyped, BoundsTyped, CloserTyped, ScanTyped, MapTyped
<1>5. StateOK(t)
  <2> DEFINE r == [th[t] EXCEPT !.pc = "getattr", !.buf = <<NoFile, 0>>]
  <2>1. th' = [th EXCEPT ![t] = r] BY DEF Install
  <2>2. th'[t] = r /\ th' = [th EXCEPT ![t] = th'[t]] BY <2>1 DEF IInv, TypeOK
  <2>3. th'[t] \in ThreadState BY <2>2, Thread DEF ThreadState, PCs
  <2>4. /\ r.pc = "getattr" /\ r.want = th[t].want /\ r.path = th[t].path
        /\ r.fd = th[t].fd /\ r.ino = th[t].ino
    BY Thread DEF ThreadState
  <2> HIDE DEF r
  <2>5. RequestOK(t)'
    BY <1>3, <2>2, <2>4, InoKept, Thread DEF Install, RequestOK
  <2> QED BY <2>2, <2>3, <2>5 DEF StateOK
<1> QED BY <1>3, <1>4, <1>5, StepParts DEF Install

LEMMA GetattrIInv ==
  ASSUME IInv, NEW t \in Handles, NEW ok \in BOOLEAN, Getattr(t, ok)
  PROVE  IInv'
<1>1. DiskStep BY SameDisk DEF Getattr
<1>2. Typed'
  BY TypedNow, CallTypes DEF Getattr, Typed, server, disk, closer, scan, history,
     ServerTyped, HistoryTyped, CloserTyped, ScanTyped, MapTyped
<1>3. StateOK(t)
  <2> DEFINE k == Mtime(th[t].path, ok)
             r == [th[t] EXCEPT !.pc = "utimens", !.got = k]
  <2>1. k \in Nat BY MtimeNat, Thread DEF Getattr, IInv
  <2>2. th' = [th EXCEPT ![t] = r] BY DEF Getattr
  <2> HIDE DEF k
  <2>3. th'[t] = r /\ th' = [th EXCEPT ![t] = th'[t]] BY <2>2 DEF IInv, TypeOK
  <2>4. th'[t] \in ThreadState BY <2>1, <2>3, Thread DEF ThreadState, PCs
  <2>5. /\ r.pc = "utimens" /\ r.want = th[t].want /\ r.path = th[t].path
        /\ r.fd = th[t].fd /\ r.ino = th[t].ino
    BY Thread DEF ThreadState
  <2> HIDE DEF r
  <2>6. RequestOK(t)'
    BY <1>1, <2>3, <2>5, InoKept, Thread DEF Getattr, RequestOK
  <2> QED BY <2>3, <2>4, <2>6 DEF StateOK
<1> QED BY <1>1, <1>2, <1>3, StepParts DEF Getattr

LEMMA UtimensIInv ==
  ASSUME IInv, NEW t \in Handles, Utimens(t)
  PROVE  IInv'
<1> DEFINE c == ClientOf[t]
           n == Cached(th[t].path)
<1>1. c \in Clients /\ n \in Names /\ th[t].got \in Nat
  BY Thread DEF Utimens, ThreadState
<1>2. DiskStep
  <2>1. CASE Has(c, n)
    BY <1>1, <2>1, NodeAt, TouchDisk DEF Utimens
  <2>2. CASE ~Has(c, n) BY <2>2, SameDisk DEF Utimens, disk
  <2> QED BY <2>1, <2>2
<1>3. Typed'
  BY TypedNow DEF Utimens, Typed, server, closer, scan, history, bounds,
     ServerTyped, HistoryTyped, BoundsTyped, CloserTyped, ScanTyped, MapTyped
<1>4. th[t].want \in {"open", "create", "getattr"} BY Thread DEF Utimens, RequestOK
<1>5. StateOK(t)
  <2>1. CASE th[t].want = "getattr"
    <3>1. th' = [th EXCEPT ![t] = Idle] BY <2>1 DEF Utimens
    <3> QED BY <1>2, <3>1, IdleAfter
  <2>2. CASE th[t].want = "open"
    <3>1. Goto(t, "copy") /\ "copy" \in PCs BY <2>2 DEF Utimens, PCs
    <3>2. RequestOK(t)'
      BY <1>2, <3>1, GotoState, Thread, InoKept DEF Utimens, RequestOK
    <3> QED BY <3>1, <3>2, GotoState DEF StateOK
  <2>3. CASE th[t].want = "create"
    <3>1. Goto(t, "open") /\ "open" \in PCs BY <2>3 DEF Utimens, PCs
    <3>2. RequestOK(t)'
      BY <1>2, <2>3, <3>1, GotoState, Thread, InoKept DEF Utimens, RequestOK
    <3> QED BY <3>1, <3>2, GotoState DEF StateOK
  <2> QED BY <1>4, <2>1, <2>2, <2>3
<1> QED BY <1>2, <1>3, <1>5, StepParts DEF Utimens

LEMMA CopyIInv ==
  ASSUME IInv, NEW t \in Handles, NEW s \in Suffixes, Copy(t, s)
  PROVE  IInv'
<1> DEFINE c == ClientOf[t]
           f == th[t].path
           n == Temp(f, s)
           x == [data |-> At(c, Cached(f)).data, mtime |-> Local(c)]
<1>1. /\ c \in Clients /\ f \in Files /\ Cached(f) \in Names
      /\ n \in Names /\ n \in TempNames
  BY Thread, NameTypes DEF Copy
<1>2. DiskStep
  <2>1. CASE Has(c, Cached(f)) /\ ~Has(c, n)
    <3>1. x \in Node BY <1>1, <2>1, NodeAt, BaseContents DEF Node, IInv
    <3>2. nodes' = [nodes EXCEPT ![c] = Append(@, x)]
          /\ names' = [names EXCEPT ![c][n] = Len(nodes[c]) + 1]
      BY <2>1 DEF Copy
    <3> HIDE DEF c, n, x
    <3> QED BY <1>1, <3>1, <3>2, GrowDisk
  <2>2. CASE ~(Has(c, Cached(f)) /\ ~Has(c, n)) BY <2>2, SameDisk DEF Copy
  <2> QED BY <2>1, <2>2
<1>3. Typed'
  BY TypedNow DEF Copy, Typed, server, closer, scan, history, bounds,
     ServerTyped, HistoryTyped, BoundsTyped, CloserTyped, ScanTyped, MapTyped
<1>4. StateOK(t)
  <2> DEFINE r == [th[t] EXCEPT !.pc = "stamp", !.tmp = n]
  <2>1. th' = [th EXCEPT ![t] = r] BY DEF Copy
  <2> HIDE DEF n
  <2>2. th'[t] = r /\ th' = [th EXCEPT ![t] = th'[t]] BY <2>1 DEF IInv, TypeOK
  <2>3. th'[t] \in ThreadState BY <1>1, <2>2, Thread DEF ThreadState, PCs
  <2>4. /\ r.pc = "stamp" /\ r.path = th[t].path /\ r.tmp = n /\ r.ino = th[t].ino
    BY Thread DEF ThreadState
  <2> HIDE DEF r
  <2>5. RequestOK(t)'
    BY <1>1, <1>2, <2>2, <2>4, InoKept, Thread DEF Copy, RequestOK
  <2> QED BY <2>2, <2>3, <2>5 DEF StateOK
<1> QED BY <1>2, <1>3, <1>4, StepParts DEF Copy

\* The descriptor of the new handle is not that of a request in client_release,
\* so the entry of the latter in the map stays.
LEMMA StampIInv ==
  ASSUME IInv, NEW t \in Handles, Stamp(t)
  PROVE  IInv'
<1> DEFINE c == ClientOf[t]
           f == th[t].path
           n == th[t].tmp
<1>1. /\ c \in Clients /\ f \in Files /\ Cached(f) \in Names
      /\ n \in Names /\ n \in TempNames
  BY Thread, NameTypes DEF Stamp, RequestOK
<1>2. CASE Has(c, Cached(f)) /\ Has(c, n)
  <2>1. PICK d \in Fds :
          /\ FdFree(c, d)
          /\ nodes' = [nodes EXCEPT ![c][names[c][n]].mtime = At(c, Cached(f)).mtime]
          /\ tempMap' = [tempMap EXCEPT ![c][d] = n]
          /\ th' = [th EXCEPT ![t].pc = "open", ![t].fd = d, ![t].ino = names[c][n]]
          /\ viewed' = [viewed EXCEPT ![c][f] = Rank(f, At(c, n).data)]
    BY <1>2 DEF Stamp
  <2>2. /\ names[c][n] \in 1 .. Len(nodes[c]) /\ names[c][n] \in Nat \ {0}
        /\ At(c, Cached(f)).mtime \in Nat
    BY <1>1, <1>2, NodeAt
  <2>3. DiskStep
    <3>1. UNCHANGED names BY DEF Stamp
    <3> DEFINE k == At(c, Cached(f)).mtime
               i == names[c][n]
    <3>2. i \in 1 .. Len(nodes[c]) /\ k \in Nat
          /\ nodes' = [nodes EXCEPT ![c][i].mtime = k]
      BY <2>1, <2>2
    <3> HIDE DEF c, k, i
    <3> QED BY <1>1, <3>1, <3>2, TouchDisk
  <2>4. MapTyped' BY <1>1, <2>1 DEF MapTyped, IInv, TypeOK
  <2>5. HistoryTyped'
    <3>1. Rank(f, At(c, n).data) \in Nat BY <1>1, RankNat DEF IInv
    <3>2. viewed' \in [Clients -> [Files -> Nat]]
      BY <1>1, <2>1, <3>1 DEF IInv, TypeOK
    <3> QED BY <3>2 DEF HistoryTyped, IInv, TypeOK, Stamp
  <2>6. Typed'
    BY <2>4, <2>5, TypedNow DEF Stamp, Typed, server, closer, scan, bounds,
       ServerTyped, BoundsTyped, CloserTyped, ScanTyped
  <2>7. StateOK(t)
    <3> DEFINE i == names[c][n]
               r == [th[t] EXCEPT !.pc = "open", !.fd = d, !.ino = i]
    <3>1. th' = [th EXCEPT ![t] = r] BY <2>1
    <3>2. i \in Nat \ {0} /\ i <= Len(nodes[c]) /\ Len(nodes[c]) \in Nat
      BY <1>1, <2>2, Thread
    <3> HIDE DEF i
    <3>3. th'[t] = r /\ th' = [th EXCEPT ![t] = th'[t]] BY <3>1 DEF IInv, TypeOK
    <3>4. th'[t] \in ThreadState BY <3>2, <3>3, Thread DEF ThreadState, PCs
    <3>5. /\ r.pc = "open" /\ r.path = th[t].path /\ r.fd = d /\ r.ino = i
      BY Thread DEF ThreadState
    <3> HIDE DEF r
    <3>6. th'[t].ino <= Len(nodes'[c])
      BY <1>1, <2>3, <3>2, <3>3, <3>5 DEF DiskStep, DiskTyped
    <3>7. RequestOK(t)'
      BY <1>1, <3>2, <3>3, <3>5, <3>6 DEF RequestOK, NoNode
    <3> QED BY <3>3, <3>4, <3>7 DEF StateOK
  <2>8. ASSUME NEW u \in Handles \ {t}, th[u].pc = "close"
        PROVE  tempMap'[ClientOf[u]][th[u].fd] = tempMap[ClientOf[u]][th[u].fd]
    <3>1. IsOpen(u) /\ th[u].fd \in Fds /\ ClientOf[u] \in Clients
      BY <2>8, Thread DEF RequestOK, IsOpen
    <3>2. ClientOf[u] = c => th[u].fd # d BY <2>1, <3>1 DEF FdFree
    <3> QED BY <1>1, <2>1, <3>1, <3>2 DEF IInv, TypeOK
  <2> QED BY <2>3, <2>6, <2>7, <2>8, StepParts
<1>3. CASE ~(Has(c, Cached(f)) /\ Has(c, n))
  <2>1. th' = [th EXCEPT ![t] = Idle] /\ UNCHANGED <<disk, tempMap, viewed>>
    BY <1>3 DEF Stamp, disk
  <2>2. DiskStep BY <2>1, SameDisk
  <2>3. Typed'
    BY <2>1, TypedNow DEF Stamp, Typed, server, closer, scan, bounds, ServerTyped,
       HistoryTyped, BoundsTyped, CloserTyped, ScanTyped, MapTyped
  <2> QED BY <2>1, <2>2, <2>3, IdleAfter, StepParts
<1> QED BY <1>2, <1>3

-----------------------------------------------------------------------------
(* Creating and writing.                                                   *)

LEMMA CreateLookupIInv ==
  ASSUME IInv, NEW t \in Handles, NEW f \in Files, CreateLookup(t, f)
  PROVE  IInv'
<1>1. DiskStep BY SameDisk DEF CreateLookup
<1>2. Typed'
  BY TypedNow DEF CreateLookup, Typed, server, disk, closer, scan, history,
     ServerTyped, HistoryTyped, BoundsTyped, CloserTyped, ScanTyped, MapTyped
<1>3. /\ th'[t] = Request("create", "create", f, 0, 0)
      /\ th' = [th EXCEPT ![t] = th'[t]]
  BY DEF CreateLookup, IInv, TypeOK
<1>4. th'[t] \in ThreadState BY <1>3 DEF Request, ThreadState, PCs, NoNode
<1>5. Len(nodes'[ClientOf[t]]) \in Nat BY <1>1, Thread DEF DiskStep, DiskTyped
<1>6. RequestOK(t)' BY <1>3, <1>5 DEF RequestOK, Request, NoNode
<1> QED BY <1>1, <1>2, <1>3, <1>4, <1>6, StepParts DEF StateOK, CreateLookup

LEMMA CreateRemoteIInv ==
  ASSUME IInv, NEW t \in Handles, NEW ok \in BOOLEAN, CreateRemote(t, ok)
  PROVE  IInv'
<1> DEFINE f == th[t].path
<1>1. f \in Files /\ clock \in Nat BY Thread DEF CreateRemote, IInv, TypeOK
<1>2. DiskStep BY SameDisk DEF CreateRemote
<1>3. ServerTyped'
  <2>1. CASE ok
    <3> DEFINE x == IF OnServer(f) THEN srv[f].data ELSE Base(f)
               y == [data |-> x, mtime |-> clock]
    <3>1. y \in Node BY <1>1, ServerData, BaseContents DEF IInv, Node
    <3>2. srv' = [srv EXCEPT ![f] = y] BY <2>1 DEF CreateRemote
    <3> HIDE DEF y
    <3>3. srv' \in [Files -> Node \cup {Absent}] BY <3>1, <3>2 DEF IInv, TypeOK
    <3>4. Append(log[f], Base(f)) \in Seq(Contents)
      BY <1>1, BaseContents DEF IInv, TypeOK
    <3>5. log' \in [Files -> Seq(Contents)]
      BY <1>1, <2>1, <3>4 DEF CreateRemote, IInv, TypeOK
    <3>6. clock' \in Nat /\ since' \in [Files -> Nat]
      BY <1>1, <2>1 DEF CreateRemote, IInv, TypeOK
    <3> QED BY <3>3, <3>5, <3>6 DEF ServerTyped
  <2>2. CASE ~ok
    BY <2>2, TypedNow DEF CreateRemote, server, Typed, ServerTyped
  <2> QED BY <2>1, <2>2
<1>4. Typed'
  BY <1>3, TypedNow, CallTypes DEF CreateRemote, Typed, disk, closer, scan, history,
     HistoryTyped, CloserTyped, ScanTyped, MapTyped
<1>5. Goto(t, "createLocal") /\ "createLocal" \in PCs BY DEF CreateRemote, PCs
<1>6. RequestOK(t)'
  BY <1>2, <1>5, GotoState, Thread, InoKept DEF CreateRemote, RequestOK
<1>7. StateOK(t) BY <1>5, <1>6, GotoState DEF StateOK
<1> QED BY <1>2, <1>4, <1>7, StepParts DEF CreateRemote

LEMMA CreateLocalIInv ==
  ASSUME IInv, NEW t \in Handles, CreateLocal(t)
  PROVE  IInv'
<1> DEFINE c == ClientOf[t]
           f == th[t].path
           n == Cached(f)
           i == IF Has(c, n) THEN names[c][n] ELSE Len(nodes[c]) + 1
           x == [data |-> Base(n[2]), mtime |-> Local(c)]
<1>1. /\ c \in Clients /\ f \in Files /\ n \in Names /\ n[2] = f
      /\ Len(nodes[c]) \in Nat
  BY Thread DEF CreateLocal, Cached
<1>2. names' = [names EXCEPT ![c][n] = i] BY DEF CreateLocal
<1>3. DiskStep /\ i \in Nat \ {0} /\ i <= Len(nodes'[c])
  <2>1. CASE Has(c, n)
    <3>1. i = names[c][n] /\ i \in 1 .. Len(nodes[c]) BY <1>1, <2>1, NodeAt
    <3>2. UNCHANGED nodes BY <2>1 DEF CreateLocal
    <3>3. names' = names BY <1>2, <3>1 DEF IInv, TypeOK
    <3>4. DiskStep BY <3>2, <3>3, SameDisk DEF disk
    <3> QED BY <1>1, <3>1, <3>2, <3>4
  <2>2. CASE ~Has(c, n)
    <3>1. x \in Node BY <1>1, BaseContents DEF Node, IInv
    <3>2. /\ nodes' = [nodes EXCEPT ![c] = Append(@, x)]
          /\ names' = [names EXCEPT ![c][n] = Len(nodes[c]) + 1]
      BY <1>2, <2>2 DEF CreateLocal
    <3>3. DiskStep
      <4> HIDE DEF c, n, x
      <4> QED BY <1>1, <3>1, <3>2, GrowDisk
    <3>4. names'[c][n] <= Len(nodes'[c]) /\ names'[c][n] = i
      BY <1>1, <1>2, <3>3 DEF DiskStep, DiskTyped, Linked, IInv, TypeOK
    <3> QED BY <1>1, <2>2, <3>3, <3>4
  <2> QED BY <2>1, <2>2
<1>4. Typed'
  BY TypedNow DEF CreateLocal, Typed, server, closer, scan, history, bounds,
     ServerTyped, HistoryTyped, BoundsTyped, CloserTyped, ScanTyped, MapTyped
<1>5. StateOK(t)
  <2>1. PICK d \in Fds :
          th' = [th EXCEPT ![t].pc = "getattr", ![t].fd = d, ![t].ino = i]
    BY DEF CreateLocal
  <2> DEFINE r == [th[t] EXCEPT !.pc = "getattr", !.fd = d, !.ino = i]
  <2>2. th' = [th EXCEPT ![t] = r] BY <2>1
  <2> HIDE DEF i
  <2>3. th'[t] = r /\ th' = [th EXCEPT ![t] = th'[t]] BY <2>2 DEF IInv, TypeOK
  <2>4. th'[t] \in ThreadState BY <1>3, <2>3, Thread DEF ThreadState, PCs
  <2>5. /\ r.pc = "getattr" /\ r.want = th[t].want /\ r.path = th[t].path
        /\ r.fd = d /\ r.ino = i
    BY Thread DEF ThreadState
  <2>6. th[t].want = "create" BY Thread DEF CreateLocal, RequestOK
  <2> HIDE DEF r
  <2>7. RequestOK(t)' BY <1>1, <1>3, <2>3, <2>5, <2>6 DEF RequestOK, NoNode
  <2> QED BY <2>3, <2>4, <2>7 DEF StateOK
<1> QED BY <1>3, <1>4, <1>5, StepParts DEF CreateLocal

LEMMA WriteIInv ==
  ASSUME IInv, NEW t \in Handles, Write(t)
  PROVE  IInv'
<1> DEFINE c == ClientOf[t]
           x == <<th[t].path, writes + 1>>
           y == [data |-> x, mtime |-> Local(c)]
           i == th[t].ino
<1>1. c \in Clients /\ i \in 1 .. Len(nodes[c]) /\ th[t].path \in Files
  BY Thread DEF Write, RequestOK, NoNode
<1>0. clock \in Nat /\ writes \in Nat /\ writes + 1 \in Nat BY DEF IInv, TypeOK
<1>2. x \in Contents BY <1>0, <1>1 DEF Contents
<1>3. y \in Node BY <1>1, <1>2, BaseContents DEF Node, IInv
<1>4. DiskStep
  <2>1. nodes' = [nodes EXCEPT ![c][i] = y] /\ UNCHANGED names BY DEF Write
  <2> HIDE DEF c, i, y
  <2> QED BY <1>1, <1>3, <2>1, WriteDisk
<1>5. Typed'
  <2>1. ServerTyped' BY <1>0, TypedNow DEF Write, Typed, ServerTyped
  <2>2. BoundsTyped' BY <1>0, TypedNow DEF Write, Typed, BoundsTyped
  <2> QED
    BY <2>1, <2>2, TypedNow DEF Write, Typed, closer, scan, history,
       HistoryTyped, CloserTyped, ScanTyped, MapTyped
<1>6. StateOK(t)
  <2> DEFINE r == [th[t] EXCEPT !.buf = x]
  <2>1. th' = [th EXCEPT ![t] = r] BY DEF Write
  <2> HIDE DEF x
  <2>2. th'[t] = r /\ th' = [th EXCEPT ![t] = th'[t]] BY <2>1 DEF IInv, TypeOK
  <2>3. th'[t] \in ThreadState BY <1>2, <2>2, Thread DEF ThreadState, PCs
  <2>4. /\ r.pc = th[t].pc /\ r.want = th[t].want /\ r.path = th[t].path
        /\ r.fd = th[t].fd /\ r.ino = th[t].ino
    BY Thread DEF ThreadState
  <2> HIDE DEF r
  <2>5. RequestOK(t)'
    BY <1>4, <2>2, <2>4, InoKept, Thread DEF Write, RequestOK
  <2> QED BY <2>2, <2>3, <2>5 DEF StateOK
<1> QED BY <1>4, <1>5, <1>6, StepParts DEF Write

-----------------------------------------------------------------------------
(* Closing.                                                                *)

LEMMA ReleaseIInv ==
  ASSUME IInv, NEW t \in Handles, NEW ok \in BOOLEAN, Release(t, ok)
  PROVE  IInv'
<1>1. DiskStep BY SameDisk DEF Release
<1>2. HistoryTyped'
  <2>1. Own(t) \subseteq Contents BY OwnTypes DEF IInv
  <2> QED BY <2>1, TypedNow DEF Release, Typed, HistoryTyped
<1>3. Typed'
  BY <1>2, TypedNow, CallTypes DEF Release, Typed, server, disk, closer, scan,
     ServerTyped, CloserTyped, ScanTyped, MapTyped
<1>4. StateOK(t)
  <2>1. PICK label \in {"mark", "drop"} : Goto(t, label) BY DEF Release
  <2>2. label \in PCs BY DEF PCs
  <2>3. RequestOK(t)'
    BY <1>1, <2>1, <2>2, GotoState, Thread, InoKept DEF Release, RequestOK
  <2> QED BY <2>1, <2>2, <2>3, GotoState DEF StateOK
<1> QED BY <1>1, <1>3, <1>4, StepParts DEF Release

LEMMA DropIInv ==
  ASSUME IInv, NEW t \in Handles, Drop(t)
  PROVE  IInv'
<1>1. DiskStep BY SameDisk DEF Drop
<1>2. ServerTyped' BY TypedNow DEF Drop, Typed, server, ServerTyped
<1>3. HistoryTyped' BY <1>2, FinishTypes, Thread DEF Drop
<1>4. Typed'
  BY <1>2, <1>3, TypedNow DEF Drop, Typed, closer, scan, bounds,
     BoundsTyped, CloserTyped, ScanTyped, MapTyped
<1> QED BY <1>1, <1>4, IdleAfter, StepParts DEF Drop, Finish

LEMMA MarkIInv ==
  ASSUME IInv, NEW t \in Handles, Mark(t)
  PROVE  IInv'
<1> DEFINE c == ClientOf[t]
           n == tempMap[c][th[t].fd]
<1>1. c \in Clients /\ th[t].fd \in Fds BY Thread DEF Mark, RequestOK
<1>2. n \in TempNames \cup {NoName} BY <1>1 DEF IInv, TypeOK
<1>3. CASE n # NoName
  <2>1. n \in TempNames /\ n \in Names /\ Recover(n) \in Names
    BY <1>2, <1>3, NameTypes DEF Names
  <2>2. /\ names' = Move(c, n, Recover(n)) /\ UNCHANGED <<nodes, tempMap>>
        /\ th' = [th EXCEPT ![t].pc = "close", ![t].tmp = n]
        /\ marked' \subseteq marked \cup (IF Has(c, n) THEN {At(c, n).data} ELSE {})
    BY <1>3 DEF Mark
  <2> HIDE DEF n
  <2>3. DiskStep BY <1>1, <2>1, <2>2, MoveDisk
  <2>4. HistoryTyped'
    <3>1. Has(c, n) => At(c, n).data \in Contents BY <1>1, <2>1, NodeAt
    <3>2. n[2] \in Files BY <2>1, NameTypes
    <3>3. closed \in [Clients -> [Files -> Contents]] BY DEF IInv, TypeOK
    <3>4. closed' = IF Has(c, n) THEN [closed EXCEPT ![c][n[2]] = At(c, n).data]
                                 ELSE closed
      BY <1>3 DEF Mark, n
    <3>5. closed' \in [Clients -> [Files -> Contents]]
      BY <1>1, <3>1, <3>2, <3>3, <3>4
    <3>6. UNCHANGED <<released, acked, viewed>> BY DEF Mark
    <3> QED BY <2>2, <3>1, <3>5, <3>6, TypedNow DEF Typed, HistoryTyped
  <2>5. Typed'
    BY <2>4, TypedNow DEF Mark, Typed, server, closer, scan, bounds,
       ServerTyped, BoundsTyped, CloserTyped, ScanTyped, MapTyped
  <2>6. StateOK(t)
    <3> DEFINE r == [th[t] EXCEPT !.pc = "close", !.tmp = n]
    <3>1. th' = [th EXCEPT ![t] = r] BY <2>2
    <3>2. th'[t] = r /\ th' = [th EXCEPT ![t] = th'[t]] BY <3>1 DEF IInv, TypeOK
    <3>3. th'[t] \in ThreadState BY <2>1, <3>2, Thread DEF ThreadState, PCs
    <3>4. /\ r.pc = "close" /\ r.path = th[t].path /\ r.tmp = n
          /\ r.fd = th[t].fd /\ r.ino = th[t].ino
      BY Thread DEF ThreadState
    <3> HIDE DEF r
    <3>5. RequestOK(t)'
      BY <2>1, <2>3, <3>2, <3>4, InoKept, Thread DEF Mark, RequestOK
    <3> QED BY <3>2, <3>3, <3>5 DEF StateOK
  <2> QED BY <2>2, <2>3, <2>5, <2>6, StepParts
<1>4. CASE n = NoName
  <2>1. Goto(t, "close") /\ "close" \in PCs /\ UNCHANGED <<names, nodes, tempMap, marked, closed>>
    BY <1>4 DEF Mark, PCs
  <2>2. DiskStep BY <2>1, SameDisk DEF disk
  <2>3. Typed'
    BY <2>1, TypedNow DEF Mark, Typed, server, closer, scan, bounds, ServerTyped,
       HistoryTyped, BoundsTyped, CloserTyped, ScanTyped, MapTyped
  <2>4. RequestOK(t)'
    BY <1>4, <2>1, <2>2, GotoState, Thread, InoKept DEF Mark, RequestOK
  <2>5. StateOK(t) BY <2>1, <2>4, GotoState DEF StateOK
  <2> QED BY <2>1, <2>2, <2>3, <2>5, StepParts
<1> QED BY <1>3, <1>4

LEMMA CloseIInv ==
  ASSUME IInv, NEW t \in Handles, Close(t)
  PROVE  IInv'
<1>1. DiskStep BY SameDisk DEF Close
<1>2. Typed'
  BY TypedNow DEF Close, Typed, server, disk, closer, scan, history, bounds, ServerTyped,
     HistoryTyped, BoundsTyped, CloserTyped, ScanTyped, MapTyped
<1>3. PICK pc \in {"send", "swap", "sendPath", "submit"}, want \in {"submit", th[t].want} :
        /\ th' = [th EXCEPT ![t].pc = pc, ![t].ino = NoNode, ![t].want = want]
        /\ pc \in {"send", "swap"} => tempMap[ClientOf[t]][th[t].fd] # NoName
  <2> DEFINE large == th[t].path \in Large /\ Has(ClientOf[t], Cached(th[t].path))
             isTemp == tempMap[ClientOf[t]][th[t].fd] # NoName
  <2>1. CASE isTemp /\ ~large BY <2>1 DEF Close
  <2>2. CASE isTemp /\ large BY <2>2 DEF Close
  <2>3. CASE ~isTemp /\ ~large BY <2>3 DEF Close
  <2>4. CASE ~isTemp /\ large BY <2>4 DEF Close
  <2> QED BY <2>1, <2>2, <2>3, <2>4
<1>4. StateOK(t)
  <2> DEFINE r == [th[t] EXCEPT !.pc = pc, !.ino = NoNode, !.want = want]
  <2>1. th' = [th EXCEPT ![t] = r] BY <1>3
  <2>2. th'[t] = r /\ th' = [th EXCEPT ![t] = th'[t]] BY <2>1 DEF IInv, TypeOK
  <2>3. th'[t] \in ThreadState
    <3>1. pc \in PCs /\ want \in {"none", "open", "getattr", "create", "submit"}
      BY Thread DEF PCs, ThreadState
    <3>2. th[t] \in ThreadState BY Thread
    <3>3. [th[t] EXCEPT !.pc = pc, !.ino = NoNode] \in ThreadState
      BY ONLY <3>1, <3>2 DEF ThreadState, NoNode
    <3> DEFINE q == [th[t] EXCEPT !.pc = pc, !.ino = NoNode]
    <3>4. r = [q EXCEPT !.want = want] OBVIOUS
    <3> HIDE DEF q, r
    <3>5. r \in ThreadState BY <3>1, <3>3, <3>4 DEF ThreadState, q
    <3> QED BY <2>2, <3>5
  <2>4. /\ r.pc = pc /\ r.path = th[t].path /\ r.tmp = th[t].tmp /\ r.ino = 0
    BY Thread DEF ThreadState, NoNode
  <2> HIDE DEF r
  <2>5. RequestOK(t)'
    BY <1>1, <1>3, <2>2, <2>4, InoKept, Thread DEF Close, RequestOK
  <2> QED BY <2>2, <2>3, <2>5 DEF StateOK
<1> QED BY <1>1, <1>2, <1>4, StepParts DEF Close

LEMMA SendIInv ==
  ASSUME IInv, NEW t \in Handles, NEW ok \in BOOLEAN, Send(t, ok)
  PROVE  IInv'
<1> DEFINE n == th[t].tmp
<1>1. /\ ClientOf[t] \in Clients /\ n \in TempNames /\ n[2] \in Files
      /\ Recover(n) \in Names
  BY Thread, NameTypes DEF Send, RequestOK
<1>2. DiskStep BY SameDisk DEF Send
<1>3. ServerTyped' /\ BoundsTyped'
  <2>1. CASE n[2] \in Nested
    BY <2>1, TypedNow, CallTypes DEF Send, Typed, server, ServerTyped
  <2>2. CASE n[2] \notin Nested
    <3>1. Put(ClientOf[t], Recover(n), n[2], ok) BY <2>2 DEF Send
    <3> QED BY <1>1, <3>1, PutTypes
  <2> QED BY <2>1, <2>2
<1>4. Typed'
  BY <1>3, TypedNow DEF Send, Typed, disk, closer, scan, history, HistoryTyped,
     CloserTyped, ScanTyped, MapTyped
<1>5. Goto(t, "swap") /\ "swap" \in PCs BY DEF Send, PCs
<1>6. RequestOK(t)'
  BY <1>2, <1>5, GotoState, Thread, InoKept DEF Send, RequestOK
<1>7. StateOK(t) BY <1>5, <1>6, GotoState DEF StateOK
<1> QED BY <1>2, <1>4, <1>7, StepParts DEF Send

LEMMA SwapIInv ==
  ASSUME IInv, NEW t \in Handles, Swap(t)
  PROVE  IInv'
<1>1. /\ ClientOf[t] \in Clients /\ Recover(th[t].tmp) \in Names
      /\ Cached(th[t].path) \in Names
  BY Thread, NameTypes DEF Swap, RequestOK
<1>2. DiskStep BY <1>1, MoveDisk DEF Swap
<1>3. Typed'
  BY TypedNow DEF Swap, Typed, server, closer, scan, history, bounds, ServerTyped,
     HistoryTyped, BoundsTyped, CloserTyped, ScanTyped, MapTyped
<1>4. Goto(t, "erase") /\ "erase" \in PCs BY DEF Swap, PCs
<1>5. RequestOK(t)'
  BY <1>2, <1>4, GotoState, Thread, InoKept DEF Swap, RequestOK
<1>6. StateOK(t) BY <1>4, <1>5, GotoState DEF StateOK
<1> QED BY <1>2, <1>3, <1>6, StepParts DEF Swap

LEMMA EraseIInv ==
  ASSUME IInv, NEW t \in Handles, Erase(t)
  PROVE  IInv'
<1>1. DiskStep BY SameDisk DEF Erase
<1>2. MapTyped' BY DEF Erase, MapTyped, IInv, TypeOK
<1>3. ServerTyped' BY TypedNow DEF Erase, Typed, server, ServerTyped
<1>4. HistoryTyped'
  BY <1>3, FinishTypes, Thread, TypedNow DEF Erase, Typed, HistoryTyped, history
<1>5. Typed'
  BY <1>2, <1>3, <1>4, TypedNow DEF Erase, Typed, closer, scan, bounds,
     BoundsTyped, CloserTyped, ScanTyped
<1>6. StateOK(t)
  <2>1. CASE Goto(t, "submit")
    <3>1. "submit" \in PCs BY DEF PCs
    <3>2. RequestOK(t)'
      BY <1>1, <2>1, <3>1, GotoState, Thread, InoKept DEF Erase, RequestOK
    <3> QED BY <2>1, <3>1, <3>2, GotoState DEF StateOK
  <2>2. CASE Finish(t) BY <1>1, <2>2, IdleAfter DEF Finish
  <2> QED BY <2>1, <2>2 DEF Erase
<1>7. ASSUME NEW u \in Handles \ {t}, th[u].pc = "close"
      PROVE  tempMap'[ClientOf[u]][th[u].fd] \in {tempMap[ClientOf[u]][th[u].fd], NoName}
  <2>1. th[u].fd \in Fds /\ ClientOf[u] \in Clients BY <1>7, Thread DEF RequestOK
  <2> QED BY <2>1 DEF Erase, IInv, TypeOK
<1> QED BY <1>1, <1>5, <1>6, <1>7, StepParts

LEMMA SubmitIInv ==
  ASSUME IInv, NEW t \in Handles, Submit(t)
  PROVE  IInv'
<1>1. DiskStep BY SameDisk DEF Submit
<1>2. ClientOf[t] \in Clients /\ th[t].path \in Files BY Thread DEF Submit
<1>3. ServerTyped' /\ HistoryTyped'
  <2>1. ServerTyped' BY TypedNow DEF Submit, Typed, server, ServerTyped
  <2> QED BY <1>2, <2>1, FinishTypes DEF Submit
<1>4. CloserTyped'
  <2>1. Append(queue[ClientOf[t]], th[t].path) \in Seq(Files)
    BY <1>2 DEF IInv, TypeOK
  <2> QED BY <2>1 DEF Submit, CloserTyped, IInv, TypeOK
<1>5. Typed'
  BY <1>3, <1>4, TypedNow DEF Submit, Typed, scan, bounds, BoundsTyped, ScanTyped,
     MapTyped
<1> QED BY <1>1, <1>5, IdleAfter, StepParts DEF Submit, Finish

LEMMA SendPathIInv ==
  ASSUME IInv, NEW t \in Handles, NEW ok \in BOOLEAN, SendPath(t, ok)
  PROVE  IInv'
<1>1. DiskStep BY SameDisk DEF SendPath
<1>2. /\ ClientOf[t] \in Clients /\ th[t].path \in Files
      /\ Cached(th[t].path) \in Names
  BY Thread DEF SendPath
<1>3. ServerTyped' /\ BoundsTyped' BY <1>2, PutTypes DEF SendPath
<1>4. HistoryTyped' BY <1>2, <1>3, FinishTypes DEF SendPath
<1>5. Typed'
  BY <1>3, <1>4, TypedNow DEF SendPath, Typed, closer, scan, CloserTyped, ScanTyped,
     MapTyped
<1> QED BY <1>1, <1>5, IdleAfter, StepParts DEF SendPath, Finish

-----------------------------------------------------------------------------
(* The close thread, crashes and the recovery scan.                        *)

\* A step that is not taken by a request.
LEMMA OtherStep ==
  ASSUME IInv, Typed', DiskStep, UNCHANGED <<th, tempMap>>
  PROVE  IInv'
<1>1. ASSUME NEW u \in Handles PROVE RequestOK(u)' BY OtherRequest
<1> QED BY <1>1
  DEF IInv, TypeOK, ServerTyped, HistoryTyped, BoundsTyped, CloserTyped,
      ScanTyped, MapTyped, DiskTyped, DiskStep, Typed

LEMMA CloserIInv ==
  ASSUME IInv, NEW c \in Clients, CloserStep(c)
  PROVE  IInv'
<1>1. CASE Dequeue(c)
  <2>1. queue[c] \in Seq(Files) /\ queue[c] # <<>> BY <1>1 DEF Dequeue, IInv, TypeOK
  <2>2. Head(queue[c]) \in Files /\ Tail(queue[c]) \in Seq(Files)
    BY ONLY <2>1, HeadTailProperties
  <2>3. CloserTyped' BY <1>1, <2>2 DEF Dequeue, CloserTyped, IInv, TypeOK
  <2>4. Typed'
    BY <1>1, <2>3, TypedNow DEF Dequeue, Typed, server, scan, history, bounds,
       ServerTyped, HistoryTyped, BoundsTyped, ScanTyped, MapTyped
  <2> QED BY <1>1, <2>4, SameDisk, OtherStep DEF Dequeue
<1>2. ASSUME NEW ok \in BOOLEAN, CloseOnServer(c, ok) PROVE IInv'
  <2>1. sending[c] \in Files BY <1>2 DEF CloseOnServer, IInv, TypeOK
  <2>2. ServerTyped' /\ BoundsTyped'
    BY <1>2, <2>1, NameTypes, PutTypes DEF CloseOnServer
  <2>3. CloserTyped' BY <1>2 DEF CloseOnServer, CloserTyped, IInv, TypeOK
  <2>4. Typed'
    BY <1>2, <2>2, <2>3, TypedNow DEF CloseOnServer, Typed, scan, history,
       HistoryTyped, ScanTyped, MapTyped
  <2> QED BY <1>2, <2>4, SameDisk, OtherStep DEF CloseOnServer
<1> QED BY <1>1, <1>2 DEF CloserStep

LEMMA CrashIInv ==
  ASSUME IInv, NEW c \in Clients, Crash(c)
  PROVE  IInv'
<1>1. DiskStep BY SameDisk DEF Crash
<1>2. CloserTyped' BY DEF Crash, CloserTyped, IInv, TypeOK
<1>3. ScanTyped' BY DEF Crash, ScanTyped, IInv, TypeOK
<1>4. MapTyped' BY DEF Crash, MapTyped, IInv, TypeOK
<1>5. BoundsTyped' BY DEF Crash, BoundsTyped, IInv, TypeOK
<1>6. ServerTyped' /\ HistoryTyped'
  BY TypedNow DEF Crash, Typed, server, history, ServerTyped, HistoryTyped
<1>7. th' \in [Handles -> ThreadState] BY IdleState DEF Crash, IInv, TypeOK
<1>8. ASSUME NEW u \in Handles PROVE RequestOK(u)'
  <2>1. CASE ClientOf[u] = c
    <3>1. th'[u] = Idle BY <2>1 DEF Crash
    <3> QED BY <1>1, <3>1, RequestEnds
  <2>2. CASE ClientOf[u] # c
    <3>1. th'[u] = th[u] BY <2>2 DEF Crash
    <3>2. tempMap'[ClientOf[u]] = tempMap[ClientOf[u]]
      BY <2>2, ClientsAssumption DEF Crash, IInv, TypeOK
    <3> QED BY <1>1, <3>1, <3>2, OtherRequest
  <2> QED BY <2>1, <2>2
<1> QED BY <1>1, <1>2, <1>3, <1>4, <1>5, <1>6, <1>7, <1>8
  DEF IInv, TypeOK, ServerTyped, HistoryTyped, BoundsTyped, CloserTyped,
      ScanTyped, MapTyped, DiskTyped, DiskStep

LEMMA RestartIInv ==
  ASSUME IInv, NEW c \in Clients, Restart(c)
  PROVE  IInv'
<1>1. ScanTyped' BY DEF Restart, ScanTyped, IInv, TypeOK
<1>2. Typed'
  BY <1>1, TypedNow DEF Restart, Typed, server, closer, history, bounds,
     ServerTyped, HistoryTyped, BoundsTyped, CloserTyped, MapTyped
<1> QED BY <1>2, SameDisk, OtherStep DEF Restart

LEMMA ScanIInv ==
  ASSUME IInv, NEW c \in Clients, ScanStep(c)
  PROVE  IInv'
<1>1. ASSUME NEW n \in RecoverNames, RecoverRename(c, n) PROVE IInv'
  <2>1. n \in Names /\ n[2] \in Files /\ Cached(n[2]) \in Names BY NameTypes
  <2>2. DiskStep BY <1>1, <2>1, MoveDisk DEF RecoverRename
  <2>3. ScanTyped' BY <1>1, <2>1 DEF RecoverRename, ScanTyped, IInv, TypeOK
  <2>4. Typed'
    BY <1>1, <2>3, TypedNow DEF RecoverRename, Typed, server, closer, history, bounds,
       ServerTyped, HistoryTyped, BoundsTyped, CloserTyped, MapTyped
  <2> QED BY <1>1, <2>2, <2>4, OtherStep DEF RecoverRename
<1>2. ASSUME NEW intact \in NameIntact, NEW ok \in BOOLEAN, RecoverSend(c, intact, ok)
      PROVE  IInv'
  <2> DEFINE f == rescued[c]
  <2>1. f \in Files BY <1>2 DEF RecoverSend, IInv, TypeOK
  <2>2. ServerTyped' /\ BoundsTyped'
    <3>1. CASE intact /\ f \notin Nested
      <4>1. Put(c, Cached(f), f, ok) BY <1>2, <3>1 DEF RecoverSend
      <4> QED BY <2>1, <4>1, NameTypes, PutTypes
    <3>2. CASE ~(intact /\ f \notin Nested)
      <4>1. Call(ok) /\ UNCHANGED server BY <1>2, <3>2 DEF RecoverSend
      <4> QED BY <4>1, TypedNow, CallTypes DEF Typed, server, ServerTyped
    <3> QED BY <3>1, <3>2
  <2>3. ScanTyped' BY <1>2 DEF RecoverSend, ScanTyped, IInv, TypeOK
  <2>4. Typed'
    BY <1>2, <2>2, <2>3, TypedNow DEF RecoverSend, Typed, closer, history,
       HistoryTyped, CloserTyped, MapTyped
  <2> QED BY <1>2, <2>4, SameDisk, OtherStep DEF RecoverSend
<1>3. ASSUME NEW n \in TempNames, DiscardTemp(c, n) PROVE IInv'
  <2>1. DiskStep BY <1>3, NameTypes, UnlinkDisk DEF DiscardTemp
  <2>2. Typed'
    BY <1>3, TypedNow DEF DiscardTemp, Typed, server, closer, scan, history, bounds,
       ServerTyped, HistoryTyped, BoundsTyped, CloserTyped, ScanTyped, MapTyped
  <2> QED BY <1>3, <2>1, <2>2, OtherStep DEF DiscardTemp
<1>4. CASE RecoverDone(c)
  <2>1. ScanTyped' BY <1>4 DEF RecoverDone, ScanTyped, IInv, TypeOK
  <2>2. Typed'
    BY <1>4, <2>1, TypedNow DEF RecoverDone, Typed, server, closer, history, bounds,
       ServerTyped, HistoryTyped, BoundsTyped, CloserTyped, MapTyped
  <2> QED BY <1>4, <2>2, SameDisk, OtherStep DEF RecoverDone
<1> QED BY <1>1, <1>2, <1>3, <1>4 DEF ScanStep

-----------------------------------------------------------------------------
(* The theorem.                                                            *)

LEMMA InitIInv == Init => IInv
<1> SUFFICES ASSUME Init PROVE IInv
  OBVIOUS
<1>1. ServerTyped
  <2>1. \A f \in Files : [data |-> Base(f), mtime |-> Boot] \in Node
    BY BaseContents, ClockAssumption DEF Node
  <2>2. \A f \in Files : <<Base(f)>> \in Seq(Contents) BY BaseContents
  <2> QED BY <2>1, <2>2 DEF Init, ServerTyped
<1>2. HistoryTyped /\ BoundsTyped /\ CloserTyped /\ ScanTyped /\ MapTyped
  <2>1. HistoryTyped BY BaseContents DEF Init, HistoryTyped
  <2> QED BY <2>1 DEF Init, BoundsTyped, CloserTyped, ScanTyped, MapTyped
<1>3. DiskTyped BY DEF Init, DiskTyped, Linked, NoNode
<1>4. th \in [Handles -> ThreadState] BY IdleState DEF Init
<1>5. ASSUME NEW t \in Handles PROVE RequestOK(t)
  <2>1. th[t] = Idle /\ nodes[ClientOf[t]] = <<>>
    BY ClientsAssumption DEF Init
  <2> QED BY <2>1, IdleState DEF RequestOK
<1> QED BY <1>1, <1>2, <1>3, <1>4, <1>5, TypeParts

LEMMA StepIInv == IInv /\ [Next]_vars => IInv'
<1> SUFFICES ASSUME IInv, [Next]_vars PROVE IInv'
  OBVIOUS
<1>1. ASSUME NEW t \in Handles, UserStep(t) PROVE IInv'
  BY <1>1, LookupIInv, CreateLookupIInv, WriteIInv, ReleaseIInv DEF UserStep
<1>2. ASSUME NEW t \in Handles, OpenStep(t) PROVE IInv'
  BY <1>2, CheckIInv, FetchIInv, InstallIInv, GetattrIInv, UtimensIInv, CopyIInv,
     StampIInv, CreateRemoteIInv, CreateLocalIInv DEF OpenStep
<1>3. ASSUME NEW t \in Handles, ReleaseStep(t) PROVE IInv'
  BY <1>3, DropIInv, MarkIInv, CloseIInv, SendIInv, SwapIInv, EraseIInv,
     SubmitIInv, SendPathIInv DEF ReleaseStep
<1>4. ASSUME NEW c \in Clients, CloserStep(c) \/ Crash(c) \/ Restart(c) \/ ScanStep(c)
      PROVE  IInv'
  BY <1>4, CloserIInv, CrashIInv, RestartIInv, ScanIInv
<1>5. CASE UNCHANGED vars
  <2>1. Typed'
    BY <1>5, TypedNow DEF vars, Typed, server, closer, scan, history, bounds,
       ServerTyped, HistoryTyped, BoundsTyped, CloserTyped, ScanTyped, MapTyped
  <2> QED BY <1>5, <2>1, SameDisk, OtherStep DEF vars
<1> QED BY <1>1, <1>2, <1>3, <1>4, <1>5 DEF Next

\* In every behaviour of any number of clients, handles, files and descriptors
\* the state is well typed: every name leads to an inode that exists, and
\* renames and sends by client_release name files that open has created.
THEOREM TypeCorrect == Spec => []TypeOK
<1>1. IInv => TypeOK BY DEF IInv
<1> QED BY <1>1, InitIInv, StepIInv, PTL DEF Spec
====
