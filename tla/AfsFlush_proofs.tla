-------------------------- MODULE AfsFlush_proofs --------------------------
(***************************************************************************)
(* What becomes of written contents in AfsSession: the journal of recovery *)
(* files, the last close of a file at a client, and flush on close.        *)
(*                                                                         *)
(* The first part says once what each step does to the files by their      *)
(* names, to the request that takes it and to the server; the invariants   *)
(* are about these, not about inodes.                                      *)
(***************************************************************************)
EXTENDS AfsSafety_proofs

-----------------------------------------------------------------------------
(* Files by their names.                                                   *)

\* What name n leads to, or Absent.
File(c, n) == IF Has(c, n) THEN At(c, n) ELSE Absent

\* The same after the step, for a name that may depend on the state before it.
FileNext(c, n) ==
  IF names'[c][n] # NoNode THEN nodes'[c][names'[c][n]] ELSE Absent

\* Nothing but the file of one name changes, or nothing at all.
Elsewhere(c, n) ==
  \A d \in Clients, m \in Names : d # c \/ m # n => FileNext(d, m) = File(d, m)
FilesStay == \A d \in Clients, m \in Names : FileNext(d, m) = File(d, m)

LEMMA NoFileIsNoContent == \A x \in Contents : x[1] \in Files /\ x[1] # NoFile /\ x # Absent.data
BY FilesAssumption DEF Contents, Absent

LEMMA FileFacts ==
  IInv => \A c \in Clients, n \in Names :
            /\ Has(c, n) <=> File(c, n).data # Absent.data
            /\ Has(c, n) => /\ File(c, n) = At(c, n) /\ File(c, n) \in Node
                            /\ File(c, n).data \in Contents /\ File(c, n).mtime \in Nat
            /\ ~Has(c, n) => File(c, n) = Absent
BY NodeAt, NoFileIsNoContent DEF File

LEMMA FileThen == \A c \in Clients, n \in Names : File(c, n)' = FileNext(c, n)
BY DEF File, FileNext, Has, At

LEMMA FileNextFacts ==
  IInv' => \A c \in Clients, n \in Names :
             /\ Has(c, n)' <=> FileNext(c, n).data # Absent.data
             /\ Has(c, n)' => /\ FileNext(c, n) = At(c, n)' /\ FileNext(c, n) \in Node
                              /\ FileNext(c, n).data \in Contents
                              /\ FileNext(c, n).mtime \in Nat
             /\ ~Has(c, n)' => FileNext(c, n) = Absent
<1>1. (IInv => \A c \in Clients, n \in Names :
            /\ Has(c, n) <=> File(c, n).data # Absent.data
            /\ Has(c, n) => /\ File(c, n) = At(c, n) /\ File(c, n) \in Node
                            /\ File(c, n).data \in Contents /\ File(c, n).mtime \in Nat
            /\ ~Has(c, n) => File(c, n) = Absent)'
  BY FileFacts, PTL
<1> QED BY <1>1, FileThen DEF Absent

LEMMA SameFiles == ASSUME UNCHANGED disk PROVE FilesStay
<1>1. names' = names /\ nodes' = nodes BY DEF disk
<1>2. ASSUME NEW d \in Clients, NEW m \in Names PROVE FileNext(d, m) = File(d, m)
  BY <1>1 DEF File, FileNext, Has, At
<1> QED BY <1>2 DEF FilesStay

\* A new inode for a name.
LEMMA GrowFile ==
  ASSUME PInv, NEW c \in Clients, NEW n \in Names, NEW x \in Node,
         nodes' = [nodes EXCEPT ![c] = Append(@, x)],
         names' = [names EXCEPT ![c][n] = Len(nodes[c]) + 1]
  PROVE  FileNext(c, n) = x /\ Elsewhere(c, n)
<1>1. names'[c][n] = Len(nodes[c]) + 1
      /\ \A d \in Clients, m \in Names : d # c \/ m # n => names'[d][m] = names[d][m]
  BY DEF PInv, IInv, TypeOK
<1>2. nodes[c] \in Seq(Node) /\ Len(nodes[c]) \in Nat BY DEF PInv, IInv, TypeOK
<1>3. nodes'[c] = Append(nodes[c], x) /\ \A d \in Clients \ {c} : nodes'[d] = nodes[d]
  BY DEF PInv, IInv, TypeOK
<1>4. /\ nodes'[c][Len(nodes[c]) + 1] = x
      /\ \A i \in 1 .. Len(nodes[c]) : nodes'[c][i] = nodes[c][i]
  BY <1>2, <1>3, AppendProperties
<1>5. FileNext(c, n) = x BY <1>1, <1>2, <1>4 DEF File, FileNext, Has, At, NoNode
<1>6. ASSUME NEW d \in Clients, NEW m \in Names, d # c \/ m # n
      PROVE  FileNext(d, m) = File(d, m)
  <2>1. names'[d][m] = names[d][m] BY <1>1, <1>6
  <2>2. CASE ~Has(d, m) BY <2>1, <2>2 DEF File, FileNext, Has
  <2>3. CASE Has(d, m)
    <3>1. names[d][m] \in 1 .. Len(nodes[d]) BY <2>3, NodeAt DEF PInv
    <3>2. nodes'[d][names[d][m]] = nodes[d][names[d][m]] BY <1>3, <1>4, <3>1
    <3> QED BY <2>1, <2>3, <3>2 DEF File, FileNext, Has, At
  <2> QED BY <2>2, <2>3
<1> QED BY <1>5, <1>6 DEF Elsewhere

\* The inode of a name is written.
LEMMA SetFile ==
  ASSUME PInv, NEW c \in Clients, NEW n \in Names, Has(c, n), NEW x, UNCHANGED names,
         nodes' = [nodes EXCEPT ![c][names[c][n]] = x]
  PROVE  FileNext(c, n) = x /\ Elsewhere(c, n)
<1> DEFINE i == names[c][n]
<1>1. i \in 1 .. Len(nodes[c]) BY NodeAt DEF PInv
<1>2. nodes \in [Clients -> Seq(Node)] /\ nodes[c] \in Seq(Node) BY DEF PInv, IInv, TypeOK
<1>3. nodes' = [nodes EXCEPT ![c][i] = x] OBVIOUS
<1> HIDE DEF i
<1>4. nodes'[c][i] = x
      /\ \A d \in Clients, j \in Nat : d # c \/ j # i => nodes'[d][j] = nodes[d][j]
  BY <1>1, <1>2, <1>3
<1>5. FileNext(c, n) = x BY <1>4 DEF File, FileNext, Has, At, i
<1>6. ASSUME NEW d \in Clients, NEW m \in Names, d # c \/ m # n
      PROVE  FileNext(d, m) = File(d, m)
  <2>1. CASE ~Has(d, m) BY <2>1 DEF File, FileNext, Has
  <2>2. CASE Has(d, m)
    <3>1. names[d][m] \in Nat BY DEF PInv, IInv, TypeOK
    <3>2. d # c \/ names[d][m] # i BY <1>6, <2>2 DEF PInv, OneName, Has, i
    <3> QED BY <1>4, <2>2, <3>1, <3>2 DEF File, FileNext, Has, At
  <2> QED BY <2>1, <2>2
<1> QED BY <1>5, <1>6 DEF Elsewhere

LEMMA TouchFile ==
  ASSUME PInv, NEW c \in Clients, NEW n \in Names, Has(c, n), NEW k, UNCHANGED names,
         nodes' = [nodes EXCEPT ![c][names[c][n]].mtime = k]
  PROVE  /\ FileNext(c, n) = [data |-> File(c, n).data, mtime |-> k]
         /\ Elsewhere(c, n)
<1> DEFINE x == [nodes[c][names[c][n]] EXCEPT !.mtime = k]
<1>1. nodes' = [nodes EXCEPT ![c][names[c][n]] = x] OBVIOUS
<1>2. File(c, n) \in Node /\ File(c, n) = nodes[c][names[c][n]]
  BY FileFacts DEF PInv, At
<1>3. x = [data |-> File(c, n).data, mtime |-> k] BY <1>2 DEF Node
<1> HIDE DEF x
<1>4. FileNext(c, n) = x /\ Elsewhere(c, n) BY <1>1, SetFile
<1> QED BY <1>3, <1>4

\* rename(2).
LEMMA MoveFile ==
  ASSUME PInv, NEW c \in Clients, NEW m \in Names, NEW n \in Names, m # n,
         UNCHANGED nodes, names' = Move(c, m, n)
  PROVE  /\ Has(c, m) => FileNext(c, n) = File(c, m)
         /\ ~Has(c, m) => FileNext(c, n) = File(c, n)
         /\ FileNext(c, m) = Absent
         /\ \A d \in Clients, k \in Names :
              d # c \/ (k # m /\ k # n) => FileNext(d, k) = File(d, k)
<1>1. names \in [Clients -> [Names -> Nat]] BY DEF PInv, IInv, TypeOK
<1>2. CASE Has(c, m)
  <2>1. names' = [names EXCEPT ![c][n] = names[c][m], ![c][m] = NoNode] BY <1>2 DEF Move
  <2>2. names'[c][n] = names[c][m] /\ names'[c][m] = NoNode
        /\ \A d \in Clients, k \in Names :
             d # c \/ (k # m /\ k # n) => names'[d][k] = names[d][k]
    BY <1>1, <2>1
  <2> QED BY <1>2, <2>2 DEF File, FileNext, Has, At
<1>3. CASE ~Has(c, m)
  BY <1>3 DEF Move, File, FileNext, Has, At
<1> QED BY <1>2, <1>3

LEMMA UnlinkFile ==
  ASSUME PInv, NEW c \in Clients, NEW n \in Names,
         UNCHANGED nodes, names' = [names EXCEPT ![c][n] = NoNode]
  PROVE  FileNext(c, n) = Absent /\ Elsewhere(c, n)
<1>1. names'[c][n] = NoNode
      /\ \A d \in Clients, m \in Names : d # c \/ m # n => names'[d][m] = names[d][m]
  BY DEF PInv, IInv, TypeOK
<1>2. FileNext(c, n) = Absent BY <1>1 DEF File, FileNext, Has
<1>3. ASSUME NEW d \in Clients, NEW m \in Names, d # c \/ m # n
      PROVE  FileNext(d, m) = File(d, m)
  BY <1>1, <1>3 DEF File, FileNext, Has, At
<1> QED BY <1>2, <1>3 DEF Elsewhere

-----------------------------------------------------------------------------
(* What a step does to the requests, to the server and around them.        *)

Others(t) == \A u \in Handles \ {t} : th'[u] = th[u]

\* The rest of the clients, and the server with the histories.
AroundStays == UNCHANGED <<queue, sending, mode, rescued, crashes>>
ServerStays == UNCHANGED <<clock, srv, log, since>>
CountsStay == UNCHANGED <<marked, acked, closed, writes>>

\* A step of request t that goes to the given step of a request.
Steps(t, pc) ==
  /\ Others(t) /\ th'[t].pc = pc /\ th'[t].path = th[t].path
  /\ th'[t].buf = th[t].buf /\ th'[t].tmp = th[t].tmp /\ th'[t].fd = th[t].fd
Goes(t, pc) == Steps(t, pc) /\ th'[t].want = th[t].want

\* The request is over.
Ends(t) ==
  /\ Others(t) /\ th'[t].pc = "idle" /\ th'[t].path = NoFile /\ th'[t].want = "none"
  /\ th'[t].buf = <<NoFile, 0>> /\ th'[t].tmp = NoName

\* PublishedContents after the step.
PublishedNext(f) == {log'[f][i] : i \in 1 .. Len(log'[f])}

\* File f gets content x on the server.
Serves(f, x) ==
  /\ srv'[f] = [data |-> x, mtime |-> Boot + clock] /\ clock' = clock + 1
  /\ \A g \in Files \ {f} : srv'[g] = srv[g]
  /\ log' = [log EXCEPT ![f] = Append(log[f], x)] /\ x \in PublishedNext(f)
  /\ since' = [since EXCEPT ![f] = writes]
  /\ \A g \in Files : PublishedContents(g) \subseteq PublishedNext(g)

LEMMA NewRequest ==
  ASSUME IInv, NEW t \in Handles, NEW r, th' = [th EXCEPT ![t] = r]
  PROVE  th'[t] = r /\ Others(t)
BY DEF IInv, TypeOK, Others

LEMMA GotoGoes ==
  ASSUME IInv, NEW t \in Handles, NEW label \in PCs, Goto(t, label)
  PROVE  Goes(t, label)
<1>1. th' = [th EXCEPT ![t] = th'[t]] BY GotoState
<1>2. Others(t) BY <1>1, NewRequest
<1> QED BY <1>2, GotoState DEF Goes, Steps

LEMMA IdleEnds ==
  ASSUME IInv, NEW t \in Handles, th' = [th EXCEPT ![t] = Idle]
  PROVE  Ends(t)
<1>1. th'[t] = Idle /\ Others(t) BY NewRequest
<1>2. /\ Idle.pc = "idle" /\ Idle.path = NoFile /\ Idle.want = "none"
      /\ Idle.buf = <<NoFile, 0>> /\ Idle.tmp = NoName
  BY DEF Idle, Request
<1> QED BY <1>1, <1>2 DEF Ends

LEMMA PublishServes ==
  ASSUME IInv, NEW f \in Files, NEW x \in Contents, Publish(f, x)
  PROVE  Serves(f, x)
<1> DEFINE y == [data |-> x, mtime |-> Boot + clock]
<1>1. /\ srv' = [srv EXCEPT ![f] = y] /\ log' = [log EXCEPT ![f] = Append(log[f], x)]
      /\ clock' = clock + 1 /\ since' = [since EXCEPT ![f] = writes]
  BY DEF Publish
<1>2. srv \in [Files -> Node \cup {Absent}] /\ log \in [Files -> Seq(Contents)]
  BY DEF IInv, TypeOK
<1> HIDE DEF y
<1>3. /\ srv'[f] = y /\ \A g \in Files \ {f} : srv'[g] = srv[g] /\ log'[g] = log[g]
      /\ log'[f] = Append(log[f], x)
  BY <1>1, <1>2
<1>4. /\ Len(Append(log[f], x)) = Len(log[f]) + 1 /\ Len(log[f]) \in Nat
      /\ Append(log[f], x)[Len(log[f]) + 1] = x
      /\ \A i \in 1 .. Len(log[f]) : Append(log[f], x)[i] = log[f][i]
  BY <1>2, AppendProperties
<1>5. x \in PublishedNext(f)
  <2>1. Len(log'[f]) \in 1 .. Len(log'[f]) /\ log'[f][Len(log'[f])] = x BY <1>3, <1>4
  <2> QED BY <2>1 DEF PublishedNext
<1>6. ASSUME NEW g \in Files PROVE PublishedContents(g) \subseteq PublishedNext(g)
  <2>1. CASE g # f BY <1>3, <2>1 DEF PublishedContents, PublishedNext
  <2>2. CASE g = f
    <3>1. ASSUME NEW i \in 1 .. Len(log[f])
          PROVE  i \in 1 .. Len(log'[f]) /\ log'[f][i] = log[f][i]
      BY <1>3, <1>4, <3>1
    <3> QED BY <2>2, <3>1 DEF PublishedContents, PublishedNext
  <2> QED BY <2>1, <2>2
<1> QED BY <1>1, <1>3, <1>5, <1>6 DEF Serves, y

LEMMA CallEffect ==
  ASSUME IInv, NEW ok \in BOOLEAN, Call(ok)
  PROVE  /\ MaxFailures = 0 => ok
         /\ failures' = failures => ok
         /\ UNCHANGED <<writes, crashes>>
BY DEF Call, IInv, TypeOK

LEMMA PutEffect ==
  ASSUME IInv, NEW c \in Clients, NEW n \in Names, NEW f \in Files, NEW ok \in BOOLEAN,
         Put(c, n, f, ok)
  PROVE  /\ MaxFailures = 0 => ok
         /\ failures' = failures => ok
         /\ UNCHANGED <<writes, crashes>>
         /\ ok /\ Has(c, n) => Serves(f, File(c, n).data)
         /\ ~(ok /\ Has(c, n)) => ServerStays
<1>1. /\ (MaxFailures = 0 => ok) /\ (failures' = failures => ok)
      /\ UNCHANGED <<writes, crashes>>
  BY CallEffect DEF Put
<1>2. ASSUME ok, Has(c, n) PROVE Serves(f, File(c, n).data)
  <2>1. At(c, n).data \in Contents /\ File(c, n) = At(c, n) BY <1>2, NodeAt DEF File
  <2> QED BY <1>2, <2>1, PublishServes DEF Put
<1>3. ~(ok /\ Has(c, n)) => ServerStays BY DEF Put, server, ServerStays
<1> QED BY <1>1, <1>2, <1>3

-----------------------------------------------------------------------------
(* The steps of client_open and of client_getattr.                         *)

LEMMA LookupEffect ==
  ASSUME IInv, NEW t \in Handles, NEW f \in Files, NEW want \in {"open", "getattr"},
         Lookup(t, f, want)
  PROVE  /\ AroundStays /\ ServerStays /\ CountsStay /\ FilesStay /\ UNCHANGED tempMap
         /\ Others(t) /\ th[t] = Idle /\ mode[ClientOf[t]] = "up"
         /\ th'[t].path = f /\ th'[t].want = want
         /\ th'[t].buf = <<NoFile, 0>> /\ th'[t].tmp = NoName
         /\ \/ /\ th'[t].pc = "check" /\ Has(ClientOf[t], Cached(f))
               /\ th'[t].got = File(ClientOf[t], Cached(f)).mtime
            \/ th'[t].pc = "fetch" /\ ~Has(ClientOf[t], Cached(f))
<1> DEFINE c == ClientOf[t]
<1>1. /\ AroundStays /\ ServerStays /\ CountsStay /\ UNCHANGED <<tempMap, disk>>
      /\ th[t] = Idle /\ mode[c] = "up"
  BY DEF Lookup, AroundStays, ServerStays, CountsStay, server, closer, scan, history
<1>2. FilesStay BY <1>1, SameFiles
<1>3. CASE Has(c, Cached(f))
  <2> DEFINE r == Request("check", want, f, At(c, Cached(f)).mtime, Len(log[f]))
  <2>1. th' = [th EXCEPT ![t] = r] BY <1>3 DEF Lookup
  <2>2. /\ r.pc = "check" /\ r.path = f /\ r.want = want /\ r.buf = <<NoFile, 0>>
        /\ r.tmp = NoName /\ r.got = At(c, Cached(f)).mtime
    BY DEF Request
  <2> HIDE DEF r
  <2>3. th'[t] = r /\ Others(t) BY <2>1, NewRequest
  <2> QED BY <1>1, <1>2, <1>3, <2>2, <2>3 DEF File
<1>4. CASE ~Has(c, Cached(f))
  <2> DEFINE r == Request("fetch", want, f, 0, Len(log[f]))
  <2>1. th' = [th EXCEPT ![t] = r] BY <1>4 DEF Lookup
  <2>2. /\ r.pc = "fetch" /\ r.path = f /\ r.want = want /\ r.buf = <<NoFile, 0>>
        /\ r.tmp = NoName
    BY DEF Request
  <2> HIDE DEF r
  <2>3. th'[t] = r /\ Others(t) BY <2>1, NewRequest
  <2> QED BY <1>1, <1>2, <1>4, <2>2, <2>3
<1> QED BY <1>3, <1>4

LEMMA CheckEffect ==
  ASSUME IInv, NEW t \in Handles, NEW ok \in BOOLEAN, Check(t, ok)
  PROVE  /\ AroundStays /\ ServerStays /\ CountsStay /\ FilesStay /\ UNCHANGED tempMap
         /\ th[t].pc = "check"
         /\ \/ Goes(t, "fetch") /\ th[t].got < Mtime(th[t].path, ok)
            \/ Goes(t, "copy") /\ th[t].want = "open"
            \/ Ends(t)
<1>1. /\ AroundStays /\ ServerStays /\ CountsStay /\ UNCHANGED <<tempMap, disk>>
      /\ th[t].pc = "check"
  BY CallEffect DEF Check, AroundStays, ServerStays, CountsStay, server, closer, scan, history
<1>2. FilesStay BY <1>1, SameFiles
<1>3. \/ Goto(t, "fetch") /\ th[t].got < Mtime(th[t].path, ok)
      \/ Goto(t, "copy") /\ th[t].want = "open"
      \/ th' = [th EXCEPT ![t] = Idle]
  BY DEF Check
<1> QED BY <1>1, <1>2, <1>3, GotoGoes, IdleEnds DEF PCs

LEMMA FetchEffect ==
  ASSUME IInv, NEW t \in Handles, NEW ok \in BOOLEAN, Fetch(t, ok)
  PROVE  /\ AroundStays /\ ServerStays /\ CountsStay /\ FilesStay /\ UNCHANGED tempMap
         /\ th[t].pc = "fetch"
         /\ \/ Goes(t, "getattr")
            \/ /\ OnServer(th[t].path)
               /\ Others(t) /\ th'[t].pc = "install" /\ th'[t].path = th[t].path
               /\ th'[t].want = th[t].want /\ th'[t].tmp = th[t].tmp
               /\ th'[t].buf = srv[th[t].path].data
<1>1. /\ AroundStays /\ ServerStays /\ CountsStay /\ UNCHANGED <<tempMap, disk>>
      /\ th[t].pc = "fetch"
  BY CallEffect DEF Fetch, AroundStays, ServerStays, CountsStay, server, closer, scan, history
<1>2. FilesStay BY <1>1, SameFiles
<1>3. CASE Goto(t, "getattr") BY <1>1, <1>2, <1>3, GotoGoes DEF PCs
<1>4. CASE ~Goto(t, "getattr")
  <2> DEFINE x == srv[th[t].path].data
             r == [th[t] EXCEPT !.pc = "install", !.buf = x]
  <2>1. th' = [th EXCEPT ![t] = r] /\ OnServer(th[t].path) BY <1>4 DEF Fetch
  <2>2. /\ r.pc = "install" /\ r.buf = x /\ r.path = th[t].path /\ r.want = th[t].want
        /\ r.tmp = th[t].tmp
    BY Thread DEF ThreadState
  <2> HIDE DEF r
  <2>3. th'[t] = r /\ Others(t) BY <2>1, NewRequest
  <2> QED BY <1>1, <1>2, <2>1, <2>2, <2>3
<1> QED BY <1>3, <1>4

LEMMA InstallEffect ==
  ASSUME PInv, NEW t \in Handles, Install(t)
  PROVE  LET c == ClientOf[t]
             n == Cached(th[t].path)
         IN
         /\ AroundStays /\ ServerStays /\ CountsStay /\ UNCHANGED tempMap
         /\ FileNext(c, n) = [data |-> th[t].buf, mtime |-> Local(c)] /\ Elsewhere(c, n)
         /\ th[t].pc = "install"
         /\ Others(t) /\ th'[t].pc = "getattr" /\ th'[t].path = th[t].path
         /\ th'[t].want = th[t].want /\ th'[t].tmp = th[t].tmp
         /\ th'[t].buf = <<NoFile, 0>>
<1> DEFINE c == ClientOf[t]
           n == Cached(th[t].path)
           x == [data |-> th[t].buf, mtime |-> Local(c)]
           r == [th[t] EXCEPT !.pc = "getattr", !.buf = <<NoFile, 0>>]
<1>1. /\ c \in Clients /\ n \in Names /\ x \in Node /\ th[t].pc = "install"
      /\ names' = [names EXCEPT ![c][n] = Len(nodes[c]) + 1]
      /\ nodes' = [nodes EXCEPT ![c] = Append(@, x)] /\ th' = [th EXCEPT ![t] = r]
  BY Thread, BaseContents DEF Install, RequestOK, Node, PInv, IInv
<1>2. AroundStays /\ ServerStays /\ CountsStay /\ UNCHANGED tempMap
  BY DEF Install, AroundStays, ServerStays, CountsStay, server, closer, scan, history,
         bounds
<1>3. /\ r.pc = "getattr" /\ r.path = th[t].path /\ r.want = th[t].want
      /\ r.tmp = th[t].tmp /\ r.buf = <<NoFile, 0>>
  BY Thread DEF ThreadState, PInv
<1>4. th'[t] = r /\ Others(t)
  <2> HIDE DEF r
  <2> QED BY <1>1, NewRequest DEF PInv
<1>5. FileNext(c, n) = x /\ Elsewhere(c, n)
  <2> HIDE DEF c, n, x
  <2> QED BY <1>1, GrowFile
<1> HIDE DEF r
<1> QED BY <1>1, <1>2, <1>3, <1>4, <1>5

LEMMA GetattrEffect ==
  ASSUME IInv, NEW t \in Handles, NEW ok \in BOOLEAN, Getattr(t, ok)
  PROVE  /\ AroundStays /\ ServerStays /\ CountsStay /\ FilesStay /\ UNCHANGED tempMap
         /\ th[t].pc = "getattr"
         /\ Goes(t, "utimens") /\ th'[t].got = Mtime(th[t].path, ok)
         /\ MaxFailures = 0 => ok
<1>1. /\ AroundStays /\ ServerStays /\ CountsStay /\ UNCHANGED <<tempMap, disk>>
      /\ th[t].pc = "getattr" /\ (MaxFailures = 0 => ok)
  BY CallEffect DEF Getattr, AroundStays, ServerStays, CountsStay, server, closer, scan, history
<1>2. FilesStay BY <1>1, SameFiles
<1> DEFINE r == [th[t] EXCEPT !.pc = "utimens", !.got = Mtime(th[t].path, ok)]
<1>3. th' = [th EXCEPT ![t] = r] BY DEF Getattr
<1>4. /\ r.pc = "utimens" /\ r.path = th[t].path /\ r.want = th[t].want
      /\ r.buf = th[t].buf /\ r.tmp = th[t].tmp /\ r.fd = th[t].fd
      /\ r.got = Mtime(th[t].path, ok)
  BY Thread DEF ThreadState
<1> HIDE DEF r
<1>5. th'[t] = r /\ Others(t) BY <1>3, NewRequest
<1> QED BY <1>1, <1>2, <1>4, <1>5 DEF Goes, Steps

LEMMA UtimensEffect ==
  ASSUME SInv, NEW t \in Handles, Utimens(t)
  PROVE  LET c == ClientOf[t]
             n == Cached(th[t].path)
         IN
         /\ AroundStays /\ ServerStays /\ CountsStay /\ UNCHANGED tempMap
         /\ Has(c, n) => FileNext(c, n) = [data |-> File(c, n).data, mtime |-> th[t].got]
         /\ ~Has(c, n) => FileNext(c, n) = File(c, n)
         /\ Elsewhere(c, n)
         /\ th[t].pc = "utimens"
         /\ Goes(t, "copy") \/ Ends(t)
<1> DEFINE c == ClientOf[t]
           n == Cached(th[t].path)
<1>1. AroundStays /\ ServerStays /\ CountsStay /\ UNCHANGED <<tempMap, names>>
      /\ th[t].pc = "utimens"
  BY DEF Utimens, AroundStays, ServerStays, CountsStay, server, closer, scan, history,
         bounds
<1>2. c \in Clients /\ n \in Names BY <1>1, Thread DEF SInv, PInv
<1>3. Goes(t, "copy") \/ Ends(t)
  <2>1. th[t].want \in {"open", "getattr"}
    BY <1>1, Thread DEF SInv, PInv, RequestOK, Opening
  <2>2. Goto(t, "copy") \/ th' = [th EXCEPT ![t] = Idle] BY <2>1 DEF Utimens
  <2> QED BY <2>2, GotoGoes, IdleEnds DEF SInv, PInv, PCs
<1>4. CASE Has(c, n)
  <2>1. nodes' = [nodes EXCEPT ![c][names[c][n]].mtime = th[t].got]
    BY <1>4 DEF Utimens
  <2>2. FileNext(c, n) = [data |-> File(c, n).data, mtime |-> th[t].got] /\ Elsewhere(c, n)
    <3> HIDE DEF c, n
    <3> QED BY <1>1, <1>2, <1>4, <2>1, TouchFile DEF SInv
  <2> QED BY <1>1, <1>3, <1>4, <2>2
<1>5. CASE ~Has(c, n)
  <2>1. UNCHANGED disk BY <1>1, <1>5 DEF Utimens, disk
  <2>2. FilesStay BY <2>1, SameFiles
  <2> QED BY <1>1, <1>2, <1>3, <1>5, <2>2 DEF FilesStay, Elsewhere
<1> QED BY <1>4, <1>5

\* The name is in no use, so no other file is touched.
LEMMA CopyEffect ==
  ASSUME ~Collisions, PInv, NEW t \in Handles, NEW s \in Suffixes, Copy(t, s)
  PROVE  LET c == ClientOf[t]
             f == th[t].path
             n == Temp(f, s)
         IN
         /\ AroundStays /\ ServerStays /\ CountsStay /\ UNCHANGED tempMap
         /\ ~InUse(c, n) /\ Elsewhere(c, n)
         /\ IF Has(c, Cached(f))
            THEN FileNext(c, n) = [data |-> File(c, Cached(f)).data, mtime |-> Local(c)]
            ELSE FileNext(c, n) = Absent
         /\ th[t].pc = "copy"
         /\ Others(t) /\ th'[t].pc = "stamp" /\ th'[t].path = f
         /\ th'[t].want = th[t].want /\ th'[t].buf = th[t].buf /\ th'[t].tmp = n
<1> DEFINE c == ClientOf[t]
           f == th[t].path
           n == Temp(f, s)
           x == [data |-> File(c, Cached(f)).data, mtime |-> Local(c)]
           r == [th[t] EXCEPT !.pc = "stamp", !.tmp = n]
<1>1. /\ c \in Clients /\ f \in Files /\ n \in Names /\ Cached(f) \in Names
      /\ th[t].pc = "copy" /\ th' = [th EXCEPT ![t] = r] /\ ~InUse(c, n)
  BY Thread, NameTypes DEF Copy, PInv
<1>2. AroundStays /\ ServerStays /\ CountsStay /\ UNCHANGED tempMap
  BY DEF Copy, AroundStays, ServerStays, CountsStay, server, closer, scan, history,
         bounds
<1>3. /\ r.pc = "stamp" /\ r.path = f /\ r.want = th[t].want /\ r.buf = th[t].buf
      /\ r.tmp = n
  BY Thread DEF ThreadState, PInv
<1>4. th'[t] = r /\ Others(t)
  <2> HIDE DEF r
  <2> QED BY <1>1, NewRequest DEF PInv
<1>5. ~Has(c, n) BY <1>1 DEF InUse
<1>6. CASE Has(c, Cached(f))
  <2>1. /\ names' = [names EXCEPT ![c][n] = Len(nodes[c]) + 1]
        /\ nodes' = [nodes EXCEPT ![c] = Append(@, x)]
    BY <1>5, <1>6 DEF Copy, File
  <2>2. x \in Node
    <3>1. File(c, Cached(f)).data \in Contents BY <1>1, <1>6, FileFacts DEF PInv
    <3> QED BY <1>1, <3>1, BaseContents DEF Node, PInv, IInv
  <2>3. FileNext(c, n) = x /\ Elsewhere(c, n)
    <3> HIDE DEF c, n, x
    <3> QED BY <1>1, <2>1, <2>2, GrowFile
  <2> HIDE DEF r
  <2> QED BY <1>1, <1>2, <1>3, <1>4, <1>6, <2>3
<1>7. CASE ~Has(c, Cached(f))
  <2>1. UNCHANGED disk BY <1>7 DEF Copy
  <2>2. FilesStay BY <2>1, SameFiles
  <2>3. FileNext(c, n) = Absent BY <1>1, <1>5, <2>2 DEF FilesStay, File
  <2>4. Elsewhere(c, n) BY <2>2 DEF FilesStay, Elsewhere
  <2> HIDE DEF r, n
  <2> QED BY <1>1, <1>2, <1>3, <1>4, <1>7, <2>3, <2>4 DEF n
<1> QED BY <1>6, <1>7

LEMMA StampEffect ==
  ASSUME PInv, NEW t \in Handles, Stamp(t)
  PROVE  LET c == ClientOf[t]
             n == th[t].tmp
             f == th[t].path
         IN
         /\ AroundStays /\ ServerStays /\ CountsStay
         /\ th[t].pc = "stamp" /\ c \in Clients /\ n \in TempNames /\ n \in Names
         /\ \/ FilesStay /\ UNCHANGED tempMap /\ Ends(t)
            \/ /\ Has(c, Cached(f)) /\ Has(c, n)
               /\ FileNext(c, n) = [data |-> File(c, n).data,
                                    mtime |-> File(c, Cached(f)).mtime]
               /\ Elsewhere(c, n)
               /\ Others(t) /\ th'[t].pc = "open" /\ th'[t].path = f
               /\ th'[t].want = th[t].want /\ th'[t].buf = th[t].buf /\ th'[t].tmp = n
               /\ tempMap'[c][th'[t].fd] = n
               /\ \A d \in Fds : tempMap'[c][d] \in {tempMap[c][d], n}
               /\ \A d \in Clients \ {c} : tempMap'[d] = tempMap[d]
<1> DEFINE c == ClientOf[t]
           n == th[t].tmp
           f == th[t].path
<1>1. /\ AroundStays /\ ServerStays /\ CountsStay /\ UNCHANGED names
      /\ th[t].pc = "stamp" /\ c \in Clients /\ n \in TempNames /\ n \in Names
      /\ Cached(f) \in Names
  BY Thread, NameTypes
  DEF Stamp, AroundStays, ServerStays, CountsStay, server, closer, scan, history, bounds,
      RequestOK, PInv
<1>2. CASE Has(c, Cached(f)) /\ Has(c, n)
  <2>1. PICK d \in Fds :
          /\ nodes' = [nodes EXCEPT ![c][names[c][n]].mtime = At(c, Cached(f)).mtime]
          /\ tempMap' = [tempMap EXCEPT ![c][d] = n]
          /\ th' = [th EXCEPT ![t].pc = "open", ![t].fd = d, ![t].ino = names[c][n]]
    BY <1>2 DEF Stamp
  <2> DEFINE r == [th[t] EXCEPT !.pc = "open", !.fd = d, !.ino = names[c][n]]
  <2>2. /\ r.pc = "open" /\ r.path = f /\ r.want = th[t].want /\ r.buf = th[t].buf
        /\ r.tmp = n /\ r.fd = d
    BY Thread DEF ThreadState, PInv
  <2>3. th' = [th EXCEPT ![t] = r] BY <2>1
  <2> HIDE DEF r
  <2>4. th'[t] = r /\ Others(t) BY <2>3, NewRequest DEF PInv
  <2>5. /\ tempMap'[c][d] = n /\ \A e \in Clients \ {c} : tempMap'[e] = tempMap[e]
        /\ \A e \in Fds : tempMap'[c][e] \in {tempMap[c][e], n}
    <3> HIDE DEF c, n
    <3> QED BY <1>1, <2>1 DEF PInv, IInv, TypeOK
  <2>6. /\ FileNext(c, n) = [data |-> File(c, n).data, mtime |-> At(c, Cached(f)).mtime]
        /\ Elsewhere(c, n)
    <3> DEFINE k == At(c, Cached(f)).mtime
    <3>1. nodes' = [nodes EXCEPT ![c][names[c][n]].mtime = k] BY <2>1
    <3> HIDE DEF c, n, k
    <3>2. FileNext(c, n) = [data |-> File(c, n).data, mtime |-> k] /\ Elsewhere(c, n)
      BY <1>1, <1>2, <3>1, TouchFile
    <3> QED BY <3>2 DEF k
  <2>7. At(c, Cached(f)) = File(c, Cached(f)) BY <1>2 DEF File
  <2> QED BY <1>1, <1>2, <2>2, <2>4, <2>5, <2>6, <2>7
<1>3. CASE ~(Has(c, Cached(f)) /\ Has(c, n))
  <2>1. UNCHANGED <<disk, tempMap>> /\ th' = [th EXCEPT ![t] = Idle]
    BY <1>1, <1>3 DEF Stamp, disk
  <2> QED BY <1>1, <2>1, SameFiles, IdleEnds DEF PInv
<1> QED BY <1>2, <1>3

\* A request of client_open at its file.
LEMMA HandleFile ==
  ASSUME SInv, NEW t \in Handles, th[t].pc \in {"open", "mark", "drop"}
  PROVE  LET c == ClientOf[t]
             n == th[t].tmp
         IN
         /\ c \in Clients /\ n \in TempNames /\ n \in Names /\ Recover(n) \in Names
         /\ th[t].path \in Files /\ th[t].fd \in Fds
         /\ Has(c, n) /\ names[c][n] = th[t].ino
         /\ nodes[c][th[t].ino] = File(c, n)
         /\ tempMap[c][th[t].fd] \in {NoName, n}
         /\ Unshared(t)
<1>1. Holds(t) BY DEF Holds, SInv, Opening
<1>2. th[t].ino # NoNode /\ th[t].path \in Files
  BY Thread DEF RequestOK, SInv, PInv
<1>3. /\ ClientOf[t] \in Clients /\ th[t].tmp \in TempNames /\ th[t].tmp \in Names
      /\ Recover(th[t].tmp) \in Names /\ th[t].fd \in Fds
      /\ OwnName(t) /\ OwnEntry(t) /\ Unshared(t)
  BY <1>1, Holder DEF SInv
<1>4. names[ClientOf[t]][th[t].tmp] = th[t].ino BY <1>3 DEF OwnName, Inode
<1>5. tempMap[ClientOf[t]][th[t].fd] \in {NoName, th[t].tmp} BY <1>3 DEF OwnEntry
<1> QED BY <1>2, <1>3, <1>4, <1>5 DEF Has, File, At

-----------------------------------------------------------------------------
(* client_write and client_release.                                        *)

LEMMA WriteEffect ==
  ASSUME SInv, NEW t \in Handles, Write(t)
  PROVE  LET c == ClientOf[t]
             n == th[t].tmp
             x == <<th[t].path, writes + 1>>
         IN
         /\ AroundStays /\ UNCHANGED <<srv, log, since, tempMap, marked, acked, closed>>
         /\ clock' = clock + 1 /\ writes' = writes + 1
         /\ FileNext(c, n) = [data |-> x, mtime |-> Local(c)] /\ Elsewhere(c, n)
         /\ th[t].pc = "open"
         /\ Others(t) /\ th'[t].pc = "open" /\ th'[t].path = th[t].path
         /\ th'[t].want = th[t].want /\ th'[t].tmp = n /\ th'[t].fd = th[t].fd
         /\ th'[t].buf = x
<1> DEFINE c == ClientOf[t]
           n == th[t].tmp
           x == <<th[t].path, writes + 1>>
           y == [data |-> x, mtime |-> Local(c)]
           r == [th[t] EXCEPT !.buf = x]
<1>1. /\ AroundStays
      /\ UNCHANGED <<srv, log, since, names, tempMap, marked, acked, closed>>
      /\ clock' = clock + 1 /\ writes' = writes + 1 /\ th[t].pc = "open"
  BY DEF Write, AroundStays, closer, scan, history
<1>2. /\ r.pc = "open" /\ r.path = th[t].path /\ r.want = th[t].want
      /\ r.tmp = n /\ r.fd = th[t].fd /\ r.buf = x
  BY <1>1, Thread DEF ThreadState, SInv, PInv
<1>3. th' = [th EXCEPT ![t] = r] BY DEF Write
<1> HIDE DEF r
<1>4. th'[t] = r /\ Others(t) BY <1>3, NewRequest DEF SInv, PInv
<1>5. c \in Clients /\ n \in Names /\ Has(c, n) /\ names[c][n] = th[t].ino
  BY <1>1, HandleFile
<1>6. nodes' = [nodes EXCEPT ![c][names[c][n]] = y] BY <1>5 DEF Write
<1>7. FileNext(c, n) = y /\ Elsewhere(c, n)
  <2> HIDE DEF c, n, y
  <2> QED BY <1>1, <1>5, <1>6, SetFile DEF SInv
<1> QED BY <1>1, <1>2, <1>4, <1>7

LEMMA ReleaseEffect ==
  ASSUME SInv, NEW t \in Handles, NEW ok \in BOOLEAN, Release(t, ok)
  PROVE  LET f == th[t].path
             n == th[t].tmp
         IN
         /\ AroundStays /\ ServerStays /\ CountsStay /\ FilesStay /\ UNCHANGED tempMap
         /\ th[t].pc = "open" /\ (MaxFailures = 0 => ok)
         /\ \/ Goes(t, "mark")
            \/ /\ Goes(t, "drop") /\ (~ok \/ OnServer(f))
               /\ Nsec(File(ClientOf[t], n).mtime) = Nsec(Mtime(f, ok))
<1>1. /\ AroundStays /\ ServerStays /\ CountsStay /\ UNCHANGED <<tempMap, disk>>
      /\ th[t].pc = "open" /\ (MaxFailures = 0 => ok)
  BY CallEffect
  DEF Release, AroundStays, ServerStays, CountsStay, server, closer, scan, SInv, PInv
<1>2. FilesStay BY <1>1, SameFiles
<1>3. nodes[ClientOf[t]][th[t].ino] = File(ClientOf[t], th[t].tmp) BY <1>1, HandleFile
<1>4. CASE Modified(t, ok)
  <2>1. Goto(t, "mark") BY <1>4 DEF Release
  <2> QED BY <1>1, <1>2, <2>1, GotoGoes DEF PCs, SInv, PInv
<1>5. CASE ~Modified(t, ok)
  <2>1. Goto(t, "drop") BY <1>5 DEF Release
  <2>2. /\ ~ok \/ OnServer(th[t].path)
        /\ Nsec(File(ClientOf[t], th[t].tmp).mtime) = Nsec(Mtime(th[t].path, ok))
    BY <1>3, <1>5 DEF Modified
  <2> QED BY <1>1, <1>2, <2>1, <2>2, GotoGoes DEF PCs, SInv, PInv
<1> QED BY <1>4, <1>5

LEMMA DropEffect ==
  ASSUME IInv, NEW t \in Handles, Drop(t)
  PROVE  /\ AroundStays /\ ServerStays /\ FilesStay
         /\ UNCHANGED <<tempMap, marked, closed, writes>>
         /\ th[t].pc = "drop" /\ Ends(t) /\ acked' = acked \cup Own(t)
<1>1. /\ AroundStays /\ ServerStays
      /\ UNCHANGED <<tempMap, disk, marked, closed, writes>>
      /\ th[t].pc = "drop" /\ th' = [th EXCEPT ![t] = Idle]
      /\ acked' = acked \cup Own(t)
  BY DEF Drop, Finish, AroundStays, ServerStays, server, closer, scan, bounds
<1> QED BY <1>1, SameFiles, IdleEnds

LEMMA MarkEffect ==
  ASSUME SInv, NEW t \in Handles, Mark(t)
  PROVE  LET c == ClientOf[t]
             n == th[t].tmp
             x == File(c, n).data
         IN
         /\ AroundStays /\ ServerStays /\ UNCHANGED <<tempMap, acked, writes>>
         /\ th[t].pc = "mark" /\ Goes(t, "close")
         /\ \/ tempMap[c][th[t].fd] = NoName /\ FilesStay
               /\ UNCHANGED <<marked, closed>>
            \/ /\ tempMap[c][th[t].fd] = n
               /\ FileNext(c, Recover(n)) = File(c, n) /\ FileNext(c, n) = Absent
               /\ \A d \in Clients, k \in Names :
                    d # c \/ (k # n /\ k # Recover(n)) => FileNext(d, k) = File(d, k)
               /\ marked' = IF Written(x) THEN marked \cup {x} ELSE marked
               /\ closed' = [closed EXCEPT ![c][n[2]] = x]
<1> DEFINE c == ClientOf[t]
           n == th[t].tmp
           x == File(c, n).data
<1>1. /\ AroundStays /\ ServerStays /\ UNCHANGED <<nodes, tempMap, acked, writes>>
      /\ th[t].pc = "mark"
  BY DEF Mark, AroundStays, ServerStays, server, closer, scan, bounds
<1>2. /\ c \in Clients /\ n \in TempNames /\ n \in Names /\ Recover(n) \in Names
      /\ Has(c, n) /\ tempMap[c][th[t].fd] \in {NoName, n} /\ n # NoName
  BY <1>1, HandleFile, NameTypes
<1>3. CASE tempMap[c][th[t].fd] = NoName
  <2>1. Goto(t, "close") /\ UNCHANGED <<disk, marked, closed>>
    BY <1>1, <1>3 DEF Mark, disk
  <2> QED BY <1>1, <1>3, <2>1, SameFiles, GotoGoes DEF PCs, SInv, PInv
<1>4. CASE tempMap[c][th[t].fd] = n
  <2> DEFINE r == [th[t] EXCEPT !.pc = "close", !.tmp = n]
  <2>1. /\ names' = Move(c, n, Recover(n)) /\ th' = [th EXCEPT ![t] = r]
        /\ marked' = IF Has(c, n) /\ Written(At(c, n).data)
                     THEN marked \cup {At(c, n).data} ELSE marked
        /\ closed' = [closed EXCEPT ![c][n[2]] = At(c, n).data]
    BY <1>2, <1>4 DEF Mark
  <2>2. /\ r.pc = "close" /\ r.path = th[t].path /\ r.want = th[t].want
        /\ r.buf = th[t].buf /\ r.tmp = n /\ r.fd = th[t].fd
    BY Thread DEF ThreadState, SInv, PInv
  <2> HIDE DEF r
  <2>3. th'[t] = r /\ Others(t) BY <2>1, NewRequest DEF SInv, PInv
  <2>4. Goes(t, "close") BY <2>2, <2>3 DEF Goes, Steps
  <2>5. /\ marked' = IF Written(x) THEN marked \cup {x} ELSE marked
        /\ closed' = [closed EXCEPT ![c][n[2]] = x]
    BY <1>2, <2>1 DEF File
  <2>6. n # Recover(n) BY <1>2, NameKinds
  <2>7. /\ FileNext(c, Recover(n)) = File(c, n) /\ FileNext(c, n) = Absent
        /\ \A d \in Clients, k \in Names :
             d # c \/ (k # n /\ k # Recover(n)) => FileNext(d, k) = File(d, k)
    <3> DEFINE m == Recover(n)
    <3>1. names' = Move(c, n, m) /\ m \in Names /\ n # m BY <1>2, <2>1, <2>6
    <3> HIDE DEF c, n, m
    <3>2. /\ FileNext(c, m) = File(c, n) /\ FileNext(c, n) = Absent
          /\ \A d \in Clients, k \in Names :
               d # c \/ (k # n /\ k # m) => FileNext(d, k) = File(d, k)
      BY <1>1, <1>2, <3>1, MoveFile DEF SInv
    <3> QED BY <3>2 DEF m
  <2> QED BY <1>1, <1>4, <2>4, <2>5, <2>7
<1> QED BY <1>2, <1>3, <1>4

LEMMA CloseEffect ==
  ASSUME IInv, NEW t \in Handles, Close(t)
  PROVE  /\ AroundStays /\ ServerStays /\ CountsStay /\ FilesStay /\ UNCHANGED tempMap
         /\ th[t].pc = "close"
         /\ \E pc \in IF tempMap[ClientOf[t]][th[t].fd] # NoName
                     THEN {"send", "swap"} ELSE {"sendPath", "submit"} :
              /\ Steps(t, pc)
              /\ Large = {} => pc \in {"send", "sendPath"} /\ Goes(t, pc)
<1>1. /\ AroundStays /\ ServerStays /\ CountsStay /\ UNCHANGED <<tempMap, disk>>
      /\ th[t].pc = "close"
  BY DEF Close, AroundStays, ServerStays, CountsStay, server, closer, scan, history, bounds
<1>2. FilesStay BY <1>1, SameFiles
<1> DEFINE isTemp == tempMap[ClientOf[t]][th[t].fd] # NoName
           large == th[t].path \in Large /\ Has(ClientOf[t], Cached(th[t].path))
           pc == IF isTemp THEN (IF large THEN "swap" ELSE "send")
                 ELSE (IF large THEN "submit" ELSE "sendPath")
           want == IF large THEN "submit" ELSE th[t].want
           r == [th[t] EXCEPT !.pc = pc, !.ino = NoNode, !.want = want]
<1>3. th' = [th EXCEPT ![t] = r] BY DEF Close
<1>4. /\ Large = {} => want = th[t].want /\ pc \in {"send", "sendPath"}
      /\ pc \in IF isTemp THEN {"send", "swap"} ELSE {"sendPath", "submit"}
  OBVIOUS
<1> HIDE DEF pc, want
<1>5. /\ r.pc = pc /\ r.path = th[t].path /\ r.want = want
      /\ r.buf = th[t].buf /\ r.tmp = th[t].tmp /\ r.fd = th[t].fd
  BY Thread DEF ThreadState
<1> HIDE DEF r
<1>6. th'[t] = r /\ Others(t) BY <1>3, NewRequest
<1>7. Steps(t, pc) /\ (Large = {} => Goes(t, pc)) BY <1>4, <1>5, <1>6 DEF Goes, Steps
<1> QED BY <1>1, <1>2, <1>4, <1>7

LEMMA SendEffect ==
  ASSUME IInv, NEW t \in Handles, NEW ok \in BOOLEAN, Send(t, ok)
  PROVE  LET c == ClientOf[t]
             n == th[t].tmp
         IN
         /\ AroundStays /\ CountsStay /\ FilesStay /\ UNCHANGED tempMap
         /\ th[t].pc = "send" /\ Goes(t, "swap")
         /\ (MaxFailures = 0 => ok) /\ (failures' = failures => ok)
         /\ c \in Clients /\ n \in TempNames /\ Recover(n) \in Names
         /\ IF ok /\ n[2] \notin Nested /\ Has(c, Recover(n))
            THEN Serves(n[2], File(c, Recover(n)).data) ELSE ServerStays
<1> DEFINE c == ClientOf[t]
           n == th[t].tmp
<1>1. /\ th[t].pc = "send" /\ c \in Clients /\ n \in TempNames /\ n[2] \in Files
      /\ Recover(n) \in Names
  BY Thread, NameTypes DEF Send, RequestOK
<1>2. /\ CountsStay /\ (MaxFailures = 0 => ok) /\ (failures' = failures => ok)
      /\ AroundStays /\ UNCHANGED <<disk, tempMap>>
  BY <1>1, CallEffect, PutEffect
  DEF Send, AroundStays, CountsStay, closer, scan, history
<1>3. Goes(t, "swap") BY GotoGoes DEF Send, PCs
<1>4. CASE n[2] \in Nested
  <2>1. ServerStays BY <1>4 DEF Send, server, ServerStays
  <2> QED BY <1>1, <1>2, <1>3, <1>4, <2>1, SameFiles
<1>5. CASE n[2] \notin Nested
  <2>1. Put(c, Recover(n), n[2], ok) BY <1>5 DEF Send
  <2>2. IF ok /\ Has(c, Recover(n))
        THEN Serves(n[2], File(c, Recover(n)).data) ELSE ServerStays
    BY <1>1, <2>1, PutEffect
  <2> QED BY <1>1, <1>2, <1>3, <1>5, <2>2, SameFiles
<1> QED BY <1>4, <1>5

LEMMA SwapEffect ==
  ASSUME PInv, NEW t \in Handles, Swap(t)
  PROVE  LET c == ClientOf[t]
             m == Recover(th[t].tmp)
             n == Cached(th[t].path)
         IN
         /\ AroundStays /\ ServerStays /\ CountsStay /\ UNCHANGED tempMap
         /\ th[t].pc = "swap" /\ Goes(t, "erase")
         /\ c \in Clients /\ th[t].tmp \in TempNames /\ m \in Names /\ n \in Names
         /\ Has(c, m) => FileNext(c, n) = File(c, m)
         /\ ~Has(c, m) => FileNext(c, n) = File(c, n)
         /\ FileNext(c, m) = Absent
         /\ \A d \in Clients, k \in Names :
              d # c \/ (k # m /\ k # n) => FileNext(d, k) = File(d, k)
<1> DEFINE c == ClientOf[t]
           m == Recover(th[t].tmp)
           n == Cached(th[t].path)
<1>1. /\ AroundStays /\ ServerStays /\ CountsStay /\ UNCHANGED <<nodes, tempMap>>
      /\ th[t].pc = "swap"
  BY DEF Swap, AroundStays, ServerStays, CountsStay, server, closer, scan, history, bounds
<1>2. Goes(t, "erase") BY GotoGoes DEF Swap, PCs, PInv
<1>3. c \in Clients /\ th[t].tmp \in TempNames /\ m \in Names /\ n \in Names
  BY <1>1, Thread, NameTypes DEF RequestOK, PInv
<1>4. m # n BY <1>3, NameKinds
<1>5. names' = Move(c, m, n) BY DEF Swap
<1>6. /\ Has(c, m) => FileNext(c, n) = File(c, m)
      /\ ~Has(c, m) => FileNext(c, n) = File(c, n)
      /\ FileNext(c, m) = Absent
      /\ \A d \in Clients, k \in Names :
           d # c \/ (k # m /\ k # n) => FileNext(d, k) = File(d, k)
  <2> HIDE DEF c, m, n
  <2> QED BY <1>1, <1>3, <1>4, <1>5, MoveFile
<1> QED BY <1>1, <1>2, <1>3, <1>6

LEMMA EraseEffect ==
  ASSUME IInv, NEW t \in Handles, Erase(t)
  PROVE  /\ AroundStays /\ ServerStays /\ FilesStay
         /\ UNCHANGED <<marked, closed, writes>>
         /\ th[t].pc = "erase"
         /\ tempMap' = [tempMap EXCEPT ![ClientOf[t]][th[t].fd] = NoName]
         /\ \A d \in Clients \ {ClientOf[t]} : tempMap'[d] = tempMap[d]
         /\ \/ th[t].want = "submit" /\ Goes(t, "submit") /\ UNCHANGED acked
            \/ Ends(t) /\ acked' = acked \cup Own(t)
<1>1. /\ AroundStays /\ ServerStays /\ UNCHANGED <<disk, marked, closed, writes>>
      /\ th[t].pc = "erase"
      /\ tempMap' = [tempMap EXCEPT ![ClientOf[t]][th[t].fd] = NoName]
      /\ \A d \in Clients \ {ClientOf[t]} : tempMap'[d] = tempMap[d]
  BY DEF Erase, Finish, AroundStays, ServerStays, server, closer, scan, history, bounds,
         IInv, TypeOK
<1>2. \/ th[t].want = "submit" /\ Goto(t, "submit") /\ UNCHANGED acked
      \/ th' = [th EXCEPT ![t] = Idle] /\ acked' = acked \cup Own(t)
  BY DEF Erase, Finish, history
<1> QED BY <1>1, <1>2, SameFiles, GotoGoes, IdleEnds DEF PCs

LEMMA SubmitEffect ==
  ASSUME IInv, NEW t \in Handles, Submit(t)
  PROVE  /\ UNCHANGED <<sending, mode, rescued, crashes, tempMap, marked, closed, writes>>
         /\ ServerStays /\ FilesStay /\ th[t].pc = "submit" /\ Ends(t)
<1>1. /\ UNCHANGED <<sending, mode, rescued, crashes, tempMap, marked, closed, writes, disk>>
      /\ ServerStays /\ th[t].pc = "submit" /\ th' = [th EXCEPT ![t] = Idle]
  BY DEF Submit, Finish, ServerStays, server, scan, bounds
<1> QED BY <1>1, SameFiles, IdleEnds

LEMMA SendPathEffect ==
  ASSUME IInv, NEW t \in Handles, NEW ok \in BOOLEAN, SendPath(t, ok)
  PROVE  /\ AroundStays /\ FilesStay /\ UNCHANGED <<tempMap, marked, closed, writes>>
         /\ th[t].pc = "sendPath" /\ Ends(t) /\ th[t].path \in Files
         /\ \/ ServerStays
            \/ Serves(th[t].path, File(ClientOf[t], Cached(th[t].path)).data)
<1>1. /\ th[t].pc = "sendPath" /\ ClientOf[t] \in Clients /\ th[t].path \in Files
      /\ Cached(th[t].path) \in Names
  BY Thread DEF SendPath
<1>2. Put(ClientOf[t], Cached(th[t].path), th[t].path, ok) BY DEF SendPath
<1>3. /\ UNCHANGED <<writes, crashes>>
      /\ \/ ServerStays
         \/ Serves(th[t].path, File(ClientOf[t], Cached(th[t].path)).data)
  BY <1>1, <1>2, PutEffect
<1>4. /\ AroundStays /\ UNCHANGED <<disk, tempMap, marked, closed>>
      /\ th' = [th EXCEPT ![t] = Idle]
  BY <1>3 DEF SendPath, Finish, AroundStays, closer, scan
<1> QED BY <1>1, <1>3, <1>4, SameFiles, IdleEnds

-----------------------------------------------------------------------------
(* The close thread, crashes and the recovery scan.                        *)

LEMMA CloserEffect ==
  ASSUME IInv, NEW c \in Clients, CloserStep(c)
  PROVE  /\ FilesStay
         /\ UNCHANGED <<tempMap, mode, rescued, th, marked, acked, closed, writes, crashes>>
         /\ queue[c] # <<>> \/ sending[c] # NoFile
         /\ \/ ServerStays
            \/ /\ sending[c] \in Files /\ Has(c, Cached(sending[c]))
               /\ Serves(sending[c], File(c, Cached(sending[c])).data)
<1>1. CASE Dequeue(c)
  <2>1. /\ UNCHANGED <<tempMap, mode, rescued, th, marked, acked, closed, writes, crashes>>
        /\ UNCHANGED disk
        /\ ServerStays /\ queue[c] # <<>>
    BY <1>1 DEF Dequeue, ServerStays, server, scan, history, bounds
  <2> QED BY <2>1, SameFiles
<1>2. ASSUME NEW ok \in BOOLEAN, CloseOnServer(c, ok)
      PROVE  /\ FilesStay
             /\ UNCHANGED <<tempMap, mode, rescued, th, marked, acked, closed, writes, crashes>>
             /\ sending[c] # NoFile
             /\ \/ ServerStays
                \/ /\ sending[c] \in Files /\ Has(c, Cached(sending[c]))
                   /\ Serves(sending[c], File(c, Cached(sending[c])).data)
  <2>1. sending[c] # NoFile /\ sending[c] \in Files /\ Cached(sending[c]) \in Names
    BY <1>2, NameTypes DEF CloseOnServer, IInv, TypeOK
  <2>2. Put(c, Cached(sending[c]), sending[c], ok) BY <1>2 DEF CloseOnServer
  <2>3. /\ UNCHANGED <<writes, crashes>>
        /\ \/ ServerStays
           \/ /\ Has(c, Cached(sending[c]))
              /\ Serves(sending[c], File(c, Cached(sending[c])).data)
    BY <2>1, <2>2, PutEffect
  <2>4. UNCHANGED <<tempMap, mode, rescued, th, marked, acked, closed, disk>>
    BY <1>2 DEF CloseOnServer, scan, history
  <2> QED BY <2>1, <2>3, <2>4, SameFiles
<1> QED BY <1>1, <1>2 DEF CloserStep

LEMMA CrashEffect ==
  ASSUME IInv, NEW c \in Clients, Crash(c)
  PROVE  /\ FilesStay /\ ServerStays /\ CountsStay
         /\ mode[c] # "down" /\ mode'[c] = "down" /\ rescued'[c] = NoFile
         /\ queue'[c] = <<>> /\ sending'[c] = NoFile
         /\ \A d \in Clients \ {c} : /\ mode'[d] = mode[d] /\ rescued'[d] = rescued[d]
                                     /\ tempMap'[d] = tempMap[d]
                                     /\ queue'[d] = queue[d] /\ sending'[d] = sending[d]
         /\ crashes < MaxCrashes /\ crashes' = crashes + 1
         /\ \A t \in Handles : th'[t] = IF ClientOf[t] = c THEN Idle ELSE th[t]
<1>1. ServerStays /\ CountsStay /\ UNCHANGED disk
  BY DEF Crash, ServerStays, CountsStay, server, history
<1>2. /\ mode[c] # "down" /\ mode'[c] = "down" /\ rescued'[c] = NoFile
      /\ queue'[c] = <<>> /\ sending'[c] = NoFile
      /\ crashes < MaxCrashes /\ crashes' = crashes + 1
      /\ \A t \in Handles : th'[t] = IF ClientOf[t] = c THEN Idle ELSE th[t]
  BY DEF Crash, IInv, TypeOK
<1>3. ASSUME NEW d \in Clients \ {c}
      PROVE  /\ mode'[d] = mode[d] /\ rescued'[d] = rescued[d]
             /\ tempMap'[d] = tempMap[d]
             /\ queue'[d] = queue[d] /\ sending'[d] = sending[d]
  BY DEF Crash, IInv, TypeOK
<1> QED BY <1>1, <1>2, <1>3, SameFiles

LEMMA RestartEffect ==
  ASSUME IInv, NEW c \in Clients, Restart(c)
  PROVE  /\ FilesStay /\ ServerStays /\ CountsStay
         /\ UNCHANGED <<tempMap, queue, sending, rescued, th, crashes>>
         /\ mode[c] = "down" /\ mode' = [mode EXCEPT ![c] = "recovering"]
<1>1. /\ ServerStays /\ CountsStay
      /\ UNCHANGED <<disk, tempMap, queue, sending, rescued, th, crashes>>
      /\ mode[c] = "down" /\ mode' = [mode EXCEPT ![c] = "recovering"]
  BY DEF Restart, ServerStays, CountsStay, server, closer, history, bounds
<1> QED BY <1>1, SameFiles

LEMMA RecoverRenameEffect ==
  ASSUME PInv, NEW c \in Clients, NEW m \in RecoverNames, RecoverRename(c, m)
  PROVE  LET n == Cached(m[2]) IN
         /\ ServerStays /\ CountsStay
         /\ UNCHANGED <<tempMap, queue, sending, mode, th, crashes>>
         /\ mode[c] = "recovering" /\ rescued[c] = NoFile
         /\ rescued' = [rescued EXCEPT ![c] = m[2]]
         /\ m \in Names /\ m[2] \in Files /\ n \in Names /\ m # n /\ Has(c, m)
         /\ FileNext(c, n) = File(c, m) /\ FileNext(c, m) = Absent
         /\ \A d \in Clients, k \in Names :
              d # c \/ (k # m /\ k # n) => FileNext(d, k) = File(d, k)
<1> DEFINE n == Cached(m[2])
<1>1. /\ ServerStays /\ CountsStay
      /\ UNCHANGED <<nodes, tempMap, queue, sending, mode, th, crashes>>
      /\ mode[c] = "recovering" /\ rescued[c] = NoFile
      /\ rescued' = [rescued EXCEPT ![c] = m[2]]
      /\ Has(c, m) /\ names' = Move(c, m, n)
  BY DEF RecoverRename, ServerStays, CountsStay, server, closer, history, bounds
<1>2. m \in Names /\ m[2] \in Files /\ n \in Names BY NameTypes
<1>3. m # n BY DEF RecoverNames, Cached
<1>4. /\ FileNext(c, n) = File(c, m) /\ FileNext(c, m) = Absent
      /\ \A d \in Clients, k \in Names :
           d # c \/ (k # m /\ k # n) => FileNext(d, k) = File(d, k)
  BY <1>1, <1>2, <1>3, MoveFile
<1> QED BY <1>1, <1>2, <1>3, <1>4

LEMMA RecoverSendEffect ==
  ASSUME IInv, NEW c \in Clients, NEW intact \in BOOLEAN, NEW ok \in BOOLEAN,
         RecoverSend(c, intact, ok)
  PROVE  LET f == rescued[c] IN
         /\ FilesStay /\ CountsStay /\ UNCHANGED <<tempMap, queue, sending, mode, th, crashes>>
         /\ f \in Files /\ Cached(f) \in Names /\ rescued' = [rescued EXCEPT ![c] = NoFile]
         /\ (MaxFailures = 0 => ok) /\ (failures' = failures => ok)
         /\ IF ok /\ intact /\ f \notin Nested /\ Has(c, Cached(f))
            THEN Serves(f, File(c, Cached(f)).data) ELSE ServerStays
<1> DEFINE f == rescued[c]
<1>1. f \in Files /\ Cached(f) \in Names BY NameTypes DEF RecoverSend, IInv, TypeOK
<1>2. /\ UNCHANGED <<writes, crashes>>
      /\ (MaxFailures = 0 => ok) /\ (failures' = failures => ok)
  BY <1>1, CallEffect, PutEffect DEF RecoverSend
<1>3. /\ CountsStay /\ UNCHANGED <<disk, tempMap, queue, sending, mode, th, crashes>>
      /\ rescued' = [rescued EXCEPT ![c] = NoFile]
  BY <1>2 DEF RecoverSend, CountsStay, closer, history
<1>4. FilesStay BY <1>3, SameFiles
<1>5. CASE intact /\ f \notin Nested
  <2>1. Put(c, Cached(f), f, ok) BY <1>5 DEF RecoverSend
  <2>2. IF ok /\ Has(c, Cached(f)) THEN Serves(f, File(c, Cached(f)).data)
        ELSE ServerStays
    BY <1>1, <2>1, PutEffect
  <2> QED BY <1>1, <1>2, <1>3, <1>4, <1>5, <2>2
<1>6. CASE ~(intact /\ f \notin Nested)
  <2>1. ServerStays BY <1>6 DEF RecoverSend, server, ServerStays
  <2> QED BY <1>1, <1>2, <1>3, <1>4, <1>6, <2>1
<1> QED BY <1>5, <1>6

LEMMA DiscardEffect ==
  ASSUME PInv, NEW c \in Clients, NEW n \in TempNames, DiscardTemp(c, n)
  PROVE  /\ AroundStays /\ ServerStays /\ CountsStay /\ UNCHANGED <<tempMap, th>>
         /\ mode[c] = "recovering" /\ FileNext(c, n) = Absent /\ Elsewhere(c, n)
<1>1. /\ AroundStays /\ ServerStays /\ CountsStay /\ UNCHANGED <<tempMap, th, nodes>>
      /\ mode[c] = "recovering" /\ names' = [names EXCEPT ![c][n] = NoNode]
  BY DEF DiscardTemp, AroundStays, ServerStays, CountsStay, server, closer, scan, history,
         bounds
<1>2. FileNext(c, n) = Absent /\ Elsewhere(c, n) BY <1>1, NameTypes, UnlinkFile
<1> QED BY <1>1, <1>2

LEMMA DoneEffect ==
  ASSUME IInv, NEW c \in Clients, RecoverDone(c)
  PROVE  /\ FilesStay /\ ServerStays /\ CountsStay
         /\ UNCHANGED <<tempMap, queue, sending, rescued, th, crashes>>
         /\ mode[c] = "recovering" /\ mode' = [mode EXCEPT ![c] = "up"]
         /\ rescued[c] = NoFile /\ \A n \in TempNames \cup RecoverNames : ~Has(c, n)
<1>1. /\ ServerStays /\ CountsStay
      /\ UNCHANGED <<disk, tempMap, queue, sending, rescued, th, crashes>>
      /\ mode[c] = "recovering" /\ mode' = [mode EXCEPT ![c] = "up"]
      /\ rescued[c] = NoFile /\ \A n \in TempNames \cup RecoverNames : ~Has(c, n)
  BY DEF RecoverDone, ServerStays, CountsStay, server, closer, history, bounds
<1> QED BY <1>1, SameFiles

\* Requests of client_create do not exist.
LEMMA NoCreate ==
  ASSUME SInv, NEW t \in Handles
  PROVE  ~CreateLocal(t) /\ \A ok \in BOOLEAN : ~CreateRemote(t, ok)
<1>1. th[t].pc \in {"create", "createLocal"} => th[t].want = "create"
  BY Thread DEF SInv, PInv, RequestOK
<1> QED BY <1>1 DEF SInv, Opening, CreateLocal, CreateRemote

-----------------------------------------------------------------------------
(* Contents are of the file under whose name they are.                     *)

NamedFor(x, f) == x.data[1] \in {NoFile, f}

FilesNamed == \A c \in Clients, n \in Names : NamedFor(File(c, n), n[2])
ServerNamed == \A f \in Files : NamedFor(srv[f], f)

PathOK(t) ==
  /\ th[t].tmp # NoName => th[t].tmp[2] = th[t].path
  /\ th[t].buf[1] \in {NoFile, th[t].path}

PathInv == FilesNamed /\ ServerNamed /\ \A t \in Handles : PathOK(t)

LEMMA SecondOfName ==
  /\ \A f : Cached(f)[2] = f
  /\ \A f, s : Temp(f, s)[2] = f
  /\ \A n : Recover(n)[2] = n[2]
BY DEF Cached, Temp, Recover

LEMMA NamedFiles ==
  ASSUME \A c \in Clients, n \in Names : NamedFor(FileNext(c, n), n[2])
  PROVE  FilesNamed'
<1>1. ASSUME NEW c \in Clients, NEW n \in Names PROVE NamedFor(File(c, n), n[2])'
  BY FileThen DEF NamedFor
<1> QED BY <1>1 DEF FilesNamed

LEMMA FilesStayNamed == ASSUME PathInv, FilesStay PROVE FilesNamed'
<1>1. \A c \in Clients, n \in Names : NamedFor(FileNext(c, n), n[2])
  BY DEF FilesStay, PathInv, FilesNamed, NamedFor
<1> QED BY <1>1, NamedFiles

LEMMA OneFileNamed ==
  ASSUME PathInv, NEW c, NEW n, Elsewhere(c, n), NamedFor(FileNext(c, n), n[2])
  PROVE  FilesNamed'
<1>1. ASSUME NEW d \in Clients, NEW m \in Names PROVE NamedFor(FileNext(d, m), m[2])
  BY DEF Elsewhere, PathInv, FilesNamed, NamedFor
<1> QED BY <1>1, NamedFiles

LEMMA MovedFileNamed ==
  ASSUME PathInv, NEW c \in Clients, NEW m \in Names, NEW n \in Names, n[2] = m[2],
         FileNext(c, n) \in {File(c, m), File(c, n)}, FileNext(c, m) = Absent,
         \A d \in Clients, k \in Names :
           d # c \/ (k # m /\ k # n) => FileNext(d, k) = File(d, k)
  PROVE  FilesNamed'
<1>1. NamedFor(Absent, m[2]) BY DEF NamedFor, Absent
<1>2. ASSUME NEW d \in Clients, NEW k \in Names PROVE NamedFor(FileNext(d, k), k[2])
  BY <1>1 DEF PathInv, FilesNamed, NamedFor
<1> QED BY <1>2, NamedFiles

LEMMA ServerStaysNamed == ASSUME PathInv, srv' = srv PROVE ServerNamed'
BY DEF PathInv, ServerNamed, NamedFor

LEMMA ServedNamed ==
  ASSUME PathInv, NEW f \in Files, NEW x, Serves(f, x), x[1] \in {NoFile, f}
  PROVE  ServerNamed'
<1>1. ASSUME NEW g \in Files PROVE NamedFor(srv[g], g)'
  <2>1. CASE g = f BY <2>1 DEF Serves, NamedFor
  <2>2. CASE g # f BY <2>2 DEF Serves, PathInv, ServerNamed, NamedFor
  <2> QED BY <2>1, <2>2
<1> QED BY <1>1 DEF ServerNamed

LEMMA PathStep ==
  ASSUME PathInv, NEW t \in Handles, Others(t), FilesNamed', ServerNamed', PathOK(t)'
  PROVE  PathInv'
<1>1. \A u \in Handles \ {t} : PathOK(u)' BY DEF PathInv, Others, PathOK
<1> QED BY <1>1 DEF PathInv

LEMMA GoesPath ==
  ASSUME PathInv, NEW t \in Handles, NEW pc, Steps(t, pc) \/ Ends(t),
         FilesNamed', ServerNamed'
  PROVE  PathInv'
<1>1. CASE Steps(t, pc)
  <2>1. PathOK(t)' BY <1>1 DEF PathInv, PathOK, Steps
  <2> QED BY <1>1, <2>1, PathStep DEF Steps
<1>2. CASE Ends(t)
  <2>1. PathOK(t)' BY <1>2 DEF PathOK, Ends
  <2> QED BY <1>2, <2>1, PathStep DEF Ends
<1> QED BY <1>1, <1>2

LEMMA LookupPath ==
  ASSUME IInv, PathInv, NEW t \in Handles, NEW f \in Files, NEW want \in {"open", "getattr"},
         Lookup(t, f, want)
  PROVE  PathInv'
<1>1. /\ ServerStays /\ FilesStay /\ Others(t)
      /\ th'[t].buf = <<NoFile, 0>> /\ th'[t].tmp = NoName
  BY LookupEffect
<1>2. PathOK(t)' BY <1>1 DEF PathOK
<1> QED BY <1>1, <1>2, PathStep, FilesStayNamed, ServerStaysNamed DEF ServerStays

LEMMA FetchPath ==
  ASSUME IInv, PathInv, NEW t \in Handles, NEW ok \in BOOLEAN, Fetch(t, ok)
  PROVE  PathInv'
<1>1. ServerStays /\ FilesStay /\ th[t].pc = "fetch" BY FetchEffect
<1>2. FilesNamed' /\ ServerNamed'
  BY <1>1, FilesStayNamed, ServerStaysNamed DEF ServerStays
<1>3. CASE Goes(t, "getattr") BY <1>2, <1>3, GoesPath DEF Goes
<1>4. CASE ~Goes(t, "getattr")
  <2>1. /\ Others(t) /\ th'[t].path = th[t].path /\ th'[t].tmp = th[t].tmp
        /\ th'[t].buf = srv[th[t].path].data
    BY <1>4, FetchEffect
  <2>2. th[t].path \in Files BY <1>1, Thread
  <2>3. PathOK(t)' BY <2>1, <2>2 DEF PathInv, PathOK, ServerNamed, NamedFor
  <2> QED BY <1>2, <2>1, <2>3, PathStep
<1> QED BY <1>3, <1>4

LEMMA InstallPath ==
  ASSUME PInv, PathInv, NEW t \in Handles, Install(t)
  PROVE  PathInv'
<1> DEFINE c == ClientOf[t]
           n == Cached(th[t].path)
<1>1. /\ ServerStays /\ Others(t) /\ Elsewhere(c, n)
      /\ FileNext(c, n) = [data |-> th[t].buf, mtime |-> Local(c)]
      /\ th'[t].path = th[t].path /\ th'[t].tmp = th[t].tmp
      /\ th'[t].buf = <<NoFile, 0>>
  BY InstallEffect
<1>2. NamedFor(FileNext(c, n), n[2])
  BY <1>1, SecondOfName DEF NamedFor, PathInv, PathOK
<1>3. PathOK(t)' BY <1>1 DEF PathInv, PathOK
<1>4. FilesNamed' BY <1>1, <1>2, OneFileNamed
<1> QED BY <1>1, <1>3, <1>4, PathStep, ServerStaysNamed DEF ServerStays

LEMMA UtimensPath ==
  ASSUME SInv, PathInv, NEW t \in Handles, Utimens(t)
  PROVE  PathInv'
<1> DEFINE c == ClientOf[t]
           n == Cached(th[t].path)
<1>1. /\ ServerStays /\ Elsewhere(c, n) /\ th[t].pc = "utimens"
      /\ FileNext(c, n) \in {File(c, n), [data |-> File(c, n).data, mtime |-> th[t].got]}
      /\ Goes(t, "copy") \/ Ends(t)
  BY UtimensEffect
<1>2. c \in Clients /\ n \in Names BY <1>1, Thread DEF SInv, PInv
<1>3. NamedFor(FileNext(c, n), n[2]) BY <1>1, <1>2 DEF NamedFor, PathInv, FilesNamed
<1>4. FilesNamed' BY <1>1, <1>3, OneFileNamed
<1> QED BY <1>1, <1>4, GoesPath, ServerStaysNamed DEF ServerStays, Goes

LEMMA CopyPath ==
  ASSUME ~Collisions, PInv, PathInv, NEW t \in Handles, NEW s \in Suffixes, Copy(t, s)
  PROVE  PathInv'
<1> DEFINE c == ClientOf[t]
           f == th[t].path
           n == Temp(f, s)
<1>1. /\ ServerStays /\ Elsewhere(c, n) /\ th[t].pc = "copy"
      /\ FileNext(c, n) \in {[data |-> File(c, Cached(f)).data, mtime |-> Local(c)], Absent}
      /\ Others(t) /\ th'[t].path = f /\ th'[t].buf = th[t].buf /\ th'[t].tmp = n
  BY CopyEffect
<1>2. c \in Clients /\ Cached(f) \in Names BY <1>1, Thread DEF PInv
<1>3. NamedFor(FileNext(c, n), n[2])
  BY <1>1, <1>2, SecondOfName DEF NamedFor, PathInv, FilesNamed, Absent
<1>4. FilesNamed' BY <1>1, <1>3, OneFileNamed
<1>5. n[2] = f BY SecondOfName
<1> HIDE DEF n
<1>6. PathOK(t)' BY <1>1, <1>5 DEF PathInv, PathOK
<1> QED BY <1>1, <1>4, <1>6, PathStep, ServerStaysNamed DEF ServerStays

LEMMA StampPath ==
  ASSUME PInv, PathInv, NEW t \in Handles, Stamp(t)
  PROVE  PathInv'
<1> DEFINE c == ClientOf[t]
           n == th[t].tmp
<1>1. ServerStays /\ c \in Clients /\ n \in Names BY StampEffect
<1>2. CASE FilesStay /\ Ends(t)
  BY <1>1, <1>2, FilesStayNamed, GoesPath, ServerStaysNamed DEF ServerStays
<1>3. CASE ~(FilesStay /\ Ends(t))
  <2>1. /\ FileNext(c, n) = [data |-> File(c, n).data,
                             mtime |-> File(c, Cached(th[t].path)).mtime]
        /\ Elsewhere(c, n)
        /\ Others(t) /\ th'[t].path = th[t].path
        /\ th'[t].buf = th[t].buf /\ th'[t].tmp = n
    BY <1>3, StampEffect
  <2>2. NamedFor(FileNext(c, n), n[2]) BY <1>1, <2>1 DEF NamedFor, PathInv, FilesNamed
  <2>3. FilesNamed' BY <2>1, <2>2, OneFileNamed
  <2>4. PathOK(t)' BY <2>1 DEF PathInv, PathOK
  <2> QED BY <1>1, <2>1, <2>3, <2>4, PathStep, ServerStaysNamed DEF ServerStays
<1> QED BY <1>2, <1>3

LEMMA WritePath ==
  ASSUME SInv, PathInv, NEW t \in Handles, Write(t)
  PROVE  PathInv'
<1> DEFINE c == ClientOf[t]
           n == th[t].tmp
           x == <<th[t].path, writes + 1>>
<1>1. /\ srv' = srv /\ Elsewhere(c, n) /\ th[t].pc = "open"
      /\ FileNext(c, n) = [data |-> x, mtime |-> Local(c)]
      /\ Others(t) /\ th'[t].path = th[t].path /\ th'[t].tmp = n /\ th'[t].buf = x
  BY WriteEffect
<1>2. n \in TempNames BY <1>1, HandleFile
<1>3. n[2] = th[t].path BY <1>2, NameTypes DEF PathInv, PathOK
<1>4. NamedFor(FileNext(c, n), n[2]) BY <1>1, <1>3 DEF NamedFor
<1>5. FilesNamed' BY <1>1, <1>4, OneFileNamed
<1>6. PathOK(t)' BY <1>1, <1>3 DEF PathOK
<1> QED BY <1>1, <1>5, <1>6, PathStep, ServerStaysNamed

LEMMA MarkPath ==
  ASSUME SInv, PathInv, NEW t \in Handles, Mark(t)
  PROVE  PathInv'
<1> DEFINE c == ClientOf[t]
           n == th[t].tmp
           m == Recover(n)
<1>1. ServerStays /\ th[t].pc = "mark" /\ Goes(t, "close") BY MarkEffect
<1>2. c \in Clients /\ n \in Names /\ m \in Names BY <1>1, HandleFile
<1>3. CASE FilesStay
  BY <1>1, <1>3, FilesStayNamed, GoesPath, ServerStaysNamed DEF ServerStays, Goes
<1>4. CASE ~FilesStay
  <2>1. /\ FileNext(c, m) = File(c, n) /\ FileNext(c, n) = Absent
        /\ \A d \in Clients, k \in Names :
             d # c \/ (k # n /\ k # m) => FileNext(d, k) = File(d, k)
    BY <1>4, MarkEffect
  <2>2. m[2] = n[2] BY SecondOfName
  <2>3. FilesNamed'
    <3> HIDE DEF c, n, m
    <3> QED BY <1>2, <2>1, <2>2, MovedFileNamed
  <2> QED BY <1>1, <2>3, GoesPath, ServerStaysNamed DEF ServerStays, Goes
<1> QED BY <1>3, <1>4

LEMMA SendPathInv ==
  ASSUME IInv, PathInv, NEW t \in Handles, NEW ok \in BOOLEAN,
         Send(t, ok) \/ SendPath(t, ok)
  PROVE  PathInv'
<1>1. CASE Send(t, ok)
  <2> DEFINE c == ClientOf[t]
             n == th[t].tmp
  <2>1. /\ FilesStay /\ Goes(t, "swap") /\ c \in Clients /\ n \in TempNames
        /\ Recover(n) \in Names
        /\ Serves(n[2], File(c, Recover(n)).data) \/ ServerStays
    BY <1>1, SendEffect
  <2>2. n[2] \in Files /\ Recover(n)[2] = n[2] BY <2>1, NameTypes, SecondOfName
  <2>3. File(c, Recover(n)).data[1] \in {NoFile, n[2]}
    BY <2>1, <2>2 DEF PathInv, FilesNamed, NamedFor
  <2>4. ServerNamed'
    BY <2>1, <2>2, <2>3, ServedNamed, ServerStaysNamed DEF ServerStays
  <2> QED BY <2>1, <2>4, FilesStayNamed, GoesPath DEF Goes
<1>2. CASE SendPath(t, ok)
  <2> DEFINE c == ClientOf[t]
             f == th[t].path
  <2>1. /\ FilesStay /\ Ends(t) /\ f \in Files
        /\ Serves(f, File(c, Cached(f)).data) \/ ServerStays
    BY <1>2, SendPathEffect
  <2>2. c \in Clients /\ Cached(f) \in Names /\ Cached(f)[2] = f
    BY <2>1, Thread, NameTypes, SecondOfName
  <2>3. File(c, Cached(f)).data[1] \in {NoFile, f}
    BY <2>2 DEF PathInv, FilesNamed, NamedFor
  <2>4. ServerNamed'
    BY <2>1, <2>3, ServedNamed, ServerStaysNamed DEF ServerStays
  <2> QED BY <2>1, <2>4, FilesStayNamed, GoesPath
<1> QED BY <1>1, <1>2

LEMMA SwapPath ==
  ASSUME PInv, PathInv, NEW t \in Handles, Swap(t)
  PROVE  PathInv'
<1> DEFINE c == ClientOf[t]
           m == Recover(th[t].tmp)
           n == Cached(th[t].path)
<1>1. /\ ServerStays /\ Goes(t, "erase")
      /\ c \in Clients /\ th[t].tmp \in TempNames /\ m \in Names /\ n \in Names
      /\ FileNext(c, n) \in {File(c, m), File(c, n)} /\ FileNext(c, m) = Absent
      /\ \A d \in Clients, k \in Names :
           d # c \/ (k # m /\ k # n) => FileNext(d, k) = File(d, k)
  BY SwapEffect
<1>2. m[2] = n[2] BY <1>1, SecondOfName, NameTypes DEF PathInv, PathOK
<1>3. FilesNamed'
  <2> HIDE DEF c, m, n
  <2> QED BY <1>1, <1>2, MovedFileNamed
<1> QED BY <1>1, <1>3, GoesPath, ServerStaysNamed DEF ServerStays, Goes

\* The other steps of a request.
QuietStep(t) ==
  \/ \E ok \in BOOLEAN : Check(t, ok) \/ Getattr(t, ok) \/ Release(t, ok)
  \/ Drop(t) \/ Close(t) \/ Erase(t) \/ Submit(t)

LEMMA QuietEffect ==
  ASSUME SInv, NEW t \in Handles, QuietStep(t)
  PROVE  ServerStays /\ FilesStay /\ (Ends(t) \/ \E pc \in PCs : Steps(t, pc))
<1> DEFINE Q == ServerStays /\ FilesStay /\ (Ends(t) \/ \E pc \in PCs : Steps(t, pc))
<1>0. IInv BY DEF SInv, PInv
<1>1. ASSUME NEW ok \in BOOLEAN, Check(t, ok) PROVE Q BY <1>0, <1>1, CheckEffect DEF PCs, Goes
<1>2. ASSUME NEW ok \in BOOLEAN, Getattr(t, ok) PROVE Q
  BY <1>0, <1>2, GetattrEffect DEF PCs, Goes
<1>3. ASSUME NEW ok \in BOOLEAN, Release(t, ok) PROVE Q BY <1>3, ReleaseEffect DEF PCs, Goes
<1>4. CASE Drop(t) BY <1>0, <1>4, DropEffect
<1>5. CASE Close(t)
  <2>1. PICK pc \in {"send", "swap", "sendPath", "submit"} : Steps(t, pc)
    BY <1>0, <1>5, CloseEffect
  <2> QED BY <1>0, <1>5, <2>1, CloseEffect DEF PCs
<1>6. CASE Erase(t) BY <1>0, <1>6, EraseEffect DEF PCs, Goes
<1>7. CASE Submit(t) BY <1>0, <1>7, SubmitEffect
<1> QED BY <1>1, <1>2, <1>3, <1>4, <1>5, <1>6, <1>7 DEF QuietStep

LEMMA QuietPath ==
  ASSUME SInv, PathInv, NEW t \in Handles, QuietStep(t)
  PROVE  PathInv'
<1>1. ServerStays /\ FilesStay BY QuietEffect
<1>2. FilesNamed' /\ ServerNamed'
  BY <1>1, FilesStayNamed, ServerStaysNamed DEF ServerStays
<1>3. CASE Ends(t) BY <1>2, <1>3, GoesPath
<1>4. CASE ~Ends(t)
  <2>1. PICK pc \in PCs : Steps(t, pc) BY <1>4, QuietEffect
  <2> QED BY <1>2, <2>1, GoesPath
<1> QED BY <1>3, <1>4

LEMMA ThreadPath ==
  ASSUME ~Collisions, ~MayCreate, SInv, PathInv, NEW t \in Handles,
         UserStep(t) \/ OpenStep(t) \/ ReleaseStep(t)
  PROVE  PathInv'
<1>0. PInv /\ IInv BY DEF SInv, PInv
<1>1. CASE UserStep(t)
  BY <1>0, <1>1, LookupPath, WritePath, QuietPath DEF UserStep, CreateLookup, QuietStep
<1>2. CASE OpenStep(t)
  BY <1>0, <1>2, NoCreate, FetchPath, InstallPath, UtimensPath, CopyPath, StampPath,
     QuietPath DEF OpenStep, QuietStep
<1>3. CASE ReleaseStep(t)
  BY <1>0, <1>3, MarkPath, SwapPath, SendPathInv, QuietPath DEF ReleaseStep, QuietStep
<1> QED BY <1>1, <1>2, <1>3

\* Handles go on as they are, or forget their requests.
LEMMA ClientPath ==
  ASSUME PathInv, \A t \in Handles : th'[t] \in {th[t], Idle}, FilesNamed', ServerNamed'
  PROVE  PathInv'
<1>1. Idle.tmp = NoName /\ Idle.buf = <<NoFile, 0>> BY DEF Idle, Request
<1>2. \A t \in Handles : PathOK(t)' BY <1>1 DEF PathInv, PathOK
<1> QED BY <1>2 DEF PathInv

LEMMA CloserPath ==
  ASSUME IInv, PathInv, NEW c \in Clients, CloserStep(c)
  PROVE  PathInv'
<1> DEFINE f == sending[c]
<1>1. /\ FilesStay /\ th' = th
      /\ \/ ServerStays
         \/ f \in Files /\ Serves(f, File(c, Cached(f)).data)
  BY CloserEffect
<1>2. f \in Files => Cached(f) \in Names /\ Cached(f)[2] = f
  BY NameTypes, SecondOfName
<1>3. f \in Files => File(c, Cached(f)).data[1] \in {NoFile, f}
  BY <1>2 DEF PathInv, FilesNamed, NamedFor
<1>4. ServerNamed'
  BY <1>1, <1>3, ServedNamed, ServerStaysNamed DEF ServerStays
<1> QED BY <1>1, <1>4, FilesStayNamed, ClientPath

LEMMA ScanPath ==
  ASSUME PInv, PathInv, NameIntact \subseteq BOOLEAN, NEW c \in Clients, ScanStep(c)
  PROVE  PathInv'
<1>0. IInv BY DEF PInv
<1>1. ASSUME NEW m \in RecoverNames, RecoverRename(c, m) PROVE PathInv'
  <2> DEFINE n == Cached(m[2])
  <2>1. /\ ServerStays /\ th' = th /\ m \in Names /\ n \in Names
        /\ FileNext(c, n) = File(c, m) /\ FileNext(c, m) = Absent
        /\ \A d \in Clients, k \in Names :
             d # c \/ (k # m /\ k # n) => FileNext(d, k) = File(d, k)
    BY <1>1, RecoverRenameEffect
  <2>2. n[2] = m[2] BY SecondOfName
  <2>3. FilesNamed' BY <2>1, <2>2, MovedFileNamed
  <2> QED BY <2>1, <2>3, ServerStaysNamed, ClientPath DEF ServerStays
<1>2. ASSUME NEW intact \in NameIntact, NEW ok \in BOOLEAN, RecoverSend(c, intact, ok)
      PROVE  PathInv'
  <2> DEFINE f == rescued[c]
  <2>1. /\ FilesStay /\ th' = th /\ f \in Files /\ Cached(f) \in Names
        /\ ServerStays \/ Serves(f, File(c, Cached(f)).data)
    BY <1>0, <1>2, RecoverSendEffect
  <2>2. File(c, Cached(f)).data[1] \in {NoFile, f}
    BY <2>1, SecondOfName DEF PathInv, FilesNamed, NamedFor
  <2>3. ServerNamed' BY <2>1, <2>2, ServedNamed, ServerStaysNamed DEF ServerStays
  <2> QED BY <2>1, <2>3, FilesStayNamed, ClientPath
<1>3. ASSUME NEW n \in TempNames, DiscardTemp(c, n) PROVE PathInv'
  <2>1. ServerStays /\ th' = th /\ FileNext(c, n) = Absent /\ Elsewhere(c, n)
    BY <1>3, DiscardEffect
  <2>2. NamedFor(FileNext(c, n), n[2]) BY <2>1 DEF NamedFor, Absent
  <2> QED BY <2>1, <2>2, OneFileNamed, ServerStaysNamed, ClientPath DEF ServerStays
<1>4. CASE RecoverDone(c)
  <2>1. ServerStays /\ FilesStay /\ th' = th BY <1>0, <1>4, DoneEffect
  <2> QED BY <2>1, FilesStayNamed, ServerStaysNamed, ClientPath DEF ServerStays
<1> QED BY <1>1, <1>2, <1>3, <1>4 DEF ScanStep

LEMMA CrashPath ==
  ASSUME IInv, PathInv, NEW c \in Clients, Crash(c) \/ Restart(c)
  PROVE  PathInv'
<1>1. ServerStays /\ FilesStay /\ \A t \in Handles : th'[t] \in {th[t], Idle}
  BY CrashEffect, RestartEffect
<1> QED BY <1>1, FilesStayNamed, ServerStaysNamed, ClientPath DEF ServerStays

LEMMA InitPath == Init => PathInv
<1> SUFFICES ASSUME Init PROVE PathInv OBVIOUS
<1>1. FilesNamed BY DEF Init, FilesNamed, NamedFor, File, Has, Absent
<1>2. ASSUME NEW f \in Files PROVE NamedFor(srv[f], f)
  <2>1. srv[f].data \in {Base(f), Absent.data} BY DEF Init, Absent
  <2> QED BY <2>1 DEF NamedFor, Base, Absent
<1>3. \A t \in Handles : PathOK(t) BY DEF Init, PathOK, Idle, Request
<1> QED BY <1>1, <1>2, <1>3 DEF PathInv, ServerNamed

LEMMA StepPath ==
  ASSUME ~Collisions, ~MayCreate, SInv, PathInv, [Next]_vars
  PROVE  PathInv'
<1>0. PInv /\ IInv /\ NameIntact \subseteq BOOLEAN
  BY SwitchAssumption DEF SInv, PInv
<1>1. CASE UNCHANGED vars
  <2>1. UNCHANGED <<disk, srv, th>> BY <1>1 DEF vars, server
  <2> QED BY <2>1, SameFiles, FilesStayNamed, ServerStaysNamed, ClientPath
<1>2. ASSUME NEW t \in Handles, UserStep(t) \/ OpenStep(t) \/ ReleaseStep(t)
      PROVE  PathInv'
  BY <1>2, ThreadPath
<1>3. ASSUME NEW c \in Clients, CloserStep(c) \/ Crash(c) \/ Restart(c) \/ ScanStep(c)
      PROVE  PathInv'
  BY <1>0, <1>3, CloserPath, CrashPath, ScanPath
<1> QED BY <1>1, <1>2, <1>3 DEF Next

-----------------------------------------------------------------------------
(* The journal.                                                            *)

\* A temporary file and its recovery file are not there at the same time, so
\* that renaming one to the other replaces nothing.
Rested ==
  \A c \in Clients : \A n \in TempNames :
    File(c, n).data = Absent.data \/ File(c, Recover(n)).data = Absent.data

\* A recovery file that is about to be renamed over the cached copy was sent.
SwapSent ==
  \A t \in Handles : th[t].pc = "swap" =>
    File(ClientOf[t], Recover(th[t].tmp)).data
      \in PublishedContents(th[t].tmp[2]) \cup {Absent.data}

\* A scan follows a crash, and a file is in its hands during a scan only.
OneCrash ==
  \A c \in Clients : /\ mode[c] # "up" => crashes >= 1
                     /\ rescued[c] # NoFile => mode[c] = "recovering"

\* JournalKept, by the files of the names.
KeptAt(c, x) ==
  \/ \E n \in RecoverNames : File(c, n).data = x
  \/ rescued[c] # NoFile /\ File(c, Cached(rescued[c])).data = x

Journaled ==
  \A x \in marked : x \in PublishedContents(x[1]) \/ \E c \in Clients : KeptAt(c, x)

JInv == Rested /\ SwapSent /\ OneCrash /\ Journaled

LEMMA JournaledKept == IInv /\ Journaled => JournalKept
<1> SUFFICES ASSUME IInv, Journaled, NEW x \in marked, x \notin PublishedContents(x[1])
             PROVE  \E c \in Clients :
                      \/ \E n \in RecoverNames : Has(c, n) /\ At(c, n).data = x
                      \/ /\ rescued[c] # NoFile
                         /\ Has(c, Cached(rescued[c]))
                         /\ At(c, Cached(rescued[c])).data = x
  BY DEF JournalKept
<1>1. x # Absent.data BY NoFileIsNoContent DEF IInv, TypeOK
<1>2. PICK c \in Clients : KeptAt(c, x) BY DEF Journaled
<1>3. ASSUME NEW n \in RecoverNames, File(c, n).data = x
      PROVE  Has(c, n) /\ At(c, n).data = x
  BY <1>1, <1>3, NameTypes, FileFacts
<1>4. ASSUME rescued[c] # NoFile, File(c, Cached(rescued[c])).data = x
      PROVE  Has(c, Cached(rescued[c])) /\ At(c, Cached(rescued[c])).data = x
  <2>1. Cached(rescued[c]) \in Names BY <1>4, NameTypes DEF IInv, TypeOK
  <2> QED BY <1>1, <1>4, <2>1, FileFacts
<1> QED BY <1>2, <1>3, <1>4 DEF KeptAt

\* What has been on the server stays in its history.
HistoryGrows == \A g \in Files : PublishedContents(g) \subseteq PublishedNext(g)

LEMMA ServerGrows ==
  /\ ServerStays => HistoryGrows
  /\ \A f, x : Serves(f, x) => HistoryGrows
  /\ UNCHANGED log => HistoryGrows
BY DEF ServerStays, HistoryGrows, PublishedContents, PublishedNext, Serves

LEMMA RestedStep ==
  ASSUME \A c \in Clients, n \in TempNames :
           FileNext(c, n).data = Absent.data \/ FileNext(c, Recover(n)).data = Absent.data
  PROVE  Rested'
<1>1. ASSUME NEW c \in Clients, NEW n \in TempNames
      PROVE  (File(c, n).data = Absent.data \/ File(c, Recover(n)).data = Absent.data)'
  <2>1. n \in Names /\ Recover(n) \in Names BY NameTypes
  <2> QED BY <2>1, FileThen DEF Absent
<1> QED BY <1>1 DEF Rested

LEMMA SwapSentStep ==
  ASSUME \A t \in Handles : th'[t].pc = "swap" =>
           FileNext(ClientOf[t], Recover(th'[t].tmp)).data
             \in PublishedNext(th'[t].tmp[2]) \cup {Absent.data}
  PROVE  SwapSent'
<1>1. ASSUME NEW t \in Handles, th'[t].pc = "swap"
      PROVE  (File(ClientOf[t], Recover(th[t].tmp)).data
                \in PublishedContents(th[t].tmp[2]) \cup {Absent.data})'
  BY <1>1 DEF File, FileNext, Has, At, Recover, PublishedContents, PublishedNext, Absent
<1> QED BY <1>1 DEF SwapSent

LEMMA KeptNext ==
  ASSUME NEW c \in Clients, NEW x,
         \/ \E n \in RecoverNames : FileNext(c, n).data = x
         \/ rescued'[c] # NoFile /\ FileNext(c, Cached(rescued'[c])).data = x
  PROVE  KeptAt(c, x)'
<1>1. CASE \E n \in RecoverNames : FileNext(c, n).data = x
  BY <1>1, FileThen, NameTypes DEF KeptAt
<1>2. CASE rescued'[c] # NoFile /\ FileNext(c, Cached(rescued'[c])).data = x
  BY <1>2 DEF KeptAt, File, FileNext, Has, At, Cached, Absent
<1> QED BY <1>1, <1>2

LEMMA JournaledStep ==
  ASSUME IInv, Journaled, HistoryGrows,
         \A x \in marked \cap marked', c \in Clients :
           KeptAt(c, x) => x \in PublishedNext(x[1]) \/ KeptAt(c, x)',
         \A x \in marked' \ marked : \E c \in Clients : KeptAt(c, x)'
  PROVE  Journaled'
<1> SUFFICES ASSUME NEW x \in marked'
             PROVE  x \in PublishedNext(x[1]) \/ \E c \in Clients : KeptAt(c, x)'
  BY DEF Journaled, PublishedContents, PublishedNext
<1>1. CASE x \notin marked BY <1>1
<1>2. CASE x \in marked
  <2>1. x[1] \in Files BY <1>2, NoFileIsNoContent DEF IInv, TypeOK
  <2>2. CASE x \in PublishedContents(x[1])
    BY <2>1, <2>2 DEF HistoryGrows
  <2>3. CASE x \notin PublishedContents(x[1])
    <3>1. PICK c \in Clients : KeptAt(c, x) BY <1>2, <2>3 DEF Journaled
    <3> QED BY <1>2, <3>1
  <2> QED BY <2>2, <2>3
<1> QED BY <1>1, <1>2

LEMMA SwapsSent ==
  ASSUME IInv, SwapSent, HistoryGrows,
         \A t \in Handles :
           \/ /\ th'[t] = th[t]
              /\ th[t].pc = "swap" =>
                   FileNext(ClientOf[t], Recover(th[t].tmp)).data
                     \in {File(ClientOf[t], Recover(th[t].tmp)).data, Absent.data}
           \/ th'[t].pc # "swap"
           \/ FileNext(ClientOf[t], Recover(th'[t].tmp)).data
                \in PublishedNext(th'[t].tmp[2]) \cup {Absent.data}
  PROVE  SwapSent'
<1>1. ASSUME NEW t \in Handles, th'[t].pc = "swap"
      PROVE  FileNext(ClientOf[t], Recover(th'[t].tmp)).data
               \in PublishedNext(th'[t].tmp[2]) \cup {Absent.data}
  <2>1. CASE /\ th'[t] = th[t]
             /\ FileNext(ClientOf[t], Recover(th[t].tmp)).data
                  \in {File(ClientOf[t], Recover(th[t].tmp)).data, Absent.data}
    <3>1. th[t].pc = "swap" /\ th[t].tmp[2] \in Files
      BY <1>1, <2>1, Thread, NameTypes DEF RequestOK
    <3>2. File(ClientOf[t], Recover(th[t].tmp)).data
            \in PublishedContents(th[t].tmp[2]) \cup {Absent.data}
      BY <3>1 DEF SwapSent
    <3>3. PublishedContents(th[t].tmp[2]) \subseteq PublishedNext(th[t].tmp[2])
      BY <3>1 DEF HistoryGrows
    <3> QED BY <2>1, <3>2, <3>3
  <2> QED BY <1>1, <2>1
<1> QED BY <1>1, SwapSentStep

\* A step that leaves the recovery files and what is rescued.
LEMMA QuietJournal ==
  ASSUME IInv, JInv, HistoryGrows, OneCrash', marked' = marked,
         \A c \in Clients : rescued'[c] = rescued[c],
         \A c \in Clients, n \in RecoverNames : FileNext(c, n).data = File(c, n).data,
         \A c \in Clients : rescued[c] # NoFile =>
           FileNext(c, Cached(rescued[c])).data = File(c, Cached(rescued[c])).data,
         \A c \in Clients, n \in TempNames :
           \/ FileNext(c, n).data \in {File(c, n).data, Absent.data}
           \/ File(c, Recover(n)).data = Absent.data,
         \A t \in Handles :
           \/ th'[t] = th[t]
           \/ th'[t].pc # "swap"
           \/ FileNext(ClientOf[t], Recover(th'[t].tmp)).data
                \in PublishedNext(th'[t].tmp[2]) \cup {Absent.data}
  PROVE  JInv'
<1>1. Rested'
  <2>1. ASSUME NEW c \in Clients, NEW n \in TempNames
        PROVE  FileNext(c, n).data = Absent.data \/ FileNext(c, Recover(n)).data = Absent.data
    <3>1. Recover(n) \in RecoverNames BY NameTypes
    <3>2. File(c, n).data = Absent.data \/ File(c, Recover(n)).data = Absent.data
      BY DEF JInv, Rested
    <3> QED BY <3>1, <3>2
  <2> QED BY <2>1, RestedStep
<1>2. SwapSent'
  <2>1. \A t \in Handles : th[t].pc = "swap" =>
          FileNext(ClientOf[t], Recover(th[t].tmp)).data
            = File(ClientOf[t], Recover(th[t].tmp)).data
    BY Thread, NameTypes DEF RequestOK
  <2> QED BY <2>1, SwapsSent DEF JInv
<1>3. Journaled'
  <2>1. ASSUME NEW x \in marked, NEW c \in Clients, KeptAt(c, x)
        PROVE  KeptAt(c, x)'
    BY <2>1, KeptNext DEF KeptAt
  <2> QED BY <2>1, JournaledStep DEF JInv
<1> QED BY <1>1, <1>2, <1>3 DEF JInv

LEMMA CrashesStay ==
  ASSUME OneCrash, UNCHANGED <<mode, rescued, crashes>> PROVE OneCrash'
BY DEF OneCrash

\* A step of a request that changes one file that is no recovery file.  A client
\* that serves it rescues nothing.
LEMMA RequestJournal ==
  ASSUME PInv, JInv, NEW t \in Handles, NEW n, Others(t), Elsewhere(ClientOf[t], n),
         n \in CachedNames \/ n \in TempNames, HistoryGrows,
         UNCHANGED <<mode, rescued, crashes, marked>>, th[t].pc # "idle",
         n \in TempNames =>
           \/ FileNext(ClientOf[t], n).data \in {File(ClientOf[t], n).data, Absent.data}
           \/ File(ClientOf[t], Recover(n)).data = Absent.data,
         th'[t].pc # "swap"
  PROVE  JInv'
<1> DEFINE c == ClientOf[t]
<1>1. /\ n \notin RecoverNames /\ c \in Clients
      /\ n \in TempNames => \A f : Cached(f) # n
  BY Thread, NameKinds DEF PInv, CachedNames, TempNames, RecoverNames
<1>2. mode[c] = "up" /\ rescued[c] = NoFile
  <2>1. mode[c] = "up" BY IdleState DEF PInv, Serving
  <2> QED BY <1>1, <2>1 DEF JInv, OneCrash
<1>3. \A d \in Clients, m \in RecoverNames : FileNext(d, m).data = File(d, m).data
  BY <1>1, NameTypes DEF Elsewhere
<1>4. \A d \in Clients : rescued[d] # NoFile =>
        FileNext(d, Cached(rescued[d])).data = File(d, Cached(rescued[d])).data
  BY <1>2, NameTypes DEF Elsewhere, PInv, IInv, TypeOK
<1>5. \A d \in Clients, m \in TempNames :
        \/ FileNext(d, m).data \in {File(d, m).data, Absent.data}
        \/ File(d, Recover(m)).data = Absent.data
  BY NameTypes DEF Elsewhere
<1>6. \A u \in Handles : th'[u] = th[u] \/ th'[u].pc # "swap" BY DEF Others
<1>7. OneCrash' BY CrashesStay DEF JInv
<1>8. IInv /\ \A d \in Clients : rescued'[d] = rescued[d] BY DEF PInv
<1> QED BY <1>3, <1>4, <1>5, <1>6, <1>7, <1>8, QuietJournal

\* A step that leaves the files.
LEMMA StillJournal ==
  ASSUME IInv, JInv, FilesStay, HistoryGrows, OneCrash', marked' = marked,
         \A c \in Clients : rescued'[c] = rescued[c],
         \A t \in Handles :
           \/ th'[t] = th[t]
           \/ th'[t].pc # "swap"
           \/ File(ClientOf[t], Recover(th'[t].tmp)).data
                \in PublishedNext(th'[t].tmp[2]) \cup {Absent.data}
              /\ th'[t].tmp \in TempNames
  PROVE  JInv'
<1>1. /\ \A c \in Clients, n \in RecoverNames : FileNext(c, n).data = File(c, n).data
      /\ \A c \in Clients, n \in TempNames : FileNext(c, n).data = File(c, n).data
  BY NameTypes DEF FilesStay
<1>2. \A c \in Clients : rescued[c] # NoFile =>
        FileNext(c, Cached(rescued[c])).data = File(c, Cached(rescued[c])).data
  BY NameTypes DEF FilesStay, IInv, TypeOK
<1>3. \A t \in Handles :
        \/ th'[t] = th[t]
        \/ th'[t].pc # "swap"
        \/ FileNext(ClientOf[t], Recover(th'[t].tmp)).data
             \in PublishedNext(th'[t].tmp[2]) \cup {Absent.data}
  <2>1. \A t \in Handles : ClientOf[t] \in Clients BY ClientsAssumption
  <2> QED BY <1>1, <2>1, NameTypes
<1> QED BY <1>1, <1>2, <1>3, QuietJournal

LEMMA RequestStillJournal ==
  ASSUME IInv, JInv, NEW t \in Handles, FilesStay, Others(t), HistoryGrows,
         UNCHANGED <<mode, rescued, crashes, marked>>,
         \/ th'[t].pc # "swap"
         \/ /\ th'[t].tmp \in TempNames
            /\ File(ClientOf[t], Recover(th'[t].tmp)).data
                 \in PublishedNext(th'[t].tmp[2]) \cup {Absent.data}
  PROVE  JInv'
<1>1. OneCrash' BY CrashesStay DEF JInv
<1>2. \A u \in Handles : u # t => th'[u] = th[u] BY DEF Others
<1> QED BY <1>1, <1>2, StillJournal

-----------------------------------------------------------------------------
(* The steps of the requests.                                              *)

LEMMA OpenJournal ==
  ASSUME ~Collisions, SInv, JInv, NEW t \in Handles,
         \/ \E f \in Files, want \in {"open", "getattr"} : Lookup(t, f, want)
         \/ \E ok \in BOOLEAN : Check(t, ok) \/ Fetch(t, ok) \/ Getattr(t, ok)
         \/ Install(t) \/ Utimens(t) \/ Stamp(t) \/ \E s \in Suffixes : Copy(t, s)
  PROVE  JInv'
<1>0. PInv /\ IInv BY DEF SInv, PInv
<1>1. ASSUME NEW f \in Files, NEW want \in {"open", "getattr"}, Lookup(t, f, want)
      PROVE  JInv'
  <2>1. /\ FilesStay /\ Others(t) /\ ServerStays /\ th'[t].pc # "swap"
        /\ UNCHANGED <<mode, rescued, crashes, marked>>
    BY <1>0, <1>1, LookupEffect DEF AroundStays, CountsStay
  <2> QED BY <1>0, <2>1, ServerGrows, RequestStillJournal
<1>2. ASSUME NEW ok \in BOOLEAN, Check(t, ok) PROVE JInv'
  <2>1. /\ FilesStay /\ Others(t) /\ ServerStays /\ th'[t].pc # "swap"
        /\ UNCHANGED <<mode, rescued, crashes, marked>>
    BY <1>0, <1>2, CheckEffect DEF AroundStays, CountsStay, Goes, Steps, Ends
  <2> QED BY <1>0, <2>1, ServerGrows, RequestStillJournal
<1>3. ASSUME NEW ok \in BOOLEAN, Fetch(t, ok) PROVE JInv'
  <2>1. /\ FilesStay /\ Others(t) /\ ServerStays /\ th'[t].pc # "swap"
        /\ UNCHANGED <<mode, rescued, crashes, marked>>
    BY <1>0, <1>3, FetchEffect DEF AroundStays, CountsStay, Goes, Steps
  <2> QED BY <1>0, <2>1, ServerGrows, RequestStillJournal
<1>4. ASSUME NEW ok \in BOOLEAN, Getattr(t, ok) PROVE JInv'
  <2>1. /\ FilesStay /\ Others(t) /\ ServerStays /\ th'[t].pc # "swap"
        /\ UNCHANGED <<mode, rescued, crashes, marked>>
    BY <1>0, <1>4, GetattrEffect DEF AroundStays, CountsStay, Goes, Steps
  <2> QED BY <1>0, <2>1, ServerGrows, RequestStillJournal
<1>5. CASE Install(t) \/ Utimens(t)
  <2> DEFINE n == Cached(th[t].path)
  <2>1. /\ Elsewhere(ClientOf[t], n) /\ Others(t) /\ ServerStays
        /\ th'[t].pc # "swap" /\ th[t].pc # "idle"
        /\ UNCHANGED <<mode, rescued, crashes, marked>>
    BY <1>0, <1>5, InstallEffect, UtimensEffect DEF AroundStays, CountsStay, Goes, Steps, Ends
  <2>2. n \in CachedNames /\ n \notin TempNames
    BY <1>0, <2>1, Thread DEF CachedNames, TempNames, Cached
  <2> HIDE DEF n
  <2> QED BY <1>0, <2>1, <2>2, ServerGrows, RequestJournal
<1>6. CASE Stamp(t)
  <2> DEFINE n == th[t].tmp
  <2>1. /\ ServerStays /\ n \in TempNames /\ th[t].pc # "idle"
        /\ UNCHANGED <<mode, rescued, crashes, marked>>
    BY <1>0, <1>6, StampEffect DEF AroundStays, CountsStay
  <2>2. CASE FilesStay /\ Ends(t)
    BY <1>0, <2>1, <2>2, ServerGrows, RequestStillJournal DEF Ends
  <2>3. CASE ~(FilesStay /\ Ends(t))
    <3>1. /\ Elsewhere(ClientOf[t], n) /\ Others(t) /\ th'[t].pc # "swap"
          /\ FileNext(ClientOf[t], n) = [data |-> File(ClientOf[t], n).data,
                                mtime |-> File(ClientOf[t], Cached(th[t].path)).mtime]
      BY <1>0, <1>6, <2>3, StampEffect
    <3>2. FileNext(ClientOf[t], n).data = File(ClientOf[t], n).data BY <3>1
    <3> QED BY <1>0, <2>1, <3>1, <3>2, ServerGrows, RequestJournal
  <2> QED BY <2>2, <2>3
<1>7. ASSUME NEW s \in Suffixes, Copy(t, s) PROVE JInv'
  <2> DEFINE n == Temp(th[t].path, s)
  <2>1. /\ Elsewhere(ClientOf[t], n) /\ Others(t) /\ ServerStays
        /\ th'[t].pc # "swap" /\ th[t].pc # "idle" /\ ~InUse(ClientOf[t], n)
        /\ UNCHANGED <<mode, rescued, crashes, marked>>
    BY <1>0, <1>7, CopyEffect DEF AroundStays, CountsStay
  <2>2. n \in TempNames BY <1>0, <2>1, Thread, NameTypes
  <2>3. File(ClientOf[t], Recover(n)).data = Absent.data BY <2>1 DEF InUse, File
  <2> HIDE DEF n
  <2> QED BY <1>0, <2>1, <2>2, <2>3, ServerGrows, RequestJournal
<1> QED BY <1>1, <1>2, <1>3, <1>4, <1>5, <1>6, <1>7

\* The recovery file replaces nothing, and no other request has that name.
LEMMA MarkJournal ==
  ASSUME SInv, JInv, NEW t \in Handles, Mark(t)
  PROVE  JInv'
<1> DEFINE c == ClientOf[t]
           n == th[t].tmp
           m == Recover(n)
<1>0. PInv /\ IInv BY DEF SInv, PInv
<1>1. /\ ServerStays /\ th[t].pc = "mark" /\ Others(t) /\ th'[t].pc = "close"
      /\ UNCHANGED <<mode, rescued, crashes>>
  BY MarkEffect DEF AroundStays, Goes, Steps
<1>2. CASE FilesStay /\ UNCHANGED marked
  BY <1>0, <1>1, <1>2, ServerGrows, RequestStillJournal
<1>3. CASE ~(FilesStay /\ UNCHANGED marked)
  <2>1. /\ FileNext(c, m) = File(c, n) /\ FileNext(c, n) = Absent
        /\ \A d \in Clients, k \in Names :
             d # c \/ (k # n /\ k # m) => FileNext(d, k) = File(d, k)
        /\ marked \subseteq marked' /\ marked' \subseteq marked \cup {File(c, n).data}
    BY <1>3, MarkEffect
  <2>2. /\ c \in Clients /\ n \in TempNames /\ n \in Names /\ m \in RecoverNames
        /\ m \in Names /\ Has(c, n) /\ Unshared(t)
    BY <1>1, HandleFile, NameTypes
  <2>3. File(c, n).data # Absent.data BY <1>0, <2>2, FileFacts
  <2>4. File(c, m).data = Absent.data BY <2>2, <2>3 DEF JInv, Rested
  <2>5. /\ m # n /\ \A f : Cached(f) # n /\ Cached(f) # m
        /\ \A k \in TempNames \ {n} : k # m /\ Recover(k) # m /\ Recover(k) # n
    BY <2>2, NameKinds
  <2>6. n \notin RecoverNames BY <2>2 DEF TempNames, RecoverNames
  <2> HIDE DEF c, n, m
  <2>7. Rested'
    <3>1. ASSUME NEW d \in Clients, NEW k \in TempNames
          PROVE  \/ FileNext(d, k).data = Absent.data
                 \/ FileNext(d, Recover(k)).data = Absent.data
      <4>1. CASE d = c /\ k = n BY <2>1, <4>1
      <4>2. CASE ~(d = c /\ k = n)
        <5>1. k \in Names /\ Recover(k) \in Names BY NameTypes
        <5>2. FileNext(d, k) = File(d, k) /\ FileNext(d, Recover(k)) = File(d, Recover(k))
          BY <2>1, <2>5, <4>2, <5>1
        <5> QED BY <5>2 DEF JInv, Rested
      <4> QED BY <4>1, <4>2
    <3> QED BY <3>1, RestedStep
  <2>8. SwapSent'
    <3>1. ASSUME NEW u \in Handles, u # t, th[u].pc = "swap"
          PROVE  FileNext(ClientOf[u], Recover(th[u].tmp))
                   = File(ClientOf[u], Recover(th[u].tmp))
      <4>1. ClientOf[u] \in Clients /\ th[u].tmp \in TempNames /\ Recover(th[u].tmp) \in Names
        BY <1>0, <3>1, Thread, NameTypes DEF RequestOK
      <4>2. ClientOf[u] = c => th[u].tmp # n
        BY <2>2, <3>1 DEF Unshared, Peers, c, n
      <4> QED BY <2>1, <2>5, <4>1, <4>2
    <3>2. HistoryGrows BY <1>1, ServerGrows
    <3>3. \A u \in Handles : u # t => th'[u] = th[u] BY <1>1 DEF Others
    <3> QED BY <1>0, <1>1, <3>1, <3>2, <3>3, SwapsSent DEF JInv
  <2>9. Journaled'
    <3>1. ASSUME NEW x \in marked, NEW d \in Clients, KeptAt(d, x) PROVE KeptAt(d, x)'
      <4>1. x # Absent.data BY <1>0, NoFileIsNoContent DEF IInv, TypeOK
      <4>2. ASSUME NEW k \in RecoverNames, File(d, k).data = x PROVE FileNext(d, k).data = x
        <5>1. d # c \/ (k # n /\ k # m) BY <2>4, <2>6, <4>1, <4>2
        <5> QED BY <2>1, <4>2, <5>1, NameTypes
      <4>3. ASSUME rescued[d] # NoFile, File(d, Cached(rescued[d])).data = x
            PROVE  FileNext(d, Cached(rescued[d])).data = x
        <5>1. Cached(rescued[d]) \in Names BY <1>0, <4>3, NameTypes DEF IInv, TypeOK
        <5> QED BY <2>1, <2>5, <4>3, <5>1
      <4>4. rescued'[d] = rescued[d] BY <1>1
      <4> QED BY <3>1, <4>2, <4>3, <4>4, KeptNext DEF KeptAt
    <3>2. ASSUME NEW x \in marked' \ marked PROVE KeptAt(c, x)'
      <4>1. x = FileNext(c, m).data BY <2>1, <3>2
      <4> QED BY <2>2, <4>1, KeptNext
    <3>3. HistoryGrows BY <1>1, ServerGrows
    <3> QED BY <1>0, <2>2, <3>1, <3>2, <3>3, JournaledStep DEF JInv
  <2>10. OneCrash' BY <1>1, CrashesStay DEF JInv
  <2> QED BY <2>7, <2>8, <2>9, <2>10 DEF JInv
<1> QED BY <1>2, <1>3

LEMMA SendJournal ==
  ASSUME SInv, JInv, NEW t \in Handles, NEW ok \in BOOLEAN, Send(t, ok),
         Nested = {}, MaxFailures = 0
  PROVE  JInv'
<1> DEFINE c == ClientOf[t]
           n == th[t].tmp
<1>0. IInv BY DEF SInv, PInv
<1>1. /\ FilesStay /\ Others(t) /\ th'[t].pc = "swap" /\ th'[t].tmp = n /\ ok
      /\ UNCHANGED <<mode, rescued, crashes, marked>>
      /\ c \in Clients /\ n \in TempNames /\ Recover(n) \in Names
  BY <1>0, SendEffect DEF AroundStays, CountsStay, Goes, Steps
<1>2. IF Has(c, Recover(n)) THEN Serves(n[2], File(c, Recover(n)).data) ELSE ServerStays
  BY <1>0, <1>1, SendEffect
<1>3. HistoryGrows BY <1>2, ServerGrows
<1>4. File(c, Recover(n)).data \in PublishedNext(n[2]) \cup {Absent.data}
  BY <1>2 DEF Serves, File
<1> QED BY <1>0, <1>1, <1>3, <1>4, RequestStillJournal

\* The recovery file was sent.
LEMMA SwapJournal ==
  ASSUME SInv, PathInv, JInv, NEW t \in Handles, Swap(t)
  PROVE  JInv'
<1> DEFINE c == ClientOf[t]
           m == Recover(th[t].tmp)
           n == Cached(th[t].path)
<1>0. PInv /\ IInv BY DEF SInv, PInv
<1>1. /\ ServerStays /\ th[t].pc = "swap" /\ th'[t].pc = "erase" /\ Others(t)
      /\ UNCHANGED <<mode, rescued, crashes, marked>>
      /\ c \in Clients /\ th[t].tmp \in TempNames /\ m \in Names /\ n \in Names
      /\ FileNext(c, m) = Absent
      /\ \A d \in Clients, k \in Names :
           d # c \/ (k # m /\ k # n) => FileNext(d, k) = File(d, k)
  BY <1>0, SwapEffect DEF AroundStays, CountsStay, Goes, Steps
<1>2. HistoryGrows BY <1>1, ServerGrows
<1>3. /\ mode[c] = "up" /\ rescued[c] = NoFile
  <2>1. mode[c] = "up" BY <1>0, <1>1, IdleState DEF PInv, Serving
  <2> QED BY <1>1, <2>1 DEF JInv, OneCrash
<1>4. \A k \in TempNames : n # k /\ n # Recover(k) /\ k # m BY <1>1, NameKinds
<1>5. \A k \in RecoverNames : n # k BY DEF RecoverNames, Cached
<1>6. m[2] = th[t].tmp[2] BY SecondOfName
<1> HIDE DEF c, m, n
<1>7. Rested'
  <2>1. ASSUME NEW d \in Clients, NEW k \in TempNames
        PROVE  FileNext(d, k).data = Absent.data \/ FileNext(d, Recover(k)).data = Absent.data
    <3>1. k \in Names /\ Recover(k) \in Names BY NameTypes
    <3>2. /\ FileNext(d, k) = File(d, k)
          /\ FileNext(d, Recover(k)) \in {File(d, Recover(k)), Absent}
      BY <1>1, <1>4, <3>1
    <3> QED BY <3>2 DEF JInv, Rested
  <2> QED BY <2>1, RestedStep
<1>8. SwapSent'
  <2>1. ASSUME NEW u \in Handles, u # t, th[u].pc = "swap"
        PROVE  FileNext(ClientOf[u], Recover(th[u].tmp))
                 \in {File(ClientOf[u], Recover(th[u].tmp)), Absent}
    <3>1. ClientOf[u] \in Clients /\ th[u].tmp \in TempNames /\ Recover(th[u].tmp) \in Names
      BY <1>0, <2>1, Thread, NameTypes DEF RequestOK
    <3> QED BY <1>1, <1>4, <3>1
  <2>2. \A u \in Handles : u # t => th'[u] = th[u] BY <1>1 DEF Others
  <2> QED BY <1>0, <1>1, <1>2, <2>1, <2>2, SwapsSent DEF JInv
<1>9. Journaled'
  <2>1. ASSUME NEW x \in marked, NEW d \in Clients, KeptAt(d, x)
        PROVE  x \in PublishedNext(x[1]) \/ KeptAt(d, x)'
    <3>1. ASSUME NEW k \in RecoverNames, File(d, k).data = x
          PROVE  x \in PublishedNext(x[1]) \/ KeptAt(d, x)'
      <4>1. k \in Names BY NameTypes
      <4>2. CASE d = c /\ k = m
        <5>1. x # Absent.data /\ x[1] \in Files /\ x[1] # NoFile
          BY <1>0, NoFileIsNoContent DEF IInv, TypeOK
        <5>2. x \in PublishedContents(th[t].tmp[2])
          BY <1>1, <3>1, <4>2, <5>1 DEF JInv, SwapSent, c, m
        <5>3. x[1] = th[t].tmp[2]
          BY <1>1, <1>6, <3>1, <4>2, <5>1 DEF PathInv, FilesNamed, NamedFor
        <5> QED BY <1>2, <5>1, <5>2, <5>3 DEF HistoryGrows
      <4>3. CASE ~(d = c /\ k = m)
        <5>1. FileNext(d, k) = File(d, k) BY <1>1, <1>5, <4>1, <4>3
        <5> QED BY <3>1, <5>1, KeptNext
      <4> QED BY <4>2, <4>3
    <3>2. ASSUME rescued[d] # NoFile, File(d, Cached(rescued[d])).data = x
          PROVE  KeptAt(d, x)'
      <4>1. Cached(rescued[d]) \in Names /\ d # c
        BY <1>0, <1>3, <3>2, NameTypes DEF IInv, TypeOK
      <4>2. FileNext(d, Cached(rescued[d])) = File(d, Cached(rescued[d]))
        BY <1>1, <4>1
      <4>3. rescued'[d] = rescued[d] BY <1>1
      <4> QED BY <3>2, <4>2, <4>3, KeptNext
    <3> QED BY <2>1, <3>1, <3>2 DEF KeptAt
  <2> QED BY <1>0, <1>1, <1>2, <2>1, JournaledStep DEF JInv
<1>10. OneCrash' BY <1>1, CrashesStay DEF JInv
<1> QED BY <1>7, <1>8, <1>9, <1>10 DEF JInv

LEMMA CloseJournal ==
  ASSUME SInv, JInv, Large = {}, NEW t \in Handles,
         \/ Write(t) \/ Drop(t) \/ Close(t) \/ Erase(t) \/ Submit(t)
         \/ \E ok \in BOOLEAN : Release(t, ok) \/ SendPath(t, ok)
  PROVE  JInv'
<1>0. PInv /\ IInv BY DEF SInv, PInv
<1>1. CASE Write(t)
  <2> DEFINE n == th[t].tmp
  <2>1. /\ Elsewhere(ClientOf[t], n) /\ Others(t) /\ UNCHANGED log
        /\ th'[t].pc # "swap" /\ th[t].pc = "open"
        /\ UNCHANGED <<mode, rescued, crashes, marked>>
    BY <1>1, WriteEffect DEF AroundStays
  <2>2. /\ n \in TempNames /\ n \in Names /\ Has(ClientOf[t], n) /\ ClientOf[t] \in Clients
    BY <2>1, HandleFile
  <2>3. File(ClientOf[t], Recover(n)).data = Absent.data
    BY <1>0, <2>2, FileFacts DEF JInv, Rested
  <2> QED BY <1>0, <2>1, <2>2, <2>3, ServerGrows, RequestJournal
<1>2. CASE Drop(t)
  <2>1. /\ FilesStay /\ Others(t) /\ ServerStays /\ th'[t].pc # "swap"
        /\ UNCHANGED <<mode, rescued, crashes, marked>>
    BY <1>0, <1>2, DropEffect DEF AroundStays, Ends
  <2> QED BY <1>0, <2>1, ServerGrows, RequestStillJournal
<1>3. CASE Close(t)
  <2>1. /\ FilesStay /\ Others(t) /\ ServerStays /\ th'[t].pc # "swap"
        /\ UNCHANGED <<mode, rescued, crashes, marked>>
    BY <1>0, <1>3, Large = {}, CloseEffect DEF AroundStays, CountsStay, Goes, Steps
  <2> QED BY <1>0, <2>1, ServerGrows, RequestStillJournal
<1>4. CASE Erase(t)
  <2>1. /\ FilesStay /\ Others(t) /\ ServerStays /\ th'[t].pc # "swap"
        /\ UNCHANGED <<mode, rescued, crashes, marked>>
    BY <1>0, <1>4, EraseEffect DEF AroundStays, Goes, Steps, Ends
  <2> QED BY <1>0, <2>1, ServerGrows, RequestStillJournal
<1>5. CASE Submit(t)
  <2>1. /\ FilesStay /\ Others(t) /\ ServerStays /\ th'[t].pc # "swap"
        /\ UNCHANGED <<mode, rescued, crashes, marked>>
    BY <1>0, <1>5, SubmitEffect DEF Ends
  <2> QED BY <1>0, <2>1, ServerGrows, RequestStillJournal
<1>6. ASSUME NEW ok \in BOOLEAN, Release(t, ok) PROVE JInv'
  <2>1. /\ FilesStay /\ Others(t) /\ ServerStays /\ th'[t].pc # "swap"
        /\ UNCHANGED <<mode, rescued, crashes, marked>>
    BY <1>6, ReleaseEffect DEF AroundStays, CountsStay, Goes, Steps
  <2> QED BY <1>0, <2>1, ServerGrows, RequestStillJournal
<1>7. ASSUME NEW ok \in BOOLEAN, SendPath(t, ok) PROVE JInv'
  <2>1. /\ FilesStay /\ Others(t) /\ th'[t].pc # "swap"
        /\ UNCHANGED <<mode, rescued, crashes, marked>>
        /\ \/ ServerStays
           \/ Serves(th[t].path, File(ClientOf[t], Cached(th[t].path)).data)
    BY <1>0, <1>7, SendPathEffect DEF AroundStays, Ends
  <2>2. HistoryGrows BY <2>1, ServerGrows
  <2> QED BY <1>0, <2>1, <2>2, RequestStillJournal
<1> QED BY <1>1, <1>2, <1>3, <1>4, <1>5, <1>6, <1>7

LEMMA ThreadJournal ==
  ASSUME ~Collisions, ~MayCreate, Large = {}, Nested = {}, MaxFailures = 0,
         SInv, PathInv, JInv, NEW t \in Handles,
         UserStep(t) \/ OpenStep(t) \/ ReleaseStep(t)
  PROVE  JInv'
<1>1. CASE UserStep(t)
  BY <1>1, OpenJournal, CloseJournal DEF UserStep, CreateLookup
<1>2. CASE OpenStep(t)
  BY <1>2, NoCreate, OpenJournal DEF OpenStep
<1>3. CASE ReleaseStep(t)
  BY <1>3, MarkJournal, SendJournal, SwapJournal, CloseJournal DEF ReleaseStep
<1> QED BY <1>1, <1>2, <1>3

-----------------------------------------------------------------------------
(* The close thread, a crash and the scan after it.                        *)

LEMMA CloserJournal ==
  ASSUME IInv, JInv, NEW c \in Clients, CloserStep(c)
  PROVE  JInv'
<1>1. /\ FilesStay /\ UNCHANGED <<mode, rescued, th, marked, crashes>>
      /\ ServerStays \/ \E f, x : Serves(f, x)
  BY CloserEffect
<1>2. HistoryGrows BY <1>1, ServerGrows
<1>3. OneCrash' BY <1>1, CrashesStay DEF JInv
<1> QED BY <1>1, <1>2, <1>3, StillJournal

\* The only crash finds no scan.
LEMMA CrashJournal ==
  ASSUME IInv, JInv, MaxCrashes <= 1, NEW c \in Clients, Crash(c)
  PROVE  JInv'
<1>1. /\ FilesStay /\ ServerStays /\ marked' = marked
      /\ mode'[c] = "down" /\ rescued'[c] = NoFile
      /\ \A d \in Clients \ {c} : mode'[d] = mode[d] /\ rescued'[d] = rescued[d]
      /\ crashes < MaxCrashes /\ crashes' = crashes + 1
      /\ \A t \in Handles : th'[t] \in {Idle, th[t]}
  BY CrashEffect DEF CountsStay
<1>2. crashes \in Nat /\ MaxCrashes \in Nat BY BoundAssumption DEF IInv, TypeOK
<1>3. rescued[c] = NoFile
  <2>1. ~(crashes >= 1) BY <1>1, <1>2
  <2> QED BY <2>1 DEF JInv, OneCrash
<1>4. OneCrash'
  <2>1. crashes' >= 1 BY <1>1, <1>2
  <2> QED BY <1>1, <2>1 DEF JInv, OneCrash
<1>5. \A d \in Clients : rescued'[d] = rescued[d] BY <1>1, <1>3
<1>6. \A t \in Handles : th'[t] = th[t] \/ th'[t].pc # "swap" BY <1>1, IdleState
<1>7. HistoryGrows BY <1>1, ServerGrows
<1> QED BY <1>1, <1>4, <1>5, <1>6, <1>7, StillJournal

LEMMA RestartJournal ==
  ASSUME IInv, JInv, NEW c \in Clients, Restart(c) \/ RecoverDone(c)
  PROVE  JInv'
<1>1. /\ FilesStay /\ ServerStays /\ UNCHANGED <<marked, rescued, th, crashes>>
      /\ \/ mode[c] = "down" /\ mode' = [mode EXCEPT ![c] = "recovering"]
         \/ /\ mode[c] = "recovering" /\ rescued[c] = NoFile
            /\ mode' = [mode EXCEPT ![c] = "up"]
  BY RestartEffect, DoneEffect DEF CountsStay
<1>2. OneCrash'
  <2>1. mode \in [Clients -> {"up", "down", "recovering"}] BY DEF IInv, TypeOK
  <2>2. /\ \A d \in Clients \ {c} : mode'[d] = mode[d]
        /\ \/ mode'[c] = "recovering" /\ mode[c] = "down"
           \/ mode'[c] = "up" /\ rescued[c] = NoFile
    BY <1>1, <2>1
  <2> QED BY <1>1, <2>2 DEF JInv, OneCrash
<1>3. HistoryGrows BY <1>1, ServerGrows
<1> QED BY <1>1, <1>2, <1>3, StillJournal

\* From its recovery name to the hands of the scan ...
LEMMA RecoverRenameJournal ==
  ASSUME PInv, JInv, NEW c \in Clients, NEW m \in RecoverNames, RecoverRename(c, m)
  PROVE  JInv'
<1> DEFINE n == Cached(m[2])
<1>0. IInv BY DEF PInv
<1>1. /\ ServerStays /\ UNCHANGED <<marked, mode, th, crashes>>
      /\ mode[c] = "recovering" /\ rescued[c] = NoFile
      /\ rescued' = [rescued EXCEPT ![c] = m[2]]
      /\ m \in Names /\ m[2] \in Files /\ n \in Names /\ m # n
      /\ FileNext(c, n) = File(c, m) /\ FileNext(c, m) = Absent
      /\ \A d \in Clients, k \in Names :
           d # c \/ (k # m /\ k # n) => FileNext(d, k) = File(d, k)
  BY RecoverRenameEffect DEF CountsStay
<1>2. rescued'[c] = m[2] /\ \A d \in Clients \ {c} : rescued'[d] = rescued[d]
  BY <1>0, <1>1 DEF IInv, TypeOK
<1>3. m[2] # NoFile BY <1>1, FilesAssumption
<1>4. \A k \in TempNames \cup RecoverNames : n # k /\ (k \in TempNames => k # m)
  BY DEF RecoverNames, TempNames, Cached
<1>5. HistoryGrows BY <1>1, ServerGrows
<1>6. Rested'
  <2>1. ASSUME NEW d \in Clients, NEW k \in TempNames
        PROVE  FileNext(d, k).data = Absent.data \/ FileNext(d, Recover(k)).data = Absent.data
    <3>1. k \in Names /\ Recover(k) \in Names /\ Recover(k) \in RecoverNames BY NameTypes
    <3>2. /\ FileNext(d, k) = File(d, k)
          /\ FileNext(d, Recover(k)) \in {File(d, Recover(k)), Absent}
      BY <1>1, <1>4, <3>1
    <3> QED BY <3>2 DEF JInv, Rested
  <2> QED BY <2>1, RestedStep
<1>7. SwapSent'
  <2>1. ASSUME NEW u \in Handles, th[u].pc = "swap"
        PROVE  FileNext(ClientOf[u], Recover(th[u].tmp))
                 \in {File(ClientOf[u], Recover(th[u].tmp)), Absent}
    <3>1. /\ ClientOf[u] \in Clients /\ Recover(th[u].tmp) \in Names
          /\ Recover(th[u].tmp) \in RecoverNames
      BY <1>0, <2>1, Thread, NameTypes DEF RequestOK
    <3> QED BY <1>1, <1>4, <3>1
  <2> QED BY <1>0, <1>1, <1>5, <2>1, SwapsSent DEF JInv
<1>8. Journaled'
  <2>1. ASSUME NEW x \in marked, NEW d \in Clients, KeptAt(d, x) PROVE KeptAt(d, x)'
    <3>1. ASSUME NEW k \in RecoverNames, File(d, k).data = x PROVE KeptAt(d, x)'
      <4>1. CASE d = c /\ k = m
        <5>1. FileNext(c, Cached(rescued'[c])).data = x BY <1>1, <1>2, <3>1, <4>1
        <5> QED BY <1>2, <1>3, <4>1, <5>1, KeptNext
      <4>2. CASE ~(d = c /\ k = m)
        <5>1. FileNext(d, k) = File(d, k) BY <1>1, <1>4, <4>2, NameTypes
        <5> QED BY <3>1, <5>1, KeptNext
      <4> QED BY <4>1, <4>2
    <3>2. ASSUME rescued[d] # NoFile, File(d, Cached(rescued[d])).data = x
          PROVE  KeptAt(d, x)'
      <4>1. Cached(rescued[d]) \in Names /\ d # c
        BY <1>0, <1>1, <3>2, NameTypes DEF IInv, TypeOK
      <4>2. FileNext(d, Cached(rescued[d])) = File(d, Cached(rescued[d]))
            /\ rescued'[d] = rescued[d]
        BY <1>1, <1>2, <4>1
      <4> QED BY <3>2, <4>2, KeptNext
    <3> QED BY <2>1, <3>1, <3>2 DEF KeptAt
  <2> QED BY <1>0, <1>1, <1>5, <2>1, JournaledStep DEF JInv
<1>9. OneCrash' BY <1>1, <1>2 DEF JInv, OneCrash
<1> QED BY <1>6, <1>7, <1>8, <1>9 DEF JInv

\* ... and from there to the server.
LEMMA RecoverSendJournal ==
  ASSUME IInv, PathInv, JInv, MaxFailures = 0, Nested = {}, NEW c \in Clients,
         NEW ok \in BOOLEAN, RecoverSend(c, TRUE, ok)
  PROVE  JInv'
<1> DEFINE f == rescued[c]
<1>1. /\ FilesStay /\ UNCHANGED <<marked, mode, th, crashes>> /\ ok
      /\ f \in Files /\ Cached(f) \in Names /\ rescued' = [rescued EXCEPT ![c] = NoFile]
      /\ IF Has(c, Cached(f)) THEN Serves(f, File(c, Cached(f)).data) ELSE ServerStays
  BY RecoverSendEffect DEF CountsStay
<1>2. rescued'[c] = NoFile /\ \A d \in Clients \ {c} : rescued'[d] = rescued[d]
  BY <1>1 DEF IInv, TypeOK
<1>3. HistoryGrows BY <1>1, ServerGrows
<1>4. Rested'
  <2>1. ASSUME NEW d \in Clients, NEW k \in TempNames
        PROVE  FileNext(d, k).data = Absent.data \/ FileNext(d, Recover(k)).data = Absent.data
    <3>1. k \in Names /\ Recover(k) \in Names BY NameTypes
    <3>2. FileNext(d, k) = File(d, k) /\ FileNext(d, Recover(k)) = File(d, Recover(k))
      BY <1>1, <3>1 DEF FilesStay
    <3> QED BY <3>2 DEF JInv, Rested
  <2> QED BY <2>1, RestedStep
<1>5. SwapSent'
  <2>1. \A u \in Handles : th[u].pc = "swap" =>
          FileNext(ClientOf[u], Recover(th[u].tmp)) = File(ClientOf[u], Recover(th[u].tmp))
    BY <1>1, Thread, NameTypes DEF RequestOK, FilesStay
  <2> QED BY <1>1, <1>3, <2>1, SwapsSent DEF JInv
<1>6. Journaled'
  <2>1. ASSUME NEW x \in marked, NEW d \in Clients, KeptAt(d, x)
        PROVE  x \in PublishedNext(x[1]) \/ KeptAt(d, x)'
    <3>1. ASSUME NEW k \in RecoverNames, File(d, k).data = x PROVE KeptAt(d, x)'
      <4>1. FileNext(d, k) = File(d, k) BY <1>1, NameTypes DEF FilesStay
      <4> QED BY <3>1, <4>1, KeptNext
    <3>2. ASSUME rescued[d] # NoFile, File(d, Cached(rescued[d])).data = x
          PROVE  x \in PublishedNext(x[1]) \/ KeptAt(d, x)'
      <4>1. CASE d = c
        <5>1. x # Absent.data /\ x[1] # NoFile
          BY NoFileIsNoContent DEF IInv, TypeOK
        <5>2. Has(c, Cached(f)) BY <1>1, <3>2, <4>1, <5>1, FileFacts
        <5>3. Serves(f, x) BY <1>1, <3>2, <4>1, <5>2
        <5>4. x[1] = f
          BY <1>1, <3>2, <4>1, <5>1, SecondOfName DEF PathInv, FilesNamed, NamedFor
        <5> QED BY <5>3, <5>4 DEF Serves
      <4>2. CASE d # c
        <5>1. Cached(rescued[d]) \in Names BY <3>2, NameTypes DEF IInv, TypeOK
        <5>2. FileNext(d, Cached(rescued[d])) = File(d, Cached(rescued[d]))
              /\ rescued'[d] = rescued[d]
          BY <1>1, <1>2, <4>2, <5>1 DEF FilesStay
        <5> QED BY <3>2, <5>2, KeptNext
      <4> QED BY <4>1, <4>2
    <3> QED BY <2>1, <3>1, <3>2 DEF KeptAt
  <2> QED BY <1>1, <1>3, <2>1, JournaledStep DEF JInv
<1>7. OneCrash' BY <1>1, <1>2 DEF JInv, OneCrash
<1> QED BY <1>4, <1>5, <1>6, <1>7 DEF JInv

LEMMA DiscardJournal ==
  ASSUME PInv, JInv, NEW c \in Clients, NEW n \in TempNames, DiscardTemp(c, n)
  PROVE  JInv'
<1>0. IInv BY DEF PInv
<1>1. /\ ServerStays /\ UNCHANGED <<marked, mode, rescued, th, crashes>>
      /\ FileNext(c, n) = Absent /\ Elsewhere(c, n)
  BY DiscardEffect DEF AroundStays, CountsStay
<1>2. \A f : Cached(f) # n BY NameKinds
<1>3. /\ \A d \in Clients, k \in RecoverNames : FileNext(d, k).data = File(d, k).data
      /\ \A d \in Clients, k \in TempNames :
           FileNext(d, k).data \in {File(d, k).data, Absent.data}
  BY <1>1, NameTypes DEF Elsewhere, TempNames, RecoverNames
<1>4. \A d \in Clients : rescued[d] # NoFile =>
        FileNext(d, Cached(rescued[d])).data = File(d, Cached(rescued[d])).data
  BY <1>0, <1>1, <1>2, NameTypes DEF Elsewhere, IInv, TypeOK
<1>5. HistoryGrows /\ OneCrash' BY <1>1, ServerGrows, CrashesStay DEF JInv
<1> QED BY <1>0, <1>1, <1>3, <1>4, <1>5, QuietJournal

LEMMA InitJournal == Init => JInv
<1> SUFFICES ASSUME Init PROVE JInv OBVIOUS
<1>1. Rested BY NameTypes DEF Init, Rested, File, Has
<1>2. SwapSent BY DEF Init, SwapSent, Idle, Request
<1>3. OneCrash BY DEF Init, OneCrash
<1>4. Journaled BY DEF Init, Journaled
<1> QED BY <1>1, <1>2, <1>3, <1>4 DEF JInv

\* No write is above the size that goes to the close thread, no file is below
\* the root, no call fails, the scan computes whole names, and only one client
\* crashes, once.
JournalConditions ==
  /\ Collisions = FALSE /\ MayCreate = FALSE
  /\ Large = {} /\ Nested = {} /\ NameIntact \subseteq {TRUE}
  /\ MaxFailures = 0 /\ MaxCrashes <= 1

LEMMA StepJournal ==
  ASSUME JournalConditions, SInv, PathInv, JInv, [Next]_vars
  PROVE  JInv'
<1>0. PInv /\ IInv /\ ~Collisions /\ ~MayCreate /\ Large = {} BY DEF SInv, PInv, JournalConditions
<1>1. CASE UNCHANGED vars
  <2>1. UNCHANGED <<disk, log, th, marked, mode, rescued, crashes>>
    BY <1>1 DEF vars, server, history, scan, bounds
  <2>2. FilesStay /\ HistoryGrows /\ OneCrash'
    BY <2>1, SameFiles, ServerGrows, CrashesStay DEF JInv
  <2> QED BY <1>0, <2>1, <2>2, StillJournal
<1>2. ASSUME NEW t \in Handles, UserStep(t) \/ OpenStep(t) \/ ReleaseStep(t)
      PROVE  JInv'
  BY <1>0, <1>2, ThreadJournal DEF JournalConditions
<1>3. ASSUME NEW c \in Clients, CloserStep(c) \/ Crash(c) \/ Restart(c)
      PROVE  JInv'
  BY <1>0, <1>3, CloserJournal, CrashJournal, RestartJournal DEF JournalConditions
<1>4. ASSUME NEW c \in Clients, ScanStep(c) PROVE JInv'
  <2>1. \A intact \in NameIntact : intact = TRUE BY DEF JournalConditions
  <2>2. \A ok \in BOOLEAN : RecoverSend(c, TRUE, ok) => JInv'
    BY <1>0, RecoverSendJournal DEF JournalConditions
  <2> QED BY <1>0, <1>4, <2>1, <2>2, RecoverRenameJournal, DiscardJournal, RestartJournal
          DEF ScanStep
<1> QED BY <1>1, <1>2, <1>3, <1>4 DEF Next

\* A file renamed to its recovery name is not lost, whatever other requests do
\* and wherever the crash and the scan fall: it has been on the server, or the scan
\* will find it, or is about to send it.
THEOREM JournalIsKept == JournalConditions => (Spec => []JournalKept)
<1>1. ASSUME JournalConditions PROVE Spec => []JournalKept
  <2> DEFINE Inv == SInv /\ PathInv /\ JInv
  <2>1. Init => Inv BY InitSInv, InitPath, InitJournal
  <2>2. Inv /\ [Next]_vars => Inv'
    BY <1>1, StepSInv, StepPath, StepJournal DEF JournalConditions
  <2>3. Inv => JournalKept BY JournaledKept DEF SInv, PInv, JInv
  <2> QED BY <2>1, <2>2, <2>3, PTL DEF Spec
<1> QED BY <1>1
-----------------------------------------------------------------------------
(* The invariant of LastCloseKept.                                         *)

\* Written since file f was put on the server last.
Fresh(x, f) == x[2] > since[f]
New(c, n) == Fresh(File(c, n).data, n[2])

\* No content is newer than the last write, and what is on the server is not new.
Counted ==
  /\ \A f \in Files : /\ since[f] <= writes /\ srv[f].data[2] <= since[f]
                      /\ srv[f].mtime < Boot + clock
  /\ \A c \in Clients, n \in Names : File(c, n).data[2] <= writes
  /\ \A t \in Handles : th[t].buf[2] <= writes
  /\ \A c \in Clients, f \in Files : closed[c][f][2] <= writes

\* A new file looks newer than the server's, so that no open replaces it.
Later ==
  \A c \in Clients, n \in Names : New(c, n) => File(c, n).mtime > srv[n[2]].mtime

\* An open that fetches does not have a new file in the cache.
Fetching == {"fetch", "install", "getattr", "utimens"}
RequestNew(t) ==
  LET c == ClientOf[t]
      n == Cached(th[t].path)
  IN
  /\ th[t].pc = "check" => th[t].got = File(c, n).mtime
  /\ th[t].pc \in Fetching => ~New(c, n)
  /\ th[t].pc = "install" => ~Fresh(th[t].buf, th[t].path)
  /\ th[t].pc = "stamp" /\ New(c, th[t].tmp) =>
       File(c, n).data = File(c, th[t].tmp).data

\* There is one recovery file of a path, and while the client is up a release
\* has it that will rename it over the cached copy.
OneRecovery ==
  \A c \in Clients : \A m, n \in RecoverNames :
    m[2] = n[2] /\ File(c, m) # Absent /\ File(c, n) # Absent => m = n

Bears(t, c, n) ==
  /\ ClientOf[t] = c /\ n = Recover(th[t].tmp)
  /\ \/ th[t].pc \in {"send", "swap"}
     \/ th[t].pc = "close" /\ tempMap[c][th[t].fd] # NoName

Borne ==
  \A c \in Clients : \A n \in RecoverNames :
    mode[c] = "up" /\ File(c, n) # Absent => \E t \in Handles : Bears(t, c, n)

\* A recovery file replaces the cached copy, so that the last close is the one or,
\* if there is no recovery file, the other.
LastAt(c, f) ==
  \/ \E n \in RecoverNames : n[2] = f /\ File(c, n).data = closed[c][f]
  \/ /\ File(c, Cached(f)).data = closed[c][f]
     /\ \A n \in RecoverNames : n[2] = f => File(c, n) = Absent

LastKept == \A c \in Clients, f \in Files : Fresh(closed[c][f], f) => LastAt(c, f)

NInv ==
  /\ Counted /\ Later /\ OneRecovery /\ Borne /\ LastKept
  /\ \A t \in Handles : RequestNew(t)

LEMMA LastKeptHolds == IInv /\ LastKept => LastCloseKept
<1> SUFFICES ASSUME IInv, LastKept, NEW c \in Clients, NEW f \in Files,
                    closed[c][f][2] > since[f]
             PROVE  \E n \in RecoverNames \cup {Cached(f)} :
                      Has(c, n) /\ At(c, n).data = closed[c][f]
  BY DEF LastCloseKept
<1>1. PICK n \in RecoverNames \cup {Cached(f)} : File(c, n).data = closed[c][f]
  BY DEF LastKept, Fresh, LastAt
<1>2. n \in Names /\ closed[c][f] # Absent.data
  BY NameTypes, NoFileIsNoContent DEF IInv, TypeOK
<1> QED BY <1>1, <1>2, FileFacts

\* Types of what is compared.
LEMMA FileTypes ==
  IInv => \A c \in Clients, n \in Names :
            File(c, n).data[2] \in Nat /\ File(c, n).mtime \in Nat
<1>1. Absent.data[2] = 0 /\ Absent.mtime = 0 BY DEF Absent
<1>2. \A x \in Contents : x[2] \in Nat BY DEF Contents
<1> QED BY <1>1, <1>2, FileFacts

LEMMA FreshTypes ==
  ASSUME IInv
  PROVE  /\ writes \in Nat /\ clock \in Nat /\ Boot \in Nat
         /\ \A f \in Files : since[f] \in Nat /\ srv[f].data[2] \in Nat /\ srv[f].mtime \in Nat
         /\ \A c \in Clients, n \in Names :
              /\ File(c, n).data[2] \in Nat /\ File(c, n).mtime \in Nat
              /\ n[2] \in Files
              /\ File(c, n) = Absent <=> ~Has(c, n)
         /\ \A t \in Handles : th[t].buf[2] \in Nat
         /\ \A c \in Clients, f \in Files :
              closed[c][f][2] \in Nat /\ closed[c][f] # Absent.data
<1>1. /\ writes \in Nat /\ clock \in Nat /\ Boot \in Nat
      /\ \A f \in Files : since[f] \in Nat /\ srv[f] \in Node \cup {Absent}
      /\ \A c \in Clients, f \in Files : closed[c][f] \in Contents
      /\ \A t \in Handles : th[t].buf \in Contents \cup {<<NoFile, 0>>}
  BY ClockAssumption DEF IInv, TypeOK, ThreadState
<1>2. Absent.data[2] = 0 /\ Absent.mtime = 0 /\ <<NoFile, 0>>[2] = 0 BY DEF Absent
<1>3. \A x \in Contents : x[2] \in Nat /\ x # Absent.data
  BY NoFileIsNoContent DEF Contents
<1>4. \A x \in Node : x.data \in Contents /\ x.mtime \in Nat BY DEF Node
<1>5. \A n \in Names : n[2] \in Files
  BY DEF Names, CachedNames, TempNames, RecoverNames
<1>6. ASSUME NEW c \in Clients, NEW n \in Names
      PROVE  /\ File(c, n).data[2] \in Nat /\ File(c, n).mtime \in Nat
             /\ File(c, n) = Absent <=> ~Has(c, n)
  <2>1. CASE Has(c, n) BY <1>3, <2>1, FileFacts
  <2>2. CASE ~Has(c, n) BY <1>2, <2>2, FileFacts
  <2> QED BY <2>1, <2>2
<1> QED BY <1>1, <1>2, <1>3, <1>4, <1>5, <1>6

-----------------------------------------------------------------------------
(* What a step does to what is new.                                        *)

\* The server after a step: nothing gets new, and if the file was put there
\* nothing is new any more.
Ages ==
  /\ \A f \in Files : /\ since'[f] \in Nat /\ since[f] <= since'[f] /\ since'[f] <= writes'
                      /\ srv'[f].data[2] <= since'[f] /\ srv'[f].mtime < Boot + clock'
  /\ \A f \in Files, k \in Nat : k <= writes /\ k > since'[f] => srv'[f] = srv[f]
  /\ writes <= writes' /\ writes' \in Nat

LEMMA StaysAge ==
  ASSUME IInv, NInv, UNCHANGED <<srv, since>>, clock' \in {clock, clock + 1},
         writes' \in {writes, writes + 1}
  PROVE  Ages
BY FreshTypes DEF NInv, Counted, Ages

LEMMA ServedAge ==
  ASSUME IInv, NInv, NEW f \in Files, NEW x, x[2] \in Nat, x[2] <= writes, Serves(f, x),
         writes' = writes
  PROVE  Ages
<1>1. /\ srv'[f].data = x /\ srv'[f].mtime = Boot + clock /\ clock' = clock + 1
      /\ \A g \in Files \ {f} : srv'[g] = srv[g] /\ since'[g] = since[g]
      /\ since'[f] = writes
  BY DEF Serves, IInv, TypeOK
<1>2. ASSUME NEW g \in Files
      PROVE  /\ since'[g] \in Nat /\ since[g] <= since'[g] /\ since'[g] <= writes'
             /\ srv'[g].data[2] <= since'[g] /\ srv'[g].mtime < Boot + clock'
             /\ \A k \in Nat : k <= writes /\ k > since'[g] => srv'[g] = srv[g]
  <2>1. CASE g = f BY <1>1, <2>1, FreshTypes DEF NInv, Counted
  <2>2. CASE g # f BY <1>1, <2>2, FreshTypes DEF NInv, Counted
  <2> QED BY <2>1, <2>2
<1> QED BY <1>2, FreshTypes DEF Ages

\* What may be under a name after the step.
Sound(c, n) ==
  \/ \E m \in Names : m[2] = n[2] /\ FileNext(c, n) = File(c, m)
  \/ FileNext(c, n).data[2] <= since'[n[2]]
  \/ FileNext(c, n).data[2] <= writes' /\ FileNext(c, n).mtime > srv'[n[2]].mtime

LEMMA FileNextTypes ==
  ASSUME IInv'
  PROVE  \A c \in Clients, n \in Names :
           /\ FileNext(c, n).data[2] \in Nat /\ FileNext(c, n).mtime \in Nat
           /\ FileNext(c, n) = File(c, n)'
<1>1. (IInv => \A c \in Clients, n \in Names :
                 File(c, n).data[2] \in Nat /\ File(c, n).mtime \in Nat)'
  BY FileTypes, PTL
<1> QED BY <1>1, FileThen

LEMMA SoundLater ==
  ASSUME IInv, IInv', NInv, Ages, \A c \in Clients, n \in Names : Sound(c, n)
  PROVE  /\ Later'
         /\ \A c \in Clients, n \in Names : FileNext(c, n).data[2] <= writes'
<1>1. ASSUME NEW c \in Clients, NEW n \in Names
      PROVE  /\ FileNext(c, n).data[2] <= writes'
             /\ FileNext(c, n).data[2] > since'[n[2]] =>
                  FileNext(c, n).mtime > srv'[n[2]].mtime
  <2>1. n[2] \in Files BY FreshTypes
  <2>2. FileNext(c, n).data[2] \in Nat BY FileNextTypes
  <2>3. /\ since'[n[2]] \in Nat /\ since[n[2]] <= since'[n[2]] /\ since'[n[2]] <= writes'
        /\ since[n[2]] \in Nat /\ writes \in Nat /\ writes' \in Nat /\ writes <= writes'
    BY <2>1, FreshTypes DEF Ages
  <2>4. CASE \E m \in Names : m[2] = n[2] /\ FileNext(c, n) = File(c, m)
    <3>1. PICK m \in Names : m[2] = n[2] /\ FileNext(c, n) = File(c, m) BY <2>4
    <3>2. File(c, m).data[2] \in Nat /\ File(c, m).data[2] <= writes
      BY FreshTypes DEF NInv, Counted
    <3>3. ASSUME File(c, m).data[2] > since'[n[2]]
          PROVE  File(c, m).mtime > srv'[n[2]].mtime
      <4>1. srv'[n[2]] = srv[n[2]] BY <2>1, <3>2, <3>3 DEF Ages
      <4>2. New(c, m) BY <2>3, <3>1, <3>2, <3>3 DEF New, Fresh
      <4> QED BY <3>1, <4>1, <4>2 DEF NInv, Later
    <3> QED BY <2>3, <3>1, <3>2, <3>3
  <2>5. CASE FileNext(c, n).data[2] <= since'[n[2]]
    BY <2>2, <2>3, <2>5
  <2> QED BY <2>4, <2>5 DEF Sound
<1>2. Later'
  <2>1. ASSUME NEW c \in Clients, NEW n \in Names, New(c, n)'
        PROVE  (File(c, n).mtime > srv[n[2]].mtime)'
    BY <1>1, <2>1, FileNextTypes DEF New, Fresh
  <2> QED BY <2>1 DEF Later
<1> QED BY <1>1, <1>2

LEMMA CountedStep ==
  ASSUME Ages, \A c \in Clients, n \in Names : FileNext(c, n).data[2] <= writes',
         \A t \in Handles : th'[t].buf[2] <= writes',
         \A c \in Clients, f \in Files : closed'[c][f][2] <= writes'
  PROVE  Counted'
<1>1. ASSUME NEW c \in Clients, NEW n \in Names PROVE (File(c, n).data[2] <= writes)'
  BY FileThen
<1> QED BY <1>1 DEF Counted, Ages

\* RequestNew after the step.
RequestNext(t) ==
  LET c == ClientOf[t]
      n == Cached(th'[t].path)
      f == th'[t].path
  IN
  /\ th'[t].pc = "check" => th'[t].got = FileNext(c, n).mtime
  /\ th'[t].pc \in Fetching => FileNext(c, n).data[2] <= since'[f]
  /\ th'[t].pc = "install" => th'[t].buf[2] <= since'[f]
  /\ th'[t].pc = "stamp" =>
       \/ FileNext(c, th'[t].tmp).data[2] <= since'[f]
       \/ FileNext(c, n).data = FileNext(c, th'[t].tmp).data

LEMMA RequestTypes ==
  IInv => \A u \in Handles :
            /\ th[u].pc # "idle" => th[u].path \in Files
            /\ th[u].pc = "stamp" => th[u].tmp \in TempNames
            /\ th[u].buf[2] \in Nat
BY FreshTypes, Thread DEF RequestOK

LEMMA RequestNextTypes ==
  ASSUME IInv'
  PROVE  \A u \in Handles :
           /\ th'[u].pc # "idle" => th'[u].path \in Files
           /\ th'[u].pc = "stamp" => th'[u].tmp \in TempNames
           /\ th'[u].buf[2] \in Nat
<1>1. (IInv => \A u \in Handles :
                 /\ th[u].pc # "idle" => th[u].path \in Files
                 /\ th[u].pc = "stamp" => th[u].tmp \in TempNames
                 /\ th[u].buf[2] \in Nat)'
  BY RequestTypes, PTL
<1> QED BY <1>1

LEMMA RequestThen ==
  ASSUME IInv', PathInv', Ages, NEW t \in Handles, RequestNext(t)
  PROVE  RequestNew(t)'
<1> DEFINE c == ClientOf[t]
           f == th'[t].path
<1>0. CASE th'[t].pc = "idle" BY <1>0 DEF RequestNew, Fetching
<1>1. CASE th'[t].pc # "idle"
  <2>1. /\ th'[t].pc # "idle" => th'[t].path \in Files
        /\ th'[t].pc = "stamp" => th'[t].tmp \in TempNames
        /\ th'[t].buf[2] \in Nat
    BY RequestNextTypes
  <2>2. c \in Clients /\ f \in Files /\ Cached(f) \in Names /\ Cached(f)[2] = f
    BY <1>1, <2>1, ClientsAssumption, NameTypes, SecondOfName
  <2>3. FileNext(c, Cached(f)) = File(c, Cached(th[t].path))'
    BY DEF File, FileNext, Has, At, Cached, Absent
  <2>4. /\ FileNext(c, Cached(f)).data[2] \in Nat /\ since'[f] \in Nat
        /\ th'[t].buf[2] \in Nat
    BY <2>1, <2>2, FileNextTypes DEF Ages
  <2>5. /\ (th[t].pc = "check" => th[t].got = File(ClientOf[t], Cached(th[t].path)).mtime)'
        /\ (th[t].pc \in Fetching => ~New(ClientOf[t], Cached(th[t].path)))'
        /\ (th[t].pc = "install" => ~Fresh(th[t].buf, th[t].path))'
    BY <2>2, <2>3, <2>4 DEF RequestNext, New, Fresh, Fetching, Cached
  <2>6. ASSUME th'[t].pc = "stamp", New(ClientOf[t], th[t].tmp)'
        PROVE  (File(ClientOf[t], Cached(th[t].path)).data = File(ClientOf[t], th[t].tmp).data)'
    <3>1. th'[t].tmp \in Names /\ th'[t].tmp # NoName BY <2>1, <2>6, NameTypes
    <3>2. th'[t].tmp[2] = f BY <3>1 DEF PathInv, PathOK
    <3>3. FileNext(c, th'[t].tmp) = File(c, th[t].tmp)'
      BY <2>2, <3>1 DEF File, FileNext, Has, At, Absent
    <3>4. FileNext(c, th'[t].tmp).data[2] \in Nat BY <2>2, <3>1, FileNextTypes
    <3>5. FileNext(c, th'[t].tmp).data[2] > since'[f]
      BY <2>6, <3>2, <3>3 DEF New, Fresh
    <3> QED BY <2>3, <2>4, <2>6, <3>3, <3>4, <3>5 DEF RequestNext
  <2> QED BY <2>5, <2>6 DEF RequestNew
<1> QED BY <1>0, <1>1

\* A request that waits while its files stay.
LEMMA WaitingNew ==
  ASSUME IInv, PathInv, NInv, Ages, NEW u \in Handles, th'[u] = th[u],
         LET c == ClientOf[u]
             n == Cached(th[u].path)
         IN
         th[u].pc \in Fetching \cup {"check", "stamp"} =>
           /\ FileNext(c, n) = File(c, n)
           /\ th[u].pc = "stamp" => FileNext(c, th[u].tmp) = File(c, th[u].tmp)
  PROVE  RequestNext(u)
<1> DEFINE c == ClientOf[u]
           f == th[u].path
           n == Cached(f)
<1>0. CASE th[u].pc \notin Fetching \cup {"check", "stamp"}
  BY <1>0 DEF RequestNext, Fetching
<1>1. CASE th[u].pc \in Fetching \cup {"check", "stamp"}
  <2>1. c \in Clients /\ f \in Files /\ n \in Names /\ n[2] = f
    BY <1>1, Thread, NameTypes, SecondOfName DEF Fetching
  <2>2. /\ since[f] \in Nat /\ since'[f] \in Nat /\ since[f] <= since'[f]
        /\ File(c, n).data[2] \in Nat /\ th[u].buf[2] \in Nat
    BY <2>1, FreshTypes DEF Ages
  <2>3. RequestNew(u) BY DEF NInv
  <2>4. th[u].pc \in Fetching => FileNext(c, n).data[2] <= since'[f]
    BY <1>1, <2>1, <2>2, <2>3 DEF RequestNew, New, Fresh
  <2>5. th[u].pc = "install" => th[u].buf[2] <= since'[f]
    BY <2>2, <2>3 DEF RequestNew, Fresh
  <2>6. ASSUME th[u].pc = "stamp"
        PROVE  \/ File(c, th[u].tmp).data[2] <= since'[f]
               \/ File(c, n).data = File(c, th[u].tmp).data
    <3>1. th[u].tmp \in Names /\ th[u].tmp[2] = f
      BY <2>6, Thread, NameTypes DEF RequestOK, PathInv, PathOK
    <3>2. File(c, th[u].tmp).data[2] \in Nat BY <2>1, <3>1, FreshTypes
    <3> QED BY <2>2, <2>3, <2>6, <3>1, <3>2 DEF RequestNew, New, Fresh
  <2>7. th[u].pc = "check" => th[u].got = FileNext(c, n).mtime
    BY <1>1, <2>3 DEF RequestNew
  <2> HIDE DEF n
  <2>8. Cached(th'[u].path) = n BY DEF n
  <2> QED BY <1>1, <2>4, <2>5, <2>6, <2>7, <2>8 DEF RequestNext
<1> QED BY <1>0, <1>1

\* The files that a step of request t leaves: all, those of other paths, or, if
\* it writes, all but its own.
Apart(t) ==
  \/ FilesStay
  \/ /\ th[t].pc \notin {"idle", "open"}
     /\ \A d \in Clients, k \in Names :
          d # ClientOf[t] \/ k[2] # th[t].path => FileNext(d, k) = File(d, k)
  \/ th[t].pc = "open" /\ Elsewhere(ClientOf[t], th[t].tmp)

LEMMA OthersNew ==
  ASSUME SInv, PathInv, NInv, Sequential, Ages, NEW t \in Handles, Others(t), Apart(t),
         NEW u \in Handles, u # t
  PROVE  RequestNext(u)
<1>0. IInv /\ PInv BY DEF SInv, PInv
<1>1. th'[u] = th[u] BY DEF Others
<1> DEFINE c == ClientOf[u]
           f == th[u].path
<1>2. ASSUME th[u].pc \in Fetching \cup {"check", "stamp"}
      PROVE  /\ FileNext(c, Cached(f)) = File(c, Cached(f))
             /\ th[u].pc = "stamp" => FileNext(c, th[u].tmp) = File(c, th[u].tmp)
  <2>1. c \in Clients /\ f \in Files /\ Cached(f) \in Names /\ Cached(f)[2] = f
    BY <1>0, <1>2, Thread, SecondOfName DEF Fetching
  <2>2. ASSUME th[u].pc = "stamp"
        PROVE  th[u].tmp \in Names /\ th[u].tmp \in TempNames /\ th[u].tmp[2] = f
    BY <1>0, <2>2, Thread, NameTypes DEF RequestOK, PathInv, PathOK
  <2>3. CASE FilesStay BY <2>1, <2>2, <2>3 DEF FilesStay
  <2>4. CASE /\ th[t].pc \notin {"idle", "open"}
             /\ \A d \in Clients, k \in Names :
                  d # ClientOf[t] \/ k[2] # th[t].path => FileNext(d, k) = File(d, k)
    <3>1. c # ClientOf[t] \/ f # th[t].path BY <1>2, <2>4 DEF Sequential, Fetching
    <3> QED BY <2>1, <2>2, <2>4, <3>1
  <2>5. CASE th[t].pc = "open" /\ Elsewhere(ClientOf[t], th[t].tmp)
    <3>1. th[t].tmp \in TempNames /\ Unshared(t) BY <2>5, HandleFile
    <3>2. Cached(f) # th[t].tmp BY <3>1, NameKinds
    <3>3. c # ClientOf[t] \/ th[u].tmp # th[t].tmp BY <3>1 DEF Unshared, Peers
    <3> QED BY <2>1, <2>2, <2>5, <3>2, <3>3 DEF Elsewhere
  <2> QED BY <2>3, <2>4, <2>5 DEF Apart
<1> QED BY <1>0, <1>1, <1>2, WaitingNew

\* The rest of the invariant after a step.
BearsNext(t, c, n) ==
  /\ ClientOf[t] = c /\ n = Recover(th'[t].tmp)
  /\ \/ th'[t].pc \in {"send", "swap"}
     \/ th'[t].pc = "close" /\ tempMap'[c][th'[t].fd] # NoName

LastNext(c, f) ==
  \/ \E n \in RecoverNames : n[2] = f /\ FileNext(c, n).data = closed'[c][f]
  \/ /\ FileNext(c, Cached(f)).data = closed'[c][f]
     /\ \A n \in RecoverNames : n[2] = f => FileNext(c, n) = Absent

LEMMA RecoveryThen ==
  \A c \in Clients, n \in RecoverNames : File(c, n)' = FileNext(c, n)
BY FileThen, NameTypes

LEMMA BorneStep ==
  ASSUME \A c \in Clients : \A n \in RecoverNames :
           mode'[c] = "up" /\ FileNext(c, n) # Absent => \E t \in Handles : BearsNext(t, c, n)
  PROVE  Borne'
<1>1. ASSUME NEW c \in Clients, NEW n \in RecoverNames,
             (mode[c] = "up" /\ File(c, n) # Absent)'
      PROVE  (\E t \in Handles : Bears(t, c, n))'
  <2>1. mode'[c] = "up" /\ FileNext(c, n) # Absent BY <1>1, RecoveryThen DEF Absent
  <2>2. PICK t \in Handles : BearsNext(t, c, n) BY <2>1
  <2> QED BY <2>2 DEF BearsNext, Bears, Recover, NoName
<1> QED BY <1>1 DEF Borne

LEMMA LastStep ==
  ASSUME \A c \in Clients, f \in Files : closed'[c][f][2] > since'[f] => LastNext(c, f)
  PROVE  LastKept'
<1>1. ASSUME NEW c \in Clients, NEW f \in Files, Fresh(closed[c][f], f)'
      PROVE  LastAt(c, f)'
  <2>1. LastNext(c, f) BY <1>1 DEF Fresh
  <2>2. Cached(f) \in Names BY NameTypes
  <2>3. /\ \A n \in RecoverNames : FileNext(c, n) = File(c, n)'
        /\ FileNext(c, Cached(f)) = File(c, Cached(f))'
    BY <2>2, RecoveryThen, FileThen
  <2>4. Absent' = Absent /\ Cached(f)' = Cached(f) BY DEF Absent, Cached
  <2> QED BY <2>1, <2>3, <2>4 DEF LastNext, LastAt
<1> QED BY <1>1 DEF LastKept

LEMMA RecoveryStep ==
  ASSUME OneRecovery,
         \A c \in Clients, n \in RecoverNames :
           FileNext(c, n) # Absent => File(c, n) # Absent
  PROVE  OneRecovery'
<1>1. ASSUME NEW c \in Clients, NEW m \in RecoverNames, NEW n \in RecoverNames, m[2] = n[2],
             (File(c, m) # Absent /\ File(c, n) # Absent)'
      PROVE  m = n
  <2>1. FileNext(c, m) # Absent /\ FileNext(c, n) # Absent
    BY <1>1, RecoveryThen DEF Absent
  <2> QED BY <1>1, <2>1 DEF OneRecovery
<1> QED BY <1>1 DEF OneRecovery

\* A step of request t that does not give a file a recovery name.
LEMMA BorneKept ==
  ASSUME NInv, NEW t \in Handles, Others(t), mode' = mode,
         \A c \in Clients, n \in RecoverNames : FileNext(c, n) \in {File(c, n), Absent},
         \A u \in Handles \ {t} :
           th[u].pc = "close" /\ tempMap[ClientOf[u]][th[u].fd] # NoName =>
             tempMap'[ClientOf[u]][th[u].fd] # NoName,
         \A n \in RecoverNames :
           Bears(t, ClientOf[t], n) /\ FileNext(ClientOf[t], n) # Absent =>
             BearsNext(t, ClientOf[t], n)
  PROVE  Borne'
<1>1. ASSUME NEW c \in Clients, NEW n \in RecoverNames, mode'[c] = "up",
             FileNext(c, n) # Absent
      PROVE  \E u \in Handles : BearsNext(u, c, n)
  <2>1. PICK u \in Handles : Bears(u, c, n) BY <1>1 DEF NInv, Borne
  <2>2. ClientOf[u] = c BY <2>1 DEF Bears
  <2>3. CASE u = t BY <1>1, <2>1, <2>2, <2>3
  <2>4. CASE u # t
    <3>1. th'[u] = th[u] BY <2>4 DEF Others
    <3>2. BearsNext(u, c, n) BY <2>1, <2>4, <3>1 DEF Bears, BearsNext
    <3> QED BY <3>2
  <2> QED BY <2>3, <2>4
<1> QED BY <1>1, BorneStep

LEMMA LastStays ==
  ASSUME IInv, NInv, Ages, NEW c \in Clients, NEW f \in Files,
         closed'[c][f] = closed[c][f],
         \A n \in RecoverNames : n[2] = f => FileNext(c, n) = File(c, n),
         \/ FileNext(c, Cached(f)).data = File(c, Cached(f)).data
         \/ ~New(c, Cached(f)),
         closed'[c][f][2] > since'[f]
  PROVE  LastNext(c, f)
<1>1. closed[c][f][2] > since[f] BY FreshTypes DEF Ages
<1>2. LastAt(c, f) BY <1>1 DEF NInv, LastKept, Fresh
<1>3. CASE \E n \in RecoverNames : n[2] = f /\ File(c, n).data = closed[c][f]
  BY <1>3 DEF LastNext
<1>4. CASE /\ File(c, Cached(f)).data = closed[c][f]
           /\ \A n \in RecoverNames : n[2] = f => File(c, n) = Absent
  <2>1. New(c, Cached(f)) BY <1>1, <1>4, SecondOfName DEF New, Fresh
  <2> QED BY <1>4, <2>1 DEF LastNext
<1> QED BY <1>2, <1>3, <1>4 DEF LastAt

\* The parts together.
LEMMA PartsNew ==
  ASSUME IInv, IInv', PathInv', NInv, Ages, \A c \in Clients, n \in Names : Sound(c, n),
         \A u \in Handles : RequestNext(u) /\ th'[u].buf[2] <= writes',
         \A c \in Clients, f \in Files : closed'[c][f][2] <= writes',
         OneRecovery', Borne',
         \A c \in Clients, f \in Files : closed'[c][f][2] > since'[f] => LastNext(c, f)
  PROVE  NInv'
<1>1. Later' /\ \A c \in Clients, n \in Names : FileNext(c, n).data[2] <= writes'
  BY SoundLater
<1>2. Counted' BY <1>1, CountedStep
<1>3. LastKept' BY LastStep
<1>4. \A u \in Handles : RequestNew(u)' BY RequestThen
<1> QED BY <1>1, <1>2, <1>3, <1>4 DEF NInv

\* A request that takes a step, and those that wait for it.
LEMMA RequestsNew ==
  ASSUME SInv, PathInv, NInv, Sequential, Ages, NEW t \in Handles, Others(t), Apart(t),
         RequestNext(t), th'[t].buf[2] <= writes'
  PROVE  \A u \in Handles : RequestNext(u) /\ th'[u].buf[2] <= writes'
<1>0. IInv BY DEF SInv, PInv
<1>1. ASSUME NEW u \in Handles PROVE RequestNext(u) /\ th'[u].buf[2] <= writes'
  <2>1. CASE u = t BY <2>1
  <2>2. CASE u # t
    <3>1. th[u].buf[2] \in Nat /\ th[u].buf[2] <= writes /\ th'[u] = th[u]
      BY <1>0, <2>2, FreshTypes DEF NInv, Counted, Others
    <3> QED BY <1>0, <2>2, <3>1, OthersNew, FreshTypes DEF Ages
  <2> QED BY <2>1, <2>2
<1> QED BY <1>1

LEMMA ClosedCounted ==
  ASSUME IInv, NInv, Ages, closed' = closed
  PROVE  \A c \in Clients, f \in Files : closed'[c][f][2] <= writes'
BY FreshTypes DEF NInv, Counted, Ages

\* A step of a request that leaves the recovery files and the new cached copies.
LEMMA RequestStepNew ==
  ASSUME SInv, SInv', PathInv, PathInv', NInv, Sequential, Ages, NEW t \in Handles,
         Others(t), Apart(t), mode' = mode, closed' = closed,
         \A c \in Clients, n \in RecoverNames : FileNext(c, n) = File(c, n),
         \A c \in Clients, f \in Files :
           \/ FileNext(c, Cached(f)).data = File(c, Cached(f)).data
           \/ ~New(c, Cached(f)),
         \A c \in Clients, n \in Names : Sound(c, n),
         \A u \in Handles \ {t} :
           th[u].pc = "close" /\ tempMap[ClientOf[u]][th[u].fd] # NoName =>
             tempMap'[ClientOf[u]][th[u].fd] # NoName,
         \A n \in RecoverNames :
           Bears(t, ClientOf[t], n) /\ FileNext(ClientOf[t], n) # Absent =>
             BearsNext(t, ClientOf[t], n),
         RequestNext(t), th'[t].buf[2] <= writes'
  PROVE  NInv'
<1>0. IInv /\ IInv' BY DEF SInv, PInv
<1>1. \A u \in Handles : RequestNext(u) /\ th'[u].buf[2] <= writes' BY RequestsNew
<1>2. \A c \in Clients, f \in Files : closed'[c][f][2] <= writes'
  BY <1>0, ClosedCounted
<1>3. OneRecovery' BY RecoveryStep DEF NInv
<1>4. Borne' BY BorneKept
<1>5. \A c \in Clients, f \in Files : closed'[c][f][2] > since'[f] => LastNext(c, f)
  BY <1>0, LastStays
<1> QED BY <1>0, <1>1, <1>2, <1>3, <1>4, <1>5, PartsNew

\* A step of a request that leaves the files.
LEMMA StillNew ==
  ASSUME SInv, SInv', PathInv, PathInv', NInv, Sequential, Ages, NEW t \in Handles,
         Others(t), FilesStay, mode' = mode, closed' = closed,
         \A u \in Handles \ {t} :
           th[u].pc = "close" /\ tempMap[ClientOf[u]][th[u].fd] # NoName =>
             tempMap'[ClientOf[u]][th[u].fd] # NoName,
         \A n \in RecoverNames : Bears(t, ClientOf[t], n) => BearsNext(t, ClientOf[t], n),
         RequestNext(t), th'[t].buf[2] <= writes'
  PROVE  NInv'
<1>1. \A c \in Clients, n \in Names : Sound(c, n) BY DEF FilesStay, Sound
<1>2. /\ \A c \in Clients, n \in RecoverNames : FileNext(c, n) = File(c, n)
      /\ \A c \in Clients, f \in Files : FileNext(c, Cached(f)) = File(c, Cached(f))
  BY NameTypes DEF FilesStay
<1>3. Apart(t) BY DEF Apart
<1> QED BY <1>1, <1>2, <1>3, RequestStepNew

LEMMA NotOpening ==
  ASSUME NEW t, th'[t].pc \notin Fetching \cup {"check", "stamp"}
  PROVE  RequestNext(t)
BY DEF RequestNext, Fetching

LEMMA BuffersCounted ==
  ASSUME IInv, NInv, Ages, NEW t \in Handles,
         th'[t].buf = th[t].buf \/ th'[t].buf = <<NoFile, 0>>
  PROVE  th'[t].buf[2] <= writes'
BY FreshTypes DEF NInv, Counted, Ages

-----------------------------------------------------------------------------
(* client_open and client_getattr.                                         *)

LEMMA LookupNew ==
  ASSUME SInv, SInv', PathInv, PathInv', NInv, Sequential, NEW t \in Handles,
         NEW f \in Files, NEW want \in {"open", "getattr"}, Lookup(t, f, want)
  PROVE  NInv'
<1> DEFINE c == ClientOf[t]
           n == Cached(f)
<1>0. IInv /\ c \in Clients /\ n \in Names
  BY ClientsAssumption, NameTypes DEF SInv, PInv
<1>1. /\ AroundStays /\ ServerStays /\ CountsStay /\ FilesStay /\ UNCHANGED tempMap
      /\ Others(t) /\ th[t] = Idle
      /\ th'[t].path = f /\ th'[t].buf = <<NoFile, 0>>
      /\ \/ th'[t].pc = "check" /\ th'[t].got = File(c, n).mtime
         \/ th'[t].pc = "fetch" /\ ~Has(c, n)
  BY <1>0, LookupEffect
<1>2. Ages BY <1>0, <1>1, StaysAge DEF ServerStays, CountsStay
<1>3. FileNext(c, n) = File(c, n) BY <1>0, <1>1 DEF FilesStay
<1>4. ASSUME th'[t].pc = "check" PROVE RequestNext(t)
  BY <1>0, <1>1, <1>3, <1>4 DEF RequestNext, Fetching
<1>5. ASSUME th'[t].pc = "fetch" PROVE RequestNext(t)
  <2>1. File(c, n).data[2] = 0 BY <1>1, <1>5 DEF File, Absent
  <2>2. 0 <= since'[f] BY <1>2 DEF Ages
  <2> HIDE DEF n
  <2>3. Cached(th'[t].path) = n BY <1>1 DEF n
  <2> QED BY <1>1, <1>3, <1>5, <2>1, <2>2, <2>3 DEF RequestNext
<1>6. th[t].pc = "idle" BY <1>1, IdleState
<1>7. th'[t].buf[2] <= writes' BY <1>0, <1>1, <1>2, BuffersCounted
<1> QED BY <1>1, <1>2, <1>4, <1>5, <1>6, <1>7, StillNew
        DEF AroundStays, CountsStay, Bears

LEMMA CheckNew ==
  ASSUME SInv, SInv', PathInv, PathInv', NInv, Sequential, NEW t \in Handles,
         NEW ok \in BOOLEAN, Check(t, ok)
  PROVE  NInv'
<1> DEFINE c == ClientOf[t]
           f == th[t].path
           n == Cached(f)
<1>1. IInv BY DEF SInv, PInv
<1>2. /\ AroundStays /\ ServerStays /\ CountsStay /\ FilesStay /\ UNCHANGED tempMap
      /\ th[t].pc = "check"
      /\ \/ Goes(t, "fetch") /\ th[t].got < Mtime(f, ok)
         \/ Goes(t, "copy") /\ th[t].want = "open"
         \/ Ends(t)
  BY <1>1, CheckEffect
<1>3. Ages BY <1>1, <1>2, StaysAge DEF ServerStays, CountsStay
<1>4. c \in Clients /\ f \in Files /\ n \in Names /\ n[2] = f
  BY <1>1, <1>2, Thread, SecondOfName
<1>5. /\ Others(t) /\ th'[t].pc \in {"fetch", "copy", "idle"}
      /\ th'[t].buf = th[t].buf \/ th'[t].buf = <<NoFile, 0>>
  BY <1>2 DEF Goes, Steps, Ends
<1>6. ASSUME Goes(t, "fetch"), th[t].got < Mtime(f, ok) PROVE RequestNext(t)
  <2>1. th[t].got = File(c, n).mtime BY <1>2 DEF NInv, RequestNew
  <2>2. /\ File(c, n).mtime \in Nat /\ srv[f].mtime \in Nat
        /\ File(c, n).data[2] \in Nat /\ since[f] \in Nat
    BY <1>1, <1>4, FreshTypes
  <2>3. File(c, n).mtime < srv[f].mtime BY <1>6, <2>1, <2>2 DEF Mtime
  <2>4. ~(File(c, n).mtime > srv[n[2]].mtime) BY <1>4, <2>2, <2>3
  <2>5. ~New(c, n) BY <1>4, <2>4 DEF NInv, Later
  <2>6. FileNext(c, n).data[2] <= since'[f]
    BY <1>2, <1>4, <2>2, <2>5 DEF New, Fresh, FilesStay, ServerStays
  <2> HIDE DEF n
  <2>7. th'[t].path = f /\ Cached(th'[t].path) = n /\ th'[t].pc = "fetch"
    BY <1>6 DEF Goes, Steps, n
  <2> QED BY <2>6, <2>7 DEF RequestNext
<1>7. ASSUME th'[t].pc # "fetch" PROVE RequestNext(t)
  BY <1>5, <1>7, NotOpening DEF Fetching
<1>8. RequestNext(t) BY <1>2, <1>6, <1>7 DEF Goes, Steps, Ends
<1>9. th'[t].buf[2] <= writes' BY <1>1, <1>3, <1>5, BuffersCounted
<1> QED BY <1>2, <1>3, <1>5, <1>8, <1>9, StillNew DEF AroundStays, CountsStay, Bears

LEMMA FetchNew ==
  ASSUME SInv, SInv', PathInv, PathInv', NInv, Sequential, NEW t \in Handles,
         NEW ok \in BOOLEAN, Fetch(t, ok) \/ Getattr(t, ok)
  PROVE  NInv'
<1> DEFINE c == ClientOf[t]
           f == th[t].path
           n == Cached(f)
<1>1. IInv BY DEF SInv, PInv
<1>2. /\ AroundStays /\ ServerStays /\ CountsStay /\ FilesStay /\ UNCHANGED tempMap
      /\ th[t].pc \in {"fetch", "getattr"} /\ Others(t)
      /\ th'[t].pc \in {"install", "getattr", "utimens"} /\ th'[t].path = f
      /\ \/ th'[t].buf = th[t].buf /\ th'[t].pc # "install"
         \/ th'[t].buf = srv[f].data
  BY <1>1, FetchEffect, GetattrEffect DEF Goes, Steps
<1>3. Ages BY <1>1, <1>2, StaysAge DEF ServerStays, CountsStay
<1>4. c \in Clients /\ f \in Files /\ n \in Names /\ n[2] = f
  BY <1>1, <1>2, Thread, SecondOfName
<1>5. ~New(c, n) BY <1>2 DEF NInv, RequestNew, Fetching
<1>6. /\ since'[f] = since[f] /\ since[f] \in Nat /\ File(c, n).data[2] \in Nat
      /\ FileNext(c, n) = File(c, n) /\ srv[f].data[2] \in Nat
      /\ srv[f].data[2] <= since[f] /\ since'[f] <= writes' /\ writes' \in Nat
  BY <1>1, <1>2, <1>3, <1>4, FreshTypes DEF FilesStay, ServerStays, NInv, Counted, Ages
<1>7. FileNext(c, n).data[2] <= since'[f] BY <1>4, <1>5, <1>6 DEF New, Fresh
<1>8. th'[t].pc = "install" => th'[t].buf[2] <= since'[f] BY <1>2, <1>6
<1>9. RequestNext(t)
  <2> HIDE DEF n
  <2>1. Cached(th'[t].path) = n BY <1>2 DEF n
  <2> QED BY <1>2, <1>7, <1>8, <2>1 DEF RequestNext, Fetching
<1>10. th'[t].buf[2] <= writes' BY <1>1, <1>2, <1>3, <1>6, BuffersCounted
<1> QED BY <1>2, <1>3, <1>9, <1>10, StillNew DEF AroundStays, CountsStay, Bears

\* A step of a request that changes one file, which is no recovery file.
LEMMA OneFileNew ==
  ASSUME SInv, SInv', PathInv, PathInv', NInv, Sequential, Ages, NEW t \in Handles,
         Others(t), Apart(t), mode' = mode, closed' = closed,
         NEW n \in Names \ RecoverNames, Elsewhere(ClientOf[t], n), Sound(ClientOf[t], n),
         n \in TempNames \/ ~New(ClientOf[t], n),
         \A u \in Handles \ {t} :
           th[u].pc = "close" /\ tempMap[ClientOf[u]][th[u].fd] # NoName =>
             tempMap'[ClientOf[u]][th[u].fd] # NoName,
         th[t].pc \notin {"send", "swap", "close"},
         RequestNext(t), th'[t].buf[2] <= writes'
  PROVE  NInv'
<1>1. \A c \in Clients, m \in Names : Sound(c, m) BY DEF Elsewhere, Sound
<1>2. \A c \in Clients, m \in RecoverNames : FileNext(c, m) = File(c, m)
  BY NameTypes DEF Elsewhere
<1>3. ASSUME NEW c \in Clients, NEW f \in Files
      PROVE  \/ FileNext(c, Cached(f)).data = File(c, Cached(f)).data
             \/ ~New(c, Cached(f))
  <2>1. Cached(f) \in Names /\ Cached(f) \notin TempNames BY NameTypes, NameKinds
  <2>2. CASE c # ClientOf[t] \/ Cached(f) # n BY <2>1, <2>2 DEF Elsewhere
  <2>3. CASE c = ClientOf[t] /\ Cached(f) = n BY <2>1, <2>3
  <2> QED BY <2>2, <2>3
<1>4. \A m \in RecoverNames : ~Bears(t, ClientOf[t], m) BY DEF Bears
<1> QED BY <1>1, <1>2, <1>3, <1>4, RequestStepNew

LEMMA ApartFile ==
  ASSUME NEW t \in Handles, NEW n \in Names, th[t].pc \notin {"idle", "open"},
         n[2] = th[t].path, Elsewhere(ClientOf[t], n)
  PROVE  Apart(t)
BY DEF Elsewhere, Apart

LEMMA CachedName ==
  \A f \in Files : Cached(f) \in Names \ RecoverNames /\ Cached(f)[2] = f
BY NameTypes, SecondOfName DEF Cached, RecoverNames

LEMMA TempName == \A n \in TempNames : n \in Names \ RecoverNames
BY NameTypes DEF TempNames, RecoverNames

LEMMA InstallNew ==
  ASSUME SInv, SInv', PathInv, PathInv', NInv, Sequential, NEW t \in Handles, Install(t)
  PROVE  NInv'
<1> DEFINE c == ClientOf[t]
           f == th[t].path
           n == Cached(f)
<1>1. IInv /\ PInv BY DEF SInv, PInv
<1>2. /\ AroundStays /\ ServerStays /\ CountsStay /\ UNCHANGED tempMap
      /\ FileNext(c, n) = [data |-> th[t].buf, mtime |-> Local(c)] /\ Elsewhere(c, n)
      /\ th[t].pc = "install" /\ Others(t)
      /\ th'[t].pc = "getattr" /\ th'[t].path = f /\ th'[t].buf = <<NoFile, 0>>
  BY <1>1, InstallEffect
<1>3. Ages BY <1>1, <1>2, StaysAge DEF ServerStays, CountsStay
<1>4. c \in Clients /\ f \in Files /\ n \in Names \ RecoverNames /\ n[2] = f
  BY <1>1, <1>2, Thread, CachedName
<1>5. ~New(c, n) /\ ~Fresh(th[t].buf, f) BY <1>2 DEF NInv, RequestNew, Fetching
<1>6. FileNext(c, n).data[2] <= since'[f]
  <2>1. th[t].buf[2] \in Nat /\ since[f] \in Nat /\ since'[f] = since[f]
    BY <1>1, <1>2, <1>4, FreshTypes DEF ServerStays
  <2> QED BY <1>2, <1>5, <2>1 DEF Fresh
<1>7. th'[t].buf[2] <= writes' BY <1>1, <1>2, <1>3, BuffersCounted
<1> HIDE DEF n
<1>8. Cached(th'[t].path) = n BY <1>2 DEF n
<1>9. RequestNext(t) BY <1>2, <1>6, <1>8 DEF RequestNext
<1>10. Sound(c, n) /\ Apart(t) BY <1>2, <1>4, <1>6, ApartFile DEF Sound
<1> QED BY <1>2, <1>3, <1>4, <1>5, <1>7, <1>9, <1>10, OneFileNew
        DEF AroundStays, CountsStay

LEMMA UtimensNew ==
  ASSUME SInv, SInv', PathInv, PathInv', NInv, Sequential, NEW t \in Handles, Utimens(t)
  PROVE  NInv'
<1> DEFINE c == ClientOf[t]
           f == th[t].path
           n == Cached(f)
<1>1. IInv /\ PInv BY DEF SInv, PInv
<1>2. /\ AroundStays /\ ServerStays /\ CountsStay /\ UNCHANGED tempMap
      /\ FileNext(c, n).data = File(c, n).data /\ Elsewhere(c, n)
      /\ th[t].pc = "utimens" /\ Others(t) /\ th'[t].pc \in {"copy", "idle"}
      /\ th'[t].buf = th[t].buf \/ th'[t].buf = <<NoFile, 0>>
  <2>1. /\ AroundStays /\ ServerStays /\ CountsStay /\ UNCHANGED tempMap
        /\ Has(c, n) => FileNext(c, n) = [data |-> File(c, n).data, mtime |-> th[t].got]
        /\ ~Has(c, n) => FileNext(c, n) = File(c, n)
        /\ Elsewhere(c, n) /\ th[t].pc = "utimens"
        /\ Goes(t, "copy") \/ Ends(t)
    BY UtimensEffect
  <2>2. /\ Others(t) /\ th'[t].pc \in {"copy", "idle"}
        /\ th'[t].buf = th[t].buf \/ th'[t].buf = <<NoFile, 0>>
    BY <2>1 DEF Goes, Steps, Ends
  <2> HIDE DEF c, n
  <2>3. FileNext(c, n).data = File(c, n).data BY <2>1
  <2> QED BY <2>1, <2>2, <2>3
<1>3. Ages BY <1>1, <1>2, StaysAge DEF ServerStays, CountsStay
<1>4. c \in Clients /\ f \in Files /\ n \in Names \ RecoverNames /\ n[2] = f
  BY <1>1, <1>2, Thread, CachedName
<1>5. ~New(c, n) BY <1>2 DEF NInv, RequestNew, Fetching
<1>6. FileNext(c, n).data[2] <= since'[f]
  <2>1. File(c, n).data[2] \in Nat /\ since[f] \in Nat /\ since'[f] = since[f]
    BY <1>1, <1>2, <1>4, FreshTypes DEF ServerStays
  <2> QED BY <1>2, <1>4, <1>5, <2>1 DEF New, Fresh
<1>7. th'[t].buf[2] <= writes' BY <1>1, <1>2, <1>3, BuffersCounted
<1>8. RequestNext(t) BY <1>2, NotOpening DEF Fetching
<1> HIDE DEF n
<1>9. Sound(c, n) /\ Apart(t) BY <1>2, <1>4, <1>6, ApartFile DEF Sound
<1> QED BY <1>2, <1>3, <1>4, <1>5, <1>7, <1>8, <1>9, OneFileNew
        DEF AroundStays, CountsStay

\* The copy looks as new as the client's clock says.
LEMMA LocalIsLater ==
  ASSUME IInv, NInv, NEW c \in Clients, NEW f \in Files
  PROVE  Local(c) \in Nat /\ Local(c) > srv[f].mtime
<1>1. /\ clock \in Nat /\ Boot \in Nat /\ srv[f].mtime \in Nat
      /\ srv[f].mtime < Boot + clock /\ Skew[c] \in Nat
  BY FreshTypes, ClockAssumption DEF NInv, Counted
<1> QED BY <1>1 DEF Local

LEMMA CopyNew ==
  ASSUME ~Collisions, SInv, SInv', PathInv, PathInv', NInv, Sequential, NEW t \in Handles,
         NEW s \in Suffixes, Copy(t, s)
  PROVE  NInv'
<1> DEFINE c == ClientOf[t]
           f == th[t].path
           n == Temp(f, s)
           m == Cached(f)
<1>1. IInv /\ PInv BY DEF SInv, PInv
<1>2. /\ AroundStays /\ ServerStays /\ CountsStay /\ UNCHANGED tempMap
      /\ Elsewhere(c, n) /\ th[t].pc = "copy" /\ Others(t)
      /\ IF Has(c, m) THEN FileNext(c, n) = [data |-> File(c, m).data, mtime |-> Local(c)]
                      ELSE FileNext(c, n) = Absent
      /\ th'[t].pc = "stamp" /\ th'[t].path = f /\ th'[t].buf = th[t].buf /\ th'[t].tmp = n
  BY <1>1, CopyEffect
<1>3. Ages BY <1>1, <1>2, StaysAge DEF ServerStays, CountsStay
<1>4. /\ c \in Clients /\ f \in Files /\ m \in Names /\ n \in TempNames
      /\ n \in Names \ RecoverNames /\ n[2] = f /\ m # n
  BY <1>1, <1>2, Thread, CachedName, NameTypes, NameKinds, TempName, SecondOfName
<1>5. FileNext(c, m) = File(c, m) BY <1>2, <1>4 DEF Elsewhere
<1>6. th'[t].buf[2] <= writes' BY <1>1, <1>2, <1>3, BuffersCounted
<1> HIDE DEF n, m
<1>7. Cached(th'[t].path) = m BY <1>2 DEF m
<1>8. CASE Has(c, m)
  <2>1. FileNext(c, n) = [data |-> File(c, m).data, mtime |-> Local(c)] BY <1>2, <1>8
  <2>2. /\ FileNext(c, n).data = File(c, m).data /\ FileNext(c, n).mtime = Local(c)
        /\ File(c, m).data[2] <= writes /\ writes' = writes /\ srv' = srv
    BY <1>2, <1>4, <2>1 DEF NInv, Counted, CountsStay, ServerStays
  <2>3. Local(c) > srv[f].mtime BY <1>1, <1>4, LocalIsLater
  <2>4. Sound(c, n) BY <1>4, <2>2, <2>3 DEF Sound
  <2>5. RequestNext(t) BY <1>2, <1>5, <1>7, <2>2 DEF RequestNext, Fetching
  <2>6. Apart(t) BY <1>2, <1>4, ApartFile
  <2> QED BY <1>2, <1>3, <1>4, <1>6, <2>4, <2>5, <2>6, OneFileNew
          DEF AroundStays, CountsStay
<1>9. CASE ~Has(c, m)
  <2>1. FileNext(c, n).data[2] = 0 BY <1>2, <1>9 DEF Absent
  <2>2. FileNext(c, n).data[2] <= since'[f] BY <1>3, <1>4, <2>1 DEF Ages
  <2>3. Sound(c, n) BY <1>4, <2>2 DEF Sound
  <2>4. RequestNext(t) BY <1>2, <1>7, <2>2 DEF RequestNext, Fetching
  <2>5. Apart(t) BY <1>2, <1>4, ApartFile
  <2> QED BY <1>2, <1>3, <1>4, <1>6, <2>3, <2>4, <2>5, OneFileNew
          DEF AroundStays, CountsStay
<1> QED BY <1>8, <1>9

LEMMA StampNew ==
  ASSUME SInv, SInv', PathInv, PathInv', NInv, Sequential, NEW t \in Handles, Stamp(t)
  PROVE  NInv'
<1> DEFINE c == ClientOf[t]
           f == th[t].path
           n == th[t].tmp
           m == Cached(f)
<1>1. IInv /\ PInv BY DEF SInv, PInv
<1>2. /\ AroundStays /\ ServerStays /\ CountsStay
      /\ th[t].pc = "stamp" /\ c \in Clients /\ n \in TempNames /\ n \in Names
  BY <1>1, StampEffect
<1>3. Ages BY <1>1, <1>2, StaysAge DEF ServerStays, CountsStay
<1>4. /\ f \in Files /\ m \in Names /\ m[2] = f /\ n[2] = f /\ n # NoName
      /\ n \in Names \ RecoverNames
  BY <1>1, <1>2, Thread, CachedName, NameTypes, TempName DEF PathInv, PathOK
<1>5. CASE FilesStay /\ UNCHANGED tempMap /\ Ends(t)
  <2>1. /\ Others(t) /\ th'[t].pc = "idle" /\ th'[t].buf = <<NoFile, 0>>
    BY <1>5 DEF Ends
  <2>2. RequestNext(t) BY <2>1, NotOpening DEF Fetching
  <2>3. th'[t].buf[2] <= writes' BY <1>1, <1>3, <2>1, BuffersCounted
  <2> QED BY <1>2, <1>3, <1>5, <2>1, <2>2, <2>3, StillNew DEF AroundStays, CountsStay, Bears
<1>6. CASE ~(FilesStay /\ UNCHANGED tempMap /\ Ends(t))
  <2>1. /\ FileNext(c, n) = [data |-> File(c, n).data, mtime |-> File(c, m).mtime]
        /\ Elsewhere(c, n) /\ Others(t) /\ th'[t].pc = "open" /\ th'[t].buf = th[t].buf
        /\ \A d \in Fds : tempMap'[c][d] \in {tempMap[c][d], n}
        /\ \A d \in Clients \ {c} : tempMap'[d] = tempMap[d]
    BY <1>1, <1>6, StampEffect
  <2>2. RequestNext(t) BY <2>1, NotOpening DEF Fetching
  <2>3. th'[t].buf[2] <= writes' BY <1>1, <1>3, <2>1, BuffersCounted
  <2>4. Sound(c, n)
    <3>1. /\ since'[f] = since[f] /\ srv' = srv /\ writes' = writes /\ since[f] \in Nat
          /\ File(c, n).data[2] \in Nat /\ File(c, n).data[2] <= writes
      BY <1>1, <1>2, <1>4, FreshTypes DEF ServerStays, CountsStay, NInv, Counted
    <3>2. FileNext(c, n).data = File(c, n).data /\ FileNext(c, n).mtime = File(c, m).mtime
      BY <2>1
    <3>3. CASE New(c, n)
      <4>1. File(c, m).data = File(c, n).data BY <1>2, <3>3 DEF NInv, RequestNew
      <4>2. New(c, m) BY <1>4, <3>3, <4>1 DEF New
      <4>3. File(c, m).mtime > srv[f].mtime BY <1>2, <1>4, <4>2 DEF NInv, Later
      <4> QED BY <1>4, <3>1, <3>2, <4>3 DEF Sound
    <3>4. CASE ~New(c, n) BY <1>4, <3>1, <3>2, <3>4 DEF New, Fresh, Sound
    <3> QED BY <3>3, <3>4
  <2>5. Apart(t) BY <1>2, <1>4, <2>1, ApartFile
  <2>6. ASSUME NEW u \in Handles, th[u].pc = "close",
               tempMap[ClientOf[u]][th[u].fd] # NoName
        PROVE  tempMap'[ClientOf[u]][th[u].fd] # NoName
    <3>1. th[u].fd \in Fds /\ ClientOf[u] \in Clients
      BY <1>1, <2>6, Thread DEF RequestOK
    <3>2. tempMap'[ClientOf[u]][th[u].fd] \in {tempMap[ClientOf[u]][th[u].fd], n}
      BY <2>1, <3>1
    <3> QED BY <1>4, <2>6, <3>2
  <2> QED BY <1>2, <1>3, <1>4, <2>1, <2>2, <2>3, <2>4, <2>5, <2>6, OneFileNew
          DEF AroundStays, CountsStay
<1> QED BY <1>5, <1>6

-----------------------------------------------------------------------------
(* client_write and client_release.                                        *)

LEMMA WriteNew ==
  ASSUME SInv, SInv', PathInv, PathInv', NInv, Sequential, NEW t \in Handles, Write(t)
  PROVE  NInv'
<1> DEFINE c == ClientOf[t]
           f == th[t].path
           n == th[t].tmp
<1>1. IInv /\ PInv BY DEF SInv, PInv
<1>2. /\ AroundStays /\ UNCHANGED <<srv, since, tempMap, closed>>
      /\ clock' = clock + 1 /\ writes' = writes + 1
      /\ FileNext(c, n) = [data |-> <<f, writes + 1>>, mtime |-> Local(c)]
      /\ Elsewhere(c, n) /\ th[t].pc = "open"
      /\ Others(t) /\ th'[t].pc = "open" /\ th'[t].buf = <<f, writes + 1>>
  BY WriteEffect
<1>3. Ages BY <1>1, <1>2, StaysAge
<1>4. /\ c \in Clients /\ f \in Files /\ n \in TempNames /\ n # NoName
      /\ n \in Names \ RecoverNames
  BY <1>2, HandleFile, NameTypes, TempName
<1>5. n[2] = f BY <1>4 DEF PathInv, PathOK
<1>6. writes \in Nat BY <1>1, FreshTypes
<1>7. FileNext(c, n).data[2] = writes' /\ FileNext(c, n).mtime = Local(c)
  BY <1>2
<1>8. th'[t].buf[2] <= writes' BY <1>2, <1>6
<1>9. Local(c) > srv[f].mtime BY <1>1, <1>4, LocalIsLater
<1>10. Sound(c, n) BY <1>2, <1>5, <1>6, <1>7, <1>9 DEF Sound
<1>11. RequestNext(t) BY <1>2, NotOpening DEF Fetching
<1>12. Apart(t) BY <1>2 DEF Apart
<1> QED BY <1>2, <1>3, <1>4, <1>8, <1>10, <1>11, <1>12, OneFileNew DEF AroundStays

Released == {"mark", "drop", "close", "send", "swap", "sendPath", "submit"}

\* A step of client_release that leaves the files.
LEMMA ReleasingNew ==
  ASSUME SInv, SInv', PathInv, PathInv', NInv, Sequential, Ages, NEW t \in Handles,
         FilesStay, mode' = mode, closed' = closed,
         Ends(t) \/ \E pc \in Released : Steps(t, pc),
         \A u \in Handles \ {t} :
           th[u].pc = "close" /\ tempMap[ClientOf[u]][th[u].fd] # NoName =>
             tempMap'[ClientOf[u]][th[u].fd] # NoName,
         \A n \in RecoverNames : Bears(t, ClientOf[t], n) => BearsNext(t, ClientOf[t], n)
  PROVE  NInv'
<1>0. IInv BY DEF SInv, PInv
<1>1. Others(t) BY DEF Ends, Steps
<1>2. /\ th'[t].pc \in Released \cup {"idle"}
      /\ th'[t].buf = th[t].buf \/ th'[t].buf = <<NoFile, 0>>
  BY DEF Ends, Steps
<1>3. RequestNext(t) BY <1>2, NotOpening DEF Released, Fetching
<1>4. th'[t].buf[2] <= writes' BY <1>0, <1>2, BuffersCounted
<1> QED BY <1>1, <1>3, <1>4, StillNew

LEMMA ReleaseNew ==
  ASSUME SInv, SInv', PathInv, PathInv', NInv, Sequential, NEW t \in Handles,
         NEW ok \in BOOLEAN, Release(t, ok)
  PROVE  NInv'
<1>0. IInv BY DEF SInv, PInv
<1>1. /\ AroundStays /\ ServerStays /\ CountsStay /\ FilesStay /\ UNCHANGED tempMap
      /\ th[t].pc = "open"
      /\ Goes(t, "mark") \/ Goes(t, "drop")
  BY ReleaseEffect
<1>2. Ages BY <1>0, <1>1, StaysAge DEF ServerStays, CountsStay
<1>3. \E pc \in Released : Steps(t, pc) BY <1>1 DEF Goes, Released
<1> QED BY <1>1, <1>2, <1>3, ReleasingNew DEF AroundStays, CountsStay, Bears

LEMMA DropNew ==
  ASSUME SInv, SInv', PathInv, PathInv', NInv, Sequential, NEW t \in Handles, Drop(t)
  PROVE  NInv'
<1>0. IInv BY DEF SInv, PInv
<1>1. /\ AroundStays /\ ServerStays /\ FilesStay /\ UNCHANGED <<tempMap, closed, writes>>
      /\ th[t].pc = "drop" /\ Ends(t)
  BY <1>0, DropEffect
<1>2. Ages BY <1>0, <1>1, StaysAge DEF ServerStays
<1> QED BY <1>1, <1>2, ReleasingNew DEF AroundStays, Bears

LEMMA CloseNew ==
  ASSUME SInv, SInv', PathInv, PathInv', NInv, Sequential, NEW t \in Handles, Close(t)
  PROVE  NInv'
<1>0. IInv BY DEF SInv, PInv
<1>1. /\ AroundStays /\ ServerStays /\ CountsStay /\ FilesStay /\ UNCHANGED tempMap
      /\ th[t].pc = "close"
      /\ \E pc \in IF tempMap[ClientOf[t]][th[t].fd] # NoName
                   THEN {"send", "swap"} ELSE {"sendPath", "submit"} : Steps(t, pc)
  BY <1>0, CloseEffect
<1>2. Ages BY <1>0, <1>1, StaysAge DEF ServerStays, CountsStay
<1>3. \E pc \in Released : Steps(t, pc) BY <1>1 DEF Released
<1>4. ASSUME NEW n \in RecoverNames, Bears(t, ClientOf[t], n)
      PROVE  BearsNext(t, ClientOf[t], n)
  <2>1. \E pc \in {"send", "swap"} : Steps(t, pc) BY <1>1, <1>4 DEF Bears
  <2> QED BY <1>4, <2>1 DEF Steps, Bears, BearsNext
<1> QED BY <1>1, <1>2, <1>3, <1>4, ReleasingNew DEF AroundStays, CountsStay

LEMMA EraseNew ==
  ASSUME SInv, SInv', PathInv, PathInv', NInv, Sequential, DescriptorsApart,
         NEW t \in Handles, Erase(t)
  PROVE  NInv'
<1>0. IInv BY DEF SInv, PInv
<1>1. /\ AroundStays /\ ServerStays /\ FilesStay /\ UNCHANGED <<closed, writes>>
      /\ th[t].pc = "erase"
      /\ tempMap' = [tempMap EXCEPT ![ClientOf[t]][th[t].fd] = NoName]
      /\ \A d \in Clients \ {ClientOf[t]} : tempMap'[d] = tempMap[d]
      /\ Goes(t, "submit") \/ Ends(t)
  BY <1>0, EraseEffect
<1>2. Ages BY <1>0, <1>1, StaysAge DEF ServerStays
<1>3. Ends(t) \/ \E pc \in Released : Steps(t, pc) BY <1>1 DEF Goes, Released
<1>4. ASSUME NEW u \in Handles, th[u].pc = "close",
             tempMap[ClientOf[u]][th[u].fd] # NoName
      PROVE  tempMap'[ClientOf[u]][th[u].fd] # NoName
  <2>1. IsOpen(u) /\ th[u].fd \in Fds /\ ClientOf[u] \in Clients
    BY <1>0, <1>4, Thread DEF RequestOK, IsOpen
  <2>2. CASE ClientOf[u] # ClientOf[t] BY <1>1, <1>4, <2>1, <2>2
  <2>3. CASE ClientOf[u] = ClientOf[t]
    <3>1. th[t].fd # th[u].fd BY <1>1, <2>1, <2>3 DEF DescriptorsApart
    <3>2. tempMap \in [Clients -> [Fds -> TempNames \cup {NoName}]]
      BY <1>0 DEF IInv, TypeOK
    <3> QED BY <1>1, <1>4, <2>1, <2>3, <3>1, <3>2
  <2> QED BY <2>2, <2>3
<1> QED BY <1>1, <1>2, <1>3, <1>4, ReleasingNew DEF AroundStays, Bears

LEMMA SubmitNew ==
  ASSUME SInv, SInv', PathInv, PathInv', NInv, Sequential, NEW t \in Handles, Submit(t)
  PROVE  NInv'
<1>0. IInv BY DEF SInv, PInv
<1>1. /\ UNCHANGED <<mode, tempMap, closed, writes>> /\ ServerStays /\ FilesStay
      /\ th[t].pc = "submit" /\ Ends(t)
  BY <1>0, SubmitEffect
<1>2. Ages BY <1>0, <1>1, StaysAge DEF ServerStays
<1> QED BY <1>1, <1>2, ReleasingNew DEF Bears

LEMMA SendNew ==
  ASSUME SInv, SInv', PathInv, PathInv', NInv, Sequential, NEW t \in Handles,
         NEW ok \in BOOLEAN, Send(t, ok)
  PROVE  NInv'
<1> DEFINE c == ClientOf[t]
           n == th[t].tmp
           m == Recover(n)
<1>0. IInv BY DEF SInv, PInv
<1>1. /\ AroundStays /\ CountsStay /\ FilesStay /\ UNCHANGED tempMap
      /\ th[t].pc = "send" /\ Goes(t, "swap")
      /\ c \in Clients /\ n \in TempNames /\ m \in Names
      /\ Serves(n[2], File(c, m).data) \/ ServerStays
  BY <1>0, SendEffect
<1>2. n[2] \in Files BY <1>1, NameTypes
<1>3. File(c, m).data[2] \in Nat /\ File(c, m).data[2] <= writes
  BY <1>0, <1>1, FreshTypes DEF NInv, Counted
<1>4. Ages
  <2> HIDE DEF c, n, m
  <2> QED BY <1>0, <1>1, <1>2, <1>3, StaysAge, ServedAge DEF ServerStays, CountsStay
<1>5. \E pc \in Released : Steps(t, pc) BY <1>1 DEF Goes, Released
<1>6. ASSUME NEW k \in RecoverNames, Bears(t, ClientOf[t], k)
      PROVE  BearsNext(t, ClientOf[t], k)
  BY <1>1, <1>6 DEF Goes, Steps, Bears, BearsNext
<1> QED BY <1>1, <1>4, <1>5, <1>6, ReleasingNew DEF AroundStays, CountsStay

LEMMA SendPathNew ==
  ASSUME SInv, SInv', PathInv, PathInv', NInv, Sequential, NEW t \in Handles,
         NEW ok \in BOOLEAN, SendPath(t, ok)
  PROVE  NInv'
<1> DEFINE c == ClientOf[t]
           f == th[t].path
           m == Cached(f)
<1>0. IInv BY DEF SInv, PInv
<1>1. /\ AroundStays /\ FilesStay /\ UNCHANGED <<tempMap, closed, writes>>
      /\ th[t].pc = "sendPath" /\ Ends(t) /\ f \in Files
      /\ ServerStays \/ Serves(f, File(c, m).data)
  BY <1>0, SendPathEffect
<1>2. c \in Clients /\ m \in Names BY <1>1, ClientsAssumption, NameTypes
<1>3. File(c, m).data[2] \in Nat /\ File(c, m).data[2] <= writes
  BY <1>0, <1>2, FreshTypes DEF NInv, Counted
<1>4. Ages
  <2> HIDE DEF c, f, m
  <2> QED BY <1>0, <1>1, <1>3, StaysAge, ServedAge DEF ServerStays
<1> QED BY <1>1, <1>4, ReleasingNew DEF AroundStays, Bears

-----------------------------------------------------------------------------
(* The files that are renamed.                                             *)

\* A release of a recovery file is of its path.
LEMMA BearerPath ==
  ASSUME PathInv, NEW u \in Handles, NEW c \in Clients, NEW k \in RecoverNames,
         Bears(u, c, k)
  PROVE  ClientOf[u] = c /\ th[u].path = k[2] /\ th[u].pc \in {"close", "send", "swap"}
<1>1. /\ ClientOf[u] = c /\ k = Recover(th[u].tmp)
      /\ th[u].pc \in {"close", "send", "swap"}
  BY DEF Bears
<1>2. k[2] = th[u].tmp[2] BY <1>1, SecondOfName
<1>3. th[u].tmp # NoName
  <2>1. NoName[2] = NoFile BY DEF NoName
  <2>2. k[2] # NoFile BY FilesAssumption DEF RecoverNames
  <2> QED BY <1>2, <2>1, <2>2
<1> QED BY <1>1, <1>2, <1>3 DEF PathInv, PathOK

LEMMA MovedSound ==
  ASSUME IInv, Ages, NEW c \in Clients, NEW m \in Names, NEW n \in Names, m[2] = n[2],
         FileNext(c, n) \in {File(c, m), File(c, n)}, FileNext(c, m) = Absent,
         \A d \in Clients, k \in Names :
           d # c \/ (k # m /\ k # n) => FileNext(d, k) = File(d, k)
  PROVE  \A d \in Clients, k \in Names : Sound(d, k)
<1>1. m[2] \in Files BY FreshTypes
<1>2. FileNext(c, m).data[2] <= since'[m[2]] BY <1>1 DEF Absent, Ages
<1> QED BY <1>2 DEF Sound

\* A release gives a recovery name to the file of its handle; there is no other
\* recovery file of the path.
LEMMA MarkNew ==
  ASSUME SInv, SInv', PathInv, PathInv', NInv, Sequential, NEW t \in Handles, Mark(t)
  PROVE  NInv'
<1> DEFINE c == ClientOf[t]
           f == th[t].path
           n == th[t].tmp
           m == Recover(n)
           x == File(c, n).data
<1>0. IInv /\ IInv' /\ PInv BY DEF SInv, PInv
<1>1. /\ AroundStays /\ ServerStays /\ UNCHANGED <<tempMap, writes>>
      /\ th[t].pc = "mark" /\ Goes(t, "close")
      /\ \/ FilesStay /\ closed' = closed
         \/ /\ tempMap[c][th[t].fd] = n
            /\ FileNext(c, m) = File(c, n) /\ FileNext(c, n) = Absent
            /\ \A d \in Clients, k \in Names :
                 d # c \/ (k # n /\ k # m) => FileNext(d, k) = File(d, k)
            /\ closed' = [closed EXCEPT ![c][n[2]] = x]
  BY MarkEffect
<1>2. Ages BY <1>0, <1>1, StaysAge DEF ServerStays
<1>3. /\ c \in Clients /\ f \in Files /\ n \in Names /\ n \in TempNames /\ m \in Names
      /\ n # NoName /\ m # n /\ m \in RecoverNames /\ n \notin RecoverNames
      /\ \A g \in Files : Cached(g) \in Names /\ Cached(g) # m /\ Cached(g) # n
  BY <1>1, HandleFile, NameTypes, NameKinds, TempName
<1>4. n[2] = f /\ m[2] = f BY <1>3, SecondOfName DEF PathInv, PathOK
<1>5. CASE FilesStay /\ closed' = closed
  <2>1. \E pc \in Released : Steps(t, pc) BY <1>1 DEF Goes, Released
  <2> QED BY <1>1, <1>2, <1>5, <2>1, ReleasingNew DEF AroundStays, Bears
<1>6. CASE ~(FilesStay /\ closed' = closed)
  <2>1. /\ tempMap'[c][th'[t].fd] = n
        /\ FileNext(c, m) = File(c, n) /\ FileNext(c, n) = Absent
        /\ \A d \in Clients, k \in Names :
             d # c \/ (k # n /\ k # m) => FileNext(d, k) = File(d, k)
        /\ closed' = [closed EXCEPT ![c][f] = x]
    BY <1>1, <1>4, <1>6 DEF Goes, Steps
  <2>2. ASSUME NEW k \in RecoverNames, k[2] = f PROVE File(c, k) = Absent
    <3>1. SUFFICES ASSUME File(c, k) # Absent PROVE FALSE OBVIOUS
    <3>2. mode[c] = "up" BY <1>1, IdleState DEF SInv, PInv, Serving
    <3>3. PICK u \in Handles : Bears(u, c, k) BY <1>3, <3>1, <3>2 DEF NInv, Borne
    <3>4. ClientOf[u] = c /\ th[u].path = f /\ th[u].pc \in {"close", "send", "swap"}
      BY <1>3, <2>2, <3>3, BearerPath
    <3> QED BY <1>1, <3>4 DEF Sequential
  <2> HIDE DEF c, f, n, m
  <2>3. \A d \in Clients, k \in Names : Sound(d, k)
    BY <1>0, <1>2, <1>3, <1>4, <2>1, MovedSound
  <2>4. /\ \A d \in Clients, k \in RecoverNames : d # c \/ k # m => FileNext(d, k) = File(d, k)
        /\ \A d \in Clients, g \in Files : FileNext(d, Cached(g)) = File(d, Cached(g))
    BY <1>3, <2>1, NameTypes
  <2>5. OneRecovery'
    <3>1. ASSUME NEW d \in Clients, NEW j \in RecoverNames, NEW k \in RecoverNames,
                 j[2] = k[2], (File(d, j) # Absent /\ File(d, k) # Absent)'
          PROVE  j = k
      <4>1. FileNext(d, j) # Absent /\ FileNext(d, k) # Absent
        BY <3>1, RecoveryThen DEF Absent
      <4>2. CASE d = c /\ j[2] = f BY <2>2, <2>4, <3>1, <4>1, <4>2
      <4>3. CASE ~(d = c /\ j[2] = f)
        BY <1>4, <2>4, <3>1, <4>1, <4>3 DEF NInv, OneRecovery
      <4> QED BY <4>2, <4>3
    <3> QED BY <3>1 DEF OneRecovery
  <2>6. Borne'
    <3>1. ASSUME NEW d \in Clients, NEW k \in RecoverNames, mode'[d] = "up",
                 FileNext(d, k) # Absent
          PROVE  \E u \in Handles : BearsNext(u, d, k)
      <4>1. CASE d = c /\ k = m
        BY <1>1, <1>3, <2>1, <4>1 DEF Goes, Steps, BearsNext, c, m, n
      <4>2. CASE ~(d = c /\ k = m)
        <5>1. File(d, k) # Absent /\ mode[d] = "up"
          BY <1>1, <2>4, <3>1, <4>2 DEF AroundStays
        <5>2. PICK u \in Handles : Bears(u, d, k) BY <5>1 DEF NInv, Borne
        <5>3. u # t BY <1>1, <5>2 DEF Bears
        <5>4. th'[u] = th[u] BY <1>1, <5>3 DEF Goes, Steps, Others
        <5> QED BY <1>1, <5>2, <5>4 DEF Bears, BearsNext
      <4> QED BY <4>1, <4>2
    <3> QED BY <3>1, BorneStep
  <2>7. ASSUME NEW d \in Clients, NEW g \in Files, closed'[d][g][2] > since'[g]
        PROVE  LastNext(d, g)
    <3>0. closed \in [Clients -> [Files -> Contents]] BY <1>0 DEF IInv, TypeOK
    <3>1. CASE d = c /\ g = f
      <4>1. closed'[c][f] = x BY <1>3, <2>1, <3>0
      <4> QED BY <1>3, <1>4, <2>1, <3>1, <4>1 DEF LastNext
    <3>2. CASE ~(d = c /\ g = f)
      <4>1. closed'[d][g] = closed[d][g] BY <2>1, <3>0, <3>2
      <4>2. \A k \in RecoverNames : k[2] = g => FileNext(d, k) = File(d, k)
        BY <1>4, <2>4, <3>2
      <4> QED BY <1>0, <1>2, <2>4, <2>7, <4>1, <4>2, LastStays
    <3> QED BY <3>1, <3>2
  <2>8. \A d \in Clients, g \in Files : closed'[d][g][2] <= writes'
    <3>1. \A d \in Clients, g \in Files : closed[d][g][2] <= writes
      BY DEF NInv, Counted
    <3>2. x[2] <= writes BY <1>3 DEF NInv, Counted
    <3>3. closed \in [Clients -> [Files -> Contents]] BY <1>0 DEF IInv, TypeOK
    <3> HIDE DEF x
    <3> QED BY <1>1, <2>1, <3>1, <3>2, <3>3
  <2>9. Apart(t)
    <3>1. \A d \in Clients, k \in Names :
            d # ClientOf[t] \/ k[2] # th[t].path => FileNext(d, k) = File(d, k)
      BY <1>4, <2>1 DEF c, f
    <3> QED BY <1>1, <3>1 DEF Apart
  <2>10. RequestNext(t) /\ Others(t) /\ th'[t].buf = th[t].buf
    BY <1>1, NotOpening DEF Goes, Steps, Fetching
  <2>11. th'[t].buf[2] <= writes' BY <1>0, <1>2, <2>10, BuffersCounted
  <2>12. \A u \in Handles : RequestNext(u) /\ th'[u].buf[2] <= writes'
    BY <1>2, <2>9, <2>10, <2>11, RequestsNew
  <2> QED BY <1>0, <1>2, <2>3, <2>5, <2>6, <2>7, <2>8, <2>12, PartsNew
<1> QED BY <1>5, <1>6

\* LastKept when the recovery file m replaces the cached copy of its path.
LEMMA ReplacedLast ==
  ASSUME IInv, NInv, Ages, closed' = closed, NEW c \in Clients, NEW f \in Files,
         NEW m \in RecoverNames, m[2] = f, Has(c, m),
         FileNext(c, Cached(f)) = File(c, m), FileNext(c, m) = Absent,
         \A k \in RecoverNames : k # m => FileNext(c, k) = File(c, k),
         closed'[c][f][2] > since'[f]
  PROVE  LastNext(c, f)
<1>1. closed[c][f][2] > since[f] /\ closed[c][f] # Absent.data BY FreshTypes DEF Ages
<1>2. LastAt(c, f) BY <1>1 DEF NInv, LastKept, Fresh
<1>3. m \in Names /\ File(c, m) # Absent BY NameTypes, FreshTypes
<1>4. \A k \in RecoverNames : k[2] = f /\ k # m => File(c, k) = Absent
  BY <1>3 DEF NInv, OneRecovery
<1>5. File(c, m).data = closed[c][f] BY <1>1, <1>2, <1>3, <1>4 DEF LastAt
<1> QED BY <1>4, <1>5 DEF LastNext

LEMMA SwapNew ==
  ASSUME SInv, SInv', PathInv, PathInv', NInv, Sequential, NEW t \in Handles, Swap(t)
  PROVE  NInv'
<1> DEFINE c == ClientOf[t]
           f == th[t].path
           m == Recover(th[t].tmp)
           n == Cached(f)
<1>0. IInv /\ IInv' /\ PInv BY DEF SInv, PInv
<1>1. /\ AroundStays /\ ServerStays /\ CountsStay /\ UNCHANGED tempMap
      /\ th[t].pc = "swap" /\ Goes(t, "erase")
      /\ c \in Clients /\ th[t].tmp \in TempNames /\ m \in Names /\ n \in Names
      /\ Has(c, m) => FileNext(c, n) = File(c, m)
      /\ ~Has(c, m) => FileNext(c, n) = File(c, n)
      /\ FileNext(c, m) = Absent
      /\ \A d \in Clients, k \in Names :
           d # c \/ (k # m /\ k # n) => FileNext(d, k) = File(d, k)
  BY <1>0, SwapEffect
<1>2. Ages BY <1>0, <1>1, StaysAge DEF ServerStays, CountsStay
<1>3. /\ f \in Files /\ m \in RecoverNames /\ n \notin RecoverNames /\ n[2] = f
      /\ \A g \in Files : Cached(g) \in Names /\ Cached(g)[2] = g /\ Cached(g) # m
  BY <1>0, <1>1, Thread, NameTypes, NameKinds, CachedName
<1>4. m[2] = f
  BY <1>1, NameTypes, SecondOfName DEF PathInv, PathOK
<1>5. RequestNext(t) /\ Others(t) /\ th'[t].buf = th[t].buf
  BY <1>1, NotOpening DEF Goes, Steps, Fetching
<1>6. th'[t].buf[2] <= writes' BY <1>0, <1>2, <1>5, BuffersCounted
<1>7. Apart(t)
  <2>1. \A d \in Clients, k \in Names :
          d # ClientOf[t] \/ k[2] # th[t].path => FileNext(d, k) = File(d, k)
    BY <1>1, <1>3, <1>4
  <2> QED BY <1>1, <2>1 DEF Apart
<1> HIDE DEF m, n
<1>8. /\ \A d \in Clients, k \in Names : Sound(d, k)
      /\ FileNext(c, n) \in {File(c, m), File(c, n)}
  BY <1>0, <1>1, <1>2, <1>3, <1>4, MovedSound
<1>9. /\ \A d \in Clients, k \in RecoverNames : d # c \/ k # m => FileNext(d, k) = File(d, k)
      /\ \A d \in Clients, g \in Files :
           d # c \/ g # f => FileNext(d, Cached(g)) = File(d, Cached(g))
  BY <1>1, <1>3, NameTypes
<1>10. OneRecovery'
  <2>1. \A d \in Clients, k \in RecoverNames : FileNext(d, k) # Absent => File(d, k) # Absent
    BY <1>1, <1>9
  <2> QED BY <2>1, RecoveryStep DEF NInv
<1>11. Borne'
  <2>1. \A d \in Clients, k \in RecoverNames : FileNext(d, k) \in {File(d, k), Absent}
    BY <1>1, <1>9
  <2>2. \A k \in RecoverNames : ~(Bears(t, ClientOf[t], k) /\ FileNext(ClientOf[t], k) # Absent)
    BY <1>1 DEF Bears, m
  <2> QED BY <1>1, <1>5, <2>1, <2>2, BorneKept DEF AroundStays
<1>12. ASSUME NEW d \in Clients, NEW g \in Files, closed'[d][g][2] > since'[g]
       PROVE  LastNext(d, g)
  <2>1. CASE d = c /\ g = f /\ Has(c, m)
    <3>1. FileNext(c, Cached(f)) = File(c, m) BY <1>1, <2>1 DEF n
    <3> QED BY <1>0, <1>1, <1>2, <1>3, <1>4, <1>9, <1>12, <2>1, <3>1, ReplacedLast
            DEF CountsStay
  <2>2. CASE ~(d = c /\ g = f /\ Has(c, m))
    <3>1. \A k \in RecoverNames : k[2] = g => FileNext(d, k) = File(d, k)
      BY <1>0, <1>1, <1>4, <1>9, <2>2, FreshTypes
    <3>2. FileNext(d, Cached(g)) = File(d, Cached(g))
      BY <1>1, <1>9, <2>2 DEF n
    <3>3. closed'[d][g] = closed[d][g] BY <1>1 DEF CountsStay
    <3> QED BY <1>0, <1>2, <1>12, <3>1, <3>2, <3>3, LastStays
  <2> QED BY <2>1, <2>2
<1>13. \A u \in Handles : RequestNext(u) /\ th'[u].buf[2] <= writes'
  BY <1>2, <1>5, <1>6, <1>7, RequestsNew
<1>14. \A d \in Clients, g \in Files : closed'[d][g][2] <= writes'
  BY <1>0, <1>1, <1>2, ClosedCounted DEF CountsStay
<1> QED BY <1>0, <1>2, <1>8, <1>10, <1>11, <1>12, <1>13, <1>14, PartsNew

-----------------------------------------------------------------------------
(* The close thread, crashes and the recovery scan.                        *)

\* A step of a client that leaves the files.
LEMMA ClientStaysNew ==
  ASSUME SInv, SInv', PathInv, PathInv', NInv, Ages, FilesStay, closed' = closed, Borne',
         \A t \in Handles : th'[t] \in {th[t], Idle}
  PROVE  NInv'
<1>0. IInv /\ IInv' BY DEF SInv, PInv
<1>1. \A c \in Clients, n \in Names : Sound(c, n) BY DEF FilesStay, Sound
<1>2. ASSUME NEW u \in Handles PROVE RequestNext(u) /\ th'[u].buf[2] <= writes'
  <2>1. CASE th'[u] = Idle
    <3>1. Idle.pc = "idle" /\ Idle.buf = <<NoFile, 0>> BY DEF Idle, Request
    <3>2. RequestNext(u) BY <2>1, <3>1, NotOpening DEF Fetching
    <3> QED BY <1>0, <2>1, <3>1, <3>2, BuffersCounted
  <2>2. CASE th'[u] = th[u]
    <3>1. th[u].pc \in Fetching \cup {"check", "stamp"} =>
            /\ ClientOf[u] \in Clients /\ Cached(th[u].path) \in Names
            /\ th[u].pc = "stamp" => th[u].tmp \in Names
      BY <1>0, Thread, NameTypes DEF RequestOK, Fetching
    <3>2. RequestNext(u) BY <1>0, <2>2, <3>1, WaitingNew DEF FilesStay
    <3> QED BY <1>0, <2>2, <3>2, BuffersCounted
  <2> QED BY <2>1, <2>2
<1>3. \A c \in Clients, f \in Files : closed'[c][f][2] <= writes'
  BY <1>0, ClosedCounted
<1>4. /\ \A c \in Clients, n \in RecoverNames : FileNext(c, n) = File(c, n)
      /\ \A c \in Clients, f \in Files : FileNext(c, Cached(f)) = File(c, Cached(f))
  BY NameTypes DEF FilesStay
<1>5. OneRecovery' BY <1>4, RecoveryStep DEF NInv
<1>6. \A c \in Clients, f \in Files : closed'[c][f][2] > since'[f] => LastNext(c, f)
  BY <1>0, <1>4, LastStays
<1> QED BY <1>0, <1>1, <1>2, <1>3, <1>5, <1>6, PartsNew

\* Borne when the requests and the descriptors of the clients that are up stay.
LEMMA UpBorne ==
  ASSUME NInv, NEW c \in Clients,
         \A d \in Clients, n \in RecoverNames :
           mode'[d] = "up" /\ FileNext(d, n) # Absent =>
             mode[d] = "up" /\ File(d, n) # Absent,
         \A d \in Clients : mode'[d] = "up" => tempMap'[d] = tempMap[d],
         \A t \in Handles : mode'[ClientOf[t]] = "up" => th'[t] = th[t]
  PROVE  Borne'
<1>1. ASSUME NEW d \in Clients, NEW n \in RecoverNames, mode'[d] = "up",
             FileNext(d, n) # Absent
      PROVE  \E u \in Handles : BearsNext(u, d, n)
  <2>1. PICK u \in Handles : Bears(u, d, n) BY <1>1 DEF NInv, Borne
  <2>2. th'[u] = th[u] /\ tempMap'[d] = tempMap[d] BY <1>1, <2>1 DEF Bears
  <2> QED BY <2>1, <2>2 DEF Bears, BearsNext
<1> QED BY <1>1, BorneStep

LEMMA CloserNew ==
  ASSUME SInv, SInv', PathInv, PathInv', NInv, NEW c \in Clients, CloserStep(c)
  PROVE  NInv'
<1> DEFINE f == sending[c]
           n == Cached(f)
<1>0. IInv BY DEF SInv, PInv
<1>1. /\ FilesStay /\ UNCHANGED <<tempMap, mode, th, closed, writes>>
      /\ ServerStays \/ (f \in Files /\ Serves(f, File(c, n).data))
  BY <1>0, CloserEffect
<1>2. Ages
  <2>1. CASE ServerStays BY <1>0, <1>1, <2>1, StaysAge DEF ServerStays
  <2>2. CASE ~ServerStays
    <3>1. f \in Files /\ Serves(f, File(c, n).data) BY <1>1, <2>2
    <3>2. n \in Names BY <3>1, NameTypes
    <3>3. File(c, n).data[2] \in Nat /\ File(c, n).data[2] <= writes
      BY <1>0, <3>2, FreshTypes DEF NInv, Counted
    <3> HIDE DEF f, n
    <3> QED BY <1>0, <1>1, <3>1, <3>3, ServedAge
  <2> QED BY <2>1, <2>2
<1>3. \A d \in Clients, k \in RecoverNames : FileNext(d, k) = File(d, k)
  BY <1>1, NameTypes DEF FilesStay
<1>4. Borne' BY <1>1, <1>3, UpBorne
<1> QED BY <1>1, <1>2, <1>4, ClientStaysNew

LEMMA CrashNew ==
  ASSUME SInv, SInv', PathInv, PathInv', NInv, NEW c \in Clients, Crash(c) \/ Restart(c)
  PROVE  NInv'
<1>0. IInv BY DEF SInv, PInv
<1>1. /\ FilesStay /\ ServerStays /\ CountsStay /\ mode'[c] # "up"
      /\ \A d \in Clients \ {c} : mode'[d] = mode[d] /\ tempMap'[d] = tempMap[d]
      /\ \A t \in Handles : /\ th'[t] \in {th[t], Idle}
                            /\ ClientOf[t] # c => th'[t] = th[t]
  <2>1. CASE Crash(c) BY <1>0, <2>1, CrashEffect
  <2>2. CASE Restart(c)
    <3>1. mode \in [Clients -> {"up", "down", "recovering"}] BY <1>0 DEF IInv, TypeOK
    <3> QED BY <1>0, <2>2, <3>1, RestartEffect
  <2> QED BY <2>1, <2>2
<1>2. Ages BY <1>0, <1>1, StaysAge DEF ServerStays, CountsStay
<1>3. \A d \in Clients, k \in RecoverNames : FileNext(d, k) = File(d, k)
  BY <1>1, NameTypes DEF FilesStay
<1>4. \A t \in Handles : ClientOf[t] \in Clients BY ClientsAssumption
<1>5. Borne' BY <1>1, <1>3, <1>4, UpBorne
<1> QED BY <1>1, <1>2, <1>5, ClientStaysNew DEF CountsStay

LEMMA RecoverRenameNew ==
  ASSUME SInv, SInv', PathInv, PathInv', NInv, NEW c \in Clients, NEW m \in RecoverNames,
         RecoverRename(c, m)
  PROVE  NInv'
<1> DEFINE f == m[2]
           n == Cached(f)
<1>0. IInv /\ IInv' /\ PInv BY DEF SInv, PInv
<1>1. /\ ServerStays /\ CountsStay /\ UNCHANGED <<tempMap, mode, th>>
      /\ mode[c] = "recovering" /\ m \in Names /\ f \in Files /\ n \in Names /\ Has(c, m)
      /\ FileNext(c, n) = File(c, m) /\ FileNext(c, m) = Absent
      /\ \A d \in Clients, k \in Names :
           d # c \/ (k # m /\ k # n) => FileNext(d, k) = File(d, k)
  BY <1>0, RecoverRenameEffect
<1>2. Ages BY <1>0, <1>1, StaysAge DEF ServerStays, CountsStay
<1>3. /\ n \notin RecoverNames /\ n[2] = f
      /\ \A g \in Files : Cached(g) \in Names /\ Cached(g)[2] = g /\ Cached(g) # m
  BY <1>1, CachedName
<1>4. ASSUME NEW u \in Handles PROVE RequestNext(u) /\ th'[u].buf[2] <= writes'
  <2>1. ClientOf[u] = c => th[u].pc = "idle"
    BY <1>1, IdleState DEF SInv, PInv, Serving
  <2>2. th[u].pc \in Fetching \cup {"check", "stamp"} =>
          /\ ClientOf[u] \in Clients /\ Cached(th[u].path) \in Names
          /\ th[u].pc = "stamp" => th[u].tmp \in Names
    BY <1>0, Thread, NameTypes DEF RequestOK, Fetching
  <2> HIDE DEF n
  <2>3. th[u].pc \in Fetching \cup {"check", "stamp"} =>
          /\ FileNext(ClientOf[u], Cached(th[u].path)) = File(ClientOf[u], Cached(th[u].path))
          /\ th[u].pc = "stamp" =>
               FileNext(ClientOf[u], th[u].tmp) = File(ClientOf[u], th[u].tmp)
    BY <1>1, <2>1, <2>2 DEF Fetching
  <2>4. RequestNext(u) BY <1>0, <1>1, <1>2, <2>3, WaitingNew
  <2> QED BY <1>0, <1>1, <1>2, <2>4, BuffersCounted
<1> HIDE DEF n
<1>5. \A d \in Clients, k \in Names : Sound(d, k)
  BY <1>0, <1>1, <1>2, <1>3, MovedSound
<1>6. /\ \A d \in Clients, k \in RecoverNames : d # c \/ k # m => FileNext(d, k) = File(d, k)
      /\ \A d \in Clients, g \in Files :
           d # c \/ g # f => FileNext(d, Cached(g)) = File(d, Cached(g))
  BY <1>1, <1>3, NameTypes
<1>7. \A d \in Clients, k \in RecoverNames : FileNext(d, k) # Absent => File(d, k) # Absent
  BY <1>1, <1>6
<1>8. OneRecovery' BY <1>7, RecoveryStep DEF NInv
<1>9. Borne' BY <1>1, <1>7, UpBorne
<1>10. ASSUME NEW d \in Clients, NEW g \in Files, closed'[d][g][2] > since'[g]
       PROVE  LastNext(d, g)
  <2>1. CASE d = c /\ g = f
    <3>1. FileNext(c, Cached(f)) = File(c, m) BY <1>1 DEF n
    <3> QED BY <1>0, <1>1, <1>2, <1>6, <1>10, <2>1, <3>1, ReplacedLast DEF CountsStay
  <2>2. CASE ~(d = c /\ g = f)
    <3>1. \A k \in RecoverNames : k[2] = g => FileNext(d, k) = File(d, k) BY <1>6, <2>2
    <3>2. FileNext(d, Cached(g)) = File(d, Cached(g)) BY <1>6, <2>2
    <3>3. closed'[d][g] = closed[d][g] BY <1>1 DEF CountsStay
    <3> QED BY <1>0, <1>2, <1>10, <3>1, <3>2, <3>3, LastStays
  <2> QED BY <2>1, <2>2
<1>11. \A d \in Clients, g \in Files : closed'[d][g][2] <= writes'
  BY <1>0, <1>1, <1>2, ClosedCounted DEF CountsStay
<1> QED BY <1>0, <1>2, <1>4, <1>5, <1>8, <1>9, <1>10, <1>11, PartsNew

LEMMA RecoverSendNew ==
  ASSUME SInv, SInv', PathInv, PathInv', NInv, NEW c \in Clients, NEW intact \in BOOLEAN,
         NEW ok \in BOOLEAN, RecoverSend(c, intact, ok)
  PROVE  NInv'
<1> DEFINE f == rescued[c]
           n == Cached(f)
<1>0. IInv BY DEF SInv, PInv
<1>1. /\ FilesStay /\ CountsStay /\ UNCHANGED <<tempMap, mode, th>>
      /\ f \in Files /\ n \in Names
      /\ ServerStays \/ Serves(f, File(c, n).data)
  BY <1>0, RecoverSendEffect
<1>2. File(c, n).data[2] \in Nat /\ File(c, n).data[2] <= writes
  BY <1>0, <1>1, FreshTypes DEF NInv, Counted
<1>3. Ages
  <2> HIDE DEF f, n
  <2> QED BY <1>0, <1>1, <1>2, StaysAge, ServedAge DEF ServerStays, CountsStay
<1>4. \A d \in Clients, k \in RecoverNames : FileNext(d, k) = File(d, k)
  BY <1>1, NameTypes DEF FilesStay
<1>5. Borne' BY <1>1, <1>4, UpBorne
<1> QED BY <1>1, <1>3, <1>5, ClientStaysNew DEF CountsStay

LEMMA DiscardNew ==
  ASSUME SInv, SInv', PathInv, PathInv', NInv, NEW c \in Clients, NEW n \in TempNames,
         DiscardTemp(c, n)
  PROVE  NInv'
<1>0. IInv /\ IInv' /\ PInv BY DEF SInv, PInv
<1>1. /\ AroundStays /\ ServerStays /\ CountsStay /\ UNCHANGED <<tempMap, th>>
      /\ mode[c] = "recovering" /\ FileNext(c, n) = Absent /\ Elsewhere(c, n)
  BY <1>0, DiscardEffect
<1>2. Ages BY <1>0, <1>1, StaysAge DEF ServerStays, CountsStay
<1>3. n \in Names \ RecoverNames /\ n[2] \in Files /\ \A g \in Files : Cached(g) # n
  BY TempName, NameTypes, NameKinds
<1>4. \A d \in Clients, k \in Names : Sound(d, k)
  <2>1. FileNext(c, n).data[2] <= since'[n[2]] BY <1>1, <1>2, <1>3 DEF Absent, Ages
  <2> QED BY <1>1, <2>1 DEF Sound, Elsewhere
<1>5. ASSUME NEW u \in Handles PROVE RequestNext(u) /\ th'[u].buf[2] <= writes'
  <2>1. ClientOf[u] = c => th[u].pc = "idle"
    BY <1>1, IdleState DEF SInv, PInv, Serving
  <2>2. th[u].pc \in Fetching \cup {"check", "stamp"} =>
          /\ ClientOf[u] \in Clients /\ Cached(th[u].path) \in Names
          /\ th[u].pc = "stamp" => th[u].tmp \in Names
    BY <1>0, Thread, NameTypes DEF RequestOK, Fetching
  <2>3. th[u].pc \in Fetching \cup {"check", "stamp"} =>
          /\ FileNext(ClientOf[u], Cached(th[u].path)) = File(ClientOf[u], Cached(th[u].path))
          /\ th[u].pc = "stamp" =>
               FileNext(ClientOf[u], th[u].tmp) = File(ClientOf[u], th[u].tmp)
    BY <1>1, <2>1, <2>2 DEF Fetching, Elsewhere
  <2>4. RequestNext(u) BY <1>0, <1>1, <1>2, <2>3, WaitingNew
  <2> QED BY <1>0, <1>1, <1>2, <2>4, BuffersCounted
<1>6. /\ \A d \in Clients, k \in RecoverNames : FileNext(d, k) = File(d, k)
      /\ \A d \in Clients, g \in Files : FileNext(d, Cached(g)) = File(d, Cached(g))
  BY <1>1, <1>3, NameTypes DEF Elsewhere
<1>7. OneRecovery' BY <1>6, RecoveryStep DEF NInv
<1>8. Borne' BY <1>1, <1>6, UpBorne DEF AroundStays
<1>9. \A d \in Clients, g \in Files : closed'[d][g][2] > since'[g] => LastNext(d, g)
  BY <1>0, <1>1, <1>2, <1>6, LastStays DEF CountsStay
<1>10. \A d \in Clients, g \in Files : closed'[d][g][2] <= writes'
  BY <1>0, <1>1, <1>2, ClosedCounted DEF CountsStay
<1> QED BY <1>0, <1>2, <1>4, <1>5, <1>7, <1>8, <1>9, <1>10, PartsNew

LEMMA DoneNew ==
  ASSUME SInv, SInv', PathInv, PathInv', NInv, NEW c \in Clients, RecoverDone(c)
  PROVE  NInv'
<1>0. IInv BY DEF SInv, PInv
<1>1. /\ FilesStay /\ ServerStays /\ CountsStay /\ UNCHANGED <<tempMap, th>>
      /\ mode' = [mode EXCEPT ![c] = "up"]
      /\ \A n \in TempNames \cup RecoverNames : ~Has(c, n)
  BY <1>0, DoneEffect
<1>2. Ages BY <1>0, <1>1, StaysAge DEF ServerStays, CountsStay
<1>3. Borne'
  <2>1. ASSUME NEW d \in Clients, NEW n \in RecoverNames, mode'[d] = "up",
               FileNext(d, n) # Absent
        PROVE  \E u \in Handles : BearsNext(u, d, n)
    <3>1. n \in Names /\ File(d, n) # Absent BY <1>1, <2>1, NameTypes DEF FilesStay
    <3>2. Has(d, n) BY <1>0, <3>1, FreshTypes
    <3>3. d # c BY <1>1, <3>2
    <3>4. mode[d] = "up"
      <4>1. mode \in [Clients -> {"up", "down", "recovering"}] BY <1>0 DEF IInv, TypeOK
      <4> QED BY <1>1, <2>1, <3>3, <4>1
    <3>5. PICK u \in Handles : Bears(u, d, n) BY <3>1, <3>4 DEF NInv, Borne
    <3> QED BY <1>1, <3>5 DEF Bears, BearsNext
  <2> QED BY <2>1, BorneStep
<1> QED BY <1>1, <1>2, <1>3, ClientStaysNew DEF CountsStay

-----------------------------------------------------------------------------
(* All steps.                                                              *)

LEMMA InitNew == Init => NInv
<1> SUFFICES ASSUME Init PROVE NInv OBVIOUS
<1>0. IInv BY InitIInv
<1>1. /\ \A c \in Clients, n \in Names : File(c, n) = Absent
      /\ Absent.data = <<NoFile, 0>> /\ Absent.data[2] = 0
  BY DEF Init, File, Has, Absent
<1>2. \A t \in Handles : th[t].buf = <<NoFile, 0>> /\ th[t].pc = "idle"
  BY DEF Init, Idle, Request
<1>3. /\ writes = 0 /\ clock = 1 /\ Boot \in Nat \ {0}
      /\ \A f \in Files : since[f] = 0
      /\ \A c \in Clients, f \in Files : closed[c][f][2] = 0
  BY ClockAssumption DEF Init, Base
<1>4. ASSUME NEW f \in Files PROVE srv[f].data[2] = 0 /\ srv[f].mtime < Boot + clock
  <2>1. CASE f \in Present
    <3>1. srv[f] = [data |-> Base(f), mtime |-> Boot] BY <2>1 DEF Init
    <3>2. srv[f].data = Base(f) /\ srv[f].mtime = Boot BY <3>1
    <3> QED BY <1>3, <3>2 DEF Base
  <2>2. CASE f \notin Present
    <3>1. srv[f] = Absent BY <2>2 DEF Init
    <3> QED BY <1>3, <3>1 DEF Absent
  <2> QED BY <2>1, <2>2
<1>5. \A n \in Names : n[2] \in Files BY DEF Names, CachedNames, TempNames, RecoverNames
<1>6. Counted BY <1>1, <1>2, <1>3, <1>4 DEF Counted
<1>7. Later BY <1>1, <1>3, <1>5 DEF Later, New, Fresh
<1>8. OneRecovery /\ Borne BY <1>1, NameTypes DEF OneRecovery, Borne
<1>9. LastKept BY <1>3 DEF LastKept, Fresh
<1>10. \A t \in Handles : RequestNew(t) BY <1>2 DEF RequestNew, Fetching
<1> QED BY <1>6, <1>7, <1>8, <1>9, <1>10 DEF NInv

LEMMA ThreadNew ==
  ASSUME ~Collisions, ~MayCreate, SInv, SInv', PathInv, PathInv', NInv,
         Sequential, DescriptorsApart, NEW t \in Handles,
         UserStep(t) \/ OpenStep(t) \/ ReleaseStep(t)
  PROVE  NInv'
<1>1. CASE UserStep(t)
  BY <1>1, LookupNew, WriteNew, ReleaseNew DEF UserStep, CreateLookup
<1>2. CASE OpenStep(t)
  BY <1>2, NoCreate, CheckNew, FetchNew, InstallNew, UtimensNew, CopyNew, StampNew
  DEF OpenStep
<1>3. CASE ReleaseStep(t)
  BY <1>3, DropNew, MarkNew, CloseNew, SendNew, SwapNew, EraseNew, SubmitNew, SendPathNew
  DEF ReleaseStep
<1> QED BY <1>1, <1>2, <1>3

LEMMA StepNew ==
  ASSUME ~Collisions, ~MayCreate, SInv, SInv', PathInv, PathInv', NInv,
         Sequential, DescriptorsApart, [Next]_vars
  PROVE  NInv'
<1>1. CASE UNCHANGED vars
  <2>1. /\ FilesStay /\ ServerStays /\ UNCHANGED <<writes, closed, mode, tempMap, th>>
    BY <1>1, SameFiles DEF vars, server, ServerStays, history, bounds, scan
  <2>2. IInv BY DEF SInv, PInv
  <2>3. Ages BY <2>1, <2>2, StaysAge DEF ServerStays
  <2>4. \A d \in Clients, k \in RecoverNames : FileNext(d, k) = File(d, k)
    BY <2>1, NameTypes DEF FilesStay
  <2>5. Borne'
    <3>1. ASSUME NEW d \in Clients, NEW n \in RecoverNames, mode'[d] = "up",
                 FileNext(d, n) # Absent
          PROVE  \E u \in Handles : BearsNext(u, d, n)
      BY <2>1, <2>4, <3>1 DEF NInv, Borne, Bears, BearsNext
    <3> QED BY <3>1, BorneStep
  <2> QED BY <2>1, <2>3, <2>5, ClientStaysNew
<1>2. ASSUME NEW t \in Handles, UserStep(t) \/ OpenStep(t) \/ ReleaseStep(t)
      PROVE  NInv'
  BY <1>2, ThreadNew
<1>3. ASSUME NEW c \in Clients, CloserStep(c) \/ Crash(c) \/ Restart(c)
      PROVE  NInv'
  BY <1>3, CloserNew, CrashNew
<1>4. ASSUME NEW c \in Clients, ScanStep(c) PROVE NInv'
  BY <1>4, SwitchAssumption, RecoverRenameNew, RecoverSendNew, DiscardNew, DoneNew
  DEF ScanStep
<1> QED BY <1>1, <1>2, <1>3, <1>4 DEF Next

\* Drawn numbers are free, and no file is created.
NewestConditions == Collisions = FALSE /\ MayCreate = FALSE

\* What a client closed last is not lost to an open that fetches, to a failed call,
\* to a crash at any step or to a scan, as long as the client sends one request of a
\* path at a time and no descriptor is used again before its last release is over.
THEOREM LastCloseIsKept ==
  NewestConditions => (Spec /\ [](Sequential /\ DescriptorsApart) => []LastCloseKept)
<1>1. ASSUME NewestConditions
      PROVE  Spec /\ [](Sequential /\ DescriptorsApart) => []LastCloseKept
  <2> DEFINE Inv == SInv /\ PathInv /\ NInv
             Fair == Sequential /\ DescriptorsApart
  <2>1. Init => Inv BY InitSInv, InitPath, InitNew
  <2>2. Inv /\ Fair /\ [Next]_vars => Inv'
    BY <1>1, StepSInv, StepPath, StepNew DEF NewestConditions
  <2>3. Inv => LastCloseKept BY LastKeptHolds DEF SInv, PInv, NInv
  <2> HIDE DEF Inv, Fair
  <2>4. Spec /\ []Fair => []LastCloseKept BY <2>1, <2>2, <2>3, PTL DEF Spec
  <2> QED BY <2>4 DEF Fair
<1> QED BY <1>1
-----------------------------------------------------------------------------
(* The invariant of FlushOnClose.                                          *)

\* The requests of a client that have a temporary name have different ones.
TempsApart ==
  \A t, u \in Handles :
    ClientOf[t] = ClientOf[u] /\ th[t].tmp # NoName /\ th[t].tmp = th[u].tmp => t = u

\* What a request still has to bring to the server, and where it is.
FlushOK(t) ==
  LET c == ClientOf[t]
      r == th[t]
  IN
  /\ r.want # "submit" /\ r.pc \notin {"submit", "sendPath"}
  /\ r.pc \in {"check", "fetch", "getattr", "utimens", "copy", "stamp", "drop"} =>
       ~Written(r.buf)
  /\ r.pc \in {"open", "mark", "close"} => tempMap[c][r.fd] = r.tmp
  /\ Written(r.buf) =>
       /\ r.pc \in {"open", "mark"} => File(c, r.tmp).data = r.buf
       /\ r.pc \in {"close", "send"} => File(c, Recover(r.tmp)).data = r.buf
       /\ r.pc \in {"swap", "erase"} => r.buf \in PublishedContents(r.path)

FInv == FlushOnClose /\ TempsApart /\ \A t \in Handles : FlushOK(t)

\* The same after the step.
FlushNext(t) ==
  LET c == ClientOf[t]
      r == th'[t]
  IN
  /\ r.want # "submit" /\ r.pc \notin {"submit", "sendPath"}
  /\ r.pc \in {"check", "fetch", "getattr", "utimens", "copy", "stamp", "drop"} =>
       ~Written(r.buf)
  /\ r.pc \in {"open", "mark", "close"} => tempMap'[c][r.fd] = r.tmp
  /\ Written(r.buf) =>
       /\ r.pc \in {"open", "mark"} => FileNext(c, r.tmp).data = r.buf
       /\ r.pc \in {"close", "send"} => FileNext(c, Recover(r.tmp)).data = r.buf
       /\ r.pc \in {"swap", "erase"} => r.buf \in PublishedNext(r.path)

LEMMA FlushThen == ASSUME NEW t \in Handles, FlushNext(t) PROVE FlushOK(t)'
<1>1. \A n : File(ClientOf[t], n)' = FileNext(ClientOf[t], n) BY DEF File, FileNext, Has, At
<1>2. \A f : PublishedContents(f)' = PublishedNext(f) BY DEF PublishedContents, PublishedNext
<1> QED BY <1>1, <1>2 DEF FlushNext, FlushOK, File, FileNext, Has, At, PublishedContents,
                         PublishedNext, Recover, Written

\* The names in the hands of a request.
Carries(t) == th[t].pc \in {"open", "mark", "close", "send"}

LEMMA CarriedNames ==
  ASSUME SInv, NEW t \in Handles, Carries(t)
  PROVE  /\ ClientOf[t] \in Clients /\ th[t].path \in Files
         /\ th[t].tmp \in TempNames /\ th[t].tmp \in Names /\ Recover(th[t].tmp) \in Names
         /\ th[t].tmp # NoName
         /\ th[t].pc # "send" => IsOpen(t) /\ th[t].fd \in Fds
<1>1. PInv /\ IInv BY DEF SInv, PInv
<1>2. ClientOf[t] \in Clients /\ th[t].path \in Files /\ RequestOK(t)
  BY <1>1, Thread DEF Carries
<1>3. CASE th[t].pc = "send"
  <2>1. th[t].tmp \in TempNames BY <1>2, <1>3 DEF RequestOK
  <2> QED BY <1>2, <1>3, <2>1, NameTypes
<1>4. CASE th[t].pc # "send"
  <2>1. Holds(t) BY <1>4 DEF SInv, Opening, Holds, Carries
  <2> QED BY <1>1, <1>2, <1>4, <2>1, Holder DEF Carries
<1> QED BY <1>3, <1>4

\* A request that does not move, and whose file and map entry do not change.
LEMMA FlushFrame ==
  ASSUME SInv, HistoryGrows, NEW u \in Handles, FlushOK(u), th'[u] = th[u],
         Carries(u) =>
           LET c == ClientOf[u]
               n == th[u].tmp
           IN
           /\ IsOpen(u) => tempMap'[c][th[u].fd] = tempMap[c][th[u].fd]
           /\ FileNext(c, n) = File(c, n) /\ FileNext(c, Recover(n)) = File(c, Recover(n))
  PROVE  FlushNext(u)
<1> DEFINE c == ClientOf[u]
           r == th[u]
<1>0. PInv /\ IInv BY DEF SInv, PInv
<1>1. CASE r.pc = "idle" BY <1>1 DEF FlushOK, FlushNext
<1>2. CASE r.pc # "idle"
  <2>1. r.path \in Files BY <1>0, <1>2, Thread
  <2>2. r.buf \in PublishedContents(r.path) => r.buf \in PublishedNext(r.path)
    BY <2>1 DEF HistoryGrows
  <2>3. /\ r.pc \in {"open", "mark"} => FileNext(c, r.tmp) = File(c, r.tmp)
        /\ r.pc \in {"close", "send"} =>
             FileNext(c, Recover(r.tmp)) = File(c, Recover(r.tmp))
    BY DEF Carries
  <2>4. r.pc \in {"open", "mark", "close"} => tempMap'[c][r.fd] = tempMap[c][r.fd]
    BY CarriedNames DEF Carries
  <2>5. /\ r.want # "submit" /\ r.pc \notin {"submit", "sendPath"}
        /\ r.pc \in {"check", "fetch", "getattr", "utimens", "copy", "stamp", "drop"} =>
             ~Written(r.buf)
        /\ r.pc \in {"open", "mark", "close"} => tempMap'[c][r.fd] = r.tmp
    BY <2>4 DEF FlushOK
  <2>6. Written(r.buf) =>
       /\ r.pc \in {"open", "mark"} => FileNext(c, r.tmp).data = r.buf
       /\ r.pc \in {"close", "send"} => FileNext(c, Recover(r.tmp)).data = r.buf
       /\ r.pc \in {"swap", "erase"} => r.buf \in PublishedNext(r.path)
    BY <2>2, <2>3 DEF FlushOK
  <2> QED BY <2>5, <2>6 DEF FlushNext
<1> QED BY <1>1, <1>2

LEMMA FlushAll ==
  ASSUME IInv, FInv, HistoryGrows, TempsApart', \A t \in Handles : FlushNext(t),
         \A x \in acked' : x \in acked \/ x \in PublishedNext(x[1])
  PROVE  FInv'
<1>1. \A t \in Handles : FlushOK(t)' BY FlushThen
<1>2. ASSUME NEW x \in acked' PROVE x \in PublishedNext(x[1])
  <2>1. CASE x \in acked
    <3>1. x[1] \in Files BY <2>1, NoFileIsNoContent DEF IInv, TypeOK
    <3>2. x \in PublishedContents(x[1]) BY <2>1 DEF FInv, FlushOnClose
    <3> QED BY <3>1, <3>2 DEF HistoryGrows
  <2> QED BY <1>2, <2>1
<1>3. FlushOnClose' BY <1>2 DEF FlushOnClose, PublishedContents, PublishedNext
<1> QED BY <1>1, <1>3 DEF FInv

\* The names that a step of request t may touch.
Touches(t, k) ==
  \/ k \in CachedNames
  \/ th[t].tmp \in TempNames /\ k \in {th[t].tmp, Recover(th[t].tmp)}
  \/ k \in TempNames /\ ~InUse(ClientOf[t], k)

LEMMA Untouched ==
  ASSUME SInv, TempsApart, NEW t \in Handles, NEW u \in Peers(t), Carries(u), NEW k,
         Touches(t, k)
  PROVE  k # th[u].tmp /\ k # Recover(th[u].tmp)
<1>1. /\ u \in Handles /\ u # t /\ ClientOf[u] = ClientOf[t]
      /\ th[u].tmp \in TempNames /\ th[u].tmp # NoName
  BY CarriedNames DEF Peers
<1>2. th[t].tmp # th[u].tmp BY <1>1 DEF TempsApart
<1>3. CASE k \in CachedNames
  BY <1>1, <1>3 DEF CachedNames, TempNames, Recover
<1>4. CASE th[t].tmp \in TempNames /\ k \in {th[t].tmp, Recover(th[t].tmp)}
  BY <1>1, <1>2, <1>4, NameKinds
<1>5. CASE k \in TempNames /\ ~InUse(ClientOf[t], k)
  <2>1. k # th[u].tmp BY <1>1, <1>5 DEF InUse
  <2>2. k # Recover(th[u].tmp) BY <1>1, <1>5, NameKinds
  <2> QED BY <2>1, <2>2
<1> QED BY <1>3, <1>4, <1>5 DEF Touches

\* A step of request t.
LEMMA FlushStep ==
  ASSUME SInv, FInv, NEW t \in Handles, Others(t), HistoryGrows,
         \A d \in Clients \ {ClientOf[t]} : tempMap'[d] = tempMap[d],
         \A u \in Peers(t) :
           IsOpen(u) => tempMap'[ClientOf[t]][th[u].fd] = tempMap[ClientOf[t]][th[u].fd],
         \A d \in Clients, k \in Names :
           d # ClientOf[t] \/ ~Touches(t, k) => FileNext(d, k) = File(d, k),
         th'[t].tmp \in {th[t].tmp, NoName} \/ ~InUse(ClientOf[t], th'[t].tmp),
         FlushOK(t) =>
           /\ FlushNext(t)
           /\ \A x \in acked' : x \in acked \/ x \in PublishedNext(x[1])
  PROVE  FInv'
<1>0. IInv BY DEF SInv, PInv
<1>1. ASSUME NEW u \in Handles, u # t PROVE FlushNext(u)
  <2>1. th'[u] = th[u] /\ FlushOK(u) BY <1>1 DEF Others, FInv
  <2>2. ASSUME Carries(u)
        PROVE  LET c == ClientOf[u]
                   n == th[u].tmp
               IN
               /\ IsOpen(u) => tempMap'[c][th[u].fd] = tempMap[c][th[u].fd]
               /\ FileNext(c, n) = File(c, n)
               /\ FileNext(c, Recover(n)) = File(c, Recover(n))
    <3>1. /\ ClientOf[u] \in Clients /\ th[u].tmp \in Names /\ Recover(th[u].tmp) \in Names
      BY <2>2, CarriedNames
    <3>2. CASE ClientOf[u] # ClientOf[t] BY <3>1, <3>2
    <3>3. CASE ClientOf[u] = ClientOf[t]
      <4>1. u \in Peers(t) BY <1>1, <3>3 DEF Peers
      <4>2. ~Touches(t, th[u].tmp) /\ ~Touches(t, Recover(th[u].tmp))
        BY <2>2, <4>1, Untouched DEF FInv
      <4> QED BY <3>1, <3>3, <4>1, <4>2
    <3> QED BY <3>2, <3>3
  <2> QED BY <2>1, <2>2, FlushFrame
<1>2. TempsApart'
  <2>1. ASSUME NEW u \in Handles, u # t, ClientOf[u] = ClientOf[t], th'[t].tmp # NoName
        PROVE  th'[t].tmp # th'[u].tmp
    <3>1. th'[u] = th[u] BY <2>1 DEF Others
    <3>2. CASE th'[t].tmp = th[t].tmp BY <2>1, <3>1, <3>2 DEF FInv, TempsApart
    <3>3. CASE ~InUse(ClientOf[t], th'[t].tmp) BY <2>1, <3>1, <3>3 DEF InUse
    <3> QED BY <2>1, <3>2, <3>3
  <2>2. ASSUME NEW u \in Handles, NEW v \in Handles, u # t, v # t,
               ClientOf[u] = ClientOf[v], th'[u].tmp # NoName, th'[u].tmp = th'[v].tmp
        PROVE  u = v
    BY <2>2 DEF Others, FInv, TempsApart
  <2> QED BY <2>1, <2>2 DEF TempsApart
<1>3. FlushOK(t) BY DEF FInv
<1> QED BY <1>0, <1>1, <1>2, <1>3, FlushAll

\* A step of a client, which ends requests or leaves them alone.
LEMMA FlushAround ==
  ASSUME SInv, FInv, HistoryGrows, acked' = acked,
         \A u \in Handles :
           \/ th'[u] = Idle
           \/ /\ th'[u] = th[u]
              /\ \/ th[u].pc = "idle"
                 \/ /\ tempMap'[ClientOf[u]] = tempMap[ClientOf[u]]
                    /\ \A n \in Names : FileNext(ClientOf[u], n) = File(ClientOf[u], n)
  PROVE  FInv'
<1>0. IInv BY DEF SInv, PInv
<1>1. Idle.pc = "idle" /\ Idle.want = "none" /\ Idle.buf[2] = 0 /\ Idle.tmp = NoName
  BY DEF Idle, Request
<1>2. ASSUME NEW u \in Handles PROVE FlushNext(u)
  <2>1. CASE th'[u] = Idle BY <1>1, <2>1 DEF FlushNext, Written
  <2>2. CASE th'[u] # Idle BY <2>2, CarriedNames, FlushFrame DEF FInv, Carries
  <2> QED BY <2>1, <2>2
<1>3. TempsApart'
  <2>1. \A u \in Handles : th'[u].tmp # NoName => th'[u] = th[u] BY <1>1
  <2> QED BY <2>1 DEF FInv, TempsApart
<1> QED BY <1>0, <1>2, <1>3, FlushAll
-----------------------------------------------------------------------------
(* client_open and client_getattr write nothing.                           *)

LEMMA FlushBefore ==
  ASSUME SInv, FInv, NEW t \in Handles, Others(t), HistoryGrows, UNCHANGED <<tempMap, acked>>,
         FilesStay \/ \E n : Touches(t, n) /\ Elsewhere(ClientOf[t], n),
         th'[t].tmp \in {th[t].tmp, NoName} \/ ~InUse(ClientOf[t], th'[t].tmp),
         FlushOK(t) =>
           /\ th'[t].want # "submit"
           /\ th'[t].pc \in {"idle", "check", "fetch", "install", "getattr", "utimens",
                             "copy", "stamp"}
           /\ th'[t].pc \in {"idle", "install"} \/ ~Written(th'[t].buf)
  PROVE  FInv'
<1>1. FlushOK(t) => FlushNext(t) BY DEF FlushNext
<1>2. ASSUME NEW d \in Clients, NEW k \in Names, d # ClientOf[t] \/ ~Touches(t, k)
      PROVE  FileNext(d, k) = File(d, k)
  BY <1>2 DEF FilesStay, Elsewhere
<1> QED BY <1>1, <1>2, FlushStep

LEMMA TouchesCached ==
  ASSUME IInv, NEW t \in Handles, th[t].pc # "idle"
  PROVE  Touches(t, Cached(th[t].path))
<1>1. th[t].path \in Files BY Thread
<1> QED BY <1>1 DEF Touches, CachedNames, Cached

LEMMA OpenFlush ==
  ASSUME ~Collisions, SInv, FInv, NEW t \in Handles,
         \/ \E f \in Files, want \in {"open", "getattr"} : Lookup(t, f, want)
         \/ \E ok \in BOOLEAN : Check(t, ok) \/ Fetch(t, ok) \/ Getattr(t, ok)
         \/ Install(t) \/ Utimens(t) \/ \E s \in Suffixes : Copy(t, s)
  PROVE  FInv'
<1>0. PInv /\ IInv /\ ~Written(<<NoFile, 0>>) BY DEF SInv, PInv, Written
<1>1. ASSUME NEW f \in Files, NEW want \in {"open", "getattr"}, Lookup(t, f, want)
      PROVE  FInv'
  <2>1. /\ ServerStays /\ UNCHANGED <<tempMap, acked>> /\ FilesStay /\ Others(t)
        /\ th'[t].pc \in {"check", "fetch"} /\ th'[t].want # "submit"
        /\ th'[t].buf = <<NoFile, 0>> /\ th'[t].tmp = NoName
    BY <1>0, <1>1, LookupEffect DEF CountsStay
  <2> QED BY <1>0, <2>1, ServerGrows, FlushBefore
<1>2. ASSUME NEW ok \in BOOLEAN, Check(t, ok) PROVE FInv'
  <2>1. /\ ServerStays /\ UNCHANGED <<tempMap, acked>> /\ FilesStay /\ Others(t)
        /\ th[t].pc = "check" /\ th'[t].tmp \in {th[t].tmp, NoName}
        /\ \/ th'[t].pc = "idle" /\ th'[t].want # "submit"
           \/ /\ th'[t].pc \in {"fetch", "copy"} /\ th'[t].want = th[t].want
              /\ th'[t].buf = th[t].buf
    BY <1>0, <1>2, CheckEffect DEF CountsStay, Goes, Steps, Ends
  <2>2. FlushOK(t) => ~Written(th[t].buf) /\ th[t].want # "submit" BY <2>1 DEF FlushOK
  <2> QED BY <1>0, <2>1, <2>2, ServerGrows, FlushBefore
<1>3. ASSUME NEW ok \in BOOLEAN, Fetch(t, ok) PROVE FInv'
  <2>1. /\ ServerStays /\ UNCHANGED <<tempMap, acked>> /\ FilesStay /\ Others(t)
        /\ th[t].pc = "fetch" /\ th'[t].want = th[t].want /\ th'[t].tmp = th[t].tmp
        /\ \/ th'[t].pc = "install"
           \/ th'[t].pc = "getattr" /\ th'[t].buf = th[t].buf
    BY <1>0, <1>3, FetchEffect DEF CountsStay, Goes, Steps
  <2>2. FlushOK(t) => ~Written(th[t].buf) /\ th[t].want # "submit" BY <2>1 DEF FlushOK
  <2> QED BY <1>0, <2>1, <2>2, ServerGrows, FlushBefore
<1>4. ASSUME NEW ok \in BOOLEAN, Getattr(t, ok) PROVE FInv'
  <2>1. /\ ServerStays /\ UNCHANGED <<tempMap, acked>> /\ FilesStay /\ Others(t)
        /\ th[t].pc = "getattr" /\ th'[t].want = th[t].want /\ th'[t].tmp = th[t].tmp
        /\ th'[t].pc = "utimens" /\ th'[t].buf = th[t].buf
    BY <1>0, <1>4, GetattrEffect DEF CountsStay, Goes, Steps
  <2>2. FlushOK(t) => ~Written(th[t].buf) /\ th[t].want # "submit" BY <2>1 DEF FlushOK
  <2> QED BY <1>0, <2>1, <2>2, ServerGrows, FlushBefore
<1>5. CASE Install(t)
  <2>1. /\ ServerStays /\ UNCHANGED <<tempMap, acked>> /\ Others(t) /\ th[t].pc = "install"
        /\ Elsewhere(ClientOf[t], Cached(th[t].path)) /\ th'[t].tmp = th[t].tmp
        /\ th'[t].want = th[t].want /\ th'[t].pc = "getattr" /\ th'[t].buf = <<NoFile, 0>>
    BY <1>0, <1>5, InstallEffect DEF CountsStay
  <2>2. FlushOK(t) => th[t].want # "submit" BY DEF FlushOK
  <2>3. Touches(t, Cached(th[t].path)) BY <1>0, <2>1, TouchesCached
  <2> QED BY <1>0, <2>1, <2>2, <2>3, ServerGrows, FlushBefore
<1>6. CASE Utimens(t)
  <2>1. /\ ServerStays /\ UNCHANGED <<tempMap, acked>> /\ Others(t)
        /\ Elsewhere(ClientOf[t], Cached(th[t].path)) /\ th[t].pc = "utimens"
        /\ th'[t].tmp \in {th[t].tmp, NoName}
        /\ \/ th'[t].pc = "idle" /\ th'[t].want # "submit"
           \/ /\ th'[t].pc = "copy" /\ th'[t].want = th[t].want
              /\ th'[t].buf = th[t].buf
    BY <1>0, <1>6, UtimensEffect DEF CountsStay, Goes, Steps, Ends
  <2>2. FlushOK(t) => ~Written(th[t].buf) /\ th[t].want # "submit" BY <2>1 DEF FlushOK
  <2>3. Touches(t, Cached(th[t].path)) BY <1>0, <2>1, TouchesCached
  <2> QED BY <1>0, <2>1, <2>2, <2>3, ServerGrows, FlushBefore
<1>7. ASSUME NEW s \in Suffixes, Copy(t, s) PROVE FInv'
  <2> DEFINE n == Temp(th[t].path, s)
  <2>1. /\ ServerStays /\ UNCHANGED <<tempMap, acked>> /\ Others(t)
        /\ Elsewhere(ClientOf[t], n) /\ th[t].pc = "copy" /\ ~InUse(ClientOf[t], n)
        /\ th'[t].tmp = n
        /\ th'[t].pc = "stamp" /\ th'[t].want = th[t].want /\ th'[t].buf = th[t].buf
    BY <1>0, <1>7, CopyEffect DEF CountsStay
  <2>2. FlushOK(t) => ~Written(th[t].buf) /\ th[t].want # "submit" BY <2>1 DEF FlushOK
  <2>3. n \in TempNames BY <1>0, <2>1, Thread, NameTypes
  <2> HIDE DEF n
  <2>4. Touches(t, n) BY <2>1, <2>3 DEF Touches
  <2> QED BY <1>0, <2>1, <2>2, <2>4, ServerGrows, FlushBefore
<1> QED BY <1>1, <1>2, <1>3, <1>4, <1>5, <1>6, <1>7

\* The descriptor, which no open file of the client has, is mapped to the
\* temporary name.
LEMMA StampFlush ==
  ASSUME SInv, FInv, NEW t \in Handles, Stamp(t)
  PROVE  FInv'
<1> DEFINE c == ClientOf[t]
           n == th[t].tmp
<1>0. PInv /\ IInv BY DEF SInv, PInv
<1>1. /\ ServerStays /\ acked' = acked /\ th[t].pc = "stamp" /\ HistoryGrows
      /\ c \in Clients /\ n \in TempNames
  BY <1>0, StampEffect, ServerGrows DEF CountsStay
<1>2. CASE FilesStay /\ UNCHANGED tempMap /\ Ends(t)
  BY <1>1, <1>2, FlushBefore DEF Ends
<1>3. CASE ~(FilesStay /\ UNCHANGED tempMap /\ Ends(t))
  <2>1. /\ Elsewhere(c, n) /\ Others(t)
        /\ th'[t].pc = "open" /\ th'[t].want = th[t].want /\ th'[t].buf = th[t].buf
        /\ th'[t].tmp = n /\ tempMap'[c][th'[t].fd] = n
        /\ \A d \in Clients \ {c} : tempMap'[d] = tempMap[d]
    BY <1>0, <1>3, StampEffect
  <2>2. FlushOK(t) => ~Written(th[t].buf) /\ th[t].want # "submit" BY <1>1 DEF FlushOK
  <2>3. FlushOK(t) => FlushNext(t) BY <2>1, <2>2 DEF FlushNext
  <2>4. Touches(t, n) BY <1>1 DEF Touches
  <2>5. ASSUME NEW d \in Clients, NEW k \in Names, d # c \/ ~Touches(t, k)
        PROVE  FileNext(d, k) = File(d, k)
    BY <2>1, <2>4, <2>5 DEF Elsewhere
  <2>6. ASSUME NEW u \in Peers(t), IsOpen(u)
        PROVE  tempMap'[c][th[u].fd] = tempMap[c][th[u].fd]
    <3>1. tempMap' = tempMap \/
            \E d \in Fds : FdFree(c, d) /\ tempMap' = [tempMap EXCEPT ![c][d] = n]
      BY <1>3 DEF Stamp
    <3>2. u \in Handles /\ ClientOf[u] = c BY <2>6 DEF Peers
    <3>3. ASSUME NEW d \in Fds, FdFree(c, d), tempMap' = [tempMap EXCEPT ![c][d] = n]
          PROVE  tempMap'[c][th[u].fd] = tempMap[c][th[u].fd]
      <4>1. th[u].fd # d BY <2>6, <3>2, <3>3 DEF FdFree
      <4> QED BY <1>0, <1>1, <3>3, <4>1 DEF IInv, TypeOK
    <3> QED BY <3>1, <3>3
  <2> QED BY <1>1, <2>1, <2>3, <2>5, <2>6, FlushStep
<1> QED BY <1>2, <1>3
-----------------------------------------------------------------------------
(* From the write to the return of client_release.                         *)

\* A step that leaves the map and the server alone, and perhaps moves the files of
\* the request.
LEMMA FlushMove ==
  ASSUME SInv, FInv, NEW t \in Handles, Others(t), HistoryGrows,
         UNCHANGED <<tempMap, acked>>, th'[t].tmp \in {th[t].tmp, NoName},
         \A d \in Clients, k \in Names :
           d # ClientOf[t] \/ ~Touches(t, k) => FileNext(d, k) = File(d, k),
         FlushOK(t) => FlushNext(t)
  PROVE  FInv'
BY FlushStep

LEMMA WriteFlush ==
  ASSUME SInv, FInv, NEW t \in Handles, Write(t)
  PROVE  FInv'
<1> DEFINE c == ClientOf[t]
           n == th[t].tmp
           x == <<th[t].path, writes + 1>>
<1>1. /\ UNCHANGED <<log, tempMap, acked>>
      /\ FileNext(c, n) = [data |-> x, mtime |-> Local(c)] /\ Elsewhere(c, n)
      /\ th[t].pc = "open" /\ Others(t) /\ th'[t].pc = "open" /\ th'[t].path = th[t].path
      /\ th'[t].want = th[t].want /\ th'[t].tmp = n /\ th'[t].fd = th[t].fd
      /\ th'[t].buf = x
  BY WriteEffect
<1>2. Touches(t, n) BY <1>1, HandleFile DEF Touches
<1>3. FlushOK(t) => tempMap[c][th[t].fd] = n /\ th[t].want # "submit"
  BY <1>1 DEF FlushOK
<1>4. FileNext(c, n).data = x BY <1>1
<1>5. ASSUME NEW d \in Clients, NEW k \in Names, d # c \/ ~Touches(t, k)
      PROVE  FileNext(d, k) = File(d, k)
  BY <1>1, <1>2, <1>5 DEF Elsewhere
<1> HIDE DEF n, x
<1>6. FlushOK(t) => FlushNext(t) BY <1>1, <1>3, <1>4 DEF FlushNext
<1> QED BY <1>1, <1>5, <1>6, ServerGrows, FlushMove DEF n

\* The file that a request wrote is taken for modified: its modification time
\* differs in the nanoseconds from the server's, and from the 0 of a call without an
\* answer.
NanosDiffer ==
  \A t \in Handles :
    (th[t].pc = "open" /\ Written(th[t].buf) /\ th'[t].pc \in {"mark", "drop"}) =>
      LET time == nodes[ClientOf[t]][th[t].ino].mtime IN
      \A ok \in BOOLEAN : Nsec(time) # Nsec(Mtime(th[t].path, ok))

LEMMA ReleaseFlush ==
  ASSUME NanosDiffer, SInv, FInv, NEW t \in Handles, NEW ok \in BOOLEAN, Release(t, ok)
  PROVE  FInv'
<1> DEFINE c == ClientOf[t]
           n == th[t].tmp
           f == th[t].path
<1>0. PInv /\ IInv BY DEF SInv, PInv
<1>1. /\ ServerStays /\ FilesStay /\ UNCHANGED <<tempMap, acked>> /\ th[t].pc = "open"
      /\ \/ Goes(t, "mark")
         \/ Goes(t, "drop") /\ Nsec(File(c, n).mtime) = Nsec(Mtime(f, ok))
  BY <1>0, ReleaseEffect DEF CountsStay
<1>2. /\ Others(t) /\ th'[t].want = th[t].want /\ th'[t].tmp = n /\ th'[t].fd = th[t].fd
      /\ th'[t].buf = th[t].buf /\ th'[t].pc \in {"mark", "drop"}
  BY <1>1 DEF Goes, Steps
<1>3. c \in Clients /\ n \in Names /\ nodes[c][th[t].ino] = File(c, n) BY <1>1, HandleFile
<1>4. th'[t].pc = "drop" => ~Written(th[t].buf)
  <2>1. ASSUME th'[t].pc = "drop", Written(th[t].buf) PROVE FALSE
    <3>1. Nsec(File(c, n).mtime) = Nsec(Mtime(f, ok)) BY <1>1, <2>1 DEF Goes, Steps
    <3>2. Nsec(nodes[c][th[t].ino].mtime) # Nsec(Mtime(f, ok))
      BY <1>1, <1>2, <2>1 DEF NanosDiffer
    <3> QED BY <1>3, <3>1, <3>2
  <2> QED BY <2>1
<1>5. FileNext(c, n) = File(c, n) BY <1>1, <1>3 DEF FilesStay
<1>6. FlushOK(t) =>
        /\ tempMap[c][th[t].fd] = n /\ th[t].want # "submit"
        /\ Written(th[t].buf) => File(c, n).data = th[t].buf
  BY <1>1 DEF FlushOK
<1> HIDE DEF n
<1>7. FlushOK(t) => FlushNext(t)
  BY <1>1, <1>2, <1>4, <1>5, <1>6 DEF FlushNext
<1> QED BY <1>1, <1>2, <1>7, ServerGrows, FlushMove DEF FilesStay, n

\* The written file gets its recovery name.
LEMMA MarkFlush ==
  ASSUME SInv, FInv, NEW t \in Handles, Mark(t)
  PROVE  FInv'
<1> DEFINE c == ClientOf[t]
           n == th[t].tmp
<1>0. PInv /\ IInv BY DEF SInv, PInv
<1>1. /\ ServerStays /\ UNCHANGED <<tempMap, acked>> /\ th[t].pc = "mark" /\ Goes(t, "close")
      /\ \/ tempMap[c][th[t].fd] = NoName
         \/ FileNext(c, Recover(n)) = File(c, n)
      /\ \A d \in Clients, k \in Names :
           d # c \/ (k # n /\ k # Recover(n)) => FileNext(d, k) = File(d, k)
  BY <1>0, MarkEffect DEF FilesStay
<1>2. n \in TempNames /\ n # NoName BY <1>1, HandleFile, NameTypes
<1>3. FlushOK(t) =>
        /\ tempMap[c][th[t].fd] = n /\ th[t].want # "submit"
        /\ Written(th[t].buf) => File(c, n).data = th[t].buf
  BY <1>1 DEF FlushOK
<1>4. FlushOK(t) => FileNext(c, Recover(n)) = File(c, n) BY <1>1, <1>2, <1>3
<1>5. /\ Others(t) /\ th'[t].want = th[t].want /\ th'[t].tmp = n /\ th'[t].fd = th[t].fd
      /\ th'[t].buf = th[t].buf /\ th'[t].pc = "close"
  BY <1>1 DEF Goes, Steps
<1>6. Touches(t, n) /\ Touches(t, Recover(n)) BY <1>2 DEF Touches
<1>7. ASSUME NEW d \in Clients, NEW k \in Names, d # c \/ ~Touches(t, k)
      PROVE  FileNext(d, k) = File(d, k)
  BY <1>1, <1>6, <1>7
<1> HIDE DEF n
<1>8. FlushOK(t) => FlushNext(t) BY <1>1, <1>3, <1>4, <1>5 DEF FlushNext
<1> QED BY <1>1, <1>5, <1>7, <1>8, ServerGrows, FlushMove DEF n

LEMMA CloseFlush ==
  ASSUME Large = {}, SInv, FInv, NEW t \in Handles, Close(t)
  PROVE  FInv'
<1> DEFINE c == ClientOf[t]
           n == th[t].tmp
<1>0. PInv /\ IInv BY DEF SInv, PInv
<1>1. /\ ServerStays /\ UNCHANGED <<tempMap, acked>> /\ FilesStay /\ th[t].pc = "close"
      /\ \/ tempMap[c][th[t].fd] # NoName /\ Goes(t, "send")
         \/ tempMap[c][th[t].fd] = NoName /\ (Goes(t, "send") \/ Goes(t, "sendPath"))
  BY <1>0, CloseEffect DEF CountsStay
<1>2. n \in TempNames /\ n # NoName /\ Recover(n) \in Names /\ c \in Clients
  BY <1>1, CarriedNames DEF Carries
<1>3. FlushOK(t) =>
        /\ tempMap[c][th[t].fd] = n /\ th[t].want # "submit"
        /\ Written(th[t].buf) => File(c, Recover(n)).data = th[t].buf
  BY <1>1 DEF FlushOK
<1>4. FileNext(c, Recover(n)) = File(c, Recover(n)) BY <1>1, <1>2 DEF FilesStay
<1>5. Others(t) /\ th'[t].tmp = n BY <1>1 DEF Goes, Steps
<1>6. FlushOK(t) => /\ th'[t].want = th[t].want
                    /\ th'[t].buf = th[t].buf /\ th'[t].pc = "send"
  BY <1>1, <1>2, <1>3 DEF Goes, Steps
<1> HIDE DEF n
<1>7. FlushOK(t) => FlushNext(t) BY <1>3, <1>4, <1>5, <1>6 DEF FlushNext
<1> QED BY <1>1, <1>5, <1>7, ServerGrows, FlushMove DEF FilesStay, n

\* The put of a request is answered.
PutAnswered ==
  \A t \in Handles : th[t].pc = "send" /\ th'[t].pc = "swap" => failures' = failures

LEMMA SendFlush ==
  ASSUME Nested = {}, PutAnswered, SInv, PathInv, FInv, NEW t \in Handles,
         NEW ok \in BOOLEAN, Send(t, ok)
  PROVE  FInv'
<1> DEFINE c == ClientOf[t]
           n == th[t].tmp
           m == Recover(n)
<1>0. PInv /\ IInv BY DEF SInv, PInv
<1>1. /\ UNCHANGED <<tempMap, acked>> /\ FilesStay /\ th[t].pc = "send" /\ Goes(t, "swap")
      /\ failures' = failures => ok
      /\ IF ok /\ n[2] \notin Nested /\ Has(c, m)
         THEN Serves(n[2], File(c, m).data) ELSE ServerStays
  BY <1>0, SendEffect DEF CountsStay
<1>2. /\ n \in TempNames /\ n # NoName /\ m \in Names /\ c \in Clients /\ n[2] \in Files
      /\ n[2] = th[t].path
  BY <1>1, CarriedNames, NameTypes DEF PathInv, PathOK, Carries
<1>3. HistoryGrows BY <1>1, ServerGrows
<1>4. FlushOK(t) =>
        /\ th[t].want # "submit"
        /\ Written(th[t].buf) => File(c, m).data = th[t].buf
  BY <1>1 DEF FlushOK
<1>5. Written(th[t].buf) => th[t].buf # Absent.data BY DEF Written, Absent
<1>6. /\ Others(t) /\ th'[t].want = th[t].want /\ th'[t].path = th[t].path
      /\ th'[t].buf = th[t].buf /\ th'[t].pc = "swap" /\ th'[t].tmp = n
  BY <1>1 DEF Goes, Steps
<1>7. ok BY <1>1, <1>6 DEF PutAnswered
<1>8. FlushOK(t) /\ Written(th[t].buf) => th[t].buf \in PublishedNext(th[t].path)
  BY <1>0, <1>1, <1>2, <1>4, <1>5, <1>7, FileFacts DEF Serves
<1>9. FlushOK(t) => FlushNext(t) BY <1>4, <1>6, <1>8 DEF FlushNext
<1> QED BY <1>1, <1>3, <1>6, <1>9, FlushMove DEF FilesStay

LEMMA SwapFlush ==
  ASSUME SInv, FInv, NEW t \in Handles, Swap(t)
  PROVE  FInv'
<1> DEFINE m == Recover(th[t].tmp)
           n == Cached(th[t].path)
<1>0. PInv /\ IInv BY DEF SInv, PInv
<1>1. /\ ServerStays /\ UNCHANGED <<tempMap, acked>> /\ th[t].pc = "swap" /\ Goes(t, "erase")
      /\ th[t].tmp \in TempNames
      /\ \A d \in Clients, k \in Names :
           d # ClientOf[t] \/ (k # m /\ k # n) => FileNext(d, k) = File(d, k)
  BY <1>0, SwapEffect DEF CountsStay, FilesStay
<1>2. th[t].path \in Files /\ HistoryGrows BY <1>0, <1>1, Thread, ServerGrows
<1>3. FlushOK(t) =>
        /\ th[t].want # "submit"
        /\ Written(th[t].buf) => th[t].buf \in PublishedNext(th[t].path)
  BY <1>1, <1>2 DEF FlushOK, HistoryGrows
<1>4. /\ Others(t) /\ th'[t].want = th[t].want /\ th'[t].path = th[t].path
      /\ th'[t].buf = th[t].buf /\ th'[t].pc = "erase" /\ th'[t].tmp = th[t].tmp
  BY <1>1 DEF Goes, Steps
<1>5. FlushOK(t) => FlushNext(t) BY <1>3, <1>4 DEF FlushNext
<1>6. Touches(t, n) BY <1>0, <1>1, TouchesCached
<1>7. Touches(t, m) BY <1>1 DEF Touches
<1>8. ASSUME NEW d \in Clients, NEW k \in Names, d # ClientOf[t] \/ ~Touches(t, k)
      PROVE  FileNext(d, k) = File(d, k)
  BY <1>1, <1>6, <1>7, <1>8
<1> QED BY <1>1, <1>2, <1>4, <1>5, <1>8, FlushMove

\* client_release returns: with nothing written, or with what it wrote sent.
LEMMA ReturnFlush ==
  ASSUME DescriptorsApart, SInv, PathInv, FInv, NEW t \in Handles,
         \/ Drop(t) \/ Erase(t) \/ Submit(t) \/ \E ok \in BOOLEAN : SendPath(t, ok)
  PROVE  FInv'
<1>0. PInv /\ IInv BY DEF SInv, PInv
<1>1. CASE Drop(t)
  <2>1. /\ HistoryGrows /\ UNCHANGED tempMap /\ FilesStay /\ th[t].pc = "drop" /\ Ends(t)
        /\ acked' = acked \cup Own(t)
    BY <1>0, <1>1, DropEffect, ServerGrows
  <2>2. FlushOK(t) => Own(t) = {} BY <2>1 DEF FlushOK, Own
  <2>3. Others(t) /\ FlushNext(t) /\ th'[t].tmp = NoName
    <3>1. ~Written(th'[t].buf) BY <2>1 DEF Ends, Written
    <3> QED BY <2>1, <3>1 DEF Ends, FlushNext
  <2> QED BY <2>1, <2>2, <2>3, FlushStep DEF FilesStay
<1>2. CASE Erase(t)
  <2>1. /\ HistoryGrows /\ FilesStay /\ th[t].pc = "erase"
        /\ tempMap' = [tempMap EXCEPT ![ClientOf[t]][th[t].fd] = NoName]
        /\ \A d \in Clients \ {ClientOf[t]} : tempMap'[d] = tempMap[d]
        /\ \/ th[t].want = "submit" /\ Goes(t, "submit") /\ UNCHANGED acked
           \/ Ends(t) /\ acked' = acked \cup Own(t)
    BY <1>0, <1>2, EraseEffect, ServerGrows
  <2>2. th[t].path \in Files /\ PathOK(t) BY <1>0, <2>1, Thread DEF PathInv
  <2>3. ASSUME FlushOK(t), NEW x \in Own(t) PROVE x \in PublishedNext(x[1])
    <3>1. x = th[t].buf /\ Written(x) /\ x \in Contents BY <1>0, OwnTypes DEF Own, IInv
    <3>2. x \in PublishedContents(th[t].path) BY <2>1, <2>3, <3>1 DEF FlushOK
    <3>3. x[1] = th[t].path BY <2>2, <3>1, NoFileIsNoContent DEF PathOK
    <3> QED BY <2>1, <2>2, <3>2, <3>3 DEF HistoryGrows
  <2>4. FlushOK(t) => Ends(t) /\ acked' = acked \cup Own(t) BY <2>1 DEF FlushOK
  <2>5. Ends(t) => FlushNext(t)
    <3>1. Ends(t) => ~Written(th'[t].buf) BY DEF Ends, Written
    <3> QED BY <3>1 DEF Ends, FlushNext
  <2>6. Others(t) /\ th'[t].tmp \in {th[t].tmp, NoName} BY <2>1 DEF Goes, Steps, Ends
  <2>7. FlushOK(t) => /\ FlushNext(t)
                      /\ \A x \in acked' : x \in acked \/ x \in PublishedNext(x[1])
    BY <2>3, <2>4, <2>5
  <2>8. ASSUME NEW u \in Peers(t), IsOpen(u)
        PROVE  tempMap'[ClientOf[t]][th[u].fd] = tempMap[ClientOf[t]][th[u].fd]
    <3>1. u \in Handles /\ ClientOf[u] = ClientOf[t] BY DEF Peers
    <3>2. th[t].fd # th[u].fd BY <2>1, <2>8, <3>1 DEF DescriptorsApart
    <3> QED BY <1>0, <2>1, <3>2, Thread DEF IInv, TypeOK
  <2> QED BY <2>1, <2>6, <2>7, <2>8, FlushStep DEF FilesStay
<1>3. CASE Submit(t)
  <2>1. /\ HistoryGrows /\ UNCHANGED tempMap /\ FilesStay /\ th[t].pc = "submit" /\ Ends(t)
    BY <1>0, <1>3, SubmitEffect, ServerGrows
  <2>2. ~FlushOK(t) /\ Others(t) /\ th'[t].tmp = NoName BY <2>1 DEF FlushOK, Ends
  <2> QED BY <2>1, <2>2, FlushStep DEF FilesStay
<1>4. ASSUME NEW ok \in BOOLEAN, SendPath(t, ok) PROVE FInv'
  <2>1. /\ HistoryGrows /\ UNCHANGED tempMap /\ FilesStay /\ th[t].pc = "sendPath" /\ Ends(t)
    BY <1>0, <1>4, SendPathEffect, ServerGrows
  <2>2. ~FlushOK(t) /\ Others(t) /\ th'[t].tmp = NoName BY <2>1 DEF FlushOK, Ends
  <2> QED BY <2>1, <2>2, FlushStep DEF FilesStay
<1> QED BY <1>1, <1>2, <1>3, <1>4
-----------------------------------------------------------------------------
(* The close thread, crashes and scans.                                    *)

LEMMA ClientFlush ==
  ASSUME NameIntact \subseteq BOOLEAN, SInv, FInv, NEW c \in Clients,
         CloserStep(c) \/ Crash(c) \/ Restart(c) \/ ScanStep(c)
  PROVE  FInv'
<1>0. PInv /\ IInv BY DEF SInv, PInv
<1>1. FilesStay => \A d \in Clients, n \in Names : FileNext(d, n) = File(d, n) BY DEF FilesStay
<1>2. \A u \in Handles : ClientOf[u] \in Clients BY ClientsAssumption
<1>3. mode[c] # "up" => \A u \in Handles : ClientOf[u] = c => th[u].pc = "idle"
  BY <1>0, IdleState DEF PInv, Serving
<1>4. ASSUME FilesStay, HistoryGrows, UNCHANGED <<tempMap, th, acked>> PROVE FInv'
  BY <1>1, <1>2, <1>4, FlushAround
<1>5. CASE CloserStep(c)
  <2>1. HistoryGrows BY <1>0, <1>5, CloserEffect, ServerGrows
  <2> QED BY <1>0, <1>4, <1>5, <2>1, CloserEffect
<1>6. CASE Crash(c)
  <2>1. /\ FilesStay /\ HistoryGrows /\ UNCHANGED acked
        /\ \A d \in Clients \ {c} : tempMap'[d] = tempMap[d]
        /\ \A t \in Handles : th'[t] = IF ClientOf[t] = c THEN Idle ELSE th[t]
    BY <1>0, <1>6, CrashEffect, ServerGrows DEF CountsStay
  <2> QED BY <1>1, <1>2, <2>1, FlushAround
<1>7. CASE Restart(c) \/ RecoverDone(c)
  <2>1. FilesStay /\ HistoryGrows /\ UNCHANGED <<tempMap, th, acked>>
    BY <1>0, <1>7, RestartEffect, DoneEffect, ServerGrows DEF CountsStay
  <2> QED BY <1>4, <2>1
<1>8. ASSUME NEW m \in RecoverNames, RecoverRename(c, m) PROVE FInv'
  <2>1. /\ HistoryGrows /\ UNCHANGED <<tempMap, th, acked>> /\ mode[c] # "up"
        /\ \A d \in Clients, k \in Names : d # c => FileNext(d, k) = File(d, k)
    BY <1>0, <1>8, RecoverRenameEffect, ServerGrows DEF CountsStay
  <2> QED BY <1>2, <1>3, <2>1, FlushAround
<1>9. ASSUME NEW intact \in BOOLEAN, NEW ok \in BOOLEAN, RecoverSend(c, intact, ok)
      PROVE  FInv'
  <2>1. /\ FilesStay /\ UNCHANGED <<tempMap, th, acked>> /\ HistoryGrows
    BY <1>0, <1>9, RecoverSendEffect, ServerGrows DEF CountsStay
  <2> QED BY <1>4, <2>1
<1>10. ASSUME NEW n \in TempNames, DiscardTemp(c, n) PROVE FInv'
  <2>1. /\ HistoryGrows /\ UNCHANGED <<tempMap, th, acked>> /\ mode[c] # "up"
        /\ Elsewhere(c, n)
    BY <1>0, <1>10, DiscardEffect, ServerGrows DEF CountsStay
  <2>2. \A d \in Clients, k \in Names : d # c => FileNext(d, k) = File(d, k)
    BY <2>1 DEF Elsewhere
  <2> QED BY <1>2, <1>3, <2>1, <2>2, FlushAround
<1> QED BY <1>5, <1>6, <1>7, <1>8, <1>9, <1>10 DEF ScanStep

LEMMA InitFlush == Init => FInv
<1> SUFFICES ASSUME Init PROVE FInv OBVIOUS
<1>1. \A t \in Handles : th[t] = Idle BY DEF Init
<1>2. Idle.pc = "idle" /\ Idle.want = "none" /\ Idle.buf[2] = 0 /\ Idle.tmp = NoName
  BY DEF Idle, Request
<1>3. \A t \in Handles : FlushOK(t) BY <1>1, <1>2 DEF FlushOK, Written
<1>4. FlushOnClose /\ TempsApart BY <1>1, <1>2 DEF Init, FlushOnClose, TempsApart
<1> QED BY <1>3, <1>4 DEF FInv

\* Files are small and in the root, drawn numbers are free, and no file is created.
FlushConditions ==
  Collisions = FALSE /\ MayCreate = FALSE /\ Large = {} /\ Nested = {}

LEMMA FlushStutter == ASSUME SInv, FInv, UNCHANGED vars PROVE FInv'
<1>1. UNCHANGED <<disk, tempMap, server, th, acked>> BY DEF vars, history
<1>2. FilesStay /\ HistoryGrows BY <1>1, SameFiles, ServerGrows DEF server, ServerStays
<1>3. \A u \in Handles : ClientOf[u] \in Clients BY ClientsAssumption
<1> QED BY <1>1, <1>2, <1>3, FlushAround DEF FilesStay

LEMMA StepFlush ==
  ASSUME FlushConditions, DescriptorsApart, NanosDiffer, PutAnswered,
         SInv, PathInv, FInv, [Next]_vars
  PROVE  FInv'
<1>0. PInv /\ IInv /\ ~Collisions /\ ~MayCreate /\ Large = {} /\ Nested = {}
  BY DEF SInv, PInv, FlushConditions
<1>1. CASE UNCHANGED vars BY <1>1, FlushStutter
<1>2. ASSUME NEW t \in Handles, UserStep(t) \/ OpenStep(t) \/ ReleaseStep(t)
      PROVE  FInv'
  <2>1. CASE UserStep(t)
    BY <1>0, <2>1, OpenFlush, WriteFlush, ReleaseFlush DEF UserStep, CreateLookup
  <2>2. CASE OpenStep(t)
    BY <1>0, <2>2, NoCreate, OpenFlush, StampFlush DEF OpenStep
  <2>3. CASE ReleaseStep(t)
    BY <1>0, <2>3, MarkFlush, CloseFlush, SendFlush, SwapFlush, ReturnFlush DEF ReleaseStep
  <2> QED BY <1>2, <2>1, <2>2, <2>3
<1>3. ASSUME NEW c \in Clients, CloserStep(c) \/ Crash(c) \/ Restart(c) \/ ScanStep(c)
      PROVE  FInv'
  BY <1>3, ClientFlush, SwitchAssumption
<1> QED BY <1>1, <1>2, <1>3 DEF Next

\* Flush on close, for any number of clients with any number of handles each, other
\* calls that fail, crashes and scans: what a request wrote has been on the server
\* when its release returns, as long as its put is answered, its file's modification
\* time tells that it was written, and no descriptor is used again before its last
\* release is over.
THEOREM FlushesOnClose ==
  FlushConditions =>
    (Spec /\ []DescriptorsApart /\ [][NanosDiffer /\ PutAnswered]_vars => []FlushOnClose)
<1>1. ASSUME FlushConditions
      PROVE  Spec /\ []DescriptorsApart /\ [][NanosDiffer /\ PutAnswered]_vars
             => []FlushOnClose
  <2> DEFINE Inv == SInv /\ PathInv /\ FInv
             Good == NanosDiffer /\ PutAnswered
  <2>1. Init => Inv BY InitSInv, InitPath, InitFlush
  <2>2. Inv /\ DescriptorsApart /\ [Next]_vars /\ [Good]_vars => Inv'
    <3>1. ASSUME Inv, DescriptorsApart, [Next]_vars, Good PROVE Inv'
      BY <1>1, <3>1, StepSInv, StepPath, StepFlush DEF FlushConditions
    <3>2. ASSUME Inv, UNCHANGED vars PROVE Inv'
      <4>1. [Next]_vars BY <3>2
      <4>2. SInv' /\ PathInv' BY <1>1, <3>2, <4>1, StepSInv, StepPath DEF FlushConditions
      <4>3. FInv' BY <3>2, FlushStutter
      <4> QED BY <4>2, <4>3
    <3> QED BY <3>1, <3>2
  <2>3. Inv => FlushOnClose BY DEF FInv
  <2> HIDE DEF Inv, Good
  <2>4. Spec /\ []DescriptorsApart /\ [][Good]_vars => []FlushOnClose
    BY <2>1, <2>2, <2>3, PTL DEF Spec
  <2> QED BY <2>4 DEF Good
<1> QED BY <1>1
=============================================================================
