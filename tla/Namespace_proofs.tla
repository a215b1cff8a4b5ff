-------------------------- MODULE Namespace_proofs --------------------------
(***************************************************************************)
(* Invariants of Namespace and its refinement of AtomicTree, for any sets  *)
(* of clients and paths and any number of calls, retries and faults.       *)
(***************************************************************************)
EXTENDS Namespace, FileTree_proofs

-----------------------------------------------------------------------------
(* Types.                                                                  *)

\* A call that has begun has an operation and a file of its own.
Begun ==
  \A c \in Clients : call[c].pc # "idle" =>
    call[c].op \in Operations /\ call[c].file \in FirstNew .. NewFile(calls) - 1

LateBegun == \A r \in late : r.file \in FirstNew .. NewFile(calls) - 1

TypeInv == TypeOK /\ Begun /\ LateBegun

LEMMA CallAtType ==
  ASSUME NEW op \in Operations \cup {NoOp}, NEW file \in Nat,
         NEW pc \in {"idle", "rpc", "fetch", "local", "done"}
  PROVE  /\ CallAt(pc, op, file) \in CallState
         /\ CallAt(pc, op, file).pc = pc /\ CallAt(pc, op, file).op = op
         /\ CallAt(pc, op, file).file = file
<1>1. Tries \in 1 .. Tries BY TriesAssumption
<1> QED BY <1>1 DEF CallAt, CallState

LEMMA NoCallType == NoCall \in CallState /\ NoCall.pc = "idle"
BY CallAtType DEF NoCall, None

LEMMA NewCallType ==
  ASSUME calls \in Nat, NEW op \in Operations,
         NEW pc \in {"rpc", "fetch", "local", "done"}
  PROVE  /\ NewCall(op, pc) \in CallState
         /\ NewCall(op, pc).pc = pc /\ NewCall(op, pc).op = op
         /\ NewCall(op, pc).file = NewFile(calls)
<1>1. NewFile(calls) \in Nat BY DEF NewFile, FirstNew
<1> QED BY <1>1, CallAtType DEF NewCall

LEMMA MirroredIsTree ==
  ASSUME NEW c \in Clients, NEW tree \in Trees, NEW p
  PROVE  Mirrored(c, tree, p) \in Trees
BY DEF Mirrored, Trees, Dir

LEMMA CreatedIsTree ==
  ASSUME TypeInv, NEW c \in Clients, call[c].op \in Operations
  PROVE  CreatedLocally(c) \in Trees
<1> DEFINE tree == Mirrored(c, cache[c], call[c].op.path)
           made == IF call[c].mine THEN call[c].file ELSE Blank
<1>1. tree \in Trees BY MirroredIsTree DEF TypeInv, TypeOK
<1>2. made \in Nat BY DEF TypeInv, TypeOK, CallState, Blank
<1>3. Effect(tree, call[c].op, made) \in Trees BY <1>1, <1>2, EffectIsTree
<1> QED BY <1>1, <1>3 DEF CreatedLocally

LEMMA AfterLocalIsTree ==
  ASSUME TypeInv, NEW c \in Clients, call[c].op \in Operations
  PROVE  AfterLocal(c) \in Trees
<1>1. cache[c] \in Trees /\ call[c].file \in Nat BY DEF TypeInv, TypeOK, CallState
<1>2. LocalOp(call[c].op) \in Operations BY DEF LocalOp, Operations, Kinds
<1>3. Effect(cache[c], LocalOp(call[c].op), call[c].file) \in Trees BY <1>1, <1>2, EffectIsTree
<1>4. [cache[c] EXCEPT ![call[c].op.to] = call[c].file] \in Trees BY <1>1 DEF Trees
<1> QED BY <1>1, <1>3, <1>4, CreatedIsTree DEF AfterLocal

\* Temporary files that move with their directory stay within Paths.
LEMMA TempAfterType ==
  ASSUME TypeInv, NEW c \in Clients, call[c].op \in Operations, NEW q \in litter[c],
         NEW done, done => LocalWorks(c)
  PROVE  TempAfter(call[c].op, q, done) \in Paths
<1> DEFINE op == call[c].op
<1>1. q \in Paths /\ q \in Temps(c) BY DEF TypeInv, TypeOK, Temps
<1>2. ASSUME op.kind \in Renames, done, Under(q, op.path)
      PROVE  Moved(q, op.path, op.to) \in Paths
  <2>1. LocalOp(op).kind = "rename" /\ LocalOp(op).path = op.path /\ LocalOp(op).to = op.to
    BY <1>2 DEF LocalOp, Renames, Operations
  <2>2. Room(c, LocalOp(op)) BY <1>2, <2>1 DEF LocalWorks, NoLocalStep
  <2> QED BY <1>1, <1>2, <2>1, <2>2 DEF Room
<1> QED BY <1>1, <1>2 DEF TempAfter

LEMMA FirstStepType ==
  ASSUME NEW c, NEW op
  PROVE  FirstStep(c, op) \in {"rpc", "fetch", "local", "done"}
BY DEF FirstStep

LEMMA InitType == Init => TypeInv
<1> SUFFICES ASSUME Init PROVE TypeInv OBVIOUS
<1>1. TypeOK
  BY TreeAssumption, BoundsAssumption, NoCallType DEF Init, TypeOK, Trees, None
<1>2. Begun /\ LateBegun
  BY NoCallType DEF Init, Begun, LateBegun
<1> QED BY <1>1, <1>2 DEF TypeInv

\* Only the call of c changes, and it remains the call it is.
LEMMA CallKept ==
  ASSUME TypeInv, NEW c \in Clients, NEW r \in CallState,
         call' = [call EXCEPT ![c] = r], calls' = calls,
         r.pc # "idle" => call[c].pc # "idle" /\ r.op = call[c].op /\ r.file = call[c].file
  PROVE  call' \in [Clients -> CallState] /\ Begun'
BY DEF TypeInv, TypeOK, Begun

\* What is under way remains so.
SameCalls ==
  \A d \in Clients : /\ call'[d].pc = "idle" <=> call[d].pc = "idle"
                     /\ call'[d].op = call[d].op
                     /\ call'[d].file = call[d].file

LEMMA OneCall ==
  ASSUME TypeInv, NEW c \in Clients, NEW r \in CallState,
         call' = [call EXCEPT ![c] = r], call[c].pc # "idle",
         r.pc # "idle", r.op = call[c].op, r.file = call[c].file
  PROVE  SameCalls
BY DEF TypeInv, TypeOK, SameCalls

LEMMA BeginType ==
  ASSUME TypeInv, NEW c \in Clients, NEW op \in Operations, NEW pc \in {"rpc", "fetch", "local", "done"},
         calls < MaxCalls, calls' = calls + 1, call' = [call EXCEPT ![c] = NewCall(op, pc)],
         UNCHANGED late
  PROVE  call' \in [Clients -> CallState] /\ calls' \in 0 .. MaxCalls /\ Begun' /\ LateBegun'
<1>1. calls \in Nat /\ MaxCalls \in Nat BY BoundsAssumption DEF TypeInv, TypeOK
<1>2. call \in [Clients -> CallState] BY DEF TypeInv, TypeOK
<1>3. NewFile(calls') = NewFile(calls) + 1 /\ NewFile(calls) \in Nat /\ NewFile(calls) >= FirstNew
  BY <1>1 DEF NewFile, FirstNew
<1>4. call' \in [Clients -> CallState] BY <1>1, <1>2, NewCallType
<1>5. Begun'
  <2> SUFFICES ASSUME NEW d \in Clients, call'[d].pc # "idle"
               PROVE  /\ call'[d].op \in Operations
                      /\ call'[d].file \in FirstNew .. NewFile(calls') - 1
    BY DEF Begun
  <2>1. CASE d = c
    <3>1. call'[d] = NewCall(op, pc) BY <2>1, <1>2
    <3> QED BY <3>1, <1>1, <1>3, NewCallType DEF FirstNew
  <2>2. CASE d # c
    <3>1. call'[d] = call[d] BY <2>2, <1>2
    <3>2. call[d].op \in Operations /\ call[d].file \in FirstNew .. NewFile(calls) - 1
      BY <3>1 DEF TypeInv, Begun
    <3> QED BY <3>1, <3>2, <1>3 DEF FirstNew
  <2> QED BY <2>1, <2>2
<1>6. LateBegun'
  BY <1>3 DEF TypeInv, LateBegun, FirstNew
<1> QED BY <1>1, <1>4, <1>5, <1>6

LEMMA FinishesType ==
  ASSUME TypeInv, NEW c \in Clients, call[c].pc # "idle", NEW answer, Finishes(c, answer)
  PROVE  TypeInv' /\ SameCalls
<1>1. call[c] \in CallState /\ call[c].op \in Operations /\ cache \in [Clients -> Trees]
      /\ held \in [Clients -> SUBSET Handles] /\ litter \in [Clients -> SUBSET Paths]
      /\ call \in [Clients -> CallState]
  BY DEF TypeInv, TypeOK, Begun
<1>2. AfterLocal(c) \in Trees BY <1>1, AfterLocalIsTree
<1>3. cache' \in [Clients -> Trees] BY <1>1, <1>2 DEF Finishes
<1>4. held' \in [Clients -> SUBSET Handles] /\ litter' \in [Clients -> SUBSET Paths]
  <2>1. call[c].op.path \in Paths BY <1>1 DEF Operations
  <2>2. Opened(call[c].op) \in Handles BY <2>1 DEF Opened, Handles
  <2>3. \A done : HeldAfter(c, done) \subseteq Handles BY DEF HeldAfter
  <2>4. Litter(call[c].op.path) \subseteq Paths BY <2>1 DEF Litter
  <2>5. PICK H \in SUBSET Handles : held' = [held EXCEPT ![c] = H]
    BY <2>2, <2>3 DEF Finishes
  <2>6. PICK L \in SUBSET Paths : litter' = [litter EXCEPT ![c] = L]
    <3> DEFINE done == (answer = "ok" \/ call[c].op.kind \in {"utimens", "put"}) /\ LocalWorks(c)
               kept == {TempAfter(call[c].op, q, done) : q \in litter[c]}
               abandoned == IF call[c].op.kind = "put" /\ ~done THEN Litter(call[c].op.path) ELSE {}
    <3>1. litter' = [litter EXCEPT ![c] = kept \cup abandoned] BY DEF Finishes
    <3>2. kept \subseteq Paths BY <1>1, TempAfterType
    <3>3. abandoned \subseteq Paths BY <2>4
    <3> QED BY <3>1, <3>2, <3>3
  <2> QED BY <1>1, <2>5, <2>6
<1>5. PICK result \in {"ok", "error"} :
        call' = [call EXCEPT ![c].pc = "done", ![c].answer = "none", ![c].result = result]
  BY DEF Finishes
<1>6. [call[c] EXCEPT !.pc = "done", !.answer = "none", !.result = result] \in CallState
  BY <1>1 DEF CallState
<1>7. call' = [call EXCEPT ![c] = [call[c] EXCEPT !.pc = "done", !.answer = "none", !.result = result]]
  BY <1>1, <1>5
<1>8. UNCHANGED <<server, calls, late, faults, last>> /\ upset' \subseteq Clients
  BY DEF Finishes, TypeInv, TypeOK
<1>9. call' \in [Clients -> CallState] /\ Begun' /\ SameCalls
  <2> DEFINE r == [call[c] EXCEPT !.pc = "done", !.answer = "none", !.result = result]
  <2>1. r \in CallState /\ r.pc = "done" /\ r.op = call[c].op /\ r.file = call[c].file
    BY <1>1, <1>6 DEF CallState
  <2> HIDE DEF r
  <2> QED BY <1>7, <1>8, <2>1, CallKept, OneCall DEF r
<1>10. LateBegun' BY <1>8 DEF TypeInv, LateBegun
<1> QED BY <1>3, <1>4, <1>8, <1>9, <1>10 DEF TypeInv, TypeOK

LEMMA ExecuteType ==
  ASSUME TypeInv, NEW c \in Clients, Execute(c)
  PROVE  TypeInv' /\ SameCalls
<1>1. call[c] \in CallState /\ call[c].op \in Operations /\ server \in Trees /\ call[c].pc = "rpc"
      /\ call \in [Clients -> CallState] /\ last \in Nat /\ upset \subseteq Clients
  BY DEF TypeInv, TypeOK, Begun, Execute
<1>2. call[c].file \in Nat BY <1>1 DEF CallState
<1>3. server' \in Trees BY <1>1, <1>2, DoIsTree DEF Execute
<1>4. last' \in Nat /\ upset' \subseteq Clients BY <1>1, <1>2 DEF Execute
<1>5. Can(server, call[c].op) \in BOOLEAN
  BY <1>1, CanIsBoolean
<1>6. PICK answer \in {"ok", "newer", "error"}, took \in BOOLEAN, mine \in BOOLEAN :
        call' = [call EXCEPT ![c].answer = answer, ![c].took = took, ![c].mine = mine]
  <2>1. PICK answer \in {"ok", "newer", "error"} :
          call' = [call EXCEPT ![c].answer = answer,
                    ![c].took = @ \/ Can(server, call[c].op),
                    ![c].mine = call[c].op.kind = "create"
                      => Do(server, call[c].op, call[c].file)[call[c].op.path] = call[c].file]
    BY DEF Execute
  <2>2. call' = [call EXCEPT ![c].answer = answer,
                  ![c].took = call[c].took \/ Can(server, call[c].op),
                  ![c].mine = call[c].op.kind = "create"
                    => Do(server, call[c].op, call[c].file)[call[c].op.path] = call[c].file]
    BY <2>1
  <2>3. (call[c].took \/ Can(server, call[c].op)) \in BOOLEAN BY <1>1, <1>5
  <2> QED BY <2>2, <2>3
<1> DEFINE r == [call[c] EXCEPT !.answer = answer, !.took = took, !.mine = mine]
<1>8. r \in CallState /\ r.pc = "rpc" /\ r.op = call[c].op /\ r.file = call[c].file BY <1>1 DEF CallState
<1>9. call' = [call EXCEPT ![c] = r] BY <1>1, <1>6
<1>10. calls' = calls /\ UNCHANGED <<cache, held, litter, late, faults>> BY DEF Execute
<1> HIDE DEF r
<1>11. call' \in [Clients -> CallState] /\ Begun' /\ SameCalls
  BY <1>1, <1>8, <1>9, <1>10, CallKept, OneCall
<1> QED BY <1>3, <1>4, <1>10, <1>11 DEF TypeInv, TypeOK, LateBegun

LEMMA AnsweredType ==
  ASSUME TypeInv, NEW c \in Clients, Answered(c)
  PROVE  TypeInv' /\ SameCalls
<1>1. CASE Finishes(c, call[c].answer)
  BY <1>1, FinishesType DEF Answered
<1>2. CASE call' = [call EXCEPT ![c].answer = "none", ![c].pc = "fetch"]
           /\ UNCHANGED <<server, cache, held, litter, calls, late, faults, last, upset>>
  <2>1. call[c] \in CallState /\ call \in [Clients -> CallState] /\ call[c].pc = "rpc"
    BY DEF TypeInv, TypeOK, Answered
  <2> DEFINE r == [call[c] EXCEPT !.answer = "none", !.pc = "fetch"]
  <2>2. r \in CallState /\ r.pc = "fetch" /\ r.op = call[c].op /\ r.file = call[c].file
    BY <2>1 DEF CallState
  <2>3. call' = [call EXCEPT ![c] = r] BY <2>1, <1>2
  <2> HIDE DEF r
  <2>4. call' \in [Clients -> CallState] /\ Begun' /\ SameCalls
    BY <1>2, <2>1, <2>2, <2>3, CallKept, OneCall
  <2> QED BY <1>2, <2>4 DEF TypeInv, TypeOK, LateBegun
<1> QED BY <1>1, <1>2 DEF Answered

LEMMA ReturnType ==
  ASSUME TypeInv, NEW c \in Clients, Return(c)
  PROVE  TypeInv'
<1>1. call' = [call EXCEPT ![c] = NoCall]
      /\ UNCHANGED <<server, cache, held, litter, calls, late, faults, last, upset>>
  BY DEF Return
<1>2. call' \in [Clients -> CallState] /\ Begun' BY <1>1, NoCallType, CallKept
<1> QED BY <1>1, <1>2 DEF TypeInv, TypeOK, LateBegun

LEMMA FetchType ==
  ASSUME TypeInv, NEW c \in Clients, Fetch(c)
  PROVE  TypeInv' /\ SameCalls
<1>1. call[c] \in CallState /\ call \in [Clients -> CallState] /\ call[c].pc = "fetch"
      /\ call[c].op \in Operations /\ server \in Trees /\ cache \in [Clients -> Trees]
  BY DEF TypeInv, TypeOK, Begun, Fetch
<1> DEFINE r == [call[c] EXCEPT !.pc = "local"]
<1>2. r \in CallState /\ r.pc = "local" /\ r.op = call[c].op /\ r.file = call[c].file
  BY <1>1 DEF CallState
<1>3. call' = [call EXCEPT ![c] = r]
      /\ UNCHANGED <<server, held, litter, calls, late, faults, last, upset>>
  BY <1>1 DEF Fetch
<1> HIDE DEF r
<1>4. call' \in [Clients -> CallState] /\ Begun' /\ SameCalls
  BY <1>1, <1>2, <1>3, CallKept, OneCall
<1>5. cache' \in [Clients -> Trees]
  <2>1. call[c].op.path \in Paths BY <1>1 DEF Operations
  <2>2. [cache[c] EXCEPT ![call[c].op.path] = server[call[c].op.path]] \in Trees
    BY <1>1, <2>1 DEF Trees
  <2>3. \/ cache' = cache
        \/ cache' = [cache EXCEPT ![c] = [cache[c] EXCEPT ![call[c].op.path] = server[call[c].op.path]]]
    BY <1>1 DEF Fetch
  <2> QED BY <1>1, <2>2, <2>3
<1> QED BY <1>3, <1>4, <1>5 DEF TypeInv, TypeOK, LateBegun

LEMMA FaultType ==
  ASSUME TypeInv, NEW kind, NEW c \in Clients, Fault(kind, c)
  PROVE  faults' \in 0 .. MaxFaults /\ upset' \subseteq Clients
BY BoundsAssumption DEF TypeInv, TypeOK, Fault

\* A request that is given up is of its caller.
LEMMA SentType ==
  ASSUME TypeInv, NEW c \in Clients, call[c].pc # "idle"
  PROVE  /\ Sent(c) \subseteq [op : Operations, file : Nat, left : 1 .. Tries]
         /\ \A r \in Sent(c) : r.op = call[c].op /\ r.file = call[c].file
<1>1. call[c] \in CallState /\ call[c].op \in Operations BY DEF TypeInv, TypeOK, Begun
<1>2. call[c].file \in Nat /\ call[c].left \in 1 .. Tries BY <1>1 DEF CallState
<1> QED BY <1>1, <1>2 DEF Sent

LEMMA RetryType ==
  ASSUME NEW r \in CallState
  PROVE  /\ GivenUp(r) \in CallState
         /\ GivenUp(r).pc # "idle" /\ GivenUp(r).op = r.op /\ GivenUp(r).file = r.file
         /\ r.left # 1 =>
              /\ Again(r) \in CallState /\ Again(r).pc = r.pc
              /\ Again(r).op = r.op /\ Again(r).file = r.file
<1>1. r.left \in 1 .. Tries /\ Tries \in Nat BY TriesAssumption DEF CallState
<1>2. r.left # 1 => r.left - 1 \in 1 .. Tries BY <1>1
<1> QED BY <1>2 DEF CallState, GivenUp, Again

LEMMA DeadlineType ==
  ASSUME TypeInv, NEW c \in Clients, Deadline(c)
  PROVE  TypeInv' /\ SameCalls
<1>1. call[c] \in CallState /\ call \in [Clients -> CallState] /\ call[c].pc \in {"rpc", "fetch"}
  BY DEF TypeInv, TypeOK, Deadline
<1>2. UNCHANGED <<server, cache, held, litter, calls, last>>
      /\ faults' \in 0 .. MaxFaults /\ upset' \subseteq Clients
  BY FaultType DEF Deadline
<1>3. late' = late \/ late' = late \cup Sent(c)
  BY DEF Deadline
<1>4. PICK r \in CallState : /\ call' = [call EXCEPT ![c] = r]
                             /\ r.pc # "idle" /\ r.op = call[c].op /\ r.file = call[c].file
  BY <1>1, RetryType DEF Deadline
<1>5. call' \in [Clients -> CallState] /\ Begun' /\ SameCalls
  BY <1>1, <1>2, <1>4, CallKept, OneCall
<1>6. /\ late' \subseteq [op : Operations, file : Nat, left : 1 .. Tries]
      /\ LateBegun'
  <2>1. call[c].file \in FirstNew .. NewFile(calls) - 1 BY <1>1 DEF TypeInv, Begun
  <2> QED BY <1>1, <1>2, <1>3, <2>1, SentType DEF TypeInv, TypeOK, LateBegun
<1> QED BY <1>2, <1>5, <1>6 DEF TypeInv, TypeOK

LEMMA TookType ==
  ASSUME NEW r \in CallState, NEW b \in BOOLEAN
  PROVE  LET new == [r EXCEPT !.took = b] IN
         new \in CallState /\ new.pc = r.pc /\ new.op = r.op /\ new.file = r.file
BY DEF CallState

LEMMA ExecuteLateType ==
  ASSUME TypeInv, NEW request \in late, ExecuteLate(request)
  PROVE  TypeInv' /\ SameCalls
<1>1. request.op \in Operations /\ request.file \in Nat /\ server \in Trees
      /\ last \in Nat /\ upset \subseteq Clients /\ call \in [Clients -> CallState]
  BY DEF TypeInv, TypeOK
<1>2. server' \in Trees BY <1>1, DoIsTree DEF ExecuteLate
<1>3. last' \in Nat /\ upset' \subseteq Clients BY <1>1 DEF ExecuteLate
<1>4. \A c \in Clients : \E b \in BOOLEAN : call'[c] = [call[c] EXCEPT !.took = b]
  <2> SUFFICES ASSUME NEW c \in Clients
               PROVE \E b \in BOOLEAN : call'[c] = [call[c] EXCEPT !.took = b]
    OBVIOUS
  <2> DEFINE b == call[c].took \/ (call[c].file = request.file /\ Can(server, request.op))
  <2>1. call'[c] = [call[c] EXCEPT !.took = b] BY DEF ExecuteLate
  <2>2. Can(server, request.op) \in BOOLEAN
    BY <1>1, CanIsBoolean
  <2>3. b \in BOOLEAN BY <1>1, <2>2
  <2> QED BY <2>1, <2>3
<1>5. \A c \in Clients : /\ call'[c] \in CallState /\ call'[c].pc = call[c].pc
                         /\ call'[c].op = call[c].op /\ call'[c].file = call[c].file
  <2> SUFFICES ASSUME NEW c \in Clients
               PROVE  /\ call'[c] \in CallState /\ call'[c].pc = call[c].pc
                      /\ call'[c].op = call[c].op /\ call'[c].file = call[c].file
    OBVIOUS
  <2>1. PICK b \in BOOLEAN : call'[c] = [call[c] EXCEPT !.took = b] BY <1>4
  <2>2. call[c] \in CallState BY <1>1
  <2> QED BY <2>1, <2>2, TookType
<1>6. call' \in [Clients -> CallState] BY <1>5 DEF ExecuteLate
<1>7. Begun' /\ LateBegun'
  BY <1>5 DEF TypeInv, Begun, LateBegun, ExecuteLate
<1>8. SameCalls BY <1>5 DEF SameCalls
<1> QED BY <1>2, <1>3, <1>6, <1>7, <1>8 DEF TypeInv, TypeOK, ExecuteLate

LEMMA CrashType ==
  ASSUME TypeInv, Crash
  PROVE  TypeInv' /\ SameCalls
<1>1. UNCHANGED <<server, cache, held, litter, calls, last>> /\ late' = {}
      /\ faults' \in 0 .. MaxFaults /\ upset' \subseteq Clients
  BY BoundsAssumption DEF TypeInv, TypeOK, Crash
<1>2. \A c \in Clients : /\ call'[c] \in CallState
                         /\ call'[c].pc = "idle" <=> call[c].pc = "idle"
                         /\ call'[c].op = call[c].op /\ call'[c].file = call[c].file
  <2> SUFFICES ASSUME NEW c \in Clients
               PROVE  /\ call'[c] \in CallState
                      /\ call'[c].pc = "idle" <=> call[c].pc = "idle"
                      /\ call'[c].op = call[c].op /\ call'[c].file = call[c].file
    OBVIOUS
  <2>1. call[c] \in CallState /\ call[c].left \in 1 .. Tries BY DEF TypeInv, TypeOK, CallState
  <2>2. CASE call'[c] = call[c] BY <2>1, <2>2
  <2>3. CASE call[c].pc \in {"rpc", "fetch"} /\ call'[c] = GivenUp(call[c])
    BY <2>1, <2>3, RetryType
  <2>4. CASE /\ call[c].pc \in {"rpc", "fetch"} /\ call[c].left > 1
             /\ call'[c] = Again(call[c])
    BY <2>1, <2>4, RetryType
  <2> QED BY <2>2, <2>3, <2>4 DEF Crash
<1>3. call' \in [Clients -> CallState]
  <2> DEFINE New(c) == IF call[c].pc \notin {"rpc", "fetch"} THEN call[c]
                       ELSE IF call[c].op.kind = "put" /\ call[c].left > 1
                            THEN Again(call[c]) ELSE GivenUp(call[c])
  <2>1. call' = [c \in Clients |-> New(c)] BY DEF Crash
  <2> HIDE DEF New
  <2>2. \A c \in Clients : New(c) \in CallState BY <1>2, <2>1
  <2> QED BY <2>1, <2>2
<1>4. Begun'
  <2> SUFFICES ASSUME NEW c \in Clients, call'[c].pc # "idle"
               PROVE  /\ call'[c].op \in Operations
                      /\ call'[c].file \in FirstNew .. NewFile(calls') - 1
    BY DEF Begun
  <2>1. call[c].op \in Operations /\ call[c].file \in FirstNew .. NewFile(calls) - 1
    BY <1>2 DEF TypeInv, Begun
  <2> QED BY <1>1, <1>2, <2>1
<1>5. LateBegun' BY <1>1 DEF LateBegun
<1>6. SameCalls BY <1>2 DEF SameCalls
<1> QED BY <1>1, <1>3, <1>4, <1>5, <1>6 DEF TypeInv, TypeOK

LEMMA BeginCallType ==
  ASSUME TypeInv, NEW c \in Clients, NEW op \in Operations, Begin(c, op)
  PROVE  TypeInv'
<1>1. call' \in [Clients -> CallState] /\ calls' \in 0 .. MaxCalls /\ Begun' /\ LateBegun'
  BY BeginType, FirstStepType DEF Begin
<1>2. cache' \in [Clients -> Trees]
  <2>1. cache \in [Clients -> Trees] BY DEF TypeInv, TypeOK
  <2>2. BeforeFetch(c, op) \in Trees BY <2>1, MirroredIsTree DEF BeforeFetch
  <2> QED BY <2>1, <2>2 DEF Begin
<1> QED BY <1>1, <1>2 DEF TypeInv, TypeOK, Begin

\* What a close asks for.
LEMMA CloseBegins ==
  ASSUME TypeInv, NEW c \in Clients, NEW h \in held[c], Close(c, h)
  PROVE  \E op \in Operations, pc \in {"rpc", "local", "done"} :
           call' = [call EXCEPT ![c] = NewCall(op, pc)] /\ op.kind = "put"
<1>1. h \in Handles BY DEF TypeInv, TypeOK
<1> DEFINE made == h.temp = NoTemp
           op == [kind |-> "put", path |-> IF made THEN h.now ELSE h.name, to |-> h.now]
           sent == IF made THEN IsFile(cache[c][h.now]) ELSE Len(h.name) = 1
           pc == IF sent THEN "rpc" ELSE IF h.temp = h.name THEN "local" ELSE "done"
<1>2. op \in Operations BY <1>1 DEF Operations, Kinds, Handles
<1>3. pc \in {"rpc", "local", "done"} OBVIOUS
<1>4. call' = [call EXCEPT ![c] = NewCall(op, pc)] BY DEF Close
<1> QED BY <1>2, <1>3, <1>4

LEMMA LitterType ==
  ASSUME NEW h \in Handles
  PROVE  Litter(h.temp) \subseteq Paths
BY DEF Handles, Litter, NoTemp

LEMMA CloseCallType ==
  ASSUME TypeInv, NEW c \in Clients, NEW h \in held[c], Close(c, h)
  PROVE  TypeInv'
<1>1. call' \in [Clients -> CallState] /\ calls' \in 0 .. MaxCalls /\ Begun' /\ LateBegun'
  <2>1. PICK op \in Operations, pc \in {"rpc", "local", "done"} :
          call' = [call EXCEPT ![c] = NewCall(op, pc)]
    BY CloseBegins
  <2>2. calls < MaxCalls /\ calls' = calls + 1 /\ UNCHANGED late BY DEF Close
  <2> QED BY <2>1, <2>2, BeginType
<1>2. held' \in [Clients -> SUBSET Handles] BY DEF TypeInv, TypeOK, Close
<1>3. litter' \in [Clients -> SUBSET Paths]
  <2>1. h \in Handles BY DEF TypeInv, TypeOK
  <2>2. litter' = litter \/ litter' = [litter EXCEPT ![c] = @ \cup Litter(h.temp)] BY DEF Close
  <2> QED BY <2>1, <2>2, LitterType DEF TypeInv, TypeOK
<1>4. UNCHANGED <<server, cache, late, faults, last, upset>> BY DEF Close
<1> QED BY <1>1, <1>2, <1>3, <1>4 DEF TypeInv, TypeOK

LEMMA LeaveType ==
  ASSUME TypeInv, NEW c \in Clients, NEW h \in held[c], Leave(c, h)
  PROVE  TypeInv' /\ SameCalls
<1>1. h \in Handles BY DEF TypeInv, TypeOK
<1>2. held' \in [Clients -> SUBSET Handles] BY DEF TypeInv, TypeOK, Leave
<1>3. litter' \in [Clients -> SUBSET Paths] BY <1>1, LitterType DEF TypeInv, TypeOK, Leave
<1>4. SameCalls BY DEF Leave, SameCalls
<1> QED BY <1>2, <1>3, <1>4 DEF TypeInv, TypeOK, Begun, LateBegun, Leave

LEMMA TypeStep == TypeInv /\ [Next]_vars => TypeInv'
<1> SUFFICES ASSUME TypeInv, [Next]_vars PROVE TypeInv' OBVIOUS
<1>1. ASSUME NEW c \in Clients, NEW op \in Operations, Begin(c, op) PROVE TypeInv'
  BY <1>1, BeginCallType
<1>2. ASSUME NEW c \in Clients, NEW h \in held[c], Close(c, h) \/ Leave(c, h) PROVE TypeInv'
  BY <1>2, CloseCallType, LeaveType
<1>3. ASSUME NEW c \in Clients, Progress(c) PROVE TypeInv'
  <2>1. CASE Execute(c) BY <2>1, ExecuteType
  <2>2. CASE Answered(c) BY <2>2, AnsweredType
  <2>3. CASE Fetch(c) BY <2>3, FetchType
  <2>4. CASE Unanswered(c) BY <2>4, FinishesType DEF Unanswered
  <2>5. CASE Return(c) BY <2>5, ReturnType
  <2> QED BY <1>3, <2>1, <2>2, <2>3, <2>4, <2>5 DEF Progress
<1>4. ASSUME NEW c \in Clients, Deadline(c) PROVE TypeInv'
  BY <1>4, DeadlineType
<1>5. ASSUME NEW request \in late, ExecuteLate(request) PROVE TypeInv'
  BY <1>5, ExecuteLateType
<1>6. CASE Crash BY <1>6, CrashType
<1>7. CASE UNCHANGED vars
  BY <1>7 DEF vars, TypeInv, TypeOK, Begun, LateBegun
<1> QED BY <1>1, <1>2, <1>3, <1>4, <1>5, <1>6, <1>7 DEF Next

\* Every variable keeps its type, and no call has tried more often than it may.
THEOREM TypeCorrect == Spec => []TypeOK
<1>1. TypeInv => TypeOK BY DEF TypeInv
<1> QED BY InitType, TypeStep, <1>1, PTL DEF Spec

-----------------------------------------------------------------------------
(* The refinement of AtomicTree.  What is under way are the calls that     *)
(* somebody waits for and those that were given up; a file belongs to one  *)
(* call; and the call that has changed the tree last would not change it   *)
(* again.                                                                  *)

Requests ==
  {<<call[c].op, call[c].file>> : c \in {d \in Clients : call[d].pc # "idle"}}
    \cup {<<r.op, r.file>> : r \in late}

OwnFiles == \A x, y \in Requests : x[2] = y[2] => x = y
LastDone == \A x \in Requests : last = x[2] => Do(server, x[1], x[2]) = server
LastOld == last < NewFile(calls)

TreeInv == TypeInv /\ OwnFiles /\ LastDone /\ LastOld

LEMMA RequestType ==
  ASSUME TypeInv, NEW x \in Requests
  PROVE  /\ x[1] \in Operations
         /\ x[2] \in Nat /\ x[2] \in FirstNew .. NewFile(calls) - 1 /\ IsFile(x[2])
<1>1. CASE x \in {<<call[c].op, call[c].file>> : c \in {d \in Clients : call[d].pc # "idle"}}
  BY <1>1 DEF TypeInv, Begun, FirstNew, IsFile, Dir
<1>2. CASE x \in {<<r.op, r.file>> : r \in late}
  BY <1>2 DEF TypeInv, TypeOK, LateBegun, FirstNew, IsFile, Dir
<1> QED BY <1>1, <1>2 DEF Requests

LEMMA InitTree == Init => TreeInv
<1> SUFFICES ASSUME Init PROVE TreeInv OBVIOUS
<1>1. Requests = {} BY NoCallType DEF Init, Requests
<1>2. LastOld BY DEF Init, LastOld, NewFile, FirstNew, None
<1> QED BY <1>1, <1>2, InitType DEF TreeInv, OwnFiles, LastDone

\* Nothing new is under way, and the tree is as before.
LEMMA TreeKept ==
  ASSUME TreeInv, TypeInv', Requests' \subseteq Requests, UNCHANGED <<server, last, calls>>
  PROVE  TreeInv'
<1>1. OwnFiles' BY DEF TreeInv, OwnFiles
<1>2. LastDone' BY DEF TreeInv, LastDone
<1>3. LastOld' BY DEF TreeInv, LastOld, NewFile
<1> QED BY <1>1, <1>2, <1>3 DEF TreeInv

\* A request under way is carried out: by RepetitionChangesNothing it is then done.
LEMMA TreeChanged ==
  ASSUME TreeInv, TypeInv', Requests' \subseteq Requests, calls' = calls,
         NEW x \in Requests, server' = Do(server, x[1], x[2]),
         last' = IF server' # server THEN x[2] ELSE last
  PROVE  TreeInv'
<1>1. CASE server' = server
  BY <1>1, TreeKept
<1>2. CASE server' # server
  <2>1. server \in Trees BY DEF TreeInv, TypeInv, TypeOK
  <2>2. Do(server', x[1], x[2]) = server'
    BY <2>1, RequestType, RepetitionChangesNothing DEF TreeInv
  <2>3. LastDone'
    <3> SUFFICES ASSUME NEW y \in Requests', last' = y[2]
                 PROVE  Do(server', y[1], y[2]) = server'
      BY DEF LastDone
    <3>1. y = x BY <1>2 DEF TreeInv, OwnFiles
    <3> QED BY <3>1, <2>2
  <2>4. LastOld' BY <1>2, RequestType DEF TreeInv, TypeInv, TypeOK, LastOld, NewFile, FirstNew
  <2>5. OwnFiles' BY DEF TreeInv, OwnFiles
  <2> QED BY <2>3, <2>4, <2>5 DEF TreeInv
<1> QED BY <1>1, <1>2

\* A call begins, with a file that no other has.
LEMMA TreeBegun ==
  ASSUME TreeInv, TypeInv', NEW c \in Clients, NEW op \in Operations,
         NEW pc \in {"rpc", "fetch", "local", "done"}, call[c].pc = "idle",
         call' = [call EXCEPT ![c] = NewCall(op, pc)], calls' = calls + 1,
         UNCHANGED <<server, late, last>>
  PROVE  TreeInv'
<1>1. calls \in Nat /\ call \in [Clients -> CallState] /\ last \in Nat
  BY BoundsAssumption DEF TreeInv, TypeInv, TypeOK
<1> DEFINE x == <<op, NewFile(calls)>>
<1>2. Requests' \subseteq Requests \cup {x}
  <2> SUFFICES ASSUME NEW y \in Requests' PROVE y \in Requests \/ y = x OBVIOUS
  <2>1. CASE y \in {<<r.op, r.file>> : r \in late'}
    BY <2>1 DEF Requests
  <2>2. ASSUME NEW d \in Clients, call'[d].pc # "idle", y = <<call'[d].op, call'[d].file>>
        PROVE  y \in Requests \/ y = x
    <3>1. CASE d = c
      <4>1. call'[d] = NewCall(op, pc) BY <3>1, <1>1
      <4> QED BY <4>1, <2>2, <1>1, NewCallType
    <3>2. CASE d # c
      <4>1. call'[d] = call[d] BY <3>2, <1>1
      <4> QED BY <4>1, <2>2 DEF Requests
    <3> QED BY <3>1, <3>2
  <2> QED BY <2>1, <2>2 DEF Requests
<1>3. \A y \in Requests : y[2] \in Nat /\ y[2] < NewFile(calls)
  BY <1>1, RequestType DEF TreeInv, NewFile, FirstNew
<1>4. last < NewFile(calls) /\ NewFile(calls) \in Nat /\ NewFile(calls') = NewFile(calls) + 1
  BY <1>1 DEF TreeInv, LastOld, NewFile, FirstNew
<1>5. x[1] = op /\ x[2] = NewFile(calls) OBVIOUS
<1> HIDE DEF x
<1>6. OwnFiles'
  <2> SUFFICES ASSUME NEW y \in Requests', NEW z \in Requests', y[2] = z[2] PROVE y = z
    BY DEF OwnFiles
  <2>1. CASE y \in Requests /\ z \in Requests BY <2>1 DEF TreeInv, OwnFiles
  <2>2. CASE y = x /\ z \in Requests BY <2>2, <1>3, <1>4, <1>5
  <2>3. CASE y \in Requests /\ z = x BY <2>3, <1>3, <1>4, <1>5
  <2>4. CASE y = x /\ z = x BY <2>4
  <2> QED BY <1>2, <2>1, <2>2, <2>3, <2>4
<1>7. LastDone'
  <2> SUFFICES ASSUME NEW y \in Requests', last = y[2] PROVE Do(server, y[1], y[2]) = server
    BY DEF LastDone
  <2>1. y # x BY <1>4, <1>5
  <2> QED BY <1>2, <2>1 DEF TreeInv, LastDone
<1>8. LastOld' BY <1>1, <1>4 DEF LastOld
<1> QED BY <1>6, <1>7, <1>8 DEF TreeInv

\* The calls are those they were, and no request has been added.
LEMMA RequestsKept ==
  ASSUME late' \subseteq late,
         \A d \in Clients : /\ call'[d].pc # "idle" => call[d].pc # "idle"
                            /\ call'[d].pc # "idle" => call'[d].op = call[d].op
                            /\ call'[d].pc # "idle" => call'[d].file = call[d].file
  PROVE  Requests' \subseteq Requests
<1> SUFFICES ASSUME NEW y \in Requests' PROVE y \in Requests OBVIOUS
<1>1. CASE y \in {<<r.op, r.file>> : r \in late'} BY <1>1 DEF Requests
<1>2. ASSUME NEW d \in Clients, call'[d].pc # "idle", y = <<call'[d].op, call'[d].file>>
      PROVE  y \in Requests
  BY <1>2 DEF Requests
<1> QED BY <1>1, <1>2 DEF Requests

LEMMA CurrentRequest ==
  ASSUME NEW c \in Clients, call[c].pc # "idle"
  PROVE  <<call[c].op, call[c].file>> \in Requests
BY DEF Requests

LEMMA DeadlineRequests ==
  ASSUME TypeInv, NEW c \in Clients, Deadline(c)
  PROVE  Requests' \subseteq Requests
<1> SUFFICES ASSUME NEW y \in Requests' PROVE y \in Requests OBVIOUS
<1>1. SameCalls BY DeadlineType
<1>2. call[c].pc # "idle" /\ (late' = late \/ late' = late \cup Sent(c)) BY DEF Deadline
<1>3. ASSUME NEW r \in late', y = <<r.op, r.file>> PROVE y \in Requests
  <2>1. CASE r \in late BY <2>1, <1>3 DEF Requests
  <2>2. CASE r \in Sent(c)
    <3>1. y = <<call[c].op, call[c].file>> BY <2>2, <1>2, <1>3, SentType
    <3> QED BY <3>1, <1>2, CurrentRequest
  <2> QED BY <1>2, <1>3, <2>1, <2>2
<1>4. ASSUME NEW d \in Clients, call'[d].pc # "idle", y = <<call'[d].op, call'[d].file>>
      PROVE  y \in Requests
  BY <1>1, <1>4 DEF Requests, SameCalls
<1> QED BY <1>3, <1>4 DEF Requests

LEMMA TreeStep == TreeInv /\ [Next]_vars => TreeInv'
<1> SUFFICES ASSUME TreeInv, [Next]_vars PROVE TreeInv' OBVIOUS
<1>0. TypeInv /\ TypeInv' BY TypeStep DEF TreeInv
<1>a. ASSUME SameCalls, late' \subseteq late PROVE Requests' \subseteq Requests
  BY <1>a, RequestsKept DEF SameCalls
<1>1. ASSUME NEW c \in Clients, NEW op \in Operations, Begin(c, op) PROVE TreeInv'
  BY <1>0, <1>1, TreeBegun, FirstStepType DEF Begin
<1>2. ASSUME NEW c \in Clients, NEW h \in held[c], Close(c, h) \/ Leave(c, h) PROVE TreeInv'
  <2>1. CASE Close(c, h)
    <3>1. call[c].pc = "idle" /\ calls' = calls + 1 /\ UNCHANGED <<server, late, last>>
      BY <2>1 DEF Close
    <3> QED BY <1>0, <2>1, <3>1, CloseBegins, TreeBegun
  <2>2. CASE Leave(c, h)
    BY <1>0, <1>a, <2>2, LeaveType, TreeKept DEF Leave
  <2> QED BY <1>2, <2>1, <2>2
<1>3. ASSUME NEW c \in Clients, Progress(c) PROVE TreeInv'
  <2>1. CASE Execute(c)
    <3> DEFINE x == <<call[c].op, call[c].file>>
    <3>1. x \in Requests /\ calls' = calls /\ late' = late
      BY <2>1, CurrentRequest DEF Execute
    <3>2. server' = Do(server, x[1], x[2]) /\ last' = IF server' # server THEN x[2] ELSE last
      BY <2>1 DEF Execute
    <3>3. Requests' \subseteq Requests BY <1>0, <1>a, <2>1, <3>1, ExecuteType
    <3> HIDE DEF x
    <3> QED BY <1>0, <3>1, <3>2, <3>3, TreeChanged
  <2>2. CASE Answered(c)
    BY <1>0, <1>a, <2>2, AnsweredType, TreeKept DEF Answered, Finishes
  <2>3. CASE Fetch(c)
    BY <1>0, <1>a, <2>3, FetchType, TreeKept DEF Fetch
  <2>4. CASE Unanswered(c)
    BY <1>0, <1>a, <2>4, FinishesType, TreeKept DEF Unanswered, Finishes
  <2>5. CASE Return(c)
    <3>1. Requests' \subseteq Requests
      BY <1>0, <2>5, NoCallType, RequestsKept DEF Return, TypeInv, TypeOK
    <3> QED BY <1>0, <2>5, <3>1, TreeKept DEF Return
  <2> QED BY <1>3, <2>1, <2>2, <2>3, <2>4, <2>5 DEF Progress
<1>4. ASSUME NEW c \in Clients, Deadline(c) PROVE TreeInv'
  BY <1>0, <1>4, DeadlineRequests, TreeKept DEF Deadline
<1>5. ASSUME NEW request \in late, ExecuteLate(request) PROVE TreeInv'
  <2> DEFINE x == <<request.op, request.file>>
  <2>1. x \in Requests BY DEF Requests
  <2>2. calls' = calls /\ late' \subseteq late /\ server' = Do(server, x[1], x[2])
        /\ last' = IF server' # server THEN x[2] ELSE last
    BY <1>5 DEF ExecuteLate
  <2>3. Requests' \subseteq Requests BY <1>0, <1>a, <1>5, <2>2, ExecuteLateType
  <2> HIDE DEF x
  <2> QED BY <1>0, <2>1, <2>2, <2>3, TreeChanged
<1>6. CASE Crash
  BY <1>0, <1>a, <1>6, CrashType, TreeKept DEF Crash
<1>7. CASE UNCHANGED vars
  BY <1>0, <1>7, TreeKept DEF vars, Requests
<1> QED BY <1>1, <1>2, <1>3, <1>4, <1>5, <1>6, <1>7 DEF Next

-----------------------------------------------------------------------------
(* The step simulation.                                                    *)

Pending ==
  [c \in Clients |-> IF call[c].pc = "idle" THEN <<>> ELSE <<call[c].op, call[c].file>>]
Given == {<<r.op, r.file, r.left>> : r \in late}
Contents == {NewFile(n) : n \in 0 .. MaxCalls}

\* AtomicTree's copies of the operators of FileTree.
LEMMA SameOperators ==
  ASSUME NEW tree, NEW op, NEW file
  PROVE  /\ Atomic!Can(tree, op) <=> Can(tree, op)
         /\ Atomic!Effect(tree, op, file) = Effect(tree, op, file)
         /\ Atomic!Operations = Operations
         /\ Atomic!None = None
<1>1. Atomic!Operations = Operations BY DEF Atomic!Operations, Atomic!Kinds, Operations, Kinds
<1>2. Atomic!None = None BY DEF Atomic!None, None
<1>3. Atomic!Can(tree, op) <=> Can(tree, op)
  BY DEF Atomic!Can, Atomic!None, Atomic!Dir, Atomic!IsFile, Atomic!InDirectory, Atomic!Parent,
         Atomic!Under, Atomic!NoFileAbove, Atomic!Empty, Atomic!CanRename, Atomic!Fits, Atomic!Moved,
         Can, None, Dir, IsFile, InDirectory, Parent, Under, NoFileAbove, Empty, CanRename, Fits, Moved
<1>4. Atomic!Effect(tree, op, file) = Effect(tree, op, file)
  BY DEF Atomic!Effect, Atomic!Placed, Atomic!Renamed, Atomic!None, Atomic!Dir, Atomic!Under,
         Atomic!Moved, Effect, Placed, Renamed, None, Dir, Under, Moved
<1> QED BY <1>1, <1>2, <1>3, <1>4

LEMMA InitRefines == Init => Atomic!Init
BY NoCallType, SameOperators DEF Init, Atomic!Init

\* A request that is carried out, and was not the last to be, is one of AtomicTree's.
LEMMA TakesOrNothing ==
  ASSUME TreeInv, NEW x \in Requests, server' = Do(server, x[1], x[2]), server' # server,
         last' = x[2]
  PROVE  Atomic!Takes(x[1], x[2])
<1>1. Can(server, x[1]) /\ server' = Effect(server, x[1], x[2]) BY DEF Do
<1>2. last # x[2] BY DEF TreeInv, LastDone
<1> QED BY <1>1, <1>2, SameOperators DEF Atomic!Takes

\* A call begins.
LEMMA BeginRefines ==
  ASSUME TreeInv, NEW c \in Clients, NEW op \in Operations,
         NEW pc \in {"rpc", "fetch", "local", "done"},
         call[c].pc = "idle", calls < MaxCalls,
         call' = [call EXCEPT ![c] = NewCall(op, pc)], UNCHANGED <<server, late, last>>
  PROVE  Atomic!Call(c)
<1>1. calls \in 0 .. MaxCalls /\ call \in [Clients -> CallState] /\ last \in Nat /\ MaxCalls \in Nat
  BY BoundsAssumption DEF TreeInv, TypeInv, TypeOK
<1>2. call'[c].pc # "idle" /\ call'[c].op = op /\ call'[c].file = NewFile(calls)
  BY <1>1, NewCallType
<1>3. \A d \in Clients \ {c} : call'[d] = call[d] BY <1>1
<1>4. Pending[c] = <<>> BY DEF Pending
<1>5. Pending'[c] = <<op, NewFile(calls)>> BY <1>2 DEF Pending
<1>6. \A d \in Clients \ {c} : Pending'[d] = Pending[d] BY <1>3 DEF Pending
<1>7. NewFile(calls) \in Contents \ {last}
  BY <1>1 DEF Contents, TreeInv, LastOld, NewFile, FirstNew
<1>8. Pending'[c] \in Atomic!Operations \X (Contents \ {last}) BY <1>5, <1>7, SameOperators
<1>9. Given' = Given BY DEF Given
<1> QED BY <1>4, <1>6, <1>8, <1>9 DEF Atomic!Call, Pending, Given, Contents

\* The calls remain what they are.
LEMMA SamePending ==
  ASSUME SameCalls
  PROVE  Pending' = Pending
BY DEF SameCalls, Pending

LEMMA Stutters ==
  ASSUME SameCalls, UNCHANGED <<server, late, last>>
  PROVE  UNCHANGED Atomic!vars
<1>1. Pending' = Pending BY SamePending
<1>2. Given' = Given BY DEF Given
<1> QED BY <1>1, <1>2 DEF Atomic!vars, Pending, Given

LEMMA ExecuteRefines ==
  ASSUME TreeInv, NEW c \in Clients, Execute(c)
  PROVE  Atomic!Change(c) \/ UNCHANGED Atomic!vars
<1> DEFINE x == <<call[c].op, call[c].file>>
<1>1. SameCalls /\ late' = late /\ call[c].pc # "idle"
  BY ExecuteType DEF TreeInv, Execute
<1>2. x \in Requests BY <1>1, CurrentRequest
<1>3. server' = Do(server, x[1], x[2]) /\ last' = IF server' # server THEN x[2] ELSE last
  BY DEF Execute
<1>4. Pending' = Pending /\ Given' = Given BY <1>1, SamePending DEF Given
<1>5. Pending[c] # <<>> /\ Pending[c] = x BY <1>1 DEF Pending
<1> HIDE DEF x
<1>6. CASE server' = server BY <1>1, <1>3, <1>6, Stutters
<1>7. CASE server' # server
  <2>1. Atomic!Takes(x[1], x[2]) BY <1>2, <1>3, <1>7, TakesOrNothing
  <2> QED BY <1>4, <1>5, <2>1 DEF Atomic!Change, Pending, Given
<1> QED BY <1>6, <1>7

LEMMA ReturnRefines ==
  ASSUME TreeInv, NEW c \in Clients, Return(c)
  PROVE  Atomic!Return(c)
<1>1. call' = [call EXCEPT ![c] = NoCall] /\ UNCHANGED <<server, late, last>>
      /\ call[c].pc = "done" /\ call \in [Clients -> CallState]
  BY DEF Return, TreeInv, TypeInv, TypeOK
<1>2. Pending[c] # <<>> BY <1>1 DEF Pending
<1>3. call'[c].pc = "idle" BY <1>1, NoCallType
<1>4. \A d \in Clients \ {c} : call'[d] = call[d] BY <1>1
<1>5. Pending' = [Pending EXCEPT ![c] = <<>>] BY <1>3, <1>4 DEF Pending
<1>6. Given' = Given BY <1>1 DEF Given
<1> QED BY <1>1, <1>2, <1>5, <1>6 DEF Atomic!Return, Pending, Given

LEMMA DeadlineRefines ==
  ASSUME TreeInv, NEW c \in Clients, Deadline(c)
  PROVE  Atomic!GiveUp(c) \/ UNCHANGED Atomic!vars
<1>1. SameCalls /\ UNCHANGED <<server, last>> /\ call[c] \in CallState
      /\ call[c].pc # "idle" /\ (late' = late \/ late' = late \cup Sent(c))
  BY DeadlineType DEF Deadline, TreeInv, TypeInv, TypeOK
<1>2. CASE late' = late BY <1>1, <1>2, Stutters
<1>3. ASSUME NEW r, late' = late \cup {r},
             r.op = call[c].op, r.file = call[c].file, r.left = call[c].left
      PROVE  Atomic!GiveUp(c)
  <2>1. call[c].left \in 1 .. Tries BY <1>1 DEF CallState
  <2>2. Pending[c] = <<call[c].op, call[c].file>> /\ Pending[c] # <<>> BY <1>1 DEF Pending
  <2>3. Given' = Given \cup {<<Pending[c][1], Pending[c][2], call[c].left>>}
    BY <1>3, <2>2 DEF Given
  <2>4. Pending' = Pending BY <1>1, SamePending
  <2> QED BY <1>1, <2>1, <2>2, <2>3, <2>4 DEF Atomic!GiveUp, Pending, Given
<1> QED BY <1>1, <1>2, <1>3 DEF Sent

LEMMA LateRefines ==
  ASSUME TreeInv, NEW request \in late, ExecuteLate(request)
  PROVE  (\E g \in Given : Atomic!ChangeLate(g)) \/ (\E G \in SUBSET Given : Atomic!Forget(G))
<1> DEFINE x == <<request.op, request.file>>
           g == <<request.op, request.file, request.left>>
<1>1. SameCalls /\ late' = late \ {request} BY ExecuteLateType DEF TreeInv, ExecuteLate
<1>2. x \in Requests /\ g \in Given BY DEF Requests, Given
<1>3. server' = Do(server, x[1], x[2]) /\ last' = IF server' # server THEN x[2] ELSE last
  BY DEF ExecuteLate
<1>4. Pending' = Pending BY <1>1, SamePending
<1>5. Given' = Given \ {g}
  <2>1. late \subseteq [op : Operations, file : Nat, left : 1 .. Tries] BY DEF TreeInv, TypeInv, TypeOK
  <2>2. \A r \in late : <<r.op, r.file, r.left>> = g => r = request BY <2>1
  <2> QED BY <1>1, <2>2 DEF Given
<1>6. g[1] = x[1] /\ g[2] = x[2] OBVIOUS
<1> HIDE DEF x, g
<1>7. CASE server' = server
  <2>1. Atomic!Forget({g}) BY <1>3, <1>4, <1>5, <1>7 DEF Atomic!Forget, Pending, Given
  <2> QED BY <1>2, <2>1
<1>8. CASE server' # server
  <2>1. Atomic!Takes(x[1], x[2]) BY <1>2, <1>3, <1>8, TakesOrNothing
  <2>2. Atomic!ChangeLate(g) BY <1>4, <1>5, <1>6, <2>1 DEF Atomic!ChangeLate, Pending, Given
  <2> QED BY <1>2, <2>2
<1> QED BY <1>7, <1>8

LEMMA CrashRefines ==
  ASSUME TreeInv, Crash
  PROVE  \E G \in SUBSET Given : Atomic!Forget(G)
<1>1. SameCalls /\ UNCHANGED <<server, last>> /\ late' = {} BY CrashType DEF TreeInv, Crash
<1>2. Pending' = Pending /\ Given' = Given \ Given BY <1>1, SamePending DEF Given
<1>3. PICK G \in SUBSET Given : G = Given OBVIOUS
<1>4. Atomic!Forget(G) BY <1>1, <1>2, <1>3 DEF Atomic!Forget, Pending, Given
<1> QED BY <1>4

LEMMA StepRefines == TreeInv /\ [Next]_vars => [Atomic!Next]_Atomic!vars
<1> SUFFICES ASSUME TreeInv, [Next]_vars PROVE Atomic!Next \/ UNCHANGED Atomic!vars OBVIOUS
<1>0. TypeInv BY DEF TreeInv
<1>1. ASSUME NEW c \in Clients, NEW op \in Operations, Begin(c, op) PROVE Atomic!Next
  <2>1. Atomic!Call(c) BY <1>1, BeginRefines, FirstStepType DEF Begin
  <2> QED BY <2>1 DEF Atomic!Next
<1>2. ASSUME NEW c \in Clients, NEW h \in held[c], Close(c, h) \/ Leave(c, h)
      PROVE  Atomic!Next \/ UNCHANGED Atomic!vars
  <2>1. CASE Close(c, h)
    <3>0. PICK op \in Operations, pc \in {"rpc", "local", "done"} :
            call' = [call EXCEPT ![c] = NewCall(op, pc)]
      BY <1>0, <2>1, CloseBegins
    <3>1. call[c].pc = "idle" /\ calls < MaxCalls /\ UNCHANGED <<server, late, last>>
      BY <2>1 DEF Close
    <3>2. Atomic!Call(c) BY <3>0, <3>1, BeginRefines
    <3> QED BY <3>2 DEF Atomic!Next
  <2>2. CASE Leave(c, h)
    BY <1>0, <2>2, LeaveType, Stutters DEF Leave
  <2> QED BY <1>2, <2>1, <2>2
<1>3. ASSUME NEW c \in Clients, Progress(c) PROVE Atomic!Next \/ UNCHANGED Atomic!vars
  <2>1. CASE Execute(c) BY <2>1, ExecuteRefines DEF Atomic!Next
  <2>2. CASE Answered(c)
    BY <1>0, <2>2, AnsweredType, Stutters DEF Answered, Finishes
  <2>3. CASE Fetch(c)
    BY <1>0, <2>3, FetchType, Stutters DEF Fetch
  <2>4. CASE Unanswered(c)
    BY <1>0, <2>4, FinishesType, Stutters DEF Unanswered, Finishes
  <2>5. CASE Return(c) BY <2>5, ReturnRefines DEF Atomic!Next
  <2> QED BY <1>3, <2>1, <2>2, <2>3, <2>4, <2>5 DEF Progress
<1>4. ASSUME NEW c \in Clients, Deadline(c) PROVE Atomic!Next \/ UNCHANGED Atomic!vars
  BY <1>4, DeadlineRefines DEF Atomic!Next
<1>5. ASSUME NEW request \in late, ExecuteLate(request) PROVE Atomic!Next
  BY <1>5, LateRefines DEF Atomic!Next, Given
<1>6. CASE Crash
  BY <1>6, CrashRefines DEF Atomic!Next, Given
<1>7. CASE UNCHANGED vars
  BY <1>7, Stutters DEF vars, SameCalls
<1> QED BY <1>1, <1>2, <1>3, <1>4, <1>5, <1>6, <1>7 DEF Next

\* The server's tree changes by calls that somebody waits for or has given up, each
\* attempt once, and never by one call twice in a row, for every number of clients,
\* retries and faults.
THEOREM RefinesAtomicTree == Spec => ImplementsAtomicTree
<1>1. Spec => []TreeInv BY InitTree, TreeStep, PTL DEF Spec
<1> QED BY <1>1, InitRefines, StepRefines, PTL DEF Spec, ImplementsAtomicTree, Atomic!Spec
=============================================================================
