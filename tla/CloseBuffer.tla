---------------------------- MODULE CloseBuffer ----------------------------
(***************************************************************************)
(* The BoundedBuffer of afsfuse_client.cc: a ring of paths filled by FUSE  *)
(* threads (client_release -> submitRequest -> deposit), emptied by the    *)
(* one close_thread (consumer -> fetch -> closeOnServer), and shut down by *)
(* client_destroy (cleanupBuffer, then join).                              *)
(*                                                                         *)
(* Steps follow the critical sections.  The mutex is held over several     *)
(* steps only by the consumer, because fetch reads notDone, which          *)
(* cleanupBuffer writes WITHOUT the mutex; whether the mutex is held is    *)
(* therefore a function of the consumer's pc.  Condition variables are the *)
(* sets of threads whose pc is "waiting"; spurious wake-ups are allowed,   *)
(* as the C++ standard allows them.                                        *)
(***************************************************************************)
EXTENDS Naturals, Sequences, FiniteSets

CONSTANTS
  Producers,   \* FUSE worker threads that run client_release
  Paths,       \* paths they submit
  NoPath,      \* a value that is no path
  Capacity,    \* capacity of the ring (100 in client_init)
  MaxSubmits   \* model bound: submitRequest calls over a behaviour

ASSUME CapacityAssumption == Capacity \in Nat \ {0}
ASSUME ProducersAssumption == IsFiniteSet(Producers)
ASSUME NoPathAssumption == NoPath \notin Paths
ASSUME MaxSubmitsAssumption == MaxSubmits \in Nat

VARIABLES
  buffer,   \* buffer[i]: the path in slot i
  front,    \* slot of the oldest path
  rear,     \* slot of the next deposit
  count,    \* occupied slots
  notDone,  \* cleared by cleanupBuffer
  ppc,      \* ppc[p]: where producer p is
  item,     \* item[p]: the argument of p's submitRequest
  cpc,      \* where the consumer thread is
  taken,    \* the consumer's local path
  dpc,      \* where client_destroy is
  sent,     \* history: paths given to closeOnServer, in order
  submits   \* history: number of submitRequest calls

ring == <<buffer, front, rear, count>>
vars == <<buffer, front, rear, count, notDone, ppc, item, cpc, taken, dpc,
          sent, submits>>

Slots == 0 .. Capacity - 1

ProducerPCs == {"idle", "enter", "waiting", "notify"}
ConsumerPCs == {"loop", "enter", "pred", "parking", "waiting", "inside",
                "notify", "got", "send", "exited"}
DestroyPCs  == {"mounted", "notify", "join", "done"}

\* The consumer is the only thread that holds the mutex over several steps.
LockFree == cpc \notin {"pred", "parking", "inside"}

Init ==
  /\ buffer = [i \in Slots |-> NoPath]
  /\ front = 0
  /\ rear = 0
  /\ count = 0
  /\ notDone = TRUE
  /\ ppc = [p \in Producers |-> "idle"]
  /\ item = [p \in Producers |-> NoPath]
  /\ cpc = "loop"
  /\ taken = NoPath
  /\ dpc = "mounted"
  /\ sent = <<>>
  /\ submits = 0

-----------------------------------------------------------------------------
(* Producers: client_release submits a path and waits for room.            *)

SubmitRequest(p, path) ==
  /\ ppc[p] = "idle"
  /\ dpc = "mounted"
  /\ submits < MaxSubmits
  /\ ppc' = [ppc EXCEPT ![p] = "enter"]
  /\ item' = [item EXCEPT ![p] = path]
  /\ submits' = submits + 1
  /\ UNCHANGED <<ring, notDone, cpc, taken, dpc, sent>>

\* VARIANT: the deposit that finds the consumer busy notifies nobody.
DepositSilent(p) ==
  /\ ppc[p] = "enter"
  /\ LockFree
  /\ count # Capacity
  /\ buffer' = [buffer EXCEPT ![rear] = item[p]]
  /\ rear' = (rear + 1) % Capacity
  /\ count' = count + 1
  /\ ppc' = [ppc EXCEPT ![p] = "idle"]
  /\ item' = [item EXCEPT ![p] = NoPath]
  /\ UNCHANGED <<front, notDone, cpc, taken, dpc, sent, submits>>

\* VARIANT: no test for a full ring.
DepositUnchecked(p) ==
  /\ ppc[p] = "enter"
  /\ LockFree
  /\ buffer' = [buffer EXCEPT ![rear] = item[p]]
  /\ rear' = (rear + 1) % Capacity
  /\ count' = count + 1
  /\ ppc' = [ppc EXCEPT ![p] = "notify"]
  /\ UNCHANGED <<front, notDone, item, cpc, taken, dpc, sent, submits>>

Deposit(p) ==
  /\ ppc[p] = "enter"
  /\ LockFree
  /\ count # Capacity
  /\ buffer' = [buffer EXCEPT ![rear] = item[p]]
  /\ rear' = (rear + 1) % Capacity
  /\ count' = count + 1
  /\ ppc' = [ppc EXCEPT ![p] = "notify"]
  /\ UNCHANGED <<front, notDone, item, cpc, taken, dpc, sent, submits>>

WaitNotFull(p) ==
  /\ ppc[p] = "enter"
  /\ LockFree
  /\ count = Capacity
  /\ ppc' = [ppc EXCEPT ![p] = "waiting"]
  /\ UNCHANGED <<ring, notDone, item, cpc, taken, dpc, sent, submits>>

\* VARIANT: notifies the other condition variable.
NotifyWrongCondition(p) ==
  /\ ppc[p] = "notify"
  /\ ppc' = [q \in Producers |->
               IF q = p THEN "idle" ELSE IF ppc[q] = "waiting" THEN "enter" ELSE ppc[q]]
  /\ item' = [item EXCEPT ![p] = NoPath]
  /\ UNCHANGED <<ring, notDone, cpc, taken, dpc, sent, submits>>

\* After the unlock: not_empty.notify_one() wakes the consumer if it waits.
NotifyNotEmpty(p) ==
  /\ ppc[p] = "notify"
  /\ ppc' = [ppc EXCEPT ![p] = "idle"]
  /\ item' = [item EXCEPT ![p] = NoPath]
  /\ cpc' = IF cpc = "waiting" THEN "enter" ELSE cpc
  /\ UNCHANGED <<ring, notDone, taken, dpc, sent, submits>>

-----------------------------------------------------------------------------
(* The consumer thread.                                                    *)

LoopTest ==
  /\ cpc = "loop"
  /\ cpc' = IF notDone THEN "enter" ELSE "exited"
  /\ UNCHANGED <<ring, notDone, ppc, item, taken, dpc, sent, submits>>

FetchLock ==
  /\ cpc = "enter"
  /\ cpc' = "pred"
  /\ UNCHANGED <<ring, notDone, ppc, item, taken, dpc, sent, submits>>

\* VARIANT: waits for a path only, not for the end.
FetchPredicateOnlyCount ==
  /\ cpc = "pred"
  /\ cpc' = IF count # 0 THEN "inside" ELSE "parking"
  /\ UNCHANGED <<ring, notDone, ppc, item, taken, dpc, sent, submits>>

\* VARIANT: a single wait without a predicate, as after a spurious wake-up.
FetchPredicateNone ==
  /\ cpc = "pred"
  /\ cpc' = "inside"
  /\ UNCHANGED <<ring, notDone, ppc, item, taken, dpc, sent, submits>>

\* The wait predicate, evaluated with the mutex held.
FetchPredicate ==
  /\ cpc = "pred"
  /\ cpc' = IF count # 0 \/ ~notDone THEN "inside" ELSE "parking"
  /\ UNCHANGED <<ring, notDone, ppc, item, taken, dpc, sent, submits>>

\* Releasing the mutex and starting to wait is one atomic step.
FetchPark ==
  /\ cpc = "parking"
  /\ cpc' = "waiting"
  /\ UNCHANGED <<ring, notDone, ppc, item, taken, dpc, sent, submits>>

\* VARIANT: the notification of not_full is missing.
FetchTakeSilent ==
  /\ cpc = "inside"
  /\ notDone
  /\ taken' = buffer[front]
  /\ front' = (front + 1) % Capacity
  /\ count' = count - 1
  /\ cpc' = "got"
  /\ UNCHANGED <<buffer, rear, notDone, ppc, item, dpc, sent, submits>>

FetchTake ==
  /\ cpc = "inside"
  /\ notDone
  /\ taken' = buffer[front]
  /\ front' = (front + 1) % Capacity
  /\ count' = count - 1
  /\ cpc' = "notify"
  /\ UNCHANGED <<buffer, rear, notDone, ppc, item, dpc, sent, submits>>

FetchNothing ==
  /\ cpc = "inside"
  /\ ~notDone
  /\ cpc' = "got"
  /\ UNCHANGED <<ring, notDone, ppc, item, taken, dpc, sent, submits>>

\* not_full.notify_one() wakes any one of the producers that wait.
NotifyNotFull ==
  /\ cpc = "notify"
  /\ cpc' = "got"
  /\ IF \E p \in Producers : ppc[p] = "waiting"
     THEN \E p \in Producers :
            /\ ppc[p] = "waiting"
            /\ ppc' = [ppc EXCEPT ![p] = "enter"]
     ELSE UNCHANGED ppc
  /\ UNCHANGED <<ring, notDone, item, taken, dpc, sent, submits>>

SendTest ==
  /\ cpc = "got"
  /\ IF notDone
     THEN cpc' = "send" /\ UNCHANGED taken
     ELSE cpc' = "loop" /\ taken' = NoPath
  /\ UNCHANGED <<ring, notDone, ppc, item, dpc, sent, submits>>

CloseOnServer ==
  /\ cpc = "send"
  /\ sent' = Append(sent, taken)
  /\ taken' = NoPath
  /\ cpc' = "loop"
  /\ UNCHANGED <<ring, notDone, ppc, item, dpc, submits>>

-----------------------------------------------------------------------------
(* client_destroy.  libfuse calls it after every request handler returned. *)

CleanupFlag ==
  /\ dpc = "mounted"
  /\ \A p \in Producers : ppc[p] = "idle"
  /\ notDone' = FALSE
  /\ dpc' = "notify"
  /\ UNCHANGED <<ring, ppc, item, cpc, taken, sent, submits>>

CleanupNotify ==
  /\ dpc = "notify"
  /\ dpc' = "join"
  /\ cpc' = IF cpc = "waiting" THEN "enter" ELSE cpc
  /\ UNCHANGED <<ring, notDone, ppc, item, taken, sent, submits>>

Join ==
  /\ dpc = "join"
  /\ cpc = "exited"
  /\ dpc' = "done"
  /\ UNCHANGED <<ring, notDone, ppc, item, cpc, taken, sent, submits>>

-----------------------------------------------------------------------------
(* Spurious wake-ups of std::condition_variable::wait.                     *)

SpuriousProducer(p) ==
  /\ ppc[p] = "waiting"
  /\ ppc' = [ppc EXCEPT ![p] = "enter"]
  /\ UNCHANGED <<ring, notDone, item, cpc, taken, dpc, sent, submits>>

SpuriousConsumer ==
  /\ cpc = "waiting"
  /\ cpc' = "enter"
  /\ UNCHANGED <<ring, notDone, ppc, item, taken, dpc, sent, submits>>

ProducerStep(p) == Deposit(p) \/ WaitNotFull(p) \/ NotifyNotEmpty(p)

ConsumerStep ==
  \/ LoopTest \/ FetchLock \/ FetchPredicate \/ FetchPark
  \/ FetchTake \/ FetchNothing \/ NotifyNotFull \/ SendTest \/ CloseOnServer

DestroyStep == CleanupNotify \/ Join

Next ==
  \/ \E p \in Producers, path \in Paths : SubmitRequest(p, path)
  \/ \E p \in Producers : ProducerStep(p)
  \/ ConsumerStep
  \/ CleanupFlag
  \/ DestroyStep
  \/ \E p \in Producers : SpuriousProducer(p)
  \/ SpuriousConsumer

\* Threads that can run are scheduled, and a thread that asks for the mutex again
\* and again while it is free gets it in the end (strong fairness).  Nobody is
\* obliged to close a file, to unmount, or to wake up spuriously.
Fairness ==
  /\ \A p \in Producers : SF_vars(ProducerStep(p))
  /\ WF_vars(ConsumerStep)
  /\ WF_vars(DestroyStep)

Spec == Init /\ [][Next]_vars
FairSpec == Spec /\ Fairness

-----------------------------------------------------------------------------
(* Properties.                                                             *)

\* Type invariant of the buffer, its threads and the two history variables.
TypeOK ==
  /\ buffer \in [Slots -> Paths \cup {NoPath}]
  /\ front \in Slots
  /\ rear \in Slots
  /\ count \in 0 .. Capacity
  /\ notDone \in BOOLEAN
  /\ ppc \in [Producers -> ProducerPCs]
  /\ item \in [Producers -> Paths \cup {NoPath}]
  /\ cpc \in ConsumerPCs
  /\ taken \in Paths \cup {NoPath}
  /\ dpc \in DestroyPCs
  /\ sent \in Seq(Paths)
  /\ submits \in Nat

\* The consumer never sleeps on a non-empty ring unless the notification of
\* the deposit that filled it is still to come (deposit unlocks first and
\* notifies afterwards).
ConsumerNotForgotten ==
  (cpc = "waiting" /\ count > 0) => \E p \in Producers : ppc[p] = "notify"

Entering == {p \in Producers : ppc[p] = "enter"}

\* While a producer sleeps, every free slot is spoken for: by a producer that
\* is on its way in, or by the consumer's pending not_full notification.
ProducerNotForgotten ==
  (\E p \in Producers : ppc[p] = "waiting") =>
     count + Cardinality(Entering) + (IF cpc = "notify" THEN 1 ELSE 0) >= Capacity

\* The content of the ring, oldest first.
Queued == [i \in 1 .. count |-> buffer[(front + i - 1) % Capacity]]

\* deposit and fetch together are a FIFO queue of at most Capacity paths whose
\* consumer sends each accepted path once and in order of acceptance.
Abstract == INSTANCE CloseQueue WITH
  queue     <- Queued,
  inflight  <- IF taken = NoPath THEN <<>> ELSE <<taken>>,
  sent      <- sent,
  accepting <- notDone

ImplementsCloseQueue == Abstract!Spec

\* While the file system stays mounted, every submitted path is sent: no
\* interleaving of full ring, empty ring and notify_one strands a request.
EverySubmitSent ==
  \A n \in 1 .. MaxSubmits :
    (submits >= n) ~> (Len(sent) >= n \/ ~notDone)

\* Shutdown ends the close thread if its notification does not fall into the
\* window between fetch's predicate test and its wait (states "parking" and
\* "waiting" below): cleanupBuffer changes notDone without the mutex, so in
\* that window the wake-up is lost and join() waits for a spurious one.
ShutdownOutsideWindow ==
  (dpc = "join" /\ cpc \notin {"parking", "waiting"}) ~> (dpc = "done")

\* Flush on close: once the file system is unmounted, every path that a close
\* submitted has been sent to the server.
UnmountFlushes == (dpc = "done") => (Len(sent) = submits)
=============================================================================
