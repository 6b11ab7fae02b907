--------------------------- MODULE EcashTransfer ----------------------------
(***************************************************************************)
(* The four-message batch transfer of e-cash notes                         *)
(* (agent/src/modules/ecash_transfer.rs): BatchTransferHandler at the      *)
(* sender and at the receiver, and the payment at the sender that calls    *)
(* register_pending_batch, wait_for_ack and wait_for_done.                 *)
(*                                                                         *)
(* Messages travel through mediators: they may be lost, reordered or       *)
(* delivered again, and an agent handles several at a time.  Each stretch  *)
(* of a handler between two awaits is one action.                          *)
(***************************************************************************)
EXTENDS Integers, FiniteSets, Sequences

CONSTANTS
  Batches,      \* the transfers
  Tasks,        \* the receiver's tasks that run handle()
  MaxCopies,    \* bound: copies of each message of a batch that are handled
  MaxFaults,    \* bound: failing calls, prunings and crashes
  None

ASSUME EcashAssumption ==
  /\ MaxFaults \in Nat
  /\ MaxCopies \in [Batches -> Nat]
  /\ None \notin Batches \cup {"Committed", "AckReceived", "done", "nack"}

VARIABLES
  pay,        \* where the payment of each batch is
  pending,    \* the sender's `pending` map
  confirmed,  \* done_confirmations
  verdict,    \* what the payment ended with
  queue,      \* the waiters of ack_notify and done_notify, oldest first
  permit,     \* the permit each Notify stores
  committed,  \* the batches in the receiver's `pending` map
  tpc,        \* where each handler task is
  tbatch,     \* the batch it handles
  wallet,     \* how often the notes of each batch were added to the wallet
  net,        \* every message sent
  acks,       \* history: ACKs the sender handled, per batch
  dones,      \* history: DONEs and NACKs the sender handled, per batch
  commits,    \* history: COMMITs the receiver stored, per batch
  reveals,    \* history: REVEALs it looked up, per batch
  overlapped, \* history: batches with two REVEALs handled at a time
  disturbed,  \* history: batches whose state a pruning or a crash removed
  faults

senderVars == <<pay, pending, confirmed, verdict, queue, permit, acks, dones>>
taskVars == <<tpc, tbatch>>
receiverVars == <<committed, taskVars, wallet, commits, reveals, overlapped>>
vars == <<senderVars, receiverVars, net, disturbed, faults>>

Notifies == {"ack", "done"}

Message ==
  [type : {"commit", "ack", "reveal"}, batch : Batches]
    \cup [type : {"done"}, batch : Batches, status : {"done", "nack"}]

Init ==
  /\ pay = [b \in Batches |-> "idle"]
  /\ pending = [b \in Batches |-> None]
  /\ confirmed = [b \in Batches |-> None]
  /\ verdict = [b \in Batches |-> None]
  /\ queue = [n \in Notifies |-> <<>>]
  /\ permit = [n \in Notifies |-> FALSE]
  /\ committed = {}
  /\ tpc = [t \in Tasks |-> "idle"]
  /\ tbatch = [t \in Tasks |-> None]
  /\ wallet = [b \in Batches |-> 0]
  /\ net = {}
  /\ acks = [b \in Batches |-> 0]
  /\ dones = [b \in Batches |-> 0]
  /\ commits = [b \in Batches |-> 0]
  /\ reveals = [b \in Batches |-> 0]
  /\ overlapped = {}
  /\ disturbed = {}
  /\ faults = 0

Send(m) == net' = net \cup {m}

Fault ==
  /\ faults < MaxFaults
  /\ faults' = faults + 1

-----------------------------------------------------------------------------
(* tokio::sync::Notify, used through notify_one and notified (external).   *)

\* The payments that wait on Notify n, by where they are.
Looking(n) == IF n = "ack" THEN "lookAck" ELSE "lookDone"
Awaiting(n) == IF n = "ack" THEN "awaitAck" ELSE "awaitDone"
Asleep(n) == IF n = "ack" THEN "sleepAck" ELSE "sleepDone"

\* The oldest waiter is woken, whichever batch it waits for; without a waiter
\* one permit is stored.
NotifyOne(n) ==
  IF queue[n] = <<>>
    THEN /\ permit' = [permit EXCEPT ![n] = TRUE]
         /\ UNCHANGED <<queue, pay>>
    ELSE /\ queue' = [queue EXCEPT ![n] = Tail(@)]
         /\ pay' = [pay EXCEPT ![Head(queue[n])] = Looking(n)]
         /\ UNCHANGED permit

\* notified().await: takes the permit, or joins the waiters.
AwaitNotified(n, b) ==
  /\ pay[b] = Awaiting(n)
  /\ IF permit[n]
       THEN /\ permit' = [permit EXCEPT ![n] = FALSE]
            /\ pay' = [pay EXCEPT ![b] = Looking(n)]
            /\ UNCHANGED queue
       ELSE /\ queue' = [queue EXCEPT ![n] = Append(@, b)]
            /\ pay' = [pay EXCEPT ![b] = Asleep(n)]
            /\ UNCHANGED permit
  /\ UNCHANGED <<pending, confirmed, verdict, acks, dones, receiverVars, net,
                 disturbed, faults>>

Without(q, b) ==
  LET i == CHOOSE j \in 1 .. Len(q) : q[j] = b
  IN  SubSeq(q, 1, i - 1) \o SubSeq(q, i + 1, Len(q))

\* A dropped Notified future leaves the waiters.
LeaveQueue(n, b) == queue' = [queue EXCEPT ![n] = Without(@, b)]

-----------------------------------------------------------------------------
(* The sender: the payment, and the handlers of batch-ack and batch-done.  *)

StartPayment(b) ==
  /\ pay[b] = "idle"
  /\ pending' = [pending EXCEPT ![b] = "Committed"]
  /\ Send([type |-> "commit", batch |-> b])
  /\ pay' = [pay EXCEPT ![b] = "lookAck"]
  /\ UNCHANGED <<confirmed, verdict, queue, permit, acks, dones,
                 receiverVars, disturbed, faults>>

End(b, v) ==
  /\ pay' = [pay EXCEPT ![b] = "ended"]
  /\ verdict' = [verdict EXCEPT ![b] = v]

\* take_ack found the ACK: the payment reveals the preimages.
TakeAck(b) ==
  /\ pending[b] = "AckReceived"
  /\ pending' = [pending EXCEPT ![b] = None]
  /\ Send([type |-> "reveal", batch |-> b])
  /\ pay' = [pay EXCEPT ![b] = "lookDone"]
  /\ UNCHANGED verdict

\* take_ack in the loop of wait_for_ack.
LookAck(b) ==
  /\ pay[b] = "lookAck"
  /\ \/ TakeAck(b)
     \/ /\ pending[b] # "AckReceived"
        /\ pay' = [pay EXCEPT ![b] = "awaitAck"]
        /\ UNCHANGED <<pending, verdict, net>>
  /\ UNCHANGED <<confirmed, queue, permit, acks, dones, receiverVars, disturbed,
                 faults>>

\* Mutant of AckTimeout: the answer that came in the meantime is not looked for.
AckTimeoutGivesUp(b) ==
  /\ pay[b] = "sleepAck"
  /\ LeaveQueue("ack", b)
  /\ End(b, "noack")
  /\ UNCHANGED <<pending, confirmed, permit, acks, dones, net,
                 receiverVars, disturbed, faults>>

\* The deadline passes; take_ack is tried once more.
AckTimeout(b) ==
  /\ pay[b] = "sleepAck"
  /\ LeaveQueue("ack", b)
  /\ \/ TakeAck(b)
     \/ /\ pending[b] # "AckReceived"
        /\ End(b, "noack")
        /\ UNCHANGED <<pending, net>>
  /\ UNCHANGED <<confirmed, permit, acks, dones, receiverVars, disturbed, faults>>

TakeDone(b) ==
  /\ confirmed[b] # None
  /\ confirmed' = [confirmed EXCEPT ![b] = None]
  /\ End(b, confirmed[b])

\* Mutant of LookDone: a NACK leaves the wait unfinished.
LookDoneIgnoresNack(b) ==
  /\ pay[b] = "lookDone"
  /\ \/ confirmed[b] # "nack" /\ TakeDone(b)
     \/ /\ confirmed[b] = None
        /\ pay' = [pay EXCEPT ![b] = "awaitDone"]
        /\ UNCHANGED <<confirmed, verdict>>
  /\ UNCHANGED <<pending, queue, permit, acks, dones, net, receiverVars,
                 disturbed, faults>>

LookDone(b) ==
  /\ pay[b] = "lookDone"
  /\ \/ TakeDone(b)
     \/ /\ confirmed[b] = None
        /\ pay' = [pay EXCEPT ![b] = "awaitDone"]
        /\ UNCHANGED <<confirmed, verdict>>
  /\ UNCHANGED <<pending, queue, permit, acks, dones, net, receiverVars, disturbed,
                 faults>>

DoneTimeout(b) ==
  /\ pay[b] = "sleepDone"
  /\ LeaveQueue("done", b)
  /\ \/ TakeDone(b)
     \/ /\ confirmed[b] = None
        /\ End(b, "unknown")
        /\ UNCHANGED confirmed
  /\ UNCHANGED <<pending, permit, acks, dones, net, receiverVars, disturbed, faults>>

\* pending.remove comes before the match: an ACK that finds anything but
\* Committed takes the entry away and fails.
HandleAck(b) ==
  /\ \E m \in net :
       /\ m.type = "ack" /\ m.batch = b
       /\ acks[b] < MaxCopies[b]
       /\ acks' = [acks EXCEPT ![b] = @ + 1]
       /\ IF pending[b] = "Committed"
            THEN /\ pending' = [pending EXCEPT ![b] = "AckReceived"]
                 /\ NotifyOne("ack")
            ELSE /\ pending' = [pending EXCEPT ![b] = None]
                 /\ UNCHANGED <<queue, permit, pay>>
  /\ UNCHANGED <<confirmed, verdict, dones, receiverVars, net, disturbed, faults>>

HandleDone(b) ==
  /\ \E m \in net :
       /\ m.type = "done" /\ m.batch = b
       /\ dones[b] < MaxCopies[b]
       /\ dones' = [dones EXCEPT ![b] = @ + 1]
       /\ confirmed' = [confirmed EXCEPT ![b] = m.status]
  /\ NotifyOne("done")
  /\ UNCHANGED <<pending, verdict, acks, receiverVars, net, disturbed, faults>>

-----------------------------------------------------------------------------
(* The receiver: the handlers of batch-commit and batch-reveal.            *)

Return(t) ==
  /\ tpc' = [tpc EXCEPT ![t] = "idle"]
  /\ tbatch' = [tbatch EXCEPT ![t] = None]

\* The task that takes up a message; which one makes no difference.
Spare(t) == tpc[t] = "idle" /\ t = CHOOSE u \in Tasks : tpc[u] = "idle"

\* generate_key is awaited.
GenerateKey(t) ==
  /\ Spare(t)
  /\ \E m \in net :
       /\ m.type = "commit"
       /\ commits[m.batch] + Cardinality({u \in Tasks : tpc[u] = "store" /\ tbatch[u] = m.batch})
            < MaxCopies[m.batch]
       /\ tbatch' = [tbatch EXCEPT ![t] = m.batch]
  /\ tpc' = [tpc EXCEPT ![t] = "store"]
  /\ UNCHANGED <<senderVars, committed, wallet, commits, reveals, overlapped,
                 net, disturbed, faults>>

\* A later commit of the same batch replaces the entry.  The signature is
\* awaited before the ACK goes out, signed or not; no state is read in between,
\* and the network delays the ACK anyway.
StoreCommit(t) ==
  /\ tpc[t] = "store"
  /\ committed' = committed \cup {tbatch[t]}
  /\ commits' = [commits EXCEPT ![tbatch[t]] = @ + 1]
  /\ Send([type |-> "ack", batch |-> tbatch[t]])
  /\ Return(t)
  /\ UNCHANGED <<senderVars, wallet, reveals, overlapped, disturbed, faults>>

Revealing(b) == {t \in Tasks : tbatch[t] = b /\ tpc[t] \in {"receive", "remove"}}

\* The pending commit is looked up under a read lock and not removed yet.
LookUpCommit(t) ==
  /\ Spare(t)
  /\ \E m \in net :
       /\ m.type = "reveal"
       /\ m.batch \in committed
       /\ reveals[m.batch] < MaxCopies[m.batch]
       /\ tbatch' = [tbatch EXCEPT ![t] = m.batch]
       /\ reveals' = [reveals EXCEPT ![m.batch] = @ + 1]
       /\ overlapped' = IF Revealing(m.batch) = {} THEN overlapped
                                                   ELSE overlapped \cup {m.batch}
  /\ tpc' = [tpc EXCEPT ![t] = "receive"]
  /\ UNCHANGED <<senderVars, committed, wallet, commits, net, disturbed, faults>>

\* receive_batch_json: the wallet takes the notes, or it does not (below).
\* The handler checks nothing else about the REVEAL.
ReceiveBatch(t) ==
  /\ tpc[t] = "receive"
  /\ wallet' = [wallet EXCEPT ![tbatch[t]] = @ + 1]
  /\ tpc' = [tpc EXCEPT ![t] = "remove"]
  /\ UNCHANGED <<senderVars, committed, tbatch, commits, reveals, overlapped, net,
                 disturbed, faults>>

\* Mutant of ReceiveFails: the answer is DONE whatever the result.
FailureConfirmed(t) ==
  /\ tpc[t] = "receive" /\ Fault
  /\ Send([type |-> "done", batch |-> tbatch[t], status |-> "done"])
  /\ Return(t)
  /\ UNCHANGED <<senderVars, committed, wallet, commits, reveals, overlapped,
                 disturbed>>

\* It fails; the pending commit stays.
ReceiveFails(t) ==
  /\ tpc[t] = "receive" /\ Fault
  /\ Send([type |-> "done", batch |-> tbatch[t], status |-> "nack"])
  /\ Return(t)
  /\ UNCHANGED <<senderVars, committed, wallet, commits, reveals, overlapped,
                 disturbed>>

\* Mutant of FinishReveal: the pending commit is kept.
FinishKeepsCommit(t) ==
  /\ tpc[t] = "remove"
  /\ Send([type |-> "done", batch |-> tbatch[t], status |-> "done"])
  /\ Return(t)
  /\ UNCHANGED <<senderVars, committed, wallet, commits, reveals, overlapped,
                 disturbed, faults>>

FinishReveal(t) ==
  /\ tpc[t] = "remove"
  /\ committed' = committed \ {tbatch[t]}
  /\ Send([type |-> "done", batch |-> tbatch[t], status |-> "done"])
  /\ Return(t)
  /\ UNCHANGED <<senderVars, wallet, commits, reveals, overlapped, disturbed, faults>>

-----------------------------------------------------------------------------
(* prune_expired at either end, and crashes: the maps are in memory, the   *)
(* wallet is durable.                                                      *)

PruneSender(S) ==
  /\ Fault
  /\ \A b \in S : pending[b] # None
  /\ pending' = [b \in Batches |-> IF b \in S THEN None ELSE pending[b]]
  /\ disturbed' = disturbed \cup S
  /\ UNCHANGED <<pay, confirmed, verdict, queue, permit, acks, dones,
                 receiverVars, net>>

PruneReceiver(S) ==
  /\ Fault
  /\ S \subseteq committed
  /\ committed' = committed \ S
  /\ UNCHANGED <<senderVars, taskVars, wallet, commits, reveals, overlapped, net,
                 disturbed>>

ReceiverCrash ==
  /\ Fault
  /\ committed' = {}
  /\ tpc' = [t \in Tasks |-> "idle"]
  /\ tbatch' = [t \in Tasks |-> None]
  /\ UNCHANGED <<senderVars, wallet, commits, reveals, overlapped, net, disturbed>>

SenderStep(b) ==
  \/ LookAck(b) \/ AckTimeout(b) \/ LookDone(b) \/ DoneTimeout(b)
  \/ \E n \in Notifies : AwaitNotified(n, b)

ReceiverStep(t) ==
  StoreCommit(t) \/ ReceiveBatch(t) \/ ReceiveFails(t) \/ FinishReveal(t)

Next ==
  \/ \E b \in Batches : StartPayment(b) \/ SenderStep(b) \/ HandleAck(b) \/ HandleDone(b)
  \/ \E t \in Tasks : GenerateKey(t) \/ LookUpCommit(t) \/ ReceiverStep(t)
  \/ \E S \in SUBSET Batches \ {{}} : PruneSender(S) \/ PruneReceiver(S)
  \/ ReceiverCrash

Spec == Init /\ [][Next]_vars

\* The runtime polls what is ready, and deadlines pass.  Nothing obliges the
\* network to deliver.
Fairness == \A b \in Batches : WF_vars(SenderStep(b))

FairSpec == Spec /\ Fairness

-----------------------------------------------------------------------------
(* Properties.                                                             *)

\* Type invariant; a payment is among the waiters exactly while it sleeps.
TypeOK ==
  /\ pay \in [Batches -> {"idle", "lookAck", "awaitAck", "sleepAck", "lookDone", "awaitDone",
                         "sleepDone", "ended"}]
  /\ pending \in [Batches -> {None, "Committed", "AckReceived"}]
  /\ confirmed \in [Batches -> {None, "done", "nack"}]
  /\ verdict \in [Batches -> {None, "done", "nack", "noack", "unknown"}]
  /\ queue \in [Notifies -> Seq(Batches)]
  /\ \A n \in Notifies, b \in Batches :
       pay[b] = Asleep(n) <=> \E i \in 1 .. Len(queue[n]) : queue[n][i] = b
  /\ permit \in [Notifies -> BOOLEAN]
  /\ committed \subseteq Batches
  /\ tpc \in [Tasks -> {"idle", "store", "receive", "remove"}]
  /\ tbatch \in [Tasks -> Batches \cup {None}]
  /\ wallet \in [Batches -> Nat]
  /\ net \subseteq Message
  /\ acks \in [Batches -> Nat]
  /\ dones \in [Batches -> Nat]
  /\ commits \in [Batches -> Nat]
  /\ reveals \in [Batches -> Nat]
  /\ overlapped \subseteq Batches
  /\ disturbed \subseteq Batches
  /\ faults \in Nat

\* A COMMIT lets the notes of its batch in once, whatever is delivered again,
\* fails or is lost in a crash: the REVEAL that follows it takes it away.  Only
\* two REVEALs handled at the same time can share one.
OneCreditPerCommit == \A b \in Batches : wallet[b] > commits[b] => b \in overlapped

\* The verdict of a payment is true: the sender believes in a transfer only if
\* the receiver has the notes.  A NACK is wrong only if the REVEAL was handled
\* more than once: the retry that succeeds after a failure, or the replay that
\* fails after a success.
VerdictIsTrue ==
  \A b \in Batches :
    /\ verdict[b] = "done" => wallet[b] > 0
    /\ verdict[b] = "nack" /\ reveals[b] <= 1 => wallet[b] = 0

\* A wait that reaches its deadline does not lose the answer that came in:
\* it reports "no ACK" only if none was handled, or if a second ACK or a
\* pruning took the entry away; it reports "unknown" only if no DONE waits.
TimeoutLosesNothing ==
  [][\A b \in Batches :
       verdict'[b] # verdict[b] =>
         /\ verdict'[b] = "noack" => acks[b] # 1 \/ b \in disturbed
         /\ verdict'[b] = "unknown" => confirmed[b] = None]_vars

\* Every payment comes to an end, although notify_one may wake the wait of
\* another batch and leave the one whose answer came asleep.
PaymentsEnd == \A b \in Batches : pay[b] # "idle" ~> pay[b] = "ended"
=============================================================================
