------------------------- MODULE EcashTransferProofs -------------------------
(***************************************************************************)
(* Proofs about EcashTransfer, for every set of batches and of handler     *)
(* tasks and every bound on copies and faults.                             *)
(*                                                                         *)
(* None of the properties is inductive.  What lets the notes of a batch in *)
(* once per COMMIT is that the pending commit is gone, or about to go, as  *)
(* soon as they are in the wallet, and that a handler which has looked it  *)
(* up stands for a COMMIT not used yet (CreditGuarded).                    *)
(***************************************************************************)
EXTENDS EcashTransfer, SequenceTheorems, TLAPS

Commit(b) == [type |-> "commit", batch |-> b]
Ack(b) == [type |-> "ack", batch |-> b]
Reveal(b) == [type |-> "reveal", batch |-> b]
Done(b, v) == [type |-> "done", batch |-> b, status |-> v]

WaitingForAck == {"lookAck", "awaitAck", "sleepAck"}
PastReveal == {"lookDone", "awaitDone", "sleepDone", "ended"}

\* No payment waits twice on one Notify.
NoWaiterTwice ==
  \A n \in Notifies : \A i, j \in 1 .. Len(queue[n]) : queue[n][i] = queue[n][j] => i = j

\* A handler that is running works on a batch.
TasksBusy == \A t \in Tasks : tpc[t] # "idle" => tbatch[t] \in Batches

\* A payment that has not started has no entry in the pending map.
NotStarted == \A b \in Batches : pay[b] = "idle" => pending[b] = None

BaseInv == TypeOK /\ NoWaiterTwice /\ NotStarted /\ TasksBusy

\* Only a COMMIT that was sent is acknowledged.
CommitsSent ==
  /\ \A t \in Tasks : tpc[t] = "store" => Commit(tbatch[t]) \in net
  /\ \A b \in Batches : Ack(b) \in net => Commit(b) \in net

\* A task about to remove the pending commit has the notes in the wallet.
Credited == \A t \in Tasks : tpc[t] = "remove" => wallet[tbatch[t]] > 0

\* The notes are in the wallet at most once per COMMIT; less than that while a
\* COMMIT is pending, unless its task is about to remove it, and while a task
\* that looked it up has not added them.
CreditGuarded ==
  \A b \in Batches : b \notin overlapped =>
    /\ \A t, u \in Revealing(b) : t = u
    /\ wallet[b] <= commits[b]
    /\ b \in committed =>
         \/ wallet[b] < commits[b]
         \/ \E t \in Tasks : tbatch[t] = b /\ tpc[t] = "remove"
    /\ \A t \in Tasks : tbatch[t] = b /\ tpc[t] = "receive" => wallet[b] < commits[b]

CreditInv == CommitsSent /\ Credited /\ CreditGuarded

\* Where a verdict comes from.
VerdictBacked ==
  \A b \in Batches :
    /\ Done(b, "done") \in net => wallet[b] > 0
    /\ confirmed[b] = "done" \/ verdict[b] = "done" => Done(b, "done") \in net
    /\ confirmed[b] = "nack" \/ verdict[b] = "nack" => Done(b, "nack") \in net

\* With one REVEAL handled there is one task, and it succeeds or fails.
OneOutcome ==
  \A b \in Batches :
    /\ reveals[b] = 0 =>
         Revealing(b) = {} /\ wallet[b] = 0 /\ Done(b, "nack") \notin net
    /\ reveals[b] <= 1 =>
         /\ \A t, u \in Revealing(b) : t = u
         /\ Done(b, "nack") \in net => wallet[b] = 0 /\ Revealing(b) = {}
         /\ wallet[b] > 0 => \A t \in Tasks : tbatch[t] = b => tpc[t] # "receive"

VerdictInv == VerdictBacked /\ OneOutcome

\* The entry of an undisturbed payment says whether its ACK was handled.
AckRecorded ==
  \A b \in Batches :
    /\ Commit(b) \in net => pay[b] # "idle"
    /\ acks[b] > 0 => Commit(b) \in net
    /\ pay[b] \in WaitingForAck /\ b \notin disturbed =>
         /\ acks[b] = 0 => pending[b] = "Committed"
         /\ acks[b] = 1 => pending[b] = "AckReceived"
-----------------------------------------------------------------------------
(* The waiters of a Notify.                                                *)

In(q, c) == \E i \in 1 .. Len(q) : q[i] = c
Distinct(q) == \A i, j \in 1 .. Len(q) : q[i] = q[j] => i = j

\* What joining, waking the oldest and leaving do to the waiters.
LEMMA AppendFacts ==
  ASSUME NEW S, NEW q \in Seq(S), NEW b \in S
  PROVE  /\ Append(q, b) \in Seq(S)
         /\ \A c : In(Append(q, b), c) <=> In(q, c) \/ c = b
         /\ Distinct(q) /\ ~In(q, b) => Distinct(Append(q, b))
<1>1. /\ Append(q, b) \in Seq(S) /\ Len(Append(q, b)) = Len(q) + 1 /\ Len(q) \in Nat
      /\ \A i \in 1 .. Len(q) : Append(q, b)[i] = q[i]
      /\ Append(q, b)[Len(q) + 1] = b
  OBVIOUS
<1> QED BY <1>1 DEF In, Distinct

LEMMA TailFacts ==
  ASSUME NEW S, NEW q \in Seq(S), q # <<>>
  PROVE  /\ Tail(q) \in Seq(S) /\ Head(q) \in S
         /\ In(q, Head(q))
         /\ Distinct(q) => /\ \A c : In(Tail(q), c) <=> In(q, c) /\ c # Head(q)
                           /\ Distinct(Tail(q))
<1>1. /\ Tail(q) \in Seq(S) /\ Len(Tail(q)) = Len(q) - 1 /\ Len(q) \in Nat /\ Len(q) > 0
      /\ Head(q) = q[1] /\ Head(q) \in S
      /\ \A i \in 1 .. Len(q) - 1 : Tail(q)[i] = q[i + 1]
  OBVIOUS
<1>2. ASSUME Distinct(q), NEW c, In(q, c), c # Head(q)
      PROVE  In(Tail(q), c)
  <2> PICK i \in 1 .. Len(q) : q[i] = c BY <1>2 DEF In
  <2>1. i - 1 \in 1 .. Len(Tail(q)) /\ Tail(q)[i - 1] = c BY <1>1, <1>2
  <2> QED BY <2>1 DEF In
<1>3. ASSUME Distinct(q), NEW c, In(Tail(q), c)
      PROVE  In(q, c) /\ c # Head(q)
  <2> PICK i \in 1 .. Len(Tail(q)) : Tail(q)[i] = c BY <1>3 DEF In
  <2>1. i + 1 \in 1 .. Len(q) /\ q[i + 1] = c /\ 1 \in 1 .. Len(q) BY <1>1
  <2> QED BY <1>1, <1>3, <2>1 DEF In, Distinct
<1>4. Distinct(q) => Distinct(Tail(q))
  BY <1>1 DEF Distinct
<1>5. In(q, Head(q)) BY <1>1 DEF In
<1> QED BY <1>1, <1>2, <1>3, <1>4, <1>5

LEMMA WithoutFacts ==
  ASSUME NEW S, NEW q \in Seq(S), NEW b, In(q, b), Distinct(q)
  PROVE  /\ Without(q, b) \in Seq(S)
         /\ \A c : In(Without(q, b), c) <=> In(q, c) /\ c # b
         /\ Distinct(Without(q, b))
<1> DEFINE i == CHOOSE j \in 1 .. Len(q) : q[j] = b
           w == SubSeq(q, 1, i - 1) \o SubSeq(q, i + 1, Len(q))
<1>1. i \in 1 .. Len(q) /\ q[i] = b BY DEF In
<1>2. Without(q, b) = w BY DEF Without
<1> HIDE DEF i
<1>3. Len(q) \in Nat /\ i \in Nat BY <1>1
<1>4. /\ SubSeq(q, 1, i - 1) \in Seq(S) /\ Len(SubSeq(q, 1, i - 1)) = i - 1
      /\ \A j \in 1 .. i - 1 : SubSeq(q, 1, i - 1)[j] = q[j]
  BY <1>1, <1>3, SubSeqProperties
<1>5. /\ SubSeq(q, i + 1, Len(q)) \in Seq(S) /\ Len(SubSeq(q, i + 1, Len(q))) = Len(q) - i
      /\ \A j \in 1 .. Len(q) - i : SubSeq(q, i + 1, Len(q))[j] = q[i + j]
  BY <1>1, <1>3, SubSeqProperties
<1>6. /\ w \in Seq(S) /\ Len(w) = Len(q) - 1
      /\ \A j \in 1 .. i - 1 : w[j] = q[j]
      /\ \A j \in i .. Len(q) - 1 : w[j] = q[j + 1]
  <2> DEFINE u == SubSeq(q, 1, i - 1)
             v == SubSeq(q, i + 1, Len(q))
  <2>1. /\ u \in Seq(S) /\ Len(u) = i - 1 /\ \A j \in 1 .. i - 1 : u[j] = q[j]
        /\ v \in Seq(S) /\ Len(v) = Len(q) - i /\ \A j \in 1 .. Len(q) - i : v[j] = q[i + j]
    BY <1>4, <1>5
  <2> HIDE DEF u, v
  <2>2. /\ u \o v \in Seq(S) /\ Len(u \o v) = Len(u) + Len(v)
        /\ \A j \in 1 .. Len(u) + Len(v) :
             (u \o v)[j] = IF j <= Len(u) THEN u[j] ELSE v[j - Len(u)]
    BY <2>1, ConcatProperties
  <2>3. \A j \in 1 .. i - 1 : (u \o v)[j] = q[j]
    BY <1>1, <1>3, <2>1, <2>2
  <2>4. ASSUME NEW j \in i .. Len(q) - 1
        PROVE  (u \o v)[j] = q[j + 1]
    <3>1. j - (i - 1) \in 1 .. Len(q) - i /\ j \in 1 .. Len(u) + Len(v) /\ ~(j <= Len(u))
      BY <1>1, <1>3, <2>1
    <3>2. (u \o v)[j] = v[j - (i - 1)] BY <3>1, <2>1, <2>2
    <3>3. v[j - (i - 1)] = q[i + (j - (i - 1))] BY <3>1, <2>1
    <3>4. i + (j - (i - 1)) = j + 1 BY <1>3
    <3> QED BY <3>2, <3>3, <3>4
  <2>5. Len(u \o v) = Len(q) - 1 BY <1>1, <1>3, <2>1, <2>2
  <2>6. w = u \o v BY DEF u, v
  <2> QED BY <2>2, <2>3, <2>4, <2>5, <2>6
<1> HIDE DEF w
<1>7. ASSUME NEW c, In(q, c), c # b
      PROVE  In(w, c)
  <2> PICK j \in 1 .. Len(q) : q[j] = c BY <1>7 DEF In
  <2>1. j # i BY <1>1, <1>7
  <2>2. CASE j < i
    <3>1. j \in 1 .. Len(w) /\ w[j] = c BY <1>1, <1>3, <1>6, <2>2
    <3> QED BY <3>1 DEF In
  <2>3. CASE j > i
    <3>1. j - 1 \in 1 .. Len(w) /\ w[j - 1] = c BY <1>1, <1>3, <1>6, <2>3
    <3> QED BY <3>1 DEF In
  <2> QED BY <2>1, <2>2, <2>3, <1>3
<1>8. ASSUME NEW c, In(w, c)
      PROVE  In(q, c) /\ c # b
  <2> PICK j \in 1 .. Len(w) : w[j] = c BY <1>8 DEF In
  <2>1. \E l \in 1 .. Len(q) : q[l] = c /\ l # i
    <3>1. CASE j < i
      <4>1. j \in 1 .. Len(q) /\ q[j] = c /\ j # i BY <1>1, <1>3, <1>6, <3>1
      <4> QED BY <4>1
    <3>2. CASE ~(j < i)
      <4>1. j + 1 \in 1 .. Len(q) /\ q[j + 1] = c /\ j + 1 # i BY <1>1, <1>3, <1>6, <3>2
      <4> QED BY <4>1
    <3> QED BY <3>1, <3>2
  <2> QED BY <1>1, <2>1 DEF In, Distinct
<1>9. Distinct(w)
  <2> DEFINE at(j) == IF j < i THEN j ELSE j + 1
  <2>1. \A j \in 1 .. Len(w) : at(j) \in 1 .. Len(q) /\ w[j] = q[at(j)]
    BY <1>1, <1>3, <1>6
  <2>2. \A j, l \in 1 .. Len(w) : at(j) = at(l) => j = l
    BY <1>1, <1>3, <1>6
  <2> QED BY <2>1, <2>2 DEF Distinct
<1> QED BY <1>2, <1>6, <1>7, <1>8, <1>9

PayStates == {"idle", "lookAck", "awaitAck", "sleepAck", "lookDone", "awaitDone", "sleepDone",
              "ended"}

\* A payment is among the waiters exactly while it sleeps, and once.
Waiters ==
  /\ pay \in [Batches -> PayStates]
  /\ queue \in [Notifies -> Seq(Batches)]
  /\ permit \in [Notifies -> BOOLEAN]
  /\ \A n \in Notifies, b \in Batches : pay[b] = Asleep(n) <=> In(queue[n], b)
  /\ \A n \in Notifies : Distinct(queue[n])

LEMMA WaitersDef == TypeOK /\ NoWaiterTwice => Waiters
BY DEF TypeOK, NoWaiterTwice, Waiters, PayStates, In, Distinct

\* notify_one wakes at most one payment, which was asleep on that Notify.
LEMMA NotifyFacts ==
  ASSUME Waiters, NEW n \in Notifies, NotifyOne(n)
  PROVE  /\ Waiters'
         /\ \A b \in Batches : \/ pay'[b] = pay[b]
                               \/ pay[b] = Asleep(n) /\ pay'[b] = Looking(n)
<1>1. CASE queue[n] = <<>>
  <2>1. UNCHANGED <<queue, pay>> /\ permit' = [permit EXCEPT ![n] = TRUE]
    BY <1>1 DEF NotifyOne
  <2> QED BY <2>1 DEF Waiters
<1>2. CASE queue[n] # <<>>
  <2> DEFINE h == Head(queue[n])
  <2>1. queue[n] \in Seq(Batches) /\ Distinct(queue[n]) BY DEF Waiters
  <2>2. /\ Tail(queue[n]) \in Seq(Batches) /\ h \in Batches /\ In(queue[n], h)
        /\ \A c : In(Tail(queue[n]), c) <=> In(queue[n], c) /\ c # h
        /\ Distinct(Tail(queue[n]))
    BY <1>2, <2>1, TailFacts
  <2> HIDE DEF h
  <2>3. pay[h] = Asleep(n) BY <2>2 DEF Waiters
  <2>4. /\ queue' = [queue EXCEPT ![n] = Tail(queue[n])]
        /\ pay' = [pay EXCEPT ![h] = Looking(n)]
        /\ permit' = permit
    BY <1>2 DEF NotifyOne, h
  <2>5. \A m \in Notifies : Looking(n) # Asleep(m) /\ Looking(n) \in PayStates
                             /\ (Asleep(m) = Asleep(n) => m = n)
    BY DEF Notifies, Looking, Asleep, PayStates
  <2>6. \A b \in Batches : pay'[b] = IF b = h THEN Looking(n) ELSE pay[b]
    BY <2>2, <2>4 DEF Waiters
  <2>7. \A m \in Notifies : queue'[m] = IF m = n THEN Tail(queue[n]) ELSE queue[m]
    BY <2>4 DEF Waiters
  <2>8. \A m \in Notifies, b \in Batches : pay'[b] = Asleep(m) <=> In(queue'[m], b)
    <3> TAKE m \in Notifies, b \in Batches
    <3>1. CASE b = h
      BY <2>2, <2>3, <2>5, <2>6, <2>7, <3>1 DEF Waiters
    <3>2. CASE b # h
      BY <2>2, <2>6, <2>7, <3>2 DEF Waiters
    <3> QED BY <3>1, <3>2
  <2>9. \A m \in Notifies : Distinct(queue'[m])
    BY <2>2, <2>7 DEF Waiters
  <2>10. pay' \in [Batches -> PayStates] /\ queue' \in [Notifies -> Seq(Batches)]
    BY <2>2, <2>4, <2>5 DEF Waiters
  <2>11. Waiters' BY <2>4, <2>8, <2>9, <2>10 DEF Waiters
  <2> QED BY <2>3, <2>6, <2>11
<1> QED BY <1>1, <1>2

\* notified().await takes the permit or puts the payment among the waiters.
LEMMA AwaitFacts ==
  ASSUME Waiters, NEW n \in Notifies, NEW b \in Batches, AwaitNotified(n, b)
  PROVE  /\ Waiters'
         /\ \A c \in Batches : c # b => pay'[c] = pay[c]
         /\ pay[b] = Awaiting(n) /\ pay'[b] \in {Looking(n), Asleep(n)}
<1>1. \A m \in Notifies : /\ Looking(n) # Asleep(m) /\ Looking(n) \in PayStates
                          /\ Awaiting(n) # Asleep(m) /\ Asleep(n) \in PayStates
                          /\ (Asleep(m) = Asleep(n) => m = n)
  BY DEF Notifies, Looking, Asleep, Awaiting, PayStates
<1>2. pay[b] = Awaiting(n) BY DEF AwaitNotified
<1>3. CASE permit[n]
  <2>1. /\ permit' = [permit EXCEPT ![n] = FALSE]
        /\ pay' = [pay EXCEPT ![b] = Looking(n)]
        /\ queue' = queue
    BY <1>3 DEF AwaitNotified
  <2> QED BY <1>1, <1>2, <2>1 DEF Waiters
<1>4. CASE ~permit[n]
  <2>1. /\ queue' = [queue EXCEPT ![n] = Append(queue[n], b)]
        /\ pay' = [pay EXCEPT ![b] = Asleep(n)]
        /\ permit' = permit
    BY <1>4 DEF AwaitNotified
  <2>2. queue[n] \in Seq(Batches) /\ Distinct(queue[n]) /\ ~In(queue[n], b)
    BY <1>1, <1>2 DEF Waiters
  <2>3. /\ Append(queue[n], b) \in Seq(Batches)
        /\ \A c : In(Append(queue[n], b), c) <=> In(queue[n], c) \/ c = b
        /\ Distinct(Append(queue[n], b))
    BY <2>2, AppendFacts
  <2>4. \A c \in Batches : pay'[c] = IF c = b THEN Asleep(n) ELSE pay[c]
    BY <2>1 DEF Waiters
  <2>5. \A m \in Notifies : queue'[m] = IF m = n THEN Append(queue[n], b) ELSE queue[m]
    BY <2>1 DEF Waiters
  <2>6. \A m \in Notifies, c \in Batches : pay'[c] = Asleep(m) <=> In(queue'[m], c)
    BY <1>1, <1>2, <2>3, <2>4, <2>5 DEF Waiters
  <2>7. \A m \in Notifies : Distinct(queue'[m])
    BY <2>3, <2>5 DEF Waiters
  <2>8. pay' \in [Batches -> PayStates] /\ queue' \in [Notifies -> Seq(Batches)]
    BY <1>1, <2>1, <2>3 DEF Waiters
  <2> QED BY <1>2, <2>1, <2>4, <2>6, <2>7, <2>8 DEF Waiters
<1> QED BY <1>3, <1>4 DEF Waiters

\* A wait that reaches its deadline leaves the waiters it is among.
LEMMA LeaveFacts ==
  ASSUME Waiters, NEW n \in Notifies, NEW b \in Batches, pay[b] = Asleep(n), LeaveQueue(n, b),
         NEW p \in {"lookDone", "ended"}, pay' = [pay EXCEPT ![b] = p], permit' = permit
  PROVE  Waiters'
<1>1. \A m \in Notifies : p # Asleep(m) /\ p \in PayStates /\ (Asleep(m) = Asleep(n) => m = n)
  BY DEF Notifies, Asleep, PayStates
<1>2. queue[n] \in Seq(Batches) /\ Distinct(queue[n]) /\ In(queue[n], b)
  BY DEF Waiters
<1>3. /\ Without(queue[n], b) \in Seq(Batches)
      /\ \A c : In(Without(queue[n], b), c) <=> In(queue[n], c) /\ c # b
      /\ Distinct(Without(queue[n], b))
  BY <1>2, WithoutFacts
<1>4. \A c \in Batches : pay'[c] = IF c = b THEN p ELSE pay[c]
  BY DEF Waiters
<1>5. \A m \in Notifies : queue'[m] = IF m = n THEN Without(queue[n], b) ELSE queue[m]
  BY DEF Waiters, LeaveQueue
<1>6. \A m \in Notifies, c \in Batches : pay'[c] = Asleep(m) <=> In(queue'[m], c)
  BY <1>1, <1>3, <1>4, <1>5 DEF Waiters
<1>7. \A m \in Notifies : Distinct(queue'[m])
  BY <1>3, <1>5 DEF Waiters
<1>8. pay' \in [Batches -> PayStates] /\ queue' \in [Notifies -> Seq(Batches)]
  BY <1>1, <1>3 DEF Waiters, LeaveQueue
<1> QED BY <1>6, <1>7, <1>8 DEF Waiters
-----------------------------------------------------------------------------
(* The types, and how the payments move.                                   *)

\* Steps in which no payment moves.
LEMMA ReceiverLeavesPayments ==
  ASSUME NEW t \in Tasks, GenerateKey(t) \/ LookUpCommit(t) \/ ReceiverStep(t)
  PROVE  UNCHANGED senderVars
BY DEF GenerateKey, LookUpCommit, ReceiverStep, StoreCommit, ReceiveBatch, ReceiveFails, FinishReveal,
       senderVars

LEMMA FaultsLeavePayments ==
  ASSUME (\E S \in SUBSET Batches \ {{}} : PruneSender(S) \/ PruneReceiver(S)) \/ ReceiverCrash
  PROVE  UNCHANGED <<pay, queue, permit, confirmed, verdict, acks, dones, wallet, commits,
                     reveals, overlapped, net>>
BY DEF PruneSender, PruneReceiver, ReceiverCrash, senderVars, receiverVars

\* A payment waits for its ACK, then for its DONE, and never goes back.
PaymentMoves ==
  \A b \in Batches :
    \/ pay'[b] = pay[b]
    \/ pay[b] = "idle" /\ pay'[b] \in WaitingForAck
    \/ pay[b] \in WaitingForAck /\ pay'[b] \in WaitingForAck \cup PastReveal
    \/ pay[b] \in PastReveal /\ pay'[b] \in PastReveal

LEMMA NextWaiters ==
  ASSUME Waiters, [Next]_vars
  PROVE  Waiters' /\ PaymentMoves
<1> USE DEF WaitingForAck, PastReveal, PaymentMoves
<1>1. CASE UNCHANGED <<pay, queue, permit>>
  BY <1>1 DEF Waiters
<1>2. ASSUME NEW b \in Batches, NEW p \in PayStates, pay' = [pay EXCEPT ![b] = p],
             UNCHANGED <<queue, permit>>, pay[b] \notin {"sleepAck", "sleepDone"},
             p \notin {"sleepAck", "sleepDone"}
      PROVE  Waiters'
  BY <1>2 DEF Waiters, Asleep
<1>3. ASSUME NEW b \in Batches, StartPayment(b) PROVE Waiters' /\ PaymentMoves
  <2>1. pay[b] = "idle" /\ pay' = [pay EXCEPT ![b] = "lookAck"] /\ UNCHANGED <<queue, permit>>
    BY <1>3 DEF StartPayment
  <2> QED BY <1>2, <2>1 DEF Waiters, PayStates
<1>4. ASSUME NEW b \in Batches, LookAck(b) PROVE Waiters' /\ PaymentMoves
  <2>1. PICK p \in {"lookDone", "awaitAck"} : pay' = [pay EXCEPT ![b] = p]
    BY <1>4 DEF LookAck, TakeAck
  <2>2. pay[b] = "lookAck" /\ UNCHANGED <<queue, permit>>
    BY <1>4 DEF LookAck
  <2> QED BY <1>2, <2>1, <2>2 DEF Waiters, PayStates
<1>5. ASSUME NEW b \in Batches, LookDone(b) PROVE Waiters' /\ PaymentMoves
  <2>1. PICK p \in {"ended", "awaitDone"} : pay' = [pay EXCEPT ![b] = p]
    BY <1>5 DEF LookDone, TakeDone, End
  <2>2. pay[b] = "lookDone" /\ UNCHANGED <<queue, permit>>
    BY <1>5 DEF LookDone
  <2> QED BY <1>2, <2>1, <2>2 DEF Waiters, PayStates
<1>6. ASSUME NEW b \in Batches, AckTimeout(b) PROVE Waiters' /\ PaymentMoves
  <2>1. PICK p \in {"lookDone", "ended"} : pay' = [pay EXCEPT ![b] = p]
    BY <1>6 DEF AckTimeout, TakeAck, End
  <2>2. pay[b] = "sleepAck" /\ LeaveQueue("ack", b) /\ permit' = permit
    BY <1>6 DEF AckTimeout
  <2>3. "ack" \in Notifies /\ Asleep("ack") = "sleepAck" BY DEF Notifies, Asleep
  <2>4. Waiters' BY <2>1, <2>2, <2>3, LeaveFacts
  <2> QED BY <2>1, <2>2, <2>4 DEF Waiters
<1>7. ASSUME NEW b \in Batches, DoneTimeout(b) PROVE Waiters' /\ PaymentMoves
  <2>1. pay' = [pay EXCEPT ![b] = "ended"]
    BY <1>7 DEF DoneTimeout, TakeDone, End
  <2>2. pay[b] = "sleepDone" /\ LeaveQueue("done", b) /\ permit' = permit
    BY <1>7 DEF DoneTimeout
  <2>3. "done" \in Notifies /\ Asleep("done") = "sleepDone" BY DEF Notifies, Asleep
  <2>4. Waiters' BY <2>1, <2>2, <2>3, LeaveFacts
  <2> QED BY <2>1, <2>2, <2>4 DEF Waiters
<1>8. ASSUME NEW b \in Batches, NEW n \in Notifies, AwaitNotified(n, b)
      PROVE  Waiters' /\ PaymentMoves
  <2>1. /\ Waiters' /\ \A c \in Batches : c # b => pay'[c] = pay[c]
        /\ pay[b] = Awaiting(n) /\ pay'[b] \in {Looking(n), Asleep(n)}
    BY <1>8, AwaitFacts
  <2> QED BY <2>1 DEF Awaiting, Looking, Asleep, Notifies
<1>9. ASSUME NEW n \in Notifies, NotifyOne(n) PROVE Waiters' /\ PaymentMoves
  <2>1. /\ Waiters'
        /\ \A b \in Batches : \/ pay'[b] = pay[b]
                              \/ pay[b] = Asleep(n) /\ pay'[b] = Looking(n)
    BY <1>9, NotifyFacts
  <2> QED BY <2>1 DEF Looking, Asleep, Notifies
<1>10. ASSUME NEW b \in Batches, HandleAck(b) \/ HandleDone(b) PROVE Waiters' /\ PaymentMoves
  <2>1. UNCHANGED <<pay, queue, permit>> \/ NotifyOne("ack") \/ NotifyOne("done")
    BY <1>10 DEF HandleAck, HandleDone
  <2>2. "ack" \in Notifies /\ "done" \in Notifies BY DEF Notifies
  <2> QED BY <1>1, <1>9, <2>1, <2>2
<1>11. CASE UNCHANGED vars
  BY <1>1, <1>11 DEF vars, senderVars
<1>12. CASE \E t \in Tasks : GenerateKey(t) \/ LookUpCommit(t) \/ ReceiverStep(t)
  BY <1>1, <1>12, ReceiverLeavesPayments DEF senderVars
<1>13. CASE (\E S \in SUBSET Batches \ {{}} : PruneSender(S) \/ PruneReceiver(S)) \/ ReceiverCrash
  BY <1>1, <1>13, FaultsLeavePayments
<1> QED
  BY <1>3, <1>4, <1>5, <1>6, <1>7, <1>8, <1>10, <1>11, <1>12, <1>13 DEF Next, SenderStep

SenderTypes ==
  /\ pending \in [Batches -> {None, "Committed", "AckReceived"}]
  /\ confirmed \in [Batches -> {None, "done", "nack"}]
  /\ verdict \in [Batches -> {None, "done", "nack", "noack", "unknown"}]
  /\ acks \in [Batches -> Nat]
  /\ dones \in [Batches -> Nat]
  /\ disturbed \subseteq Batches
  /\ NotStarted

TaskTypes ==
  /\ tpc \in [Tasks -> {"idle", "store", "receive", "remove"}]
  /\ tbatch \in [Tasks -> Batches \cup {None}]
  /\ TasksBusy

ReceiverTypes ==
  /\ committed \subseteq Batches
  /\ wallet \in [Batches -> Nat]
  /\ commits \in [Batches -> Nat]
  /\ reveals \in [Batches -> Nat]
  /\ overlapped \subseteq Batches

LEMMA BaseParts ==
  BaseInv <=> /\ Waiters /\ SenderTypes /\ TaskTypes /\ ReceiverTypes
              /\ net \subseteq Message /\ faults \in Nat
BY DEF BaseInv, TypeOK, NoWaiterTwice, Waiters, SenderTypes, TaskTypes, ReceiverTypes, PayStates,
       In, Distinct

\* Every message is one of the four kinds.
LEMMA MessageForms ==
  ASSUME net \subseteq Message, NEW m \in net
  PROVE  /\ m.batch \in Batches
         /\ m.type = "commit" => m = Commit(m.batch)
         /\ m.type = "ack" => m = Ack(m.batch)
         /\ m.type = "reveal" => m = Reveal(m.batch)
         /\ m.type = "done" => m.status \in {"done", "nack"} /\ m = Done(m.batch, m.status)
BY DEF Message, Commit, Ack, Reveal, Done

LEMMA MessagesAre ==
  /\ \A b \in Batches : Commit(b) \in Message /\ Ack(b) \in Message /\ Reveal(b) \in Message
  /\ \A b \in Batches, v \in {"done", "nack"} : Done(b, v) \in Message
BY DEF Message, Commit, Ack, Reveal, Done

LEMMA InitBase == Init => BaseInv
<1> SUFFICES ASSUME Init PROVE BaseInv OBVIOUS
<1>1. <<>> \in Seq(Batches) /\ \A b : ~In(<<>>, b) BY DEF In
<1>2. Waiters BY <1>1 DEF Init, Waiters, PayStates, Asleep, Distinct
<1>3. SenderTypes BY EcashAssumption DEF Init, SenderTypes, NotStarted
<1>4. TaskTypes BY EcashAssumption DEF Init, TaskTypes, TasksBusy
<1>5. ReceiverTypes BY EcashAssumption DEF Init, ReceiverTypes
<1>6. net \subseteq Message /\ faults \in Nat BY DEF Init
<1> QED BY <1>2, <1>3, <1>4, <1>5, <1>6, BaseParts

\* The steps of the sender keep the types; what each sends is a message.
LEMMA SenderBase ==
  ASSUME BaseInv, PaymentMoves, NEW b \in Batches,
         StartPayment(b) \/ SenderStep(b) \/ HandleAck(b) \/ HandleDone(b)
  PROVE  SenderTypes' /\ UNCHANGED <<receiverVars, faults>> /\ net' \subseteq Message
<1> USE EcashAssumption DEF SenderTypes, NotStarted
<1>0. /\ SenderTypes /\ net \subseteq Message
      /\ \A c \in Batches : pay'[c] = "idle" => pay[c] = "idle"
  BY BaseParts DEF PaymentMoves, PastReveal, WaitingForAck
<1>1. CASE StartPayment(b)
  <2>1. Commit(b) \in Message BY MessagesAre
  <2>2. net' \subseteq Message BY <1>0, <1>1, <2>1 DEF StartPayment, Send, Commit
  <2>3. pay[b] = "idle" /\ pay'[b] # "idle"
    BY <1>0, <1>1, BaseParts DEF StartPayment, Waiters
  <2> QED BY <1>0, <1>1, <2>2, <2>3 DEF StartPayment
<1>2. ASSUME TakeAck(b), UNCHANGED <<confirmed, acks, dones, receiverVars, disturbed, faults>>
      PROVE  SenderTypes' /\ UNCHANGED <<receiverVars, faults>> /\ net' \subseteq Message
  <2>2. Reveal(b) \in Message BY MessagesAre
  <2>3. net' \subseteq Message BY <1>0, <1>2, <2>2 DEF TakeAck, Send, Reveal
  <2> QED BY <1>0, <1>2, <2>3 DEF TakeAck
<1>3. CASE LookAck(b)
  <2>1. CASE TakeAck(b) BY <1>2, <1>3, <2>1 DEF LookAck
  <2>2. CASE ~TakeAck(b) BY <1>0, <1>3, <2>2 DEF LookAck
  <2> QED BY <2>1, <2>2
<1>4. CASE AckTimeout(b)
  <2>1. CASE TakeAck(b) BY <1>2, <1>4, <2>1 DEF AckTimeout
  <2>2. CASE ~TakeAck(b) BY <1>0, <1>4, <2>2 DEF AckTimeout, End
  <2> QED BY <2>1, <2>2
<1>5. CASE LookDone(b) \/ DoneTimeout(b)
  BY <1>0, <1>5 DEF LookDone, DoneTimeout, TakeDone, End
<1>6. CASE \E n \in Notifies : AwaitNotified(n, b)
  BY <1>0, <1>6 DEF AwaitNotified
<1>7. CASE HandleAck(b)
  BY <1>0, <1>7 DEF HandleAck
<1>8. CASE HandleDone(b)
  <2> PICK m \in net : /\ m.type = "done" /\ m.batch = b
                       /\ dones' = [dones EXCEPT ![b] = @ + 1]
                       /\ confirmed' = [confirmed EXCEPT ![b] = m.status]
    BY <1>8 DEF HandleDone
  <2>1. m.status \in {"done", "nack"} BY <1>0, MessageForms
  <2> QED BY <1>0, <1>8, <2>1 DEF HandleDone
<1> QED BY <1>1, <1>3, <1>4, <1>5, <1>6, <1>7, <1>8 DEF SenderStep

\* The steps of the receiver's handlers keep the types.
LEMMA ReceiverBase ==
  ASSUME BaseInv, NEW t \in Tasks, GenerateKey(t) \/ LookUpCommit(t) \/ ReceiverStep(t)
  PROVE  /\ TaskTypes' /\ ReceiverTypes' /\ net' \subseteq Message /\ faults' \in Nat
         /\ UNCHANGED disturbed
<1> USE EcashAssumption DEF ReceiverTypes
<1>0. TaskTypes /\ ReceiverTypes /\ net \subseteq Message /\ faults \in Nat BY BaseParts
<1>1. CASE GenerateKey(t)
  <2> PICK m \in net : m.type = "commit" /\ tbatch' = [tbatch EXCEPT ![t] = m.batch]
    BY <1>1 DEF GenerateKey
  <2>1. m.batch \in Batches BY <1>0, MessageForms
  <2>2. TaskTypes' BY <1>0, <1>1, <2>1 DEF GenerateKey, TaskTypes, TasksBusy
  <2> QED BY <1>0, <1>1, <2>2 DEF GenerateKey
<1>2. CASE LookUpCommit(t)
  <2> PICK m \in net :
        /\ m.type = "reveal"
        /\ m.batch \in committed
        /\ tbatch' = [tbatch EXCEPT ![t] = m.batch]
        /\ reveals' = [reveals EXCEPT ![m.batch] = @ + 1]
        /\ overlapped' = IF Revealing(m.batch) = {} THEN overlapped
                                                    ELSE overlapped \cup {m.batch}
    BY <1>2 DEF LookUpCommit
  <2>1. m.batch \in Batches BY <1>0, MessageForms
  <2>3. TaskTypes' BY <1>0, <1>2, <2>1 DEF LookUpCommit, TaskTypes, TasksBusy
  <2>4. overlapped' \subseteq Batches BY <1>0, <2>1
  <2> QED BY <1>0, <1>2, <2>1, <2>3, <2>4 DEF LookUpCommit
<1>3. ASSUME Return(t) PROVE TaskTypes'
  BY <1>0, <1>3 DEF Return, TaskTypes, TasksBusy
<1>4. CASE StoreCommit(t)
  <2>1. tbatch[t] \in Batches BY <1>0, <1>4 DEF StoreCommit, TaskTypes, TasksBusy
  <2>2. Ack(tbatch[t]) \in Message BY <2>1, MessagesAre
  <2>3. net' \subseteq Message BY <1>0, <1>4, <2>2 DEF StoreCommit, Send, Ack
  <2> QED BY <1>0, <1>3, <1>4, <2>1, <2>3 DEF StoreCommit
<1>5. CASE ReceiveBatch(t)
  <2>1. tbatch[t] \in Batches BY <1>0, <1>5 DEF ReceiveBatch, TaskTypes, TasksBusy
  <2>2. TaskTypes' BY <1>0, <1>5 DEF ReceiveBatch, TaskTypes, TasksBusy
  <2> QED BY <1>0, <1>5, <2>1, <2>2 DEF ReceiveBatch
<1>6. CASE ReceiveFails(t)
  <2>1. tbatch[t] \in Batches BY <1>0, <1>6 DEF ReceiveFails, TaskTypes, TasksBusy
  <2>2. Done(tbatch[t], "nack") \in Message BY <2>1, MessagesAre
  <2>3. net' \subseteq Message BY <1>0, <1>6, <2>2 DEF ReceiveFails, Send, Done
  <2> QED BY <1>0, <1>3, <1>6, <2>3 DEF ReceiveFails, Fault
<1>7. CASE FinishReveal(t)
  <2>1. tbatch[t] \in Batches BY <1>0, <1>7 DEF FinishReveal, TaskTypes, TasksBusy
  <2>2. Done(tbatch[t], "done") \in Message BY <2>1, MessagesAre
  <2>3. net' \subseteq Message BY <1>0, <1>7, <2>2 DEF FinishReveal, Send, Done
  <2> QED BY <1>0, <1>3, <1>7, <2>1, <2>3 DEF FinishReveal
<1> QED BY <1>1, <1>2, <1>4, <1>5, <1>6, <1>7 DEF ReceiverStep

LEMMA NextBase ==
  ASSUME BaseInv, [Next]_vars
  PROVE  BaseInv'
<1>0. /\ Waiters /\ SenderTypes /\ TaskTypes /\ ReceiverTypes
      /\ net \subseteq Message /\ faults \in Nat
  BY BaseParts
<1>1. Waiters' /\ PaymentMoves BY <1>0, NextWaiters
<1>2. /\ SenderTypes' /\ TaskTypes' /\ ReceiverTypes'
      /\ net' \subseteq Message /\ faults' \in Nat
  <2>1. CASE UNCHANGED vars
    BY <1>0, <2>1 DEF vars, senderVars, receiverVars, taskVars, SenderTypes, TaskTypes,
                      ReceiverTypes, TasksBusy, NotStarted
  <2>2. CASE \E b \in Batches : StartPayment(b) \/ SenderStep(b) \/ HandleAck(b) \/ HandleDone(b)
    <3>1. SenderTypes' /\ UNCHANGED <<receiverVars, faults>> /\ net' \subseteq Message
      BY <1>1, <2>2, SenderBase
    <3> QED BY <1>0, <3>1 DEF receiverVars, taskVars, TaskTypes, ReceiverTypes, TasksBusy, NotStarted
  <2>3. CASE \E t \in Tasks : GenerateKey(t) \/ LookUpCommit(t) \/ ReceiverStep(t)
    <3>1. /\ TaskTypes' /\ ReceiverTypes' /\ net' \subseteq Message /\ faults' \in Nat
          /\ UNCHANGED <<senderVars, disturbed>>
      BY <2>3, ReceiverBase, ReceiverLeavesPayments
    <3> QED BY <1>0, <3>1 DEF senderVars, SenderTypes, NotStarted
  <2>4. CASE \E S \in SUBSET Batches \ {{}} : PruneSender(S)
    BY <1>0, <2>4, EcashAssumption
       DEF PruneSender, Fault, receiverVars, taskVars, SenderTypes, TaskTypes, ReceiverTypes,
           TasksBusy, NotStarted
  <2>5. CASE \E S \in SUBSET Batches \ {{}} : PruneReceiver(S)
    BY <1>0, <2>5, EcashAssumption
       DEF PruneReceiver, Fault, senderVars, taskVars, SenderTypes, TaskTypes, ReceiverTypes,
           TasksBusy, NotStarted
  <2>6. CASE ReceiverCrash
    BY <1>0, <2>6, EcashAssumption
       DEF ReceiverCrash, Fault, senderVars, SenderTypes, TaskTypes, ReceiverTypes, TasksBusy, NotStarted
  <2> QED BY <2>1, <2>2, <2>3, <2>4, <2>5, <2>6 DEF Next
<1>3. (Waiters /\ SenderTypes /\ TaskTypes /\ ReceiverTypes
         /\ net \subseteq Message /\ faults \in Nat)'
  BY <1>1, <1>2
<1> QED BY <1>3, BaseParts, PTL

\* Type correctness of both agents' maps, of the waiters and of the messages, for
\* any number of batches, handler tasks and faults.
THEOREM TypeCorrect == Spec => []TypeOK
<1>1. Init => BaseInv BY InitBase
<1>2. BaseInv /\ [Next]_vars => BaseInv' BY NextBase
<1>3. BaseInv => TypeOK BY DEF BaseInv
<1> QED BY <1>1, <1>2, <1>3, PTL DEF Spec
-----------------------------------------------------------------------------
(* The notes of a batch are credited once for each COMMIT.                 *)

LEMMA MessagesDiffer ==
  \A b, c, v, w :
    /\ Commit(b) = Commit(c) <=> b = c
    /\ Ack(b) = Ack(c) <=> b = c
    /\ Done(b, v) = Done(c, w) <=> b = c /\ v = w
    /\ Commit(b) # Ack(c) /\ Commit(b) # Reveal(c) /\ Commit(b) # Done(c, w)
    /\ Ack(b) # Reveal(c) /\ Ack(b) # Done(c, w) /\ Reveal(b) # Done(c, w)
BY DEF Commit, Ack, Reveal, Done

\* What the sender's steps send: a COMMIT, a REVEAL or nothing.
LEMMA SenderSummary ==
  ASSUME BaseInv, [Next]_vars, NEW b \in Batches,
         StartPayment(b) \/ SenderStep(b) \/ HandleAck(b) \/ HandleDone(b)
  PROVE  /\ UNCHANGED receiverVars
         /\ net' = net \/ net' = net \cup {Commit(b)} \/ net' = net \cup {Reveal(b)}
<1>0. UNCHANGED receiverVars
  BY NextWaiters, SenderBase, BaseParts
<1>1. net' = net \/ net' = net \cup {Commit(b)} \/ net' = net \cup {Reveal(b)}
  BY DEF StartPayment, SenderStep, LookAck, AckTimeout, LookDone, DoneTimeout, AwaitNotified,
         HandleAck, HandleDone, TakeAck, Send, Commit, Reveal
<1> QED BY <1>0, <1>1

\* The steps of the sender change nothing at the receiver.
LEMMA SenderCredit ==
  ASSUME BaseInv, CreditInv, [Next]_vars, NEW b \in Batches,
         StartPayment(b) \/ SenderStep(b) \/ HandleAck(b) \/ HandleDone(b)
  PROVE  CreditInv'
<1> USE DEF CreditInv
<1>1. UNCHANGED <<committed, tpc, tbatch, wallet, commits, overlapped>>
  BY SenderSummary DEF receiverVars, taskVars
<1>2. \A c : /\ Commit(c) \in net => Commit(c) \in net'
             /\ Ack(c) \in net' => Ack(c) \in net
  <2>1. net' = net \/ net' = net \cup {Commit(b)} \/ net' = net \cup {Reveal(b)}
    BY SenderSummary
  <2> QED BY <2>1, MessagesDiffer
<1>3. CommitsSent' BY <1>1, <1>2 DEF CommitsSent
<1>4. Credited' BY <1>1 DEF Credited
<1>5. CreditGuarded' BY <1>1 DEF CreditGuarded, Revealing
<1> QED BY <1>3, <1>4, <1>5

\* The steps of the handler of batch-commit: a stored COMMIT is one more.
LEMMA CommitCredit ==
  ASSUME BaseInv, CreditInv, NEW t \in Tasks, GenerateKey(t) \/ StoreCommit(t)
  PROVE  CreditInv'
<1> USE DEF CreditInv
<1>0. TaskTypes /\ ReceiverTypes /\ net \subseteq Message
  BY BaseParts
<1>1. /\ UNCHANGED <<wallet, overlapped>>
      /\ \A u \in Tasks : u # t => tpc'[u] = tpc[u] /\ tbatch'[u] = tbatch[u]
      /\ tpc[t] \in {"idle", "store"} /\ tpc'[t] \in {"idle", "store"}
  BY <1>0 DEF GenerateKey, Spare, StoreCommit, Return, TaskTypes
<1>2. \A u \in Tasks : tpc[u] \in {"receive", "remove"} \/ tpc'[u] \in {"receive", "remove"} =>
        tpc'[u] = tpc[u] /\ tbatch'[u] = tbatch[u]
  BY <1>1
<1>3. Credited' BY <1>1, <1>2 DEF Credited
<1>4. \A c : Revealing(c)' = Revealing(c) BY <1>2 DEF Revealing
<1>5. CASE GenerateKey(t)
  <2> PICK m \in net : m.type = "commit" /\ tbatch' = [tbatch EXCEPT ![t] = m.batch]
    BY <1>5 DEF GenerateKey
  <2>1. m.batch \in Batches /\ m = Commit(m.batch) BY <1>0, MessageForms
  <2>2. UNCHANGED <<net, committed, commits>> /\ tbatch'[t] = m.batch
    BY <1>0, <1>5 DEF GenerateKey, TaskTypes
  <2>3. CommitsSent' BY <1>1, <2>1, <2>2 DEF CommitsSent
  <2>4. CreditGuarded' BY <1>1, <1>2, <1>4, <2>2 DEF CreditGuarded
  <2> QED BY <1>3, <2>3, <2>4
<1>6. CASE StoreCommit(t)
  <2> DEFINE b == tbatch[t]
  <2>1. tpc[t] = "store" /\ tpc'[t] = "idle" /\ b \in Batches
    BY <1>0, <1>6 DEF StoreCommit, Return, TaskTypes, TasksBusy
  <2>2. /\ net' = net \cup {Ack(b)} /\ committed' = committed \cup {b}
        /\ commits' = [commits EXCEPT ![b] = @ + 1]
    BY <1>6 DEF StoreCommit, Send, Ack
  <2>3. Commit(b) \in net BY <2>1 DEF CommitsSent
  <2> HIDE DEF b
  <2>4. \A c : /\ Ack(c) \in net' <=> Ack(c) \in net \/ c = b
               /\ Commit(c) \in net' <=> Commit(c) \in net
    BY <2>2, MessagesDiffer
  <2>5. CommitsSent' BY <1>1, <2>1, <2>3, <2>4 DEF CommitsSent
  <2>6. \A c \in Batches : /\ commits'[c] = IF c = b THEN commits[c] + 1 ELSE commits[c]
                           /\ commits[c] \in Nat /\ wallet[c] \in Nat
    BY <1>0, <2>2 DEF ReceiverTypes
  <2>7. \A c \in Batches : c # b => (c \in committed' <=> c \in committed) BY <2>2
  <2>8. CreditGuarded'
    <3> SUFFICES ASSUME NEW c \in Batches, c \notin overlapped
                 PROVE  /\ \A u, v \in Revealing(c) : u = v
                        /\ wallet[c] <= commits'[c]
                        /\ c \in committed' =>
                             \/ wallet[c] < commits'[c]
                             \/ \E u \in Tasks : tbatch'[u] = c /\ tpc'[u] = "remove"
                        /\ \A u \in Tasks :
                             tbatch'[u] = c /\ tpc'[u] = "receive" => wallet[c] < commits'[c]
      BY <1>1, <1>4 DEF CreditGuarded
    <3>1. CASE c = b BY <2>6, <3>1 DEF CreditGuarded
    <3>2. CASE c # b BY <1>2, <2>6, <2>7, <3>2 DEF CreditGuarded
    <3> QED BY <3>1, <3>2
  <2> QED BY <1>3, <2>5, <2>8
<1> QED BY <1>5, <1>6

\* The steps of the handler of batch-reveal: one that is handled after another
\* finds a COMMIT that has not been used, or none.
LEMMA RevealCredit ==
  ASSUME BaseInv, CreditInv, NEW t \in Tasks,
         LookUpCommit(t) \/ ReceiveBatch(t) \/ ReceiveFails(t) \/ FinishReveal(t)
  PROVE  CreditInv'
<1> USE DEF CreditInv
<1>0. TaskTypes /\ ReceiverTypes /\ net \subseteq Message
  BY BaseParts
<1>1. commits' = commits /\ \A c \in Batches : commits[c] \in Nat /\ wallet[c] \in Nat
  BY <1>0 DEF LookUpCommit, ReceiveBatch, ReceiveFails, FinishReveal, ReceiverTypes
<1>2. /\ \A u \in Tasks : u # t => tpc'[u] = tpc[u] /\ tbatch'[u] = tbatch[u]
      /\ tpc[t] # "store" /\ tpc'[t] # "store"
  BY <1>0 DEF LookUpCommit, Spare, ReceiveBatch, ReceiveFails, FinishReveal, Return, TaskTypes
<1>3. \A c : /\ Ack(c) \in net' <=> Ack(c) \in net
             /\ Commit(c) \in net' <=> Commit(c) \in net
  <2>1. net' = net \/ \E c, v : net' = net \cup {Done(c, v)}
    BY DEF LookUpCommit, ReceiveBatch, ReceiveFails, FinishReveal, Send, Done
  <2> QED BY <2>1, MessagesDiffer
<1>4. CommitsSent' BY <1>2, <1>3 DEF CommitsSent
<1>5. CASE LookUpCommit(t)
  <2> PICK m \in net :
        /\ m.type = "reveal"
        /\ m.batch \in committed
        /\ tbatch' = [tbatch EXCEPT ![t] = m.batch]
        /\ overlapped' = IF Revealing(m.batch) = {} THEN overlapped
                                                    ELSE overlapped \cup {m.batch}
    BY <1>5 DEF LookUpCommit
  <2>1. m.batch \in Batches BY <1>0, MessageForms
  <2>2. /\ UNCHANGED <<committed, wallet>>
        /\ tpc[t] = "idle" /\ tpc'[t] = "receive" /\ tbatch'[t] = m.batch
    BY <1>0, <1>5 DEF LookUpCommit, Spare, TaskTypes
  <2>3. Credited' BY <1>2, <2>2 DEF Credited
  <2>4. CreditGuarded'
    <3> SUFFICES ASSUME NEW b \in Batches, b \notin overlapped'
                 PROVE  /\ \A u, v \in Revealing(b)' : u = v
                        /\ wallet[b] <= commits[b]
                        /\ b \in committed =>
                             \/ wallet[b] < commits[b]
                             \/ \E u \in Tasks : tbatch'[u] = b /\ tpc'[u] = "remove"
                        /\ \A u \in Tasks :
                             tbatch'[u] = b /\ tpc'[u] = "receive" => wallet[b] < commits[b]
      BY <1>1, <2>2 DEF CreditGuarded
    <3>1. b \notin overlapped BY <2>1
    <3>2. CASE b = m.batch
      <4>1. Revealing(b) = {} BY <2>1, <3>2
      <4>2. \A u \in Revealing(b)' : u = t
        BY <1>2, <4>1 DEF Revealing
      <4>3. \A u \in Tasks : ~(tbatch[u] = b /\ tpc[u] \in {"receive", "remove"})
        BY <4>1 DEF Revealing
      <4>4. wallet[b] < commits[b] BY <3>1, <3>2, <4>3 DEF CreditGuarded
      <4> QED BY <3>1, <4>2, <4>4 DEF CreditGuarded
    <3>3. CASE b # m.batch
      <4>1. Revealing(b)' = Revealing(b) BY <1>2, <2>2, <3>3 DEF Revealing
      <4> QED BY <1>2, <2>2, <3>1, <3>3, <4>1 DEF CreditGuarded
    <3> QED BY <3>2, <3>3
  <2> QED BY <1>4, <2>3, <2>4
<1>6. CASE ReceiveBatch(t)
  <2> DEFINE b == tbatch[t]
  <2>1. /\ UNCHANGED <<committed, overlapped, tbatch>>
        /\ tpc[t] = "receive" /\ tpc'[t] = "remove" /\ b \in Batches
    BY <1>0, <1>6 DEF ReceiveBatch, TaskTypes, TasksBusy
  <2>2. wallet'[b] = wallet[b] + 1 /\ \A c \in Batches : c # b => wallet'[c] = wallet[c]
    BY <1>0, <1>6, <2>1 DEF ReceiveBatch, ReceiverTypes
  <2> HIDE DEF b
  <2>3. Credited'
    <3> SUFFICES ASSUME NEW u \in Tasks, tpc'[u] = "remove" PROVE wallet'[tbatch[u]] > 0
      BY <2>1 DEF Credited
    <3>1. tbatch[u] \in Batches BY <1>0, <1>2, <2>1 DEF TaskTypes, TasksBusy, b
    <3>2. u = t \/ wallet[tbatch[u]] > 0 BY <1>2 DEF Credited
    <3> QED BY <1>1, <2>1, <2>2, <3>1, <3>2 DEF b
  <2>4. CreditGuarded'
    <3>1. \A c : Revealing(c)' = Revealing(c) BY <1>2, <2>1 DEF Revealing
    <3>2. ASSUME b \notin overlapped
          PROVE  /\ wallet'[b] <= commits[b]
                 /\ \A u \in Tasks : ~(tbatch[u] = b /\ tpc'[u] = "receive")
      <4>1. wallet[b] < commits[b] BY <2>1, <3>2 DEF CreditGuarded, b
      <4>2. \A u \in Tasks : tbatch[u] = b /\ tpc'[u] = "receive" => u \in Revealing(b) /\ u # t
        BY <1>2, <2>1 DEF Revealing
      <4>3. t \in Revealing(b) BY <2>1 DEF Revealing, b
      <4> QED BY <1>1, <2>1, <2>2, <3>2, <4>1, <4>2, <4>3 DEF CreditGuarded
    <3>3. \E u \in Tasks : tbatch[u] = b /\ tpc'[u] = "remove" BY <2>1 DEF b
    <3>4. \A u \in Tasks : tbatch[u] # b => tpc'[u] = tpc[u] BY <1>2 DEF b
    <3> SUFFICES ASSUME NEW c \in Batches, c \notin overlapped
                 PROVE  /\ \A u, v \in Revealing(c) : u = v
                        /\ wallet'[c] <= commits[c]
                        /\ c \in committed =>
                             \/ wallet'[c] < commits[c]
                             \/ \E u \in Tasks : tbatch[u] = c /\ tpc'[u] = "remove"
                        /\ \A u \in Tasks :
                             tbatch[u] = c /\ tpc'[u] = "receive" => wallet'[c] < commits[c]
      BY <1>1, <2>1, <3>1 DEF CreditGuarded
    <3>5. CASE c = b BY <3>2, <3>3, <3>5 DEF CreditGuarded
    <3>6. CASE c # b BY <2>2, <3>4, <3>6 DEF CreditGuarded
    <3> QED BY <3>5, <3>6
  <2> QED BY <1>4, <2>3, <2>4
<1>7. CASE ReceiveFails(t) \/ FinishReveal(t)
  <2> DEFINE b == tbatch[t]
  <2>1. /\ UNCHANGED <<wallet, overlapped>> /\ tpc'[t] = "idle" /\ b \in Batches
        /\ \/ tpc[t] = "receive" /\ committed' = committed
           \/ tpc[t] = "remove" /\ committed' = committed \ {b}
    BY <1>0, <1>7 DEF ReceiveFails, FinishReveal, Return, TaskTypes, TasksBusy
  <2>2. \A u \in Tasks : tpc'[u] \in {"receive", "remove"} =>
          u # t /\ tpc'[u] = tpc[u] /\ tbatch'[u] = tbatch[u]
    BY <1>2, <2>1
  <2>3. Credited' BY <2>1, <2>2 DEF Credited
  <2>4. CreditGuarded'
    <3>1. \A c : Revealing(c)' \subseteq Revealing(c) BY <2>2 DEF Revealing
    <3> SUFFICES ASSUME NEW c \in Batches, c \notin overlapped, c \in committed',
                        ~(wallet[c] < commits[c])
                 PROVE  \E u \in Tasks : tbatch'[u] = c /\ tpc'[u] = "remove"
      BY <1>1, <2>1, <2>2, <3>1 DEF CreditGuarded
    <3>2. PICK u \in Tasks : tbatch[u] = c /\ tpc[u] = "remove" BY <2>1 DEF CreditGuarded
    <3>3. u # t BY <2>1, <3>2
    <3> QED BY <1>2, <3>2, <3>3
  <2> QED BY <1>4, <2>3, <2>4
<1> QED BY <1>5, <1>6, <1>7

\* Pruning and crashes remove entries, and the tasks that worked on them.
LEMMA FaultCredit ==
  ASSUME BaseInv, CreditInv,
         (\E S \in SUBSET Batches \ {{}} : PruneSender(S) \/ PruneReceiver(S)) \/ ReceiverCrash
  PROVE  CreditInv'
<1> USE DEF CreditInv
<1>1. UNCHANGED <<wallet, commits, overlapped, net>> BY FaultsLeavePayments
<1>2. committed' \subseteq committed
  BY DEF PruneSender, PruneReceiver, ReceiverCrash, receiverVars
<1>3. CASE UNCHANGED taskVars
  <2>1. CommitsSent' BY <1>1, <1>3 DEF CommitsSent, taskVars
  <2>2. Credited' BY <1>1, <1>3 DEF Credited, taskVars
  <2>3. CreditGuarded' BY <1>1, <1>2, <1>3 DEF CreditGuarded, Revealing, taskVars
  <2> QED BY <2>1, <2>2, <2>3
<1>4. CASE ReceiverCrash
  <2>1. committed' = {} /\ \A t \in Tasks : tpc'[t] = "idle" BY <1>4 DEF ReceiverCrash
  <2>2. CommitsSent' BY <1>1, <2>1 DEF CommitsSent
  <2>3. Credited' BY <2>1 DEF Credited
  <2>4. CreditGuarded' BY <1>1, <2>1 DEF CreditGuarded, Revealing
  <2> QED BY <2>2, <2>3, <2>4
<1> QED BY <1>3, <1>4 DEF PruneSender, PruneReceiver, receiverVars

LEMMA NextCredit ==
  ASSUME BaseInv, CreditInv, [Next]_vars
  PROVE  CreditInv'
<1>1. CASE UNCHANGED vars
  BY <1>1 DEF vars, senderVars, receiverVars, taskVars, CreditInv, CommitsSent, Credited,
              CreditGuarded, Revealing
<1> QED BY <1>1, SenderCredit, CommitCredit, RevealCredit, FaultCredit DEF Next, ReceiverStep

LEMMA InitCredit == Init => CreditInv
BY DEF Init, CreditInv, CommitsSent, Credited, CreditGuarded, Revealing

\* The notes of a batch enter the receiver's wallet at most once for each COMMIT
\* the receiver stored, unless two REVEALs of it are handled at the same time:
\* retries, duplicates, failures, prunings and crashes in any order can not
\* credit them again.
THEOREM NotesCreditedOncePerCommit == Spec => []OneCreditPerCommit
<1>1. Init => BaseInv /\ CreditInv BY InitBase, InitCredit
<1>2. BaseInv /\ CreditInv /\ [Next]_vars => BaseInv' /\ CreditInv' BY NextBase, NextCredit
<1>3. BaseInv /\ CreditInv => OneCreditPerCommit
  BY BaseParts DEF CreditInv, CreditGuarded, OneCreditPerCommit, ReceiverTypes
<1> QED BY <1>1, <1>2, <1>3, PTL DEF Spec
-----------------------------------------------------------------------------
(* The verdict of a payment.                                               *)

\* A confirmation comes from a DONE message, and a verdict from a confirmation.
LEMMA SenderVerdict ==
  ASSUME BaseInv, VerdictInv, [Next]_vars, NEW b \in Batches,
         StartPayment(b) \/ SenderStep(b) \/ HandleAck(b) \/ HandleDone(b)
  PROVE  VerdictInv'
<1> USE DEF VerdictInv
<1>0. /\ SenderTypes /\ net \subseteq Message /\ UNCHANGED receiverVars
  BY SenderSummary, BaseParts
<1>1. \A c, v : Done(c, v) \in net' <=> Done(c, v) \in net
  <2>1. net' = net \/ net' = net \cup {Commit(b)} \/ net' = net \cup {Reveal(b)}
    BY SenderSummary
  <2> QED BY <2>1, MessagesDiffer
<1>2. \A c \in Batches : \A v \in {"done", "nack"} :
        confirmed'[c] = v => confirmed[c] = v \/ Done(c, v) \in net
  <2>1. CASE HandleDone(b)
    <3> PICK m \in net : /\ m.type = "done" /\ m.batch = b
                         /\ confirmed' = [confirmed EXCEPT ![b] = m.status]
      BY <2>1 DEF HandleDone
    <3>1. Done(b, m.status) \in net
      <4>1. m = Done(b, m.status) BY <1>0, MessageForms
      <4> QED BY <4>1
    <3> QED BY <1>0, <3>1 DEF SenderTypes
  <2>2. CASE LookDone(b) \/ DoneTimeout(b)
    BY <1>0, <2>2, EcashAssumption DEF LookDone, DoneTimeout, TakeDone, SenderTypes
  <2>3. CASE ~(HandleDone(b) \/ LookDone(b) \/ DoneTimeout(b))
    BY <2>3 DEF StartPayment, SenderStep, LookAck, AckTimeout, AwaitNotified, HandleAck
  <2> QED BY <2>1, <2>2, <2>3
<1>3. \A c \in Batches : \A v \in {"done", "nack"} :
        verdict'[c] = v => verdict[c] = v \/ confirmed[c] = v
  <2>1. CASE LookDone(b) \/ DoneTimeout(b)
    BY <1>0, <2>1 DEF LookDone, DoneTimeout, TakeDone, End, SenderTypes
  <2>2. CASE LookAck(b) \/ AckTimeout(b)
    BY <1>0, <2>2 DEF LookAck, AckTimeout, TakeAck, End, SenderTypes
  <2>3. CASE ~(LookDone(b) \/ DoneTimeout(b) \/ LookAck(b) \/ AckTimeout(b))
    BY <2>3 DEF StartPayment, SenderStep, AwaitNotified, HandleAck, HandleDone
  <2> QED BY <2>1, <2>2, <2>3
<1>4. VerdictBacked' BY <1>0, <1>1, <1>2, <1>3 DEF VerdictBacked, receiverVars
<1>5. OneOutcome' BY <1>0, <1>1 DEF OneOutcome, Revealing, receiverVars, taskVars
<1> QED BY <1>4, <1>5

\* The receiver answers DONE after it added the notes, and NACK when it did not.
LEMMA ReceiverVerdict ==
  ASSUME BaseInv, CreditInv, VerdictInv, NEW t \in Tasks,
         GenerateKey(t) \/ LookUpCommit(t) \/ ReceiverStep(t)
  PROVE  VerdictInv'
<1> USE DEF VerdictInv
<1>0. /\ TaskTypes /\ ReceiverTypes /\ net \subseteq Message /\ UNCHANGED senderVars
  BY BaseParts, ReceiverLeavesPayments
<1>1. UNCHANGED <<confirmed, verdict>> BY <1>0 DEF senderVars
<1>2. \A u \in Tasks : u # t => tpc'[u] = tpc[u] /\ tbatch'[u] = tbatch[u]
  BY <1>0 DEF GenerateKey, Spare, LookUpCommit, ReceiverStep, StoreCommit, ReceiveBatch, ReceiveFails,
              FinishReveal, Return, TaskTypes
<1>3. \A c \in Batches : wallet[c] \in Nat /\ reveals[c] \in Nat BY <1>0 DEF ReceiverTypes
<1>4. CASE GenerateKey(t) \/ StoreCommit(t)
  <2>1. UNCHANGED <<wallet, reveals>> BY <1>4 DEF GenerateKey, Spare, StoreCommit
  <2>2. tpc[t] \notin {"receive", "remove"} /\ tpc'[t] \notin {"receive", "remove"}
    BY <1>0, <1>4 DEF GenerateKey, Spare, StoreCommit, Return, TaskTypes
  <2>3. \A c, v : Done(c, v) \in net' <=> Done(c, v) \in net
    <3>1. net' = net \/ \E c : net' = net \cup {Ack(c)}
      BY <1>4 DEF GenerateKey, StoreCommit, Send, Ack
    <3> QED BY <3>1, MessagesDiffer
  <2>4. VerdictBacked' BY <1>1, <2>1, <2>3 DEF VerdictBacked
  <2>5. \A c : Revealing(c)' = Revealing(c) BY <1>2, <2>2 DEF Revealing
  <2>6. OneOutcome' BY <1>2, <2>1, <2>2, <2>3, <2>5 DEF OneOutcome
  <2> QED BY <2>4, <2>6
<1>5. CASE LookUpCommit(t)
  <2> PICK m \in net :
        /\ tbatch' = [tbatch EXCEPT ![t] = m.batch]
        /\ reveals' = [reveals EXCEPT ![m.batch] = @ + 1]
    BY <1>5 DEF LookUpCommit
  <2>1. m.batch \in Batches BY <1>0, MessageForms
  <2>2. UNCHANGED <<wallet, net>> /\ tpc[t] = "idle" BY <1>5 DEF LookUpCommit, Spare
  <2>3. VerdictBacked' BY <1>1, <2>2 DEF VerdictBacked
  <2>4. tbatch'[t] = m.batch /\ tpc'[t] = "receive" BY <1>0, <1>5 DEF LookUpCommit, TaskTypes
  <2>5. \A c \in Batches : reveals'[c] = IF c = m.batch THEN reveals[c] + 1 ELSE reveals[c]
    BY <1>0 DEF ReceiverTypes
  <2>6. OneOutcome'
    <3> SUFFICES ASSUME NEW c \in Batches
                 PROVE  /\ reveals'[c] = 0 =>
                             /\ Revealing(c)' = {}
                             /\ wallet[c] = 0 /\ Done(c, "nack") \notin net
                        /\ reveals'[c] <= 1 =>
                             /\ \A u, v \in Revealing(c)' : u = v
                             /\ Done(c, "nack") \in net => wallet[c] = 0 /\ Revealing(c)' = {}
                             /\ wallet[c] > 0 =>
                                  \A u \in Tasks : tbatch'[u] = c => tpc'[u] # "receive"
      BY <2>2 DEF OneOutcome
    <3>1. CASE c = m.batch
      <4>1. reveals'[c] # 0 BY <1>3, <2>5, <3>1
      <4>2. reveals'[c] <= 1 => reveals[c] = 0 BY <1>3, <2>5, <3>1
      <4>3. Revealing(c) = {} => \A u \in Revealing(c)' : u = t
        BY <1>2 DEF Revealing
      <4> QED BY <4>1, <4>2, <4>3 DEF OneOutcome
    <3>2. CASE c # m.batch
      <4>1. Revealing(c)' = Revealing(c) BY <1>2, <2>2, <2>4, <3>2 DEF Revealing
      <4> QED BY <1>2, <2>4, <2>5, <3>2, <4>1 DEF OneOutcome
    <3> QED BY <3>1, <3>2
  <2> QED BY <2>3, <2>6
<1>6. CASE ReceiveBatch(t)
  <2> DEFINE b == tbatch[t]
  <2>1. /\ UNCHANGED <<net, reveals, tbatch>> /\ tpc[t] = "receive" /\ tpc'[t] = "remove"
        /\ b \in Batches /\ t \in Revealing(b)
    BY <1>0, <1>6 DEF ReceiveBatch, TaskTypes, TasksBusy, Revealing
  <2>2. wallet'[b] = wallet[b] + 1 /\ \A c \in Batches : c # b => wallet'[c] = wallet[c]
    BY <1>0, <1>6, <2>1 DEF ReceiveBatch, ReceiverTypes
  <2>3. VerdictBacked' BY <1>1, <1>3, <2>1, <2>2 DEF VerdictBacked
  <2>4. \A c : Revealing(c)' = Revealing(c) BY <1>2, <2>1 DEF Revealing
  <2>5. \A u \in Tasks : tbatch[u] = b /\ tpc'[u] = "receive" => u # t /\ u \in Revealing(b)
    BY <1>2, <2>1 DEF Revealing
  <2> HIDE DEF b
  <2>6. \A u \in Tasks : tbatch[u] # b => tpc'[u] = tpc[u] BY <1>2 DEF b
  <2>7. reveals[b] # 0 BY <2>1 DEF OneOutcome
  <2>8. reveals[b] <= 1 => Done(b, "nack") \notin net BY <2>1 DEF OneOutcome
  <2>9. OneOutcome'
    BY <2>1, <2>2, <2>4, <2>5, <2>6, <2>7, <2>8 DEF OneOutcome
  <2> QED BY <2>3, <2>9
<1>7. CASE ReceiveFails(t) \/ FinishReveal(t)
  <2>0. PICK b \in Batches : b = tbatch[t]
    BY <1>0, <1>7 DEF ReceiveFails, FinishReveal, TaskTypes, TasksBusy
  <2>1. /\ UNCHANGED <<wallet, reveals>> /\ tpc[t] \in {"receive", "remove"}
        /\ tpc'[t] = "idle" /\ t \in Revealing(b)
    BY <1>0, <1>7, <2>0 DEF ReceiveFails, FinishReveal, Return, TaskTypes, TasksBusy, Revealing
  <2>2. PICK v \in {"done", "nack"} :
          /\ net' = net \cup {Done(b, v)}
          /\ v = "done" => tpc[t] = "remove"
          /\ v = "nack" => tpc[t] = "receive"
    BY <1>7, <2>0 DEF ReceiveFails, FinishReveal, Send, Done
  <2>3. tpc[t] = "remove" => wallet[b] > 0 BY <2>0 DEF CreditInv, Credited
  <2>4. \A c, w : Done(c, w) \in net' <=> Done(c, w) \in net \/ (c = b /\ w = v)
    BY <2>2, MessagesDiffer
  <2>5. VerdictBacked' BY <1>1, <2>1, <2>2, <2>3, <2>4 DEF VerdictBacked
  <2>6. \A c : Revealing(c)' \subseteq Revealing(c) \ {t} BY <1>2, <2>1 DEF Revealing
  <2>7. \A u \in Tasks : tpc'[u] = "receive" => tpc[u] = "receive" /\ tbatch'[u] = tbatch[u]
    BY <1>2, <2>1
  <2>8. reveals[b] # 0 BY <2>1 DEF OneOutcome
  <2>9. ASSUME reveals[b] <= 1
        PROVE  Revealing(b)' = {} /\ (v = "nack" => wallet[b] = 0)
    <3>0. \A u \in Revealing(b) : u = t BY <2>1, <2>9 DEF OneOutcome
    <3>1. Revealing(b)' = {} BY <2>6, <3>0
    <3>2. v = "nack" => ~(wallet[b] > 0) BY <2>0, <2>1, <2>2, <2>9 DEF OneOutcome
    <3> QED BY <1>3, <3>1, <3>2
  <2>10. OneOutcome'
    <3> SUFFICES ASSUME NEW c \in Batches
                 PROVE  /\ reveals[c] = 0 =>
                             /\ Revealing(c)' = {}
                             /\ wallet[c] = 0 /\ Done(c, "nack") \notin net'
                        /\ reveals[c] <= 1 =>
                             /\ \A u, w \in Revealing(c)' : u = w
                             /\ Done(c, "nack") \in net' => wallet[c] = 0 /\ Revealing(c)' = {}
                             /\ wallet[c] > 0 =>
                                  \A u \in Tasks : tbatch'[u] = c => tpc'[u] # "receive"
      BY <2>1 DEF OneOutcome
    <3>1. CASE c = b
      <4>1. reveals[b] <= 1 /\ wallet[b] > 0 =>
              \A u \in Tasks : tbatch'[u] = b => tpc'[u] # "receive"
        BY <2>1, <2>7 DEF OneOutcome
      <4>2. reveals[b] <= 1 /\ Done(b, "nack") \in net' => wallet[b] = 0
        BY <2>1, <2>4, <2>9 DEF OneOutcome
      <4> QED BY <2>8, <2>9, <3>1, <4>1, <4>2
    <3>2. CASE c # b BY <2>4, <2>6, <2>7, <3>2 DEF OneOutcome
    <3> QED BY <3>1, <3>2
  <2> QED BY <2>5, <2>10
<1> QED BY <1>4, <1>5, <1>6, <1>7 DEF ReceiverStep

LEMMA NextVerdict ==
  ASSUME BaseInv, CreditInv, VerdictInv, [Next]_vars
  PROVE  VerdictInv'
<1>1. CASE UNCHANGED vars
  BY <1>1 DEF vars, senderVars, receiverVars, taskVars, VerdictInv, VerdictBacked, OneOutcome,
              Revealing
<1>2. CASE (\E S \in SUBSET Batches \ {{}} : PruneSender(S) \/ PruneReceiver(S)) \/ ReceiverCrash
  <2>1. UNCHANGED <<confirmed, verdict, wallet, reveals, net>> BY <1>2, FaultsLeavePayments
  <2>2. UNCHANGED <<tpc, tbatch>> \/ \A t \in Tasks : tpc'[t] = "idle"
    BY <1>2 DEF PruneSender, PruneReceiver, ReceiverCrash, receiverVars, taskVars
  <2>3. VerdictBacked' BY <2>1 DEF VerdictInv, VerdictBacked
  <2>4. \A c : Revealing(c)' \subseteq Revealing(c) BY <2>2 DEF Revealing
  <2>5. OneOutcome' BY <2>1, <2>2, <2>4 DEF VerdictInv, OneOutcome
  <2> QED BY <2>3, <2>5 DEF VerdictInv
<1> QED BY <1>1, <1>2, SenderVerdict, ReceiverVerdict DEF Next

LEMMA InitVerdict == Init => VerdictInv
BY EcashAssumption DEF Init, VerdictInv, VerdictBacked, OneOutcome, Revealing

\* The sender believes in a transfer only if the receiver has the notes, and in a
\* refusal only if the receiver does not or has handled the REVEAL twice.
THEOREM VerdictsAreTrue == Spec => []VerdictIsTrue
<1>1. Init => BaseInv /\ CreditInv /\ VerdictInv BY InitBase, InitCredit, InitVerdict
<1>2. BaseInv /\ CreditInv /\ VerdictInv /\ [Next]_vars => BaseInv' /\ CreditInv' /\ VerdictInv'
  BY NextBase, NextCredit, NextVerdict
<1>3. VerdictInv => VerdictIsTrue
  BY DEF VerdictInv, VerdictBacked, OneOutcome, VerdictIsTrue
<1> QED BY <1>1, <1>2, <1>3, PTL DEF Spec
-----------------------------------------------------------------------------
(* The deadline of a wait.                                                 *)

\* The steps of the sender keep the record of the ACK.
LEMMA SenderAckRecorded ==
  ASSUME BaseInv, CreditInv, AckRecorded, [Next]_vars, NEW b \in Batches,
         StartPayment(b) \/ SenderStep(b) \/ HandleAck(b) \/ HandleDone(b)
  PROVE  AckRecorded'
<1>0. /\ SenderTypes /\ net \subseteq Message /\ PaymentMoves /\ Waiters /\ Waiters'
  BY NextWaiters, BaseParts
<1>1. \A c \in Batches : /\ pay'[c] = "idle" => pay[c] = "idle"
                         /\ pay'[c] \in WaitingForAck => pay[c] \in WaitingForAck \cup {"idle"}
  BY <1>0 DEF PaymentMoves, WaitingForAck, PastReveal
<1>2. disturbed' = disturbed
  BY DEF StartPayment, SenderStep, LookAck, AckTimeout, LookDone, DoneTimeout, AwaitNotified,
         HandleAck, HandleDone
<1>3. \A c \in Batches : acks[c] \in Nat BY <1>0 DEF SenderTypes
<1>4. CASE StartPayment(b)
  <2>1. /\ \A c \in Batches : c # b => pending'[c] = pending[c] /\ pay'[c] = pay[c]
        /\ pending'[b] = "Committed" /\ pay[b] = "idle" /\ pay'[b] = "lookAck"
        /\ acks' = acks /\ net' = net \cup {Commit(b)}
    BY <1>0, <1>4 DEF StartPayment, Send, Commit, SenderTypes, Waiters
  <2>2. acks[b] = 0 BY <1>3, <2>1 DEF AckRecorded
  <2>3. \A c : Commit(c) \in net' <=> Commit(c) \in net \/ c = b
    BY <2>1, MessagesDiffer
  <2> QED BY <1>2, <2>1, <2>2, <2>3 DEF AckRecorded
<1>5. CASE HandleAck(b)
  <2> PICK m \in net : /\ m.type = "ack" /\ m.batch = b
                       /\ acks' = [acks EXCEPT ![b] = @ + 1]
                       /\ \/ pending[b] = "Committed" /\ pending' = [pending EXCEPT ![b] = "AckReceived"]
                          \/ pending[b] # "Committed" /\ pending' = [pending EXCEPT ![b] = None]
    BY <1>5 DEF HandleAck
  <2>1. net' = net BY <1>5 DEF HandleAck
  <2>2. Commit(b) \in net
    <3>1. m = Ack(b) BY <1>0, MessageForms
    <3> QED BY <3>1 DEF CreditInv, CommitsSent
  <2>3. pay[b] # "idle" BY <2>2 DEF AckRecorded
  <2>4. \A c \in Batches : /\ acks'[c] = IF c = b THEN acks[b] + 1 ELSE acks[c]
                           /\ c # b => pending'[c] = pending[c]
    BY <1>0 DEF SenderTypes
  <2>5. pending[b] = "Committed" => pending'[b] = "AckReceived" BY <1>0 DEF SenderTypes
  <2> SUFFICES ASSUME NEW c \in Batches
               PROVE  /\ Commit(c) \in net => pay'[c] # "idle"
                      /\ acks'[c] > 0 => Commit(c) \in net
                      /\ pay'[c] \in WaitingForAck /\ c \notin disturbed =>
                           /\ acks'[c] = 0 => pending'[c] = "Committed"
                           /\ acks'[c] = 1 => pending'[c] = "AckReceived"
    BY <1>2, <2>1 DEF AckRecorded
  <2>6. pay'[c] \in WaitingForAck => pay[c] \in WaitingForAck \/ c # b BY <1>1, <2>3
  <2>7. CASE c = b
    BY <1>1, <1>3, <2>2, <2>3, <2>4, <2>5, <2>6, <2>7 DEF AckRecorded
  <2>8. CASE c # b
    <3>1. pay'[c] \in WaitingForAck => pay[c] \in WaitingForAck
      <4>1. pay[c] = "idle" => pay'[c] = "idle"
        <5>1. pay' = pay \/ NotifyOne("ack") BY <1>5 DEF HandleAck
        <5>2. "ack" \in Notifies /\ Asleep("ack") # "idle" BY DEF Notifies, Asleep
        <5> QED BY <1>0, <5>1, <5>2, NotifyFacts
      <4> QED BY <1>1, <4>1 DEF WaitingForAck
    <3> QED BY <1>1, <2>4, <2>8, <3>1 DEF AckRecorded
  <2> QED BY <2>7, <2>8
<1>6. CASE SenderStep(b) \/ HandleDone(b)
  <2>1. acks' = acks
    BY <1>6 DEF SenderStep, LookAck, AckTimeout, LookDone, DoneTimeout, AwaitNotified, HandleDone
  <2>2. \A c : Commit(c) \in net' <=> Commit(c) \in net
    <3>1. net' = net \/ net' = net \cup {Reveal(b)}
      BY <1>6 DEF SenderStep, LookAck, AckTimeout, LookDone, DoneTimeout, AwaitNotified, HandleDone,
                  TakeAck, Send, Reveal
    <3> QED BY <3>1, MessagesDiffer
  <2>3. \A c \in Batches : pay'[c] \in WaitingForAck => pending'[c] = pending[c]
    <3>1. CASE TakeAck(b)
      BY <1>0, <3>1 DEF TakeAck, SenderTypes, Waiters, WaitingForAck
    <3>2. CASE ~TakeAck(b)
      BY <1>6, <3>2 DEF SenderStep, LookAck, AckTimeout, LookDone, DoneTimeout, AwaitNotified,
                        HandleDone
    <3> QED BY <3>1, <3>2
  <2>4. \A c \in Batches : pay[c] = "idle" => pay'[c] = "idle"
    <3>1. CASE HandleDone(b)
      <4>1. "done" \in Notifies /\ Asleep("done") # "idle" BY DEF Notifies, Asleep
      <4> QED BY <1>0, <3>1, <4>1, NotifyFacts DEF HandleDone
    <3>2. CASE \E n \in Notifies : AwaitNotified(n, b)
      <4>1. \A n \in Notifies : Awaiting(n) # "idle" BY DEF Notifies, Awaiting
      <4> QED BY <1>0, <3>2, <4>1, AwaitFacts
    <3>3. CASE LookAck(b) \/ AckTimeout(b) \/ LookDone(b) \/ DoneTimeout(b)
      BY <1>0, <3>3 DEF LookAck, AckTimeout, LookDone, DoneTimeout, TakeAck, TakeDone, End, Waiters
    <3> QED BY <1>6, <3>1, <3>2, <3>3 DEF SenderStep
  <2>5. \A c \in Batches : pay'[c] \in WaitingForAck => pay[c] \in WaitingForAck
    BY <1>1, <2>4 DEF WaitingForAck
  <2> QED BY <1>1, <1>2, <2>1, <2>2, <2>3, <2>5 DEF AckRecorded
<1> QED BY <1>4, <1>5, <1>6

LEMMA NextAckRecorded ==
  ASSUME BaseInv, CreditInv, AckRecorded, [Next]_vars
  PROVE  AckRecorded'
<1>1. CASE UNCHANGED vars
  BY <1>1 DEF vars, senderVars, AckRecorded
<1>2. CASE \E t \in Tasks : GenerateKey(t) \/ LookUpCommit(t) \/ ReceiverStep(t)
  <2>1. UNCHANGED senderVars BY <1>2, ReceiverLeavesPayments
  <2>2. disturbed' = disturbed /\ \A c : Commit(c) \in net' <=> Commit(c) \in net
    <3>1. /\ disturbed' = disturbed
          /\ \/ net' = net
             \/ \E c, k : net' = net \cup {Ack(c)} \/ net' = net \cup {Done(c, k)}
      BY <1>2 DEF GenerateKey, LookUpCommit, ReceiverStep, StoreCommit, ReceiveBatch, ReceiveFails,
                  FinishReveal, Send, Ack, Done
    <3> QED BY <3>1, MessagesDiffer
  <2> QED BY <2>1, <2>2 DEF senderVars, AckRecorded
<1>3. CASE (\E S \in SUBSET Batches \ {{}} : PruneSender(S) \/ PruneReceiver(S)) \/ ReceiverCrash
  <2>1. UNCHANGED <<pay, acks, net>> BY <1>3, FaultsLeavePayments
  <2>2. \A c \in Batches : /\ c \in disturbed => c \in disturbed'
                           /\ pending'[c] = pending[c] \/ c \in disturbed'
    BY <1>3 DEF PruneSender, PruneReceiver, ReceiverCrash, senderVars
  <2> QED BY <2>1, <2>2 DEF AckRecorded
<1> QED BY <1>1, <1>2, <1>3, SenderAckRecorded DEF Next

LEMMA InitAckRecorded == Init => AckRecorded
BY DEF Init, AckRecorded, WaitingForAck

\* A wait that reaches its deadline does not lose an answer that was handled:
\* "no ACK" means that none was, or that a second ACK or a pruning removed it, and
\* "unknown" that no DONE is waiting.
THEOREM DeadlineLosesNoAnswer == Spec => TimeoutLosesNothing
<1> DEFINE Kept == \A b \in Batches :
                     verdict'[b] # verdict[b] =>
                       /\ verdict'[b] = "noack" => acks[b] # 1 \/ b \in disturbed
                       /\ verdict'[b] = "unknown" => confirmed[b] = None
           Inv == BaseInv /\ CreditInv /\ AckRecorded
<1>1. Init => Inv BY InitBase, InitCredit, InitAckRecorded
<1>2. Inv /\ [Next]_vars => Inv' BY NextBase, NextCredit, NextAckRecorded
<1>3. Inv /\ [Next]_vars => [Kept]_vars
  <2> SUFFICES ASSUME Inv, [Next]_vars, NEW b \in Batches, verdict'[b] # verdict[b]
               PROVE  /\ verdict'[b] = "noack" => acks[b] # 1 \/ b \in disturbed
                      /\ verdict'[b] = "unknown" => confirmed[b] = None
    OBVIOUS
  <2>0. SenderTypes BY BaseParts
  <2>1. PICK c \in Batches : LookAck(c) \/ AckTimeout(c) \/ LookDone(c) \/ DoneTimeout(c)
    <3>1. ~UNCHANGED verdict OBVIOUS
    <3> QED BY <3>1, ReceiverLeavesPayments, FaultsLeavePayments
            DEF Next, vars, senderVars, SenderStep, StartPayment, HandleAck, HandleDone,
                AwaitNotified
  <2>2. CASE LookAck(c)
    BY <2>2 DEF LookAck, TakeAck
  <2>3. CASE AckTimeout(c)
    <3>1. c = b /\ pay[c] = "sleepAck" /\ pending[c] # "AckReceived" /\ verdict'[b] = "noack"
      BY <2>0, <2>3 DEF AckTimeout, TakeAck, End, SenderTypes
    <3> QED BY <3>1 DEF AckRecorded, WaitingForAck
  <2>4. CASE LookDone(c) \/ DoneTimeout(c)
    BY <2>0, <2>4, EcashAssumption DEF LookDone, DoneTimeout, TakeDone, End, SenderTypes
  <2> QED BY <2>1, <2>2, <2>3, <2>4
<1> QED BY <1>1, <1>2, <1>3, PTL DEF Spec, TimeoutLosesNothing
=============================================================================
