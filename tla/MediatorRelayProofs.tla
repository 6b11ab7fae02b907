------------------------- MODULE MediatorRelayProofs -------------------------
(***************************************************************************)
(* Proofs about MediatorRelay, for every set of messages, sockets and      *)
(* polling tasks and every capacity, batch size and number of losses and   *)
(* crashes.                                                                *)
(***************************************************************************)
EXTENDS MediatorRelay, FiniteSetTheorems, WellFoundedInduction, SequenceTheorems, TLAPS

\* Some task of the recipient has marked m and not yet handed it to its handlers.
Dispatching(m) == \E f \in Fetchers : cpc[f] = "dispatch" /\ NextId(f) = m

\* What a task of the recipient has looked at of its delivery is marked.
DeliveryOK(f) ==
  /\ todo[f] \subseteq frame[f]
  /\ frame[f] \ todo[f] \subseteq processed
  /\ cpc[f] \in {"check", "mark", "dispatch"} => todo[f] # {}
  /\ cpc[f] = "ack" => todo[f] = {}
  /\ cpc[f] = "idle" => frame[f] = {}
  /\ cpc[f] = "dispatch" => NextId(f) \in processed

\* No frame is empty.
SocketOK(s) ==
  /\ flushpc[s] = "push" => batch[s] # {}
  /\ chan[s] \in Seq((SUBSET Messages) \ {{}})

\* A marked message was handled, or is about to be.
MarkedIsHandled == \A m \in processed : handled[m] > 0 \/ Dispatching(m)

\* A row that is gone.  With one task the message it held was handled before it was
\* acknowledged; with several, another task may still be about to hand it over.
Excused(m) == m <= cutoff \/ handled[m] > 0 \/ (Pollers # {} /\ Dispatching(m))

RowsKept == \A m \in Messages : fpc[m] \in {"push", "done"} /\ row[m] = Absent => Excused(m)

\* The flush of s has taken, or is about to push, all that was Pending.
Drained(s) ==
  flushpc[s] = "done" \/ (flushpc[s] = "push" /\ Cardinality(batch[s]) < ReplayBatch)

PushedOrTaken ==
  \A s \in Sockets, m \in Messages :
    session = s /\ Drained(s) /\ row[m] = "pending" /\ fpc[m] = "done" =>
      m \in sent[s] \/ m \in dropped

\* The task has found its next message unmarked and not yet handed it over.
Holds(f) == cpc[f] \in {"mark", "dispatch"}

\* A message that no two tasks looked up at once is handled once between two
\* crashes: only one task holds it, and until that task marks it nobody has.
Counted ==
  /\ \A m \in Messages \ raced : /\ handled[m] <= crashes + 1
                                 /\ m \notin processed => handled[m] <= crashes
  /\ \A f \in Fetchers :
       Holds(f) /\ NextId(f) \notin raced =>
         /\ cpc[f] = "mark" => NextId(f) \notin processed
         /\ cpc[f] = "dispatch" => handled[NextId(f)] <= crashes
         /\ \A u \in Fetchers \ {f} : Holds(u) => NextId(u) # NextId(f)

RelayInv ==
  /\ TypeOK
  /\ \A f \in Fetchers : DeliveryOK(f)
  /\ \A s \in Sockets : SocketOK(s)
  /\ MarkedIsHandled
  /\ PushedOrTaken
  /\ Counted
  /\ Pollers = {} \/ crashes = 0 => RowsKept
-----------------------------------------------------------------------------
(* The operators.                                                          *)

\* A nonempty set of numbers has a least one.
LEMMA Smallest ==
  ASSUME NEW S \in SUBSET Nat, S # {}
  PROVE  \E m \in S : \A k \in S : m <= k
<1> DEFINE R == OpToRel(<, Nat)
<1>1. IsWellFoundedOn(R, Nat) BY NatLessThanWellFounded
<1> HIDE DEF R
<1>2. PICK m \in S : \A k \in S : ~ (<<k, m>> \in R) BY <1>1, WFMin
<1>3. \A k \in S : k < m => <<k, m>> \in R BY DEF R, OpToRel
<1>4. m \in Nat /\ \A k \in S : k \in Nat /\ ~ (k < m) BY <1>2, <1>3
<1>5. \A k \in S : m <= k BY <1>4
<1> QED BY <1>5

\* Fewer messages than the limit are all there are.
LEMMA OldestFacts ==
  ASSUME NEW S \in SUBSET Messages, NEW limit \in Nat \ {0}
  PROVE  /\ Oldest(S, limit) \subseteq S
         /\ IsFiniteSet(Oldest(S, limit)) /\ Cardinality(Oldest(S, limit)) \in Nat
         /\ Cardinality(Oldest(S, limit)) < limit => Oldest(S, limit) = S
         /\ Oldest(S, limit) = {} => S = {}
<1> DEFINE O == Oldest(S, limit)
<1>1. O \subseteq S BY DEF Oldest
<1>2. IsFiniteSet(S) /\ IsFiniteSet(O) /\ Cardinality(O) \in Nat
  BY <1>1, RelayAssumption, FS_Subset, FS_CardinalityType
<1>3. ASSUME Cardinality(O) < limit, S \ O # {} PROVE FALSE
  <2>1. S \ O \in SUBSET Nat BY RelayAssumption
  <2>2. PICK m \in S \ O : \A k \in S \ O : m <= k BY <1>3, <2>1, Smallest
  <2>3. m \in Nat /\ \A k \in S : k \in Nat BY RelayAssumption
  <2>4. ASSUME NEW k \in S, k < m PROVE k \in O
    <3> HIDE DEF O
    <3>1. CASE k \in S \ O
      <4>1. m <= k BY <2>2, <3>1
      <4> QED BY <2>3, <2>4, <4>1
    <3> QED BY <3>1
  <2>7. {k \in S : k < m} \subseteq O BY <2>4
  <2>5. /\ Cardinality({k \in S : k < m}) <= Cardinality(O)
        /\ Cardinality({k \in S : k < m}) \in Nat
    BY <1>2, <2>7, FS_Subset, FS_CardinalityType
  <2>6. Cardinality({k \in S : k < m}) < limit BY <1>2, <1>3, <2>5
  <2> QED BY <2>2, <2>6 DEF Oldest
<1>4. O = {} => Cardinality(O) < limit BY FS_EmptySet
<1> QED BY <1>1, <1>2, <1>3, <1>4

\* The next id of a delivery is one of those that are left.
LEMMA NextIdFacts ==
  ASSUME NEW f, todo[f] \subseteq Messages, todo[f] # {}
  PROVE  NextId(f) \in todo[f]
<1>1. \E m \in todo[f] : \A k \in todo[f] : m <= k BY Smallest, RelayAssumption
<1> QED BY <1>1 DEF NextId

LEMMA RowFacts ==
  ASSUME TypeOK, NEW S \in SUBSET Messages
  PROVE  /\ MarkSending(S) \in [Messages -> Rows]
         /\ RemoveRows(S) \in [Messages -> Rows]
         /\ \A m \in Messages : /\ MarkSending(S)[m] = IF m \in S THEN "sending" ELSE row[m]
                                /\ RemoveRows(S)[m] = IF m \in S THEN Absent ELSE row[m]
         /\ Pending \in SUBSET Messages /\ Expired \in SUBSET Messages
         /\ Oldest(Pending, ReplayBatch) \in SUBSET Messages
         /\ Oldest(Pending, PollLimit) \in SUBSET Messages
BY DEF MarkSending, RemoveRows, TypeOK, Rows, Absent, Pending, Expired, Oldest
-----------------------------------------------------------------------------
(* Types.                                                                  *)

QueueTypes ==
  /\ row \in [Messages -> Rows]
  /\ fpc \in [Messages -> {"idle", "queue", "push", "done", "rejected"}]
  /\ cutoff \in Nat
  /\ losses \in Nat /\ crashes \in Nat

SessionTypes ==
  /\ session \in Sockets \cup {None}
  /\ spc \in [Sockets -> {"closed", "open", "live", "dead", "deadlive", "ended"}]
  /\ chan \in [Sockets -> Seq(SUBSET Messages)]
  /\ \A s \in Sockets : Len(chan[s]) <= ChannelCap
  /\ flushpc \in [Sockets -> {"none", "take", "push", "done", "failed"}]
  /\ batch \in [Sockets -> SUBSET Messages]
  /\ sent \in [Sockets -> SUBSET Messages]
  /\ dropped \subseteq Messages

ClientTypes ==
  /\ ws \in Sockets \cup {None}
  /\ cpc \in [Fetchers -> {"idle", "check", "mark", "dispatch", "ack"}]
  /\ frame \in [Fetchers -> SUBSET Messages]
  /\ todo \in [Fetchers -> SUBSET Messages]
  /\ processed \subseteq Messages
  /\ handled \in [Messages -> Nat]
  /\ raced \subseteq Messages

LEMMA TypeParts ==
  /\ TypeOK <=> QueueTypes /\ SessionTypes /\ ClientTypes
  /\ TypeOK' <=> QueueTypes' /\ SessionTypes' /\ ClientTypes'
BY DEF TypeOK, QueueTypes, SessionTypes, ClientTypes

LEMMA PushTypes ==
  ASSUME TypeOK, NEW s \in Sockets, HasRoom(s), NEW ids \in SUBSET Messages, Push(s, ids)
  PROVE  /\ chan' \in [Sockets -> Seq(SUBSET Messages)]
         /\ \A r \in Sockets : Len(chan'[r]) <= ChannelCap
         /\ sent' \in [Sockets -> SUBSET Messages]
         /\ \A r \in Sockets : sent[r] \subseteq sent'[r]
         /\ ids \subseteq sent'[s]
         /\ chan'[s] = Append(chan[s], ids)
         /\ \A r \in Sockets \ {s} : chan'[r] = chan[r]
<1>1. /\ chan \in [Sockets -> Seq(SUBSET Messages)] /\ sent \in [Sockets -> SUBSET Messages]
      /\ \A r \in Sockets : Len(chan[r]) <= ChannelCap
  BY DEF TypeOK
<1>2. chan[s] \in Seq(SUBSET Messages) /\ Len(chan[s]) < ChannelCap BY <1>1 DEF HasRoom
<1>3. Append(chan[s], ids) \in Seq(SUBSET Messages) /\ Len(Append(chan[s], ids)) = Len(chan[s]) + 1
  BY <1>2
<1>4. Len(chan[s]) \in Nat /\ ChannelCap \in Nat BY <1>2, RelayAssumption
<1>5. chan'[s] = Append(chan[s], ids) /\ \A r \in Sockets \ {s} : chan'[r] = chan[r]
  BY <1>1 DEF Push
<1>6. chan' \in [Sockets -> Seq(SUBSET Messages)] BY <1>1, <1>3 DEF Push
<1>7. Len(Append(chan[s], ids)) <= ChannelCap BY <1>2, <1>3, <1>4
<1>8. \A r \in Sockets : Len(chan'[r]) <= ChannelCap BY <1>1, <1>5, <1>7
<1>9. /\ sent' \in [Sockets -> SUBSET Messages] /\ ids \subseteq sent'[s]
      /\ \A r \in Sockets : sent[r] \subseteq sent'[r]
  BY <1>1 DEF Push
<1> QED BY <1>5, <1>6, <1>8, <1>9

\* One case per action of the specification.
LEMMA TypeStep ==
  ASSUME TypeOK, [Next]_vars, \A f \in Fetchers : DeliveryOK(f)
  PROVE  TypeOK'
<1>0. QueueTypes /\ SessionTypes /\ ClientTypes BY TypeParts
<1>1. SUFFICES QueueTypes' /\ SessionTypes' /\ ClientTypes' BY TypeParts
<1>27. ASSUME queueVars' = queueVars, budget' = budget PROVE QueueTypes'
  BY <1>0, <1>27 DEF QueueTypes, queueVars, budget
<1>28. ASSUME sessionVars' = sessionVars PROVE SessionTypes'
  BY <1>0, <1>28 DEF SessionTypes, sessionVars
<1>29. ASSUME clientVars' = clientVars PROVE ClientTypes'
  BY <1>0, <1>29 DEF ClientTypes, clientVars
<1>2. ASSUME NEW m \in Messages, RejectForward(m) PROVE QueueTypes' /\ SessionTypes' /\ ClientTypes'
  <2>1. QueueTypes' BY <1>0, <1>2 DEF RejectForward, QueueTypes, budget
  <2> QED BY <1>28, <1>29, <1>2, <2>1 DEF RejectForward
<1>3. ASSUME NEW m \in Messages, CheckCap(m) PROVE QueueTypes' /\ SessionTypes' /\ ClientTypes'
  <2>1. row' \in [Messages -> Rows] BY <1>0, <1>3, RowFacts DEF CheckCap, QueueTypes
  <2>2. fpc' \in [Messages -> {"idle", "queue", "push", "done", "rejected"}]
    BY <1>0, <1>3 DEF CheckCap, QueueTypes
  <2>3. QueueTypes' BY <1>0, <1>3, <2>1, <2>2 DEF CheckCap, QueueTypes, budget
  <2> QED BY <1>28, <1>29, <1>3, <2>3 DEF CheckCap
<1>4. ASSUME NEW m \in Messages, QueueMessage(m) PROVE QueueTypes' /\ SessionTypes' /\ ClientTypes'
  <2>1. QueueTypes' BY <1>0, <1>4 DEF QueueMessage, QueueTypes, budget, Rows
  <2> QED BY <1>28, <1>29, <1>4, <2>1 DEF QueueMessage
<1>5. ASSUME NEW m \in Messages, PushLive(m) PROVE QueueTypes' /\ SessionTypes' /\ ClientTypes'
  <2>1. QueueTypes' BY <1>0, <1>5 DEF PushLive, QueueTypes, budget
  <2>2. CASE HasRoom(session)
    <3>1. session \in Sockets /\ Push(session, {m}) /\ dropped' = dropped
      BY <1>5, <2>2 DEF PushLive, HasRoom
    <3>2. /\ chan' \in [Sockets -> Seq(SUBSET Messages)]
          /\ \A r \in Sockets : Len(chan'[r]) <= ChannelCap
          /\ sent' \in [Sockets -> SUBSET Messages]
      BY <2>2, <3>1, PushTypes
    <3> QED BY <1>0, <1>29, <1>5, <2>1, <3>1, <3>2 DEF PushLive, SessionTypes
  <2>3. CASE ~ HasRoom(session)
    <3>1. SessionTypes' BY <1>0, <1>5, <2>3 DEF PushLive, SessionTypes
    <3> QED BY <1>29, <1>5, <2>1, <3>1 DEF PushLive
  <2> QED BY <2>2, <2>3
<1>6. ASSUME NEW s \in Sockets, Connect(s) PROVE QueueTypes' /\ SessionTypes' /\ ClientTypes'
  <2>1. SessionTypes' BY <1>0, <1>6 DEF Connect, SessionTypes
  <2>2. ClientTypes' BY <1>0, <1>6 DEF Connect, ClientTypes
  <2> QED BY <1>27, <1>6, <2>1, <2>2 DEF Connect
<1>7. ASSUME NEW s \in Sockets, Identify(s) PROVE QueueTypes' /\ SessionTypes' /\ ClientTypes'
  <2>1. SessionTypes' BY <1>0, <1>7 DEF Identify, SessionTypes
  <2> QED BY <1>27, <1>29, <1>7, <2>1 DEF Identify
<1>8. ASSUME NEW s \in Sockets, FlushTake(s) PROVE QueueTypes' /\ SessionTypes' /\ ClientTypes'
  <2>1. QueueTypes' BY <1>0, <1>8, RowFacts DEF FlushTake, QueueTypes, budget
  <2>2. batch' \in [Sockets -> SUBSET Messages] BY <1>0, <1>8, RowFacts DEF FlushTake, SessionTypes
  <2>3. flushpc' \in [Sockets -> {"none", "take", "push", "done", "failed"}]
    BY <1>0, <1>8 DEF FlushTake, SessionTypes
  <2>4. SessionTypes' BY <1>0, <1>8, <2>2, <2>3 DEF FlushTake, SessionTypes
  <2> QED BY <1>29, <1>8, <2>1, <2>4 DEF FlushTake
<1>9. ASSUME NEW s \in Sockets, FlushPush(s) PROVE QueueTypes' /\ SessionTypes' /\ ClientTypes'
  <2>1. session \in Sockets /\ HasRoom(session) /\ Push(session, batch[s]) /\ batch[s] \in SUBSET Messages
    BY <1>0, <1>9 DEF FlushPush, HasRoom, SessionTypes
  <2>2. /\ chan' \in [Sockets -> Seq(SUBSET Messages)]
        /\ \A r \in Sockets : Len(chan'[r]) <= ChannelCap
        /\ sent' \in [Sockets -> SUBSET Messages]
    BY <2>1, PushTypes
  <2>3. SessionTypes' BY <1>0, <1>9, <2>2 DEF FlushPush, SessionTypes
  <2> QED BY <1>27, <1>29, <1>9, <2>3 DEF FlushPush
<1>10. ASSUME NEW s \in Sockets, FlushFails(s) PROVE QueueTypes' /\ SessionTypes' /\ ClientTypes'
  <2>1. SessionTypes' BY <1>0, <1>10 DEF FlushFails, SessionTypes
  <2> QED BY <1>27, <1>29, <1>10, <2>1 DEF FlushFails
<1>11. ASSUME NEW s \in Sockets, DeliveryRequest(s)
       PROVE  QueueTypes' /\ SessionTypes' /\ ClientTypes'
  <2>1. QueueTypes' BY <1>0, <1>11, RowFacts DEF DeliveryRequest, QueueTypes, budget
  <2>2. /\ chan' \in [Sockets -> Seq(SUBSET Messages)]
        /\ \A r \in Sockets : Len(chan'[r]) <= ChannelCap
        /\ sent' \in [Sockets -> SUBSET Messages]
    <3>1. CASE HasRoom(s)
      <4>1. Push(s, Oldest(Pending, PollLimit)) BY <1>11, <3>1 DEF DeliveryRequest
      <4> QED BY <3>1, <4>1, PushTypes, RowFacts
    <3>2. CASE ~ HasRoom(s) BY <1>0, <1>11, <3>2 DEF DeliveryRequest, SessionTypes
    <3> QED BY <3>1, <3>2
  <2>3. SessionTypes' BY <1>0, <1>11, <2>2 DEF DeliveryRequest, SessionTypes
  <2> QED BY <1>29, <1>11, <2>1, <2>3 DEF DeliveryRequest
<1>12. ASSUME NEW s \in Sockets, CloseSocket(s) PROVE QueueTypes' /\ SessionTypes' /\ ClientTypes'
  <2>1. Len(<<>>) = 0 /\ <<>> \in Seq(SUBSET Messages) /\ 0 <= ChannelCap BY RelayAssumption
  <2>2. chan' \in [Sockets -> Seq(SUBSET Messages)] /\ \A r \in Sockets : Len(chan'[r]) <= ChannelCap
    BY <1>0, <1>12, <2>1 DEF CloseSocket, SessionTypes
  <2>3. SessionTypes' BY <1>0, <1>12, <2>2 DEF CloseSocket, SessionTypes
  <2> QED BY <1>27, <1>29, <1>12, <2>3 DEF CloseSocket
<1>13. ASSUME Disconnect PROVE QueueTypes' /\ SessionTypes' /\ ClientTypes'
  <2>1. QueueTypes' BY <1>0, <1>13 DEF Disconnect, Loss, QueueTypes, queueVars
  <2>2. SessionTypes' BY <1>0, <1>13 DEF Disconnect, Drop, SessionTypes
  <2>3. ClientTypes' BY <1>0, <1>13 DEF Disconnect, ClientTypes
  <2> QED BY <2>1, <2>2, <2>3
<1>14. ASSUME ReadFrame PROVE QueueTypes' /\ SessionTypes' /\ ClientTypes'
  <2>1. ws \in Sockets /\ chan[ws] \in Seq(SUBSET Messages) /\ chan[ws] # <<>> /\ Len(chan[ws]) <= ChannelCap
    BY <1>0, <1>14 DEF ReadFrame, ClientTypes, SessionTypes
  <2>2. /\ Head(chan[ws]) \in SUBSET Messages /\ Tail(chan[ws]) \in Seq(SUBSET Messages)
        /\ Len(Tail(chan[ws])) = Len(chan[ws]) - 1 /\ Len(chan[ws]) \in Nat
    BY <2>1
  <2>3. Len(Tail(chan[ws])) <= ChannelCap BY <2>1, <2>2, RelayAssumption
  <2>4. SessionTypes' BY <1>0, <1>14, <2>2, <2>3 DEF ReadFrame, SessionTypes
  <2>5. ClientTypes' BY <1>0, <1>14, <2>2 DEF ReadFrame, Handle, ClientTypes
  <2> QED BY <1>27, <1>14, <2>4, <2>5 DEF ReadFrame
<1>15. ASSUME NEW f \in Fetchers, Poll(f) PROVE QueueTypes' /\ SessionTypes' /\ ClientTypes'
  <2>1. QueueTypes' BY <1>0, <1>15, RowFacts DEF Poll, QueueTypes, budget
  <2>2. ClientTypes' BY <1>0, <1>15, RowFacts DEF Poll, Handle, ClientTypes
  <2> QED BY <1>28, <1>15, <2>1, <2>2 DEF Poll
<1>16. ASSUME NEW f \in Fetchers, CheckProcessed(f) PROVE QueueTypes' /\ SessionTypes' /\ ClientTypes'
  <2>1. NextId(f) \in Messages
    <3>1. todo[f] \subseteq Messages /\ todo[f] # {}
      BY <1>0, <1>16 DEF CheckProcessed, DeliveryOK, ClientTypes
    <3> QED BY <3>1, NextIdFacts
  <2>2. raced' \subseteq Messages BY <1>0, <1>16, <2>1 DEF CheckProcessed, Overlap, ClientTypes
  <2>3. ClientTypes' BY <1>0, <1>16, <2>2 DEF CheckProcessed, FinishId, ClientTypes
  <2> QED BY <1>27, <1>28, <1>16, <2>3 DEF CheckProcessed
<1>17. ASSUME NEW f \in Fetchers, MarkProcessed(f) PROVE QueueTypes' /\ SessionTypes' /\ ClientTypes'
  <2>1. NextId(f) \in Messages
    <3>1. todo[f] \subseteq Messages /\ todo[f] # {}
      BY <1>0, <1>17 DEF MarkProcessed, DeliveryOK, ClientTypes
    <3> QED BY <3>1, NextIdFacts
  <2>2. ClientTypes' BY <1>0, <1>17, <2>1 DEF MarkProcessed, ClientTypes
  <2> QED BY <1>27, <1>28, <1>17, <2>2 DEF MarkProcessed
<1>18. ASSUME NEW f \in Fetchers, ProcessInbound(f) PROVE QueueTypes' /\ SessionTypes' /\ ClientTypes'
  <2>1. NextId(f) \in Messages
    <3>1. todo[f] \subseteq Messages /\ todo[f] # {}
      BY <1>0, <1>18 DEF ProcessInbound, DeliveryOK, ClientTypes
    <3> QED BY <3>1, NextIdFacts
  <2>2. handled' \in [Messages -> Nat] BY <1>0, <1>18, <2>1 DEF ProcessInbound, ClientTypes
  <2>3. ClientTypes' BY <1>0, <1>18, <2>2 DEF ProcessInbound, FinishId, ClientTypes
  <2> QED BY <1>27, <1>28, <1>18, <2>3 DEF ProcessInbound
<1>19. ASSUME NEW f \in Fetchers, Acknowledge(f) PROVE QueueTypes' /\ SessionTypes' /\ ClientTypes'
  <2>1. QueueTypes' BY <1>0, <1>19, RowFacts DEF Acknowledge, QueueTypes, ClientTypes, budget
  <2>2. ClientTypes' BY <1>0, <1>19 DEF Acknowledge, ReturnFrom, ClientTypes
  <2> QED BY <1>28, <1>19, <2>1, <2>2 DEF Acknowledge
<1>20. ASSUME NEW f \in Fetchers, LoseDelivery(f) PROVE QueueTypes' /\ SessionTypes' /\ ClientTypes'
  <2>1. QueueTypes' BY <1>0, <1>20 DEF LoseDelivery, Loss, QueueTypes, queueVars
  <2>2. ClientTypes' BY <1>0, <1>20 DEF LoseDelivery, ClientTypes
  <2> QED BY <1>28, <1>20, <2>1, <2>2 DEF LoseDelivery
<1>21. ASSUME NEW f \in Fetchers, LoseAck(f) PROVE QueueTypes' /\ SessionTypes' /\ ClientTypes'
  <2>1. QueueTypes' BY <1>0, <1>21 DEF LoseAck, Loss, QueueTypes, queueVars
  <2>2. ClientTypes' BY <1>0, <1>21 DEF LoseAck, ReturnFrom, ClientTypes
  <2> QED BY <1>28, <1>21, <2>1, <2>2 DEF LoseAck
<1>22. ASSUME Age PROVE QueueTypes' /\ SessionTypes' /\ ClientTypes'
  <2>1. QueueTypes' BY <1>0, <1>22, RelayAssumption DEF Age, QueueTypes, budget
  <2> QED BY <1>28, <1>29, <1>22, <2>1 DEF Age
<1>23. ASSUME Sweep PROVE QueueTypes' /\ SessionTypes' /\ ClientTypes'
  <2>1. QueueTypes' BY <1>0, <1>23, RowFacts DEF Sweep, QueueTypes, budget
  <2> QED BY <1>28, <1>29, <1>23, <2>1 DEF Sweep
<1>24. ASSUME MediatorCrash PROVE QueueTypes' /\ SessionTypes' /\ ClientTypes'
  <2>1. row' \in [Messages -> Rows] BY <1>0, <1>24 DEF MediatorCrash, QueueTypes, Rows, Absent
  <2>2. fpc' \in [Messages -> {"idle", "queue", "push", "done", "rejected"}]
    BY <1>0, <1>24 DEF MediatorCrash, QueueTypes
  <2>3. QueueTypes' BY <1>0, <1>24, <2>1, <2>2 DEF MediatorCrash, CrashBudget, QueueTypes
  <2>4. Len(<<>>) = 0 /\ <<>> \in Seq(SUBSET Messages) /\ 0 <= ChannelCap BY RelayAssumption
  <2>5. chan' \in [Sockets -> Seq(SUBSET Messages)] /\ \A r \in Sockets : Len(chan'[r]) <= ChannelCap
    BY <1>24, <2>4 DEF MediatorCrash
  <2>6. SessionTypes' BY <1>0, <1>24, <2>5 DEF MediatorCrash, SessionTypes
  <2>7. ClientTypes' BY <1>0, <1>24 DEF MediatorCrash, ClientTypes
  <2> QED BY <2>3, <2>6, <2>7
<1>25. ASSUME ClientCrash PROVE QueueTypes' /\ SessionTypes' /\ ClientTypes'
  <2>1. QueueTypes' BY <1>0, <1>25 DEF ClientCrash, CrashBudget, QueueTypes, queueVars
  <2>2. SessionTypes' BY <1>0, <1>25 DEF ClientCrash, Drop, SessionTypes
  <2>3. ClientTypes' BY <1>0, <1>25 DEF ClientCrash, ClientTypes
  <2> QED BY <2>1, <2>2, <2>3
<1>26. CASE UNCHANGED vars BY <1>27, <1>28, <1>29, <1>26 DEF vars
<1> QED
  BY <1>2, <1>3, <1>4, <1>5, <1>6, <1>7, <1>8, <1>9, <1>10, <1>11, <1>12, <1>13, <1>14, <1>15,
     <1>16, <1>17, <1>18, <1>19, <1>20, <1>21, <1>22, <1>23, <1>24, <1>25, <1>26
     DEF Next, ForwardStep, FlushStep, FetchStep
-----------------------------------------------------------------------------
(* The recipient's tasks.                                                  *)

ClientPart ==
  /\ \A f \in Fetchers : DeliveryOK(f)
  /\ MarkedIsHandled
  /\ Counted

\* What a task is about to hand over is handed over, and handled is not forgotten.
Forward ==
  \A m \in Messages : /\ Dispatching(m) => Dispatching(m)' \/ handled'[m] > 0
                      /\ handled[m] > 0 => handled'[m] > 0

LEMMA SameNextId ==
  ASSUME NEW f, todo'[f] = todo[f]
  PROVE  NextId(f)' = NextId(f)
BY DEF NextId

\* The tasks other than f are where they were.
LEMMA OtherTasks ==
  ASSUME ClientPart, NEW f \in Fetchers, processed \subseteq processed',
         NEW u \in Fetchers \ {f}, cpc'[u] = cpc[u], frame'[u] = frame[u], todo'[u] = todo[u]
  PROVE  DeliveryOK(u)' /\ NextId(u)' = NextId(u)
<1>1. NextId(u)' = NextId(u) BY SameNextId
<1>2. DeliveryOK(u) BY DEF ClientPart
<1> QED BY <1>1, <1>2 DEF DeliveryOK

\* Nothing of the recipient changes but, perhaps, the number of crashes.
LEMMA ClientSame ==
  ASSUME TypeOK, ClientPart, UNCHANGED <<cpc, frame, todo, processed, handled, raced>>,
         crashes' \in Nat, crashes' >= crashes
  PROVE  ClientPart' /\ Forward
<1>1. \A f \in Fetchers : NextId(f)' = NextId(f) BY SameNextId
<1>2. /\ cpc' = cpc /\ frame' = frame /\ todo' = todo /\ processed' = processed
      /\ handled' = handled /\ raced' = raced
  OBVIOUS
<1>3. \A f \in Fetchers : DeliveryOK(f)' BY <1>1, <1>2 DEF ClientPart, DeliveryOK
<1>4. \A m : Dispatching(m)' <=> Dispatching(m) BY <1>1, <1>2 DEF Dispatching
<1>5. MarkedIsHandled' BY <1>2, <1>4 DEF ClientPart, MarkedIsHandled
<1>6. Counted'
  <2>1. crashes \in Nat /\ \A m \in Messages : handled[m] \in Nat BY DEF TypeOK
  <2>2. Counted BY DEF ClientPart
  <2>3. \A m \in Messages \ raced : /\ handled[m] <= crashes' + 1
                                    /\ m \notin processed => handled[m] <= crashes'
    BY <2>1, <2>2 DEF Counted
  <2>4. ASSUME NEW f \in Fetchers, cpc[f] = "dispatch", NextId(f) \notin raced
        PROVE  handled[NextId(f)] <= crashes'
    <3>1. NextId(f) \in Messages BY <2>4 DEF ClientPart, DeliveryOK, TypeOK
    <3>2. handled[NextId(f)] <= crashes BY <2>2, <2>4 DEF Counted, Holds
    <3> QED BY <2>1, <3>1, <3>2
  <2>5. \A f \in Fetchers : Holds(f)' <=> Holds(f) BY <1>2 DEF Holds
  <2> QED BY <1>1, <1>2, <2>2, <2>3, <2>4, <2>5 DEF Counted
<1> QED BY <1>2, <1>3, <1>4, <1>5, <1>6 DEF ClientPart, Forward

\* One task moves and marks nothing, hands nothing over.
LEMMA TaskMoves ==
  ASSUME TypeOK, ClientPart, NEW f \in Fetchers, UNCHANGED <<processed, handled, crashes>>,
         \A u \in Fetchers \ {f} : cpc'[u] = cpc[u] /\ frame'[u] = frame[u] /\ todo'[u] = todo[u],
         cpc[f] # "dispatch", cpc'[f] # "dispatch",
         DeliveryOK(f)', raced \subseteq raced',
         cpc'[f] = "mark" =>
           /\ NextId(f)' \notin processed
           /\ \A u \in Fetchers \ {f} :
                cpc[u] = "mark" /\ NextId(u) = NextId(f)' => NextId(u) \in raced'
  PROVE  ClientPart' /\ Forward
<1>0. processed' = processed /\ handled' = handled /\ crashes' = crashes OBVIOUS
<1>1. \A u \in Fetchers \ {f} : DeliveryOK(u)' /\ NextId(u)' = NextId(u) BY <1>0, OtherTasks
<1>2. \A m : Dispatching(m)' <=> Dispatching(m)
  BY <1>1 DEF Dispatching
<1>3. MarkedIsHandled' BY <1>0, <1>2 DEF ClientPart, MarkedIsHandled
<1>5. Counted /\ \A u \in Fetchers : DeliveryOK(u) BY DEF ClientPart
<1>6. \A u \in Fetchers \ {f} : Holds(u)' <=> Holds(u) BY DEF Holds
<1>7. Holds(f)' <=> cpc'[f] = "mark" BY DEF Holds
<1>8. \A m \in Messages \ raced' : /\ handled'[m] <= crashes' + 1
                                   /\ m \notin processed' => handled'[m] <= crashes'
  BY <1>0, <1>5 DEF Counted
<1>9. ASSUME NEW u \in Fetchers \ {f}, Holds(f)', Holds(u)', NextId(u)' = NextId(f)'
      PROVE  NextId(u)' \in raced'
  <2>1. cpc[u] = "mark" BY <1>1, <1>5, <1>6, <1>7, <1>9 DEF Holds, DeliveryOK
  <2> QED BY <1>1, <1>7, <1>9, <2>1
<1>10. ASSUME NEW u \in Fetchers \ {f}, Holds(u)', NextId(u)' \notin raced'
       PROVE  /\ cpc'[u] = "mark" => NextId(u)' \notin processed'
              /\ cpc'[u] = "dispatch" => handled'[NextId(u)'] <= crashes'
              /\ \A v \in Fetchers \ {u} : Holds(v)' => NextId(v)' # NextId(u)'
  <2>1. Holds(u) /\ NextId(u) \notin raced /\ NextId(u)' = NextId(u) BY <1>1, <1>6, <1>10
  <2>2. /\ cpc[u] = "mark" => NextId(u) \notin processed
        /\ cpc[u] = "dispatch" => handled[NextId(u)] <= crashes
        /\ \A v \in Fetchers \ {u} : Holds(v) => NextId(v) # NextId(u)
    BY <1>5, <2>1 DEF Counted
  <2>3. \A v \in Fetchers \ {u} : Holds(v)' => NextId(v)' # NextId(u)'
    BY <1>1, <1>6, <1>9, <1>10, <2>1, <2>2
  <2>4. /\ cpc'[u] = "mark" => NextId(u)' \notin processed'
        /\ cpc'[u] = "dispatch" => handled'[NextId(u)'] <= crashes'
    BY <1>0, <2>1, <2>2
  <2> QED BY <2>3, <2>4
<1>11. ASSUME Holds(f)', NextId(f)' \notin raced'
       PROVE  /\ cpc'[f] = "mark" => NextId(f)' \notin processed'
              /\ cpc'[f] = "dispatch" => handled'[NextId(f)'] <= crashes'
              /\ \A v \in Fetchers \ {f} : Holds(v)' => NextId(v)' # NextId(f)'
  BY <1>0, <1>7, <1>9, <1>11
<1>4. Counted' BY <1>8, <1>10, <1>11 DEF Counted
<1> QED BY <1>0, <1>1, <1>2, <1>3, <1>4 DEF ClientPart, Forward

LEMMA StartDelivery ==
  ASSUME TypeOK, ClientPart, NEW f \in Fetchers, NEW ids \in SUBSET Messages, ids # {},
         cpc[f] = "idle", Handle(f, ids), UNCHANGED <<processed, handled, raced, crashes>>
  PROVE  ClientPart' /\ Forward
<1>1. cpc'[f] = "check" /\ frame'[f] = ids /\ todo'[f] = ids BY DEF Handle, TypeOK
<1>2. \A u \in Fetchers \ {f} : cpc'[u] = cpc[u] /\ frame'[u] = frame[u] /\ todo'[u] = todo[u]
  BY DEF Handle, TypeOK
<1>3. DeliveryOK(f)' BY <1>1 DEF DeliveryOK
<1> QED BY <1>1, <1>2, <1>3, TaskMoves

LEMMA EndDelivery ==
  ASSUME TypeOK, ClientPart, NEW f \in Fetchers, cpc[f] # "dispatch",
         cpc' = [cpc EXCEPT ![f] = "idle"], frame' = [frame EXCEPT ![f] = {}],
         todo' = [todo EXCEPT ![f] = {}], UNCHANGED <<processed, handled, raced, crashes>>
  PROVE  ClientPart' /\ Forward
<1>1. cpc'[f] = "idle" /\ frame'[f] = {} /\ todo'[f] = {} BY DEF TypeOK
<1>2. \A u \in Fetchers \ {f} : cpc'[u] = cpc[u] /\ frame'[u] = frame[u] /\ todo'[u] = todo[u]
  BY DEF TypeOK
<1>3. DeliveryOK(f)' BY <1>1 DEF DeliveryOK
<1> QED BY <1>1, <1>2, <1>3, TaskMoves

LEMMA ReturnClient ==
  ASSUME TypeOK, ClientPart, NEW f \in Fetchers, ReturnFrom(f), crashes' = crashes
  PROVE  ClientPart' /\ Forward
<1>1. cpc[f] = "ack" /\ todo[f] = {} BY DEF ReturnFrom, ClientPart, DeliveryOK
<1>2. todo' = [todo EXCEPT ![f] = {}] BY <1>1 DEF ReturnFrom, TypeOK
<1>3. /\ cpc' = [cpc EXCEPT ![f] = "idle"] /\ frame' = [frame EXCEPT ![f] = {}]
      /\ UNCHANGED <<processed, handled, raced, crashes>>
  BY DEF ReturnFrom
<1> QED BY <1>1, <1>2, <1>3, EndDelivery

LEMMA CheckClient ==
  ASSUME TypeOK, ClientPart, NEW f \in Fetchers, CheckProcessed(f)
  PROVE  ClientPart' /\ Forward
<1> DEFINE n == NextId(f)
<1>0. /\ cpc[f] = "check" /\ frame' = frame /\ UNCHANGED <<processed, handled, crashes>>
  BY DEF CheckProcessed, budget
<1>1. DeliveryOK(f) /\ todo[f] # {} /\ n \in todo[f]
  <2>1. DeliveryOK(f) /\ todo[f] # {} /\ todo[f] \subseteq Messages
    BY <1>0 DEF ClientPart, DeliveryOK, TypeOK
  <2> QED BY <2>1, NextIdFacts
<1>2. CASE n \in processed
  <2>0. FinishId(f, n) /\ raced' = raced BY <1>2 DEF CheckProcessed
  <2> HIDE DEF n
  <2>1. todo'[f] = todo[f] \ {n} /\ cpc'[f] = (IF todo[f] = {n} THEN "ack" ELSE "check")
    BY <2>0 DEF FinishId, TypeOK
  <2>2. \A u \in Fetchers \ {f} : cpc'[u] = cpc[u] /\ frame'[u] = frame[u] /\ todo'[u] = todo[u]
    BY <1>0, <2>0 DEF FinishId, TypeOK
  <2>3. DeliveryOK(f)' BY <1>0, <1>1, <1>2, <2>1 DEF DeliveryOK
  <2> QED BY <1>0, <2>0, <2>1, <2>2, <2>3, TaskMoves
<1>3. CASE n \notin processed
  <2>1. cpc'[f] = "mark" /\ todo' = todo /\ raced' = Overlap(f)
    BY <1>3 DEF CheckProcessed, TypeOK
  <2>2. \A u \in Fetchers \ {f} : cpc'[u] = cpc[u] /\ frame'[u] = frame[u] /\ todo'[u] = todo[u]
    BY <1>0, <1>3, <2>1 DEF CheckProcessed, TypeOK
  <2>3. NextId(f)' = n BY <2>1, SameNextId
  <2>4. DeliveryOK(f)' BY <1>0, <1>1, <2>1 DEF DeliveryOK
  <2>5. /\ raced \subseteq raced'
        /\ \A u \in Fetchers \ {f} : cpc[u] = "mark" /\ NextId(u) = n => NextId(u) \in raced'
    BY <2>1 DEF Overlap
  <2> QED BY <1>0, <1>3, <2>1, <2>2, <2>3, <2>4, <2>5, TaskMoves
<1> QED BY <1>2, <1>3

LEMMA MarkClient ==
  ASSUME TypeOK, ClientPart, NEW f \in Fetchers, MarkProcessed(f)
  PROVE  ClientPart' /\ Forward
<1>0. /\ cpc[f] = "mark" /\ frame' = frame /\ todo' = todo /\ handled' = handled
      /\ raced' = raced /\ crashes' = crashes /\ processed' = processed \cup {NextId(f)}
  BY DEF MarkProcessed, budget
<1>1. cpc'[f] = "dispatch" /\ \A u \in Fetchers \ {f} : cpc'[u] = cpc[u]
  BY DEF MarkProcessed, TypeOK
<1>2. NextId(f) \in todo[f] /\ NextId(f) \in Messages
  <2>1. todo[f] # {} /\ todo[f] \subseteq Messages BY <1>0 DEF ClientPart, DeliveryOK, TypeOK
  <2> QED BY <2>1, NextIdFacts
<1>3. \A u \in Fetchers : NextId(u)' = NextId(u) BY <1>0, SameNextId
<1>4. \A u \in Fetchers \ {f} : DeliveryOK(u)' BY <1>0, <1>1, OtherTasks
<1>5. DeliveryOK(f)' BY <1>0, <1>1, <1>2, <1>3 DEF ClientPart, DeliveryOK
<1>9. PICK n \in Messages : n = NextId(f) BY <1>2
<1>6. (\A m : Dispatching(m) => Dispatching(m)') /\ Dispatching(n)'
  BY <1>0, <1>1, <1>3, <1>9 DEF Dispatching
<1>7. MarkedIsHandled' BY <1>0, <1>6, <1>9 DEF ClientPart, MarkedIsHandled
<1>8. Counted'
  <2>1. Counted BY DEF ClientPart
  <2>2. \A u \in Fetchers : Holds(u)' <=> Holds(u) BY <1>0, <1>1 DEF Holds
  <2>3. Holds(f) BY <1>0 DEF Holds
  <2>4. n \notin raced => handled[n] <= crashes BY <1>0, <1>9, <2>1, <2>3 DEF Counted
  <2>5. \A u \in Fetchers \ {f} : Holds(u) /\ NextId(u) \notin raced => NextId(u) # n
    BY <1>9, <2>1, <2>3 DEF Counted
  <2>6. \A u \in Fetchers : Holds(u)' /\ NextId(u)' \notin raced' =>
          /\ cpc'[u] = "mark" => NextId(u)' \notin processed'
          /\ cpc'[u] = "dispatch" => handled'[NextId(u)'] <= crashes'
    BY <1>0, <1>1, <1>3, <1>9, <2>1, <2>2, <2>4, <2>5 DEF Counted
  <2>7. \A u \in Fetchers : Holds(u)' /\ NextId(u)' \notin raced' =>
          \A v \in Fetchers \ {u} : Holds(v)' => NextId(v)' # NextId(u)'
    BY <1>0, <1>3, <2>1, <2>2 DEF Counted
  <2>8. \A m \in Messages \ raced' : /\ handled'[m] <= crashes' + 1
                                     /\ m \notin processed' => handled'[m] <= crashes'
    BY <1>0, <2>1 DEF Counted
  <2> QED BY <2>6, <2>7, <2>8 DEF Counted
<1> QED BY <1>0, <1>4, <1>5, <1>6, <1>7, <1>8 DEF ClientPart, Forward

LEMMA DispatchClient ==
  ASSUME TypeOK, ClientPart, NEW f \in Fetchers, ProcessInbound(f)
  PROVE  ClientPart' /\ Forward
<1> DEFINE n == NextId(f)
<1>0. /\ cpc[f] = "dispatch" /\ frame' = frame /\ processed' = processed /\ crashes' = crashes
      /\ raced' = raced
      /\ handled' = [handled EXCEPT ![n] = @ + 1] /\ FinishId(f, n)
  BY DEF ProcessInbound, budget
<1>1. n \in todo[f] /\ n \in Messages /\ n \in processed /\ DeliveryOK(f)
  <2>1. todo[f] # {} /\ todo[f] \subseteq Messages BY <1>0 DEF ClientPart, DeliveryOK, TypeOK
  <2> QED BY <1>0, <2>1, NextIdFacts DEF ClientPart, DeliveryOK
<1> HIDE DEF n
<1>2. todo'[f] = todo[f] \ {n} /\ cpc'[f] = (IF todo[f] = {n} THEN "ack" ELSE "check")
  BY <1>0 DEF FinishId, TypeOK
<1>3. \A u \in Fetchers \ {f} : cpc'[u] = cpc[u] /\ frame'[u] = frame[u] /\ todo'[u] = todo[u]
  BY <1>0 DEF FinishId, TypeOK
<1>4. \A m \in Messages : handled[m] \in Nat BY DEF TypeOK
<1>5. handled'[n] = handled[n] + 1 /\ \A m \in Messages \ {n} : handled'[m] = handled[m]
  BY <1>0, <1>1 DEF TypeOK
<1>6. \A u \in Fetchers \ {f} : DeliveryOK(u)' /\ NextId(u)' = NextId(u)
  BY <1>0, <1>3, OtherTasks
<1>7. DeliveryOK(f)' BY <1>0, <1>1, <1>2 DEF DeliveryOK
<1>8. \A m : Dispatching(m) => m = n \/ Dispatching(m)'
  BY <1>3, <1>6 DEF Dispatching, n
<1>9. handled'[n] > 0 BY <1>1, <1>4, <1>5
<1>10. Forward BY <1>5, <1>8, <1>9 DEF Forward
<1>11. MarkedIsHandled' BY <1>0, <1>5, <1>8, <1>9 DEF ClientPart, MarkedIsHandled, TypeOK
<1>12. Counted'
  <2>1. Counted /\ crashes \in Nat BY DEF ClientPart, TypeOK
  <2>2. Holds(f) /\ ~ Holds(f)' BY <1>0, <1>2 DEF Holds
  <2>3. n \notin raced => /\ handled[n] <= crashes
                         /\ \A u \in Fetchers \ {f} : Holds(u) => NextId(u) # n
    BY <1>0, <2>1, <2>2 DEF Counted, n
  <2>4. \A m \in Messages \ raced' : /\ handled'[m] <= crashes' + 1
                                     /\ m \notin processed' => handled'[m] <= crashes'
    BY <1>0, <1>1, <1>4, <1>5, <2>1, <2>3 DEF Counted
  <2>5. \A u \in Fetchers \ {f} : Holds(u)' <=> Holds(u) BY <1>3 DEF Holds
  <2>6. ASSUME NEW u \in Fetchers, Holds(u)', NextId(u)' \notin raced'
        PROVE  /\ cpc'[u] = "mark" => NextId(u)' \notin processed'
               /\ cpc'[u] = "dispatch" => handled'[NextId(u)'] <= crashes'
               /\ \A v \in Fetchers \ {u} : Holds(v)' => NextId(v)' # NextId(u)'
    <3>1. u \in Fetchers \ {f} /\ Holds(u) /\ NextId(u)' = NextId(u) /\ NextId(u) \notin raced
      BY <1>0, <1>6, <2>2, <2>5, <2>6
    <3>2. /\ cpc[u] = "mark" => NextId(u) \notin processed
          /\ cpc[u] = "dispatch" => handled[NextId(u)] <= crashes
          /\ \A v \in Fetchers \ {u} : Holds(v) => NextId(v) # NextId(u)
      BY <2>1, <3>1 DEF Counted
    <3>3. NextId(u) # n BY <2>3, <3>1
    <3>4. cpc[u] = "dispatch" => handled'[NextId(u)] = handled[NextId(u)]
      <4>1. cpc[u] = "dispatch" => NextId(u) \in Messages BY <3>1 DEF ClientPart, DeliveryOK, TypeOK
      <4> QED BY <1>5, <3>3, <4>1
    <3>5. \A v \in Fetchers \ {u} : Holds(v)' => NextId(v)' # NextId(u)'
      BY <1>6, <2>2, <2>5, <3>1, <3>2
    <3> QED BY <1>0, <1>3, <3>1, <3>2, <3>4, <3>5
  <2> QED BY <2>4, <2>6 DEF Counted
<1> QED BY <1>6, <1>7, <1>10, <1>11, <1>12 DEF ClientPart

LEMMA CrashClient ==
  ASSUME TypeOK, ClientPart, ClientCrash
  PROVE  ClientPart'
<1>1. /\ \A f \in Fetchers : cpc'[f] = "idle" /\ frame'[f] = {} /\ todo'[f] = {}
      /\ processed' = {} /\ handled' = handled /\ raced' = raced /\ crashes' = crashes + 1
  BY DEF ClientCrash, CrashBudget
<1>2. \A f \in Fetchers : DeliveryOK(f)' BY <1>1 DEF DeliveryOK
<1>3. MarkedIsHandled' BY <1>1 DEF MarkedIsHandled
<1>4. Counted'
  <2>1. crashes \in Nat /\ \A m \in Messages : handled[m] \in Nat BY DEF TypeOK
  <2>2. \A f \in Fetchers : ~ Holds(f)' BY <1>1 DEF Holds
  <2> QED BY <1>1, <2>1, <2>2 DEF ClientPart, Counted
<1> QED BY <1>2, <1>3, <1>4 DEF ClientPart

LEMMA ClientStep ==
  ASSUME RelayInv, Next
  PROVE  ClientPart' /\ (ClientCrash \/ Forward)
<1>0. TypeOK /\ ClientPart /\ crashes \in Nat BY DEF RelayInv, ClientPart, TypeOK
<1>1. CASE ReadFrame
  <2>1. ws \in Sockets /\ chan[ws] # <<>> /\ chan[ws] \in Seq((SUBSET Messages) \ {{}})
    BY <1>0, <1>1 DEF ReadFrame, TypeOK, RelayInv, SocketOK
  <2>2. Head(chan[ws]) \in (SUBSET Messages) \ {{}} BY <2>1
  <2>3. WsLoop \in Fetchers BY DEF Fetchers
  <2>4. /\ cpc[WsLoop] = "idle" /\ Handle(WsLoop, Head(chan[ws]))
        /\ UNCHANGED <<processed, handled, raced, crashes>>
    BY <1>1 DEF ReadFrame, budget
  <2> QED BY <1>0, <2>2, <2>3, <2>4, StartDelivery
<1>2. ASSUME NEW f \in Fetchers, Poll(f) PROVE ClientPart' /\ Forward
  <2>1. /\ cpc[f] = "idle" /\ Handle(f, Oldest(Pending, PollLimit)) /\ Oldest(Pending, PollLimit) # {}
        /\ UNCHANGED <<processed, handled, raced, crashes>>
    BY <1>2 DEF Poll, budget
  <2>2. Oldest(Pending, PollLimit) \in SUBSET Messages BY <1>0, RowFacts
  <2> QED BY <1>0, <2>1, <2>2, StartDelivery
<1>3. ASSUME NEW f \in Fetchers, LoseDelivery(f) PROVE ClientPart' /\ Forward
  <2>1. /\ cpc[f] # "dispatch"
        /\ cpc' = [cpc EXCEPT ![f] = "idle"] /\ frame' = [frame EXCEPT ![f] = {}]
        /\ todo' = [todo EXCEPT ![f] = {}] /\ UNCHANGED <<processed, handled, raced, crashes>>
    BY <1>3 DEF LoseDelivery, Loss
  <2> QED BY <1>0, <2>1, EndDelivery
<1>4. ASSUME NEW f \in Fetchers, Acknowledge(f) \/ LoseAck(f) PROVE ClientPart' /\ Forward
  <2>1. ReturnFrom(f) /\ crashes' = crashes BY <1>4 DEF Acknowledge, LoseAck, Loss, budget
  <2> QED BY <1>0, <2>1, ReturnClient
<1>5. ASSUME NEW f \in Fetchers, FetchStep(f) PROVE ClientPart' /\ Forward
  BY <1>0, <1>4, <1>5, CheckClient, MarkClient, DispatchClient DEF FetchStep
<1>6. CASE ClientCrash BY <1>0, <1>6, CrashClient
<1>7. CASE MediatorCrash
  <2>1. UNCHANGED <<cpc, frame, todo, processed, handled, raced>> /\ crashes' = crashes + 1
    BY <1>7 DEF MediatorCrash, CrashBudget
  <2> QED BY <1>0, <2>1, ClientSame
<1>8. CASE Disconnect \/ \E s \in Sockets : Connect(s)
  <2>1. UNCHANGED <<cpc, frame, todo, processed, handled, raced, crashes>>
    BY <1>8 DEF Disconnect, Connect, Loss, budget
  <2> QED BY <1>0, <2>1, ClientSame
<1>9. CASE UNCHANGED <<clientVars, budget>>
  <2>1. UNCHANGED <<cpc, frame, todo, processed, handled, raced, crashes>>
    BY <1>9 DEF clientVars, budget
  <2> QED BY <1>0, <2>1, ClientSame
<1>10. ASSUME NEW m \in Messages, RejectForward(m) \/ CheckCap(m) \/ ForwardStep(m)
       PROVE  UNCHANGED <<clientVars, budget>>
  BY <1>10 DEF RejectForward, CheckCap, ForwardStep, QueueMessage, PushLive
<1>11. ASSUME NEW s \in Sockets, Identify(s) \/ FlushStep(s) \/ DeliveryRequest(s) \/ CloseSocket(s)
       PROVE  UNCHANGED <<clientVars, budget>>
  BY <1>11 DEF Identify, FlushStep, FlushTake, FlushPush, FlushFails, DeliveryRequest, CloseSocket
<1>12. ASSUME Age \/ Sweep PROVE UNCHANGED <<clientVars, budget>> BY <1>12 DEF Age, Sweep
<1> QED BY <1>1, <1>2, <1>3, <1>4, <1>5, <1>6, <1>7, <1>8, <1>9, <1>10, <1>11, <1>12 DEF Next
-----------------------------------------------------------------------------
(* The frames.                                                             *)

LEMMA PushSockets ==
  ASSUME RelayInv, NEW s \in Sockets, HasRoom(s), NEW ids \in SUBSET Messages, ids # {}, Push(s, ids)
  PROVE  \A r \in Sockets : chan'[r] \in Seq((SUBSET Messages) \ {{}})
<1>1. TypeOK /\ \A r \in Sockets : chan[r] \in Seq((SUBSET Messages) \ {{}}) BY DEF RelayInv, SocketOK
<1>2. chan'[s] = Append(chan[s], ids) /\ \A r \in Sockets \ {s} : chan'[r] = chan[r]
  BY <1>1, PushTypes
<1>3. Append(chan[s], ids) \in Seq((SUBSET Messages) \ {{}}) BY <1>1
<1> QED BY <1>1, <1>2, <1>3

LEMMA SocketStep ==
  ASSUME RelayInv, Next, NEW s \in Sockets
  PROVE  SocketOK(s)'
<1>0. TypeOK /\ (\A r \in Sockets : SocketOK(r)) BY DEF RelayInv
<1>1. CASE UNCHANGED <<chan, flushpc, batch>> BY <1>0, <1>1 DEF SocketOK
<1>2. ASSUME NEW m \in Messages, PushLive(m) PROVE SocketOK(s)'
  <2>1. CASE HasRoom(session)
    <3>1. session \in Sockets /\ Push(session, {m}) BY <1>2, <2>1 DEF PushLive, HasRoom
    <3>2. chan'[s] \in Seq((SUBSET Messages) \ {{}}) BY <2>1, <3>1, PushSockets
    <3> QED BY <1>0, <1>2, <3>2 DEF PushLive, SocketOK
  <2>2. CASE ~ HasRoom(session) BY <1>1, <1>2, <2>2 DEF PushLive
  <2> QED BY <2>1, <2>2
<1>3. ASSUME NEW r \in Sockets, Identify(r) PROVE SocketOK(s)'
  BY <1>0, <1>3 DEF Identify, SocketOK, TypeOK
<1>4. ASSUME NEW r \in Sockets, FlushTake(r) PROVE SocketOK(s)'
  BY <1>0, <1>4 DEF FlushTake, SocketOK, TypeOK
<1>5. ASSUME NEW r \in Sockets, FlushPush(r) PROVE SocketOK(s)'
  <2>1. /\ session \in Sockets /\ HasRoom(session) /\ Push(session, batch[r])
        /\ batch[r] \in SUBSET Messages /\ batch[r] # {}
    BY <1>0, <1>5 DEF FlushPush, HasRoom, SocketOK, TypeOK
  <2>2. chan'[s] \in Seq((SUBSET Messages) \ {{}}) BY <2>1, PushSockets
  <2>3. flushpc'[s] = "push" => flushpc[s] = "push" /\ batch'[s] = batch[s]
    BY <1>0, <1>5 DEF FlushPush, TypeOK
  <2> QED BY <1>0, <2>2, <2>3 DEF SocketOK
<1>6. ASSUME NEW r \in Sockets, FlushFails(r) PROVE SocketOK(s)'
  BY <1>0, <1>6 DEF FlushFails, SocketOK, TypeOK
<1>7. ASSUME NEW r \in Sockets, DeliveryRequest(r) PROVE SocketOK(s)'
  <2>1. CASE HasRoom(r)
    <3>1. Push(r, Oldest(Pending, PollLimit)) /\ Oldest(Pending, PollLimit) # {}
      BY <1>7, <2>1 DEF DeliveryRequest
    <3>2. Oldest(Pending, PollLimit) \in SUBSET Messages BY <1>0, RowFacts
    <3>3. chan'[s] \in Seq((SUBSET Messages) \ {{}}) BY <2>1, <3>1, <3>2, PushSockets
    <3> QED BY <1>0, <1>7, <3>3 DEF DeliveryRequest, SocketOK
  <2>2. CASE ~ HasRoom(r) BY <1>1, <1>7, <2>2 DEF DeliveryRequest
  <2> QED BY <2>1, <2>2
<1>8. ASSUME NEW r \in Sockets, CloseSocket(r) PROVE SocketOK(s)'
  <2>1. chan'[s] = chan[s] \/ chan'[s] = <<>> BY <1>0, <1>8 DEF CloseSocket, TypeOK
  <2>2. <<>> \in Seq((SUBSET Messages) \ {{}}) OBVIOUS
  <2> QED BY <1>0, <1>8, <2>1, <2>2 DEF CloseSocket, SocketOK
<1>9. CASE ReadFrame
  <2>1. ws \in Sockets /\ chan[ws] # <<>> /\ chan[ws] \in Seq((SUBSET Messages) \ {{}})
    BY <1>0, <1>9 DEF ReadFrame, TypeOK, SocketOK
  <2>2. Tail(chan[ws]) \in Seq((SUBSET Messages) \ {{}}) BY <2>1
  <2>3. chan'[s] = chan[s] \/ chan'[s] = Tail(chan[ws])
    BY <1>0, <1>9 DEF ReadFrame, TypeOK
  <2> QED BY <1>0, <1>9, <2>2, <2>3 DEF ReadFrame, SocketOK
<1>10. CASE MediatorCrash
  <2>1. chan'[s] = <<>> /\ flushpc'[s] # "push" BY <1>10 DEF MediatorCrash
  <2>2. <<>> \in Seq((SUBSET Messages) \ {{}}) OBVIOUS
  <2> QED BY <2>1, <2>2 DEF SocketOK
<1>11. CASE ClientCrash \/ Disconnect \/ \E r \in Sockets : Connect(r)
  <2>1. UNCHANGED <<chan, flushpc, batch>> BY <1>11 DEF ClientCrash, Disconnect, Connect
  <2> QED BY <1>1, <2>1
<1>12. CASE Age \/ Sweep
  <2>1. UNCHANGED <<chan, flushpc, batch>> BY <1>12 DEF Age, Sweep, sessionVars
  <2> QED BY <1>1, <2>1
<1>13. ASSUME NEW m \in Messages, RejectForward(m) \/ CheckCap(m) \/ QueueMessage(m)
       PROVE  SocketOK(s)'
  <2>1. UNCHANGED <<chan, flushpc, batch>>
    BY <1>13 DEF RejectForward, CheckCap, QueueMessage, sessionVars
  <2> QED BY <1>1, <2>1
<1>14. ASSUME NEW f \in Fetchers, Poll(f) \/ FetchStep(f) \/ LoseDelivery(f) \/ LoseAck(f)
       PROVE  SocketOK(s)'
  <2>1. UNCHANGED <<chan, flushpc, batch>>
    BY <1>14 DEF Poll, FetchStep, CheckProcessed, MarkProcessed, ProcessInbound, Acknowledge,
                 LoseDelivery, LoseAck, sessionVars
  <2> QED BY <1>1, <2>1
<1> QED BY <1>2, <1>3, <1>4, <1>5, <1>6, <1>7, <1>8, <1>9, <1>10, <1>11, <1>12, <1>13, <1>14
           DEF Next, ForwardStep, FlushStep
-----------------------------------------------------------------------------
(* What was pushed to the registered socket.                               *)

\* A step that makes nothing Pending and accepted, drains no flush and registers no
\* socket.
LEMMA PushKept ==
  ASSUME PushedOrTaken, session' = session \/ session' = None,
         \A s \in Sockets : (Drained(s)' => Drained(s)) /\ sent[s] \subseteq sent'[s],
         dropped \subseteq dropped',
         \A m \in Messages : row'[m] = "pending" /\ fpc'[m] = "done" =>
                               row[m] = "pending" /\ fpc[m] = "done"
  PROVE  PushedOrTaken'
<1> SUFFICES ASSUME NEW s \in Sockets, NEW m \in Messages, session' = s, Drained(s)',
                    row'[m] = "pending", fpc'[m] = "done"
             PROVE  m \in sent'[s] \/ m \in dropped'
  BY DEF PushedOrTaken
<1>1. session = s BY RelayAssumption
<1> QED BY <1>1 DEF PushedOrTaken

LEMMA PushStep ==
  ASSUME RelayInv, Next
  PROVE  PushedOrTaken'
<1>0. TypeOK /\ PushedOrTaken BY DEF RelayInv
<1>1. ASSUME UNCHANGED <<session, flushpc, batch>>,
             \A s \in Sockets : sent[s] \subseteq sent'[s], dropped \subseteq dropped',
             \A m \in Messages : row'[m] = "pending" /\ fpc'[m] = "done" =>
                                   row[m] = "pending" /\ fpc[m] = "done"
      PROVE  PushedOrTaken'
  <2>1. \A s \in Sockets : Drained(s)' => Drained(s) BY <1>1 DEF Drained
  <2> QED BY <1>0, <1>1, <2>1, PushKept
<1>2. ASSUME NEW n \in Messages, RejectForward(n) \/ CheckCap(n) \/ QueueMessage(n)
      PROVE  PushedOrTaken'
  <2>1. UNCHANGED <<session, flushpc, batch, sent, dropped>>
    BY <1>2 DEF RejectForward, CheckCap, QueueMessage, sessionVars
  <2>2. \A m \in Messages : row'[m] = "pending" /\ fpc'[m] = "done" =>
                              row[m] = "pending" /\ fpc[m] = "done"
    <3>1. CASE RejectForward(n) BY <1>0, <3>1 DEF RejectForward, TypeOK
    <3>2. CASE CheckCap(n)
      <4>1. \A m \in Messages : row'[m] \in {row[m], Absent}
        BY <1>0, <3>2, RowFacts DEF CheckCap
      <4>2. \A m \in Messages : fpc'[m] = "done" => fpc[m] = "done"
        BY <1>0, <3>2 DEF CheckCap, TypeOK
      <4> QED BY <4>1, <4>2 DEF Absent
    <3>3. CASE QueueMessage(n) BY <1>0, <3>3 DEF QueueMessage, TypeOK
    <3> QED BY <1>2, <3>1, <3>2, <3>3
  <2> QED BY <1>1, <2>1, <2>2
<1>3. ASSUME NEW n \in Messages, PushLive(n) PROVE PushedOrTaken'
  <2>0. UNCHANGED <<session, flushpc, batch, row>> BY <1>3 DEF PushLive
  <2>1. \A m \in Messages \ {n} : fpc'[m] = fpc[m] BY <1>0, <1>3 DEF PushLive, TypeOK
  <2>2. /\ \A s \in Sockets : sent[s] \subseteq sent'[s] /\ (session = s => n \in sent'[s] \/ n \in dropped')
        /\ dropped \subseteq dropped'
    <3>1. CASE HasRoom(session)
      <4>1. session \in Sockets /\ Push(session, {n}) /\ dropped' = dropped
        BY <1>3, <3>1 DEF PushLive, HasRoom
      <4> QED BY <1>0, <3>1, <4>1, PushTypes
    <3>2. CASE ~ HasRoom(session)
      <4>1. /\ dropped' = (IF session = None THEN dropped ELSE dropped \cup {n}) /\ sent' = sent
        BY <1>3, <3>2 DEF PushLive
      <4> QED BY <4>1, RelayAssumption
    <3> QED BY <3>1, <3>2
  <2> SUFFICES ASSUME NEW s \in Sockets, NEW m \in Messages, session' = s, Drained(s)',
                      row'[m] = "pending", fpc'[m] = "done"
               PROVE  m \in sent'[s] \/ m \in dropped'
    BY DEF PushedOrTaken
  <2>3. CASE m = n BY <2>0, <2>2, <2>3
  <2>4. CASE m # n BY <1>0, <2>0, <2>1, <2>2, <2>4 DEF PushedOrTaken, Drained
  <2> QED BY <2>3, <2>4
<1>4. ASSUME NEW r \in Sockets, Identify(r) PROVE PushedOrTaken'
  <2>1. session' = r /\ flushpc'[r] = "take" BY <1>0, <1>4 DEF Identify, TypeOK
  <2> QED BY <2>1 DEF PushedOrTaken, Drained
<1>5. ASSUME NEW r \in Sockets, FlushTake(r) PROVE PushedOrTaken'
  <2> DEFINE taken == Oldest(Pending, ReplayBatch)
  <2>0. UNCHANGED <<fpc, session, sent, dropped>> BY <1>5 DEF FlushTake
  <2>1. taken \in SUBSET Messages /\ Pending \in SUBSET Messages BY <1>0, RowFacts
  <2>2. ReplayBatch \in Nat \ {0} BY RelayAssumption
  <2>3. /\ Cardinality(taken) < ReplayBatch => taken = Pending
        /\ taken = {} => Pending = {}
    BY <2>1, <2>2, OldestFacts
  <2>4. /\ batch'[r] = taken /\ flushpc'[r] = IF taken = {} THEN "done" ELSE "push"
        /\ \A s \in Sockets \ {r} : batch'[s] = batch[s] /\ flushpc'[s] = flushpc[s]
        /\ row' = MarkSending(taken)
    BY <1>0, <1>5 DEF FlushTake, TypeOK
  <2>5. \A m \in Messages : row'[m] = "pending" => row[m] = "pending" /\ m \notin taken
    BY <1>0, <2>1, <2>4, RowFacts
  <2> HIDE DEF taken
  <2>6. Drained(r)' => \A m \in Messages : row'[m] # "pending"
    <3>1. ASSUME Drained(r)' PROVE taken = Pending BY <2>3, <2>4, <3>1 DEF Drained
    <3> QED BY <2>5, <3>1 DEF Pending
  <2>7. \A s \in Sockets \ {r} : Drained(s)' => Drained(s) BY <2>4 DEF Drained
  <2> QED BY <1>0, <2>0, <2>5, <2>6, <2>7 DEF PushedOrTaken
<1>6. ASSUME NEW r \in Sockets, FlushPush(r) PROVE PushedOrTaken'
  <2>1. session \in Sockets /\ HasRoom(session) /\ Push(session, batch[r]) /\ batch[r] \in SUBSET Messages
    BY <1>0, <1>6 DEF FlushPush, HasRoom, TypeOK
  <2>2. \A s \in Sockets : sent[s] \subseteq sent'[s] BY <1>0, <2>1, PushTypes
  <2>3. UNCHANGED <<row, fpc, session, dropped>> BY <1>6 DEF FlushPush, queueVars
  <2>4. /\ flushpc[r] = "push"
        /\ flushpc'[r] = IF Cardinality(batch[r]) < ReplayBatch THEN "done" ELSE "take"
        /\ \A s \in Sockets \ {r} : batch'[s] = batch[s] /\ flushpc'[s] = flushpc[s]
    BY <1>0, <1>6 DEF FlushPush, TypeOK
  <2>5. \A s \in Sockets : Drained(s)' => Drained(s) BY <2>4 DEF Drained
  <2> QED BY <1>0, <2>2, <2>3, <2>5, PushKept
<1>7. ASSUME NEW r \in Sockets, FlushFails(r) PROVE PushedOrTaken'
  <2>1. UNCHANGED <<row, fpc, session, sent, dropped>> BY <1>7 DEF FlushFails, queueVars
  <2>2. /\ flushpc'[r] = "failed"
        /\ \A s \in Sockets \ {r} : batch'[s] = batch[s] /\ flushpc'[s] = flushpc[s]
    BY <1>0, <1>7 DEF FlushFails, TypeOK
  <2>3. \A s \in Sockets : Drained(s)' => Drained(s) BY <2>2 DEF Drained
  <2> QED BY <1>0, <2>1, <2>3, PushKept
<1>8. ASSUME NEW r \in Sockets, DeliveryRequest(r) PROVE PushedOrTaken'
  <2>1. UNCHANGED <<fpc, session, flushpc, batch, dropped>> BY <1>8 DEF DeliveryRequest
  <2>2. \A m \in Messages : row'[m] = "pending" => row[m] = "pending"
    BY <1>0, <1>8, RowFacts DEF DeliveryRequest
  <2>3. \A s \in Sockets : sent[s] \subseteq sent'[s]
    <3>1. CASE HasRoom(r)
      <4>1. Push(r, Oldest(Pending, PollLimit)) BY <1>8, <3>1 DEF DeliveryRequest
      <4>2. Oldest(Pending, PollLimit) \in SUBSET Messages BY <1>0, RowFacts
      <4> QED BY <1>0, <3>1, <4>1, <4>2, PushTypes
    <3>2. CASE ~ HasRoom(r) BY <1>8, <3>2 DEF DeliveryRequest
    <3> QED BY <3>1, <3>2
  <2> QED BY <1>1, <2>1, <2>2, <2>3
<1>9. ASSUME NEW r \in Sockets, CloseSocket(r) PROVE PushedOrTaken'
  <2>1. UNCHANGED <<row, fpc, flushpc, batch, sent, dropped>> BY <1>9 DEF CloseSocket, queueVars
  <2>2. session' = session \/ session' = None BY <1>9 DEF CloseSocket
  <2>3. \A s \in Sockets : Drained(s)' => Drained(s) BY <2>1 DEF Drained
  <2> QED BY <1>0, <2>1, <2>2, <2>3, PushKept
<1>10. CASE MediatorCrash
  <2>1. session' = None BY <1>10 DEF MediatorCrash
  <2> QED BY <2>1, RelayAssumption DEF PushedOrTaken
<1>11. CASE Age \/ Sweep
  <2>1. UNCHANGED <<session, flushpc, batch, sent, dropped, fpc>> BY <1>11 DEF Age, Sweep, sessionVars
  <2>2. \A m \in Messages : row'[m] = "pending" => row[m] = "pending"
    BY <1>0, <1>11, RowFacts DEF Age, Sweep, Absent
  <2> QED BY <1>1, <2>1, <2>2
<1>12. CASE ClientCrash \/ Disconnect \/ ReadFrame \/ \E r \in Sockets : Connect(r)
  <2>1. UNCHANGED <<session, flushpc, batch, sent, dropped, fpc, row>>
    BY <1>12 DEF ClientCrash, Disconnect, ReadFrame, Connect, queueVars
  <2> QED BY <1>1, <2>1
<1>13. ASSUME NEW f \in Fetchers,
              CheckProcessed(f) \/ MarkProcessed(f) \/ ProcessInbound(f) \/ LoseDelivery(f) \/ LoseAck(f)
       PROVE  PushedOrTaken'
  <2>1. UNCHANGED <<session, flushpc, batch, sent, dropped, fpc, row>>
    BY <1>13 DEF CheckProcessed, MarkProcessed, ProcessInbound, LoseDelivery, LoseAck, sessionVars,
                 queueVars
  <2> QED BY <1>1, <2>1
<1>14. ASSUME NEW f \in Fetchers, Poll(f) \/ Acknowledge(f) PROVE PushedOrTaken'
  <2>1. UNCHANGED <<session, flushpc, batch, sent, dropped, fpc>>
    BY <1>14 DEF Poll, Acknowledge, sessionVars
  <2>2. \A m \in Messages : row'[m] = "pending" => row[m] = "pending"
    <3>1. CASE Poll(f) BY <1>0, <3>1, RowFacts DEF Poll
    <3>2. CASE Acknowledge(f)
      <4>1. row' = RemoveRows(frame[f]) /\ frame[f] \in SUBSET Messages
        BY <1>0, <3>2 DEF Acknowledge, TypeOK
      <4> QED BY <1>0, <4>1, RowFacts DEF Absent
    <3> QED BY <1>14, <3>1, <3>2
  <2> QED BY <1>1, <2>1, <2>2
<1> QED BY <1>2, <1>3, <1>4, <1>5, <1>6, <1>7, <1>8, <1>9, <1>10, <1>11, <1>12, <1>13, <1>14
           DEF Next, ForwardStep, FlushStep, FetchStep
-----------------------------------------------------------------------------
(* The rows of accepted messages.                                          *)

\* A step that removes, of the accepted messages, only expired ones.
LEMMA RowsSame ==
  ASSUME TypeOK, RowsKept, Forward, cutoff' \in Nat, cutoff <= cutoff',
         \A m \in Messages : fpc'[m] \in {"push", "done"} /\ row'[m] = Absent =>
           (fpc[m] \in {"push", "done"} /\ row[m] = Absent) \/ m <= cutoff
  PROVE  RowsKept'
<1> SUFFICES ASSUME NEW m \in Messages, fpc'[m] \in {"push", "done"}, row'[m] = Absent
             PROVE  Excused(m)'
  BY DEF RowsKept, Absent
<1>1. m \in Nat /\ cutoff \in Nat BY RelayAssumption DEF TypeOK
<1>2. Excused(m) BY DEF RowsKept, Excused
<1>3. CASE m <= cutoff BY <1>1, <1>3 DEF Excused
<1>4. CASE handled[m] > 0 BY <1>4 DEF Forward, Excused
<1>5. CASE Pollers # {} /\ Dispatching(m) BY <1>5 DEF Forward, Excused
<1> QED BY <1>2, <1>3, <1>4, <1>5 DEF Excused

\* Crashes are counted.
LEMMA CrashesCounted ==
  ASSUME Next
  PROVE  crashes' = crashes \/ crashes' = crashes + 1
<1>1. CASE MediatorCrash \/ ClientCrash BY <1>1 DEF MediatorCrash, ClientCrash, CrashBudget
<1>2. CASE Disconnect \/ ReadFrame \/ Age \/ Sweep
  BY <1>2 DEF Disconnect, Loss, ReadFrame, Age, Sweep, budget
<1>3. ASSUME NEW m \in Messages, RejectForward(m) \/ CheckCap(m) \/ ForwardStep(m)
      PROVE  crashes' = crashes
  BY <1>3 DEF RejectForward, CheckCap, ForwardStep, QueueMessage, PushLive, budget
<1>4. ASSUME NEW s \in Sockets,
             Connect(s) \/ Identify(s) \/ FlushStep(s) \/ DeliveryRequest(s) \/ CloseSocket(s)
      PROVE  crashes' = crashes
  BY <1>4 DEF Connect, Identify, FlushStep, FlushTake, FlushPush, FlushFails, DeliveryRequest,
              CloseSocket, budget
<1>5. ASSUME NEW f \in Fetchers, Poll(f) \/ FetchStep(f) \/ LoseDelivery(f) \/ LoseAck(f)
      PROVE  crashes' = crashes
  BY <1>5 DEF Poll, FetchStep, CheckProcessed, MarkProcessed, ProcessInbound, Acknowledge,
              LoseDelivery, LoseAck, Loss, budget
<1> QED BY <1>1, <1>2, <1>3, <1>4, <1>5 DEF Next

LEMMA RowsStep ==
  ASSUME RelayInv, Next, Pollers = {} \/ crashes' = 0
  PROVE  RowsKept'
<1>0. TypeOK /\ RowsKept /\ cutoff \in Nat /\ crashes \in Nat
  <2>1. TypeOK /\ cutoff \in Nat /\ crashes \in Nat BY DEF RelayInv, TypeOK
  <2>2. Pollers = {} \/ crashes = 0 BY <2>1, CrashesCounted
  <2> QED BY <2>1, <2>2 DEF RelayInv
<1>1. CASE ClientCrash
  <2>1. Pollers = {} BY <1>0, <1>1 DEF ClientCrash, CrashBudget
  <2>2. UNCHANGED <<row, fpc, cutoff, handled>> BY <1>1 DEF ClientCrash, queueVars
  <2> QED BY <1>0, <2>1, <2>2 DEF RowsKept, Excused
<1>2. SUFFICES ASSUME ~ ClientCrash PROVE RowsKept' BY <1>1
<1>3. Forward BY <1>2, ClientStep
<1>4. ASSUME cutoff' \in Nat, cutoff <= cutoff',
             \A m \in Messages : fpc'[m] \in {"push", "done"} /\ row'[m] = Absent =>
               (fpc[m] \in {"push", "done"} /\ row[m] = Absent) \/ m <= cutoff
      PROVE  RowsKept'
  BY <1>0, <1>3, <1>4, RowsSame
<1>5. \A m \in Messages : m \in Expired => m <= cutoff BY DEF Expired
<1>6. ASSUME NEW n \in Messages, RejectForward(n) PROVE RowsKept'
  BY <1>0, <1>4, <1>6 DEF RejectForward, TypeOK
<1>7. ASSUME NEW n \in Messages, CheckCap(n) PROVE RowsKept'
  <2>1. \A m \in Messages : row'[m] = Absent => row[m] = Absent \/ m \in Expired
    BY <1>0, <1>7, RowFacts DEF CheckCap
  <2>2. \A m \in Messages : fpc'[m] \in {"push", "done"} => fpc[m] \in {"push", "done"}
    BY <1>0, <1>7 DEF CheckCap, TypeOK
  <2>3. cutoff' = cutoff BY <1>7 DEF CheckCap
  <2> QED BY <1>0, <1>4, <1>5, <2>1, <2>2, <2>3
<1>8. ASSUME NEW n \in Messages, QueueMessage(n) PROVE RowsKept'
  <2>1. row'[n] = "pending" /\ (\A m \in Messages \ {n} : row'[m] = row[m] /\ fpc'[m] = fpc[m])
    BY <1>0, <1>8 DEF QueueMessage, TypeOK
  <2>2. cutoff' = cutoff BY <1>8 DEF QueueMessage
  <2> QED BY <1>0, <1>4, <2>1, <2>2 DEF Absent
<1>9. ASSUME NEW n \in Messages, PushLive(n) PROVE RowsKept'
  <2>1. \A m \in Messages : fpc'[m] \in {"push", "done"} => fpc[m] \in {"push", "done"}
    BY <1>0, <1>9 DEF PushLive, TypeOK
  <2>2. row' = row /\ cutoff' = cutoff BY <1>9 DEF PushLive
  <2> QED BY <1>0, <1>4, <2>1, <2>2
<1>10. CASE UNCHANGED queueVars BY <1>0, <1>4, <1>10 DEF queueVars
<1>11. ASSUME UNCHANGED <<fpc, cutoff>>, \A m \in Messages : row'[m] = Absent => row[m] = Absent
       PROVE  RowsKept'
  BY <1>0, <1>4, <1>11
<1>12. ASSUME NEW r \in Sockets, FlushTake(r) \/ DeliveryRequest(r) PROVE RowsKept'
  <2>1. \A m \in Messages : row'[m] = Absent => row[m] = Absent
    BY <1>0, <1>12, RowFacts DEF FlushTake, DeliveryRequest, Absent
  <2> QED BY <1>11, <1>12, <2>1 DEF FlushTake, DeliveryRequest
<1>13. ASSUME NEW r \in Sockets,
              Connect(r) \/ Identify(r) \/ FlushPush(r) \/ FlushFails(r) \/ CloseSocket(r)
       PROVE  RowsKept'
  <2>1. UNCHANGED queueVars BY <1>13 DEF Connect, Identify, FlushPush, FlushFails, CloseSocket
  <2> QED BY <1>10, <2>1
<1>14. CASE Disconnect \/ ReadFrame BY <1>10, <1>14 DEF Disconnect, ReadFrame
<1>15. ASSUME NEW f \in Fetchers,
              CheckProcessed(f) \/ MarkProcessed(f) \/ ProcessInbound(f) \/ LoseDelivery(f) \/ LoseAck(f)
       PROVE  RowsKept'
  <2>1. UNCHANGED queueVars
    BY <1>15 DEF CheckProcessed, MarkProcessed, ProcessInbound, LoseDelivery, LoseAck
  <2> QED BY <1>10, <2>1
<1>16. ASSUME NEW f \in Fetchers, Poll(f) PROVE RowsKept'
  <2>1. \A m \in Messages : row'[m] = Absent => row[m] = Absent
    BY <1>0, <1>16, RowFacts DEF Poll, Absent
  <2> QED BY <1>11, <1>16, <2>1 DEF Poll
<1>17. ASSUME NEW f \in Fetchers, Acknowledge(f) PROVE RowsKept'
  <2>0. /\ row' = RemoveRows(frame[f]) /\ frame[f] \in SUBSET Messages /\ cpc[f] = "ack"
        /\ handled' = handled /\ fpc' = fpc /\ cutoff' = cutoff
    BY <1>0, <1>17 DEF Acknowledge, ReturnFrom, TypeOK
  <2>1. \A m \in Messages : row'[m] = Absent => row[m] = Absent \/ m \in frame[f]
    BY <1>0, <2>0, RowFacts
  <2>2. frame[f] \subseteq processed BY <2>0 DEF RelayInv, DeliveryOK
  <2>3. ASSUME NEW m \in frame[f] PROVE Excused(m)
    <3>1. handled[m] > 0 \/ Dispatching(m) BY <2>2 DEF RelayInv, MarkedIsHandled
    <3>2. Pollers = {} => ~ Dispatching(m) BY <2>0 DEF Dispatching, Fetchers
    <3> QED BY <3>1, <3>2 DEF Excused
  <2> SUFFICES ASSUME NEW m \in Messages, fpc'[m] \in {"push", "done"}, row'[m] = Absent
               PROVE  Excused(m)'
    BY DEF RowsKept, Absent
  <2>4. Excused(m) BY <1>0, <2>0, <2>1, <2>3 DEF RowsKept
  <2> QED BY <1>3, <2>0, <2>4 DEF Excused, Forward
<1>18. CASE Age
  <2>1. /\ UNCHANGED <<row, fpc>> /\ cutoff' \in Nat /\ cutoff <= cutoff'
    BY <1>0, <1>18, RelayAssumption DEF Age
  <2> QED BY <1>4, <2>1
<1>19. CASE Sweep
  <2>1. \A m \in Messages : row'[m] = Absent => row[m] = Absent \/ m \in Expired
    BY <1>0, <1>19, RowFacts DEF Sweep
  <2>2. UNCHANGED <<fpc, cutoff>> BY <1>19 DEF Sweep
  <2> QED BY <1>0, <1>4, <1>5, <2>1, <2>2
<1>20. CASE MediatorCrash
  <2>1. \A m \in Messages : /\ row'[m] = Absent => row[m] = Absent
                            /\ fpc'[m] \in {"push", "done"} => fpc[m] \in {"push", "done"}
    BY <1>0, <1>20 DEF MediatorCrash, TypeOK, Absent
  <2>2. cutoff' = cutoff BY <1>20 DEF MediatorCrash
  <2> QED BY <1>0, <1>4, <2>1, <2>2
<1> QED BY <1>2, <1>6, <1>7, <1>8, <1>9, <1>12, <1>13, <1>14, <1>15, <1>16, <1>17, <1>18, <1>19,
           <1>20 DEF Next, ForwardStep, FlushStep, FetchStep
-----------------------------------------------------------------------------
(* The theorems.                                                           *)

LEMMA RelayInit == Init => RelayInv
<1> SUFFICES ASSUME Init PROVE RelayInv OBVIOUS
<1>1. Len(<<>>) = 0 /\ <<>> \in Seq(SUBSET Messages) /\ <<>> \in Seq((SUBSET Messages) \ {{}})
      /\ 0 <= ChannelCap
  BY RelayAssumption
<1>2. QueueTypes BY DEF Init, QueueTypes, Rows, Absent
<1>3. SessionTypes BY <1>1 DEF Init, SessionTypes
<1>4. ClientTypes BY DEF Init, ClientTypes
<1>5. TypeOK BY <1>2, <1>3, <1>4, TypeParts
<1>6. \A f \in Fetchers : DeliveryOK(f) BY DEF Init, DeliveryOK
<1>7. \A s \in Sockets : SocketOK(s) BY <1>1 DEF Init, SocketOK
<1>8. MarkedIsHandled /\ RowsKept BY DEF Init, MarkedIsHandled, RowsKept
<1>9. PushedOrTaken BY RelayAssumption DEF Init, PushedOrTaken
<1>10. Counted BY DEF Init, Counted, Holds
<1> QED BY <1>5, <1>6, <1>7, <1>8, <1>9, <1>10 DEF RelayInv

LEMMA RelayStep == RelayInv /\ [Next]_vars => RelayInv'
<1> SUFFICES ASSUME RelayInv, [Next]_vars PROVE RelayInv' OBVIOUS
<1>1. TypeOK' BY TypeStep DEF RelayInv
<1>2. CASE Next
  <2>1. \A s \in Sockets : SocketOK(s)' BY <1>2, SocketStep
  <2>2. ClientPart' BY <1>2, ClientStep
  <2>3. PushedOrTaken' BY <1>2, PushStep
  <2>4. Pollers = {} \/ crashes' = 0 => RowsKept' BY <1>2, RowsStep
  <2> QED BY <1>1, <2>1, <2>2, <2>3, <2>4 DEF RelayInv, ClientPart
<1>3. CASE UNCHANGED vars
  <2>0. /\ UNCHANGED <<row, fpc, cutoff, session, chan, flushpc, batch, sent, dropped>>
        /\ UNCHANGED <<cpc, frame, todo, processed, handled, raced, crashes>>
    BY <1>3 DEF vars, queueVars, sessionVars, clientVars, budget
  <2>1. TypeOK /\ ClientPart /\ crashes \in Nat BY DEF RelayInv, ClientPart, TypeOK
  <2>2. ClientPart' /\ Forward BY <2>0, <2>1, ClientSame
  <2>3. \A s \in Sockets : SocketOK(s)' BY <2>0 DEF RelayInv, SocketOK
  <2>4. PushedOrTaken' BY <2>0 DEF RelayInv, PushedOrTaken, Drained
  <2>5. RowsKept => RowsKept'
    <3>1. cutoff \in Nat BY <2>1 DEF TypeOK
    <3> QED BY <2>0, <2>1, <2>2, <3>1, RowsSame
  <2> QED BY <1>1, <2>0, <2>2, <2>3, <2>4, <2>5 DEF RelayInv, ClientPart
<1> QED BY <1>2, <1>3

\* The invariant holds in every behaviour.
THEOREM RelayInvariant == Spec => []RelayInv
BY RelayInit, RelayStep, PTL DEF Spec

\* Every variable of the mediator and the recipient keeps its type; no push channel
\* holds more than WS_PUSH_CHANNEL_CAP frames.
THEOREM TypeCorrect == Spec => []TypeOK
<1>1. RelayInv => TypeOK BY DEF RelayInv
<1> QED BY <1>1, RelayInvariant, PTL

\* Once the flush of the registered socket has drained the queue, a message that
\* process_forward accepted and that is still Pending was pushed to that socket,
\* unless its channel was full, whatever losses, polls and crashes came between.
THEOREM NoWakeUpMissed == Spec => []NoMissedPush
<1>1. RelayInv => NoMissedPush
  BY DEF RelayInv, PushedOrTaken, Drained, NoMissedPush, Accepted
<1> QED BY <1>1, RelayInvariant, PTL

\* An accepted message leaves the queue only when it has expired or the recipient
\* has handled it or is about to: always, if the recipient reads through one task,
\* and until something crashes, if it reads through several.  (A second task that
\* finds the message marked acknowledges it while the first has yet to hand it over,
\* and a crash of the recipient then loses it.)
THEOREM AcceptedNotLost == Spec => [](Pollers = {} \/ crashes = 0 => NothingLost)
<1>1. RelayInv => (Pollers = {} \/ crashes = 0 => NothingLost)
  <2> SUFFICES ASSUME RelayInv, Pollers = {} \/ crashes = 0, NEW m \in Messages, fpc[m] = "done", row[m] = Absent
               PROVE  m <= cutoff \/ handled[m] > 0 \/ InProcess(m)
    BY DEF NothingLost, Accepted
  <2>1. Excused(m) BY DEF RelayInv, RowsKept
  <2>2. Dispatching(m) => InProcess(m)
    <3>1. ASSUME NEW f \in Fetchers, cpc[f] = "dispatch", NextId(f) = m PROVE m \in todo[f]
      <4>1. todo[f] # {} /\ todo[f] \subseteq Messages BY <3>1 DEF RelayInv, DeliveryOK, TypeOK
      <4> QED BY <3>1, <4>1, NextIdFacts
    <3> QED BY <3>1 DEF Dispatching, InProcess
  <2> QED BY <2>1, <2>2 DEF Excused
<1> QED BY <1>1, RelayInvariant, PTL

\* However many tasks the recipient reads through, and however often a message is
\* pushed, replayed, polled or sent again after a lost ACK, it is handed to
\* process_inbound_http at most once per run of the process, unless two tasks looked
\* it up before either marked it.
THEOREM HandledOncePerRun == Spec => []HandledOnce
<1>1. RelayInv => HandledOnce
  <2>1. ASSUME RelayInv PROVE HandledOnce
    <3>1. crashes \in Nat /\ \A m \in Messages : handled[m] \in Nat BY <2>1 DEF RelayInv, TypeOK
    <3> QED BY <2>1, <3>1 DEF RelayInv, Counted, HandledOnce
  <2> QED BY <2>1
<1> QED BY <1>1, RelayInvariant, PTL
=============================================================================
