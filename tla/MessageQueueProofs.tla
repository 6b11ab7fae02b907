------------------------- MODULE MessageQueueProofs -------------------------
(***************************************************************************)
(* Proofs about MessageQueue, for every set of messages, connections and   *)
(* calls and any number of storage failures and crashes: the safety        *)
(* properties that the run queue_crash checks, and the refinement of       *)
(* DurableQueue.                                                           *)
(*                                                                         *)
(* The inductive invariant IInv says what each await may assume: Loading   *)
(* (what a crash leaves behind), Locking (who is inside a critical         *)
(* section), Provenance (where a cached or stored message comes from),     *)
(* Holding (a delivery's messages are not pending), Justified (nothing is  *)
(* deleted without a reason), Kept and Indexed (the two maps).             *)
(***************************************************************************)
EXTENDS MessageQueue, TLAPS

Loading ==
  /\ indexed => loaded
  /\ ~loaded => /\ \A m \in Messages : /\ cache[m] = Absent
                                       /\ apc[m] \notin {"persist", "cache"}
                /\ \A t \in Takers : got[t] = {}

Locking ==
  /\ \A t \in Takers : tpc[t] = "return" => lock = t
  /\ \A r \in Removers : rpc[r] = "delete" => lock = r

Provenance ==
  /\ \A m \in Messages : cache[m] # Absent => disk[m] # Absent /\ m \in Known
  /\ \A m \in Messages : disk[m] # Absent => apc[m] \in {"cache", "done", "unconfirmed"}
  /\ \A m \in Messages : apc[m] = "cache" => disk[m] # Absent
  /\ \A c \in Connections : index[c] \subseteq Known
  /\ \A t \in Takers : got[t] \subseteq Known
  /\ \A r \in Removers : todo[r] \subseteq Known

Holding ==
  /\ \A t \in Takers : tpc[t] = "idle" => got[t] = {}
  /\ \A t \in Takers : \A m \in got[t] : cache[m] # "pending"
  /\ SendingIsHeld
  /\ TakesAreDisjoint

Justified ==
  \A r \in Removers : \A m \in todo[r] : m \in released \/ m <= cutoff

Kept ==
  \A m \in Accepted :
    \/ m \in released
    \/ m <= cutoff
    \/ /\ disk[m] # Absent
       /\ loaded => cache[m] # Absent
       /\ indexed => m \in index[connection_id[m]]

Indexed ==
  indexed =>
    /\ \A c \in Connections : \A m \in index[c] :
         cache[m] # Absent /\ connection_id[m] = c
    /\ \A m \in Messages : cache[m] # Absent =>
         \/ m \in index[connection_id[m]]
         \/ \E r \in Removers : rpc[r] = "delete" /\ m \in todo[r]

IInv ==
  /\ TypeOK
  /\ Loading
  /\ Locking
  /\ Provenance
  /\ Holding
  /\ Justified
  /\ Kept
  /\ Indexed
-----------------------------------------------------------------------------

\* Nothing is held or deleted before the queue is loaded, and every row is loaded.
LEMMA LoadMessagesKeeps ==
  ASSUME IInv, LoadMessages
  PROVE  IInv'
<1> USE MessagesAssumption, CallersAssumption
    DEF IInv, Rows, States, Absent, memVars, addVars, takeVars, removeVars, budget
<1>1. TypeOK'
  BY DEF TypeOK, Locking, LoadMessages, ResetToPending
<1>2. Loading'
  BY DEF TypeOK, Loading, LoadMessages, ResetToPending
<1>3. Locking'
  BY DEF TypeOK, Locking, LoadMessages, ResetToPending
<1>4. Provenance'
  BY DEF TypeOK, Loading, Provenance, Known, LoadMessages, ResetToPending
<1>5. Holding'
  BY DEF TypeOK, Loading, Provenance, Known, Holding, SendingIsHeld,
         TakesAreDisjoint, LoadMessages, ResetToPending
<1>6. Justified'
  BY DEF TypeOK, Justified, LoadMessages, ResetToPending
<1>7. Kept'
  BY DEF TypeOK, Loading, Provenance, Justified, Kept, Known, Accepted,
         LoadMessages, ResetToPending
<1>8. Indexed'
  BY DEF TypeOK, Loading, Locking, Provenance, Indexed, Known, LoadMessages,
         ResetToPending
<1> QED BY <1>1, <1>2, <1>3, <1>4, <1>5, <1>6, <1>7, <1>8

\* The index is built from the loaded map alone.
LEMMA IndexConnectionsKeeps ==
  ASSUME IInv, IndexConnections
  PROVE  IInv'
<1> USE MessagesAssumption, CallersAssumption
    DEF IInv, Rows, States, Absent, memVars, addVars, takeVars, removeVars, budget
<1>1. TypeOK'
  BY DEF TypeOK, Locking, IndexConnections, Cached
<1>2. Loading'
  BY DEF TypeOK, Loading, IndexConnections, Cached
<1>3. Locking'
  BY DEF TypeOK, Locking, IndexConnections, Cached
<1>4. Provenance'
  BY DEF TypeOK, Loading, Provenance, Known, IndexConnections, Cached
<1>5. Holding'
  BY DEF TypeOK, Loading, Provenance, Known, Holding, SendingIsHeld,
         TakesAreDisjoint, IndexConnections, Cached
<1>6. Justified'
  BY DEF TypeOK, Justified, IndexConnections, Cached
<1>7. Kept'
  BY DEF TypeOK, Loading, Provenance, Justified, Kept, Known, Accepted,
         IndexConnections, Cached
<1>8. Indexed'
  BY DEF TypeOK, Loading, Locking, Provenance, Indexed, Known,
         IndexConnections, Cached
<1> QED BY <1>1, <1>2, <1>3, <1>4, <1>5, <1>6, <1>7, <1>8

\* A failed warm_up changes no map.
LEMMA WarmUpFailsKeeps ==
  ASSUME IInv, WarmUpFails
  PROVE  IInv'
<1> USE MessagesAssumption, CallersAssumption
    DEF IInv, Rows, States, Absent, memVars, addVars, takeVars, removeVars, budget
<1>1. TypeOK'
  BY DEF TypeOK, Locking, WarmUpFails, Fault
<1>2. Loading'
  BY DEF TypeOK, Loading, WarmUpFails, Fault
<1>3. Locking'
  BY DEF TypeOK, Locking, WarmUpFails, Fault
<1>4. Provenance'
  BY DEF TypeOK, Loading, Provenance, Known, WarmUpFails, Fault
<1>5. Holding'
  BY DEF TypeOK, Loading, Provenance, Known, Holding, SendingIsHeld,
         TakesAreDisjoint, WarmUpFails, Fault
<1>6. Justified'
  BY DEF TypeOK, Justified, WarmUpFails, Fault
<1>7. Kept'
  BY DEF TypeOK, Loading, Provenance, Justified, Kept, Known, Accepted,
         WarmUpFails, Fault
<1>8. Indexed'
  BY DEF TypeOK, Loading, Locking, Provenance, Indexed, Known, WarmUpFails,
         Fault
<1> QED BY <1>1, <1>2, <1>3, <1>4, <1>5, <1>6, <1>7, <1>8

LEMMA StartAddKeeps ==
  ASSUME IInv, NEW m \in Messages, StartAdd(m)
  PROVE  IInv'
<1> USE MessagesAssumption, CallersAssumption
    DEF IInv, Rows, States, Absent, memVars, addVars, takeVars, removeVars, budget
<1>1. TypeOK'
  BY DEF TypeOK, Locking, StartAdd
<1>2. Loading'
  BY DEF TypeOK, Loading, StartAdd
<1>3. Locking'
  BY DEF TypeOK, Locking, StartAdd
<1>4. Provenance'
  BY DEF TypeOK, Loading, Provenance, Known, StartAdd
<1>5. Holding'
  BY DEF TypeOK, Loading, Provenance, Known, Holding, SendingIsHeld,
         TakesAreDisjoint, StartAdd
<1>6. Justified'
  BY DEF TypeOK, Justified, StartAdd
<1>7. Kept'
  BY DEF TypeOK, Loading, Provenance, Justified, Kept, Known, Accepted,
         StartAdd
<1>8. Indexed'
  BY DEF TypeOK, Loading, Locking, Provenance, Indexed, Known, StartAdd
<1> QED BY <1>1, <1>2, <1>3, <1>4, <1>5, <1>6, <1>7, <1>8

\* A new row belongs to no delivery and no removal.
LEMMA PersistMessageKeeps ==
  ASSUME IInv, NEW m \in Messages, PersistMessage(m)
  PROVE  IInv'
<1> USE MessagesAssumption, CallersAssumption
    DEF IInv, Rows, States, Absent, memVars, addVars, takeVars, removeVars, budget
<1>1. TypeOK'
  BY DEF TypeOK, Locking, PersistMessage
<1>2. Loading'
  BY DEF TypeOK, Loading, PersistMessage
<1>3. Locking'
  BY DEF TypeOK, Locking, PersistMessage
<1>4. Provenance'
  BY DEF TypeOK, Loading, Provenance, Known, PersistMessage
<1>5. Holding'
  BY DEF TypeOK, Loading, Provenance, Known, Holding, SendingIsHeld,
         TakesAreDisjoint, PersistMessage
<1>6. Justified'
  BY DEF TypeOK, Justified, PersistMessage
<1>7. Kept'
  BY DEF TypeOK, Loading, Provenance, Justified, Kept, Known, Accepted,
         PersistMessage
<1>8. Indexed'
  BY DEF TypeOK, Loading, Locking, Provenance, Indexed, Known, PersistMessage
<1> QED BY <1>1, <1>2, <1>3, <1>4, <1>5, <1>6, <1>7, <1>8

LEMMA PersistFailsKeeps ==
  ASSUME IInv, NEW m \in Messages, PersistFails(m)
  PROVE  IInv'
<1> USE MessagesAssumption, CallersAssumption
    DEF IInv, Rows, States, Absent, memVars, addVars, takeVars, removeVars, budget
<1>1. TypeOK'
  BY DEF TypeOK, Locking, PersistFails, Fault
<1>2. Loading'
  BY DEF TypeOK, Loading, PersistFails, Fault
<1>3. Locking'
  BY DEF TypeOK, Locking, PersistFails, Fault
<1>4. Provenance'
  BY DEF TypeOK, Loading, Provenance, Known, PersistFails, Fault
<1>5. Holding'
  BY DEF TypeOK, Loading, Provenance, Known, Holding, SendingIsHeld,
         TakesAreDisjoint, PersistFails, Fault
<1>6. Justified'
  BY DEF TypeOK, Justified, PersistFails, Fault
<1>7. Kept'
  BY DEF TypeOK, Loading, Provenance, Justified, Kept, Known, Accepted,
         PersistFails, Fault
<1>8. Indexed'
  BY DEF TypeOK, Loading, Locking, Provenance, Indexed, Known, PersistFails,
         Fault
<1> QED BY <1>1, <1>2, <1>3, <1>4, <1>5, <1>6, <1>7, <1>8

\* Both maps gain the message, whose row is already there.
LEMMA InsertMessageKeeps ==
  ASSUME IInv, NEW m \in Messages, InsertMessage(m)
  PROVE  IInv'
<1> USE MessagesAssumption, CallersAssumption
    DEF IInv, Rows, States, Absent, memVars, addVars, takeVars, removeVars, budget
<1>a. /\ \A k \in Messages : cache'[k] = IF k = m THEN "pending" ELSE cache[k]
      /\ \A c \in Connections :
           index'[c] = IF c = connection_id[m] THEN index[c] \cup {m} ELSE index[c]
      /\ loaded /\ indexed /\ UNCHANGED <<loaded, indexed, rpc, todo>>
  BY DEF TypeOK, InsertMessage, Ready
<1>1. TypeOK'
  BY DEF TypeOK, Locking, InsertMessage, Ready
<1>2. Loading'
  BY DEF TypeOK, Loading, InsertMessage, Ready
<1>3. Locking'
  BY DEF TypeOK, Locking, InsertMessage, Ready
<1>4. Provenance'
  BY DEF TypeOK, Loading, Provenance, Known, InsertMessage, Ready
<1>5. Holding'
  BY DEF TypeOK, Loading, Provenance, Known, Holding, SendingIsHeld,
         TakesAreDisjoint, InsertMessage, Ready
<1>6. Justified'
  BY DEF TypeOK, Justified, InsertMessage, Ready
<1>7. Kept'
  BY DEF TypeOK, Loading, Provenance, Justified, Kept, Known, Accepted,
         InsertMessage, Ready
<1>8. Indexed'
  <2>1. /\ \A c \in Connections : \A k \in index[c] :
             cache[k] # Absent /\ connection_id[k] = c
        /\ \A k \in Messages : cache[k] # Absent =>
             \/ k \in index[connection_id[k]]
             \/ \E r \in Removers : rpc[r] = "delete" /\ k \in todo[r]
    BY <1>a DEF Indexed
  <2>2. \A c \in Connections : \A k \in index'[c] :
          cache'[k] # Absent /\ connection_id[k] = c
    <3> SUFFICES ASSUME NEW c \in Connections, NEW k \in index'[c]
                 PROVE  cache'[k] # Absent /\ connection_id[k] = c
      OBVIOUS
    <3>1. CASE k = m
      BY <1>a, <2>1, <3>1
    <3>2. CASE k # m
      <4>1. k \in index[c]
        <5>1. CASE c = connection_id[m] BY <1>a, <3>2, <5>1
        <5>2. CASE c # connection_id[m] BY <1>a, <5>2
        <5> QED BY <5>1, <5>2
      <4>2. k \in Messages
        BY <4>1 DEF TypeOK
      <4> QED BY <1>a, <2>1, <3>2, <4>1, <4>2
    <3> QED BY <3>1, <3>2
  <2>3. \A k \in Messages : cache'[k] # Absent =>
          \/ k \in index'[connection_id[k]]
          \/ \E r \in Removers : rpc'[r] = "delete" /\ k \in todo'[r]
    <3> SUFFICES ASSUME NEW k \in Messages, cache'[k] # Absent
                 PROVE  \/ k \in index'[connection_id[k]]
                        \/ \E r \in Removers : rpc'[r] = "delete" /\ k \in todo'[r]
      OBVIOUS
    <3>1. CASE k = m
      BY <1>a, <3>1
    <3>2. CASE k # m
      <4>1. cache[k] # Absent
        BY <1>a, <3>2
      <4> QED BY <1>a, <2>1, <4>1
    <3> QED BY <3>1, <3>2
  <2> QED BY <2>2, <2>3 DEF Indexed
<1> QED BY <1>1, <1>2, <1>3, <1>4, <1>5, <1>6, <1>7, <1>8

\* A message whose add_message panicked is stored but not accepted.
LEMMA InsertPanicsKeeps ==
  ASSUME IInv, NEW m \in Messages, InsertPanics(m)
  PROVE  IInv'
<1> USE MessagesAssumption, CallersAssumption
    DEF IInv, Rows, States, Absent, memVars, addVars, takeVars, removeVars, budget
<1>1. TypeOK'
  BY DEF TypeOK, Locking, InsertPanics, Unindexed
<1>2. Loading'
  BY DEF TypeOK, Loading, InsertPanics, Unindexed
<1>3. Locking'
  BY DEF TypeOK, Locking, InsertPanics, Unindexed
<1>4. Provenance'
  BY DEF TypeOK, Loading, Provenance, Known, InsertPanics, Unindexed
<1>5. Holding'
  BY DEF TypeOK, Loading, Provenance, Known, Holding, SendingIsHeld,
         TakesAreDisjoint, InsertPanics, Unindexed
<1>6. Justified'
  BY DEF TypeOK, Justified, InsertPanics, Unindexed
<1>7. Kept'
  BY DEF TypeOK, Loading, Provenance, Justified, Kept, Known, Accepted,
         InsertPanics, Unindexed
<1>8. Indexed'
  BY DEF TypeOK, Loading, Locking, Provenance, Indexed, Known, InsertPanics,
         Unindexed
<1> QED BY <1>1, <1>2, <1>3, <1>4, <1>5, <1>6, <1>7, <1>8

\* Only pending messages are taken, and no delivery holds one.
LEMMA TakeFromQueueKeeps ==
  ASSUME IInv, NEW t \in Takers, TakeFromQueue(t)
  PROVE  IInv'
<1> USE MessagesAssumption, CallersAssumption
    DEF IInv, Rows, States, Absent, memVars, addVars, takeVars, removeVars, budget
<1>a. PICK c \in Connections, key \in Keys \cup {None}, limit \in Limits :
        /\ cache' = MarkSending(cache, Oldest(Matching(c, key), limit))
        /\ got' = [got EXCEPT ![t] = Oldest(Matching(c, key), limit)]
  BY DEF TakeFromQueue
<1> DEFINE taken == Oldest(Matching(c, key), limit)
<1>b. taken \subseteq Messages /\ \A m \in taken : cache[m] = "pending"
  BY DEF TypeOK, Oldest, Matching
<1>c. /\ \A m \in Messages : cache'[m] = IF m \in taken THEN "sending" ELSE cache[m]
      /\ \A u \in Takers : got'[u] = IF u = t THEN taken ELSE got[u]
      /\ got[t] = {}
      /\ \A u \in Takers : tpc'[u] = "idle" => u # t /\ tpc[u] = "idle"
  BY <1>a DEF TypeOK, MarkSending, Holding, TakeFromQueue
<1>1. TypeOK'
  BY DEF TypeOK, Locking, TakeFromQueue, Ready, Matching, MarkSending, Oldest
<1>2. Loading'
  BY DEF TypeOK, Loading, TakeFromQueue, Ready, Matching, MarkSending, Oldest
<1>3. Locking'
  BY DEF TypeOK, Locking, TakeFromQueue, Ready, Matching, MarkSending, Oldest
<1>4. Provenance'
  BY DEF TypeOK, Loading, Provenance, Known, TakeFromQueue, Ready, Matching,
         MarkSending, Oldest
<1>5. Holding'
  <2> HIDE DEF taken
  <2>1. \A u \in Takers : tpc'[u] = "idle" => got'[u] = {}
    BY <1>c DEF Holding
  <2>2. \A u \in Takers : \A m \in got'[u] : cache'[m] # "pending"
    BY <1>b, <1>c DEF TypeOK, Holding
  <2>3. SendingIsHeld'
    BY <1>b, <1>c DEF TypeOK, Holding, SendingIsHeld
  <2>4. TakesAreDisjoint'
    <3>1. \A u \in Takers : u # t => got[u] \cap taken = {}
      BY <1>b DEF TypeOK, Holding
    <3> QED BY <1>c, <3>1 DEF Holding, TakesAreDisjoint
  <2> QED BY <2>1, <2>2, <2>3, <2>4 DEF Holding
<1>6. Justified'
  BY DEF TypeOK, Justified, TakeFromQueue, Ready, Matching, MarkSending,
         Oldest
<1>7. Kept'
  BY DEF TypeOK, Loading, Provenance, Justified, Kept, Known, Accepted,
         TakeFromQueue, Ready, Matching, MarkSending, Oldest
<1>8. Indexed'
  BY DEF TypeOK, Loading, Locking, Provenance, Indexed, Known, TakeFromQueue,
         Ready, Matching, MarkSending, Oldest
<1> QED BY <1>1, <1>2, <1>3, <1>4, <1>5, <1>6, <1>7, <1>8

LEMMA TakePanicsKeeps ==
  ASSUME IInv, NEW t \in Takers, TakePanics(t)
  PROVE  IInv'
<1> USE MessagesAssumption, CallersAssumption
    DEF IInv, Rows, States, Absent, memVars, addVars, takeVars, removeVars, budget
<1>1. TypeOK'
  BY DEF TypeOK, Locking, TakePanics, Unindexed
<1>2. Loading'
  BY DEF TypeOK, Loading, TakePanics, Unindexed
<1>3. Locking'
  BY DEF TypeOK, Locking, TakePanics, Unindexed
<1>4. Provenance'
  BY DEF TypeOK, Loading, Provenance, Known, TakePanics, Unindexed
<1>5. Holding'
  BY DEF TypeOK, Loading, Provenance, Known, Holding, SendingIsHeld,
         TakesAreDisjoint, TakePanics, Unindexed
<1>6. Justified'
  BY DEF TypeOK, Justified, TakePanics, Unindexed
<1>7. Kept'
  BY DEF TypeOK, Loading, Provenance, Justified, Kept, Known, Accepted,
         TakePanics, Unindexed
<1>8. Indexed'
  BY DEF TypeOK, Loading, Locking, Provenance, Indexed, Known, TakePanics,
         Unindexed
<1> QED BY <1>1, <1>2, <1>3, <1>4, <1>5, <1>6, <1>7, <1>8

\* A late update neither creates nor removes a row.
LEMMA UpdateTakenKeeps ==
  ASSUME IInv, NEW t \in Takers, UpdateTaken(t)
  PROVE  IInv'
<1> USE MessagesAssumption, CallersAssumption
    DEF IInv, Rows, States, Absent, memVars, addVars, takeVars, removeVars, budget
<1>a. \A m \in Messages : disk'[m] = Absent <=> disk[m] = Absent
  BY DEF TypeOK, UpdateTaken, UpdateRow
<1>1. TypeOK'
  BY DEF TypeOK, Locking, UpdateTaken, UpdateRow, UpdatePC
<1>2. Loading'
  BY DEF TypeOK, Loading, UpdateTaken, UpdateRow, UpdatePC
<1>3. Locking'
  BY DEF TypeOK, Locking, UpdateTaken, UpdateRow, UpdatePC
<1>4. Provenance'
  BY DEF TypeOK, Loading, Provenance, Known, UpdateTaken, UpdateRow, UpdatePC
<1>5. Holding'
  BY DEF TypeOK, Loading, Provenance, Known, Holding, SendingIsHeld,
         TakesAreDisjoint, UpdateTaken, UpdateRow, UpdatePC
<1>6. Justified'
  BY DEF TypeOK, Justified, UpdateTaken, UpdateRow, UpdatePC
<1>7. Kept'
  BY <1>a DEF TypeOK, Kept, Accepted, UpdateTaken
<1>8. Indexed'
  BY DEF TypeOK, Loading, Locking, Provenance, Indexed, Known, UpdateTaken,
         UpdateRow, UpdatePC
<1> QED BY <1>1, <1>2, <1>3, <1>4, <1>5, <1>6, <1>7, <1>8

LEMMA UpdateTakenFailsKeeps ==
  ASSUME IInv, NEW t \in Takers, UpdateTakenFails(t)
  PROVE  IInv'
<1> USE MessagesAssumption, CallersAssumption
    DEF IInv, Rows, States, Absent, memVars, addVars, takeVars, removeVars, budget
<1>1. TypeOK'
  BY DEF TypeOK, Locking, UpdateTakenFails, Fault, UpdatePC
<1>2. Loading'
  BY DEF TypeOK, Loading, UpdateTakenFails, Fault, UpdatePC
<1>3. Locking'
  BY DEF TypeOK, Locking, UpdateTakenFails, Fault, UpdatePC
<1>4. Provenance'
  BY DEF TypeOK, Loading, Provenance, Known, UpdateTakenFails, Fault, UpdatePC
<1>5. Holding'
  BY DEF TypeOK, Loading, Provenance, Known, Holding, SendingIsHeld,
         TakesAreDisjoint, UpdateTakenFails, Fault, UpdatePC
<1>6. Justified'
  BY DEF TypeOK, Justified, UpdateTakenFails, Fault, UpdatePC
<1>7. Kept'
  BY DEF TypeOK, Loading, Provenance, Justified, Kept, Known, Accepted,
         UpdateTakenFails, Fault, UpdatePC
<1>8. Indexed'
  BY DEF TypeOK, Loading, Locking, Provenance, Indexed, Known,
         UpdateTakenFails, Fault, UpdatePC
<1> QED BY <1>1, <1>2, <1>3, <1>4, <1>5, <1>6, <1>7, <1>8

LEMMA StartReturnKeeps ==
  ASSUME IInv, NEW t \in Takers, StartReturn(t)
  PROVE  IInv'
<1> USE MessagesAssumption, CallersAssumption
    DEF IInv, Rows, States, Absent, memVars, addVars, takeVars, removeVars, budget
<1>1. TypeOK'
  BY DEF TypeOK, Locking, StartReturn
<1>2. Loading'
  BY DEF TypeOK, Loading, StartReturn
<1>3. Locking'
  BY DEF TypeOK, Locking, StartReturn
<1>4. Provenance'
  BY DEF TypeOK, Loading, Provenance, Known, StartReturn
<1>5. Holding'
  BY DEF TypeOK, Loading, Provenance, Known, Holding, SendingIsHeld,
         TakesAreDisjoint, StartReturn
<1>6. Justified'
  BY DEF TypeOK, Justified, StartReturn
<1>7. Kept'
  BY DEF TypeOK, Loading, Provenance, Justified, Kept, Known, Accepted,
         StartReturn
<1>8. Indexed'
  BY DEF TypeOK, Loading, Locking, Provenance, Indexed, Known, StartReturn
<1> QED BY <1>1, <1>2, <1>3, <1>4, <1>5, <1>6, <1>7, <1>8

\* The message leaves the delivery in the step that makes it pending.
LEMMA ReturnToPendingKeeps ==
  ASSUME IInv, NEW t \in Takers, ReturnToPending(t)
  PROVE  IInv'
<1> USE MessagesAssumption, CallersAssumption
    DEF IInv, Rows, States, Absent, memVars, addVars, takeVars, removeVars, budget
<1>a. \A m \in Messages : /\ disk'[m] = Absent <=> disk[m] = Absent
                          /\ cache'[m] = Absent <=> cache[m] = Absent
  BY DEF TypeOK, ReturnToPending, UpdateRow
<1>1. TypeOK'
  BY DEF TypeOK, Locking, ReturnToPending, UpdateRow
<1>2. Loading'
  BY DEF TypeOK, Loading, ReturnToPending, UpdateRow
<1>3. Locking'
  BY DEF TypeOK, Locking, ReturnToPending, UpdateRow
<1>4. Provenance'
  BY DEF TypeOK, Loading, Provenance, Known, ReturnToPending, UpdateRow
<1>5. Holding'
  BY DEF TypeOK, Loading, Provenance, Known, Holding, SendingIsHeld,
         TakesAreDisjoint, ReturnToPending, UpdateRow
<1>6. Justified'
  BY DEF TypeOK, Justified, ReturnToPending, UpdateRow
<1>7. Kept'
  BY <1>a DEF TypeOK, Kept, Accepted, ReturnToPending
<1>8. Indexed'
  BY DEF TypeOK, Loading, Locking, Provenance, Indexed, Known,
         ReturnToPending, UpdateRow
<1> QED BY <1>1, <1>2, <1>3, <1>4, <1>5, <1>6, <1>7, <1>8

\* So it does when the write fails: no invariant needs the row of a message
\* that is Pending in memory to be Pending too.
LEMMA ReturnToPendingFailsKeeps ==
  ASSUME IInv, NEW t \in Takers, ReturnToPendingFails(t)
  PROVE  IInv'
<1> USE MessagesAssumption, CallersAssumption
    DEF IInv, Rows, States, Absent, memVars, addVars, takeVars, removeVars, budget
<1>a. \A m \in Messages : /\ disk'[m] = Absent <=> disk[m] = Absent
                          /\ cache'[m] = Absent <=> cache[m] = Absent
  BY DEF TypeOK, ReturnToPendingFails, Fault
<1>1. TypeOK'
  BY DEF TypeOK, Locking, ReturnToPendingFails, Fault
<1>2. Loading'
  BY DEF TypeOK, Loading, ReturnToPendingFails, Fault
<1>3. Locking'
  BY DEF TypeOK, Locking, ReturnToPendingFails, Fault
<1>4. Provenance'
  BY DEF TypeOK, Loading, Provenance, Known, ReturnToPendingFails, Fault
<1>5. Holding'
  BY DEF TypeOK, Loading, Provenance, Known, Holding, SendingIsHeld,
         TakesAreDisjoint, ReturnToPendingFails, Fault
<1>6. Justified'
  BY DEF TypeOK, Justified, ReturnToPendingFails, Fault
<1>7. Kept'
  BY <1>a DEF TypeOK, Kept, Accepted, ReturnToPendingFails, Fault
<1>8. Indexed'
  BY DEF TypeOK, Loading, Locking, Provenance, Indexed, Known,
         ReturnToPendingFails, Fault
<1> QED BY <1>1, <1>2, <1>3, <1>4, <1>5, <1>6, <1>7, <1>8

LEMMA RemoveMessagesKeeps ==
  ASSUME IInv, NEW r \in Removers, RemoveMessages(r)
  PROVE  IInv'
<1> USE MessagesAssumption, CallersAssumption
    DEF IInv, Rows, States, Absent, memVars, addVars, takeVars, removeVars, budget
<1>a. PICK ids \in SUBSET Known : released' = released \cup ids /\ BeginDelete(r, ids)
  BY DEF RemoveMessages
<1>b. ids \subseteq Messages
  BY <1>a DEF Known
<1>1. TypeOK'
  BY <1>a, <1>b DEF TypeOK, Locking, RemoveMessages, Ready, BeginDelete
<1>2. Loading'
  BY DEF TypeOK, Loading, RemoveMessages, Ready, BeginDelete
<1>3. Locking'
  BY DEF TypeOK, Locking, RemoveMessages, Ready, BeginDelete
<1>4. Provenance'
  BY <1>a DEF TypeOK, Provenance, Known, RemoveMessages, BeginDelete
<1>5. Holding'
  BY DEF TypeOK, Loading, Provenance, Known, Holding, SendingIsHeld,
         TakesAreDisjoint, RemoveMessages, Ready, BeginDelete
<1>6. Justified'
  BY DEF TypeOK, Justified, RemoveMessages, Ready, BeginDelete
<1>7. Kept'
  BY DEF TypeOK, Loading, Provenance, Justified, Kept, Known, Accepted,
         RemoveMessages, Ready, BeginDelete
<1>8. Indexed'
  BY DEF TypeOK, Loading, Locking, Provenance, Indexed, Known, RemoveMessages,
         Ready, BeginDelete
<1> QED BY <1>1, <1>2, <1>3, <1>4, <1>5, <1>6, <1>7, <1>8

\* The ids that leave the index are exactly those the call goes on to delete.
LEMMA ClearConnectionKeeps ==
  ASSUME IInv, NEW r \in Removers, ClearConnection(r)
  PROVE  IInv'
<1> USE MessagesAssumption, CallersAssumption
    DEF IInv, Rows, States, Absent, memVars, addVars, takeVars, removeVars, budget
<1>a. PICK c \in Connections :
        /\ released' = released \cup index[c]
        /\ index' = [index EXCEPT ![c] = {}]
        /\ BeginDelete(r, index[c])
  BY DEF ClearConnection
<1>1. TypeOK'
  BY <1>a DEF TypeOK, Locking, ClearConnection, Ready, BeginDelete
<1>2. Loading'
  BY DEF TypeOK, Loading, ClearConnection, Ready, BeginDelete
<1>3. Locking'
  BY DEF TypeOK, Locking, ClearConnection, Ready, BeginDelete
<1>4. Provenance'
  BY DEF TypeOK, Loading, Provenance, Known, ClearConnection, Ready,
         BeginDelete
<1>5. Holding'
  BY DEF TypeOK, Loading, Provenance, Known, Holding, SendingIsHeld,
         TakesAreDisjoint, ClearConnection, Ready, BeginDelete
<1>6. Justified'
  BY DEF TypeOK, Justified, ClearConnection, Ready, BeginDelete
<1>7. Kept'
  BY DEF TypeOK, Loading, Provenance, Justified, Kept, Known, Accepted,
         ClearConnection, Ready, BeginDelete
<1>8. Indexed'
  BY DEF TypeOK, Loading, Locking, Provenance, Indexed, Known,
         ClearConnection, Ready, BeginDelete
<1> QED BY <1>1, <1>2, <1>3, <1>4, <1>5, <1>6, <1>7, <1>8

LEMMA CollectExpiredKeeps ==
  ASSUME IInv, NEW r \in Removers, CollectExpired(r)
  PROVE  IInv'
<1> USE MessagesAssumption, CallersAssumption
    DEF IInv, Rows, States, Absent, memVars, addVars, takeVars, removeVars, budget
<1>a. Cached \subseteq Known
  BY DEF Cached, Provenance
<1>b. \A q \in Removers : todo'[q] = todo[q] \/ todo'[q] \subseteq Cached
  BY DEF TypeOK, CollectExpired, Expired
<1>1. TypeOK'
  BY DEF TypeOK, Locking, CollectExpired, Cached, Expired
<1>2. Loading'
  BY DEF TypeOK, Loading, CollectExpired, Cached, Expired
<1>3. Locking'
  BY DEF TypeOK, Locking, CollectExpired, Cached, Expired
<1>4. Provenance'
  BY <1>a, <1>b DEF Provenance, Known, CollectExpired
<1>5. Holding'
  BY DEF TypeOK, Loading, Provenance, Known, Holding, SendingIsHeld,
         TakesAreDisjoint, CollectExpired, Cached, Expired
<1>6. Justified'
  BY DEF TypeOK, Justified, CollectExpired, Cached, Expired
<1>7. Kept'
  BY DEF TypeOK, Loading, Provenance, Justified, Kept, Known, Accepted,
         CollectExpired, Cached, Expired
<1>8. Indexed'
  BY DEF TypeOK, Loading, Locking, Provenance, Indexed, Known, CollectExpired,
         Cached, Expired
<1> QED BY <1>1, <1>2, <1>3, <1>4, <1>5, <1>6, <1>7, <1>8

\* The collected ids may be stale, but they are still too old.
LEMMA DeleteExpiredKeeps ==
  ASSUME IInv, NEW r \in Removers, DeleteExpired(r)
  PROVE  IInv'
<1> USE MessagesAssumption, CallersAssumption
    DEF IInv, Rows, States, Absent, memVars, addVars, takeVars, removeVars, budget
<1>1. TypeOK'
  BY DEF TypeOK, Locking, DeleteExpired, Ready, BeginDelete
<1>2. Loading'
  BY DEF TypeOK, Loading, DeleteExpired, Ready, BeginDelete
<1>3. Locking'
  BY DEF TypeOK, Locking, DeleteExpired, Ready, BeginDelete
<1>4. Provenance'
  BY DEF TypeOK, Loading, Provenance, Known, DeleteExpired, Ready, BeginDelete
<1>5. Holding'
  BY DEF TypeOK, Loading, Provenance, Known, Holding, SendingIsHeld,
         TakesAreDisjoint, DeleteExpired, Ready, BeginDelete
<1>6. Justified'
  BY DEF TypeOK, Justified, DeleteExpired, Ready, BeginDelete
<1>7. Kept'
  BY DEF TypeOK, Loading, Provenance, Justified, Kept, Known, Accepted,
         DeleteExpired, Ready, BeginDelete
<1>8. Indexed'
  BY DEF TypeOK, Loading, Locking, Provenance, Indexed, Known, DeleteExpired,
         Ready, BeginDelete
<1> QED BY <1>1, <1>2, <1>3, <1>4, <1>5, <1>6, <1>7, <1>8

LEMMA RemovePanicsKeeps ==
  ASSUME IInv, NEW r \in Removers, RemovePanics(r)
  PROVE  IInv'
<1> USE MessagesAssumption, CallersAssumption
    DEF IInv, Rows, States, Absent, memVars, addVars, takeVars, removeVars, budget
<1>1. TypeOK'
  BY DEF TypeOK, Locking, RemovePanics, Unindexed
<1>2. Loading'
  BY DEF TypeOK, Loading, RemovePanics, Unindexed
<1>3. Locking'
  BY DEF TypeOK, Locking, RemovePanics, Unindexed
<1>4. Provenance'
  BY DEF TypeOK, Loading, Provenance, Known, RemovePanics, Unindexed
<1>5. Holding'
  BY DEF TypeOK, Loading, Provenance, Known, Holding, SendingIsHeld,
         TakesAreDisjoint, RemovePanics, Unindexed
<1>6. Justified'
  BY DEF TypeOK, Justified, RemovePanics, Unindexed
<1>7. Kept'
  BY DEF TypeOK, Loading, Provenance, Justified, Kept, Known, Accepted,
         RemovePanics, Unindexed
<1>8. Indexed'
  BY DEF TypeOK, Loading, Locking, Provenance, Indexed, Known, RemovePanics,
         Unindexed
<1> QED BY <1>1, <1>2, <1>3, <1>4, <1>5, <1>6, <1>7, <1>8

\* Row and cache entries go in one critical section; if the storage fails,
\* the row outlives its cache entries, never the other way round.
LEMMA ForgetKeeps ==
  ASSUME IInv, NEW r \in Removers, rpc[r] = "delete", NEW m \in todo[r],
         ForgetMessage(r, m),
         disk' = disk \/ disk' = [disk EXCEPT ![m] = Absent],
         UNCHANGED <<addVars, takeVars, released, crashes>>,
         faults' \in Nat
  PROVE  IInv'
<1> USE MessagesAssumption, CallersAssumption
    DEF IInv, Rows, States, Absent, memVars, addVars, takeVars, removeVars, budget
<1>a. m \in Messages /\ m \in Known /\ (m \in released \/ m <= cutoff) /\ lock = r
  BY DEF TypeOK, Provenance, Justified, Locking
<1>b. /\ \A k \in Messages : /\ cache'[k] = IF k = m THEN Absent ELSE cache[k]
                             /\ k # m => disk'[k] = disk[k]
      /\ \A q \in Removers : todo'[q] \subseteq todo[q]
      /\ \A q \in Removers : q # r => todo'[q] = todo[q] /\ rpc'[q] = rpc[q]
      /\ todo'[r] = todo[r] \ {m}
      /\ \A c \in Connections :
           index'[c] = IF c = connection_id[m] THEN index[c] \ {m} ELSE index[c]
  <2>1. connection_id[m] \in Connections BY <1>a
  <2>2. \A c \in Connections :
          index'[c] = IF c = connection_id[m] THEN index[c] \ {m} ELSE index[c]
    BY <2>1 DEF TypeOK, ForgetMessage
  <2>3. \A k \in Messages : /\ cache'[k] = IF k = m THEN Absent ELSE cache[k]
                            /\ k # m => disk'[k] = disk[k]
    BY <1>a DEF TypeOK, ForgetMessage
  <2>4. \A q \in Removers : /\ todo'[q] = IF q = r THEN todo[r] \ {m} ELSE todo[q]
                            /\ q # r => rpc'[q] = rpc[q]
    BY DEF TypeOK, ForgetMessage
  <2> QED BY <2>2, <2>3, <2>4
<1>1. TypeOK'
  <2>1. /\ disk' \in [Messages -> Rows] /\ cache' \in [Messages -> Rows]
        /\ index' \in [Connections -> SUBSET Messages]
        /\ todo' \in [Removers -> SUBSET Messages]
    BY <1>a DEF TypeOK, ForgetMessage
  <2>2. rpc' \in [Removers -> {"idle", "collected", "delete", "done", "failed"}]
    BY DEF TypeOK, ForgetMessage
  <2>3. lock' = None \/ (lock' = r /\ rpc'[r] = "delete")
    BY <1>a DEF ForgetMessage
  <2> QED BY <2>1, <2>2, <2>3 DEF TypeOK, ForgetMessage
<1>2. Loading'
  BY <1>a, <1>b DEF Loading, ForgetMessage
<1>3. Locking'
  BY <1>a, <1>b DEF TypeOK, Locking, ForgetMessage
<1>4. Provenance'
  <2>1. \A k \in Messages : /\ cache'[k] # Absent => disk'[k] # Absent
                            /\ disk'[k] # Absent => disk[k] # Absent
                            /\ apc[k] = "cache" => disk'[k] # Absent
    BY <1>a, <1>b DEF TypeOK, Provenance, Known
  <2>2. Known' = Known
    BY DEF Known
  <2>3. \A k \in Messages : cache'[k] # Absent => cache[k] # Absent
    BY <1>b
  <2>4. \A c \in Connections : index'[c] \subseteq index[c]
    BY <1>b
  <2> QED BY <1>b, <2>1, <2>2, <2>3, <2>4 DEF Provenance
<1>5. Holding'
  BY <1>b DEF TypeOK, Holding, SendingIsHeld, TakesAreDisjoint
<1>6. Justified'
  BY <1>b DEF TypeOK, Justified
<1>7. Kept'
  BY <1>a, <1>b DEF TypeOK, Kept, Accepted, ForgetMessage
<1>8. Indexed'
  BY <1>a, <1>b DEF TypeOK, Indexed, ForgetMessage
<1> QED BY <1>1, <1>2, <1>3, <1>4, <1>5, <1>6, <1>7, <1>8

LEMMA DeleteMessageKeeps ==
  ASSUME IInv, NEW r \in Removers, DeleteMessage(r)
  PROVE  IInv'
BY ForgetKeeps DEF DeleteMessage, budget, IInv, TypeOK

LEMMA DeleteMessageFailsKeeps ==
  ASSUME IInv, NEW r \in Removers, DeleteMessageFails(r)
  PROVE  IInv'
BY ForgetKeeps DEF DeleteMessageFails, Fault, IInv, TypeOK

\* Time only adds reasons to delete.
LEMMA AgeKeeps ==
  ASSUME IInv, Age
  PROVE  IInv'
<1> USE MessagesAssumption, CallersAssumption
    DEF IInv, Rows, States, Absent, memVars, addVars, takeVars, removeVars, budget
<1>a. \A k \in Messages : k <= cutoff => k <= cutoff'
  BY DEF TypeOK, Age
<1>1. TypeOK'
  BY DEF TypeOK, Locking, Age
<1>2. Loading'
  BY DEF TypeOK, Loading, Age
<1>3. Locking'
  BY DEF TypeOK, Locking, Age
<1>4. Provenance'
  BY DEF TypeOK, Loading, Provenance, Known, Age
<1>5. Holding'
  BY DEF TypeOK, Loading, Provenance, Known, Holding, SendingIsHeld,
         TakesAreDisjoint, Age
<1>6. Justified'
  BY <1>a DEF TypeOK, Justified, Age
<1>7. Kept'
  BY <1>a DEF TypeOK, Kept, Accepted, Age
<1>8. Indexed'
  BY DEF TypeOK, Loading, Locking, Provenance, Indexed, Known, Age
<1> QED BY <1>1, <1>2, <1>3, <1>4, <1>5, <1>6, <1>7, <1>8

\* A crash empties memory, so only the rows and the callers' answers are left.
LEMMA CrashKeeps ==
  ASSUME IInv, Crash
  PROVE  IInv'
<1> USE MessagesAssumption, CallersAssumption
    DEF IInv, Rows, States, Absent, memVars, addVars, takeVars, removeVars, budget
<1>1. TypeOK'
  <2>1. apc' \in [Messages -> {"idle", "persist", "cache", "done",
                                "unconfirmed", "failed"}]
    <3>1. \A m \in Messages :
            (CASE apc[m] = "persist" -> "failed"
               [] apc[m] = "cache" -> "unconfirmed"
               [] OTHER -> apc[m])
            \in {"idle", "persist", "cache", "done", "unconfirmed", "failed"}
      BY DEF TypeOK
    <3> QED BY <3>1 DEF Crash
  <2>2. /\ tpc' \in [Takers -> {"idle", "update", "done", "return", "returned",
                                "failed"}]
        /\ rpc' \in [Removers -> {"idle", "collected", "delete", "done", "failed"}]
    BY DEF TypeOK, Crash, Fail
  <2>3. /\ got' \in [Takers -> SUBSET Messages]
        /\ upd' \in [Takers -> SUBSET Messages]
        /\ todo' \in [Removers -> SUBSET Messages]
        /\ index' \in [Connections -> SUBSET Messages]
        /\ cache' \in [Messages -> Rows]
    BY DEF Crash
  <2>4. /\ lock' = None
        /\ disk' \in [Messages -> Rows] /\ cutoff' \in Nat /\ released' \subseteq Messages
        /\ faults' \in Nat /\ crashes' \in Nat
    BY DEF TypeOK, Crash
  <2>5. loaded' \in BOOLEAN /\ indexed' \in BOOLEAN /\ booted' \in BOOLEAN
    BY DEF Crash
  <2> QED BY <2>1, <2>2, <2>3, <2>4, <2>5 DEF TypeOK
<1>2. Loading'
  BY DEF TypeOK, Loading, Crash, Fail
<1>3. Locking'
  BY DEF TypeOK, Locking, Crash, Fail
<1>4. Provenance'
  BY DEF TypeOK, Loading, Provenance, Known, Crash, Fail
<1>5. Holding'
  BY DEF TypeOK, Loading, Provenance, Known, Holding, SendingIsHeld,
         TakesAreDisjoint, Crash, Fail
<1>6. Justified'
  BY DEF TypeOK, Justified, Crash, Fail
<1>7. Kept'
  BY DEF TypeOK, Loading, Provenance, Justified, Kept, Known, Accepted, Crash,
         Fail
<1>8. Indexed'
  BY DEF TypeOK, Loading, Locking, Provenance, Indexed, Known, Crash, Fail
<1> QED BY <1>1, <1>2, <1>3, <1>4, <1>5, <1>6, <1>7, <1>8
-----------------------------------------------------------------------------

LEMMA InitKeeps == Init => IInv
<1> USE MessagesAssumption, CallersAssumption DEF Init
<1>1. Init => TypeOK
  <2> SUFFICES ASSUME Init PROVE TypeOK OBVIOUS
  <2>1. disk \in [Messages -> Rows] /\ cache \in [Messages -> Rows]
    BY DEF Rows
  <2>2. loaded \in BOOLEAN /\ indexed \in BOOLEAN /\ booted \in BOOLEAN
    OBVIOUS
  <2>3. /\ index \in [Connections -> SUBSET Messages]
        /\ got \in [Takers -> SUBSET Messages]
        /\ upd \in [Takers -> SUBSET Messages]
        /\ todo \in [Removers -> SUBSET Messages]
    OBVIOUS
  <2>4. cutoff \in Nat /\ released \subseteq Messages /\ faults \in Nat /\ crashes \in Nat
    OBVIOUS
  <2> QED BY <2>1, <2>2, <2>3, <2>4 DEF TypeOK
<1>2. Init => Loading /\ Locking /\ Provenance /\ Justified
  BY DEF Loading, Locking, Provenance, Known, Justified, Absent
<1>3. Init => Holding /\ Kept /\ Indexed
  BY DEF Holding, SendingIsHeld, TakesAreDisjoint, Kept, Accepted, Indexed, Absent
<1> QED BY <1>1, <1>2, <1>3 DEF IInv

LEMMA NextKeeps == IInv /\ [Next]_vars => IInv'
<1> SUFFICES ASSUME IInv, [Next]_vars PROVE IInv'
  OBVIOUS
<1>1. CASE LoadStep \/ WarmUpFails \/ Age \/ Crash
  BY <1>1, LoadMessagesKeeps, IndexConnectionsKeeps, WarmUpFailsKeeps,
     AgeKeeps, CrashKeeps
     DEF LoadStep
<1>2. ASSUME NEW m \in Messages, StartAdd(m) \/ AddStep(m) PROVE IInv'
  BY <1>2, StartAddKeeps, PersistMessageKeeps, PersistFailsKeeps,
     InsertMessageKeeps, InsertPanicsKeeps
     DEF AddStep
<1>3. ASSUME NEW t \in Takers,
             TakeFromQueue(t) \/ TakePanics(t) \/ StartReturn(t) \/ TakeStep(t)
      PROVE  IInv'
  BY <1>3, TakeFromQueueKeeps, TakePanicsKeeps, StartReturnKeeps,
     UpdateTakenKeeps, UpdateTakenFailsKeeps, ReturnToPendingKeeps,
     ReturnToPendingFailsKeeps
     DEF TakeStep
<1>4. ASSUME NEW r \in Removers,
             \/ RemoveMessages(r) \/ ClearConnection(r) \/ CollectExpired(r)
             \/ RemovePanics(r) \/ RemoveStep(r)
      PROVE  IInv'
  BY <1>4, RemoveMessagesKeeps, ClearConnectionKeeps, CollectExpiredKeeps,
     RemovePanicsKeeps, DeleteExpiredKeeps, DeleteMessageKeeps,
     DeleteMessageFailsKeeps
     DEF RemoveStep
<1>5. CASE UNCHANGED vars
  <2> USE DEF vars, memVars, addVars, takeVars, removeVars, budget
  <2>1. TypeOK'
    BY <1>5 DEF IInv, TypeOK
  <2>2. Loading' /\ Locking' /\ Provenance' /\ Justified'
    BY <1>5 DEF IInv, Loading, Locking, Provenance, Known, Justified
  <2>3. Holding' /\ Kept' /\ Indexed'
    BY <1>5 DEF IInv, Holding, SendingIsHeld, TakesAreDisjoint, Kept, Accepted, Indexed
  <2> QED BY <2>1, <2>2, <2>3 DEF IInv
<1> QED BY <1>1, <1>2, <1>3, <1>4, <1>5 DEF Next

LEMMA Inductive == Spec => []IInv
BY InitKeeps, NextKeeps, PTL DEF Spec

\* TypeOK: the maps keep their types, and a write lock that is held across an
\* await of the storage is held by the call that took it.
THEOREM TypeCorrect == Spec => []TypeOK
<1>1. IInv => TypeOK
  BY DEF IInv
<1> QED BY <1>1, Inductive, PTL

\* A message add_message answered Ok for stays in storage, and in both maps of
\* a mediator that has loaded its queue, until it is released or expires.
THEOREM AcceptedMessagesAreKept == Spec => []AcceptedIsKept
<1>1. IInv => AcceptedIsKept
  BY DEF IInv, TypeOK, Loading, Kept, AcceptedIsKept
<1> QED BY <1>1, Inductive, PTL

\* The caches never list a message whose row is gone.
THEOREM CachedMessagesAreBacked == Spec => []CacheIsBacked
<1>1. IInv => CacheIsBacked
  BY DEF IInv, Provenance, CacheIsBacked
<1> QED BY <1>1, Inductive, PTL

\* Two take_from_queue calls never hold the same message, whatever returns,
\* removals and crashes happen in between.
THEOREM DeliveriesAreDisjoint == Spec => []TakesAreDisjoint
<1>1. IInv => TakesAreDisjoint
  BY DEF IInv, Holding
<1> QED BY <1>1, Inductive, PTL

\* No message stays Sending in memory after the delivery that took it is gone.
THEOREM SendingMessagesAreHeld == Spec => []SendingIsHeld
<1>1. IInv => SendingIsHeld
  BY DEF IInv, Holding
<1> QED BY <1>1, Inductive, PTL

\* messages and by_connection list the same ids whenever the locks are free.
THEOREM MapsAgree == Spec => []IndexAgrees
<1>1. IInv => IndexAgrees
  <2> SUFFICES ASSUME IInv, indexed, lock = None, NEW c \in Connections
               PROVE  index[c] = {m \in Cached : connection_id[m] = c}
    BY DEF IndexAgrees
  <2>1. /\ \A m \in index[c] : cache[m] # Absent /\ connection_id[m] = c
        /\ \A m \in Messages : cache[m] # Absent =>
             \/ m \in index[connection_id[m]]
             \/ \E r \in Removers : rpc[r] = "delete" /\ m \in todo[r]
    BY DEF IInv, Indexed
  <2>2. \A r \in Removers : rpc[r] # "delete"
    BY CallersAssumption DEF IInv, Locking
  <2>3. index[c] \subseteq Messages
    BY DEF IInv, TypeOK
  <2> QED BY <2>1, <2>2, <2>3 DEF Cached
<1> QED BY <1>1, Inductive, PTL

-----------------------------------------------------------------------------
(* What one step does to the rows and to the Sending state: the facts that *)
(* NoResurrection and the refinement rest on.                              *)

Entered == {m \in Messages : apc[m] \in {"cache", "done", "unconfirmed"}}
Stored == {m \in Messages : disk[m] # Absent}
Out == {m \in Messages : cache[m] = "sending"}

\* Loading puts no message into a delivery and brings no row back.
LEMMA LoadStepAbstract ==
  ASSUME IInv, LoadMessages
  PROVE  UNCHANGED <<Entered, Stored, Out>>
BY DEF IInv, TypeOK, Loading, LoadMessages, ResetToPending, Entered, Stored, Out,
       Rows, States, Absent, addVars

\* add_message stores a message that was never stored before.
LEMMA PersistAbstract ==
  ASSUME IInv, NEW m \in Messages, PersistMessage(m)
  PROVE  /\ m \notin Entered /\ m \notin Stored
         /\ Entered' = Entered \cup {m} /\ Stored' = Stored \cup {m} /\ Out' = Out
BY DEF IInv, TypeOK, Provenance, PersistMessage, Entered, Stored, Out, Absent, memVars

LEMMA InsertAbstract ==
  ASSUME IInv, NEW m \in Messages, InsertMessage(m)
  PROVE  UNCHANGED <<Entered, Stored, Out>>
BY DEF IInv, TypeOK, Provenance, Known, InsertMessage, Entered, Stored, Out, Absent

\* take_from_queue hands out stored messages that are in no delivery.
LEMMA TakeAbstract ==
  ASSUME IInv, NEW t \in Takers, TakeFromQueue(t)
  PROVE  \E S \in SUBSET Messages :
           S \subseteq Stored \ Out /\ Out' = Out \cup S /\ UNCHANGED <<Entered, Stored>>
<1> PICK c \in Connections, key \in Keys \cup {None}, limit \in Limits :
      cache' = MarkSending(cache, Oldest(Matching(c, key), limit))
  BY DEF TakeFromQueue
<1> DEFINE S == Oldest(Matching(c, key), limit)
<1>1. S \subseteq Messages /\ \A m \in S : cache[m] = "pending"
  BY DEF IInv, TypeOK, Oldest, Matching
<1>2. \A m \in Messages : cache'[m] = IF m \in S THEN "sending" ELSE cache[m]
  BY DEF MarkSending
<1> HIDE DEF S
<1>3. S \subseteq Stored \ Out
  BY <1>1 DEF IInv, Provenance, Stored, Out, Absent
<1>4. Out' = Out \cup S
  BY <1>1, <1>2 DEF Out
<1>5. UNCHANGED <<Entered, Stored>>
  BY DEF TakeFromQueue, Entered, Stored, addVars
<1> QED BY <1>1, <1>3, <1>4, <1>5

\* Updating a row's state stores and removes nothing.
LEMMA UpdateAbstract ==
  ASSUME IInv, NEW t \in Takers, UpdateTaken(t)
  PROVE  UNCHANGED <<Entered, Stored, Out>>
BY DEF IInv, TypeOK, UpdateTaken, UpdateRow, Entered, Stored, Out, Absent, Rows,
       States, memVars, addVars

LEMMA ReturnAbstract ==
  ASSUME IInv, NEW t \in Takers, ReturnToPending(t) \/ ReturnToPendingFails(t)
  PROVE  \E m \in Messages : Out' = Out \ {m} /\ UNCHANGED <<Entered, Stored>>
<1> PICK m \in got[t] :
      /\ cache' = [cache EXCEPT ![m] = IF @ = Absent THEN Absent ELSE "pending"]
      /\ \/ disk' = IF cache[m] = Absent THEN disk ELSE UpdateRow(disk, m, "pending")
         \/ disk' = disk
  BY DEF ReturnToPending, ReturnToPendingFails
<1>1. m \in Messages
  BY DEF IInv, TypeOK
<1>2. Out' = Out \ {m}
  BY <1>1 DEF IInv, TypeOK, Out, Absent
<1>3. Stored' = Stored
  BY <1>1 DEF IInv, TypeOK, UpdateRow, Stored, Absent
<1>4. Entered' = Entered
  BY DEF ReturnToPending, ReturnToPendingFails, Entered, addVars
<1> QED BY <1>1, <1>2, <1>3, <1>4

\* A deletion removes the message, or only takes it back if the storage fails.
LEMMA DeleteAbstract ==
  ASSUME IInv, NEW r \in Removers, DeleteMessage(r) \/ DeleteMessageFails(r)
  PROVE  \E m \in Messages :
           /\ Out' = Out \ {m}
           /\ Stored' = Stored \/ Stored' = Stored \ {m}
           /\ Entered' = Entered
<1> PICK m \in todo[r] :
      /\ cache' = [cache EXCEPT ![m] = Absent]
      /\ disk' = disk \/ disk' = [disk EXCEPT ![m] = Absent]
  BY DEF DeleteMessage, DeleteMessageFails, ForgetMessage
<1>1. m \in Messages
  BY DEF IInv, TypeOK
<1>2. Out' = Out \ {m}
  BY <1>1 DEF IInv, TypeOK, Out, Absent
<1>3. Stored' = Stored \/ Stored' = Stored \ {m}
  BY <1>1 DEF IInv, TypeOK, Stored
<1>4. Entered' = Entered
  BY DEF DeleteMessage, DeleteMessageFails, Entered, addVars
<1> QED BY <1>1, <1>2, <1>3, <1>4

\* A crash takes every message back from its delivery.
LEMMA CrashAbstract ==
  ASSUME IInv, Crash
  PROVE  Out' = {} /\ UNCHANGED <<Entered, Stored>>
<1>1. Out' = {} /\ Stored' = Stored
  BY DEF Crash, Out, Stored, Absent
<1>2. ASSUME NEW m \in Messages
      PROVE  apc'[m] \in {"cache", "done", "unconfirmed"}
               <=> apc[m] \in {"cache", "done", "unconfirmed"}
  <2>1. apc'[m] = CASE apc[m] = "persist" -> "failed"
                    [] apc[m] = "cache" -> "unconfirmed"
                    [] OTHER -> apc[m]
    BY Zenon DEF Crash
  <2> QED BY <2>1
<1>3. Entered' = Entered
  BY <1>2 DEF Entered
<1> QED BY <1>1, <1>3

\* Every step of the repository is a step of the abstract queue or none.
LEMMA StepAbstract ==
  ASSUME IInv, [Next]_vars
  PROVE  \/ UNCHANGED <<Entered, Stored, Out>>
         \/ \E m \in Messages :
              /\ m \notin Entered /\ Entered' = Entered \cup {m}
              /\ Stored' = Stored \cup {m} /\ Out' = Out
         \/ \E S \in SUBSET Messages :
              S \subseteq Stored \ Out /\ Out' = Out \cup S /\ UNCHANGED <<Entered, Stored>>
         \/ \E S \in SUBSET Messages : Out' = Out \ S /\ UNCHANGED <<Entered, Stored>>
         \/ \E m \in Messages :
              Stored' = Stored \ {m} /\ Out' = Out \ {m} /\ Entered' = Entered
<1> DEFINE Stutter == UNCHANGED <<Entered, Stored, Out>>
           Recall == \E S \in SUBSET Messages : Out' = Out \ S /\ UNCHANGED <<Entered, Stored>>
<1> USE DEF Entered, Stored, Out, memVars, addVars
<1>1. CASE LoadStep \/ WarmUpFails \/ Age
  <2>1. CASE LoadMessages
    BY <2>1, LoadStepAbstract
  <2>2. CASE IndexConnections \/ WarmUpFails \/ Age
    BY <2>2 DEF IndexConnections, WarmUpFails, Age
  <2> QED BY <1>1, <2>1, <2>2 DEF LoadStep
<1>2. CASE Crash
  <2>1. Out \in SUBSET Messages /\ Out' = Out \ Out /\ UNCHANGED <<Entered, Stored>>
    BY <1>2, CrashAbstract
  <2>2. Recall
    BY <2>1
  <2> QED BY <2>2
<1>3. ASSUME NEW m \in Messages, StartAdd(m) \/ PersistFails(m) \/ InsertPanics(m)
      PROVE  Stutter
  BY <1>3 DEF StartAdd, PersistFails, InsertPanics, IInv, TypeOK
<1>4. ASSUME NEW m \in Messages, StartAdd(m) \/ AddStep(m)
      PROVE  \/ Stutter
             \/ /\ m \notin Entered /\ Entered' = Entered \cup {m}
                /\ Stored' = Stored \cup {m} /\ Out' = Out
  <2> HIDE DEF Entered, Stored, Out
  <2> QED BY <1>3, <1>4, PersistAbstract, InsertAbstract DEF AddStep
<1>5. ASSUME NEW t \in Takers, TakePanics(t) \/ StartReturn(t) \/ UpdateTakenFails(t)
      PROVE  Stutter
  BY <1>5 DEF TakePanics, StartReturn, UpdateTakenFails
<1>6. ASSUME NEW t \in Takers, ReturnToPending(t) \/ ReturnToPendingFails(t)
      PROVE  Recall
  <2> HIDE DEF Entered, Stored, Out
  <2> PICK m \in Messages : Out' = Out \ {m} /\ UNCHANGED <<Entered, Stored>>
    BY <1>6, ReturnAbstract
  <2> QED BY {m} \in SUBSET Messages
<1>7. ASSUME NEW r \in Removers,
             \/ RemoveMessages(r) \/ ClearConnection(r) \/ CollectExpired(r)
             \/ RemovePanics(r) \/ DeleteExpired(r)
      PROVE  Stutter
  BY <1>7 DEF RemoveMessages, ClearConnection, CollectExpired, RemovePanics, DeleteExpired
<1>8. ASSUME NEW r \in Removers, DeleteMessage(r) \/ DeleteMessageFails(r)
      PROVE  \/ Recall
             \/ \E m \in Messages :
                  Stored' = Stored \ {m} /\ Out' = Out \ {m} /\ Entered' = Entered
  <2> HIDE DEF Entered, Stored, Out
  <2> PICK m \in Messages : /\ Out' = Out \ {m}
                            /\ Stored' = Stored \/ Stored' = Stored \ {m}
                            /\ Entered' = Entered
    BY <1>8, DeleteAbstract
  <2> QED BY {m} \in SUBSET Messages
<1>9. CASE UNCHANGED vars
  BY <1>9 DEF vars
<1> HIDE DEF Entered, Stored, Out
<1>10. ASSUME NEW t \in Takers, TakeFromQueue(t) \/ UpdateTaken(t)
       PROVE  \/ Stutter
              \/ \E S \in SUBSET Messages :
                   S \subseteq Stored \ Out /\ Out' = Out \cup S /\ UNCHANGED <<Entered, Stored>>
  BY <1>10, TakeAbstract, UpdateAbstract
<1> QED
  BY <1>1, <1>2, <1>4, <1>5, <1>6, <1>7, <1>8, <1>9, <1>10
     DEF Next, TakeStep, RemoveStep

\* Refinement: with rows as `stored` and the Sending entries of memory as
\* `out`, the repository is a DurableQueue, crashes and failures included.
THEOREM RepositoryIsADurableQueue == Spec => ImplementsQueue
<1>1. Init => Queue!Init
  BY DEF Init, Queue!Init, Absent
<1>2. ASSUME IInv, [Next]_vars PROVE [Queue!Next]_(Queue!vars)
  BY <1>2, StepAbstract
     DEF Queue!Next, Queue!vars, Queue!Store, Queue!HandOut, Queue!PutBack,
         Queue!Remove, Entered, Stored, Out
<1> QED
  BY <1>1, <1>2, Inductive, PTL DEF Spec, ImplementsQueue, Queue!Spec

\* A message that was stored and removed never comes back.
THEOREM RemovedStaysRemoved == Spec => NoResurrection
<1>1. ASSUME IInv, [Next]_vars, IInv'
      PROVE  [\A m \in Known :
                disk[m] = Absent => disk'[m] = Absent /\ cache'[m] = Absent]_vars
  <2> SUFFICES ASSUME NEW m \in Known, disk[m] = Absent
               PROVE  disk'[m] = Absent /\ cache'[m] = Absent
    OBVIOUS
  <2>1. m \in Messages /\ m \in Entered /\ m \notin Stored
    BY DEF Known, Entered, Stored
  <2>2. m \notin Stored'
    BY <1>1, <2>1, StepAbstract
  <2>3. disk'[m] = Absent
    BY <2>1, <2>2 DEF Stored
  <2> QED BY <1>1, <2>1, <2>3 DEF IInv, Provenance
<1> QED BY <1>1, Inductive, PTL DEF Spec, NoResurrection
=============================================================================
