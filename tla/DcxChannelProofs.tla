-------------------------- MODULE DcxChannelProofs --------------------------
(***************************************************************************)
(* Proofs about DcxChannel, for every number of ends, calls, handlers and  *)
(* crashes.  The safety theorems assume that the host does not register    *)
(* one peer twice concurrently (SerialRegistration): without it they are   *)
(* false, as the run dcx_race shows.                                       *)
(*                                                                         *)
(* The properties are not inductive.  Each needs the discipline the code   *)
(* keeps around its awaits: Registry (every running task works on the one  *)
(* registered Channel), Locking (a task past the lock holds the mutex) and *)
(* SendSide (counters and durable ceiling).                                *)
(***************************************************************************)
EXTENDS DcxChannel, TLAPS

Locked == {"persist", "issue"}
Working == {"get", "lock"} \cup Locked

Registry ==
  /\ \A t \in Tasks : pc[t] \in {"load", "insert"} => registered[At[t]] = None
  /\ \A t, u \in Tasks :
       /\ pc[t] \in {"load", "insert", "list"}
       /\ pc[u] \in {"load", "insert", "list"}
       /\ At[t] = At[u]
       => t = u
  /\ \A t \in Tasks : pc[t] \in Working => t \in Sends /\ registered[At[t]] # None
  /\ \A s \in Sends : pc[s] \in Working \ {"get"} => ref[s] = registered[At[s]]
  /\ \A h \in Handlers : hpc[h] # "idle" => registered[At[h]] # None
  /\ \A h \in Handlers : hpc[h] = "observe" => href[h] = registered[At[h]]
  /\ \A a \in Ends : registered[a] # None => At[registered[a]] = a

\* A Channel that is registered and not yet listed is about to be.
Listing ==
  \A a \in Ends : registered[a] # None =>
    a \in listed \/ \E t \in Tasks : At[t] = a /\ pc[t] = "list"

\* What holds even when registrations race: a task has the Arc, or the frame,
\* that its next step uses.
RefsOK ==
  /\ \A a \in listed : registered[a] # None
  /\ \A t \in Tasks : pc[t] = "list" => registered[At[t]] # None
  /\ \A s \in Sends : pc[s] = "get" => registered[At[s]] # None
  /\ \A s \in Sends : pc[s] \in {"lock", "persist", "issue"} => ref[s] # None
  /\ \A s \in Sends : pc[s] = "push" => msgId[s] # NoId
  /\ \A s \in wire : msgId[s] # NoId
  /\ \A h \in Handlers : hpc[h] = "observe" => href[h] # None
  /\ \A h \in Handlers : hpc[h] \in {"save", "dispatch"} => hmsg[h] # None

Locking == \A s \in Sends : pc[s] \in Locked => held[ref[s]] = s

Below(id, bound) == id < bound \/ id = MaxU64

\* A call that has a msg_id is past the mutex for good.
IssuedIsPast ==
  \A s \in Sends : msgId[s] # NoId => pc[s] \in {"push", "done", "failed"}

IssuedBelowCeiling ==
  \A s \in Sends : msgId[s] # NoId => Below(msgId[s], store[At[s]].send_reserved)

\* Unless a call is about to persist a new ceiling, memory and store agree.
CeilingAgrees ==
  \A a \in Ends : registered[a] # None =>
    /\ obj[registered[a]].msg_id_send <= store[a].send_reserved
    /\ \/ obj[registered[a]].send_reserved = store[a].send_reserved
       \/ \E s \in Sends : At[s] = a /\ pc[s] = "persist"

IssuedBelowCounter ==
  \A s \in Sends : registered[At[s]] # None /\ msgId[s] # NoId
    => Below(msgId[s], obj[registered[At[s]]].msg_id_send)

ReservedAhead ==
  \A s \in Sends : pc[s] = "persist" =>
    /\ Below(obj[ref[s]].msg_id_send, obj[ref[s]].send_reserved)
    /\ store[At[s]].send_reserved <= obj[ref[s]].send_reserved

DurableAhead ==
  \A s \in Sends : pc[s] = "issue" =>
    Below(obj[ref[s]].msg_id_send, store[At[s]].send_reserved)

LoadedIsCurrent ==
  \A t \in Tasks : pc[t] = "insert" => obj[t] = Resume(store[At[t]])

SendSide ==
  /\ IssuedIsPast
  /\ IssuedBelowCeiling
  /\ CeilingAgrees
  /\ IssuedBelowCounter
  /\ ReservedAhead
  /\ DurableAhead
  /\ LoadedIsCurrent

SendInv == TypeOK /\ RefsOK /\ Listing /\ Registry /\ Locking /\ SendSide /\ NonceUnique
-----------------------------------------------------------------------------

\* The operations on Channel and PersistedCounters (state.rs) keep every
\* counter in the u64 range.
LEMMA CounterTypes ==
  /\ NoCounters \in Counters
  /\ from_session_keys \in Channel
  /\ \A c \in Counters : Resume(c) \in Channel
  /\ \A c \in Counters, id \in Ids : /\ SaveRecvMark(c, id) \in Counters
                                     /\ SaveSendReserved(c, id) \in Counters
  /\ \A ch \in Channel : ReserveSend(ch) \in Channel /\ NextSendMsgId(ch) \in Channel
  /\ \A ch \in Channel, id \in Ids : ObserveRecv(ch, id) \in Channel
BY NumbersAssumption
   DEF NoCounters, Counters, Channel, from_session_keys, Resume, SaveRecvMark, SaveSendReserved,
       ReserveSend, NextSendMsgId, ObserveRecv, SatAdd, Ids

LEMMA InitTypeOK == Init => TypeOK /\ RefsOK
<1>1. Init => TypeOK
  BY CounterTypes, NumbersAssumption DEF Init, TypeOK, TaskPCs, HandlerPCs, Ids, NoId
<1>2. Init => RefsOK
  BY DEF Init, RefsOK, Tasks
<1> QED BY <1>1, <1>2

\* Every action of Next keeps the type invariant, whether or not registration
\* is serialised; a frame is only taken from the wire with an issued msg_id.
LEMMA NextTypeOK ==
  ASSUME TypeOK, RefsOK, [Next]_vars
  PROVE  TypeOK'
<1> USE EndsAssumption, TasksAssumption, NumbersAssumption DEF Tasks
<1>1. CASE UNCHANGED vars
  BY <1>1 DEF vars, taskVars, handlerVars, TypeOK
<1>2. CASE \E t \in Tasks : RegistrationStep(t)
  <2> PICK t \in Tasks : RegistrationStep(t) BY <1>2
  <2>1. CASE \/ LookupHit(t) \/ LookupMiss(t) \/ EstablishFails(t)
             \/ InsertChannel(t) \/ ListChannel(t)
    BY <2>1 DEF LookupHit, LookupMiss, EstablishFails, InsertChannel, ListChannel,
                TypeOK, TaskPCs, handlerVars
  <2>2. CASE LoadCounters(t)
    <3>1. Resume(store[At[t]]) \in Channel
      BY CounterTypes DEF TypeOK
    <3> QED
      BY <2>2, <3>1 DEF LoadCounters, TypeOK, TaskPCs, handlerVars
  <2> QED BY <2>1, <2>2 DEF RegistrationStep
<1>3. CASE \E s \in Sends : SendStep(s)
  <2> PICK s \in Sends : SendStep(s) BY <1>3
  <2>1. CASE GetChannel(s) \/ PushFrame(s) \/ PushFails(s)
    BY <2>1 DEF GetChannel, PushFrame, PushFails, TypeOK, TaskPCs, handlerVars
  <2>2. CASE LockChannel(s)
    <3>1. ref[s] \in Tasks /\ ReserveSend(obj[ref[s]]) \in Channel
      BY <2>2, CounterTypes DEF LockChannel, TypeOK, RefsOK
    <3> QED
      BY <2>2, <3>1 DEF LockChannel, TypeOK, TaskPCs, handlerVars
  <2>3. CASE PersistReservation(s)
    <3>1. obj[ref[s]].send_reserved \in Ids
      BY <2>3 DEF PersistReservation, TypeOK, Channel, RefsOK
    <3>2. SaveSendReserved(store[At[s]], obj[ref[s]].send_reserved) \in Counters
      BY <3>1, CounterTypes DEF TypeOK
    <3> QED
      BY <2>3, <3>2 DEF PersistReservation, TypeOK, TaskPCs, handlerVars
  <2>4. CASE IssueFrame(s)
    <3>1. ref[s] \in Tasks
      BY <2>4 DEF IssueFrame, TypeOK, RefsOK
    <3>2. obj[ref[s]] \in Channel
      BY <3>1 DEF TypeOK
    <3>3. NextSendMsgId(obj[ref[s]]) \in Channel
      BY <3>2, CounterTypes
    <3>4. obj[ref[s]].msg_id_send \in Ids
      BY <3>2 DEF Channel
    <3> QED
      BY <2>4, <3>1, <3>3, <3>4 DEF IssueFrame, TypeOK, TaskPCs, handlerVars
  <2> QED BY <2>1, <2>2, <2>3, <2>4 DEF SendStep
<1>4. CASE \E h \in Handlers : ReceiveFrame(h) \/ ReceiveForged(h) \/ HandlerStep(h)
  <2> PICK h \in Handlers : ReceiveFrame(h) \/ ReceiveForged(h) \/ HandlerStep(h)
    BY <1>4
  <2>1. CASE ReceiveFrame(h)
    <3> PICK s \in wire : TakeFrame(h, msgId[s], s) BY <2>1 DEF ReceiveFrame
    <3>1. s \in Sends /\ msgId[s] \in Ids BY DEF TypeOK, RefsOK
    <3> QED BY <3>1 DEF TakeFrame, TypeOK, HandlerPCs, taskVars
  <2>2. CASE ReceiveForged(h)
    <3> PICK id \in ForgedIds : TakeFrame(h, id, None) BY <2>2 DEF ReceiveForged
    <3>1. id \in Ids BY DEF Ids
    <3> QED BY <3>1 DEF TakeFrame, TypeOK, HandlerPCs, taskVars
  <2>3. CASE RejectFrame(h)
    <3>1. 0 \in Ids BY DEF Ids
    <3> QED BY <2>3, <3>1 DEF RejectFrame, ReturnFrom, TypeOK, HandlerPCs, taskVars
  <2>4. CASE AcceptFrame(h)
    <3>1. href[h] \in Tasks /\ ObserveRecv(obj[href[h]], hid[h]) \in Channel
      BY <2>4, CounterTypes DEF AcceptFrame, TypeOK, RefsOK
    <3> QED BY <2>4, <3>1 DEF AcceptFrame, TypeOK, HandlerPCs, taskVars
  <2>5. CASE SaveRecv(h)
    <3>1. SaveRecvMark(store[At[h]], hid[h]) \in Counters
      BY CounterTypes DEF TypeOK
    <3> QED BY <2>5, <3>1 DEF SaveRecv, TypeOK, HandlerPCs, taskVars
  <2>6. CASE DispatchFrame(h)
    <3>1. 0 \in Ids /\ hmsg[h] \in Sends /\ dispatched[hmsg[h]] + 1 \in Nat
      BY <2>6 DEF DispatchFrame, TypeOK, RefsOK, Ids
    <3> QED BY <2>6, <3>1 DEF DispatchFrame, ReturnFrom, TypeOK, HandlerPCs, taskVars
  <2> QED BY <2>1, <2>2, <2>3, <2>4, <2>5, <2>6 DEF HandlerStep
<1>5. CASE \E a \in Ends : Crash(a)
  <2> PICK a \in Ends : Crash(a) BY <1>5
  <2>1. 0 \in Ids /\ from_session_keys \in Channel BY CounterTypes DEF Ids
  <2> QED BY <2>1 DEF Crash, TypeOK, TaskPCs, HandlerPCs
<1> QED BY <1>1, <1>2, <1>3, <1>4, <1>5 DEF Next

\* The Arcs and frames a task works on exist at every await.
LEMMA NextRefsOK ==
  ASSUME TypeOK, RefsOK, [Next]_vars
  PROVE  RefsOK'
<1> USE EndsAssumption, TasksAssumption, NumbersAssumption DEF Tasks, NoId, Ids
<1>1. CASE UNCHANGED vars
  BY <1>1 DEF vars, taskVars, handlerVars, RefsOK
<1>2. CASE \E t \in Tasks : RegistrationStep(t)
  BY <1>2 DEF RegistrationStep, LookupHit, LookupMiss, EstablishFails, LoadCounters,
              InsertChannel, ListChannel, TypeOK, RefsOK, handlerVars
<1>3. CASE \E s \in Sends : SendStep(s)
  <2> PICK s \in Sends : SendStep(s) BY <1>3
  <2>1. CASE GetChannel(s) \/ LockChannel(s) \/ PersistReservation(s)
    BY <2>1 DEF GetChannel, LockChannel, PersistReservation, TypeOK, RefsOK, handlerVars
  <2>2. CASE IssueFrame(s)
    <3>1. obj[ref[s]].msg_id_send \in Ids
      BY <2>2 DEF IssueFrame, TypeOK, RefsOK, Channel
    <3> QED BY <2>2, <3>1 DEF IssueFrame, TypeOK, RefsOK, handlerVars
  <2>3. CASE PushFrame(s) \/ PushFails(s)
    BY <2>3 DEF PushFrame, PushFails, TypeOK, RefsOK, handlerVars
  <2> QED BY <2>1, <2>2, <2>3 DEF SendStep
<1>4. CASE \E h \in Handlers : ReceiveFrame(h) \/ ReceiveForged(h) \/ HandlerStep(h)
  <2> PICK h \in Handlers : ReceiveFrame(h) \/ ReceiveForged(h) \/ HandlerStep(h)
    BY <1>4
  <2>1. CASE ReceiveFrame(h) \/ ReceiveForged(h)
    BY <2>1 DEF ReceiveFrame, ReceiveForged, TakeFrame, TypeOK, RefsOK, taskVars
  <2>2. CASE HandlerStep(h)
    BY <2>2 DEF HandlerStep, RejectFrame, AcceptFrame, SaveRecv, DispatchFrame,
                ReturnFrom, VerifyFails, TypeOK, RefsOK, taskVars
  <2> QED BY <2>1, <2>2
<1>5. CASE \E a \in Ends : Crash(a)
  BY <1>5 DEF Crash, TypeOK, RefsOK
<1> QED BY <1>1, <1>2, <1>3, <1>4, <1>5 DEF Next

\* Type correctness of the channel tables, the counters and the tasks, with or
\* without concurrent registrations: every counter stays a u64 because
\* reserve_send and next_send_msg_id saturate.
THEOREM TypeCorrect == Spec => []TypeOK
<1>1. Init => TypeOK /\ RefsOK
  BY InitTypeOK
<1>2. TypeOK /\ RefsOK /\ [Next]_vars => TypeOK' /\ RefsOK'
  BY NextTypeOK, NextRefsOK
<1> QED BY <1>1, <1>2, PTL DEF Spec
-----------------------------------------------------------------------------
(* The discipline around the awaits, when registration is serialised.      *)

LEMMA InitRegistry == Init => Listing /\ Registry /\ Locking
BY EndsAssumption DEF Init, Listing, Registry, Locking, Working, Locked, Tasks

LEMMA NextListing ==
  ASSUME TypeOK, Listing, [Next]_vars
  PROVE  Listing'
<1> USE EndsAssumption, TasksAssumption DEF Tasks
<1> SUFFICES ASSUME NEW b \in Ends, registered'[b] # None
             PROVE  b \in listed' \/ \E u \in Tasks : At[u] = b /\ pc'[u] = "list"
  BY DEF Listing
<1>1. CASE UNCHANGED vars
  BY <1>1 DEF vars, taskVars, Listing
<1>2. CASE \E t \in Tasks : RegistrationStep(t)
  BY <1>2 DEF RegistrationStep, LookupHit, LookupMiss, EstablishFails, LoadCounters,
              InsertChannel, ListChannel, TypeOK, Listing
<1>3. CASE \E s \in Sends : SendStep(s)
  BY <1>3 DEF SendStep, GetChannel, LockChannel, PersistReservation, IssueFrame,
              PushFrame, PushFails, TypeOK, Listing
<1>4. CASE \E h \in Handlers : ReceiveFrame(h) \/ ReceiveForged(h) \/ HandlerStep(h)
  BY <1>4 DEF ReceiveFrame, ReceiveForged, TakeFrame, HandlerStep, RejectFrame,
              AcceptFrame, SaveRecv, DispatchFrame, taskVars, Listing
<1>5. CASE \E a \in Ends : Crash(a)
  <2> PICK a \in Ends : Crash(a) BY <1>5
  <2>1. b # a /\ registered'[b] = registered[b] /\ (b \in listed => b \in listed')
    BY DEF Crash, TypeOK
  <2>2. \A u \in Tasks : At[u] = b => pc'[u] = pc[u]
    BY <2>1 DEF Crash, TypeOK
  <2> QED BY <2>1, <2>2 DEF Listing
<1> QED BY <1>1, <1>2, <1>3, <1>4, <1>5 DEF Next

LEMMA NextRegistry ==
  ASSUME SerialRegistration, TypeOK, RefsOK, Listing, Registry, [Next]_vars
  PROVE  Registry'
<1> USE EndsAssumption, TasksAssumption DEF Tasks, Working, Locked, Registry
<1>1. CASE UNCHANGED vars
  BY <1>1 DEF vars, taskVars, handlerVars
<1>2. CASE \E t \in Tasks : RegistrationStep(t)
  <2> PICK t \in Tasks : RegistrationStep(t) BY <1>2
  <2>1. CASE LookupHit(t)
    <3>1. registered[At[t]] # None
      BY <2>1 DEF LookupHit, RefsOK
    <3> QED BY <2>1, <3>1 DEF LookupHit, TypeOK, handlerVars
  <2>2. CASE LookupMiss(t)
    <3>1. registered[At[t]] = None
      BY <2>2 DEF LookupMiss, Registering, Listing
    <3> QED BY <2>2, <3>1 DEF LookupMiss, Registering, TypeOK, handlerVars
  <2>3. CASE EstablishFails(t) \/ LoadCounters(t)
    BY <2>3 DEF EstablishFails, LoadCounters, TypeOK, handlerVars
  <2>4. CASE InsertChannel(t)
    BY <2>4 DEF InsertChannel, TypeOK, handlerVars
  <2>5. CASE ListChannel(t)
    BY <2>5 DEF ListChannel, RefsOK, TypeOK, handlerVars
  <2> QED BY <2>1, <2>2, <2>3, <2>4, <2>5 DEF RegistrationStep
<1>3. CASE \E s \in Sends : SendStep(s)
  <2> PICK s \in Sends : SendStep(s) BY <1>3
  <2>1. CASE GetChannel(s)
    BY <2>1 DEF GetChannel, TypeOK, handlerVars
  <2>2. CASE LockChannel(s) \/ PersistReservation(s)
    BY <2>2 DEF LockChannel, PersistReservation, TypeOK, handlerVars
  <2>3. CASE IssueFrame(s) \/ PushFrame(s) \/ PushFails(s)
    BY <2>3 DEF IssueFrame, PushFrame, PushFails, TypeOK, handlerVars
  <2> QED BY <2>1, <2>2, <2>3 DEF SendStep
<1>4. CASE \E h \in Handlers : ReceiveFrame(h) \/ ReceiveForged(h) \/ HandlerStep(h)
  BY <1>4 DEF ReceiveFrame, ReceiveForged, TakeFrame, HandlerStep, RejectFrame,
              AcceptFrame, SaveRecv, DispatchFrame, ReturnFrom, TypeOK, taskVars
<1>5. CASE \E a \in Ends : Crash(a)
  BY <1>5 DEF Crash, TypeOK
<1> QED BY <1>1, <1>2, <1>3, <1>4, <1>5 DEF Next

\* The mutex of a Channel is held by at most one send_to_peer call.
LEMMA NextLocking ==
  ASSUME TypeOK, Registry, Locking, [Next]_vars
  PROVE  Locking'
<1> USE EndsAssumption, TasksAssumption DEF Tasks, Working, Locked, Locking
<1>1. CASE UNCHANGED vars
  BY <1>1 DEF vars, taskVars
<1>2. CASE \E t \in Tasks : RegistrationStep(t)
  BY <1>2 DEF RegistrationStep, LookupHit, LookupMiss, EstablishFails, LoadCounters,
              InsertChannel, ListChannel, TypeOK
<1>3. CASE \E s \in Sends : SendStep(s)
  <2> PICK s \in Sends : SendStep(s) BY <1>3
  <2>1. CASE GetChannel(s) \/ PersistReservation(s) \/ PushFrame(s) \/ PushFails(s)
    BY <2>1 DEF GetChannel, PersistReservation, PushFrame, PushFails, TypeOK
  <2>2. CASE LockChannel(s)
    BY <2>2 DEF LockChannel, TypeOK, Registry
  <2>3. CASE IssueFrame(s)
    BY <2>3 DEF IssueFrame, TypeOK, Registry
  <2> QED BY <2>1, <2>2, <2>3 DEF SendStep
<1>4. CASE \E h \in Handlers : ReceiveFrame(h) \/ ReceiveForged(h) \/ HandlerStep(h)
  BY <1>4 DEF ReceiveFrame, ReceiveForged, TakeFrame, HandlerStep, RejectFrame,
              AcceptFrame, SaveRecv, DispatchFrame, ReturnFrom, TypeOK, taskVars
<1>5. CASE \E a \in Ends : Crash(a)
  BY <1>5 DEF Crash, TypeOK, Registry
<1> QED BY <1>1, <1>2, <1>3, <1>4, <1>5 DEF Next
-----------------------------------------------------------------------------
(* What the operations on the counters do to the send side.                *)

LEMMA ReserveFacts ==
  ASSUME NEW ch \in Channel
  PROVE  /\ ReserveSend(ch).msg_id_send = ch.msg_id_send
         /\ ReserveSend(ch).msg_id_recv = ch.msg_id_recv
         /\ ReserveSend(ch).received_any = ch.received_any
         /\ ch.msg_id_send <= ReserveSend(ch).send_reserved
         /\ Below(ch.msg_id_send, ReserveSend(ch).send_reserved)
BY NumbersAssumption DEF Channel, ReserveSend, SatAdd, Ids, Below

LEMMA NextIdFacts ==
  ASSUME NEW ch \in Channel
  PROVE  /\ NextSendMsgId(ch).send_reserved = ch.send_reserved
         /\ NextSendMsgId(ch).msg_id_recv = ch.msg_id_recv
         /\ NextSendMsgId(ch).received_any = ch.received_any
         /\ Below(ch.msg_id_send, NextSendMsgId(ch).msg_id_send)
         /\ \A id \in Ids : Below(id, ch.msg_id_send)
                              => Below(id, NextSendMsgId(ch).msg_id_send)
         /\ \A ceiling \in Ids :
              Below(ch.msg_id_send, ceiling) /\ ch.msg_id_send <= ceiling
                => NextSendMsgId(ch).msg_id_send <= ceiling
BY NumbersAssumption DEF Channel, NextSendMsgId, SatAdd, Ids, Below

LEMMA ObserveFacts ==
  ASSUME NEW ch \in Channel, NEW id \in Ids
  PROVE  /\ ObserveRecv(ch, id).msg_id_send = ch.msg_id_send
         /\ ObserveRecv(ch, id).send_reserved = ch.send_reserved
         /\ ObserveRecv(ch, id).msg_id_recv = id
         /\ ObserveRecv(ch, id).received_any = TRUE
BY DEF ObserveRecv

LEMMA SaveFacts ==
  ASSUME NEW c \in Counters, NEW id \in Ids
  PROVE  /\ SaveRecvMark(c, id).send_reserved = c.send_reserved
         /\ SaveRecvMark(c, id).received_any = TRUE
         /\ id <= SaveRecvMark(c, id).msg_id_recv
         /\ c.received_any => c.msg_id_recv <= SaveRecvMark(c, id).msg_id_recv
         /\ \/ SaveRecvMark(c, id).msg_id_recv = id
            \/ c.received_any /\ SaveRecvMark(c, id).msg_id_recv = c.msg_id_recv
         /\ SaveSendReserved(c, id).send_reserved = id
         /\ SaveSendReserved(c, id).msg_id_recv = c.msg_id_recv
         /\ SaveSendReserved(c, id).received_any = c.received_any
BY NumbersAssumption DEF Counters, SaveRecvMark, SaveSendReserved, Ids

LEMMA InitSendSide == Init => SendSide /\ NonceUnique
BY EndsAssumption
   DEF Init, SendSide, NonceUnique, Tasks, IssuedIsPast, IssuedBelowCeiling,
       CeilingAgrees, IssuedBelowCounter, ReservedAhead, DurableAhead, LoadedIsCurrent

\* The write-ahead rule: the ceiling in the store stays above every msg_id that
\* was issued, through every interleaving of sends, receptions and crashes.
LEMMA NextSendSide ==
  ASSUME SerialRegistration, SendInv, [Next]_vars
  PROVE  SendSide'
<1> USE EndsAssumption, TasksAssumption DEF Tasks, SendInv
<1>0. TypeOK' BY NextTypeOK
<1>1. CASE UNCHANGED vars
  BY <1>1 DEF vars, taskVars, handlerVars, SendSide, IssuedIsPast, IssuedBelowCeiling,
              CeilingAgrees, IssuedBelowCounter, ReservedAhead, DurableAhead,
              LoadedIsCurrent
<1>2. CASE \E t \in Tasks : RegistrationStep(t)
  <2> PICK t \in Tasks : RegistrationStep(t) BY <1>2
  <2>1. CASE LookupHit(t) \/ LookupMiss(t) \/ EstablishFails(t) \/ ListChannel(t)
    <3>1. /\ obj' = obj /\ registered' = registered /\ msgId' = msgId /\ store' = store
          /\ \A u \in Sends : u # t => ref'[u] = ref[u]
          /\ \A u \in Tasks : u # t => pc'[u] = pc[u]
          /\ pc[t] \in {"idle", "list"}
          /\ pc'[t] \in {"lock", "load", "get", "done", "failed"}
      BY <2>1 DEF LookupHit, LookupMiss, EstablishFails, ListChannel, TypeOK
    <3>2. IssuedIsPast' /\ IssuedBelowCeiling' /\ IssuedBelowCounter'
      BY <3>1 DEF SendSide, IssuedIsPast, IssuedBelowCeiling, IssuedBelowCounter
    <3>3. CeilingAgrees'
      BY <3>1 DEF SendSide, CeilingAgrees
    <3>4. ReservedAhead' /\ DurableAhead' /\ LoadedIsCurrent'
      BY <3>1 DEF SendSide, ReservedAhead, DurableAhead, LoadedIsCurrent
    <3> QED BY <3>2, <3>3, <3>4 DEF SendSide
  <2>2. CASE LoadCounters(t)
    <3>1. /\ registered' = registered /\ ref' = ref /\ msgId' = msgId /\ store' = store
          /\ \A u \in Tasks : u # t => pc'[u] = pc[u] /\ obj'[u] = obj[u]
          /\ pc[t] = "load" /\ pc'[t] = "insert" /\ obj'[t] = Resume(store[At[t]])
      BY <2>2 DEF LoadCounters, TypeOK
    <3>2. /\ \A b \in Ends : registered[b] # None => registered[b] \in Tasks /\ registered[b] # t
          /\ \A r \in Sends : pc[r] \in Locked => ref[r] \in Tasks /\ ref[r] # t
      <4>1. registered[At[t]] = None /\ \A b \in Ends : registered[b] # None => At[registered[b]] = b
        BY <3>1 DEF Registry
      <4> QED BY <4>1 DEF Registry, Working, Locked, TypeOK
    <3>3. IssuedIsPast' /\ IssuedBelowCeiling' /\ IssuedBelowCounter'
      BY <3>1, <3>2 DEF SendSide, IssuedIsPast, IssuedBelowCeiling, IssuedBelowCounter
    <3>4. CeilingAgrees'
      BY <3>1, <3>2 DEF SendSide, CeilingAgrees
    <3>5. ReservedAhead' /\ DurableAhead' /\ LoadedIsCurrent'
      BY <3>1, <3>2 DEF SendSide, ReservedAhead, DurableAhead, LoadedIsCurrent, Locked
    <3> QED BY <3>3, <3>4, <3>5 DEF SendSide
  <2>3. CASE InsertChannel(t)
    <3>1. /\ obj' = obj /\ ref' = ref /\ msgId' = msgId /\ store' = store
          /\ registered' = [registered EXCEPT ![At[t]] = t]
          /\ registered'[At[t]] = t
          /\ \A u \in Tasks : u # t => pc'[u] = pc[u]
          /\ pc'[t] = "list"
          /\ registered[At[t]] = None
          /\ obj[t] = Resume(store[At[t]])
          /\ msgId[t] = NoId \/ t \notin Sends
      BY <2>3 DEF InsertChannel, TypeOK, Registry, SendSide, LoadedIsCurrent, IssuedIsPast
    <3>2. obj[t].msg_id_send = store[At[t]].send_reserved
          /\ obj[t].send_reserved = store[At[t]].send_reserved
          /\ store[At[t]].send_reserved \in Nat
      BY <3>1, NumbersAssumption DEF Resume, TypeOK, Counters, Ids
    <3>3. IssuedIsPast'
      BY <3>1 DEF SendSide, IssuedIsPast
    <3>4. IssuedBelowCeiling' /\ ReservedAhead' /\ DurableAhead' /\ LoadedIsCurrent'
      BY <3>1 DEF SendSide, IssuedBelowCeiling, ReservedAhead, DurableAhead, LoadedIsCurrent
    <3>5. CeilingAgrees'
      <4> SUFFICES ASSUME NEW a \in Ends, registered'[a] # None
                   PROVE  /\ obj[registered'[a]].msg_id_send <= store[a].send_reserved
                          /\ \/ obj[registered'[a]].send_reserved = store[a].send_reserved
                             \/ \E s \in Sends : At[s] = a /\ pc'[s] = "persist"
        BY <3>1 DEF CeilingAgrees
      <4>1. CASE a = At[t]
        BY <4>1, <3>1, <3>2
      <4>2. CASE a # At[t]
        BY <4>2, <3>1 DEF SendSide, CeilingAgrees, TypeOK
      <4> QED BY <4>1, <4>2
    <3>6. IssuedBelowCounter'
      BY <3>1, <3>2 DEF SendSide, IssuedBelowCounter, IssuedBelowCeiling, TypeOK
    <3> QED BY <3>3, <3>4, <3>5, <3>6 DEF SendSide
  <2> QED BY <2>1, <2>2, <2>3 DEF RegistrationStep
<1>3. CASE \E s \in Sends : SendStep(s)
  <2> PICK s \in Sends : SendStep(s) BY <1>3
  <2>1. CASE GetChannel(s) \/ PushFrame(s) \/ PushFails(s)
    <3>1. /\ obj' = obj /\ registered' = registered /\ msgId' = msgId /\ store' = store
          /\ \A u \in Sends : u # s => ref'[u] = ref[u]
          /\ \A u \in Tasks : u # s => pc'[u] = pc[u]
          /\ pc[s] \in {"get", "push"} /\ pc'[s] \in {"lock", "done", "failed"}
          /\ pc[s] = "push" => pc'[s] # "lock"
      BY <2>1 DEF GetChannel, PushFrame, PushFails, TypeOK
    <3>2. IssuedIsPast' /\ IssuedBelowCeiling' /\ IssuedBelowCounter'
      BY <3>1 DEF SendSide, IssuedIsPast, IssuedBelowCeiling, IssuedBelowCounter
    <3>3. CeilingAgrees'
      BY <3>1 DEF SendSide, CeilingAgrees
    <3>4. ReservedAhead' /\ DurableAhead' /\ LoadedIsCurrent'
      BY <3>1 DEF SendSide, ReservedAhead, DurableAhead, LoadedIsCurrent
    <3> QED BY <3>2, <3>3, <3>4 DEF SendSide
  <2>2. CASE LockChannel(s)
    <3>1. ref[s] \in Tasks /\ ref[s] = registered[At[s]] /\ At[ref[s]] = At[s]
      BY <2>2 DEF LockChannel, TypeOK, RefsOK, Registry, Working, Locked
    <3>2. \A r \in Sends : At[r] = At[s] => pc[r] \notin Locked
      BY <2>2, <3>1 DEF LockChannel, TypeOK, Registry, Working, Locked, Locking
    <3> DEFINE ch == obj[ref[s]]
    <3>a. /\ ch \in Channel
          /\ ReserveSend(ch).msg_id_send = ch.msg_id_send
          /\ ch.msg_id_send <= ReserveSend(ch).send_reserved
          /\ Below(ch.msg_id_send, ReserveSend(ch).send_reserved)
      BY <3>1, ReserveFacts DEF TypeOK
    <3>b. /\ ref' = ref /\ registered' = registered /\ msgId' = msgId /\ store' = store
          /\ \A u \in Tasks : u # s => pc'[u] = pc[u]
          /\ \A u \in Tasks : u # ref[s] => obj'[u] = obj[u]
          /\ pc[s] = "lock"
          /\ \/ /\ pc'[s] = "persist" /\ obj'[ref[s]] = ReserveSend(ch)
                /\ NeedsSendReservation(ch)
             \/ pc'[s] = "issue" /\ obj'[ref[s]] = ch /\ ~NeedsSendReservation(ch)
      BY <2>2, <3>1 DEF LockChannel, TypeOK
    <3>c. msgId[s] = NoId /\ (\A u \in Tasks : pc[u] = "insert" => u # ref[s] /\ u # s)
      BY <3>b, <3>1 DEF SendSide, IssuedIsPast, Registry, TypeOK
    <3>3. /\ obj'[ref[s]].msg_id_send = obj[ref[s]].msg_id_send
          /\ pc'[s] \in Locked
      BY <3>a, <3>b DEF Locked
    <3>4. obj[ref[s]].send_reserved = store[At[s]].send_reserved
      BY <3>1, <3>2 DEF SendSide, CeilingAgrees, Locked, TypeOK
    <3>d. ch.msg_id_send <= store[At[s]].send_reserved
      BY <3>1 DEF SendSide, CeilingAgrees, TypeOK
    <3>e. obj'[ref[s]] \in Channel
      BY <1>0, <3>1 DEF TypeOK
    <3>5. /\ obj[ref[s]].send_reserved \in Nat /\ obj[ref[s]].msg_id_send \in Nat
          /\ obj'[ref[s]].send_reserved \in Nat
          /\ obj[ref[s]].msg_id_send <= store[At[s]].send_reserved
      BY <3>a, <3>d, <3>e, NumbersAssumption DEF Channel, Ids
    <3>6. \/ /\ pc'[s] = "persist"
             /\ Below(obj[ref[s]].msg_id_send, obj'[ref[s]].send_reserved)
             /\ obj[ref[s]].send_reserved <= obj'[ref[s]].send_reserved
          \/ /\ pc'[s] = "issue"
             /\ obj'[ref[s]] = obj[ref[s]]
             /\ obj[ref[s]].msg_id_send < obj[ref[s]].send_reserved
      BY <3>a, <3>b, <3>4, <3>5 DEF NeedsSendReservation
    <3>7. IssuedIsPast' /\ IssuedBelowCeiling' /\ LoadedIsCurrent'
      BY <3>b, <3>c, <3>3 DEF SendSide, IssuedIsPast, IssuedBelowCeiling, LoadedIsCurrent,
                              Locked
    <3>8. IssuedBelowCounter'
      BY <3>1, <3>b, <3>3 DEF SendSide, IssuedBelowCounter, TypeOK
    <3>9. CeilingAgrees'
      <4> SUFFICES ASSUME NEW a \in Ends, registered[a] # None
                   PROVE  /\ obj'[registered[a]].msg_id_send <= store[a].send_reserved
                          /\ \/ obj'[registered[a]].send_reserved = store[a].send_reserved
                             \/ \E r \in Sends : At[r] = a /\ pc'[r] = "persist"
        BY <3>b DEF CeilingAgrees
      <4>1. CASE a = At[s]
        BY <4>1, <3>1, <3>3, <3>4, <3>5, <3>6
      <4>2. CASE a # At[s]
        <5>1. registered[a] \in Tasks /\ registered[a] # ref[s]
          BY <4>2, <3>1 DEF Registry, TypeOK
        <5> QED BY <4>2, <5>1, <3>b DEF SendSide, CeilingAgrees
      <4> QED BY <4>1, <4>2
    <3>10. ReservedAhead' /\ DurableAhead'
      <4>1. ASSUME NEW r \in Sends, r # s, pc'[r] \in Locked
            PROVE  pc[r] = pc'[r] /\ ref[r] \in Tasks /\ obj'[ref[r]] = obj[ref[r]]
        BY <4>1, <3>1, <3>2, <3>b, <3>3 DEF Locked, Working, Registry, TypeOK
      <4>2. ReservedAhead'
        BY <4>1, <3>b, <3>3, <3>4, <3>6 DEF SendSide, ReservedAhead, Locked
      <4>3. DurableAhead'
        BY <4>1, <3>b, <3>3, <3>4, <3>6 DEF SendSide, DurableAhead, Below, Locked
      <4> QED BY <4>2, <4>3
    <3> QED BY <3>7, <3>8, <3>9, <3>10 DEF SendSide
  <2>3. CASE PersistReservation(s)
    <3>1. /\ ref[s] \in Tasks /\ ref[s] = registered[At[s]] /\ At[s] \in Ends
          /\ obj[ref[s]].send_reserved \in Ids
          /\ \A r \in Sends : r # s /\ At[r] = At[s] => pc[r] \notin Locked
          /\ \A u \in Tasks : At[u] = At[s] => pc[u] # "insert"
      <4>1. pc[s] = "persist" /\ ref[s] \in Tasks /\ ref[s] = registered[At[s]]
        BY <2>3 DEF PersistReservation, TypeOK, RefsOK, Registry, Working, Locked
      <4>2. obj[ref[s]].send_reserved \in Ids
        BY <4>1 DEF TypeOK, Channel
      <4>3. \A r \in Sends : r # s /\ At[r] = At[s] => pc[r] \notin Locked
        BY <4>1 DEF Locking, Locked, Registry, Working, TypeOK
      <4>4. \A u \in Tasks : At[u] = At[s] => pc[u] # "insert"
        BY <4>1 DEF Registry, TypeOK
      <4> QED BY <4>1, <4>2, <4>3, <4>4
    <3>2. /\ ref' = ref /\ registered' = registered /\ msgId' = msgId /\ obj' = obj
          /\ \A u \in Tasks : u # s => pc'[u] = pc[u]
          /\ pc[s] = "persist" /\ pc'[s] = "issue"
          /\ \A a \in Ends : a # At[s] => store'[a] = store[a]
          /\ store'[At[s]].send_reserved = obj[ref[s]].send_reserved
      <4>1. SaveSendReserved(store[At[s]], obj[ref[s]].send_reserved).send_reserved
              = obj[ref[s]].send_reserved
        <5>1. store[At[s]] \in Counters
          BY <3>1 DEF TypeOK
        <5> QED BY <3>1, <5>1 DEF SaveSendReserved, Counters
      <4> QED BY <2>3, <3>1, <4>1 DEF PersistReservation, TypeOK
    <3>3. /\ Below(obj[ref[s]].msg_id_send, obj[ref[s]].send_reserved)
          /\ store[At[s]].send_reserved <= obj[ref[s]].send_reserved
          /\ store[At[s]].send_reserved \in Nat /\ obj[ref[s]].msg_id_send \in Nat
          /\ obj[ref[s]].send_reserved \in Nat
          /\ obj[ref[s]].msg_id_send <= store[At[s]].send_reserved
      BY <3>1, <3>2, NumbersAssumption
         DEF SendSide, ReservedAhead, TypeOK, Counters, Channel, Ids, CeilingAgrees
    <3>4. IssuedIsPast' /\ IssuedBelowCounter'
      BY <3>2 DEF SendSide, IssuedIsPast, IssuedBelowCounter
    <3>5. IssuedBelowCeiling'
      <4>1. \A r \in Sends : msgId[r] # NoId => msgId[r] \in Nat
        BY NumbersAssumption DEF TypeOK, Ids
      <4> QED BY <3>1, <3>2, <3>3, <4>1 DEF SendSide, IssuedBelowCeiling, Below, TypeOK
    <3>6. CeilingAgrees'
      <4> SUFFICES ASSUME NEW b \in Ends, registered[b] # None
                   PROVE  /\ obj[registered[b]].msg_id_send <= store'[b].send_reserved
                          /\ \/ obj[registered[b]].send_reserved = store'[b].send_reserved
                             \/ \E r \in Sends : At[r] = b /\ pc'[r] = "persist"
        BY <3>2 DEF CeilingAgrees
      <4>1. CASE b = At[s]
        BY <4>1, <3>1, <3>2, <3>3
      <4>2. CASE b # At[s]
        BY <4>2, <3>2 DEF SendSide, CeilingAgrees
      <4> QED BY <4>1, <4>2
    <3>7. ReservedAhead' /\ DurableAhead' /\ LoadedIsCurrent'
      BY <3>1, <3>2, <3>3 DEF SendSide, ReservedAhead, DurableAhead, LoadedIsCurrent, Locked
    <3> QED BY <3>4, <3>5, <3>6, <3>7 DEF SendSide
  <2>4. CASE IssueFrame(s)
    <3>1. /\ ref[s] \in Tasks /\ ref[s] = registered[At[s]] /\ At[s] \in Ends
          /\ At[ref[s]] = At[s]
          /\ obj[ref[s]] \in Channel
          /\ \A r \in Sends : r # s /\ At[r] = At[s] => pc[r] \notin Locked
          /\ \A u \in Tasks : pc[u] = "insert" => u # ref[s] /\ u # s
      BY <2>4 DEF IssueFrame, TypeOK, RefsOK, Registry, Working, Locked, Locking
    <3>2. /\ ref' = ref /\ registered' = registered /\ store' = store
          /\ \A u \in Tasks : u # s => pc'[u] = pc[u]
          /\ pc[s] = "issue" /\ pc'[s] = "push"
          /\ \A r \in Sends : r # s => msgId'[r] = msgId[r]
          /\ msgId'[s] = obj[ref[s]].msg_id_send
          /\ \A u \in Tasks : u # ref[s] => obj'[u] = obj[u]
          /\ obj'[ref[s]] = NextSendMsgId(obj[ref[s]])
      BY <2>4, <3>1 DEF IssueFrame, TypeOK
    <3>3. /\ obj'[ref[s]].send_reserved = obj[ref[s]].send_reserved
          /\ Below(obj[ref[s]].msg_id_send, obj'[ref[s]].msg_id_send)
          /\ \A id \in Ids : Below(id, obj[ref[s]].msg_id_send)
                               => Below(id, obj'[ref[s]].msg_id_send)
          /\ obj'[ref[s]].msg_id_send <= store[At[s]].send_reserved
      <4>1. /\ obj[ref[s]] \in Channel /\ store[At[s]].send_reserved \in Ids
            /\ Below(obj[ref[s]].msg_id_send, store[At[s]].send_reserved)
            /\ obj[ref[s]].msg_id_send <= store[At[s]].send_reserved
        BY <3>1, <3>2 DEF SendSide, DurableAhead, CeilingAgrees, TypeOK, Counters
      <4> QED BY <4>1, <3>2, NextIdFacts
    <3>4. IssuedIsPast' /\ IssuedBelowCeiling' /\ LoadedIsCurrent'
      BY <3>1, <3>2 DEF SendSide, IssuedIsPast, IssuedBelowCeiling, DurableAhead,
                        LoadedIsCurrent
    <3>5. CeilingAgrees'
      <4> SUFFICES ASSUME NEW a \in Ends, registered[a] # None
                   PROVE  /\ obj'[registered[a]].msg_id_send <= store[a].send_reserved
                          /\ \/ obj'[registered[a]].send_reserved = store[a].send_reserved
                             \/ \E r \in Sends : At[r] = a /\ pc'[r] = "persist"
        BY <3>2 DEF CeilingAgrees
      <4>1. CASE a = At[s]
        BY <4>1, <3>1, <3>2, <3>3 DEF SendSide, CeilingAgrees, Locked
      <4>2. CASE a # At[s]
        <5>1. registered[a] \in Tasks /\ registered[a] # ref[s]
          BY <4>2, <3>1 DEF Registry, TypeOK
        <5> QED BY <4>2, <5>1, <3>2 DEF SendSide, CeilingAgrees
      <4> QED BY <4>1, <4>2
    <3>6. IssuedBelowCounter'
      <4> SUFFICES ASSUME NEW r \in Sends, registered[At[r]] # None, msgId'[r] # NoId
                   PROVE  Below(msgId'[r], obj'[registered[At[r]]].msg_id_send)
        BY <3>2 DEF IssuedBelowCounter
      <4>1. CASE r = s
        BY <4>1, <3>1, <3>2, <3>3
      <4>2. CASE r # s /\ At[r] = At[s]
        <5>1. msgId[r] \in Ids /\ Below(msgId[r], obj[ref[s]].msg_id_send)
          BY <4>2, <3>1, <3>2 DEF SendSide, IssuedBelowCounter, TypeOK
        <5> QED BY <5>1, <4>2, <3>1, <3>2, <3>3
      <4>3. CASE At[r] # At[s]
        <5>1. registered[At[r]] \in Tasks /\ registered[At[r]] # ref[s]
          BY <4>3, <3>1 DEF Registry, TypeOK
        <5> QED BY <4>3, <5>1, <3>2 DEF SendSide, IssuedBelowCounter
      <4> QED BY <4>1, <4>2, <4>3
    <3>7. ReservedAhead' /\ DurableAhead'
      <4>1. \A r \in Sends : pc'[r] \in Locked =>
              r # s /\ At[r] # At[s] /\ ref[r] # ref[s] /\ ref[r] \in Tasks
        BY <3>1, <3>2 DEF Registry, Locked, Working, TypeOK, RefsOK
      <4> QED BY <4>1, <3>2 DEF SendSide, ReservedAhead, DurableAhead, Locked
    <3> QED BY <3>4, <3>5, <3>6, <3>7 DEF SendSide
  <2> QED BY <2>1, <2>2, <2>3, <2>4 DEF SendStep
<1>4. CASE \E h \in Handlers : ReceiveFrame(h) \/ ReceiveForged(h) \/ HandlerStep(h)
  <2> PICK h \in Handlers : ReceiveFrame(h) \/ ReceiveForged(h) \/ HandlerStep(h)
    BY <1>4
  <2>1. CASE ReceiveFrame(h) \/ ReceiveForged(h) \/ RejectFrame(h) \/ DispatchFrame(h)
    BY <2>1 DEF ReceiveFrame, ReceiveForged, TakeFrame, RejectFrame, DispatchFrame,
                taskVars, SendSide, IssuedIsPast, IssuedBelowCeiling, CeilingAgrees,
                IssuedBelowCounter, ReservedAhead, DurableAhead, LoadedIsCurrent
  <2>2. CASE AcceptFrame(h)
    <3>1. href[h] \in Tasks /\ registered[At[h]] = href[h] /\ At[href[h]] = At[h]
      BY <2>2 DEF AcceptFrame, TypeOK, RefsOK, Registry
    <3>2. /\ pc' = pc /\ ref' = ref /\ registered' = registered /\ store' = store
          /\ msgId' = msgId
          /\ \A u \in Tasks : u # href[h] => obj'[u] = obj[u]
          /\ \A u \in Tasks : /\ obj'[u].msg_id_send = obj[u].msg_id_send
                              /\ obj'[u].send_reserved = obj[u].send_reserved
          /\ pc[href[h]] # "insert"
      <4>1. LET ch == obj[href[h]]
            IN  /\ ObserveRecv(ch, hid[h]).msg_id_send = ch.msg_id_send
                /\ ObserveRecv(ch, hid[h]).send_reserved = ch.send_reserved
        BY <3>1, ObserveFacts DEF TypeOK
      <4>2. pc[href[h]] # "insert"
        BY <2>2, <3>1 DEF AcceptFrame, Registry, TypeOK
      <4> QED BY <2>2, <3>1, <4>1, <4>2 DEF AcceptFrame, TypeOK
    <3>3. IssuedIsPast' /\ IssuedBelowCeiling' /\ LoadedIsCurrent'
      BY <3>2 DEF SendSide, IssuedIsPast, IssuedBelowCeiling, LoadedIsCurrent
    <3>4. CeilingAgrees' /\ IssuedBelowCounter'
      BY <3>2 DEF SendSide, CeilingAgrees, IssuedBelowCounter, TypeOK
    <3>5. ReservedAhead' /\ DurableAhead'
      BY <3>2 DEF SendSide, ReservedAhead, DurableAhead, TypeOK, RefsOK
    <3> QED BY <3>3, <3>4, <3>5 DEF SendSide
  <2>3. CASE SaveRecv(h)
    <3>1. /\ pc' = pc /\ ref' = ref /\ registered' = registered /\ obj' = obj
          /\ msgId' = msgId
          /\ \A a \in Ends : a # At[h] => store'[a] = store[a]
          /\ \A a \in Ends : store'[a].send_reserved = store[a].send_reserved
          /\ \A u \in Tasks : At[u] = At[h] => pc[u] # "insert"
      <4>1. SaveRecvMark(store[At[h]], hid[h]).send_reserved = store[At[h]].send_reserved
        BY SaveFacts DEF TypeOK
      <4>2. \A u \in Tasks : At[u] = At[h] => pc[u] # "insert"
        BY <2>3 DEF SaveRecv, Registry, TypeOK
      <4> QED BY <2>3, <4>1, <4>2 DEF SaveRecv, TypeOK, taskVars
    <3>2. IssuedIsPast' /\ IssuedBelowCeiling' /\ LoadedIsCurrent'
      BY <3>1 DEF SendSide, IssuedIsPast, IssuedBelowCeiling, LoadedIsCurrent
    <3>3. CeilingAgrees' /\ IssuedBelowCounter' /\ ReservedAhead' /\ DurableAhead'
      BY <3>1 DEF SendSide, CeilingAgrees, IssuedBelowCounter, ReservedAhead, DurableAhead
    <3> QED BY <3>2, <3>3 DEF SendSide
  <2> QED BY <2>1, <2>2, <2>3 DEF HandlerStep
<1>5. CASE \E a \in Ends : Crash(a)
  <2> PICK a \in Ends : Crash(a) BY <1>5
  <2>1. /\ store' = store /\ msgId' = msgId
        /\ \A b \in Ends : b # a => registered'[b] = registered[b]
        /\ registered'[a] = None
        /\ \A u \in Tasks : At[u] # a => pc'[u] = pc[u] /\ obj'[u] = obj[u]
        /\ \A u \in Tasks : At[u] = a =>
             /\ pc[u] \in {"idle", "done"} => pc'[u] = pc[u]
             /\ pc[u] \notin {"idle", "done"} => pc'[u] = "failed"
        /\ \A s \in Sends : At[s] # a => ref'[s] = ref[s]
    BY DEF Crash, TypeOK
  <2>2. IssuedIsPast' /\ IssuedBelowCeiling' /\ LoadedIsCurrent'
    BY <2>1 DEF SendSide, IssuedIsPast, IssuedBelowCeiling, LoadedIsCurrent
  <2>3. CeilingAgrees' /\ IssuedBelowCounter'
    <3>1. \A b \in Ends : registered'[b] # None =>
            /\ b # a /\ registered'[b] = registered[b]
            /\ registered[b] \in Tasks /\ obj'[registered[b]] = obj[registered[b]]
      BY <2>1 DEF Registry, TypeOK
    <3>2. CeilingAgrees'
      BY <2>1, <3>1 DEF SendSide, CeilingAgrees
    <3>3. IssuedBelowCounter'
      BY <2>1, <3>1 DEF SendSide, IssuedBelowCounter
    <3> QED BY <3>2, <3>3
  <2>4. ReservedAhead' /\ DurableAhead'
    <3>1. ASSUME NEW s \in Sends, pc'[s] \in Locked
          PROVE  /\ pc[s] = pc'[s] /\ ref'[s] = ref[s]
                 /\ ref[s] \in Tasks /\ obj'[ref[s]] = obj[ref[s]]
      BY <3>1, <2>1 DEF Registry, Working, Locked, TypeOK
    <3> QED BY <2>1, <3>1 DEF SendSide, ReservedAhead, DurableAhead, Locked
  <2> QED BY <2>2, <2>3, <2>4 DEF SendSide
<1> QED BY <1>1, <1>2, <1>3, <1>4, <1>5 DEF Next

\* A new msg_id differs from every msg_id issued before it.
LEMMA NextNonceUnique ==
  ASSUME SerialRegistration, SendInv, [Next]_vars
  PROVE  NonceUnique'
<1> USE EndsAssumption, TasksAssumption DEF Tasks, SendInv
<1>1. CASE msgId' = msgId
  BY <1>1 DEF NonceUnique
<1>2. CASE \E s \in Sends : IssueFrame(s)
  <2> PICK s \in Sends : IssueFrame(s) BY <1>2
  <2>1. /\ ref[s] = registered[At[s]] /\ registered[At[s]] # None
        /\ ref[s] \in Tasks
    BY DEF IssueFrame, Registry, Working, Locked, TypeOK
  <2>2. /\ msgId'[s] = obj[ref[s]].msg_id_send
        /\ \A r \in Sends : r # s => msgId'[r] = msgId[r]
    BY DEF IssueFrame, TypeOK
  <2>3. \A r \in Sends : /\ r # s
                         /\ At[r] = At[s]
                         /\ msgId'[r] # NoId
                         => Below(msgId'[r], msgId'[s])
    BY <2>1, <2>2 DEF SendSide, IssuedBelowCounter
  <2>4. \A r \in Sends : msgId'[r] # NoId => msgId'[r] \in Nat
    <3>1. TypeOK' BY NextTypeOK
    <3> QED BY <3>1, NumbersAssumption DEF TypeOK, Ids
  <2> QED BY <2>2, <2>3, <2>4 DEF NonceUnique, Below
<1>3. (\E s \in Sends : IssueFrame(s)) \/ msgId' = msgId
  BY DEF Next, vars, taskVars, handlerVars, RegistrationStep, LookupHit, LookupMiss,
         EstablishFails, LoadCounters, InsertChannel, ListChannel, SendStep, GetChannel, LockChannel,
         PersistReservation, PushFrame, PushFails, ReceiveFrame, ReceiveForged, TakeFrame,
         HandlerStep, RejectFrame, AcceptFrame, SaveRecv, DispatchFrame, Crash
<1> QED BY <1>1, <1>2, <1>3

\* The send side of the DCX channel is safe across crashes: provided the host
\* registers a peer once at a time, SendInv is invariant.
THEOREM SendInvariant ==
  ASSUME SerialRegistration
  PROVE  Spec => []SendInv
<1>1. Init => SendInv
  BY InitTypeOK, InitRegistry, InitSendSide DEF SendInv
<1>2. SendInv /\ [Next]_vars => SendInv'
  <2> SUFFICES ASSUME SendInv, [Next]_vars PROVE SendInv' OBVIOUS
  <2>1. TypeOK' /\ RefsOK' BY NextTypeOK, NextRefsOK DEF SendInv
  <2>2. Listing' /\ Registry' /\ Locking'
    BY NextListing, NextRegistry, NextLocking DEF SendInv
  <2>3. SendSide' /\ NonceUnique' BY NextSendSide, NextNonceUnique
  <2> QED BY <2>1, <2>2, <2>3 DEF SendInv
<1> QED BY <1>1, <1>2, PTL DEF Spec

\* No AEAD nonce is ever used twice under one key: the batch reservation of
\* send_to_peer is enough, however many sends, crashes and restarts there are.
THEOREM NonceNeverReused ==
  ASSUME SerialRegistration
  PROVE  Spec => []NonceUnique
<1>1. SendInv => NonceUnique BY DEF SendInv
<1> QED BY <1>1, SendInvariant, PTL

\* Every issued msg_id lies below the ceiling that a restart resumes from.
THEOREM CeilingIsDurable ==
  ASSUME SerialRegistration
  PROVE  Spec => []IssuedBelowDurableCeiling
<1>1. SendInv => IssuedBelowDurableCeiling
  BY DEF SendInv, SendSide, IssuedBelowCeiling, IssuedBelowDurableCeiling, Below
<1> QED BY <1>1, SendInvariant, PTL
-----------------------------------------------------------------------------
(* The receive side.  IsReplay(c, id) also reads a PersistedCounters c: the *)
(* mark of c covers id, so a Channel with that mark rejects id.             *)

Accepted == {"save", "dispatch"}

\* A frame being handled is one the peer pushed, under the id it was sealed with.
FramesTaken ==
  \A h \in Handlers : hpc[h] # "idle" /\ hmsg[h] # None =>
    /\ hmsg[h] \in wire
    /\ hid[h] = msgId[hmsg[h]]
    /\ Peer[At[hmsg[h]]] = At[h]

\* The registered Channel rejects what an inbound task has accepted, and the
\* store does before the frame is dispatched.
MarksAccepted ==
  \A h \in Handlers :
    /\ hpc[h] \in Accepted => IsReplay(obj[registered[At[h]]], hid[h])
    /\ hpc[h] = "dispatch" => IsReplay(store[At[h]], hid[h])

\* The mark in memory is never behind the one in the store.
MemoryAhead ==
  \A a \in Ends : registered[a] # None =>
    \A id \in Ids : IsReplay(store[a], id) => IsReplay(obj[registered[a]], id)

\* What was dispatched is covered by the durable mark, so it stays rejected
\* after a restart.
DispatchedIsDurable ==
  \A s \in Sends : dispatched[s] > 0 =>
    s \in wire /\ IsReplay(store[Peer[At[s]]], msgId[s])

\* One inbound task at most has accepted a frame and not yet dispatched it.
OneAcceptor ==
  /\ \A h \in Handlers : hpc[h] \in Accepted => dispatched[hmsg[h]] = 0
  /\ \A g, h \in Handlers :
       hpc[g] \in Accepted /\ hpc[h] \in Accepted /\ hmsg[g] = hmsg[h] => g = h

Authentic(a, c) ==
  c.received_any => \E s \in Sends : At[s] = Peer[a] /\ msgId[s] = c.msg_id_recv

MarksAuthentic ==
  \A a \in Ends : /\ Authentic(a, store[a])
                  /\ registered[a] # None => Authentic(a, obj[registered[a]])

RecvSide ==
  /\ FramesTaken
  /\ MarksAccepted
  /\ MemoryAhead
  /\ DispatchedIsDurable
  /\ OneAcceptor
  /\ MarksAuthentic

RecvInv == RecvSide /\ DispatchAtMostOnce
-----------------------------------------------------------------------------

\* What the operations on the counters do to the ids that are rejected.
LEMMA ReplayFacts ==
  /\ \A c \in Counters, id \in Ids : IsReplay(Resume(c), id) <=> IsReplay(c, id)
  /\ \A c \in Counters, id, x \in Ids :
       IsReplay(SaveRecvMark(c, x), id) <=> IsReplay(c, id) \/ id <= x
  /\ \A ch \in Channel, x \in Ids :
       ~IsReplay(ch, x) => \A id \in Ids : IsReplay(ch, id) => IsReplay(ObserveRecv(ch, x), id)
  /\ \A ch \in Channel, x \in Ids : IsReplay(ObserveRecv(ch, x), x)
BY NumbersAssumption
   DEF IsReplay, Resume, SaveRecvMark, ObserveRecv, Counters, Channel, Ids

LEMMA InitRecvSide == Init => RecvInv
BY EndsAssumption
   DEF Init, RecvInv, RecvSide, FramesTaken, MarksAccepted, MemoryAhead, DispatchedIsDurable,
       OneAcceptor, MarksAuthentic, Authentic, DispatchAtMostOnce, Accepted, NoCounters, IsReplay

\* A msg_id is given to a call once, so the ids of the frames on the wire and the
\* ids the marks come from never change.
LEMMA MsgIdsStay ==
  ASSUME SendInv, [Next]_vars
  PROVE  /\ wire \subseteq wire'
         /\ \A s \in Sends : msgId[s] # NoId => msgId'[s] = msgId[s]
<1> USE DEF SendInv
<1>1. CASE \E s \in Sends : IssueFrame(s)
  <2> PICK s \in Sends : IssueFrame(s) BY <1>1
  <2>1. msgId[s] = NoId BY DEF IssueFrame, SendSide, IssuedIsPast
  <2> QED BY <2>1 DEF IssueFrame, TypeOK
<1>2. \/ msgId' = msgId /\ wire \subseteq wire'
      \/ \E s \in Sends : IssueFrame(s)
  BY DEF Next, vars, taskVars, handlerVars, RegistrationStep, LookupHit, LookupMiss,
         EstablishFails, LoadCounters, InsertChannel, ListChannel, SendStep, GetChannel, LockChannel,
         PersistReservation, PushFrame, PushFails, ReceiveFrame, ReceiveForged, TakeFrame,
         HandlerStep, RejectFrame, AcceptFrame, SaveRecv, DispatchFrame, Crash
<1> QED BY <1>1, <1>2

\* A step that leaves the inbound tasks, the registration and the marks alone
\* keeps the receive side as it is.
LEMMA QuietKeepsRecvSide ==
  ASSUME SendInv, RecvInv, [Next]_vars, TypeOK',
         UNCHANGED handlerVars, registered' = registered,
         \A a \in Ends : /\ store'[a].received_any = store[a].received_any
                         /\ store'[a].msg_id_recv = store[a].msg_id_recv,
         \A a \in Ends : registered[a] # None =>
           /\ obj'[registered[a]].received_any = obj[registered[a]].received_any
           /\ obj'[registered[a]].msg_id_recv = obj[registered[a]].msg_id_recv
  PROVE  RecvInv'
<1> USE EndsAssumption, TasksAssumption DEF Tasks, RecvInv, RecvSide, handlerVars
<1>1. FramesTaken'
  <2>1. \A s \in wire : msgId'[s] = msgId[s] /\ s \in wire'
    BY MsgIdsStay DEF SendInv, RefsOK, TypeOK
  <2> QED BY <2>1 DEF FramesTaken
<1>2. MarksAccepted'
  <2>1. \A h \in Handlers : hpc[h] \in Accepted => registered[At[h]] # None /\ At[h] \in Ends
    BY DEF SendInv, Registry, TypeOK, Accepted
  <2> QED BY <2>1 DEF MarksAccepted, IsReplay, Accepted
<1>3. MemoryAhead' BY DEF MemoryAhead, IsReplay
<1>4. DispatchedIsDurable'
  <2>1. \A s \in wire : msgId'[s] = msgId[s] /\ s \in wire'
    BY MsgIdsStay DEF SendInv, RefsOK, TypeOK
  <2>2. \A s \in Sends : Peer[At[s]] \in Ends OBVIOUS
  <2> QED BY <2>1, <2>2 DEF DispatchedIsDurable, IsReplay
<1>5. OneAcceptor' /\ DispatchAtMostOnce' BY DEF OneAcceptor, DispatchAtMostOnce
<1>6. MarksAuthentic'
  <2> SUFFICES ASSUME NEW a \in Ends
               PROVE  /\ Authentic(a, store[a])'
                      /\ registered'[a] # None => Authentic(a, obj[registered[a]])'
    BY DEF MarksAuthentic
  <2>1. store[a].msg_id_recv \in Ids
    BY DEF SendInv, TypeOK, Counters
  <2>2. ASSUME registered[a] # None PROVE obj[registered[a]].msg_id_recv \in Ids
    BY <2>2 DEF SendInv, TypeOK, Channel
  <2>3. \A id \in Ids, s \in Sends : msgId[s] = id => msgId'[s] = id
    BY MsgIdsStay, NumbersAssumption DEF Ids, NoId
  <2> QED BY <2>1, <2>2, <2>3 DEF MarksAuthentic, Authentic
<1> QED BY <1>1, <1>2, <1>3, <1>4, <1>5, <1>6

\* The Channel that ChannelManager::insert publishes carries the marks of the
\* store, so a restarted receiver rejects what it dispatched before.
LEMMA InsertKeepsRecvSide ==
  ASSUME SendInv, RecvInv, [Next]_vars, NEW t \in Tasks, InsertChannel(t)
  PROVE  RecvInv'
<1> USE EndsAssumption, TasksAssumption DEF Tasks, RecvInv, RecvSide, handlerVars
<1>1. /\ obj' = obj /\ store' = store /\ msgId' = msgId /\ wire' = wire
      /\ UNCHANGED handlerVars
      /\ registered'[At[t]] = t /\ At[t] \in Ends
      /\ \A a \in Ends : a # At[t] => registered'[a] = registered[a]
      /\ obj[t] = Resume(store[At[t]]) /\ store[At[t]] \in Counters
      /\ registered[At[t]] = None
  BY DEF InsertChannel, SendInv, TypeOK, SendSide, LoadedIsCurrent, Registry
<1>2. \A h \in Handlers : hpc[h] # "idle" => registered'[At[h]] = registered[At[h]] /\ At[h] \in Ends
  BY <1>1 DEF SendInv, Registry
<1>3. FramesTaken' /\ DispatchedIsDurable' /\ OneAcceptor' /\ DispatchAtMostOnce'
  BY <1>1 DEF FramesTaken, DispatchedIsDurable, OneAcceptor, DispatchAtMostOnce
<1>4. MarksAccepted'
  BY <1>1, <1>2 DEF MarksAccepted, Accepted
<1>5. MemoryAhead'
  <2>1. \A id \in Ids : IsReplay(store[At[t]], id) => IsReplay(obj[t], id)
    BY <1>1, ReplayFacts
  <2> QED BY <1>1, <2>1 DEF MemoryAhead
<1>6. MarksAuthentic'
  <2>1. Authentic(At[t], obj[t])
    BY <1>1 DEF MarksAuthentic, Authentic, Resume
  <2> QED BY <1>1, <2>1 DEF MarksAuthentic, Authentic
<1> QED BY <1>3, <1>4, <1>5, <1>6

\* Only a frame whose id lies above the mark of the Channel is accepted: one that
\* was dispatched, or that another inbound task has accepted, is not.
LEMMA AcceptKeepsRecvSide ==
  ASSUME SendInv, RecvInv, [Next]_vars, NEW h \in Handlers, AcceptFrame(h)
  PROVE  RecvInv'
<1> USE EndsAssumption, TasksAssumption DEF Tasks, RecvInv, RecvSide
<1> DEFINE a == At[h]
           t == registered[a]
           s == hmsg[h]
<1>1. /\ hpc[h] = "observe" /\ href[h] = t /\ t \in Tasks /\ At[t] = a /\ a \in Ends
      /\ obj[t] \in Channel /\ hid[h] \in Ids
      /\ s \in wire /\ s \in Sends /\ hid[h] = msgId[s] /\ Peer[At[s]] = a
      /\ ~IsReplay(obj[t], hid[h])
  BY DEF AcceptFrame, SendInv, TypeOK, RefsOK, Registry, FramesTaken, VerifyFails
<1>2. /\ store' = store /\ msgId' = msgId /\ wire' = wire /\ registered' = registered
      /\ hid' = hid /\ hmsg' = hmsg /\ dispatched' = dispatched
      /\ \A g \in Handlers : g # h => hpc'[g] = hpc[g]
      /\ hpc'[h] = "save"
      /\ \A u \in Tasks : u # t => obj'[u] = obj[u]
      /\ obj'[t] = ObserveRecv(obj[t], hid[h])
  BY <1>1 DEF AcceptFrame, SendInv, TypeOK
<1>3. /\ IsReplay(obj'[t], hid[h])
      /\ \A id \in Ids : IsReplay(obj[t], id) => IsReplay(obj'[t], id)
  BY <1>1, <1>2, ReplayFacts
<1>4. \A b \in Ends : registered[b] # None /\ b # a => registered[b] # t /\ registered[b] \in Tasks
  BY <1>1 DEF SendInv, Registry, TypeOK
<1>5. \A g \in Handlers : hpc[g] # "idle" => registered[At[g]] # None /\ At[g] \in Ends /\ hid[g] \in Ids
  BY DEF SendInv, Registry, TypeOK
<1>6. FramesTaken' /\ DispatchedIsDurable' /\ DispatchAtMostOnce'
  BY <1>1, <1>2 DEF FramesTaken, DispatchedIsDurable, DispatchAtMostOnce
<1>7. MarksAccepted'
  <2> SUFFICES ASSUME NEW g \in Handlers
               PROVE  /\ hpc'[g] \in Accepted => IsReplay(obj'[registered[At[g]]], hid[g])
                      /\ hpc'[g] = "dispatch" => IsReplay(store[At[g]], hid[g])
    BY <1>2 DEF MarksAccepted
  <2>1. CASE g = h BY <2>1, <1>1, <1>2, <1>3
  <2>2. CASE g # h /\ At[g] = a
    BY <2>2, <1>2, <1>3, <1>5 DEF MarksAccepted, Accepted
  <2>3. CASE g # h /\ At[g] # a
    BY <2>3, <1>2, <1>4, <1>5 DEF MarksAccepted, Accepted
  <2> QED BY <2>1, <2>2, <2>3
<1>8. MemoryAhead'
  <2> SUFFICES ASSUME NEW b \in Ends, registered[b] # None, NEW id \in Ids, IsReplay(store[b], id)
               PROVE  IsReplay(obj'[registered[b]], id)
    BY <1>2 DEF MemoryAhead
  <2>1. IsReplay(obj[registered[b]], id) BY DEF MemoryAhead
  <2> QED BY <2>1, <1>2, <1>3, <1>4
<1>9. OneAcceptor'
  <2>1. dispatched[s] = 0
    <3> SUFFICES ASSUME dispatched[s] # 0 PROVE FALSE OBVIOUS
    <3>1. dispatched[s] > 0 BY <1>1 DEF SendInv, TypeOK
    <3>2. IsReplay(store[a], hid[h]) BY <1>1, <3>1 DEF DispatchedIsDurable
    <3>3. t # None BY <1>1
    <3> QED BY <1>1, <3>2, <3>3 DEF MemoryAhead
  <2>2. \A g \in Handlers : hpc[g] \in Accepted => hmsg[g] # s
    <3> SUFFICES ASSUME NEW g \in Handlers, hpc[g] \in Accepted, hmsg[g] = s PROVE FALSE OBVIOUS
    <3>1. At[g] = a /\ hid[g] = hid[h]
      BY <1>1 DEF FramesTaken, Accepted
    <3> QED BY <1>1, <3>1 DEF MarksAccepted
  <2>3. \A g \in Handlers : hpc'[g] \in Accepted => g = h \/ hpc[g] \in Accepted
    BY <1>2
  <2> QED BY <1>2, <2>1, <2>2, <2>3 DEF OneAcceptor
<1>10. MarksAuthentic'
  <2>1. At[s] = Peer[a]
    BY <1>1
  <2>2. obj'[t].msg_id_recv = msgId[s]
    BY <1>1, <1>2 DEF ObserveRecv
  <2>3. Authentic(a, obj'[t])
    BY <1>1, <2>1, <2>2 DEF Authentic
  <2> QED BY <1>1, <1>2, <1>4, <2>3 DEF MarksAuthentic, Authentic
<1> QED BY <1>6, <1>7, <1>8, <1>9, <1>10

\* save_recv moves the durable mark up to the accepted id and never down.
LEMMA SaveKeepsRecvSide ==
  ASSUME SendInv, RecvInv, [Next]_vars, NEW h \in Handlers, SaveRecv(h)
  PROVE  RecvInv'
<1> USE EndsAssumption, TasksAssumption DEF Tasks, RecvInv, RecvSide
<1> DEFINE a == At[h]
<1>1. /\ hpc[h] = "save" /\ a \in Ends /\ registered[a] \in Tasks /\ registered[a] # None
      /\ store[a] \in Counters /\ obj[registered[a]] \in Channel /\ hid[h] \in Ids
      /\ hmsg[h] \in wire /\ hmsg[h] \in Sends
      /\ hid[h] = msgId[hmsg[h]] /\ Peer[At[hmsg[h]]] = a
      /\ IsReplay(obj[registered[a]], hid[h])
  <2>1. hpc[h] = "save" /\ a \in Ends /\ registered[a] \in Tasks /\ registered[a] # None
    <3>1. hpc[h] = "save" /\ a \in Ends BY DEF SaveRecv
    <3>2. registered[a] # None BY <3>1 DEF SendInv, Registry
    <3> QED BY <3>1, <3>2 DEF SendInv, TypeOK
  <2>2. hmsg[h] # None
    BY <2>1 DEF SendInv, RefsOK
  <2>3. /\ store[a] \in Counters /\ obj[registered[a]] \in Channel /\ hid[h] \in Ids
        /\ hmsg[h] \in Sends
    BY <2>1, <2>2 DEF SendInv, TypeOK
  <2>4. hmsg[h] \in wire /\ hid[h] = msgId[hmsg[h]] /\ Peer[At[hmsg[h]]] = a
    BY <2>1, <2>2 DEF FramesTaken
  <2>5. IsReplay(obj[registered[a]], hid[h])
    BY <2>1 DEF MarksAccepted, Accepted
  <2> QED BY <2>1, <2>3, <2>4, <2>5
<1>2. /\ UNCHANGED <<obj, msgId, wire, registered, hid, hmsg, dispatched>>
      /\ \A g \in Handlers : g # h => hpc'[g] = hpc[g]
      /\ hpc'[h] = "dispatch"
      /\ \A b \in Ends : b # a => store'[b] = store[b]
      /\ store'[a] = SaveRecvMark(store[a], hid[h])
  BY <1>1 DEF SaveRecv, SendInv, TypeOK, taskVars
<1>3. \A id \in Ids : IsReplay(store'[a], id) <=> IsReplay(store[a], id) \/ id <= hid[h]
  BY <1>1, <1>2, ReplayFacts
<1>4. IsReplay(store'[a], hid[h])
  BY <1>1, <1>3, NumbersAssumption DEF Ids
<1>5. FramesTaken' /\ OneAcceptor' /\ DispatchAtMostOnce'
  BY <1>1, <1>2 DEF FramesTaken, OneAcceptor, DispatchAtMostOnce, Accepted
<1>6. MarksAccepted'
  <2>1. \A g \in Handlers : hid[g] \in Ids /\ At[g] \in Ends
    BY DEF SendInv, TypeOK
  <2> QED BY <1>1, <1>2, <1>3, <1>4, <2>1 DEF MarksAccepted, Accepted
<1>7. MemoryAhead'
  <2>1. \A id \in Ids : id <= hid[h] => IsReplay(obj[registered[a]], id)
    BY <1>1, NumbersAssumption DEF IsReplay, Ids, Channel
  <2> QED BY <1>1, <1>2, <1>3, <2>1 DEF MemoryAhead
<1>8. DispatchedIsDurable'
  <2>1. \A s \in wire : msgId[s] \in Ids /\ Peer[At[s]] \in Ends
    BY DEF SendInv, TypeOK, RefsOK
  <2> QED BY <1>1, <1>2, <1>3, <2>1 DEF DispatchedIsDurable
<1>9. MarksAuthentic'
  <2>1. At[hmsg[h]] = Peer[a] BY <1>1
  <2>2. Authentic(a, store'[a])
    <3>1. \/ store'[a].msg_id_recv = msgId[hmsg[h]]
          \/ store[a].received_any /\ store'[a].msg_id_recv = store[a].msg_id_recv
      <4>1. store'[a] = SaveRecvMark(store[a], msgId[hmsg[h]]) BY <1>1, <1>2
      <4> QED BY <4>1 DEF SaveRecvMark
    <3> QED BY <1>1, <2>1, <3>1 DEF Authentic, MarksAuthentic
  <2> QED BY <1>1, <1>2, <2>2 DEF MarksAuthentic, Authentic
<1> QED BY <1>5, <1>6, <1>7, <1>8, <1>9

\* The remaining steps of try_handle: taking a frame, rejecting it, and the
\* dispatch that follows the durable mark.
LEMMA HandleKeepsRecvSide ==
  ASSUME SendInv, RecvInv, [Next]_vars, NEW h \in Handlers,
         ReceiveFrame(h) \/ ReceiveForged(h) \/ RejectFrame(h) \/ DispatchFrame(h)
  PROVE  RecvInv'
<1> USE EndsAssumption, TasksAssumption DEF Tasks, RecvInv, RecvSide
<1>1. UNCHANGED <<obj, msgId, wire, registered, store>>
  BY DEF ReceiveFrame, ReceiveForged, TakeFrame, RejectFrame, DispatchFrame, taskVars
<1>2. /\ \A g \in Handlers : g # h => /\ hpc'[g] = hpc[g] /\ hid'[g] = hid[g]
                                      /\ hmsg'[g] = hmsg[g]
      /\ hpc'[h] \in {"idle", "observe"}
  BY DEF ReceiveFrame, ReceiveForged, TakeFrame, RejectFrame, DispatchFrame, ReturnFrom,
         SendInv, TypeOK
<1>3. MemoryAhead' /\ MarksAuthentic'
  BY <1>1 DEF MemoryAhead, MarksAuthentic, Authentic
<1>4. MarksAccepted'
  BY <1>1, <1>2 DEF MarksAccepted, Accepted
<1>5. FramesTaken'
  <2>1. \/ hpc'[h] = "idle"
        \/ hmsg'[h] = None
        \/ hmsg'[h] \in wire /\ hid'[h] = msgId[hmsg'[h]] /\ Peer[At[hmsg'[h]]] = At[h]
    <3>1. CASE ReceiveFrame(h)
      BY <3>1 DEF ReceiveFrame, TakeFrame, SendInv, TypeOK
    <3>2. CASE ReceiveForged(h)
      <4>1. hmsg'[h] = None BY <3>2 DEF ReceiveForged, TakeFrame, SendInv, TypeOK
      <4> QED BY <4>1
    <3>3. CASE RejectFrame(h) \/ DispatchFrame(h)
      <4>1. hpc'[h] = "idle"
        BY <3>3 DEF RejectFrame, DispatchFrame, ReturnFrom, SendInv, TypeOK
      <4> QED BY <4>1
    <3> QED BY <3>1, <3>2, <3>3
  <2> QED BY <1>1, <1>2, <2>1 DEF FramesTaken
<1>6. CASE ~DispatchFrame(h)
  <2>1. dispatched' = dispatched
    BY <1>6 DEF ReceiveFrame, ReceiveForged, TakeFrame, RejectFrame
  <2>2. DispatchedIsDurable' /\ DispatchAtMostOnce'
    BY <1>1, <2>1 DEF DispatchedIsDurable, DispatchAtMostOnce
  <2>3. OneAcceptor'
    BY <1>2, <2>1 DEF OneAcceptor, Accepted
  <2> QED BY <1>3, <1>4, <1>5, <2>2, <2>3
<1>7. CASE DispatchFrame(h)
  <2> DEFINE s == hmsg[h]
  <2>1. /\ hpc[h] = "dispatch" /\ s \in wire /\ s \in Sends /\ hid[h] = msgId[s]
        /\ Peer[At[s]] = At[h] /\ dispatched[s] = 0
        /\ IsReplay(store[Peer[At[s]]], msgId[s])
    BY <1>7 DEF DispatchFrame, SendInv, TypeOK, RefsOK, FramesTaken, MarksAccepted, OneAcceptor,
                Accepted
  <2>2. dispatched'[s] = 1 /\ \A r \in Sends : r # s => dispatched'[r] = dispatched[r]
    BY <1>7, <2>1 DEF DispatchFrame, SendInv, TypeOK
  <2>3. DispatchedIsDurable' /\ DispatchAtMostOnce'
    BY <1>1, <2>1, <2>2 DEF DispatchedIsDurable, DispatchAtMostOnce
  <2>4. hpc'[h] = "idle" BY <1>7 DEF DispatchFrame, ReturnFrom, SendInv, TypeOK
  <2>5. \A g \in Handlers : hpc'[g] \in Accepted =>
          g # h /\ hpc[g] \in Accepted /\ hmsg'[g] = hmsg[g] /\ hmsg[g] # s /\ hmsg[g] \in Sends
    BY <1>2, <2>1, <2>4 DEF OneAcceptor, Accepted, SendInv, TypeOK, RefsOK
  <2>6. OneAcceptor'
    BY <2>2, <2>5 DEF OneAcceptor
  <2> QED BY <1>3, <1>4, <1>5, <2>3, <2>6
<1> QED BY <1>6, <1>7

\* A crash loses the marks in memory and the running inbound tasks only.
LEMMA CrashKeepsRecvSide ==
  ASSUME SendInv, RecvInv, [Next]_vars, NEW a \in Ends, Crash(a)
  PROVE  RecvInv'
<1> USE EndsAssumption, TasksAssumption DEF Tasks, RecvInv, RecvSide
<1>1. /\ UNCHANGED <<msgId, wire, store, dispatched>>
      /\ \A h \in Handlers : At[h] = a => hpc'[h] = "idle"
      /\ \A h \in Handlers : At[h] # a =>
           hpc'[h] = hpc[h] /\ hid'[h] = hid[h] /\ hmsg'[h] = hmsg[h]
      /\ registered'[a] = None
      /\ \A b \in Ends : b # a => registered'[b] = registered[b]
  BY DEF Crash, SendInv, TypeOK
<1>2. \A b \in Ends : registered'[b] # None =>
        b # a /\ registered'[b] = registered[b] /\ obj'[registered[b]] = obj[registered[b]]
  BY <1>1 DEF Crash, SendInv, TypeOK, Registry
<1>3. FramesTaken' /\ DispatchedIsDurable' /\ DispatchAtMostOnce'
  BY <1>1 DEF FramesTaken, DispatchedIsDurable, DispatchAtMostOnce
<1>4. OneAcceptor' BY <1>1 DEF OneAcceptor, Accepted
<1>5. MarksAccepted'
  <2>1. \A h \in Handlers : hpc'[h] # "idle" => At[h] # a /\ At[h] \in Ends /\ registered[At[h]] # None
    BY <1>1 DEF SendInv, Registry
  <2> QED BY <1>1, <1>2, <2>1 DEF MarksAccepted, Accepted
<1>6. MemoryAhead' BY <1>1, <1>2 DEF MemoryAhead
<1>7. MarksAuthentic' BY <1>1, <1>2 DEF MarksAuthentic, Authentic
<1> QED BY <1>3, <1>4, <1>5, <1>6, <1>7

LEMMA NextRecvSide ==
  ASSUME SerialRegistration, SendInv, RecvInv, [Next]_vars
  PROVE  RecvInv'
<1> USE EndsAssumption, TasksAssumption DEF Tasks
<1>0. TypeOK' BY NextTypeOK DEF SendInv
<1>1. CASE UNCHANGED vars
  BY <1>0, <1>1, QuietKeepsRecvSide DEF vars, taskVars, handlerVars
<1>2. CASE \E t \in Tasks : RegistrationStep(t)
  <2> PICK t \in Tasks : RegistrationStep(t) BY <1>2
  <2>1. CASE InsertChannel(t) BY <2>1, InsertKeepsRecvSide
  <2>2. CASE LoadCounters(t)
    <3>1. \A b \in Ends : registered[b] # None => registered[b] \in Tasks /\ registered[b] # t
      BY <2>2 DEF LoadCounters, SendInv, Registry, TypeOK
    <3> QED BY <2>2, <3>1, <1>0, QuietKeepsRecvSide DEF LoadCounters, SendInv, TypeOK
  <2>3. CASE LookupHit(t) \/ LookupMiss(t) \/ EstablishFails(t) \/ ListChannel(t)
    BY <2>3, <1>0, QuietKeepsRecvSide DEF LookupHit, LookupMiss, EstablishFails, ListChannel
  <2> QED BY <2>1, <2>2, <2>3 DEF RegistrationStep
<1>3. CASE \E s \in Sends : SendStep(s)
  <2> PICK s \in Sends : SendStep(s) BY <1>3
  <2>1. CASE GetChannel(s) \/ PushFrame(s) \/ PushFails(s)
    BY <2>1, <1>0, QuietKeepsRecvSide DEF GetChannel, PushFrame, PushFails
  <2>2. CASE LockChannel(s)
    <3>1. ref[s] \in Tasks /\ obj[ref[s]] \in Channel
      BY <2>2 DEF LockChannel, SendInv, TypeOK, RefsOK
    <3>2. \A u \in Tasks : /\ obj'[u].received_any = obj[u].received_any
                           /\ obj'[u].msg_id_recv = obj[u].msg_id_recv
      BY <2>2, <3>1, ReserveFacts DEF LockChannel, SendInv, TypeOK
    <3>3. \A b \in Ends : registered[b] # None => registered[b] \in Tasks
      BY DEF SendInv, TypeOK
    <3> QED BY <2>2, <3>2, <3>3, <1>0, QuietKeepsRecvSide DEF LockChannel
  <2>3. CASE PersistReservation(s)
    <3>1. store[At[s]] \in Counters /\ obj[ref[s]].send_reserved \in Ids
      BY <2>3 DEF PersistReservation, SendInv, TypeOK, RefsOK, Channel
    <3>2. \A b \in Ends : /\ store'[b].received_any = store[b].received_any
                          /\ store'[b].msg_id_recv = store[b].msg_id_recv
      <4>1. LET c == SaveSendReserved(store[At[s]], obj[ref[s]].send_reserved)
            IN  /\ c.received_any = store[At[s]].received_any
                /\ c.msg_id_recv = store[At[s]].msg_id_recv
        BY <3>1, SaveFacts
      <4> QED BY <2>3, <4>1 DEF PersistReservation, SendInv, TypeOK
    <3> QED BY <2>3, <3>2, <1>0, QuietKeepsRecvSide DEF PersistReservation
  <2>4. CASE IssueFrame(s)
    <3>1. ref[s] \in Tasks /\ obj[ref[s]] \in Channel
      BY <2>4 DEF IssueFrame, SendInv, TypeOK, RefsOK
    <3>2. \A u \in Tasks : /\ obj'[u].received_any = obj[u].received_any
                           /\ obj'[u].msg_id_recv = obj[u].msg_id_recv
      BY <2>4, <3>1, NextIdFacts DEF IssueFrame, SendInv, TypeOK
    <3>3. \A b \in Ends : registered[b] # None => registered[b] \in Tasks
      BY DEF SendInv, TypeOK
    <3> QED BY <2>4, <3>2, <3>3, <1>0, QuietKeepsRecvSide DEF IssueFrame
  <2> QED BY <2>1, <2>2, <2>3, <2>4 DEF SendStep
<1>4. CASE \E h \in Handlers : ReceiveFrame(h) \/ ReceiveForged(h) \/ HandlerStep(h)
  BY <1>4, AcceptKeepsRecvSide, SaveKeepsRecvSide, HandleKeepsRecvSide DEF HandlerStep
<1>5. CASE \E a \in Ends : Crash(a)
  BY <1>5, CrashKeepsRecvSide
<1> QED BY <1>1, <1>2, <1>3, <1>4, <1>5 DEF Next

\* Both sides of the channel are safe across crashes: provided the host registers
\* a peer once at a time, SendInv and RecvInv are invariant.
THEOREM ChannelInvariant ==
  ASSUME SerialRegistration
  PROVE  Spec => [](SendInv /\ RecvInv)
<1>1. Init => SendInv /\ RecvInv
  BY InitTypeOK, InitRegistry, InitSendSide, InitRecvSide DEF SendInv
<1>2. SendInv /\ RecvInv /\ [Next]_vars => RecvInv'
  BY NextRecvSide
<1> QED BY <1>1, <1>2, SendInvariant, PTL DEF Spec

\* try_handle dispatches no frame twice, however often the mediator delivers it,
\* however the inbound tasks interleave and however often the receiver restarts
\* between accepting, saving the mark and dispatching.
THEOREM NoFrameDispatchedTwice ==
  ASSUME SerialRegistration
  PROVE  Spec => []DispatchAtMostOnce
<1>1. SendInv /\ RecvInv => DispatchAtMostOnce BY DEF RecvInv
<1> QED BY <1>1, ChannelInvariant, PTL

\* The replay mark of a registered Channel is an id the peer issued: no frame that
\* fails AEAD moves it, and a restart brings an issued id back.
THEOREM ReplayMarkIsAuthentic ==
  ASSUME SerialRegistration
  PROVE  Spec => []ReplayMarkAuthentic
<1>1. SendInv /\ RecvInv => ReplayMarkAuthentic
  BY DEF RecvInv, RecvSide, MarksAuthentic, Authentic, ReplayMarkAuthentic
<1> QED BY <1>1, ChannelInvariant, PTL
=============================================================================
