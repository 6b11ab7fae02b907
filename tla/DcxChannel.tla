----------------------------- MODULE DcxChannel -----------------------------
(***************************************************************************)
(* One DCX connection: the two agents at its ends, their Channel objects   *)
(* (didcomm/src/dcx/channel/state.rs), the durable counter store, and the  *)
(* tasks that work on them: send_to_peer (transports/outbound.rs),         *)
(* ensure_channel (agent_integration.rs) and try_handle                    *)
(* (transports/inbound.rs).  Every await of those functions is a point at  *)
(* which another task may run or the process may crash, so each stretch of *)
(* code between two awaits is one action.                                  *)
(*                                                                         *)
(* The classical-x25519 provider derives the same keys after every restart *)
(* (providers/classical.rs), so the AEAD nonce, which is the msg_id, must  *)
(* never repeat over the life of the connection, crashes included.         *)
(***************************************************************************)
EXTENDS Integers, FiniteSets

CONSTANTS
  Ends,                 \* the two agents of the connection
  Peer,                 \* Peer[a] is the agent at the other end
  Sends,                \* the calls of send_to_peer
  Ensures,              \* the calls of ensure_channel
  Handlers,             \* the tasks that run try_handle
  At,                   \* At[t] is the agent at which task t runs
  ForgedIds,            \* msg_ids a frame that fails AEAD may carry
  Batch,                \* SEND_RESERVATION_BATCH
  MaxU64,               \* u64::MAX, where saturating_add sticks
  MaxCrashes,           \* bound: how often the agents crash, together
  SerialRegistration,   \* the host never registers a peer twice concurrently
  None                  \* "no channel", "no task", "no authentic frame"

Tasks == Sends \cup Ensures

ASSUME EndsAssumption ==
  /\ Peer \in [Ends -> Ends]
  /\ \A a \in Ends : Peer[Peer[a]] = a
  /\ At \in [Tasks \cup Handlers -> Ends]

ASSUME TasksAssumption ==
  /\ Sends \cap Ensures = {}
  /\ None \notin Tasks

ASSUME NumbersAssumption ==
  /\ MaxU64 \in Nat \ {0}
  /\ Batch \in Nat
  /\ MaxCrashes \in Nat
  /\ ForgedIds \subseteq 0 .. MaxU64
  /\ SerialRegistration \in BOOLEAN

VARIABLES
  pc,          \* where each send_to_peer or ensure_channel call is
  obj,         \* the Channel built by each task (Arc<Mutex<Channel>>)
  registered,  \* by_channel_id: the task whose Channel the channel id maps to
  listed,      \* the ends whose by_peer_did maps the peer to the channel id
  ref,         \* the Arc a send call works on
  held,        \* the send call that holds a Channel's mutex across an await
  msgId,       \* the msg_id a send call sealed its frame with, or NoId
  wire,        \* the send calls whose frame reached the WebSocket loop
  hpc,         \* where each inbound task is
  hid,         \* the msg_id of the header an inbound task is handling
  hmsg,        \* the call whose frame it is; None if it fails AEAD
  href,        \* the Arc the inbound task works on
  store,       \* the durable PersistedCounters of each end
  dispatched,  \* how often the frame of each send call was dispatched
  crashes

taskVars == <<pc, obj, registered, listed, ref, held, msgId, wire>>
handlerVars == <<hpc, hid, hmsg, href, dispatched>>
vars == <<taskVars, handlerVars, store, crashes>>

NoId == -1
Ids == 0 .. MaxU64

SatAdd(m, n) == IF m + n > MaxU64 THEN MaxU64 ELSE m + n

Counters == [send_reserved : Ids, msg_id_recv : Ids, received_any : BOOLEAN]

\* PersistedCounters::default, also what an empty store stands for: a
\* Channel resumed from it equals one built by from_session_keys.
NoCounters == [send_reserved |-> 0, msg_id_recv |-> 0, received_any |-> FALSE]

Channel == [msg_id_send : Ids, send_reserved : Ids,
            msg_id_recv : Ids, received_any : BOOLEAN]

\* Mutant of Resume: the send counter restarts at 0.
ResumeFromZero(persisted) ==
  [msg_id_send   |-> 0,
   send_reserved |-> persisted.send_reserved,
   msg_id_recv   |-> persisted.msg_id_recv,
   received_any  |-> persisted.received_any]

Resume(persisted) ==
  [msg_id_send   |-> persisted.send_reserved,
   send_reserved |-> persisted.send_reserved,
   msg_id_recv   |-> persisted.msg_id_recv,
   received_any  |-> persisted.received_any]

from_session_keys == Resume(NoCounters)

NeedsSendReservation(ch) == ch.msg_id_send >= ch.send_reserved

ReserveSend(ch) ==
  [ch EXCEPT !.send_reserved =
     SatAdd(ch.msg_id_send, IF Batch > 1 THEN Batch ELSE 1)]

\* Mutant of NextSendMsgId: a plain addition.
NextSendMsgIdUnbounded(ch) == [ch EXCEPT !.msg_id_send = @ + 1]

NextSendMsgId(ch) == [ch EXCEPT !.msg_id_send = SatAdd(ch.msg_id_send, 1)]

\* Mutant of IsReplay: accepts the last frame once more.
IsReplayOffByOne(ch, id) == ch.received_any /\ id < ch.msg_id_recv

IsReplay(ch, id) == ch.received_any /\ id <= ch.msg_id_recv

ObserveRecv(ch, id) ==
  [msg_id_send   |-> ch.msg_id_send,
   send_reserved |-> ch.send_reserved,
   msg_id_recv   |-> id,
   received_any  |-> TRUE]

\* save_recv keeps the high-water mark.
SaveRecvMark(persisted, id) ==
  [send_reserved |-> persisted.send_reserved,
   msg_id_recv   |-> IF persisted.received_any /\ persisted.msg_id_recv > id
                       THEN persisted.msg_id_recv ELSE id,
   received_any  |-> TRUE]

SaveSendReserved(persisted, ceiling) ==
  [persisted EXCEPT !.send_reserved = ceiling]

Init ==
  /\ pc = [t \in Tasks |-> "idle"]
  /\ obj = [t \in Tasks |-> from_session_keys]
  /\ registered = [a \in Ends |-> None]
  /\ listed = {}
  /\ ref = [s \in Sends |-> None]
  /\ held = [t \in Tasks |-> None]
  /\ msgId = [s \in Sends |-> NoId]
  /\ wire = {}
  /\ hpc = [h \in Handlers |-> "idle"]
  /\ hid = [h \in Handlers |-> 0]
  /\ hmsg = [h \in Handlers |-> None]
  /\ href = [h \in Handlers |-> None]
  /\ store = [a \in Ends |-> NoCounters]
  /\ dispatched = [s \in Sends |-> 0]
  /\ crashes = 0

-----------------------------------------------------------------------------
(* Registration: the first half of send_to_peer, and ensure_channel.       *)

Registering(a) ==
  {t \in Tasks : At[t] = a /\ pc[t] \in {"load", "insert", "list"}}

LookupHit(t) ==
  /\ pc[t] = "idle"
  /\ At[t] \in listed
  /\ IF t \in Sends
       THEN /\ ref' = [ref EXCEPT ![t] = registered[At[t]]]
            /\ pc' = [pc EXCEPT ![t] = "lock"]
       ELSE /\ pc' = [pc EXCEPT ![t] = "done"]
            /\ UNCHANGED ref
  /\ UNCHANGED <<obj, registered, listed, held, msgId, wire,
                 handlerVars, store, crashes>>

\* establish() returns the same deterministic keys to every caller.
LookupMiss(t) ==
  /\ pc[t] = "idle"
  /\ At[t] \notin listed
  /\ SerialRegistration => Registering(At[t]) = {}
  /\ pc' = [pc EXCEPT ![t] = "load"]
  /\ UNCHANGED <<obj, registered, listed, ref, held, msgId, wire,
                 handlerVars, store, crashes>>

\* establish() fails: no key material was registered for the peer.
EstablishFails(t) ==
  /\ pc[t] = "idle"
  /\ At[t] \notin listed
  /\ pc' = [pc EXCEPT ![t] = "failed"]
  /\ UNCHANGED <<obj, registered, listed, ref, held, msgId, wire,
                 handlerVars, store, crashes>>

LoadCounters(t) ==
  /\ pc[t] = "load"
  /\ obj' = [obj EXCEPT ![t] = Resume(store[At[t]])]
  /\ pc' = [pc EXCEPT ![t] = "insert"]
  /\ UNCHANGED <<registered, listed, ref, held, msgId, wire,
                 handlerVars, store, crashes>>

\* ChannelManager::insert replaces whatever the channel id mapped to.  Inbound
\* frames are looked up by channel id and find the Channel from here on.
InsertChannel(t) ==
  /\ pc[t] = "insert"
  /\ registered' = [registered EXCEPT ![At[t]] = t]
  /\ pc' = [pc EXCEPT ![t] = "list"]
  /\ UNCHANGED <<obj, listed, ref, held, msgId, wire,
                 handlerVars, store, crashes>>

\* The second map of insert, behind another lock: calls of send_to_peer and
\* ensure_channel find the peer from here on.
ListChannel(t) ==
  /\ pc[t] = "list"
  /\ listed' = listed \cup {At[t]}
  /\ pc' = [pc EXCEPT ![t] = IF t \in Sends THEN "get" ELSE "done"]
  /\ UNCHANGED <<obj, registered, ref, held, msgId, wire,
                 handlerVars, store, crashes>>

GetChannel(s) ==
  /\ pc[s] = "get"
  /\ ref' = [ref EXCEPT ![s] = registered[At[s]]]
  /\ pc' = [pc EXCEPT ![s] = "lock"]
  /\ UNCHANGED <<obj, registered, listed, held, msgId, wire,
                 handlerVars, store, crashes>>

-----------------------------------------------------------------------------
(* The second half of send_to_peer.                                        *)

LockChannel(s) ==
  /\ pc[s] = "lock"
  /\ held[ref[s]] = None
  /\ held' = [held EXCEPT ![ref[s]] = s]
  /\ IF NeedsSendReservation(obj[ref[s]])
       THEN /\ obj' = [obj EXCEPT ![ref[s]] = ReserveSend(@)]
            /\ pc' = [pc EXCEPT ![s] = "persist"]
       ELSE /\ pc' = [pc EXCEPT ![s] = "issue"]
            /\ UNCHANGED obj
  /\ UNCHANGED <<registered, listed, ref, msgId, wire,
                 handlerVars, store, crashes>>

PersistReservation(s) ==
  /\ pc[s] = "persist"
  /\ store' = [store EXCEPT ![At[s]] =
                 SaveSendReserved(@, obj[ref[s]].send_reserved)]
  /\ pc' = [pc EXCEPT ![s] = "issue"]
  /\ UNCHANGED <<obj, registered, listed, ref, held, msgId, wire,
                 handlerVars, crashes>>

\* Mutant of IssueFrame: the mutex guard is leaked.
IssueKeepsLock(s) ==
  /\ pc[s] = "issue"
  /\ msgId' = [msgId EXCEPT ![s] = obj[ref[s]].msg_id_send]
  /\ obj' = [obj EXCEPT ![ref[s]] = NextSendMsgId(@)]
  /\ pc' = [pc EXCEPT ![s] = "push"]
  /\ UNCHANGED <<registered, listed, ref, held, wire,
                 handlerVars, store, crashes>>

IssueFrame(s) ==
  /\ pc[s] = "issue"
  /\ msgId' = [msgId EXCEPT ![s] = obj[ref[s]].msg_id_send]
  /\ obj' = [obj EXCEPT ![ref[s]] = NextSendMsgId(@)]
  /\ held' = [held EXCEPT ![ref[s]] = None]
  /\ pc' = [pc EXCEPT ![s] = "push"]
  /\ UNCHANGED <<registered, listed, ref, wire, handlerVars, store, crashes>>

PushFrame(s) ==
  /\ pc[s] = "push"
  /\ wire' = wire \cup {s}
  /\ pc' = [pc EXCEPT ![s] = "done"]
  /\ UNCHANGED <<obj, registered, listed, ref, held, msgId,
                 handlerVars, store, crashes>>

\* The WebSocket loop is gone; the msg_id stays used.
PushFails(s) ==
  /\ pc[s] = "push"
  /\ pc' = [pc EXCEPT ![s] = "failed"]
  /\ UNCHANGED <<obj, registered, listed, ref, held, msgId, wire,
                 handlerVars, store, crashes>>

-----------------------------------------------------------------------------
(* try_handle.  The wire is never emptied: the mediator may lose, delay,   *)
(* reorder or duplicate a frame.  A frame that fails AEAD may carry any id.*)

TakeFrame(h, id, s) ==
  /\ hpc[h] = "idle"
  /\ registered[At[h]] # None
  /\ href' = [href EXCEPT ![h] = registered[At[h]]]
  /\ hid' = [hid EXCEPT ![h] = id]
  /\ hmsg' = [hmsg EXCEPT ![h] = s]
  /\ hpc' = [hpc EXCEPT ![h] = "observe"]
  /\ UNCHANGED <<taskVars, dispatched, store, crashes>>

ReceiveFrame(h) ==
  \E s \in wire : Peer[At[s]] = At[h] /\ TakeFrame(h, msgId[s], s)

ReceiveForged(h) == \E id \in ForgedIds : TakeFrame(h, id, None)

VerifyFails(h) == hmsg[h] = None

\* try_handle returns and its locals are gone.
ReturnFrom(h) ==
  /\ hpc' = [hpc EXCEPT ![h] = "idle"]
  /\ hid' = [hid EXCEPT ![h] = 0]
  /\ hmsg' = [hmsg EXCEPT ![h] = None]
  /\ href' = [href EXCEPT ![h] = None]

\* Mutant of RejectFrame: the header is observed before it is verified.
RejectObservesFirst(h) ==
  /\ hpc[h] = "observe"
  /\ held[href[h]] = None
  /\ VerifyFails(h) \/ IsReplay(obj[href[h]], hid[h])
  /\ obj' = [obj EXCEPT ![href[h]] =
               IF IsReplay(@, hid[h]) THEN @ ELSE ObserveRecv(@, hid[h])]
  /\ ReturnFrom(h)
  /\ UNCHANGED <<pc, registered, listed, ref, held, msgId, wire,
                 dispatched, store, crashes>>

RejectFrame(h) ==
  /\ hpc[h] = "observe"
  /\ held[href[h]] = None
  /\ VerifyFails(h) \/ IsReplay(obj[href[h]], hid[h])
  /\ ReturnFrom(h)
  /\ UNCHANGED <<taskVars, dispatched, store, crashes>>

AcceptFrame(h) ==
  /\ hpc[h] = "observe"
  /\ held[href[h]] = None
  /\ ~VerifyFails(h)
  /\ ~IsReplay(obj[href[h]], hid[h])
  /\ obj' = [obj EXCEPT ![href[h]] = ObserveRecv(@, hid[h])]
  /\ hpc' = [hpc EXCEPT ![h] = "save"]
  /\ UNCHANGED <<pc, registered, listed, ref, held, msgId, wire,
                 hid, hmsg, href, dispatched, store, crashes>>

SaveRecv(h) ==
  /\ hpc[h] = "save"
  /\ store' = [store EXCEPT ![At[h]] = SaveRecvMark(@, hid[h])]
  /\ hpc' = [hpc EXCEPT ![h] = "dispatch"]
  /\ UNCHANGED <<taskVars, hid, hmsg, href, dispatched, crashes>>

DispatchFrame(h) ==
  /\ hpc[h] = "dispatch"
  /\ dispatched' = [dispatched EXCEPT ![hmsg[h]] = @ + 1]
  /\ ReturnFrom(h)
  /\ UNCHANGED <<taskVars, store, crashes>>

-----------------------------------------------------------------------------
(* A crash of one agent loses its memory and its running calls; the store  *)
(* stays.                                                                  *)

Crash(a) ==
  /\ crashes < MaxCrashes
  /\ crashes' = crashes + 1
  /\ pc' = [t \in Tasks |-> IF At[t] = a /\ pc[t] \notin {"idle", "done"}
                              THEN "failed" ELSE pc[t]]
  /\ registered' = [registered EXCEPT ![a] = None]
  /\ listed' = listed \ {a}
  /\ obj' = [t \in Tasks |-> IF At[t] = a THEN from_session_keys ELSE obj[t]]
  /\ ref' = [s \in Sends |-> IF At[s] = a THEN None ELSE ref[s]]
  /\ held' = [t \in Tasks |-> IF At[t] = a THEN None ELSE held[t]]
  /\ hpc' = [h \in Handlers |-> IF At[h] = a THEN "idle" ELSE hpc[h]]
  /\ hid' = [h \in Handlers |-> IF At[h] = a THEN 0 ELSE hid[h]]
  /\ hmsg' = [h \in Handlers |-> IF At[h] = a THEN None ELSE hmsg[h]]
  /\ href' = [h \in Handlers |-> IF At[h] = a THEN None ELSE href[h]]
  /\ UNCHANGED <<msgId, wire, store, dispatched>>

RegistrationStep(t) ==
  \/ LookupHit(t)
  \/ LookupMiss(t)
  \/ EstablishFails(t)
  \/ LoadCounters(t)
  \/ InsertChannel(t)
  \/ ListChannel(t)

SendStep(s) ==
  \/ GetChannel(s)
  \/ LockChannel(s)
  \/ PersistReservation(s)
  \/ IssueFrame(s)
  \/ PushFrame(s)
  \/ PushFails(s)

HandlerStep(h) ==
  \/ RejectFrame(h)
  \/ AcceptFrame(h)
  \/ SaveRecv(h)
  \/ DispatchFrame(h)

Next ==
  \/ \E t \in Tasks : RegistrationStep(t)
  \/ \E s \in Sends : SendStep(s)
  \/ \E h \in Handlers : ReceiveFrame(h) \/ ReceiveForged(h) \/ HandlerStep(h)
  \/ \E a \in Ends : Crash(a)

Spec == Init /\ [][Next]_vars

\* The runtime keeps polling a task that can make progress.  Nothing obliges
\* the mediator to deliver, nor an agent to crash.
Fairness ==
  /\ \A t \in Tasks : WF_vars(RegistrationStep(t))
  /\ \A s \in Sends : WF_vars(SendStep(s))
  /\ \A h \in Handlers : WF_vars(HandlerStep(h))

FairSpec == Spec /\ Fairness

-----------------------------------------------------------------------------
(* Properties.                                                             *)

TaskPCs == {"idle", "load", "insert", "list", "get", "lock", "persist", "issue",
            "push", "done", "failed"}

HandlerPCs == {"idle", "observe", "save", "dispatch"}

\* Type invariant: every variable holds values of the Rust type it models.
TypeOK ==
  /\ pc \in [Tasks -> TaskPCs]
  /\ obj \in [Tasks -> Channel]
  /\ registered \in [Ends -> Tasks \cup {None}]
  /\ listed \subseteq Ends
  /\ ref \in [Sends -> Tasks \cup {None}]
  /\ held \in [Tasks -> Sends \cup {None}]
  /\ msgId \in [Sends -> Ids \cup {NoId}]
  /\ wire \subseteq Sends
  /\ hpc \in [Handlers -> HandlerPCs]
  /\ hid \in [Handlers -> Ids]
  /\ hmsg \in [Handlers -> Sends \cup {None}]
  /\ href \in [Handlers -> Tasks \cup {None}]
  /\ store \in [Ends -> Counters]
  /\ dispatched \in [Sends -> Nat]
  /\ crashes \in Nat

\* Two frames sealed under the same k_send never carry the same msg_id, over
\* any number of crashes and restarts: (k_send, msg_id) is the AEAD nonce of
\* crypto/nonce.rs.  The one exception is u64::MAX, where saturating_add in
\* next_send_msg_id sticks.
NonceUnique ==
  \A s1, s2 \in Sends :
    /\ s1 # s2
    /\ At[s1] = At[s2]
    /\ msgId[s1] # NoId
    /\ msgId[s1] = msgId[s2]
    => msgId[s1] = MaxU64

\* Write-ahead rule of send_to_peer: an id is used only once the store holds
\* a ceiling above it, so a crash at any await can not resume below it.
IssuedBelowDurableCeiling ==
  \A s \in Sends :
    msgId[s] # NoId =>
      msgId[s] < store[At[s]].send_reserved \/ msgId[s] = MaxU64

\* try_handle dispatches a frame at most once, however often the mediator
\* delivers it and however often the receiver restarts in between.
DispatchAtMostOnce == \A s \in Sends : dispatched[s] <= 1

\* try_handle verifies before it observes: the replay mark of a registered
\* Channel is always an id the peer really issued, so a frame that fails AEAD
\* can not make it reject the peer's later frames.
ReplayMarkAuthentic ==
  \A a \in Ends :
    /\ registered[a] # None
    /\ obj[registered[a]].received_any
    => \E s \in Sends : /\ At[s] = Peer[a]
                        /\ msgId[s] = obj[registered[a]].msg_id_recv

\* Every send_to_peer call that started comes to an end: holding the Channel's
\* mutex across the store's await does not block the other calls for ever.
SendsTerminate ==
  \A s \in Sends : pc[s] # "idle" ~> pc[s] \in {"done", "failed"}
=============================================================================
