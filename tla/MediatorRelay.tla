---------------------------- MODULE MediatorRelay ---------------------------
(***************************************************************************)
(* A message's way from a sender through the mediator to one recipient:    *)
(* ForwardService (queue first, then push to the live session, flush after *)
(* a reconnect), LiveSessionManager, the mediator's WebSocket handler, and *)
(* the recipient's pickup tasks with their dedup set and ACKs.             *)
(*                                                                         *)
(* The queue is used through what DurableQueue promises (MessageQueue      *)
(* shows that the repository keeps it): a row enters, is marked Sending by *)
(* the delivery that takes it, is removed; a restart of the mediator makes *)
(* every Sending row Pending.  Messages are numbered by received_at, and   *)
(* belong to one recipient connection.                                     *)
(***************************************************************************)
EXTENDS Integers, FiniteSets, Sequences

CONSTANTS
  Messages,       \* the forwards of senders, numbered by received_at
  Sockets,        \* the recipient's WebSocket connections, in the order used
  WsLoop,         \* the recipient task that reads the WebSocket
  Pollers,        \* the recipient tasks that run poll_pickup_once
  Cap,            \* MAX_QUEUE_PER_CONNECTION
  ReplayBatch,    \* RECONNECT_REPLAY_BATCH
  PollLimit,      \* the limit of a delivery request
  ChannelCap,     \* WS_PUSH_CHANNEL_CAP
  MaxLosses,      \* bound: connections, responses and ACKs that are lost
  MaxCrashes,     \* bound: crashes of the mediator or the recipient
  None

Fetchers == Pollers \cup {WsLoop}

ASSUME RelayAssumption ==
  /\ Messages \subseteq Nat /\ IsFiniteSet(Messages)
  /\ Sockets \subseteq Nat
  /\ WsLoop \notin Pollers
  /\ None \notin Sockets
  /\ {Cap, ReplayBatch, PollLimit, ChannelCap} \subseteq Nat \ {0}
  /\ {MaxLosses, MaxCrashes} \subseteq Nat

VARIABLES
  row,        \* the state of each message's queue row, or Absent
  fpc,        \* where the process_forward call of each message is
  cutoff,     \* messages numbered up to here are older than the TTL
  session,    \* LiveSessionManager: the socket the connection maps to
  spc,        \* each socket, as the mediator's handler sees it
  chan,       \* the frames pushed to each socket and not yet read
  flushpc,    \* the reconnect flush each socket spawned
  batch,      \* the messages that flush took and has not pushed
  ws,         \* the socket the recipient is connected with
  cpc,        \* where each recipient task is
  frame,      \* the ids of the delivery it handles, for the ACK
  todo,       \* those it has not looked at
  processed,  \* processed_message_ids
  handled,    \* how often each message was given to process_inbound_http
  raced,      \* history: the messages two tasks were about to mark at once
  sent,       \* history: the messages ever pushed to each socket
  dropped,    \* history: the messages a live push could not be made for
  losses,
  crashes

queueVars == <<row, fpc, cutoff>>
sessionVars == <<session, spc, chan, flushpc, batch, sent, dropped>>
clientVars == <<ws, cpc, frame, todo, processed, handled, raced>>
budget == <<losses, crashes>>
vars == <<queueVars, sessionVars, clientVars, budget>>

Absent == "absent"
Rows == {"absent", "pending", "sending"}

Init ==
  /\ row = [m \in Messages |-> Absent]
  /\ fpc = [m \in Messages |-> "idle"]
  /\ cutoff = 0
  /\ session = None
  /\ spc = [s \in Sockets |-> "closed"]
  /\ chan = [s \in Sockets |-> <<>>]
  /\ flushpc = [s \in Sockets |-> "none"]
  /\ batch = [s \in Sockets |-> {}]
  /\ sent = [s \in Sockets |-> {}]
  /\ dropped = {}
  /\ ws = None
  /\ cpc = [f \in Fetchers |-> "idle"]
  /\ frame = [f \in Fetchers |-> {}]
  /\ todo = [f \in Fetchers |-> {}]
  /\ processed = {}
  /\ handled = [m \in Messages |-> 0]
  /\ raced = {}
  /\ losses = 0
  /\ crashes = 0

Pending == {m \in Messages : row[m] = "pending"}
Expired == {m \in Messages : row[m] # Absent /\ m <= cutoff}

Oldest(S, limit) == {m \in S : Cardinality({k \in S : k < m}) < limit}

MarkSending(S) == [m \in Messages |-> IF m \in S THEN "sending" ELSE row[m]]
RemoveRows(S) == [m \in Messages |-> IF m \in S THEN Absent ELSE row[m]]

Loss ==
  /\ losses < MaxLosses
  /\ losses' = losses + 1
  /\ UNCHANGED crashes

-----------------------------------------------------------------------------
(* ForwardService::process_forward.                                        *)

\* The message is too large, its key is in no keylist, or mediation is not
\* granted.
RejectForward(m) ==
  /\ fpc[m] = "idle"
  /\ fpc' = [fpc EXCEPT ![m] = "rejected"]
  /\ UNCHANGED <<row, cutoff, sessionVars, clientVars, budget>>

\* The cap counts Pending rows; a full queue is relieved of expired rows of
\* any state, and one is enough to let the forward in.
CheckCap(m) ==
  /\ fpc[m] = "idle"
  /\ \A k \in Messages : k < m => fpc[k] # "idle"
  /\ IF Cardinality(Pending) < Cap
       THEN /\ fpc' = [fpc EXCEPT ![m] = "queue"]
            /\ UNCHANGED row
       ELSE /\ row' = RemoveRows(Expired)
            /\ fpc' = [fpc EXCEPT ![m] =
                         IF Expired = {} THEN "rejected" ELSE "queue"]
  /\ UNCHANGED <<cutoff, sessionVars, clientVars, budget>>

QueueMessage(m) ==
  /\ fpc[m] = "queue"
  /\ row' = [row EXCEPT ![m] = "pending"]
  /\ fpc' = [fpc EXCEPT ![m] = "push"]
  /\ UNCHANGED <<cutoff, sessionVars, clientVars, budget>>

HasRoom(s) == s \in Sockets /\ Len(chan[s]) < ChannelCap

Push(s, ids) ==
  /\ chan' = [chan EXCEPT ![s] = Append(@, ids)]
  /\ sent' = [sent EXCEPT ![s] = @ \cup ids]

\* try_deliver: a try_send to whatever socket is registered now.  The row
\* stays Pending either way.
PushLive(m) ==
  /\ fpc[m] = "push"
  /\ fpc' = [fpc EXCEPT ![m] = "done"]
  /\ IF HasRoom(session)
       THEN Push(session, {m}) /\ UNCHANGED dropped
       ELSE /\ dropped' = IF session = None THEN dropped ELSE dropped \cup {m}
            /\ UNCHANGED <<chan, sent>>
  /\ UNCHANGED <<row, cutoff, session, spc, flushpc, batch, clientVars, budget>>

-----------------------------------------------------------------------------
(* The mediator's WebSocket handler and the flush it spawns.               *)

\* Mutant of Identify: no flush is spawned.
IdentifyWithoutFlush(s) ==
  /\ spc[s] \in {"open", "dead"}
  /\ flushpc[s] = "none"
  /\ session' = s
  /\ flushpc' = [flushpc EXCEPT ![s] = "done"]
  /\ spc' = [spc EXCEPT ![s] = IF @ = "open" THEN "live" ELSE "deadlive"]
  /\ UNCHANGED <<queueVars, chan, batch, sent, dropped, clientVars, budget>>

\* The first frame that reveals the connection: register, then flush.  The
\* recipient may be gone by the time the handler gets to the frame.
Identify(s) ==
  /\ spc[s] \in {"open", "dead"}
  /\ flushpc[s] = "none"
  /\ session' = s
  /\ flushpc' = [flushpc EXCEPT ![s] = "take"]
  /\ spc' = [spc EXCEPT ![s] = IF @ = "open" THEN "live" ELSE "deadlive"]
  /\ UNCHANGED <<queueVars, chan, batch, sent, dropped, clientVars, budget>>

FlushTake(s) ==
  /\ flushpc[s] = "take"
  /\ LET taken == Oldest(Pending, ReplayBatch)
     IN  /\ row' = MarkSending(taken)
         /\ batch' = [batch EXCEPT ![s] = taken]
         /\ flushpc' = [flushpc EXCEPT ![s] = IF taken = {} THEN "done" ELSE "push"]
  /\ UNCHANGED <<fpc, cutoff, session, spc, chan, sent, dropped,
                 clientVars, budget>>

\* Mutant of FlushPush: the batch is dropped.
FlushForgets(s) ==
  /\ flushpc[s] = "push"
  /\ HasRoom(session)
  /\ flushpc' = [flushpc EXCEPT ![s] = "done"]
  /\ batch' = [batch EXCEPT ![s] = {}]
  /\ UNCHANGED <<queueVars, session, spc, chan, sent, dropped, clientVars, budget>>

\* deliver_or_drop looks the session up again; it is the current one, not
\* necessarily the socket that spawned the flush.
FlushPush(s) ==
  /\ flushpc[s] = "push"
  /\ HasRoom(session)
  /\ Push(session, batch[s])
  /\ flushpc' = [flushpc EXCEPT ![s] =
                   IF Cardinality(batch[s]) < ReplayBatch THEN "done" ELSE "take"]
  /\ batch' = [batch EXCEPT ![s] = {}]
  /\ UNCHANGED <<queueVars, session, spc, dropped, clientVars, budget>>

\* No session, or its channel stays full for LIVE_PUSH_TIMEOUT.
FlushFails(s) ==
  /\ flushpc[s] = "push"
  /\ ~HasRoom(session)
  /\ flushpc' = [flushpc EXCEPT ![s] = "failed"]
  /\ batch' = [batch EXCEPT ![s] = {}]
  /\ UNCHANGED <<queueVars, session, spc, chan, sent, dropped,
                 clientVars, budget>>

\* A delivery-request on the socket (drain_queue); the response is a
\* try_send to the socket's own channel.
DeliveryRequest(s) ==
  /\ spc[s] = "live"
  /\ LET taken == Oldest(Pending, PollLimit)
     IN  /\ taken # {}
         /\ row' = MarkSending(taken)
         /\ IF HasRoom(s) THEN Push(s, taken) ELSE UNCHANGED <<chan, sent>>
  /\ UNCHANGED <<fpc, cutoff, session, spc, flushpc, batch, dropped,
                 clientVars, budget>>

\* The read loop ends: the connection's session is removed, whoever it is.
CloseSocket(s) ==
  /\ spc[s] \in {"dead", "deadlive"}
  /\ session' = IF spc[s] = "deadlive" THEN None ELSE session
  /\ spc' = [spc EXCEPT ![s] = "ended"]
  /\ chan' = [chan EXCEPT ![s] = <<>>]
  /\ UNCHANGED <<queueVars, flushpc, batch, sent, dropped, clientVars, budget>>

Age ==
  /\ \E m \in Messages :
       /\ fpc[m] # "idle"
       /\ m > cutoff
       /\ \A k \in Messages : k > cutoff => m <= k
       /\ cutoff' = m
  /\ UNCHANGED <<row, fpc, sessionVars, clientVars, budget>>

\* The TTL task.
Sweep ==
  /\ Expired # {}
  /\ row' = RemoveRows(Expired)
  /\ UNCHANGED <<fpc, cutoff, sessionVars, clientVars, budget>>

-----------------------------------------------------------------------------
(* The recipient.                                                          *)

Connect(s) ==
  /\ ws = None
  /\ spc[s] = "closed"
  /\ \A r \in Sockets : r < s => spc[r] # "closed"
  /\ ws' = s
  /\ spc' = [spc EXCEPT ![s] = "open"]
  /\ UNCHANGED <<queueVars, session, chan, flushpc, batch, sent, dropped,
                 cpc, frame, todo, processed, handled, raced, budget>>

Drop(s) == CASE s = "open" -> "dead" [] s = "live" -> "deadlive" [] OTHER -> s

\* The connection breaks; the mediator finds out later.
Disconnect ==
  /\ ws # None
  /\ Loss
  /\ spc' = [spc EXCEPT ![ws] = Drop(@)]
  /\ ws' = None
  /\ UNCHANGED <<queueVars, session, chan, flushpc, batch, sent, dropped,
                 cpc, frame, todo, processed, handled, raced>>

Handle(f, ids) ==
  /\ frame' = [frame EXCEPT ![f] = ids]
  /\ todo' = [todo EXCEPT ![f] = ids]
  /\ cpc' = [cpc EXCEPT ![f] = "check"]

ReadFrame ==
  /\ cpc[WsLoop] = "idle"
  /\ ws # None
  /\ chan[ws] # <<>>
  /\ Handle(WsLoop, Head(chan[ws]))
  /\ chan' = [chan EXCEPT ![ws] = Tail(@)]
  /\ UNCHANGED <<queueVars, session, spc, flushpc, batch, sent, dropped,
                 ws, processed, handled, raced, budget>>

\* poll_pickup_once: the mediator takes the messages and answers.
Poll(f) ==
  /\ f \in Pollers
  /\ cpc[f] = "idle"
  /\ LET taken == Oldest(Pending, PollLimit)
     IN  /\ taken # {}
         /\ row' = MarkSending(taken)
         /\ Handle(f, taken)
  /\ UNCHANGED <<fpc, cutoff, sessionVars, ws, processed, handled, raced, budget>>

\* The response is lost, or cannot be decrypted.
LoseDelivery(f) ==
  /\ cpc[f] = "check"
  /\ todo[f] = frame[f]
  /\ Loss
  /\ cpc' = [cpc EXCEPT ![f] = "idle"]
  /\ frame' = [frame EXCEPT ![f] = {}]
  /\ todo' = [todo EXCEPT ![f] = {}]
  /\ UNCHANGED <<queueVars, sessionVars, ws, processed, handled, raced>>

NextId(f) == CHOOSE m \in todo[f] : \A k \in todo[f] : m <= k

\* The loop over the attachments goes on, or the ACK follows.
FinishId(f, m) ==
  /\ todo' = [todo EXCEPT ![f] = @ \ {m}]
  /\ cpc' = [cpc EXCEPT ![f] = IF todo[f] = {m} THEN "ack" ELSE "check"]

\* The messages raced for, once f has looked its next one up as well: another
\* task that has looked it up and not marked it yet will dispatch it too.
Overlap(f) ==
  raced \cup {m \in {NextId(f)} :
                \E g \in Fetchers \ {f} : cpc[g] = "mark" /\ NextId(g) = m}

\* Mutant of CheckProcessed: never finds a duplicate.
CheckNothing(f) ==
  /\ cpc[f] = "check"
  /\ cpc' = [cpc EXCEPT ![f] = "mark"]
  /\ raced' = Overlap(f)
  /\ UNCHANGED <<queueVars, sessionVars, ws, frame, todo, processed, handled, budget>>

\* is_message_processed, under its own read lock
CheckProcessed(f) ==
  /\ cpc[f] = "check"
  /\ IF NextId(f) \in processed
       THEN FinishId(f, NextId(f)) /\ UNCHANGED raced
       ELSE /\ cpc' = [cpc EXCEPT ![f] = "mark"]
            /\ raced' = Overlap(f)
            /\ UNCHANGED todo
  /\ UNCHANGED <<queueVars, sessionVars, ws, frame, processed, handled, budget>>

\* Mutant of MarkProcessed: the delivery is acknowledged at once.
MarkAndAck(f) ==
  /\ cpc[f] = "mark"
  /\ processed' = processed \cup {NextId(f)}
  /\ row' = RemoveRows(frame[f])
  /\ cpc' = [cpc EXCEPT ![f] = "idle"]
  /\ frame' = [frame EXCEPT ![f] = {}]
  /\ todo' = [todo EXCEPT ![f] = {}]
  /\ UNCHANGED <<fpc, cutoff, sessionVars, ws, handled, raced, budget>>

\* mark_message_processed, under the write lock; its result is ignored
MarkProcessed(f) ==
  /\ cpc[f] = "mark"
  /\ processed' = processed \cup {NextId(f)}
  /\ cpc' = [cpc EXCEPT ![f] = "dispatch"]
  /\ UNCHANGED <<queueVars, sessionVars, ws, frame, todo, handled, raced, budget>>

\* process_inbound_http returns, whether it worked or not
ProcessInbound(f) ==
  /\ cpc[f] = "dispatch"
  /\ handled' = [handled EXCEPT ![NextId(f)] = @ + 1]
  /\ FinishId(f, NextId(f))
  /\ UNCHANGED <<queueVars, sessionVars, ws, frame, processed, raced, budget>>

ReturnFrom(f) ==
  /\ cpc[f] = "ack"
  /\ cpc' = [cpc EXCEPT ![f] = "idle"]
  /\ frame' = [frame EXCEPT ![f] = {}]
  /\ UNCHANGED <<ws, todo, processed, handled, raced>>

\* messages-received names every id of the delivery.
Acknowledge(f) ==
  /\ ReturnFrom(f)
  /\ row' = RemoveRows(frame[f])
  /\ UNCHANGED <<fpc, cutoff, sessionVars, budget>>

LoseAck(f) ==
  /\ ReturnFrom(f)
  /\ Loss
  /\ UNCHANGED <<queueVars, sessionVars>>

-----------------------------------------------------------------------------
(* Crashes.                                                                *)

CrashBudget ==
  /\ crashes < MaxCrashes
  /\ crashes' = crashes + 1
  /\ UNCHANGED losses

\* The mediator restarts: ensure_loaded resets Sending rows.
MediatorCrash ==
  /\ CrashBudget
  /\ row' = [m \in Messages |-> IF row[m] = Absent THEN Absent ELSE "pending"]
  /\ fpc' = [m \in Messages |-> CASE fpc[m] = "queue" -> "rejected"
                                  [] fpc[m] = "push" -> "done"
                                  [] OTHER -> fpc[m]]
  /\ session' = None
  /\ spc' = [s \in Sockets |-> IF spc[s] = "closed" THEN "closed" ELSE "ended"]
  /\ chan' = [s \in Sockets |-> <<>>]
  /\ flushpc' = [s \in Sockets |-> IF flushpc[s] = "none" THEN "none" ELSE "failed"]
  /\ batch' = [s \in Sockets |-> {}]
  /\ ws' = None
  /\ UNCHANGED <<cutoff, sent, dropped, cpc, frame, todo, processed, handled, raced>>

\* The recipient restarts with an empty dedup set.
ClientCrash ==
  /\ CrashBudget
  /\ ws' = None
  /\ spc' = [s \in Sockets |-> IF s = ws THEN Drop(spc[s]) ELSE spc[s]]
  /\ cpc' = [f \in Fetchers |-> "idle"]
  /\ frame' = [f \in Fetchers |-> {}]
  /\ todo' = [f \in Fetchers |-> {}]
  /\ processed' = {}
  /\ UNCHANGED <<queueVars, session, chan, flushpc, batch, sent, dropped,
                 handled, raced>>

ForwardStep(m) == QueueMessage(m) \/ PushLive(m)

FlushStep(s) == FlushTake(s) \/ FlushPush(s) \/ FlushFails(s)

FetchStep(f) ==
  \/ CheckProcessed(f)
  \/ MarkProcessed(f)
  \/ ProcessInbound(f)
  \/ Acknowledge(f)

Next ==
  \/ \E m \in Messages : RejectForward(m) \/ CheckCap(m) \/ ForwardStep(m)
  \/ \E s \in Sockets :
       \/ Connect(s) \/ Identify(s) \/ FlushStep(s)
       \/ DeliveryRequest(s) \/ CloseSocket(s)
  \/ Disconnect
  \/ ReadFrame
  \/ \E f \in Fetchers : Poll(f) \/ FetchStep(f) \/ LoseDelivery(f) \/ LoseAck(f)
  \/ Age
  \/ Sweep
  \/ MediatorCrash
  \/ ClientCrash

Spec == Init /\ [][Next]_vars

\* Every task that can go on does, and the WebSocket loop keeps reading.  The
\* pickup loop may skip its poll whenever the WebSocket is connected, as it
\* does when it is given ws_connected.  Senders, failures and time are free.
Fairness ==
  /\ \A m \in Messages : WF_vars(ForwardStep(m))
  /\ \A s \in Sockets : WF_vars(FlushStep(s)) /\ WF_vars(Identify(s))
  /\ WF_vars(ReadFrame)
  /\ \A f \in Fetchers : WF_vars(FetchStep(f)) /\ WF_vars(ws = None /\ Poll(f))

FairSpec == Spec /\ Fairness

-----------------------------------------------------------------------------
(* Properties.                                                             *)

Accepted == {m \in Messages : fpc[m] = "done"}

\* Type invariant.
TypeOK ==
  /\ row \in [Messages -> Rows]
  /\ fpc \in [Messages -> {"idle", "queue", "push", "done", "rejected"}]
  /\ cutoff \in Nat
  /\ session \in Sockets \cup {None}
  /\ spc \in [Sockets -> {"closed", "open", "live", "dead", "deadlive", "ended"}]
  /\ chan \in [Sockets -> Seq(SUBSET Messages)]
  /\ \A s \in Sockets : Len(chan[s]) <= ChannelCap
  /\ flushpc \in [Sockets -> {"none", "take", "push", "done", "failed"}]
  /\ batch \in [Sockets -> SUBSET Messages]
  /\ ws \in Sockets \cup {None}
  /\ cpc \in [Fetchers -> {"idle", "check", "mark", "dispatch", "ack"}]
  /\ frame \in [Fetchers -> SUBSET Messages]
  /\ todo \in [Fetchers -> SUBSET Messages]
  /\ processed \subseteq Messages
  /\ handled \in [Messages -> Nat]
  /\ raced \subseteq Messages
  /\ sent \in [Sockets -> SUBSET Messages]
  /\ dropped \subseteq Messages
  /\ losses \in Nat /\ crashes \in Nat

InProcess(m) ==
  \E f \in Fetchers : cpc[f] \in {"mark", "dispatch"} /\ m \in todo[f]

\* An accepted message leaves the queue only when it expired or when the
\* recipient has handled it, or is about to, however deliveries and ACKs
\* overlap, duplicate or get lost.
NothingLost ==
  \A m \in Accepted :
    row[m] = Absent => m <= cutoff \/ handled[m] > 0 \/ InProcess(m)

\* No lost wake-up between process_forward (queue, then push) and the
\* WebSocket handler (register, then flush): once the flush of the registered
\* socket has drained the queue, a message that is still Pending has been
\* pushed to that socket, unless its channel was full.
NoMissedPush ==
  \A s \in Sockets, m \in Accepted :
    /\ session = s
    /\ flushpc[s] = "done"
    /\ row[m] = "pending"
    => m \in sent[s] \/ m \in dropped

\* However often the mediator pushes a message and answers polls with it, the
\* recipient's tasks together hand it to process_inbound_http at most once per
\* run of the process, except when two of them looked it up in
\* processed_message_ids before either marked it: is_message_processed and
\* mark_message_processed take the lock one after the other, so this window
\* stays open.
HandledOnce ==
  \A m \in Messages \ raced : handled[m] <= 1 + crashes

\* Nobody is working on the delivery of a message.
Unattended(m) ==
  /\ \A f \in Fetchers : m \notin frame[f]
  /\ \A s \in Sockets : m \notin batch[s]

\* The replay after a reconnect delivers again whatever was not ACKed.
ReplayRedelivers ==
  \A s \in Sockets, m \in Accepted :
    /\ session = s
    /\ ws = s
    /\ flushpc[s] = "done"
    /\ row[m] # Absent
    /\ Unattended(m)
    => m \in sent[s] \/ m \in dropped

\* While nobody crashes and no connection, response or ACK is lost, every
\* accepted message is handled or expires.
EventuallyHandled ==
  \A m \in Messages :
    fpc[m] = "done" ~> handled[m] > 0 \/ m <= cutoff \/ losses > 0 \/ crashes > 0
=============================================================================
