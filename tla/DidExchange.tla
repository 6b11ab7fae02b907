----------------------------- MODULE DidExchange -----------------------------
(***************************************************************************)
(* A DID exchange between the agent that accepts an out-of-band invitation *)
(* (the requester) and the agent that made it (the responder): connection  *)
(* service, the request, response and complete handlers, the storage-      *)
(* backed repository (protocols/connections/src) and the agent's           *)
(* accept_invitation, metadata calls and wait_until_completed (agent/src/  *)
(* modules).                                                               *)
(*                                                                         *)
(* A handler is a list of operations.  One that writes loads the record    *)
(* from the cache, changes its copy, writes it to storage and then to the  *)
(* cache, each an await; nothing keeps two handlers of a record apart.     *)
(* Messages may be lost, delayed, reordered and delivered again.           *)
(***************************************************************************)
EXTENDS Integers, FiniteSets, Sequences

CONSTANTS
  Threads,         \* handshakes; each is one call of accept_invitation
  Slots,           \* ids of the responder's connection records
  RequesterTasks,  \* handlers and calls that run at the same time
  ResponderTasks,
  MaxReplays,      \* bound: messages delivered again
  MaxTouches,      \* bound: metadata calls by the applications
  MaxFaults,       \* bound: crashes, lost messages, failing writes and sends
  None

\* A requester's record is named by its thread: create_request makes both.
Rows == Threads \cup Slots
Tasks == RequesterTasks \cup ResponderTasks

States == {"RequestSent", "ResponseReceived", "RequestReceived", "ResponseSent", "Completed"}

\* The DIDs the responder makes for its connections are numbered.
Dids == {None} \cup Nat

ConnectionRecord == [thread : Threads, state : States, did : Dids]
Message == [type : {"request", "response", "complete"}, thread : Threads, did : Dids]
Context == [thread : Threads \cup {None}, row : Rows \cup {None}, did : Dids]

ASSUME ExchangeAssumption ==
  /\ Threads \cap Slots = {} /\ RequesterTasks \cap ResponderTasks = {}
  /\ {MaxReplays, MaxTouches, MaxFaults} \subseteq Nat
  /\ None \notin Rows \cup Tasks \cup Nat
  /\ None \notin ConnectionRecord

VARIABLES
  store,      \* connection records in storage
  cache,      \* the repositories' caches
  todo,       \* the operations a task still has to do
  phase,      \* where it is in the first of them
  ctx,        \* the thread, record and responder's DID it works with
  copy,       \* its copy of the record
  base,       \* history: the record that copy was made from
  sent,       \* messages on their way
  handled,    \* those that were handled at least once
  waiter,     \* wait_until_completed, one per thread, at the requester
  woken,      \* whether its `notified` future is ready
  minted,     \* how many connection DIDs the responder has made
  replays, touches, faults,
  overlapped, \* history: threads two of whose requests were handled together
  stale,      \* history: records written from a copy that was out of date
  broken      \* history: a fault cut a handler off or lost a message

taskVars == <<todo, phase, ctx, copy, base>>
netVars == <<sent, handled>>
waitVars == <<waiter, woken>>
boundVars == <<replays, touches, faults>>
historyVars == <<overlapped, stale, broken>>
vars == <<store, cache, taskVars, netVars, waitVars, minted, boundVars, historyVars>>

\* did is the responder's DID of this connection: its own `did` in the
\* responder's record, `their_did` in the requester's.
Connection(t, s, d) == [thread |-> t, state |-> s, did |-> d]

Request(t) == [type |-> "request", thread |-> t, did |-> None]
Response(t, d) == [type |-> "response", thread |-> t, did |-> d]
Complete(t) == [type |-> "complete", thread |-> t, did |-> None]

NoContext == [thread |-> None, row |-> None, did |-> None]

Init ==
  /\ store = [r \in Rows |-> None] /\ cache = [r \in Rows |-> None]
  /\ todo = [x \in Tasks |-> <<>>]
  /\ phase = [x \in Tasks |-> "load"]
  /\ ctx = [x \in Tasks |-> NoContext]
  /\ copy = [x \in Tasks |-> None] /\ base = [x \in Tasks |-> None]
  /\ sent = {} /\ handled = {}
  /\ waiter = [t \in Threads |-> "idle"] /\ woken = [t \in Threads |-> FALSE]
  /\ minted = 0
  /\ replays = 0 /\ touches = 0 /\ faults = 0
  /\ overlapped = {} /\ stale = {} /\ broken = FALSE

Fault == faults < MaxFaults /\ faults' = faults + 1

\* Records of thread t at the responder, as its cache has them;
\* find_by_role_and_thread_id searches a hash map and returns any of them.
Found(t) == {r \in Slots : cache[r] # None /\ cache[r].thread = t}

Idle(x) == todo[x] = <<>>

\* The task a new call or handler becomes; which one makes no difference.
Spare(own) == CHOOSE x \in own \cup {None} : IF x = None THEN \A y \in own : ~ Idle(y) ELSE Idle(x)
NewRow == CHOOSE r \in Slots \cup {None} :
            LET free(q) == store[q] = None /\ \A y \in Tasks : ctx[y].row # q
            IN  IF r = None THEN \A q \in Slots : ~ free(q) ELSE free(r)

\* Records of thread t in the responder's storage.
Answered(t) == {r \in Slots : store[r] # None /\ store[r].thread = t}

\* Nothing went wrong on thread t that the code does not guard against.
Orderly(t) == t \notin overlapped /\ stale \cap ({t} \cup Answered(t)) = {}

\* Task x starts on the operations p.
Start(x, p, t, r, d) ==
  /\ todo' = [todo EXCEPT ![x] = p]
  /\ ctx' = [ctx EXCEPT ![x] = [thread |-> t, row |-> r, did |-> d]]
  /\ UNCHANGED <<phase, copy, base>>

Return(x) ==
  /\ todo' = [todo EXCEPT ![x] = <<>>]
  /\ phase' = [phase EXCEPT ![x] = "load"]
  /\ ctx' = [ctx EXCEPT ![x] = NoContext]
  /\ copy' = [copy EXCEPT ![x] = None]
  /\ base' = [base EXCEPT ![x] = None]

-----------------------------------------------------------------------------
(* What starts a task.                                                     *)

\* accept_invitation: the request is sent once its record is saved; the
\* transport that was chosen goes into the metadata of the record last.
AcceptInvitation(x) ==
  /\ x = Spare(RequesterTasks)
  /\ \E t \in Threads :
       /\ store[t] = None /\ \A y \in Tasks : ctx[y].thread # t
       /\ Start(x, <<"create", "send", "touch">>, t, t, None)
  /\ UNCHANGED <<store, cache, netVars, waitVars, minted, boundVars, historyVars>>

\* set_, update_ or clear_connection_metadata.
TouchMetadata(x) ==
  /\ x \in {Spare(RequesterTasks), Spare(ResponderTasks)}
  /\ touches < MaxTouches /\ touches' = touches + 1
  /\ \E r \in IF x \in RequesterTasks THEN Threads ELSE Slots :
       /\ cache[r] # None
       /\ Start(x, <<"touch">>, cache[r].thread, r, None)
  /\ UNCHANGED <<store, cache, netVars, waitVars, minted, replays, faults, historyVars>>

\* The writes of the connection-specific DID, and of the mesh endpoint if the
\* request came over the mesh.
Answer == {<<"respond", "adopt", "send">>, <<"respond", "adopt", "rewrite", "send">>}

\* Mutant of HandleRequest: the thread is not looked for.
HandleRequestAlways(x, t) ==
  \E p \in Answer : NewRow # None /\ Start(x, <<"create">> \o p, t, NewRow, None)

\* process_request looks for the thread first.  A request that has its
\* response is dropped.
HandleRequest(x, t) ==
  \/ /\ Found(t) = {}
     /\ \E p \in Answer : NewRow # None /\ Start(x, <<"create">> \o p, t, NewRow, None)
  \/ \E r \in Found(t), p \in Answer :
       /\ cache[r].state = "RequestReceived"
       /\ Start(x, p, t, r, None)
  \/ \E r \in Found(t) : cache[r].state # "RequestReceived" /\ UNCHANGED taskVars

\* Mutant of HandleResponse: complete is sent before it is recorded.
HandleResponseEager(x, t, d) == Start(x, <<"receive", "send", "complete">>, t, t, d)


HandleResponse(x, t, d) ==
  \E p \in {<<"receive", "complete", "send">>, <<"receive", "rewrite", "complete", "send">>} :
    Start(x, p, t, t, d)

\* process_complete: no record of the thread is an error.
HandleComplete(x, t) ==
  \/ Found(t) = {} /\ UNCHANGED taskVars
  \/ \E r \in Found(t) : Start(x, <<"finish">>, t, r, None)

Handle(x, m) ==
  /\ m \in sent
  /\ handled' = handled \cup {m}
  /\ IF m \in handled THEN replays < MaxReplays /\ replays' = replays + 1 ELSE UNCHANGED replays
  /\ \/ x = Spare(ResponderTasks) /\ m.type = "request" /\ HandleRequest(x, m.thread)
     \/ x = Spare(RequesterTasks) /\ m.type = "response" /\ HandleResponse(x, m.thread, m.did)
     \/ x = Spare(ResponderTasks) /\ m.type = "complete" /\ HandleComplete(x, m.thread)
  /\ overlapped' = IF /\ m.type = "request" /\ todo'[x] # <<>>
                      /\ \E y \in ResponderTasks : ctx[y].thread = m.thread /\ Len(todo[y]) > 1
                     THEN overlapped \cup {m.thread} ELSE overlapped
  /\ UNCHANGED <<store, cache, sent, waitVars, minted, touches, faults, stale, broken>>

-----------------------------------------------------------------------------
(* The operations of a task.                                               *)

\* The state an operation insists on, and the one it leaves.
Step(op) == CASE op = "respond" -> <<"RequestReceived", "ResponseSent">>
              [] op = "receive" -> <<"RequestSent", "ResponseReceived">>
              [] op = "complete" -> <<"ResponseReceived", "Completed">>
              [] op = "finish" -> <<"ResponseSent", "Completed">>

Loading == {"respond", "receive", "complete", "finish", "touch"}

\* The task goes on with copy c of its record, made from b.
Write(x, c, b) ==
  /\ copy' = [copy EXCEPT ![x] = c]
  /\ base' = [base EXCEPT ![x] = b]
  /\ phase' = [phase EXCEPT ![x] = "store"]
  /\ UNCHANGED todo

\* save of a new record; create_request and process_request.
Create(x) ==
  LET c == ctx[x] IN
  /\ ~ Idle(x) /\ phase[x] = "load" /\ Head(todo[x]) = "create"
  /\ Write(x, Connection(c.thread, IF x \in RequesterTasks THEN "RequestSent" ELSE "RequestReceived",
                         None), None)
  /\ UNCHANGED <<store, cache, ctx, netVars, waitVars, minted, boundVars, historyVars>>

\* find, the checks on role and state, and the change of the copy.  The
\* responder makes its DID just before create_response.
Load(x) ==
  LET op == Head(todo[x])  rec == cache[ctx[x].row] IN
  /\ ~ Idle(x) /\ phase[x] = "load" /\ op \in Loading
  /\ \/ /\ rec = None \/ (op # "touch" /\ rec.state # Step(op)[1])
        /\ Return(x) /\ UNCHANGED minted
     \/ /\ rec # None /\ op # "touch" /\ rec.state = Step(op)[1]
        /\ Write(x, [rec EXCEPT !.state = Step(op)[2],
                                !.did = IF op = "receive" THEN ctx[x].did ELSE @], rec)
        /\ minted' = IF op = "respond" THEN minted + 1 ELSE minted
        /\ ctx' = [ctx EXCEPT ![x].did = IF op = "respond" THEN minted + 1 ELSE @]
     \/ /\ rec # None /\ op = "touch"
        /\ Write(x, rec, rec)
        /\ UNCHANGED <<ctx, minted>>
  /\ UNCHANGED <<store, cache, netVars, waitVars, boundVars, historyVars>>

\* Mutant of Rewrite: the record keeps the agent's own DID.
RewriteOnly(x) ==
  /\ ~ Idle(x) /\ phase[x] = "load" /\ Head(todo[x]) \in {"adopt", "rewrite"}
  /\ Write(x, copy[x], copy[x])
  /\ UNCHANGED <<store, cache, ctx, netVars, waitVars, minted, boundVars, historyVars>>

\* The copy the last operation left is changed, or only written again.
Rewrite(x) ==
  /\ ~ Idle(x) /\ phase[x] = "load" /\ Head(todo[x]) \in {"adopt", "rewrite"}
  /\ Write(x, IF Head(todo[x]) = "adopt" THEN [copy[x] EXCEPT !.did = ctx[x].did] ELSE copy[x],
           copy[x])
  /\ UNCHANGED <<store, cache, ctx, netVars, waitVars, minted, boundVars, historyVars>>

WriteStorage(x) ==
  LET r == ctx[x].row IN
  /\ phase[x] = "store"
  /\ store' = [store EXCEPT ![r] = copy[x]]
  /\ stale' = IF store[r] # base[x] THEN stale \cup {r} ELSE stale
  /\ phase' = [phase EXCEPT ![x] = "cache"]
  /\ UNCHANGED <<cache, todo, ctx, copy, base, netVars, waitVars, minted, boundVars,
                 overlapped, broken>>

WriteFails(x) ==
  /\ phase[x] = "store"
  /\ Fault
  /\ Return(x)
  /\ broken' = TRUE
  /\ UNCHANGED <<store, cache, netVars, waitVars, minted, replays, touches, overlapped, stale>>

\* Mutant of WriteCache: nobody is woken.
WriteCacheSilently(x) ==
  LET r == ctx[x].row IN
  /\ phase[x] = "cache"
  /\ cache' = [cache EXCEPT ![r] = copy[x]]
  /\ stale' = IF store[r] # copy[x] THEN stale \cup {r} ELSE stale
  /\ IF Len(todo[x]) = 1
       THEN Return(x)
       ELSE /\ todo' = [todo EXCEPT ![x] = Tail(@)]
            /\ phase' = [phase EXCEPT ![x] = "load"]
            /\ UNCHANGED <<ctx, copy, base>>
  /\ UNCHANGED <<store, netVars, waitVars, minted, boundVars, overlapped, broken>>

\* The cache, and wake_waiters.
WriteCache(x) ==
  LET r == ctx[x].row IN
  /\ phase[x] = "cache"
  /\ cache' = [cache EXCEPT ![r] = copy[x]]
  /\ woken' = IF r \in Threads THEN [t \in Threads |-> waiter[t] \in {"armed", "waiting"}]
                                ELSE woken
  /\ stale' = IF store[r] # copy[x] THEN stale \cup {r} ELSE stale
  /\ IF Len(todo[x]) = 1
       THEN Return(x)
       ELSE /\ todo' = [todo EXCEPT ![x] = Tail(@)]
            /\ phase' = [phase EXCEPT ![x] = "load"]
            /\ UNCHANGED <<ctx, copy, base>>
  /\ UNCHANGED <<store, netVars, waiter, minted, boundVars, overlapped, broken>>

\* Which message the task has made.
Outbound(x) ==
  IF x \in ResponderTasks THEN Response(ctx[x].thread, ctx[x].did)
  ELSE IF ctx[x].did = None THEN Request(ctx[x].thread) ELSE Complete(ctx[x].thread)

Send(x) ==
  /\ ~ Idle(x) /\ phase[x] = "load" /\ Head(todo[x]) = "send"
  /\ sent' = sent \cup {Outbound(x)}
  /\ IF Len(todo[x]) = 1
       THEN Return(x)
       ELSE todo' = [todo EXCEPT ![x] = Tail(@)] /\ UNCHANGED <<phase, ctx, copy, base>>
  /\ UNCHANGED <<store, cache, handled, waitVars, minted, boundVars, historyVars>>

\* Signing, packing or the transport fails.
SendFails(x) ==
  /\ ~ Idle(x) /\ phase[x] = "load" /\ Head(todo[x]) = "send"
  /\ Fault
  /\ Return(x)
  /\ broken' = TRUE
  /\ UNCHANGED <<store, cache, netVars, waitVars, minted, replays, touches, overlapped, stale>>

-----------------------------------------------------------------------------
(* wait_until_completed.                                                   *)

\* A new `notified` future, before the record is read.
Arm(t) ==
  /\ waiter[t] = "idle" \/ (waiter[t] = "waiting" /\ woken[t])
  /\ waiter' = [waiter EXCEPT ![t] = "armed"]
  /\ woken' = [woken EXCEPT ![t] = FALSE]
  /\ UNCHANGED <<store, cache, taskVars, netVars, minted, boundVars, historyVars>>

Look(t) ==
  /\ waiter[t] = "armed"
  /\ IF cache[t] # None /\ cache[t].state = "Completed"
       THEN waiter' = [waiter EXCEPT ![t] = "idle"] /\ woken' = [woken EXCEPT ![t] = FALSE]
       ELSE waiter' = [waiter EXCEPT ![t] = "waiting"] /\ UNCHANGED woken
  /\ UNCHANGED <<store, cache, taskVars, netVars, minted, boundVars, historyVars>>

WaitTimeout(t) ==
  /\ waiter[t] = "waiting" /\ ~ woken[t]
  /\ waiter' = [waiter EXCEPT ![t] = "idle"]
  /\ UNCHANGED <<store, cache, taskVars, netVars, woken, minted, boundVars, historyVars>>

-----------------------------------------------------------------------------
(* Faults.                                                                 *)

\* An agent stops and starts again; ensure_cache loads what storage has.
Restart(own, rows) ==
  /\ cache' = [r \in Rows |-> IF r \in rows THEN store[r] ELSE cache[r]]
  /\ todo' = [x \in Tasks |-> IF x \in own THEN <<>> ELSE todo[x]]
  /\ phase' = [x \in Tasks |-> IF x \in own THEN "load" ELSE phase[x]]
  /\ ctx' = [x \in Tasks |-> IF x \in own THEN NoContext ELSE ctx[x]]
  /\ copy' = [x \in Tasks |-> IF x \in own THEN None ELSE copy[x]]
  /\ base' = [x \in Tasks |-> IF x \in own THEN None ELSE base[x]]

Crash ==
  /\ Fault
  /\ \/ /\ Restart(RequesterTasks, Threads)
        /\ waiter' = [t \in Threads |-> "idle"]
        /\ woken' = [t \in Threads |-> FALSE]
     \/ Restart(ResponderTasks, Slots) /\ UNCHANGED waitVars
  /\ broken' = TRUE
  /\ UNCHANGED <<store, netVars, minted, replays, touches, overlapped, stale>>

Lose(m) ==
  /\ m \in sent
  /\ Fault
  /\ sent' = sent \ {m}
  /\ broken' = TRUE
  /\ UNCHANGED <<store, cache, taskVars, handled, waitVars, minted, replays, touches,
                 overlapped, stale>>

-----------------------------------------------------------------------------
TaskStep(x) == Create(x) \/ Load(x) \/ Rewrite(x) \/ WriteStorage(x) \/ WriteCache(x) \/ Send(x)

WaitStep(t) == Arm(t) \/ Look(t)

Next ==
  \/ \E x \in Tasks :
       \/ AcceptInvitation(x) \/ TouchMetadata(x)
       \/ \E m \in sent : Handle(x, m)
       \/ TaskStep(x) \/ WriteFails(x) \/ SendFails(x)
  \/ \E t \in Threads : WaitStep(t) \/ WaitTimeout(t)
  \/ \E m \in sent : Lose(m)
  \/ Crash

Spec == Init /\ [][Next]_vars

\* A bound: TLC does not follow what becomes of a thread that was disturbed.
Undisturbed == \A t \in Threads : Orderly(t)
BoundedNext == Undisturbed /\ Next

\* A message that is not lost is handled once; the runtime polls every task
\* that is ready.
Fairness ==
  /\ \A x \in Tasks : WF_vars(Undisturbed /\ TaskStep(x))
  /\ WF_vars(Undisturbed /\ \E x \in Tasks : \E m \in sent \ handled : Handle(x, m))

FairSpec == Init /\ [][BoundedNext]_vars /\ Fairness
-----------------------------------------------------------------------------
(* Properties.  A record that was written from an outdated copy, and a     *)
(* thread whose request was handled by two tasks at once, are excepted     *)
(* where the code has nothing against them.                                *)

Operations ==
  {"create", "respond", "adopt", "rewrite", "send", "receive", "complete", "finish", "touch"}

\* Type invariant; a task that writes has a copy, of the thread it works on.
TypeOK ==
  /\ store \in [Rows -> ConnectionRecord \cup {None}]
  /\ cache \in [Rows -> ConnectionRecord \cup {None}]
  /\ \A r \in Rows : cache[r] # None => store[r] # None
  /\ todo \in [Tasks -> Seq(Operations)]
  /\ phase \in [Tasks -> {"load", "store", "cache"}]
  /\ ctx \in [Tasks -> Context]
  /\ copy \in [Tasks -> ConnectionRecord \cup {None}]
  /\ base \in [Tasks -> ConnectionRecord \cup {None}]
  /\ \A x \in Tasks : phase[x] # "load" => ~ Idle(x) /\ copy[x] # None
  /\ \A x \in Tasks : copy[x] # None => copy[x].thread = ctx[x].thread
  /\ \A x \in Tasks : Idle(x) <=> ctx[x] = NoContext
  /\ sent \cup handled \subseteq Message
  /\ waiter \in [Threads -> {"idle", "armed", "waiting"}]
  /\ woken \in [Threads -> BOOLEAN]
  /\ {minted, replays, touches, faults} \subseteq Nat
  /\ stale \subseteq Rows /\ overlapped \subseteq Threads /\ broken \in BOOLEAN

\* The DID the requester has for the responder is the one in the responder's
\* storage, also after a crash: the response leaves after it is written.
AgreedDid ==
  \A t \in Threads : Orderly(t) /\ store[t] # None /\ store[t].did # None =>
    \E r \in Answered(t) : store[r].did = store[t].did /\ store[r].state \in {"ResponseSent", "Completed"}

\* The responder completes a connection only if the requester durably has.
BothComplete ==
  \A t \in Threads, r \in Slots :
    Orderly(t) /\ r \in Answered(t) /\ store[r].state = "Completed" => store[t].state = "Completed"

\* A request that is delivered again does not make a second connection, also
\* across a restart, unless two tasks look for the first at the same time.
OneConnectionPerThread ==
  \A t \in Threads : t \notin overlapped => Cardinality(Answered(t)) <= 1

\* A waiter that sleeps has not missed the write that completes its record.
NoLostWakeUp ==
  \A t \in Threads : waiter[t] = "waiting" /\ ~ woken[t] =>
    cache[t] = None \/ cache[t].state # "Completed"

=============================================================================
