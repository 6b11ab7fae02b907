------------------------- MODULE CredentialExchange -------------------------
(***************************************************************************)
(* The issuing of one AnonCreds credential, that is one thread: the        *)
(* exchange service, its handlers and the storage-backed repository of     *)
(* protocols/credentials/src, with the holder service of anoncreds_core    *)
(* they call.                                                              *)
(*                                                                         *)
(* An operation loads a record from the cache, checks its state, lets the  *)
(* AnonCreds service work, and writes its copy to storage and then to the  *)
(* cache.  Each is an await, and no lock keeps two operations apart.       *)
(* Handlers look a record up by its thread; a thread can have several.     *)
(***************************************************************************)
EXTENDS Naturals, FiniteSets, Sequences

CONSTANTS
  HolderRows, IssuerRows,    \* ids of exchange records
  HolderTasks, IssuerTasks,  \* handlers and calls that run at the same time
  MaxReplays,                \* bound: messages delivered a second time
  MaxCalls,                  \* bound: calls of accept_... and abandon_exchange
  MaxFaults,                 \* bound: crashes, lost messages, failing calls
  None

Rows == HolderRows \cup IssuerRows
Tasks == HolderTasks \cup IssuerTasks

ASSUME CredentialAssumption ==
  /\ HolderRows \cap IssuerRows = {} /\ HolderTasks \cap IssuerTasks = {}
  /\ {MaxReplays, MaxCalls, MaxFaults} \subseteq Nat
  /\ None \notin Rows \cup Tasks \cup Nat

VARIABLES
  autoAccept,  \* auto_accept_offers of the holder
  opened,      \* whether one of the two has started the exchange
  store,       \* exchange records in storage
  cache,       \* the repositories' caches
  registered,  \* records with attributes in the request handler's own map
  requests,    \* how many requests the holder has made
  kept,        \* its request metadata of this thread in memory: of which request
  metadata,    \* those in storage
  secret,      \* whether its link secret is in memory
  listed,      \* how many credentials its wallet lists
  held,        \* how many it has stored
  issued,      \* how many credentials the issuer has sent
  todo,        \* the operations a task still has to do
  phase,       \* where it is in the first of them
  ctx,         \* the record, the request and the attributes it works with
  copy,        \* its copy of the record
  sent,        \* messages on their way
  handled,     \* those that were handled at least once
  replayed,    \* the types of message that were handled twice
  calls, faults,
  harm         \* history: what went wrong that the code does not guard against

storageVars == <<store, cache, registered>>
holderVars == <<requests, kept, metadata, secret, listed, held>>
taskVars == <<todo, phase, ctx, copy>>
netVars == <<sent, handled, replayed>>
boundVars == <<calls, faults>>
vars == <<autoAccept, opened, storageVars, holderVars, issued, taskVars, netVars, boundVars, harm>>

\* The terminal states the service gives a record, which is never Declined.
Terminal == {"Done", "Abandoned"}

\* The others.
HolderStates == {"ProposalSent", "OfferReceived", "RequestSent"} \cup Terminal
IssuerStates ==
  {"ProposalReceived", "OfferSent", "RequestReceived", "CredentialIssued"} \cup Terminal

ASSUME RecordAssumption ==
  /\ None \notin HolderStates \cup IssuerStates
  /\ None \notin [state : HolderStates \cup IssuerStates, auto : BOOLEAN, request : Nat \cup {None}]

Exchange(s) == [state |-> s, auto |-> FALSE, request |-> None]

Message(type, q) == [type |-> type, request |-> q]

NoContext == [row |-> None, request |-> None, auto |-> FALSE]

Init ==
  /\ autoAccept \in BOOLEAN /\ opened = FALSE
  /\ store = [r \in Rows |-> None] /\ cache = [r \in Rows |-> None]
  /\ registered = {}
  /\ requests = 0 /\ kept = None /\ metadata = None /\ secret = FALSE
  /\ listed = 0 /\ held = 0 /\ issued = 0
  /\ todo = [x \in Tasks |-> <<>>]
  /\ phase = [x \in Tasks |-> "load"]
  /\ ctx = [x \in Tasks |-> NoContext]
  /\ copy = [x \in Tasks |-> None]
  /\ sent = {} /\ handled = {} /\ replayed = {}
  /\ calls = 0 /\ faults = 0
  /\ harm = {}

Call == calls < MaxCalls /\ calls' = calls + 1
Fault == faults < MaxFaults /\ faults' = faults + 1

Idle(x) == todo[x] = <<>>
Own(x) == IF x \in HolderTasks THEN HolderRows ELSE IssuerRows

\* find_by_thread_id: any of the agent's records, in the order of a hash map.
Found(x) == {r \in Own(x) : cache[r] # None}

\* The task a new call or handler becomes; which one makes no difference.
Spare(own) == CHOOSE x \in own \cup {None} : IF x = None THEN \A y \in own : ~ Idle(y) ELSE Idle(x)

\* The id of a new record; none is left at the bound.
NewRow(own) ==
  CHOOSE r \in own \cup {None} :
    LET free(q) == store[q] = None /\ \A y \in Tasks : ctx[y].row # q
    IN  IF r = None THEN \A q \in own : ~ free(q) ELSE free(r)

\* Task x starts on the operations p.
Start(x, p, r, q, a) ==
  /\ r # None
  /\ todo' = [todo EXCEPT ![x] = p]
  /\ ctx' = [ctx EXCEPT ![x] = [row |-> r, request |-> q, auto |-> a]]
  /\ UNCHANGED <<phase, copy>>

Return(x) ==
  /\ todo' = [todo EXCEPT ![x] = <<>>]
  /\ phase' = [phase EXCEPT ![x] = "load"]
  /\ ctx' = [ctx EXCEPT ![x] = NoContext]
  /\ copy' = [copy EXCEPT ![x] = None]

\* The first operation is done.
Proceed(x) ==
  IF Len(todo[x]) = 1
    THEN Return(x)
    ELSE /\ todo' = [todo EXCEPT ![x] = Tail(@)]
         /\ phase' = [phase EXCEPT ![x] = "load"]
         /\ UNCHANGED <<ctx, copy>>

-----------------------------------------------------------------------------
(* Calls of the applications.                                              *)

\* The attributes go into the record (POST /issue/offer), into the request
\* handler's map (the workflow action), or are given later.
Offer(x) ==
  /\ x = Spare(IssuerTasks) /\ ~ opened
  /\ opened' = TRUE
  /\ \E p \in {<<>>, <<"setAttributes">>, <<"register">>} :
       Start(x, <<"create">> \o p \o <<"sendOffer">>, NewRow(IssuerRows), None, FALSE)
  /\ UNCHANGED <<autoAccept, storageVars, holderVars, issued, netVars, boundVars, harm>>

Propose(x) ==
  /\ x = Spare(HolderTasks) /\ ~ opened
  /\ opened' = TRUE
  /\ Start(x, <<"propose", "sendPropose">>, NewRow(HolderRows), None, FALSE)
  /\ UNCHANGED <<autoAccept, storageVars, holderVars, issued, netVars, boundVars, harm>>

\* accept_proposal, accept_request and accept_offer.
Accept(x) ==
  /\ x \in {Spare(HolderTasks), Spare(IssuerTasks)}
  /\ Call
  /\ \E r \in Found(x) :
       \/ /\ cache[r].state = "ProposalReceived"
          /\ \E p \in {<<>>, <<"setAttributes">>} :
               Start(x, <<"acceptProposal">> \o p \o <<"sendOffer">>, r, None, FALSE)
       \/ /\ cache[r].state = "RequestReceived"
          /\ Start(x, <<"acceptRequest", "sendIssue">>, r, None, FALSE)
       \/ /\ cache[r].state = "OfferReceived"
          /\ Start(x, <<"acceptOffer", "sendRequest">>, r, None, FALSE)
  /\ UNCHANGED <<autoAccept, opened, storageVars, holderVars, issued, netVars, faults, harm>>

\* abandon_exchange, also when a problem report asks for it and the application
\* has registered a handler for these.
Abandon(x) ==
  /\ x \in {Spare(HolderTasks), Spare(IssuerTasks)}
  /\ Call
  /\ \E r \in Found(x) : cache[r].state \notin Terminal /\ Start(x, <<"abandon">>, r, None, FALSE)
  /\ harm' = harm \cup {"cut"}
  /\ UNCHANGED <<autoAccept, opened, storageVars, holderVars, issued, netVars, faults>>

-----------------------------------------------------------------------------
(* Handlers.                                                               *)

\* store_proposal; for an application that registers ProposeCredentialHandler,
\* which the agent's own module does not.
HandlePropose(x) ==
  \/ Found(x) # {} /\ UNCHANGED taskVars
  \/ Found(x) = {} /\ Start(x, <<"storeProposal">>, NewRow(IssuerRows), None, FALSE)

\* Every offer makes a record.
HandleOffer(x) ==
  Start(x, IF autoAccept THEN <<"storeOffer", "acceptOffer", "sendRequest">> ELSE <<"storeOffer">>,
        NewRow(HolderRows), None, FALSE)

\* The record is read here, before the request is stored in it.
HandleRequest(x, q) ==
  \/ Found(x) = {} /\ UNCHANGED taskVars
  \/ \E r \in Found(x) : Start(x, <<"storeRequest", "decide">>, r, q, cache[r].auto)

\* Mutant of HandleIssue: the credential is acknowledged before it is stored.
HandleIssueEager(x, q) == \E r \in Found(x) : Start(x, <<"sendAck", "process">>, r, q, FALSE)

\* Mutant of HandleIssue: the credential is not acknowledged.
HandleIssueSilent(x, q) == \E r \in Found(x) : Start(x, <<"process">>, r, q, FALSE)

HandleIssue(x, q) ==
  \/ Found(x) = {} /\ UNCHANGED taskVars
  \/ \E r \in Found(x) : Start(x, <<"process", "sendAck">>, r, q, FALSE)

\* process_ack; an unknown thread is only logged.
HandleAck(x) ==
  \/ Found(x) = {} /\ UNCHANGED taskVars
  \/ \E r \in Found(x) : Start(x, <<"ack">>, r, None, FALSE)

\* The dispatcher calls the handler registered for the type of the message.
Handle(x, m) ==
  /\ m \in sent
  /\ handled' = handled \cup {m}
  /\ IF m \in handled
       THEN /\ m.type \notin replayed /\ Cardinality(replayed) < MaxReplays
            /\ replayed' = replayed \cup {m.type}
       ELSE UNCHANGED replayed
  /\ \/ /\ x = Spare(IssuerTasks)
        /\ \/ m.type = "propose" /\ HandlePropose(x)
           \/ m.type = "request" /\ HandleRequest(x, m.request)
           \/ m.type = "ack" /\ HandleAck(x)
     \/ /\ x = Spare(HolderTasks)
        /\ \/ m.type = "offer" /\ HandleOffer(x)
           \/ m.type = "issue" /\ HandleIssue(x, m.request)
  \* Two proposals handled together do not find each other's record.
  /\ harm' = IF \E y \in IssuerTasks : todo'[x] = <<"storeProposal">> /\ todo[y] = todo'[x]
               THEN harm \cup {"raced"} ELSE harm
  /\ UNCHANGED <<autoAccept, opened, storageVars, holderVars, issued, sent, boundVars>>

-----------------------------------------------------------------------------
(* The operations of a task.                                               *)

\* What the operations of the service insist on and leave: a state, or None
\* for the one the record is in.
Transition(from, to) == [from |-> from, to |-> to]

accept_proposal == Transition({"ProposalReceived"}, "OfferSent")
accept_offer == Transition({"OfferReceived"}, "RequestSent")
store_request == Transition({"OfferSent"}, "RequestReceived")
set_auto_issue_attributes == Transition(IssuerStates, None)
accept_request == Transition({"RequestReceived"}, "CredentialIssued")
process_credential == Transition({"RequestSent"}, "Done")
process_ack == Transition(IssuerStates \ {"Done"}, "Done")
abandon_exchange == Transition((HolderStates \cup IssuerStates) \ Terminal, "Abandoned")

Updates ==
  [acceptProposal |-> accept_proposal, acceptOffer |-> accept_offer,
   storeRequest |-> store_request, setAttributes |-> set_auto_issue_attributes,
   acceptRequest |-> accept_request, process |-> process_credential,
   ack |-> process_ack, abandon |-> abandon_exchange]

\* Those that make a record, and its first state.
Creates == [create |-> "OfferSent", propose |-> "ProposalSent",
            storeProposal |-> "ProposalReceived", storeOffer |-> "OfferReceived"]

\* Those that change what the AnonCreds service stores, between the check and
\* the write; the issuer's calls of the service change nothing.
Working == {"acceptOffer", "process"}

\* Mutant of Ready: a second credential is made for the same request.
ReadyToIssue(op, s) == s \in Updates[op].from \/ (op = "acceptRequest" /\ s = "CredentialIssued")

Ready(op, s) == s \in Updates[op].from

\* What it makes of the record.
Changed(op, rec, q) ==
  [state |-> IF Updates[op].to = None THEN rec.state ELSE Updates[op].to,
   auto |-> rec.auto \/ op = "setAttributes",
   request |-> IF op = "storeRequest" THEN q ELSE rec.request]

\* Another operation is between its load and its last write of the same
\* record, or at work on the same credential.
Busy(x) ==
  \E y \in Tasks \ {x} :
    /\ phase[y] # "load"
    /\ ctx[y].row = ctx[x].row \/ {Head(todo[x]), Head(todo[y])} = {"process"}

\* save of a new record.
Create(x) ==
  /\ ~ Idle(x) /\ phase[x] = "load" /\ Head(todo[x]) \in DOMAIN Creates
  /\ copy' = [copy EXCEPT ![x] = Exchange(Creates[Head(todo[x])])]
  /\ phase' = [phase EXCEPT ![x] = "store"]
  /\ UNCHANGED <<autoAccept, opened, storageVars, holderVars, issued, todo, ctx, netVars, boundVars, harm>>

\* find_by_id, the check, and the change of the copy.
Load(x) ==
  LET op == Head(todo[x])  rec == cache[ctx[x].row] IN
  /\ ~ Idle(x) /\ phase[x] = "load" /\ op \in DOMAIN Updates
  /\ \/ /\ rec = None \/ ~ Ready(op, rec.state)
        /\ Return(x) /\ UNCHANGED harm
     \/ /\ rec # None /\ Ready(op, rec.state)
        /\ copy' = [copy EXCEPT ![x] = Changed(op, rec, ctx[x].request)]
        /\ phase' = [phase EXCEPT ![x] = IF op \in Working THEN "work" ELSE "store"]
        /\ ctx' = [ctx EXCEPT ![x].request = IF op = "acceptRequest" THEN rec.request ELSE @]
        /\ harm' = IF Busy(x) THEN harm \cup {"raced"} ELSE harm
        /\ UNCHANGED todo
  /\ UNCHANGED <<autoAccept, opened, storageVars, holderVars, issued, netVars, boundVars>>

\* create_credential_request: loads the link secret, and keeps the metadata
\* under the thread.
MakeRequest(x) ==
  /\ phase[x] = "work" /\ Head(todo[x]) = "acceptOffer"
  /\ requests' = requests + 1
  /\ kept' = requests + 1
  /\ secret' = TRUE
  /\ ctx' = [ctx EXCEPT ![x].request = requests + 1]
  /\ copy' = [copy EXCEPT ![x].request = requests + 1]
  /\ phase' = [phase EXCEPT ![x] = "save"]
  /\ UNCHANGED <<autoAccept, opened, storageVars, metadata, listed, held, issued, todo, netVars,
                 boundVars, harm>>

\* Mutant of SaveMetadata: those of another request are replaced.
ReplaceMetadata(x) ==
  /\ phase[x] = "save" /\ Head(todo[x]) = "acceptOffer"
  /\ metadata' = ctx[x].request
  /\ phase' = [phase EXCEPT ![x] = "store"]
  /\ UNCHANGED <<autoAccept, opened, storageVars, requests, kept, secret, listed, held, issued,
                 todo, ctx, copy, netVars, boundVars, harm>>

\* A thread's metadata are inserted, and never replaced.
SaveMetadata(x) ==
  /\ phase[x] = "save" /\ Head(todo[x]) = "acceptOffer"
  /\ IF metadata = None
       THEN /\ metadata' = ctx[x].request
            /\ phase' = [phase EXCEPT ![x] = "store"]
            /\ UNCHANGED <<todo, ctx, copy>>
       ELSE Return(x) /\ UNCHANGED metadata
  /\ UNCHANGED <<autoAccept, opened, storageVars, requests, kept, secret, listed, held, issued,
                 netVars, boundVars, harm>>

\* The metadata a credential is opened with.
Opener == IF kept # None THEN kept ELSE metadata

\* process_credential of the holder service: opens a credential only for the
\* request whose metadata it has, and puts it into the list.  It does not load
\* the link secret.
KeepCredential(x) ==
  /\ phase[x] = "work" /\ Head(todo[x]) = "process"
  /\ IF secret /\ Opener = ctx[x].request
       THEN /\ listed' = listed + 1
            /\ phase' = [phase EXCEPT ![x] = "save"]
            /\ UNCHANGED <<todo, ctx, copy>>
       ELSE Return(x) /\ UNCHANGED listed
  /\ harm' = IF secret THEN harm ELSE harm \cup {"locked"}
  /\ UNCHANGED <<autoAccept, opened, storageVars, requests, kept, metadata, secret, held, issued,
                 netVars, boundVars>>

SaveCredential(x) ==
  /\ phase[x] = "save" /\ Head(todo[x]) = "process"
  /\ held' = held + 1
  /\ kept' = None
  /\ phase' = [phase EXCEPT ![x] = "forget"]
  /\ UNCHANGED <<autoAccept, opened, storageVars, requests, metadata, secret, listed, issued,
                 todo, ctx, copy, netVars, boundVars, harm>>

\* Mutant of ForgetMetadata: they stay.
ForgetNothing(x) ==
  /\ phase[x] = "forget"
  /\ phase' = [phase EXCEPT ![x] = "store"]
  /\ UNCHANGED <<autoAccept, opened, storageVars, holderVars, issued, todo, ctx, copy,
                 netVars, boundVars, harm>>

\* An error of the deletion is ignored.
ForgetMetadata(x) ==
  /\ phase[x] = "forget"
  /\ \/ metadata' = None /\ UNCHANGED <<faults, harm>>
     \/ Fault /\ harm' = harm \cup {"torn"} /\ UNCHANGED metadata
  /\ phase' = [phase EXCEPT ![x] = "store"]
  /\ UNCHANGED <<autoAccept, opened, storageVars, requests, kept, secret, listed, held, issued,
                 todo, ctx, copy, netVars, calls>>

\* ensure_link_secret, when another exchange or a proof needs the secret.
LoadSecret ==
  /\ ~ secret /\ secret' = TRUE
  /\ UNCHANGED <<autoAccept, opened, storageVars, requests, kept, metadata, listed, held, issued,
                 taskVars, netVars, boundVars, harm>>

WriteStorage(x) ==
  /\ phase[x] = "store"
  /\ store' = [store EXCEPT ![ctx[x].row] = copy[x]]
  /\ phase' = [phase EXCEPT ![x] = "cache"]
  /\ UNCHANGED <<autoAccept, opened, cache, registered, holderVars, issued, todo, ctx, copy,
                 netVars, boundVars, harm>>

WriteCache(x) ==
  /\ phase[x] = "cache"
  /\ cache' = [cache EXCEPT ![ctx[x].row] = copy[x]]
  /\ Proceed(x)
  /\ UNCHANGED <<autoAccept, opened, store, registered, holderVars, issued, netVars, boundVars, harm>>

Register(x) ==
  /\ ~ Idle(x) /\ Head(todo[x]) = "register"
  /\ registered' = registered \cup {ctx[x].row}
  /\ Proceed(x)
  /\ UNCHANGED <<autoAccept, opened, store, cache, holderVars, issued, netVars, boundVars, harm>>

\* The request handler issues at once if it has attributes.
Decide(x) ==
  /\ ~ Idle(x) /\ Head(todo[x]) = "decide"
  /\ IF ctx[x].auto \/ ctx[x].row \in registered
       THEN /\ todo' = [todo EXCEPT ![x] = <<"acceptRequest", "unregister", "sendIssue">>]
            /\ UNCHANGED <<phase, ctx, copy>>
       ELSE Return(x)
  /\ UNCHANGED <<autoAccept, opened, storageVars, holderVars, issued, netVars, boundVars, harm>>

Unregister(x) ==
  /\ ~ Idle(x) /\ Head(todo[x]) = "unregister"
  /\ registered' = registered \ {ctx[x].row}
  /\ Proceed(x)
  /\ UNCHANGED <<autoAccept, opened, store, cache, holderVars, issued, netVars, boundVars, harm>>

Sending == [sendOffer |-> "offer", sendPropose |-> "propose", sendRequest |-> "request",
            sendIssue |-> "issue", sendAck |-> "ack"]

Send(x) ==
  /\ ~ Idle(x) /\ Head(todo[x]) \in DOMAIN Sending
  /\ LET type == Sending[Head(todo[x])] IN
     /\ sent' = sent \cup
          {Message(type, IF type \in {"request", "issue"} THEN ctx[x].request ELSE None)}
     /\ issued' = IF type = "issue" THEN issued + 1 ELSE issued
  /\ Proceed(x)
  /\ UNCHANGED <<autoAccept, opened, storageVars, holderVars, handled, replayed, boundVars, harm>>

-----------------------------------------------------------------------------
(* Faults.                                                                 *)

\* A write, the AnonCreds service or the transport returns an error.
Fail(x) ==
  /\ ~ Idle(x)
  /\ phase[x] \in {"work", "save", "store"} \/ Head(todo[x]) \in DOMAIN Sending
  /\ Fault
  /\ Return(x)
  \* A credential that could not be saved stays in the list.
  /\ harm' = harm \cup {"cut"}
                  \cup (IF phase[x] = "save" /\ Head(todo[x]) = "process" THEN {"ghost"} ELSE {})
  /\ UNCHANGED <<autoAccept, opened, storageVars, holderVars, issued, netVars, calls>>

\* An agent stops and starts again; ensure_cache loads what storage has.
Crash(tasks, rows) ==
  /\ Fault
  /\ cache' = [r \in Rows |-> IF r \in rows THEN store[r] ELSE cache[r]]
  /\ registered' = registered \ rows
  /\ todo' = [x \in Tasks |-> IF x \in tasks THEN <<>> ELSE todo[x]]
  /\ phase' = [x \in Tasks |-> IF x \in tasks THEN "load" ELSE phase[x]]
  /\ ctx' = [x \in Tasks |-> IF x \in tasks THEN NoContext ELSE ctx[x]]
  /\ copy' = [x \in Tasks |-> IF x \in tasks THEN None ELSE copy[x]]
  /\ harm' = harm \cup (IF registered' # registered \/ \E x \in tasks : ~ Idle(x)
                           THEN {"cut"} ELSE {})
                  \cup (IF \E x \in tasks : phase[x] = "forget" THEN {"torn"} ELSE {})
  /\ UNCHANGED <<autoAccept, opened, store, issued, netVars, calls>>

\* The holder has only what is in storage; its link secret is not loaded.
CrashHolder ==
  /\ Crash(HolderTasks, HolderRows)
  /\ kept' = None /\ secret' = FALSE /\ listed' = held
  /\ UNCHANGED <<requests, metadata, held>>

CrashIssuer == Crash(IssuerTasks, IssuerRows) /\ UNCHANGED holderVars

\* A message is never handled.
Lose(m) ==
  /\ m \in sent \ handled
  /\ Fault
  /\ sent' = sent \ {m}
  /\ harm' = harm \cup {"cut"}
  /\ UNCHANGED <<autoAccept, opened, storageVars, holderVars, issued, taskVars, handled, replayed, calls>>

-----------------------------------------------------------------------------
TaskStep(x) ==
  \/ Create(x) \/ Load(x) \/ MakeRequest(x) \/ SaveMetadata(x)
  \/ KeepCredential(x) \/ SaveCredential(x) \/ ForgetMetadata(x)
  \/ WriteStorage(x) \/ WriteCache(x)
  \/ Register(x) \/ Decide(x) \/ Unregister(x) \/ Send(x)

Next ==
  \/ \E x \in Tasks :
       \/ Offer(x) \/ Propose(x) \/ Accept(x) \/ Abandon(x)
       \/ \E m \in sent : Handle(x, m)
       \/ TaskStep(x) \/ Fail(x)
  \/ \E m \in sent : Lose(m)
  \/ LoadSecret \/ CrashHolder \/ CrashIssuer

Spec == Init /\ [][Next]_vars

\* Bound: the run does not follow what becomes of an exchange two of whose
\* operations overlapped on a record, of which only DoneMeansHeld speaks.
Unraced == "raced" \notin harm

BoundedNext == Unraced /\ Next

\* A message that is not lost is handled once; the runtime polls every task
\* that is ready.  The applications need not do anything.
Fairness ==
  /\ \A x \in Tasks : WF_vars(Unraced /\ TaskStep(x))
  /\ WF_vars(Unraced /\ \E x \in Tasks : \E m \in sent \ handled : Handle(x, m))

FairSpec == Init /\ [][BoundedNext]_vars /\ Fairness
-----------------------------------------------------------------------------
(* Properties.                                                             *)

Issuers == {r \in IssuerRows : store[r] # None}
Holders == {r \in HolderRows : store[r] # None}

Requests == {None} \cup 1 .. requests
ExchangeRecord == [state : HolderStates \cup IssuerStates, auto : BOOLEAN, request : Requests]
StatesOf(r) == IF r \in HolderRows THEN HolderStates ELSE IssuerStates
MessageTypes == {"propose", "offer", "request", "issue", "ack"}
Operations ==
  DOMAIN Updates \cup DOMAIN Creates \cup DOMAIN Sending \cup {"register", "decide", "unregister"}

\* Type invariant; a cached record is a stored one, a task that writes has a
\* copy, and one that has something to do has a record of its own agent's.
TypeOK ==
  /\ autoAccept \in BOOLEAN /\ opened \in BOOLEAN
  /\ store \in [Rows -> ExchangeRecord \cup {None}] /\ cache \in [Rows -> ExchangeRecord \cup {None}]
  /\ \A r \in Rows : {store[r], cache[r]} \subseteq
       {None} \cup {rec \in ExchangeRecord : rec.state \in StatesOf(r)}
  /\ \A r \in Rows : cache[r] # None => store[r] # None
  /\ registered \subseteq IssuerRows
  /\ {requests, issued, listed, held, calls, faults} \subseteq Nat
  /\ {kept, metadata} \subseteq Requests /\ secret \in BOOLEAN
  /\ todo \in [Tasks -> Seq(Operations)]
  /\ phase \in [Tasks -> {"load", "work", "save", "forget", "store", "cache"}]
  /\ ctx \in [Tasks -> [row : Rows \cup {None}, request : Requests, auto : BOOLEAN]]
  /\ copy \in [Tasks -> ExchangeRecord \cup {None}]
  /\ \A x \in Tasks : phase[x] # "load" => ~ Idle(x) /\ copy[x] # None
  /\ \A x \in Tasks : IF Idle(x) THEN ctx[x] = NoContext ELSE ctx[x].row \in Own(x)
  /\ sent \cup handled \subseteq [type : MessageTypes, request : Requests]
  /\ replayed \subseteq MessageTypes
  /\ harm \subseteq {"raced", "cut", "torn", "ghost", "locked"}

\* An exchange is Done, on either side, only if the holder has durably stored
\* the credential: the acknowledgement follows the write.
DoneMeansHeld == \A r \in Rows : store[r] # None /\ store[r].state = "Done" => held > 0

\* A request that is delivered again, also after a restart, is not answered
\* with a second credential, unless two calls of accept_request overlap.
IssuedOnce == "raced" \notin harm => issued <= 1

\* A credential message that is delivered again, also after a crash that left
\* the exchange in RequestSent, is not stored a second time, unless a crash or
\* an ignored error left the request metadata behind the stored credential;
\* and the wallet does not list it twice, unless saving it had failed.
HeldOnce ==
  harm \cap {"raced", "torn"} = {} => held <= 1 /\ ("ghost" \in harm \/ listed <= 1)

\* Until the credential is stored, the stored request metadata are those of the
\* request the issuer has: an offer that is delivered again, or accepted by two
\* calls at once, gives no second request and does not replace them.
MetadataKept ==
  \A r \in Issuers : store[r].request # None => held > 0 \/ metadata = store[r].request

\* After a proposal, or an offer that is handled twice, the holder has two
\* records of the thread and may look up the wrong one.
Disturbed == harm # {} \/ Cardinality(Holders) > 1

\* An offer whose attributes are known and which the holder accepts by itself
\* ends with both exchanges Done.  Restarts of an agent that has nothing
\* under way, and any message but the offer delivered again, do not prevent
\* it; except that a holder restarted before the credential comes gives it up
\* ("locked") if nothing else has loaded the link secret by then.
ExchangeCompletes ==
  autoAccept /\ (registered # {} \/ \E r \in Issuers : store[r].auto)
    ~> \/ Disturbed
       \/ /\ \E r \in Issuers : store[r].state = "Done"
          /\ \E r \in Holders : store[r].state = "Done"
=============================================================================
